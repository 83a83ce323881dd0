----------------------------- MODULE PortalAccount -----------------------------
(***************************************************************************)
(* The e-mail address of a portal account, which is kept twice: in         *)
(* portal_auth.identity (crates/bss-portal-auth) and in crm.contact_medium *)
(* (services/crm).  Login creates identities and links them to the customer *)
(* with the same address; signup creates a customer and links it; the      *)
(* e-mail change writes both rows in one transaction; a CSR adds and       *)
(* removes addresses in CRM alone.                                         *)
(*                                                                         *)
(* Transactions run at READ COMMITTED, so a request is two steps: what it  *)
(* reads, and the commit of what it writes.  Every commit here takes its   *)
(* row locks in the same order, so that it is one step.  A request may     *)
(* stop in between.  Login codes, sessions and step-up are left out: they  *)
(* decide who may call, the steps below are what the calls do.             *)
(***************************************************************************)
EXTENDS Naturals, FiniteSets

CONSTANTS
    Email, Identity, Customer,
    Row,          \* rows of email_change_pending, in the order of their numbers
    Request,      \* requests under way at the same time
    None,
    MaxEdited     \* bound: customers whose addresses a CSR edits

Gone == "gone"    \* a deleted row of crm.contact_medium

ASSUME AccountAssumption ==
    /\ None \notin Email \union Identity \union Customer
    /\ Gone \notin Email \union {None}
    /\ Row \subseteq Nat

VARIABLES
    identity,     \* portal_auth.identity: [status, email, customer]
    media,        \* crm.contact_medium, by customer: the row it was created with and one
                  \* more; None where there is no row, Gone where it is deleted
    changes,      \* portal_auth.email_change_pending: [identity, email, status]
    requests,
    edited,       \* customers whose addresses a CSR added to or removed
    lost          \* a login or a signup has overwritten a link it had not seen

vars == <<identity, media, changes, requests, edited, lost>>

Medium == {"first", "added"}
NoCustomer == [m \in Medium |-> None]

NoIdentity == [status |-> "none", email |-> None, customer |-> None]
NoChange == [status |-> "none", identity |-> None, email |-> None]
Idle == [at |-> "idle"]

InFlight ==
    [at : {"login"}, identity : Identity, customer : Customer \union {None}]
    \union [at : {"create"}, identity : Identity, email : Email]
    \union [at : {"link", "linking"}, identity : Identity, customer : Customer]
    \union [at : {"start"}, identity : Identity, email : Email]
    \union [at : {"verify"}, row : Row, customer : Customer, medium : Medium]

Active(c) == {media[c][m] : m \in Medium} \ {None, Gone}
Registered(c) == media[c] # NoCustomer
Exists(i) == identity[i].status # "none"

(* find_customer_by_email *)
Holder(e) == {c \in Customer : e \in Active(c)}

Pending(i) == {k \in Row : changes[k].identity = i /\ changes[k].status = "pending"}

TypeOK ==
    /\ identity \in [Identity -> [status : {"none", "unverified", "verified", "registered"},
                                  email : Email \union {None}, customer : Customer \union {None}]]
    /\ media \in [Customer -> [Medium -> Email \union {None, Gone}]]
    /\ changes \in [Row -> [status : {"none", "pending", "consumed", "cancelled", "expired"},
                            identity : Identity \union {None}, email : Email \union {None}]]
    /\ requests \in [Request -> InFlight \union {Idle}]
    /\ edited \subseteq Customer /\ lost \in BOOLEAN
    /\ \A i \in Identity : /\ Cardinality(Pending(i)) <= 1
                           /\ identity[i].status = "registered" <=> identity[i].customer # None

Init ==
    /\ identity = [i \in Identity |-> NoIdentity]
    /\ media = [c \in Customer |-> NoCustomer]
    /\ changes = [k \in Row |-> NoChange]
    /\ requests = [r \in Request |-> Idle]
    /\ edited = {} /\ lost = FALSE

Begin(r, request) == requests[r] = Idle /\ requests' = [requests EXCEPT ![r] = request]
At(r, step) == requests[r].at = step
Done(r) == requests' = [requests EXCEPT ![r] = Idle]

-----------------------------------------------------------------------------
(* Login *)

(* start_email_login: a known address uses its row again. *)
LoginStart(i, e) ==
    /\ ~ Exists(i)
    /\ \A j \in Identity : identity[j].email # e
    /\ identity' = [identity EXCEPT ![i] = [status |-> "unverified", email |-> e, customer |-> None]]
    /\ UNCHANGED <<media, changes, requests, edited, lost>>

(* verify_email_login reads the link, and the customer with this address if there is none. *)
AutoLink(i) ==
    IF identity[i].customer # None THEN {identity[i].customer}
    ELSE IF Holder(identity[i].email) = {} THEN {None} ELSE Holder(identity[i].email)

LoginVerify(r, i) ==
    /\ Exists(i)
    /\ \E c \in AutoLink(i) : Begin(r, [at |-> "login", identity |-> i, customer |-> c])
    /\ UNCHANGED <<identity, media, changes, edited, lost>>

(* ... and writes back the link it read. *)
LoginCommit(r) ==
    LET i == requests[r].identity
        c == requests[r].customer
    IN  /\ At(r, "login")
        /\ identity' = [identity EXCEPT ![i].customer = c,
                                        ![i].status = IF c # None THEN "registered" ELSE "verified"]
        /\ lost' = (lost \/ identity[i].customer \notin {None, c})
        /\ Done(r)
        /\ UNCHANGED <<media, changes, edited>>

-----------------------------------------------------------------------------
(* Signup, for an identity that is verified and not linked *)

SignupSubmit(r, i) ==
    /\ identity[i].status = "verified"
    /\ Begin(r, [at |-> "create", identity |-> i, email |-> identity[i].email])
    /\ UNCHANGED <<identity, media, changes, edited, lost>>

(* create_customer refuses an address that is in use, and so does the unique index. *)
CreateCustomer(c, e) ==
    /\ ~ Registered(c)
    /\ Holder(e) = {}
    /\ media' = [media EXCEPT ![c]["first"] = e]

SignupCreate(r) ==
    /\ At(r, "create")
    /\ \/ \E c \in Customer :
            /\ CreateCustomer(c, requests[r].email)
            /\ requests' = [requests EXCEPT ![r] =
                  [at |-> "link", identity |-> requests[r].identity, customer |-> c]]
       \/ /\ Holder(requests[r].email) # {}
          /\ Done(r) /\ UNCHANGED media
    /\ UNCHANGED <<identity, changes, edited, lost>>

(* link_to_customer reads the link: one that is there stays, AlreadyLinked is only logged. *)
ReadLink(r) ==
    LET i == requests[r].identity
    IN  /\ At(r, "link")
        /\ \/ /\ identity[i].customer = None
              /\ requests' = [requests EXCEPT ![r] =
                    [at |-> "linking", identity |-> i, customer |-> requests[r].customer]]
           \/ identity[i].customer # None /\ Done(r)
        /\ UNCHANGED <<identity, media, changes, edited, lost>>

(* ... and writes it, in a statement of its own that does not ask again. *)
LinkToCustomer(r) ==
    LET i == requests[r].identity
        c == requests[r].customer
    IN  /\ At(r, "linking")
        /\ identity' = [identity EXCEPT ![i].customer = c, ![i].status = "registered"]
        /\ lost' = (lost \/ identity[i].customer \notin {None, c})
        /\ Done(r)
        /\ UNCHANGED <<media, changes, edited>>

-----------------------------------------------------------------------------
(* The e-mail change *)

(* start_email_change looks for the address in CRM, not among the identities. *)
ChangeStart(r, i, e) ==
    /\ identity[i].customer # None
    /\ Holder(e) = {}
    /\ Begin(r, [at |-> "start", identity |-> i, email |-> e])
    /\ UNCHANGED <<identity, media, changes, edited, lost>>

(* Mutant: the prior pending row is not voided. *)
ChangeStarted_NoVoid(r) ==
    LET i == requests[r].identity
        new == {k \in Row : changes[k] = NoChange}
    IN  /\ At(r, "start")
        /\ \E k \in new :
              /\ \A n \in new : k <= n
              /\ changes' = [changes EXCEPT ![k] =
                    [status |-> "pending", identity |-> i, email |-> requests[r].email]]
        /\ Done(r)
        /\ UNCHANGED <<identity, media, edited, lost>>

(* One transaction voids the prior row and inserts the new one. *)
ChangeStarted(r) ==
    LET i == requests[r].identity
        new == {k \in Row : changes[k] = NoChange}
    IN  /\ At(r, "start")
        /\ \E k \in new :
              /\ \A n \in new : k <= n
              /\ changes' = [n \in Row |->
                    IF n = k THEN [status |-> "pending", identity |-> i, email |-> requests[r].email]
                    ELSE IF n \in Pending(i) THEN [changes[n] EXCEPT !.status = "cancelled"]
                    ELSE changes[n]]
        /\ Done(r)
        /\ UNCHANGED <<identity, media, edited, lost>>

(* verify_email_change, with the right code: the row, the customer and one of its *)
(* addresses are read; a late row expires instead.                                *)
ChangeVerify(r, i) ==
    \E k \in Pending(i), c \in {identity[i].customer} \ {None} :
        /\ \E m \in Medium :
              /\ media[c][m] \in Email
              /\ Begin(r, [at |-> "verify", row |-> k, customer |-> c, medium |-> m])
        /\ UNCHANGED <<identity, media, changes, edited, lost>>

ChangeExpired(i) ==
    /\ \E k \in Pending(i) : changes' = [changes EXCEPT ![k].status = "expired"]
    /\ UNCHANGED <<identity, media, requests, edited, lost>>

(* uq_identity_email_active and uq_contact_medium_email_active; an UPDATE of a deleted *)
(* row changes nothing, and does not fail.                                              *)
IdentityTaken(i, e) == \E j \in Identity \ {i} : identity[j].email = e
MediumTaken(c, m, e) ==
    \E d \in Customer, n \in Medium : <<d, n>> # <<c, m>> /\ media[d][n] = e

(* Mutant: three commits in a row, and the second one fails. *)
ChangeCommit_Sequential(r) ==
    LET k == requests[r].row
        i == changes[k].identity
        e == changes[k].email
        c == requests[r].customer
        m == requests[r].medium
    IN  /\ At(r, "verify")
        /\ ~ (media[c][m] \in Email /\ MediumTaken(c, m, e))
        /\ media' = IF media[c][m] = Gone THEN media ELSE [media EXCEPT ![c][m] = e]
        /\ IF IdentityTaken(i, e) THEN UNCHANGED <<identity, changes>>
           ELSE /\ identity' = [identity EXCEPT ![i].email = e]
                /\ changes' = [changes EXCEPT ![k].status = "consumed"]
        /\ Done(r)
        /\ UNCHANGED <<edited, lost>>

(* Mutant: only the identity is written. *)
ChangeCommit_PortalOnly(r) ==
    LET k == requests[r].row
        i == changes[k].identity
        e == changes[k].email
    IN  /\ At(r, "verify")
        /\ ~ IdentityTaken(i, e)
        /\ identity' = [identity EXCEPT ![i].email = e]
        /\ changes' = [changes EXCEPT ![k].status = "consumed"]
        /\ Done(r)
        /\ UNCHANGED <<media, edited, lost>>

(* All writes in one transaction: both addresses and the row, whatever it is by now. *)
ChangeCommit(r) ==
    LET k == requests[r].row
        i == changes[k].identity
        e == changes[k].email
        c == requests[r].customer
        m == requests[r].medium
    IN  /\ At(r, "verify")
        /\ ~ IdentityTaken(i, e)
        /\ ~ (media[c][m] \in Email /\ MediumTaken(c, m, e))
        /\ media' = IF media[c][m] = Gone THEN media ELSE [media EXCEPT ![c][m] = e]
        /\ identity' = [identity EXCEPT ![i].email = e]
        /\ changes' = [changes EXCEPT ![k].status = "consumed"]
        /\ Done(r)
        /\ UNCHANGED <<edited, lost>>

ChangeCancel(i) ==
    /\ \E k \in Pending(i) : changes' = [changes EXCEPT ![k].status = "cancelled"]
    /\ UNCHANGED <<identity, media, requests, edited, lost>>

(* A request stops: the client is gone, or a unique index rolls the transaction back. *)
Stop(r) ==
    /\ requests[r] # Idle
    /\ Done(r)
    /\ UNCHANGED <<identity, media, changes, edited, lost>>

-----------------------------------------------------------------------------
(* CRM alone: update_contact_medium refuses an e-mail address, so a CSR creates *)
(* customers, adds addresses and removes them.                                  *)

CrmCreate(c, e) ==
    /\ CreateCustomer(c, e)
    /\ UNCHANGED <<identity, changes, requests, edited, lost>>

AddContactMedium(c, e) ==
    /\ Cardinality(edited \union {c}) <= MaxEdited
    /\ Registered(c) /\ media[c]["added"] = None
    /\ Holder(e) = {}
    /\ media' = [media EXCEPT ![c]["added"] = e]
    /\ edited' = edited \union {c}
    /\ UNCHANGED <<identity, changes, requests, lost>>

RemoveContactMedium(c, m) ==
    /\ Cardinality(edited \union {c}) <= MaxEdited
    /\ media[c][m] \in Email
    /\ media' = [media EXCEPT ![c][m] = Gone]
    /\ edited' = edited \union {c}
    /\ UNCHANGED <<identity, changes, requests, lost>>

-----------------------------------------------------------------------------
Commit(r) ==
    \/ LoginCommit(r) \/ SignupCreate(r) \/ ReadLink(r) \/ LinkToCustomer(r)
    \/ ChangeStarted(r) \/ ChangeCommit(r) \/ Stop(r)

Call(r, i) ==
    \/ LoginVerify(r, i) \/ SignupSubmit(r, i) \/ ChangeVerify(r, i)
    \/ \E e \in Email : ChangeStart(r, i, e)

Crm(c) ==
    \/ \E e \in Email : CrmCreate(c, e) \/ AddContactMedium(c, e)
    \/ \E m \in Medium : RemoveContactMedium(c, m)

Next ==
    \/ \E r \in Request : Commit(r) \/ \E i \in Identity : Call(r, i)
    \/ \E i \in Identity : \/ ChangeExpired(i) \/ ChangeCancel(i)
                           \/ \E e \in Email : LoginStart(i, e)
    \/ \E c \in Customer : Crm(c)

Spec == Init /\ [][Next]_vars

-----------------------------------------------------------------------------
(* PROPERTIES *)

(* The address a customer logs in with is the one CRM has for it, whatever logins, signups, *)
(* changes, cancellations and stopped requests come in between, as long as no CSR edited    *)
(* the addresses and no link was overwritten (verify_email_change, verify_email_login,         *)
(* link_to_customer).                                                                       *)
EmailsAgree ==
    ~ lost => \A i \in Identity :
        LET c == identity[i].customer
        IN  c # None /\ c \notin edited => identity[i].email = media[c]["first"]

(* Links are one to one, with the same exceptions: two accounts never meet in one customer,  *)
(* although nothing but the addresses prevents it (link_to_customer: "links are 1:1").       *)
LinksOneToOne ==
    ~ lost => \A i, j \in Identity :
        LET c == identity[i].customer
        IN  c # None /\ c \notin edited /\ identity[j].customer = c => i = j
=============================================================================
