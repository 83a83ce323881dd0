-------------------------- MODULE PortalAccountProofs --------------------------
(***************************************************************************)
(* What the two records of an e-mail address keep for any number of        *)
(* accounts, customers, addresses and requests at the same time.           *)
(***************************************************************************)
EXTENDS PortalAccount, FiniteSetTheorems, TLAPS

(* Next, with the commits, the calls and CRM's own writes told apart. *)
LEMMA NextCases ==
  ASSUME Next
  PROVE  \/ \E r \in Request : LoginCommit(r) \/ LinkToCustomer(r) \/ Stop(r)
         \/ \E r \in Request : SignupCreate(r)
         \/ \E r \in Request : ReadLink(r)
         \/ \E r \in Request : ChangeStarted(r) \/ ChangeCommit(r)
         \/ \E r \in Request, i \in Identity :
               LoginVerify(r, i) \/ SignupSubmit(r, i) \/ ChangeVerify(r, i)
         \/ \E r \in Request, i \in Identity, e \in Email : ChangeStart(r, i, e)
         \/ \E i \in Identity : ChangeExpired(i) \/ ChangeCancel(i)
         \/ \E i \in Identity, e \in Email : LoginStart(i, e)
         \/ \E c \in Customer, e \in Email : CrmCreate(c, e) \/ AddContactMedium(c, e)
         \/ \E c \in Customer, m \in Medium : RemoveContactMedium(c, m)
  BY DEF Next, Commit, Call, Crm

-----------------------------------------------------------------------------
(* The inductive invariant.  All of it is said of the time before a login has *)
(* overwritten a link.                                                        *)

(* No two accounts have the same address (uq_identity_email_active). *)
OneAddressEach ==
    \A i, j \in Identity : identity[i].email = identity[j].email /\ Exists(i) => i = j

(* A customer whose addresses no CSR has edited has one at most. *)
OneMedium ==
    \A c \in Customer \ edited :
        media[c]["first"] \in Email \union {None} /\ media[c]["added"] = None

(* Only an account with a customer has ever asked for a change. *)
RowsLinked ==
    \A k \in Row : changes[k].status # "none" => identity[changes[k].identity].customer # None

(* The customer a request is about to link i to still has the address of i. *)
SameAddress(i, c) ==
    identity[i].customer = None /\ c # None /\ c \notin edited =>
        identity[i].email = media[c]["first"]

(* What a request has read holds until its commit, in the form the commit needs. *)
StillTrue(r) ==
    LET q == requests[r]
    IN  /\ At(r, "login") => SameAddress(q.identity, q.customer)
        /\ At(r, "create") /\ identity[q.identity].customer = None =>
              identity[q.identity].email = q.email
        /\ At(r, "link") \/ At(r, "linking") => SameAddress(q.identity, q.customer)
        /\ At(r, "start") => identity[q.identity].customer # None
        /\ At(r, "verify") => /\ identity[changes[q.row].identity].customer = q.customer
                              /\ q.customer \notin edited => q.medium = "first"

Agreed ==
    \A i \in Identity :
        LET c == identity[i].customer
        IN  c # None /\ c \notin edited => identity[i].email = media[c]["first"]

Clean ==
    /\ OneAddressEach /\ OneMedium /\ RowsLinked /\ Agreed
    /\ \A r \in Request : StillTrue(r)

AccountInv == ~ lost => Clean

-----------------------------------------------------------------------------
(* What a request and the two tables hold. *)

LEMMA RequestFacts ==
  ASSUME TypeOK, NEW r \in Request
  PROVE  /\ At(r, "login") => /\ requests[r].identity \in Identity
                              /\ requests[r].customer \in Customer \union {None}
         /\ At(r, "create") => requests[r].identity \in Identity /\ requests[r].email \in Email
         /\ At(r, "link") \/ At(r, "linking") =>
               requests[r].identity \in Identity /\ requests[r].customer \in Customer
         /\ At(r, "start") => requests[r].identity \in Identity /\ requests[r].email \in Email
         /\ At(r, "verify") => /\ requests[r].row \in Row /\ requests[r].customer \in Customer
                               /\ requests[r].medium \in Medium
         /\ requests[r].at \in {"idle", "login", "create", "link", "linking", "start", "verify"}
  BY DEF TypeOK, InFlight, Idle, At

LEMMA RequestMoves ==
  ASSUME TypeOK, NEW r \in Request, NEW q, requests' = [requests EXCEPT ![r] = q]
  PROVE  /\ requests'[r] = q
         /\ \A s \in Request \ {r} : requests'[s] = requests[s]
         /\ q \in InFlight \union {Idle} => requests' \in [Request -> InFlight \union {Idle}]
  BY DEF TypeOK

LEMMA TableFacts ==
  ASSUME TypeOK
  PROVE  /\ \A i \in Identity : /\ identity[i].email \in Email \union {None}
                                /\ identity[i].customer \in Customer \union {None}
                                /\ Exists(i) <=> identity[i] # NoIdentity /\ identity[i].status # "none"
                                /\ identity[i].customer # None <=> identity[i].status = "registered"
         /\ \A c \in Customer, m \in Medium : media[c][m] \in Email \union {None, Gone}
         /\ \A k \in Row : /\ changes[k].identity \in Identity \union {None}
                           /\ changes[k].email \in Email \union {None}
  BY DEF TypeOK, Exists, NoIdentity

LEMMA LinkMoves ==
  ASSUME TypeOK, NEW i \in Identity, NEW c \in Customer \union {None},
         NEW st \in {"verified", "registered"},
         identity' = [identity EXCEPT ![i].customer = c, ![i].status = st]
  PROVE  /\ identity' \in [Identity -> [status : {"none", "unverified", "verified", "registered"},
                                        email : Email \union {None},
                                        customer : Customer \union {None}]]
         /\ identity'[i].status = st /\ identity'[i].customer = c
         /\ identity'[i].email = identity[i].email
         /\ \A j \in Identity \ {i} : identity'[j] = identity[j]
<1> DEFINE Rows == [status : {"none", "unverified", "verified", "registered"},
                    email : Email \union {None}, customer : Customer \union {None}]
<1> DEFINE row == [[identity[i] EXCEPT !.customer = c] EXCEPT !.status = st]
<1>1. identity \in [Identity -> Rows] /\ identity[i] \in Rows
  BY DEF TypeOK
<1>2. identity' = [identity EXCEPT ![i] = row]
  <2>1. [identity EXCEPT ![i].customer = c] = [identity EXCEPT ![i] = [identity[i] EXCEPT !.customer = c]]
    BY <1>1
  <2>. QED BY <1>1, <2>1
<1>3. row \in Rows /\ row.status = st /\ row.customer = c /\ row.email = identity[i].email
  BY <1>1
<1>4. /\ identity' \in [Identity -> Rows] /\ identity'[i] = row
      /\ \A j \in Identity \ {i} : identity'[j] = identity[j]
  <2> HIDE DEF row, Rows
  <2>. QED BY <1>1, <1>2, <1>3
<1>. QED BY <1>3, <1>4

(* A customer an address leads to has it. *)
LEMMA AutoLinkFacts ==
  ASSUME TypeOK, NEW i \in Identity, NEW c \in AutoLink(i)
  PROVE  /\ c \in Customer \union {None}
         /\ identity[i].customer # None => c = identity[i].customer
         /\ identity[i].customer = None /\ c # None =>
               \E m \in Medium : media[c][m] = identity[i].email
  BY TableFacts DEF AutoLink, Holder, Active

-----------------------------------------------------------------------------
(* Type correctness.  That an account has one pending change at most is kept  *)
(* as a statement about pairs of rows: of an infinite set of rows Cardinality *)
(* would say nothing.                                                         *)

PendingOnce == \A i \in Identity : \A k, n \in Pending(i) : k = n

(* TypeOK without the count. *)
Tables ==
    /\ identity \in [Identity -> [status : {"none", "unverified", "verified", "registered"},
                                  email : Email \union {None}, customer : Customer \union {None}]]
    /\ media \in [Customer -> [Medium -> Email \union {None, Gone}]]
    /\ changes \in [Row -> [status : {"none", "pending", "consumed", "cancelled", "expired"},
                            identity : Identity \union {None}, email : Email \union {None}]]
    /\ requests \in [Request -> InFlight \union {Idle}]
    /\ edited \subseteq Customer /\ lost \in BOOLEAN
    /\ \A i \in Identity : identity[i].status = "registered" <=> identity[i].customer # None

(* No row is there by halves: an account has an address, a change has an account and *)
(* an address, and what a request holds on to exists.                                *)
Filled ==
    /\ \A i \in Identity : Exists(i) => identity[i].email \in Email
    /\ \A k \in Row : changes[k].status # "none" =>
          changes[k].identity \in Identity /\ changes[k].email \in Email
    /\ \A r \in Request :
          /\ requests[r].at \in {"login", "create", "link", "linking"} => Exists(requests[r].identity)
          /\ At(r, "verify") => changes[requests[r].row].status # "none"

TypeInv == TypeOK /\ PendingOnce /\ Filled

LEMMA OneIsCounted == Tables /\ PendingOnce /\ Filled => TypeInv
<1> SUFFICES ASSUME Tables, PendingOnce, NEW i \in Identity PROVE Cardinality(Pending(i)) <= 1
  BY DEF TypeInv, TypeOK, Tables
<1>1. CASE Pending(i) = {}
  BY <1>1, FS_EmptySet
<1>2. CASE Pending(i) # {}
  <2>1. PICK k : k \in Pending(i)
    BY <1>2
  <2>2. Pending(i) = {k}
    BY <2>1 DEF PendingOnce
  <2>3. Cardinality({k}) = 1
    BY FS_Singleton
  <2>. QED BY <2>2, <2>3
<1>. QED BY <1>1, <1>2

LEMMA TypeInit == Init => TypeInv
<1> SUFFICES ASSUME Init PROVE TypeInv
  OBVIOUS
<1>1. PendingOnce
  BY AccountAssumption DEF Init, PendingOnce, Pending, NoChange
<1>2. lost \in BOOLEAN /\ edited \subseteq Customer
  BY DEF Init
<1>3. Tables
  <2>1. media \in [Customer -> [Medium -> Email \union {None, Gone}]]
    BY DEF Init, NoCustomer
  <2>. QED BY <1>2, <2>1 DEF Init, Tables, NoIdentity, NoChange
<1>4. Filled
  BY DEF Init, Filled, Exists, NoIdentity, NoChange, At, Idle
<1>. QED BY <1>1, <1>3, <1>4, OneIsCounted

(* Logins and links leave the changes alone. *)
LEMMA LoginType ==
  ASSUME TypeInv, NEW r \in Request, LoginCommit(r) \/ LinkToCustomer(r) \/ Stop(r)
  PROVE  Tables' /\ PendingOnce' /\ Filled'
<1>0. TypeOK /\ Filled /\ UNCHANGED <<media, changes, edited>> /\ Done(r)
  BY DEF TypeInv, LoginCommit, LinkToCustomer, Stop
<1>1. PendingOnce'
  BY <1>0 DEF TypeInv, PendingOnce, Pending
<1>2. /\ requests' \in [Request -> InFlight \union {Idle}]
      /\ requests'[r] = Idle /\ \A s \in Request \ {r} : requests'[s] = requests[s]
  BY <1>0, RequestMoves DEF Done
<1>3. lost' \in BOOLEAN
  <2>1. lost' = lost \/ LoginCommit(r) \/ LinkToCustomer(r)
    BY DEF Stop
  <2>2. LoginCommit(r) \/ LinkToCustomer(r) => lost' \in BOOLEAN
    BY Zenon DEF LoginCommit, LinkToCustomer
  <2>. QED BY <1>0, <2>1, <2>2 DEF TypeOK
<1>4. \/ identity' = identity
      \/ \E i \in Identity, c \in Customer \union {None}, st \in {"verified", "registered"} :
            /\ Exists(i) /\ (st = "registered" <=> c # None)
            /\ identity' = [identity EXCEPT ![i].customer = c, ![i].status = st]
  <2>1. CASE LoginCommit(r)
    BY <1>0, <2>1, RequestFacts DEF LoginCommit, Filled, At
  <2>2. CASE LinkToCustomer(r)
    <3>1. requests[r].identity \in Identity /\ requests[r].customer \in Customer /\ Exists(requests[r].identity)
      BY <1>0, <2>2, RequestFacts DEF LinkToCustomer, Filled, At
    <3>. QED BY <2>2, <3>1, AccountAssumption DEF LinkToCustomer
  <2>. QED BY <2>1, <2>2 DEF Stop
<1>5. Tables' /\ \A j \in Identity : (Exists(j)' <=> Exists(j)) /\ identity'[j].email = identity[j].email
  <2>1. CASE identity' = identity
    BY <1>0, <1>2, <1>3, <2>1 DEF Tables, TypeOK, Exists
  <2>2. ASSUME NEW i \in Identity, NEW c \in Customer \union {None}, NEW st \in {"verified", "registered"},
               Exists(i), st = "registered" <=> c # None,
               identity' = [identity EXCEPT ![i].customer = c, ![i].status = st]
        PROVE  Tables' /\ \A j \in Identity : (Exists(j)' <=> Exists(j)) /\ identity'[j].email = identity[j].email
    <3>1. /\ identity' \in [Identity -> [status : {"none", "unverified", "verified", "registered"},
                                        email : Email \union {None},
                                        customer : Customer \union {None}]]
          /\ identity'[i].status = st /\ identity'[i].customer = c
          /\ identity'[i].email = identity[i].email
          /\ \A j \in Identity \ {i} : identity'[j] = identity[j]
      BY <1>0, <2>2, LinkMoves
    <3>3. \A j \in Identity : identity'[j].status = "registered" <=> identity'[j].customer # None
      BY <1>0, <2>2, <3>1 DEF TypeOK
    <3>4. Tables'
      BY <1>0, <1>2, <1>3, <3>1, <3>3 DEF Tables, TypeOK
    <3>. QED BY <2>2, <3>1, <3>4 DEF Exists
  <2>. QED BY <1>4, <2>1, <2>2
<1>6. \A s \in Request : At(s, "login") \/ At(s, "create") \/ At(s, "link") \/ At(s, "linking") => requests[s].identity \in Identity
  BY <1>0, RequestFacts
<1>7. Filled'
  BY <1>0, <1>2, <1>5, <1>6 DEF Filled, At, Idle
<1>. QED BY <1>1, <1>5, <1>7

LEMMA SignupType ==
  ASSUME TypeInv, NEW r \in Request, SignupCreate(r)
  PROVE  Tables' /\ PendingOnce' /\ Filled'
<1>0. TypeOK /\ Filled /\ UNCHANGED <<identity, changes, edited, lost>>
  BY DEF TypeInv, SignupCreate
<1>1. PendingOnce'
  BY <1>0 DEF TypeInv, PendingOnce, Pending
<1>2. requests[r].identity \in Identity /\ requests[r].email \in Email /\ Exists(requests[r].identity)
  BY <1>0, RequestFacts DEF SignupCreate, Filled, At
<1>3. media' \in [Customer -> [Medium -> Email \union {None, Gone}]]
  BY <1>0, <1>2 DEF SignupCreate, CreateCustomer, TypeOK, Medium
<1>4. PICK q \in InFlight \union {Idle} :
         /\ requests' = [requests EXCEPT ![r] = q]
         /\ q.at # "verify" /\ (q.at \in {"login", "create", "link", "linking"} => Exists(q.identity))
  <2>1. ASSUME NEW c \in Customer
        PROVE  [at |-> "link", identity |-> requests[r].identity, customer |-> c] \in InFlight
    BY <1>2 DEF InFlight
  <2>. QED BY <1>2, <2>1 DEF SignupCreate, Done, Idle
<1>5. /\ requests' \in [Request -> InFlight \union {Idle}]
      /\ requests'[r] = q /\ \A s \in Request \ {r} : requests'[s] = requests[s]
  BY <1>0, <1>4, RequestMoves
<1>6. Tables'
  BY <1>0, <1>3, <1>5 DEF Tables, TypeOK
<1>7. Filled'
  BY <1>0, <1>4, <1>5 DEF Filled, At, Exists
<1>. QED BY <1>1, <1>6, <1>7

LEMMA ReadLinkFacts ==
  ASSUME TypeInv, NEW r \in Request, ReadLink(r)
  PROVE  \E q \in InFlight \union {Idle} :
            /\ requests' = [requests EXCEPT ![r] = q]
            /\ requests'[r] = q /\ \A s \in Request \ {r} : requests'[s] = requests[s]
            /\ requests' \in [Request -> InFlight \union {Idle}]
            /\ q # Idle => /\ q.at = "linking" /\ At(r, "link")
                           /\ q.identity = requests[r].identity /\ q.customer = requests[r].customer
<1>1. requests[r].identity \in Identity /\ requests[r].customer \in Customer
  BY RequestFacts DEF ReadLink, TypeInv
<1> DEFINE Goes(q) ==
        /\ requests' = [requests EXCEPT ![r] = q]
        /\ q # Idle => /\ q.at = "linking" /\ At(r, "link")
                       /\ q.identity = requests[r].identity /\ q.customer = requests[r].customer
<1>2. \E q \in InFlight \union {Idle} : Goes(q)
  <2>1. CASE Done(r)
    <3>1. Goes(Idle)
      BY <2>1 DEF Done
    <3>. QED BY <3>1
  <2>2. CASE ~ Done(r)
    <3> DEFINE q == [at |-> "linking", identity |-> requests[r].identity,
                     customer |-> requests[r].customer]
    <3>1. q \in InFlight
      BY <1>1 DEF InFlight
    <3>2. Goes(q)
      BY <2>2 DEF ReadLink
    <3>. QED BY <3>1, <3>2
  <2>. QED BY <2>1, <2>2
<1>. QED BY <1>2, RequestMoves DEF TypeInv

LEMMA ReadLinkType ==
  ASSUME TypeInv, NEW r \in Request, ReadLink(r)
  PROVE  Tables' /\ PendingOnce' /\ Filled'
<1>0. TypeOK /\ Filled /\ UNCHANGED <<identity, media, changes, edited, lost>>
  BY DEF TypeInv, ReadLink
<1>1. PendingOnce'
  BY <1>0 DEF TypeInv, PendingOnce, Pending
<1>2. PICK q \in InFlight \union {Idle} :
         /\ requests'[r] = q /\ \A s \in Request \ {r} : requests'[s] = requests[s]
         /\ requests' \in [Request -> InFlight \union {Idle}]
         /\ q # Idle => (q.at = "linking" /\ At(r, "link") /\ q.identity = requests[r].identity)
  BY ReadLinkFacts
<1>3. Tables'
  BY <1>0, <1>2 DEF Tables, TypeOK
<1>4. Filled'
  BY <1>0, <1>2 DEF Filled, At, Exists, Idle
<1>. QED BY <1>1, <1>3, <1>4

(* A call only reads, and remembers what it read. *)
LEMMA CallsType ==
  ASSUME TypeInv, NEW r \in Request, NEW i \in Identity,
         \/ LoginVerify(r, i) \/ SignupSubmit(r, i) \/ ChangeVerify(r, i)
         \/ \E e \in Email : ChangeStart(r, i, e)
  PROVE  Tables' /\ PendingOnce' /\ Filled'
<1>0. TypeOK /\ Filled /\ UNCHANGED <<identity, media, changes, edited, lost>>
  BY DEF TypeInv, LoginVerify, SignupSubmit, ChangeVerify, ChangeStart
<1>1. PendingOnce'
  BY <1>0 DEF TypeInv, PendingOnce, Pending
<1>2. PICK q \in InFlight :
         /\ Begin(r, q)
         /\ q.at \in {"login", "create", "link", "linking"} => Exists(q.identity)
         /\ q.at = "verify" => changes[q.row].status # "none"
  <2>1. CASE LoginVerify(r, i)
    <3>1. PICK c \in AutoLink(i) : Begin(r, [at |-> "login", identity |-> i, customer |-> c])
      BY <2>1 DEF LoginVerify
    <3>2. c \in Customer \union {None}
      BY <1>0, AutoLinkFacts
    <3>. QED BY <2>1, <3>1, <3>2 DEF InFlight, LoginVerify
  <2>2. CASE SignupSubmit(r, i)
    <3>1. identity[i].email \in Email /\ Exists(i)
      BY <1>0, <2>2 DEF SignupSubmit, Filled, Exists
    <3>. QED BY <2>2, <3>1 DEF SignupSubmit, InFlight
  <2>3. CASE ChangeVerify(r, i)
    <3>1. PICK k \in Pending(i), c \in {identity[i].customer} \ {None}, m \in Medium :
             Begin(r, [at |-> "verify", row |-> k, customer |-> c, medium |-> m])
      BY <2>3 DEF ChangeVerify
    <3>2. k \in Row /\ c \in Customer /\ changes[k].status = "pending"
      BY <1>0, TableFacts DEF Pending
    <3>. QED BY <3>1, <3>2 DEF InFlight
  <2>4. CASE \E e \in Email : ChangeStart(r, i, e)
    BY <2>4 DEF ChangeStart, InFlight
  <2>. QED BY <2>1, <2>2, <2>3, <2>4
<1>3. /\ requests' \in [Request -> InFlight \union {Idle}]
      /\ requests'[r] = q /\ \A s \in Request \ {r} : requests'[s] = requests[s]
  BY <1>0, <1>2, RequestMoves DEF Begin
<1>4. Filled'
  BY <1>0, <1>2, <1>3 DEF Filled, At, Exists
<1>. QED BY <1>0, <1>1, <1>3, <1>4 DEF TypeOK, Tables

(* start_email_change voids the pending row of the account before it adds one. *)
LEMMA StartedFacts ==
  ASSUME TypeInv, NEW r \in Request, ChangeStarted(r)
  PROVE  /\ requests[r].identity \in Identity /\ requests[r].email \in Email
         /\ changes' \in [Row -> [status : {"none", "pending", "consumed", "cancelled", "expired"},
                                  identity : Identity \union {None}, email : Email \union {None}]]
         /\ \E k \in Row :
              /\ changes[k].status = "none" /\ changes'[k].status = "pending"
              /\ changes'[k].identity = requests[r].identity /\ changes'[k].email = requests[r].email
              /\ \A n \in Row \ {k} :
                    /\ changes'[n].identity = changes[n].identity /\ changes'[n].email = changes[n].email
                    /\ changes'[n].status = IF n \in Pending(requests[r].identity) THEN "cancelled"
                                            ELSE changes[n].status
<1> DEFINE i == requests[r].identity
           e == requests[r].email
           Rows == [status : {"none", "pending", "consumed", "cancelled", "expired"},
                    identity : Identity \union {None}, email : Email \union {None}]
<1>1. TypeOK /\ changes \in [Row -> Rows]
  BY DEF TypeInv, TypeOK
<1>2. i \in Identity /\ e \in Email
  BY <1>1, RequestFacts DEF ChangeStarted
<1>3. PICK k \in Row :
         /\ changes[k] = NoChange
         /\ changes' = [n \in Row |->
               IF n = k THEN [status |-> "pending", identity |-> i, email |-> e]
               ELSE IF n \in Pending(i) THEN [changes[n] EXCEPT !.status = "cancelled"]
               ELSE changes[n]]
  BY DEF ChangeStarted
<1>4. /\ changes[k].status = "none" /\ changes'[k] = [status |-> "pending", identity |-> i, email |-> e]
      /\ changes'[k] \in Rows
  BY <1>2, <1>3 DEF NoChange
<1>5. ASSUME NEW n \in Row \ {k}
      PROVE  /\ changes'[n] \in Rows
             /\ changes'[n].identity = changes[n].identity /\ changes'[n].email = changes[n].email
             /\ changes'[n].status = IF n \in Pending(i) THEN "cancelled" ELSE changes[n].status
  <2>1. changes[n] \in Rows
    BY <1>1
  <2>2. changes'[n] = IF n \in Pending(i) THEN [changes[n] EXCEPT !.status = "cancelled"] ELSE changes[n]
    BY <1>3
  <2>. QED BY <2>1, <2>2
<1>6. changes' \in [Row -> Rows]
  <2> HIDE DEF Rows
  <2>. QED BY <1>3, <1>4, <1>5
<1>. QED BY <1>2, <1>4, <1>5, <1>6

(* A row that is decided leaves the pending ones. *)
LEMMA DecidedFacts ==
  ASSUME TypeOK, NEW k \in Row, NEW st \in {"consumed", "cancelled", "expired"},
         changes' = [changes EXCEPT ![k].status = st]
  PROVE  /\ changes' \in [Row -> [status : {"none", "pending", "consumed", "cancelled", "expired"},
                                  identity : Identity \union {None}, email : Email \union {None}]]
         /\ changes'[k].status = st
         /\ \A n \in Row : changes'[n].identity = changes[n].identity /\ changes'[n].email = changes[n].email
         /\ \A n \in Row \ {k} : changes'[n] = changes[n]
  BY DEF TypeOK

LEMMA StartedType ==
  ASSUME TypeInv, NEW r \in Request, ChangeStarted(r)
  PROVE  Tables' /\ PendingOnce' /\ Filled'
<1>0. TypeOK /\ PendingOnce /\ Filled /\ UNCHANGED <<identity, media, edited, lost>> /\ Done(r)
  BY DEF TypeInv, ChangeStarted
<1>1. /\ requests[r].identity \in Identity /\ requests[r].email \in Email
      /\ changes' \in [Row -> [status : {"none", "pending", "consumed", "cancelled", "expired"},
                               identity : Identity \union {None}, email : Email \union {None}]]
  BY StartedFacts
<1>2. PICK k \in Row :
         /\ changes[k].status = "none" /\ changes'[k].status = "pending"
         /\ changes'[k].identity = requests[r].identity /\ changes'[k].email = requests[r].email
         /\ \A n \in Row \ {k} :
               /\ changes'[n].identity = changes[n].identity /\ changes'[n].email = changes[n].email
               /\ changes'[n].status = IF n \in Pending(requests[r].identity) THEN "cancelled"
                                       ELSE changes[n].status
  BY StartedFacts
<1>3. PendingOnce'
  <2>1. ASSUME NEW n \in Row \ {k}, NEW j \in Identity, n \in Pending(j)'
        PROVE  n \in Pending(j) /\ j # requests[r].identity
    BY <1>2, <2>1 DEF Pending
  <2>. QED BY <1>0, <1>2, <2>1 DEF PendingOnce, Pending
<1>4. /\ requests' \in [Request -> InFlight \union {Idle}]
      /\ requests'[r] = Idle /\ \A s \in Request \ {r} : requests'[s] = requests[s]
  BY <1>0, RequestMoves DEF Done
<1>5. Tables'
  BY <1>0, <1>1, <1>4 DEF Tables, TypeOK
<1>6. Filled'
  <2>1. \A n \in Row : changes[n].status # "none" => changes'[n].status # "none"
    BY <1>2
  <2>2. \A n \in Row : changes'[n].status # "none" => changes'[n].identity \in Identity /\ changes'[n].email \in Email
    BY <1>0, <1>1, <1>2 DEF Filled, Pending
  <2>3. \A s \in Request : At(s, "verify") => requests[s].row \in Row
    BY <1>0, RequestFacts
  <2>. QED BY <1>0, <1>4, <2>1, <2>2, <2>3 DEF Filled, At, Idle, Exists
<1>. QED BY <1>3, <1>5, <1>6

LEMMA DecidedType ==
  ASSUME TypeInv, NEW i \in Identity, ChangeExpired(i) \/ ChangeCancel(i)
  PROVE  Tables' /\ PendingOnce' /\ Filled'
<1>0. TypeOK /\ PendingOnce /\ Filled /\ UNCHANGED <<identity, media, requests, edited, lost>>
  BY DEF TypeInv, ChangeExpired, ChangeCancel
<1>1. PICK k \in Row, st \in {"consumed", "cancelled", "expired"} :
         changes[k].status = "pending" /\ changes' = [changes EXCEPT ![k].status = st]
  BY DEF ChangeExpired, ChangeCancel, Pending
<1>2. /\ changes' \in [Row -> [status : {"none", "pending", "consumed", "cancelled", "expired"},
                               identity : Identity \union {None}, email : Email \union {None}]]
      /\ changes'[k].status = st
      /\ \A n \in Row : changes'[n].identity = changes[n].identity /\ changes'[n].email = changes[n].email
      /\ \A n \in Row \ {k} : changes'[n] = changes[n]
  BY <1>0, <1>1, DecidedFacts
<1>3. PendingOnce'
  BY <1>0, <1>2 DEF PendingOnce, Pending
<1>4. Tables'
  BY <1>0, <1>2 DEF Tables, TypeOK
<1>5. Filled'
  <2>1. \A s \in Request : At(s, "verify") => requests[s].row \in Row
    BY <1>0, RequestFacts
  <2>2. \A n \in Row : changes'[n].status # "none" <=> changes[n].status # "none"
    BY <1>1, <1>2
  <2>. QED BY <1>0, <1>2, <2>1, <2>2 DEF Filled, At, Exists
<1>. QED BY <1>3, <1>4, <1>5

(* The commit of a change writes one account, one address of the customer, one row. *)
LEMMA CommitFacts ==
  ASSUME TypeInv, NEW r \in Request, ChangeCommit(r)
  PROVE  \E k \in Row, c \in Customer, m \in Medium :
            /\ requests[r] = [at |-> "verify", row |-> k, customer |-> c, medium |-> m]
            /\ changes[k].identity \in Identity /\ changes[k].email \in Email
            /\ changes[k].status # "none"
            /\ \A j \in Identity \ {changes[k].identity} : identity[j].email # changes[k].email
            /\ media' = IF media[c][m] = Gone THEN media ELSE [media EXCEPT ![c][m] = changes[k].email]
            /\ identity' = [identity EXCEPT ![changes[k].identity].email = changes[k].email]
            /\ changes' = [changes EXCEPT ![k].status = "consumed"]
<1>1. TypeOK /\ Filled /\ At(r, "verify")
  BY DEF TypeInv, ChangeCommit
<1>2. PICK k \in Row, c \in Customer, m \in Medium :
         requests[r] = [at |-> "verify", row |-> k, customer |-> c, medium |-> m]
  BY <1>1 DEF TypeOK, InFlight, Idle, At
<1>3. changes[k].status # "none" /\ changes[k].identity \in Identity /\ changes[k].email \in Email
  BY <1>1, <1>2 DEF Filled, At
<1>4. /\ requests[r].row = k /\ requests[r].customer = c /\ requests[r].medium = m
  BY <1>2
<1>5. /\ \A j \in Identity \ {changes[k].identity} : identity[j].email # changes[k].email
      /\ media' = IF media[c][m] = Gone THEN media ELSE [media EXCEPT ![c][m] = changes[k].email]
      /\ identity' = [identity EXCEPT ![changes[k].identity].email = changes[k].email]
      /\ changes' = [changes EXCEPT ![k].status = "consumed"]
  BY <1>4 DEF ChangeCommit, IdentityTaken
<1>. QED BY <1>2, <1>3, <1>5

LEMMA EmailMoves ==
  ASSUME TypeOK, NEW i \in Identity, NEW e \in Email, identity' = [identity EXCEPT ![i].email = e]
  PROVE  /\ identity' \in [Identity -> [status : {"none", "unverified", "verified", "registered"},
                                        email : Email \union {None},
                                        customer : Customer \union {None}]]
         /\ identity'[i].email = e
         /\ \A j \in Identity : /\ identity'[j].status = identity[j].status
                                /\ identity'[j].customer = identity[j].customer
         /\ \A j \in Identity \ {i} : identity'[j] = identity[j]
  BY DEF TypeOK

(* One address of one customer is written. *)
LEMMA MediumMoves ==
  ASSUME TypeOK, NEW c \in Customer, NEW m \in Medium, NEW e \in Email \union {Gone},
         media' = [media EXCEPT ![c][m] = e]
  PROVE  /\ media' \in [Customer -> [Medium -> Email \union {None, Gone}]]
         /\ media'[c][m] = e
         /\ \A n \in Medium \ {m} : media'[c][n] = media[c][n]
         /\ \A d \in Customer \ {c} : media'[d] = media[d]
  BY DEF TypeOK

LEMMA CommitType ==
  ASSUME TypeInv, NEW r \in Request, ChangeCommit(r)
  PROVE  Tables' /\ PendingOnce' /\ Filled'
<1>0. TypeOK /\ PendingOnce /\ Filled /\ UNCHANGED <<edited, lost>> /\ Done(r)
  BY DEF TypeInv, ChangeCommit
<1>1. PICK k \in Row, c \in Customer, m \in Medium :
         /\ requests[r] = [at |-> "verify", row |-> k, customer |-> c, medium |-> m]
         /\ changes[k].identity \in Identity /\ changes[k].email \in Email
         /\ changes[k].status # "none"
         /\ \A j \in Identity \ {changes[k].identity} : identity[j].email # changes[k].email
         /\ media' = IF media[c][m] = Gone THEN media ELSE [media EXCEPT ![c][m] = changes[k].email]
         /\ identity' = [identity EXCEPT ![changes[k].identity].email = changes[k].email]
         /\ changes' = [changes EXCEPT ![k].status = "consumed"]
  BY CommitFacts
<1> DEFINE i == changes[k].identity
           e == changes[k].email
<1>9. i \in Identity /\ e \in Email
  BY <1>1
<1>2. /\ changes' \in [Row -> [status : {"none", "pending", "consumed", "cancelled", "expired"},
                               identity : Identity \union {None}, email : Email \union {None}]]
      /\ changes'[k].status = "consumed"
      /\ \A n \in Row : changes'[n].identity = changes[n].identity /\ changes'[n].email = changes[n].email
      /\ \A n \in Row \ {k} : changes'[n] = changes[n]
  BY <1>0, <1>1, DecidedFacts
<1>3. /\ identity' \in [Identity -> [status : {"none", "unverified", "verified", "registered"},
                                     email : Email \union {None},
                                     customer : Customer \union {None}]]
      /\ identity'[i].email = e
      /\ \A j \in Identity : /\ identity'[j].status = identity[j].status
                             /\ identity'[j].customer = identity[j].customer
      /\ \A j \in Identity \ {i} : identity'[j] = identity[j]
  <2>1. identity' = [identity EXCEPT ![i].email = e]
    BY <1>1
  <2> HIDE DEF i, e
  <2>. QED BY <1>0, <1>9, <2>1, EmailMoves
<1>4. media' \in [Customer -> [Medium -> Email \union {None, Gone}]]
  BY <1>0, <1>1, MediumMoves DEF TypeOK
<1>5. /\ requests' \in [Request -> InFlight \union {Idle}]
      /\ requests'[r] = Idle /\ \A s \in Request \ {r} : requests'[s] = requests[s]
  BY <1>0, RequestMoves DEF Done
<1>6. PendingOnce'
  BY <1>0, <1>2 DEF PendingOnce, Pending
<1>7. Tables'
  BY <1>0, <1>2, <1>3, <1>4, <1>5 DEF Tables, TypeOK
<1>8. Filled'
  <2>1. \A s \in Request : /\ At(s, "verify") => requests[s].row \in Row
                           /\ requests[s].at \in {"login", "create", "link", "linking"} => requests[s].identity \in Identity
    BY <1>0, RequestFacts DEF At
  <2>2. \A n \in Row : changes'[n].status # "none" <=> changes[n].status # "none"
    BY <1>1, <1>2
  <2>3. \A j \in Identity : /\ Exists(j)' <=> Exists(j)
                            /\ Exists(j) => identity'[j].email \in Email
    BY <1>0, <1>3, <1>9 DEF Exists, Filled
  <2>4. \A n \in Row : changes'[n].status # "none" =>
           changes'[n].identity \in Identity /\ changes'[n].email \in Email
    BY <1>0, <1>2, <2>2 DEF Filled
  <2>5. \A s \in Request :
           /\ requests'[s].at \in {"login", "create", "link", "linking"} => Exists(requests[s].identity)'
           /\ requests'[s].at = "verify" => changes'[requests'[s].row].status # "none"
    BY <1>0, <1>5, <2>1, <2>2, <2>3 DEF Filled, At, Idle
  <2>. QED BY <2>3, <2>4, <2>5 DEF Filled, At
<1>. QED BY <1>6, <1>7, <1>8

LEMMA LoginStartType ==
  ASSUME TypeInv, NEW i \in Identity, NEW e \in Email, LoginStart(i, e)
  PROVE  Tables' /\ PendingOnce' /\ Filled'
<1>0. TypeOK /\ PendingOnce /\ Filled /\ UNCHANGED <<media, changes, requests, edited, lost>>
  BY DEF TypeInv, LoginStart
<1>1. /\ identity' \in [Identity -> [status : {"none", "unverified", "verified", "registered"},
                                     email : Email \union {None},
                                     customer : Customer \union {None}]]
      /\ identity'[i] = [status |-> "unverified", email |-> e, customer |-> None]
      /\ \A j \in Identity \ {i} : identity'[j] = identity[j]
  BY <1>0 DEF LoginStart, TypeOK
<1>2. PendingOnce'
  BY <1>0 DEF PendingOnce, Pending
<1>3. Tables'
  BY <1>0, <1>1 DEF Tables, TypeOK
<1>4. Filled'
  <2>1. \A s \in Request : requests[s].at \in {"login", "create", "link", "linking"} => requests[s].identity \in Identity
    BY <1>0, RequestFacts DEF At
  <2>2. \A j \in Identity : /\ Exists(j) => Exists(j)'
                            /\ Exists(j)' => identity'[j].email \in Email
    BY <1>0, <1>1 DEF Exists, Filled
  <2>. QED BY <1>0, <2>1, <2>2 DEF Filled, At
<1>. QED BY <1>2, <1>3, <1>4

LEMMA CrmType ==
  ASSUME TypeInv, NEW c \in Customer,
         \/ \E e \in Email : CrmCreate(c, e) \/ AddContactMedium(c, e)
         \/ \E m \in Medium : RemoveContactMedium(c, m)
  PROVE  Tables' /\ PendingOnce' /\ Filled'
<1>0. TypeOK /\ PendingOnce /\ Filled /\ UNCHANGED <<identity, changes, requests, lost>>
  BY DEF TypeInv, CrmCreate, AddContactMedium, RemoveContactMedium
<1>1. PICK m \in Medium, e \in Email \union {Gone} : media' = [media EXCEPT ![c][m] = e]
  BY DEF CrmCreate, AddContactMedium, RemoveContactMedium, CreateCustomer, Medium
<1>2. media' \in [Customer -> [Medium -> Email \union {None, Gone}]]
  BY <1>0, <1>1, MediumMoves
<1>3. edited' \subseteq Customer
  BY <1>0 DEF CrmCreate, AddContactMedium, RemoveContactMedium, TypeOK
<1>4. Tables'
  BY <1>0, <1>2, <1>3 DEF Tables, TypeOK
<1>5. PendingOnce' /\ Filled'
  BY <1>0 DEF PendingOnce, Pending, Filled, At, Exists
<1>. QED BY <1>4, <1>5

LEMMA TypeNext == TypeInv /\ [Next]_vars => TypeInv'
<1> SUFFICES ASSUME TypeInv, [Next]_vars PROVE TypeInv'
  OBVIOUS
<1>1. CASE UNCHANGED vars
  <2>1. TypeOK'
    BY <1>1 DEF vars, TypeInv, TypeOK, Pending
  <2>2. PendingOnce'
    BY <1>1 DEF vars, TypeInv, PendingOnce, Pending
  <2>3. Filled'
    BY <1>1 DEF vars, TypeInv, Filled, At, Exists
  <2>. QED BY <2>1, <2>2, <2>3 DEF TypeInv
<1>2. CASE Next
  <2>1. Tables' /\ PendingOnce' /\ Filled'
    BY <1>2, NextCases, LoginType, SignupType, ReadLinkType, CallsType, StartedType, DecidedType, CommitType,
       LoginStartType, CrmType
  <2>. QED BY <2>1, OneIsCounted, PTL
<1>. QED BY <1>1, <1>2

(* Types: the two records of an address, the change rows and what a request holds are what *)
(* the tables allow, one account has at most one change pending (start_email_change voids  *)
(* the previous one in its own transaction), and an account is registered exactly when it  *)
(* has a customer (verify_email_login, link_to_customer).                                  *)
THEOREM TypeCorrect == Spec => []TypeOK
<1>1. Spec => []TypeInv
  BY TypeInit, TypeNext, PTL DEF Spec
<1>2. TypeInv => TypeOK
  BY DEF TypeInv
<1>. QED BY <1>1, <1>2, PTL

-----------------------------------------------------------------------------
(* EmailsAgree and LinksOneToOne. *)

(* Where an account has a customer it is registered, so it exists. *)
LEMMA LinkedExists ==
  ASSUME TypeInv, NEW i \in Identity, identity[i].customer # None
  PROVE  Exists(i) /\ identity[i].email \in Email /\ identity[i].customer \in Customer
  BY DEF TypeInv, TypeOK, Filled, Exists

(* Who has the address of a customer is the account that is linked to it. *)
LEMMA NobodyElse ==
  ASSUME TypeInv, Clean, NEW i \in Identity, NEW j \in Identity,
         Exists(j), i # j, identity[i].customer \notin edited \union {None}
  PROVE  identity[j].email # media[identity[i].customer]["first"]
  BY DEF Clean, OneAddressEach, Agreed

(* A link, wherever it comes from: it was not there, and the addresses agree. *)
LEMMA Linking ==
  ASSUME TypeInv, Clean, NEW r \in Request,
         \A j \in Identity :
             /\ Exists(j)' <=> Exists(j)
             /\ identity'[j].email = identity[j].email
             /\ identity[j].customer # None => identity'[j].customer = identity[j].customer
             /\ SameAddress(j, identity'[j].customer),
         UNCHANGED <<media, changes, edited>>,
         requests'[r] = Idle, \A s \in Request \ {r} : requests'[s] = requests[s]
  PROVE  Clean'
<1>1. OneAddressEach' /\ OneMedium'
  BY DEF Clean, OneAddressEach, OneMedium
<1>2. RowsLinked'
  BY DEF Clean, RowsLinked, TypeInv, Filled
<1>3. Agreed'
  BY DEF Clean, Agreed, SameAddress
<1>4. ASSUME NEW s \in Request PROVE StillTrue(s)'
  <2>1. CASE s = r
    BY <2>1 DEF StillTrue, At, Idle
  <2>2. CASE s # r
    <3>1. /\ requests[s].at \in {"login", "create", "link", "linking", "start"} => requests[s].identity \in Identity
          /\ At(s, "verify") => /\ requests[s].row \in Row
                                /\ changes[requests[s].row].identity \in Identity
                                /\ requests[s].customer \in Customer
      BY RequestFacts DEF TypeInv, Filled, At
    <3>2. requests'[s] = requests[s] /\ StillTrue(s)
      BY <2>2 DEF Clean
    <3>. QED BY <3>1, <3>2, AccountAssumption DEF StillTrue, At, SameAddress
  <2>. QED BY <2>1, <2>2
<1>. QED BY <1>1, <1>2, <1>3, <1>4 DEF Clean

LEMMA LoginClean ==
  ASSUME TypeInv, Clean, NEW r \in Request, LoginCommit(r) \/ LinkToCustomer(r) \/ Stop(r), ~ lost'
  PROVE  Clean'
<1>1. UNCHANGED <<media, changes, edited>>
  BY DEF LoginCommit, LinkToCustomer, Stop
<1>2. requests'[r] = Idle /\ \A s \in Request \ {r} : requests'[s] = requests[s]
  BY RequestMoves DEF LoginCommit, LinkToCustomer, Stop, Done, TypeInv
<1>3. CASE identity' = identity
  <2>1. \A j \in Identity : SameAddress(j, identity'[j].customer)
    BY <1>3 DEF SameAddress
  <2>. QED BY <1>1, <1>2, <1>3, <2>1, Linking DEF Exists
<1>4. CASE identity' # identity
  <2> DEFINE i == requests[r].identity
             c == requests[r].customer
  <2>1. /\ i \in Identity /\ c \in Customer \union {None} /\ Exists(i)
        /\ SameAddress(i, c) /\ identity[i].customer \in {None, c}
    <3>1. CASE LoginCommit(r)
      BY <3>1, RequestFacts DEF LoginCommit, TypeInv, Filled, At, Clean, StillTrue
    <3>2. CASE LinkToCustomer(r)
      BY <1>4, <3>2, RequestFacts DEF LinkToCustomer, TypeInv, Filled, At, Clean, StillTrue
    <3>. QED BY <1>4, <3>1, <3>2 DEF Stop
  <2>2. PICK st \in {"verified", "registered"} :
           identity' = [identity EXCEPT ![i].customer = c, ![i].status = st]
    BY <1>4 DEF LoginCommit, LinkToCustomer, Stop
  <2>3. /\ identity'[i].status = st /\ identity'[i].customer = c
        /\ identity'[i].email = identity[i].email
        /\ \A j \in Identity \ {i} : identity'[j] = identity[j]
    <3> HIDE DEF i, c
    <3>. QED BY <2>1, <2>2, LinkMoves DEF TypeInv
  <2>4. \A j \in Identity :
           /\ Exists(j)' <=> Exists(j)
           /\ identity'[j].email = identity[j].email
           /\ identity[j].customer # None => identity'[j].customer = identity[j].customer
           /\ SameAddress(j, identity'[j].customer)
    <3> HIDE DEF i, c
    <3>. QED BY <2>1, <2>3 DEF Exists, SameAddress
  <2>. QED BY <1>1, <1>2, <2>4, Linking
<1>. QED BY <1>3, <1>4

(* A new customer has the address it was created with and touches no other. *)
LEMMA CreatedFacts ==
  ASSUME TypeInv, NEW c \in Customer, NEW e \in Email, CreateCustomer(c, e)
  PROVE  /\ media'[c]["first"] = e /\ media'[c]["added"] = None
         /\ \A d \in Customer \ {c} : media'[d] = media[d]
         /\ media[c]["first"] = None
<1>1. media' = [media EXCEPT ![c]["first"] = e] /\ media[c] = NoCustomer
  BY DEF CreateCustomer, Registered
<1>2. /\ media'[c]["first"] = e /\ media'[c]["added"] = media[c]["added"]
      /\ \A d \in Customer \ {c} : media'[d] = media[d]
  <2>1. media \in [Customer -> [Medium -> Email \union {None, Gone}]]
    BY DEF TypeInv, TypeOK
  <2>2. "first" \in Medium /\ "added" \in Medium \ {"first"}
    BY DEF Medium
  <2>3. media' = [media EXCEPT ![c]["first"] = e]
    BY <1>1
  <2>. QED BY <2>1, <2>2, <2>3
<1>. QED BY <1>1, <1>2 DEF NoCustomer, Medium

(* Nothing that agrees with an existing account's address changes. *)
LEMMA Creating ==
  ASSUME TypeInv, Clean, NEW c \in Customer, NEW e \in Email, CreateCustomer(c, e),
         UNCHANGED <<identity, changes, edited>>
  PROVE  /\ OneAddressEach' /\ OneMedium' /\ RowsLinked' /\ Agreed'
         /\ \A i \in Identity, d \in Customer \union {None} :
               Exists(i) /\ SameAddress(i, d) => SameAddress(i, d)'
<1>1. /\ media'[c]["first"] = e /\ media'[c]["added"] = None
      /\ \A d \in Customer \ {c} : media'[d] = media[d]
      /\ media[c]["first"] = None
  BY CreatedFacts
<1>2. OneAddressEach' /\ RowsLinked'
  BY DEF Clean, OneAddressEach, RowsLinked, Exists
<1>3. OneMedium'
  BY <1>1 DEF Clean, OneMedium
<1>4. Agreed'
  <2>1. ASSUME NEW i \in Identity, identity[i].customer \notin edited \union {None}
        PROVE  identity[i].email = media'[identity[i].customer]["first"]
    <3>1. /\ identity[i].email \in Email /\ identity[i].customer \in Customer
          /\ identity[i].email = media[identity[i].customer]["first"]
      BY <2>1, LinkedExists DEF Clean, Agreed
    <3>. QED BY <1>1, <3>1, AccountAssumption
  <2>. QED BY <2>1 DEF Agreed
<1>5. ASSUME NEW i \in Identity, NEW d \in Customer \union {None}, Exists(i), SameAddress(i, d)
      PROVE  SameAddress(i, d)'
  <2>1. identity[i].email \in Email
    BY <1>5 DEF TypeInv, Filled
  <2>. QED BY <1>1, <1>5, <2>1, AccountAssumption DEF SameAddress
<1>. QED BY <1>2, <1>3, <1>4, <1>5

(* The other requests go on as they were, as far as what they rely on does. *)
LEMMA OthersClean ==
  ASSUME TypeInv, Clean, NEW s \in Request, requests'[s] = requests[s],
         \A i \in Identity :
             /\ identity'[i].customer = identity[i].customer
             /\ Exists(i) /\ identity[i].customer = None => identity'[i].email = identity[i].email,
         \A k \in Row : changes[k].status # "none" => changes'[k].identity = changes[k].identity,
         edited \subseteq edited',
         \A i \in Identity, d \in Customer \union {None} :
             Exists(i) /\ SameAddress(i, d) => SameAddress(i, d)'
  PROVE  StillTrue(s)'
<1>1. /\ requests[s].at \in {"login", "create", "link", "linking"} =>
            requests[s].identity \in Identity /\ Exists(requests[s].identity)
      /\ requests[s].at \in {"login", "link", "linking"} => requests[s].customer \in Customer \union {None}
      /\ At(s, "start") => requests[s].identity \in Identity
      /\ At(s, "verify") => /\ requests[s].row \in Row
                            /\ changes[requests[s].row].status # "none"
                            /\ changes[requests[s].row].identity \in Identity
  BY RequestFacts DEF TypeInv, Filled, At
<1>2. StillTrue(s)
  BY DEF Clean
<1>3. At(s, "login") \/ At(s, "link") \/ At(s, "linking") => SameAddress(requests[s].identity, requests[s].customer)'
  BY <1>1, <1>2 DEF StillTrue, At, SameAddress
<1>4. At(s, "create") /\ identity'[requests[s].identity].customer = None =>
        identity'[requests[s].identity].email = requests[s].email
  BY <1>1, <1>2 DEF StillTrue, At
<1>5. At(s, "start") => identity'[requests[s].identity].customer # None
  BY <1>1, <1>2 DEF StillTrue, At
<1>6. At(s, "verify") => /\ identity'[changes'[requests[s].row].identity].customer = requests[s].customer
                         /\ requests[s].customer \notin edited' => requests[s].medium = "first"
  BY <1>1, <1>2 DEF StillTrue, At
<1>. QED BY <1>3, <1>4, <1>5, <1>6 DEF StillTrue, At

LEMMA SignupClean ==
  ASSUME TypeInv, Clean, NEW r \in Request, SignupCreate(r)
  PROVE  Clean'
<1>1. UNCHANGED <<identity, changes, edited>> /\ At(r, "create")
      /\ requests[r].identity \in Identity /\ requests[r].email \in Email
  BY RequestFacts DEF SignupCreate, TypeInv
<1>2. ASSUME NEW c \in Customer, CreateCustomer(c, requests[r].email),
             requests' = [requests EXCEPT ![r] =
                  [at |-> "link", identity |-> requests[r].identity, customer |-> c]]
      PROVE  Clean'
  <2>1. /\ OneAddressEach' /\ OneMedium' /\ RowsLinked' /\ Agreed'
        /\ \A i \in Identity, d \in Customer \union {None} :
              Exists(i) /\ SameAddress(i, d) => SameAddress(i, d)'
    BY <1>1, <1>2, Creating
  <2>2. /\ requests'[r] = [at |-> "link", identity |-> requests[r].identity, customer |-> c]
        /\ \A s \in Request \ {r} : requests'[s] = requests[s]
    BY <1>2, RequestMoves DEF TypeInv
  <2>3. StillTrue(r)'
    <3>1. SameAddress(requests[r].identity, c)'
      BY <1>1, <1>2, CreatedFacts DEF Clean, StillTrue, SameAddress
    <3>2. requests'[r].at = "link" /\ requests'[r].identity = requests[r].identity /\ requests'[r].customer = c
      BY <2>2
    <3>. QED BY <3>1, <3>2 DEF StillTrue, At, SameAddress
  <2>4. \A s \in Request \ {r} : StillTrue(s)'
    BY <1>1, <2>1, <2>2, OthersClean DEF TypeInv
  <2>. QED BY <2>1, <2>3, <2>4 DEF Clean
<1>3. CASE UNCHANGED media /\ Done(r)
  <2>1. requests'[r] = Idle /\ \A s \in Request \ {r} : requests'[s] = requests[s]
    BY <1>3, RequestMoves DEF TypeInv, Done
  <2>2. \A j \in Identity :
           /\ Exists(j)' <=> Exists(j)
           /\ identity'[j].email = identity[j].email
           /\ identity[j].customer # None => identity'[j].customer = identity[j].customer
           /\ SameAddress(j, identity'[j].customer)
    BY <1>1 DEF SameAddress, Exists
  <2>. QED BY <1>1, <1>3, <2>1, <2>2, Linking
<1>. QED BY <1>2, <1>3 DEF SignupCreate

LEMMA ReadLinkClean ==
  ASSUME TypeInv, Clean, NEW r \in Request, ReadLink(r)
  PROVE  Clean'
<1>1. UNCHANGED <<identity, media, changes, edited>>
  BY DEF ReadLink
<1>2. PICK q \in InFlight \union {Idle} :
         /\ requests'[r] = q /\ \A s \in Request \ {r} : requests'[s] = requests[s]
         /\ q # Idle => /\ q.at = "linking" /\ At(r, "link")
                        /\ q.identity = requests[r].identity /\ q.customer = requests[r].customer
  BY ReadLinkFacts
<1>3. OneAddressEach' /\ OneMedium' /\ RowsLinked' /\ Agreed'
  BY <1>1 DEF Clean, OneAddressEach, OneMedium, RowsLinked, Agreed, Exists
<1>4. StillTrue(r)'
  BY <1>1, <1>2 DEF Clean, StillTrue, At, SameAddress, Idle
<1>5. ASSUME NEW s \in Request \ {r} PROVE StillTrue(s)'
  BY <1>1, <1>2, OthersClean DEF SameAddress
<1>. QED BY <1>3, <1>4, <1>5 DEF Clean

(* A request begins with what it has just read. *)
LEMMA CallsClean ==
  ASSUME TypeInv, Clean, NEW r \in Request, NEW i \in Identity,
         \/ LoginVerify(r, i) \/ SignupSubmit(r, i) \/ ChangeVerify(r, i)
         \/ \E e \in Email : ChangeStart(r, i, e)
  PROVE  Clean'
<1>1. UNCHANGED <<identity, media, changes, edited>>
  BY DEF LoginVerify, SignupSubmit, ChangeVerify, ChangeStart
<1>2. PICK q \in InFlight :
         /\ requests' = [requests EXCEPT ![r] = q]
         /\ q.at \in {"login", "create", "start", "verify"}
         /\ q.at = "login" => q.identity = i /\ SameAddress(i, q.customer)
         /\ q.at = "create" => q.identity = i /\ q.email = identity[i].email
         /\ q.at = "start" => q.identity = i /\ identity[i].customer # None
         /\ q.at = "verify" => /\ q.row \in Pending(i) /\ q.customer = identity[i].customer
                               /\ q.customer \in Customer \ edited => q.medium = "first"
                               /\ q.customer \in Customer
  <2>1. CASE LoginVerify(r, i)
    <3>1. PICK c \in AutoLink(i) :
             Exists(i) /\ requests' = [requests EXCEPT ![r] = [at |-> "login", identity |-> i, customer |-> c]]
      BY <2>1 DEF LoginVerify, Begin
    <3>2. SameAddress(i, c)
      <4>1. SUFFICES ASSUME identity[i].customer = None, c # None, c \notin edited
                     PROVE  identity[i].email = media[c]["first"]
        BY DEF SameAddress
      <4>2. c \in Customer /\ identity[i].email \in Email
        BY <3>1, <4>1, AutoLinkFacts DEF TypeInv, Filled
      <4>3. PICK m \in Medium : media[c][m] = identity[i].email
        BY <4>1, AutoLinkFacts DEF TypeInv
      <4>. QED BY <4>1, <4>2, <4>3, AccountAssumption DEF Clean, OneMedium, Medium
    <3>3. [at |-> "login", identity |-> i, customer |-> c] \in InFlight
      BY AutoLinkFacts DEF InFlight, TypeInv
    <3>. QED BY <3>1, <3>2, <3>3
  <2>2. CASE SignupSubmit(r, i)
    <3>1. [at |-> "create", identity |-> i, email |-> identity[i].email] \in InFlight
      BY <2>2 DEF SignupSubmit, InFlight, TypeInv, Filled, Exists
    <3>. QED BY <2>2, <3>1 DEF SignupSubmit, Begin
  <2>3. CASE ChangeVerify(r, i)
    <3>1. PICK k \in Pending(i), c \in {identity[i].customer} \ {None}, m \in Medium :
             /\ media[c][m] \in Email
             /\ requests' = [requests EXCEPT ![r] = [at |-> "verify", row |-> k, customer |-> c, medium |-> m]]
      BY <2>3 DEF ChangeVerify, Begin
    <3>2. c \in Customer
      BY TableFacts DEF TypeInv
    <3>3. c \notin edited => m = "first"
      BY <3>1, <3>2, AccountAssumption DEF Clean, OneMedium, Medium
    <3>4. [at |-> "verify", row |-> k, customer |-> c, medium |-> m] \in InFlight
      BY <3>2 DEF InFlight, Pending
    <3>. QED BY <3>1, <3>2, <3>3, <3>4
  <2>4. CASE \E e \in Email : ChangeStart(r, i, e)
    <3>1. PICK e \in Email : ChangeStart(r, i, e)
      BY <2>4
    <3>2. [at |-> "start", identity |-> i, email |-> e] \in InFlight
      BY DEF InFlight
    <3>. QED BY <3>1, <3>2 DEF ChangeStart, Begin
  <2>. QED BY <2>1, <2>2, <2>3, <2>4
<1>3. requests'[r] = q /\ \A s \in Request \ {r} : requests'[s] = requests[s]
  BY <1>2, RequestMoves DEF TypeInv
<1>4. OneAddressEach' /\ OneMedium' /\ RowsLinked' /\ Agreed'
  BY <1>1 DEF Clean, OneAddressEach, OneMedium, RowsLinked, Agreed, Exists
<1>5. StillTrue(r)'
  BY <1>1, <1>2, <1>3 DEF StillTrue, At, SameAddress, Pending
<1>6. ASSUME NEW s \in Request \ {r} PROVE StillTrue(s)'
  BY <1>1, <1>3, OthersClean DEF SameAddress
<1>. QED BY <1>4, <1>5, <1>6 DEF Clean

(* A change row that appears is the one of an account with a customer. *)
LEMMA StartedClean ==
  ASSUME TypeInv, Clean, NEW r \in Request, ChangeStarted(r)
  PROVE  Clean'
<1>1. UNCHANGED <<identity, media, edited>> /\ At(r, "start") /\ requests[r].identity \in Identity
  BY StartedFacts DEF ChangeStarted
<1>2. PICK k \in Row :
         /\ changes[k].status = "none" /\ changes'[k].status = "pending"
         /\ changes'[k].identity = requests[r].identity /\ changes'[k].email = requests[r].email
         /\ \A n \in Row \ {k} :
               /\ changes'[n].identity = changes[n].identity /\ changes'[n].email = changes[n].email
               /\ changes'[n].status = IF n \in Pending(requests[r].identity) THEN "cancelled"
                                       ELSE changes[n].status
  BY StartedFacts
<1>3. requests'[r] = Idle /\ \A s \in Request \ {r} : requests'[s] = requests[s]
  BY RequestMoves DEF ChangeStarted, Done, TypeInv
<1>4. OneAddressEach' /\ OneMedium' /\ Agreed'
  BY <1>1 DEF Clean, OneAddressEach, OneMedium, Agreed, Exists
<1>5. RowsLinked'
  BY <1>1, <1>2 DEF Clean, RowsLinked, StillTrue, Pending
<1>6. StillTrue(r)'
  BY <1>3 DEF StillTrue, At, Idle
<1>7. ASSUME NEW s \in Request \ {r} PROVE StillTrue(s)'
  BY <1>1, <1>2, <1>3, OthersClean DEF SameAddress
<1>. QED BY <1>4, <1>5, <1>6, <1>7 DEF Clean

LEMMA DecidedClean ==
  ASSUME TypeInv, Clean, NEW i \in Identity, ChangeExpired(i) \/ ChangeCancel(i)
  PROVE  Clean'
<1>1. UNCHANGED <<identity, media, edited, requests>>
  BY DEF ChangeExpired, ChangeCancel
<1>2. PICK k \in Row, st \in {"consumed", "cancelled", "expired"} :
         changes[k].status = "pending" /\ changes' = [changes EXCEPT ![k].status = st]
  BY DEF ChangeExpired, ChangeCancel, Pending
<1>3. /\ \A n \in Row : changes'[n].identity = changes[n].identity
      /\ \A n \in Row \ {k} : changes'[n] = changes[n]
  BY <1>2, DecidedFacts DEF TypeInv
<1>4. OneAddressEach' /\ OneMedium' /\ Agreed'
  BY <1>1 DEF Clean, OneAddressEach, OneMedium, Agreed, Exists
<1>5. RowsLinked'
  BY <1>1, <1>2, <1>3 DEF Clean, RowsLinked
<1>6. ASSUME NEW s \in Request PROVE StillTrue(s)'
  BY <1>1, <1>3, OthersClean DEF SameAddress
<1>. QED BY <1>4, <1>5, <1>6 DEF Clean

(* The one transaction moves both copies, and nobody else has either of the two addresses. *)
LEMMA CommitClean ==
  ASSUME TypeInv, Clean, NEW r \in Request, ChangeCommit(r)
  PROVE  Clean'
<1>1. PICK k \in Row, c \in Customer, m \in Medium :
         /\ requests[r] = [at |-> "verify", row |-> k, customer |-> c, medium |-> m]
         /\ changes[k].identity \in Identity /\ changes[k].email \in Email
         /\ changes[k].status # "none"
         /\ \A j \in Identity \ {changes[k].identity} : identity[j].email # changes[k].email
         /\ media' = IF media[c][m] = Gone THEN media ELSE [media EXCEPT ![c][m] = changes[k].email]
         /\ identity' = [identity EXCEPT ![changes[k].identity].email = changes[k].email]
         /\ changes' = [changes EXCEPT ![k].status = "consumed"]
  BY CommitFacts
<1> DEFINE i == changes[k].identity
           e == changes[k].email
<1>2. i \in Identity /\ e \in Email /\ \A j \in Identity \ {i} : identity[j].email # e
  BY <1>1
<1>3. identity[i].customer = c /\ (c \notin edited => m = "first")
  BY <1>1 DEF Clean, StillTrue, At
<1>4. UNCHANGED edited /\ requests'[r] = Idle /\ \A s \in Request \ {r} : requests'[s] = requests[s]
  BY RequestMoves DEF ChangeCommit, Done, TypeInv
<1>5. /\ \A n \in Row : changes'[n].identity = changes[n].identity
      /\ \A n \in Row : changes'[n].status # "none" => changes[n].status # "none"
  BY <1>1, DecidedFacts DEF TypeInv
<1>6. /\ identity'[i].email = e
      /\ \A j \in Identity : /\ identity'[j].status = identity[j].status
                             /\ identity'[j].customer = identity[j].customer
      /\ \A j \in Identity \ {i} : identity'[j] = identity[j]
  <2>1. identity' = [identity EXCEPT ![i].email = e]
    BY <1>1
  <2> HIDE DEF i, e
  <2>. QED BY <1>2, <2>1, EmailMoves DEF TypeInv
<1> HIDE DEF i, e
<1>7. /\ c \notin edited => media'[c]["first"] = e /\ media'[c]["added"] = media[c]["added"]
      /\ \A d \in Customer \ {c} : media'[d] = media[d]
  <2>1. c \notin edited => media[c][m] # Gone
    BY <1>3, AccountAssumption DEF Clean, OneMedium
  <2>2. media' = media \/ media' = [media EXCEPT ![c][m] = e]
    BY <1>1 DEF e
  <2>3. media[c][m] # Gone => media' = [media EXCEPT ![c][m] = e]
    BY <1>1 DEF e
  <2>. QED BY <1>2, <1>3, <2>1, <2>2, <2>3, MediumMoves DEF TypeInv, Medium
<1>8. OneAddressEach'
  <2>1. \A j \in Identity : Exists(j)' <=> Exists(j)
    BY <1>6 DEF Exists
  <2>. QED BY <1>2, <1>6, <2>1 DEF Clean, OneAddressEach
<1>9. OneMedium'
  BY <1>2, <1>4, <1>7 DEF Clean, OneMedium
<1>10. RowsLinked'
  BY <1>5, <1>6 DEF Clean, RowsLinked, TypeInv, Filled
<1>11. ASSUME NEW j \in Identity \ {i}, Exists(j), c \notin edited
       PROVE  identity[j].email # media[c]["first"]
  BY <1>2, <1>3, <1>11, NobodyElse, AccountAssumption
<1>12. Agreed'
  <2>1. ASSUME NEW j \in Identity, identity[j].customer \notin edited \union {None}
        PROVE  identity'[j].email = media'[identity[j].customer]["first"]
    <3>1. Exists(j) /\ identity[j].customer \in Customer
      BY <2>1, LinkedExists
    <3>2. identity[j].email = media[identity[j].customer]["first"]
      BY <2>1 DEF Clean, Agreed
    <3>. QED BY <1>3, <1>6, <1>7, <1>11, <2>1, <3>1, <3>2
  <2>. QED BY <1>4, <1>6, <2>1 DEF Agreed
<1>13. ASSUME NEW j \in Identity, NEW d \in Customer \union {None}, Exists(j), SameAddress(j, d)
       PROVE  SameAddress(j, d)'
  BY <1>3, <1>4, <1>6, <1>7, <1>11, <1>13, AccountAssumption DEF SameAddress
<1>14. StillTrue(r)'
  BY <1>4 DEF StillTrue, At, Idle
<1>15. ASSUME NEW s \in Request \ {r} PROVE StillTrue(s)'
  BY <1>3, <1>4, <1>5, <1>6, <1>13, OthersClean, AccountAssumption
<1>. QED BY <1>8, <1>9, <1>10, <1>12, <1>14, <1>15 DEF Clean

LEMMA LoginStartClean ==
  ASSUME TypeInv, Clean, NEW i \in Identity, NEW e \in Email, LoginStart(i, e)
  PROVE  Clean'
<1>1. /\ UNCHANGED <<media, changes, requests, edited>> /\ ~ Exists(i)
      /\ \A j \in Identity : identity[j].email # e
      /\ identity' = [identity EXCEPT ![i] = [status |-> "unverified", email |-> e, customer |-> None]]
  BY DEF LoginStart
<1>2. /\ identity'[i] = [status |-> "unverified", email |-> e, customer |-> None]
      /\ \A j \in Identity \ {i} : identity'[j] = identity[j]
      /\ identity[i].customer = None
  BY <1>1 DEF TypeInv, TypeOK, Exists
<1>3. OneAddressEach'
  BY <1>1, <1>2 DEF Clean, OneAddressEach, Exists
<1>4. OneMedium' /\ Agreed'
  BY <1>1, <1>2 DEF Clean, OneMedium, Agreed
<1>5. RowsLinked'
  BY <1>1, <1>2 DEF Clean, RowsLinked, TypeInv, Filled
<1>6. ASSUME NEW s \in Request PROVE StillTrue(s)'
  BY <1>1, <1>2, OthersClean DEF SameAddress, Exists
<1>. QED BY <1>3, <1>4, <1>5, <1>6 DEF Clean

(* What a CSR edits is not compared any more. *)
LEMMA CrmClean ==
  ASSUME TypeInv, Clean, NEW c \in Customer,
         \/ \E e \in Email : CrmCreate(c, e) \/ AddContactMedium(c, e)
         \/ \E m \in Medium : RemoveContactMedium(c, m)
  PROVE  Clean'
<1>1. UNCHANGED <<identity, changes, requests>>
  BY DEF CrmCreate, AddContactMedium, RemoveContactMedium
<1>2. ASSUME NEW e \in Email, CrmCreate(c, e) PROVE Clean'
  <2>1. /\ OneAddressEach' /\ OneMedium' /\ RowsLinked' /\ Agreed'
        /\ \A i \in Identity, d \in Customer \union {None} :
              Exists(i) /\ SameAddress(i, d) => SameAddress(i, d)'
    BY <1>1, <1>2, Creating DEF CrmCreate
  <2>2. \A s \in Request : StillTrue(s)'
    BY <1>1, <1>2, <2>1, OthersClean DEF CrmCreate
  <2>. QED BY <2>1, <2>2 DEF Clean
<1>3. CASE \/ \E e \in Email : AddContactMedium(c, e)
           \/ \E m \in Medium : RemoveContactMedium(c, m)
  <2>1. PICK m \in Medium, e \in Email \union {Gone} :
           media' = [media EXCEPT ![c][m] = e] /\ edited' = edited \union {c}
    BY <1>3 DEF AddContactMedium, RemoveContactMedium, Medium
  <2>2. \A d \in Customer \ {c} : media'[d] = media[d]
    BY <2>1, MediumMoves DEF TypeInv
  <2>3. OneAddressEach' /\ OneMedium' /\ RowsLinked'
    BY <1>1, <2>1, <2>2 DEF Clean, OneAddressEach, OneMedium, RowsLinked, Exists
  <2>4. Agreed'
    BY <1>1, <2>1, <2>2, LinkedExists DEF Clean, Agreed
  <2>5. ASSUME NEW i \in Identity, NEW d \in Customer \union {None}, Exists(i), SameAddress(i, d)
        PROVE  SameAddress(i, d)'
    BY <1>1, <2>1, <2>2, <2>5 DEF SameAddress
  <2>6. \A s \in Request : StillTrue(s)'
    BY <1>1, <2>1, <2>5, OthersClean
  <2>. QED BY <2>3, <2>4, <2>6 DEF Clean
<1>. QED BY <1>2, <1>3

LEMMA LostStays == TypeInv /\ Next /\ lost => lost'
BY Zenon DEF Next, Commit, Call, Crm, LoginCommit, SignupCreate, ReadLink, LinkToCustomer, ChangeStarted, ChangeCommit,
   Stop, LoginVerify, SignupSubmit, ChangeVerify, ChangeStart, ChangeExpired, ChangeCancel, LoginStart,
   CrmCreate, AddContactMedium, RemoveContactMedium

LEMMA AccountInvInit == Init => AccountInv
<1> SUFFICES ASSUME Init PROVE Clean
  BY DEF AccountInv
<1>1. OneAddressEach /\ OneMedium /\ RowsLinked /\ Agreed
  BY DEF Init, OneAddressEach, OneMedium, RowsLinked, Agreed, Exists, NoIdentity, NoCustomer, NoChange, Medium
<1>2. \A r \in Request : StillTrue(r)
  BY DEF Init, StillTrue, At, Idle
<1>. QED BY <1>1, <1>2 DEF Clean

LEMMA AccountInvNext == TypeInv /\ AccountInv /\ [Next]_vars => AccountInv'
<1> SUFFICES ASSUME TypeInv, AccountInv, [Next]_vars, ~ lost' PROVE Clean'
  BY DEF AccountInv
<1>1. CASE UNCHANGED vars
  <2>1. Clean
    BY <1>1 DEF vars, AccountInv
  <2>2. OneAddressEach' /\ OneMedium' /\ RowsLinked' /\ Agreed'
    BY <1>1, <2>1 DEF vars, Clean, OneAddressEach, OneMedium, RowsLinked, Agreed, Exists
  <2>3. \A r \in Request : StillTrue(r)'
    BY <1>1, <2>1 DEF vars, Clean, StillTrue, At, SameAddress
  <2>. QED BY <2>2, <2>3 DEF Clean
<1>2. CASE Next
  <2>1. Clean
    BY <1>2, LostStays DEF AccountInv
  <2>. QED BY <1>2, <2>1, NextCases, LoginClean, SignupClean, ReadLinkClean, CallsClean, StartedClean, DecidedClean,
              CommitClean, LoginStartClean, CrmClean
<1>. QED BY <1>1, <1>2

LEMMA AccountInvHolds == Spec => [](TypeInv /\ AccountInv)
<1>1. Init => TypeInv /\ AccountInv
  BY TypeInit, AccountInvInit
<1>2. TypeInv /\ AccountInv /\ [Next]_vars => (TypeInv /\ AccountInv)'
  BY TypeNext, AccountInvNext
<1>. QED BY <1>1, <1>2, PTL DEF Spec

(* The portal and CRM have the same address of a customer (verify_email_change writes both *)
(* in one transaction), through logins, signups, changes and stopped requests in any order, *)
(* until a CSR edits the addresses or a link is overwritten by who had not seen it.         *)
THEOREM AddressesAgree == Spec => []EmailsAgree
<1>1. AccountInv => EmailsAgree
  BY DEF AccountInv, Clean, Agreed, EmailsAgree
<1>. QED BY <1>1, AccountInvHolds, PTL

(* Two accounts never meet in one customer: both would have its address, and the portal  *)
(* keeps addresses unique (link_to_customer, uq_identity_email_active).                   *)
THEOREM OneAccountEach == Spec => []LinksOneToOne
<1>1. TypeInv /\ AccountInv => LinksOneToOne
  <2> SUFFICES ASSUME TypeInv, AccountInv, ~ lost, NEW i \in Identity, NEW j \in Identity,
                      identity[i].customer # None, identity[i].customer \notin edited,
                      identity[j].customer = identity[i].customer
               PROVE  i = j
    BY DEF LinksOneToOne
  <2>1. Clean /\ Exists(i)
    BY LinkedExists DEF AccountInv
  <2>2. identity[i].email = identity[j].email
    BY <2>1 DEF Clean, Agreed
  <2>. QED BY <2>1, <2>2 DEF Clean, OneAddressEach
<1>. QED BY <1>1, AccountInvHolds, PTL
================================================================================
