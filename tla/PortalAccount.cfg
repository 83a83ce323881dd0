\* Two accounts, two customers, two addresses, two requests at a time.
SPECIFICATION Spec
CONSTANTS
    e1 = e1
    e2 = e2
    i1 = i1
    i2 = i2
    c1 = c1
    c2 = c2
    r1 = r1
    r2 = r2
    Email = {e1, e2}
    Identity = {i1, i2}
    Customer = {c1, c2}
    Request = {r1, r2}
    Row = {1, 2}
    None = None
    MaxEdited = 1
SYMMETRY Symmetric
INVARIANTS
    TypeOK
    EmailsAgree
    LinksOneToOne
