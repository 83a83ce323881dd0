\* Two records, one of them roaming, two holders of the number, one rating process.
CONSTANTS
    c1 = c1
    c2 = c2
    s1 = s1
    s2 = s2
    w1 = w1
    w2 = w2
    NoSub = NoSub
    Cdr = {c1, c2}
    Posted <- Bodies
    Sub = {s1, s2}
    Rater = {w1}
    Plan <- Plans
    Total = 2
    MaxChanges = 1
    MaxOutages = 1
    MaxFaults = 1
SPECIFICATION FairSpec
INVARIANTS
    TypeOK
    DuplicatesNeedFaults
    PocketsApart
PROPERTIES
    RecordedIsSettled
CHECK_DEADLOCK FALSE
