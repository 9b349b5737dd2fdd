SPECIFICATION Spec
CONSTANTS
    r1 = r1
    r2 = r2
    r3 = r3
    k1 = k1
    k2 = k2
    o1 = o1
    o2 = o2
    Request = {r1, r2, r3}
    Key = {k1, k2}
    Org = {o1}
    Total <- TotalWithEmpty
    MaxConcurrent = 1
    MaxFaults = 1
    ListedOnly = TRUE
INVARIANTS DeletedFilesReclaimed
PROPERTIES ImplementsLedger
