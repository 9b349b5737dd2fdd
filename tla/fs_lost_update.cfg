SPECIFICATION Spec
CONSTANTS
    r1 = r1
    r2 = r2
    r3 = r3
    k1 = k1
    k2 = k2
    o1 = o1
    o2 = o2
    Request = {r1, r2}
    Key = {k1, k2}
    Org = {o1}
    Total <- TotalBytes
    MaxConcurrent = 2
    MaxFaults = 0
    ListedOnly = TRUE
SYMMETRY Symmetry
INVARIANTS UsedStorageIsTotal
