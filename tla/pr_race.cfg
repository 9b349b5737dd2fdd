SPECIFICATION SessionSpec
CONSTANTS
    Initiation = {i1, i2}
    Submission = {s1, s2, s3}
    None = None
    Browser = {b}
    MaxConcurrent = 3
    MaxFaults = 1
SYMMETRY Symmetry
INVARIANTS LinkColumnsAgree StoredLinkMailed
PROPERTIES LinkWorksOnce ResetsStickAlone SessionsNeedPassword
