SPECIFICATION Spec
CONSTANTS
    Initiation = {i1, i2}
    Submission = {s1, s2}
    None = None
    MaxConcurrent = 2
    MaxFaults = 0
SYMMETRY Symmetry
PROPERTIES ResetsStick
