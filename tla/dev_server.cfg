SPECIFICATION Spec
CONSTANTS
    Job = {j1}
    Date = {d1, d2, d3}
    None = None
    Call = {c1, c2}
    Timeout = 2
    MaxStops = 2
INVARIANTS PublishedDated StopsOnlyWhenIdle
PROPERTIES DeletedForGood IdleMachineStops
