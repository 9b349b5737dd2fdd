SPECIFICATION Spec
CONSTANTS
    a = a
    c = c
    q = q
    ka = ka
    kc = kc
    Request = {q}
    RequestOf <- OneRequest
    Resume = {a}
    Key = {ka}
    MaxDeletions <- TwiceEach
    KeyOf <- OwnKeys
    Email = {"a@x", "c@x"}
    EmailOf <- OwnAddresses
    FormEmail = {"a@x"}
    Parseable = {a}
    Worker = {w1, w2}
    BatchSize = 2
    MaxFaults = 2
INVARIANTS OneRecordPerKey ParsedFilesRecorded
