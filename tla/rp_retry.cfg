SPECIFICATION FairSpec
CONSTANTS
    a = a
    c = c
    q = q
    ka = ka
    kc = kc
    Request = {q}
    RequestOf <- OneRequest
    Resume = {a, c}
    Key = {ka, kc}
    MaxDeletions <- OnceThatOfA
    KeyOf <- OwnKeys
    Email = {"a@x", "c@x"}
    EmailOf <- OwnAddresses
    FormEmail = {"a@x"}
    Parseable = {a}
    Worker = {w1}
    BatchSize = 2
    MaxFaults = 1
INVARIANT NoResumeLost
PROPERTIES QueuedResumesParsed RemovedForGood ImplementsQueue
