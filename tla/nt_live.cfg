SPECIFICATION FairSpec
CONSTANTS
    m = m
    p = p
    x = x
    u = u
    v = v
    t = t
    g = g
    c1 = c1
    c2 = c2
    l1 = l1
    l2 = l2
    NoUser = NoUser
    Message = {m, p, x}
    Mail = {m}
    Push = {p}
    User = {u}
    UserOf <- ToU
    Mailable = {u}
    Device = {t, g}
    Live = {t}
    Login = {l1}
    Consumer = {c1}
    BatchSize = 2
    MaxFaults = 1
    MaxFailures = 1
INVARIANTS NoNotificationLost
PROPERTIES DeliverableSent ImplementsQueue
