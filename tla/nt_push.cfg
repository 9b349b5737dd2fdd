SPECIFICATION Spec
CONSTANTS
    m = m
    p = p
    x = x
    u = u
    v = v
    t = t
    g = g
    c1 = c1
    c2 = c2
    l1 = l1
    l2 = l2
    NoUser = NoUser
    Message = {p}
    Mail = {}
    Push = {p}
    User = {u, v}
    UserOf <- ToU
    Mailable = {u}
    Device = {t, g}
    Live = {t}
    Login = {l1, l2}
    Consumer = {c1, c2}
    BatchSize = 2
    MaxFaults = 0
    MaxFailures = 3
SYMMETRY Symmetry
INVARIANTS OneCopyPerDelivery PushesToOwnDevices
PROPERTIES LiveDevicesKept
