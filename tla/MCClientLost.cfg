SPECIFICATION Spec
CONSTANTS
    c1 = c1
    c2 = c2
    r1 = r1
    r2 = r2
    tls1 = tls1
    tls2 = tls2
    dev1 = dev1
    dev2 = dev2
    Callers = {c1}
    Requests = {r1}
    Credentials = {tls1}
    DeviceIds = {dev1}
    ReconnectEnabled = TRUE
    InitialDelay = 1
    MaxDelay = 4
    AuthDelay = 9
INVARIANT
    NoRequestLost
