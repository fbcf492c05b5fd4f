SPECIFICATION FairSpec
CONSTANTS
    d1 = d1
    d2 = d2
    kid1 = kid1
    kid2 = kid2
    shared = shared
    own = own
    other = other
    None = None
    c1 = c1
    Devices = {d1, d2}
    Kids = {kid1, kid2}
    Keys = {shared, own, other}
    ClientNonces = {c1}
    SignedTypes = {"ota_check", "dp_report"}
    Offers <- MCOffers
    Resolve <- MCResolve
    DeviceKey <- MCDeviceKey
    ConfigKid = kid1
    Expected = {None, d1}
    HandshakeTimeout = 1
    MaxConnections = 2
    MaxSigned = 2
    MaxSent = 2
INVARIANTS
    Authentic
    NotReplayed
    OursAccepted
    OneVerdict
PROPERTIES
    KeepsLink
    HandshakeEnds
CHECK_DEADLOCK FALSE
