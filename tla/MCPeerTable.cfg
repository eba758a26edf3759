SPECIFICATION FairSpec
CONSTANTS
    in1 = in1
    in2 = in2
    out1 = out1
    out2 = out2
    k1 = k1
    k2 = k2
    k3 = k3
    near = near
    far = far
    Conn = {in1, in2, out1, out2}
    Outbound = {out1, out2}
    Key = {k1, k2, k3}
    KeyOf <- Keys
    Prefix = {near, far}
    PrefixOf <- Prefixes
    None = None
    MaxConnections = 3
    Reserved = 1
    RatioLimit = 60
    RatioMinTotal = 2
    PrefixCap = 1
    Bootstrap = TRUE
    Protected = {}
CHECK_DEADLOCK FALSE
INVARIANTS
    TypeOK
    OneOwner
    InflightIsLiveInbound
    NothingOutlivesTheServer
PROPERTIES
    RotationKeepsOutbound
    StopEnds
