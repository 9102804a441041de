SPECIFICATION Spec
CONSTANTS
    c1 = c1
    c2 = c2
    Conn <- Clients2
    NULL = NULL
    ItemNames <- Names
    ItemOf <- SampleItemOf
    Netbufs <- ChainedNetbufs
    MaxNetbufs = 2
    AcceptMboxSize = 2
    PeerMayReset = FALSE
    PcbMayRunOut = FALSE
    WriteMayFail = FALSE
    OtherTransport = FALSE
    HasTarget = FALSE
INVARIANTS
    TransparentChannel
CHECK_DEADLOCK FALSE
