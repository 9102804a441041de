SPECIFICATION FairSpec
CONSTANTS
    c1 = c1
    c2 = c2
    Conn <- Clients2
    NULL = NULL
    ItemNames <- Names
    ItemOf <- SampleItemOf
    Netbufs <- LiveNetbufs
    MaxNetbufs = 1
    AcceptMboxSize = 2
    PeerMayReset = TRUE
    PcbMayRunOut = TRUE
    WriteMayFail = TRUE
    OtherTransport = TRUE
    HasTarget = FALSE
PROPERTIES
    EveryConnectionEnds
CHECK_DEADLOCK FALSE
