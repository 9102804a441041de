SPECIFICATION Spec
CONSTANTS
    c1 = c1
    c2 = c2
    Conn <- Clients2
    NULL = NULL
    ItemNames <- Names
    ItemOf <- SampleItemOf
    Netbufs <- ShortNetbufs
    MaxNetbufs = 2
    AcceptMboxSize = 2
    PeerMayReset = TRUE
    PcbMayRunOut = FALSE
    WriteMayFail = FALSE
    OtherTransport = FALSE
    HasTarget = FALSE
INVARIANTS
    SessionActiveWhenHandling
CHECK_DEADLOCK FALSE
