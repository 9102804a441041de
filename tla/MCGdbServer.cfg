SPECIFICATION Spec
CONSTANTS
    c1 = c1
    c2 = c2
    Conn <- Clients2
    NULL = NULL
    ItemNames <- Names
    ItemOf <- SampleItemOf
    Netbufs <- ShortNetbufs
    MaxNetbufs = 2
    AcceptMboxSize = 2
    PeerMayReset = TRUE
    PcbMayRunOut = TRUE
    WriteMayFail = TRUE
    OtherTransport = TRUE
    HasTarget = FALSE
SYMMETRY Symmetry
INVARIANTS
    TypeOK
    SessionExclusive
    AnsweredInOrder
    NothingSkipped
    NothingLostAtClose
    FreshSession
    AssertionsExplained
PROPERTIES
    OnlyOwnerWritten
    ImplementsSingleSession
CHECK_DEADLOCK FALSE
