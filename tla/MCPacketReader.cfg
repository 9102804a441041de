SPECIFICATION Spec
CONSTANTS
    MAX_BUFFER_LENGTH = 7
    MaxInput = 8
    Alphabet <- ReceivedCharacters
INVARIANTS
    TypeOK
    StopsAtFirstFrame
    AcceptedIffSumMatches
    WellFormedAccepted
    AcceptedIsVerified
    BufferHoldsInput
CHECK_DEADLOCK FALSE
