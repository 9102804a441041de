SPECIFICATION Spec
CONSTANTS
    MAX_BUFFER_LENGTH = 7
    MaxInput = 6
    Alphabet <- ReceivedCharacters
INVARIANT ChecksumOverPayloadOnly
CHECK_DEADLOCK FALSE
