SPECIFICATION Spec
CONSTANTS
    MAX_BUFFER_LENGTH = 7
    Plain <- PlainCharacters
    Encoded <- EncodedCharacters
    MaxMessage = 7
    MaxTold = 2
INVARIANTS TypeOK WireIsFramed ReaderAcceptsReply HaltsOnlyOverlong
CHECK_DEADLOCK FALSE
