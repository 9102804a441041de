SPECIFICATION Spec
CONSTANTS
    HasTarget = FALSE
    MaxLog = 2
    Texts <- CommandTexts
INVARIANTS
    ExtendedOnlyByRequest
    OneReplyPerCommand
    NoImplementedQueryShadowed
    HaltsOnlyOnDollar
CHECK_DEADLOCK FALSE
