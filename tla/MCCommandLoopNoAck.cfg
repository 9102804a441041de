SPECIFICATION Spec
CONSTANTS
    HasTarget = FALSE
    MaxLog = 2
    Texts <- CommandTexts
INVARIANTS
    NoAckModeStarts
CHECK_DEADLOCK FALSE
