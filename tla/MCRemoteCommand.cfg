SPECIFICATION Spec
CONSTANTS
    Texts <- ClientTexts
    Fragments <- TextFragments
    Bytes <- FragmentBytes
    MESSAGE_MAX_LENGTH = 14
    MAX_ARG_COUNT = 2
INVARIANTS
    TypeOK
    HaltsExactlyUndecodable
    ArgumentsAreWords
    MatchesCommandTable
CHECK_DEADLOCK FALSE
