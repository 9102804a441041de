SPECIFICATION ItemSpec
CONSTANTS
    MAX_BUFFER_LENGTH = 64
    MaxInput = 60
    MaxItems = 4
    Alphabet <- Char
    Bytes <- SampleBytes
    Characters <- SampleCharacters
    ItemOf <- SampleItemOf
INVARIANTS
    VerdictsMatchCharacters
    TextsMatchCharacters
CHECK_DEADLOCK FALSE
