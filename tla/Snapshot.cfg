SPECIFICATION PartsSpec
CONSTANTS
    Half = 128
    Emissions <- MCEmissions
    FileTags <- MCFiles
    MaxPieces = 2
    noText = noText
    plain = plain
    lone = lone
    fffd = fffd
    Strings <- MCStrings
    Empty = noText
    Normal <- MCNormal
    ByteHash <- MCByteHash
    MemoizeAfter = 2
    MaxSize = 4
    MaxGeneration = 2
    MaxReads = 3
    Letters <- MCLetters
    Names <- MCNames
    Lower <- MCLower
    HashOf <- MCHashOf
    CharHome <- MCCharHome
    Hashes <- MCHashes
    Entities = {0, 1, 9}
    EntityWidth = 10
    InitialSlots = 2
    Slack = 1
    LastGeneration = 2
    Ratios <- MCRatios
    Limits = {2}
    MaxEntries = 3
    Digit = 3
    LastDigit = 2
    KeysAdded = {0, 1, 4, 9, 13, 20}
    KeysSought = {0, 1, 4, 10, 13}
    RadixMinSize = 3
    MaxPairs = 4
    Fields <- MCFields
    InitialCapacity = 2
    RowsOf <- MCRows
    Runs <- MCRuns
    MaxRows = 3
INVARIANTS
    PartsTypeOK
    SectionsApart
    QuietReads
    OneReadOneSnapshot
    NoOldMemory
    IdsResolve
    OneIdEach
    SearchIsExact
    SortedAndStable
    FindsFirstPair
    RowsReadBack
PROPERTIES
    PartsEnd
