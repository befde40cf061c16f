SPECIFICATION PartsSpec
CONSTANTS
    Cycle = 3
    MaxTotal = 4
    MaxDepth = 2
    Sample <- SomeSamples
    MAX_SAMPLES = 2
    MaxSamples = 4
    initial = 2
    Limit = 1000
    Precision = 4
    Fine = 2
    Deltas = {0, 1, 7, 12, 26, 32}
    MaxElapsed = 256
    Config <- SomeConfigs
    Memory <- SomeMemory
    HexDump <- SomeHexDumps
    _BUF_SIZE = 10
    Radix = 2
    Text <- SomeTexts
    Unsigned = 4
    UnsignedLong = 16
    Tag_Max_Size = 2
    Phrase <- SomePhrases
    Word <- SomeWords
    List <- SomeLists
    Quotes <- SomeQuotes
    MaxPath = 3
    dim = 3
    Coord = {"1", "2"}
    Tokens <- SomeTokens
    Vector <- SomeOperands
    MaxWritten = 2
    File = {o1, o2, o3}
    Handle = {h1, h2}
    Null = Null
    MaxStatements = 2
    MaxRefs = 2
    Message = {m}
    Errno = {2, 5}
    FileCounts = {0, 1, 3}
    FileSizes = {0, 2}
    LowestMax = 1
    MaxRecords = 3
    MaxStarts = 2
    Signature <- SomeSignatures
    Content <- SomeContent
    Digits <- SomeDigits
    Thread = {t1, t2}
    NoThread = NoThread
    Console = {c1, c2}
    Direct = c1
    Stream = {cout, cerr}
    Terminal = {cout}
    Severities = {1, 4}
    MaxWrites = 2
    kMaxMessageSize = 4
    FuncShown = 3
    LocSize = 11
INVARIANTS
    CountersTell
    StatsTell
    DumpIsComplete
    VersionsUnderstood
    StringsKept
    PathsKept
    RecordsKept
    OpenWhileOwned
    AppendersShared
PROPERTIES
    TogglesTell
    TimeIsKept
    VectorsKept
    FlagsKept
    ErrorsTold
    RollingKept
\* The computations take no steps; the modelled time and writing end, and so does the program.
CHECK_DEADLOCK FALSE
