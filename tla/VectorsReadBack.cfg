SPECIFICATION VectorsSpec
CONSTANTS
    dim = 4
    Coord = {"1", "2"}
    Tokens <- SomeTokens
    Vector = {0}
    MaxWritten = 1
INVARIANT ReadsBack
\* The bound on what is written ends it.
CHECK_DEADLOCK FALSE
