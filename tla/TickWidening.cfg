SPECIFICATION TicksSpec
CONSTANTS
    source = source
    narrow = narrow
    doubled = doubled
    halfway = halfway
    wide = wide
    None = None
    Clock <- WideClock
    Upstream <- WideUpstream
    Modulus <- WideModulus
    IntValues = 16
    Factor <- WideFactor
    Delta = {5}
    MaxAge = 18
INVARIANT ShortSpansCorrect
