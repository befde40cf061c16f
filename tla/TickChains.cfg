SPECIFICATION TicksSpec
CONSTANTS
    source = source
    narrow = narrow
    doubled = doubled
    halfway = halfway
    wide = wide
    None = None
    Clock <- EvenClock
    Upstream <- EvenUpstream
    Modulus <- EvenModulus
    IntValues = 16
    Factor <- EvenFactor
    Delta = {5}
    MaxAge = 18
INVARIANT SpansAreRight
