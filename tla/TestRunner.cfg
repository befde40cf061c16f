SPECIFICATION Spec
CONSTANTS
    Batch = {b1, b2}
    MaxCases = 2
SYMMETRY Symmetry
INVARIANTS
    AssertionHolds
    ReportsTell
PROPERTY FailureStops
