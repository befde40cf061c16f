SPECIFICATION Spec
CONSTANTS
    Capacity = 3
    Value = {x, y}
    ErrorValue = ErrorValue
    Void = Void
INVARIANTS
    CountMatchesIndices
    FindsExactlyTheContents
PROPERTY ImplementsDeque
