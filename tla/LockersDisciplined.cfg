SPECIFICATION Spec
CONSTANTS
    MAX = 3
    Client = {A, B}
    Cargo = {x, y}
    ERROR = ERROR
    Unset = Unset
    Void = Void
    Junk = Junk
    Asserts = TRUE
    DEBUG = FALSE
    Disciplined = TRUE
INVARIANTS
    EachKeyOnce
    HoldersUndisturbed
PROPERTY ImplementsPool
