SPECIFICATION Spec
CONSTANTS
    MAX = 3
    Client = {A, B}
    Cargo = {x}
    ERROR = ERROR
    Unset = Unset
    Void = Void
    Junk = Junk
    Asserts = TRUE
    DEBUG = TRUE
    Disciplined = FALSE
INVARIANTS
    FreeKeysDistinct
CHECK_DEADLOCK FALSE
