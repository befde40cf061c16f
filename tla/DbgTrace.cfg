SPECIFICATION Spec
CONSTANTS
    Stmt = {s1, s2}
    Func = {f, g}
    Silent = {g}
    MAXNESTLEVEL = 2
    MaxOpen = 3
    MaxItems = 1
    MaxEnabled = 0
    MaxDisabled = 1
INVARIANT OutputFollowsProgram
PROPERTIES
    LinesMixOnlyWhenNested
    NothingLost
    SilentWhenDisabled
    ScopesShown
SYMMETRY Symmetry
VIEW StateView
\* The program may end.
CHECK_DEADLOCK FALSE
