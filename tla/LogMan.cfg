SPECIFICATION FairSpec
CONSTANTS
    Thread = {t1, t2}
    NoThread = NoThread
    NDEBUG = FALSE
    Normal = 4
    Levels = {3, 5}
    MaxCalls = 2
INVARIANTS
    InitializedOnce
    UsedOnlyWhenReady
    ReportComesFirst
PROPERTIES
    FirstConfigurationStays
    EveryCallReturns
\* The program stops when its threads have made their calls.
CHECK_DEADLOCK FALSE
