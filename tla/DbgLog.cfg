SPECIFICATION FairSpec
CONSTANTS
    Thread = {t1, t2}
    NoThread = NoThread
    File = {debug_log, other_log}
    DefaultFile = debug_log
    None = None
    MaxStatements = 2
\* The program stops when its threads have executed their statements.
CHECK_DEADLOCK FALSE
INVARIANTS
    LinesNotGarbled
    LinesWhole
PROPERTIES
    ImplementsLineLog
    EveryStatementEnds
