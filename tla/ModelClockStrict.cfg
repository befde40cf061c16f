SPECIFICATION ModelSpec
CONSTANTS
    Precision = 4
    Fine = 2
    Deltas = {0, 1, 7, 12, 26, 32}
    MaxElapsed = 256
PROPERTY StrictlyMonotonic
\* The modelled time ends.
CHECK_DEADLOCK FALSE
