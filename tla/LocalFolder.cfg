SPECIFICATION Spec
CONSTANTS
    c1 = c1  c2 = c2
    Conns = {c1, c2}
    Mail = {1, 2}
    Dropped = {3}
    HandNumbers = {2}
    MaxSessions = 3
    MaxTroubles = 2
SYMMETRY Symmetric
INVARIANTS NothingLost NumberNamesOne EveryFileHasRow
CHECK_DEADLOCK FALSE
