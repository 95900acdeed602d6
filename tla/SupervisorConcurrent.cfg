SPECIFICATION SupSpec
CONSTANTS
    Names = {n1, n2}
    Targets = {t1, t2}
    None = None
    Callers = {c1, c2, c3}
    MaxGen = 3
SYMMETRY Symmetry
INVARIANTS RunningIsInTable CancelledIsAwaited NothingAfterShutdown
CHECK_DEADLOCK FALSE
