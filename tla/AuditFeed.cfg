SPECIFICATION Spec
CONSTANTS
    Conns = {c1, c2}
    None = None
    Replays = {1, 3}
    QueueMax = 2
    RingMax = 2
    MaxEntries = 3
    MaxFailures = 1
SYMMETRY Symmetry
INVARIANTS CaughtUp InOrderAfterReplay
CHECK_DEADLOCK FALSE
