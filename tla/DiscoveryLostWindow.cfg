SPECIFICATION FairSpec
CONSTANTS
    n1 = n1
    n2 = n2
    n3 = n3
    t1 = t1
    t2 = t2
    Names = {n1, n2, n3}
    Targets = {t1, t2}
    None = None
    Torn = Torn
    NoHost = NoHost
    Omitted = Omitted
    Selection = {n1, n2}
    NotWriting = NotWriting
    Watcher = Watcher
    Callers = {Watcher}
    Versions <- All
    Modes = {"fsnotify"}
    Cut <- HostAlone
    Overflows = FALSE
    MaxWrites = 1
    MaxBlocks = 0
    MaxGen = 2
PROPERTIES Converges
CHECK_DEADLOCK FALSE
