SPECIFICATION FairSpec
CONSTANTS
    n1 = n1
    n2 = n2
    n3 = n3
    t1 = t1
    t2 = t2
    Names = {n1, n2, n3}
    Targets = {t1, t2}
    None = None
    Torn = Torn
    NoHost = NoHost
    Omitted = Omitted
    Selection = {n1, n2}
    NotWriting = NotWriting
    Watcher = Watcher
    Callers = {Watcher}
    Versions <- All
    Modes = {"off", "poll", "fsnotify"}
    Cut <- HostAlone
    Overflows = TRUE
    MaxWrites = 2
    MaxBlocks = 1
    MaxGen = 5
INVARIANTS OnlyListed ErrorsKeepServers
PROPERTIES ConvergesOnceWatched StopsClean
CHECK_DEADLOCK FALSE
