SPECIFICATION FairSpec
CONSTANTS
    Streams = {s1}
    Asks = {a1}
    MaxMints = 3
    MaxRestarts = 1
    MaxFailures = 1
    MaxNear = 1
    MaxRefreshes = 1
INVARIANTS
    TypeOK SingleFlight TerminalFailsClosed RejectedNotServed
    ForceIsFresh StaleOnlyByJoin
PROPERTIES AskReturns
CHECK_DEADLOCK FALSE
