SPECIFICATION FairSpec
CONSTANTS
    Streams = {s1, s2}
    Asks = {}
    MaxMints = 8
    MaxRestarts = 1
    MaxFailures = 1
    MaxNear = 1
    MaxRefreshes = 0
PROPERTIES StreamRecovers
CHECK_DEADLOCK FALSE
