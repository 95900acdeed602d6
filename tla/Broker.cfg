SPECIFICATION FairSpec
CONSTANTS
    None = None
    Unset = Unset
    Bad = Bad
    Reqs = {r1, r2}
    Servers = {"a", "b"}
    Sheds = {"x", "y"}
    Configs <- MCConfigs
    Traffic <- MCTraffic
    Restarted <- MCRestarted
    Keys = {"k1", "garbled"}
    Registries <- MCRegistries
    RefreshBefore = 1
    DefaultDur = 3
    DefaultTTL = 2
    MaxClock = 3
    MaxLogins = 1
    MaxCrashes = 1
INVARIANTS
    NothingUnapproved OwnConfiguration OneAssumeRole
    AnonymousIsNoCredential AuditAgrees
PROPERTIES Settles
CHECK_DEADLOCK FALSE
