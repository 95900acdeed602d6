SPECIFICATION FairSpec
CONSTANTS
    None = None
    File = File
    Agents = {a1, a2}
    Socks = {desktop, status}
INVARIANTS
    LiveIsKept OneAgentWhenOrderly
PROPERTIES AloneServes SignalEnds
CHECK_DEADLOCK FALSE
