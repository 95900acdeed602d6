SPECIFICATION FairSpec
CONSTANTS
    None = None
    Conns = {c1, c2}
    Reqs = {r1}
    By = {"", "policy"}
    MaxInbox = 1
    MaxAnswers = 2
INVARIANTS
    TypeOK ApproveIsAnswered NoDecisionLost
    NobodyForgotten NewestIsConsumer HandshakeFirst
PROPERTIES GateRefined AbandonedRequestSettles
CHECK_DEADLOCK FALSE
