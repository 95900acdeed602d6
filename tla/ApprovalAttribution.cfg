SPECIFICATION Spec
CONSTANTS
    None = None
    Conns = {c1, c2}
    Reqs = {r1}
    By = {""}
    MaxInbox = 1
    MaxAnswers = 2
INVARIANTS DeciderAnswered
CHECK_DEADLOCK FALSE
