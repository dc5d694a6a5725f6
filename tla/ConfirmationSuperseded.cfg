SPECIFICATION Spec
CONSTANTS
    Workers = {w1, w2}
    Confirmations = {c1}
    None = None
    Modes = {"ask"}
    Kinds = {"ordinary"}
    MaxPrompts = 1
    MaxRuns = 1
    MaxConnects = 2
    MaxHubRestarts = 0
CHECK_DEADLOCK FALSE
INVARIANT
    OwnerIsNotRefused
