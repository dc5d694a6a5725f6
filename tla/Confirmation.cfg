SPECIFICATION FairSpec
CONSTANTS
    Workers = {w1, w2}
    Confirmations = {c1}
    None = None
    Modes = {"ask", "approve", "deny"}
    Kinds = {"ordinary", "ask", "approve"}
    MaxPrompts = 1
    MaxRuns = 1
    MaxConnects = 2
    MaxHubRestarts = 1
CHECK_DEADLOCK FALSE
INVARIANTS
    AnswersHonest
PROPERTIES
    NoLateApproval
    NobodyWaitsForever
