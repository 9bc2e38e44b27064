SPECIFICATION MCSpec
CONSTANTS
    k1 = k1
    t1 = t1
    None = None
    Keys <- MCKeys
    Tokens <- MCTokens
    TaskOf <- MCTaskOf
    Runners = {r1}
    ApiWorkers = {a1, a2}
    Priorities = {1}
    MaxAttempts = 2
    Patches = {"completed", "failed", "running", "submitting"}
    ClaimBound = 3
    Pods = {w1, w2}
    Rows = {s1, s2}
    NoRow = NoRow
INVARIANTS
    TypeOK
    RetryBudget
    OneWinnerPerAttempt
    ClaimColumnsAgree
    StopIsSafe
PROPERTIES
    UsedTokenAdmitsNobody
    AnsweredNeverRerun
    EveryTaskSettles
    ImplementsContract
    LoopKeepsUp
CHECK_DEADLOCK FALSE
