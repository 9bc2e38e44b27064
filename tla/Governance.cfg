SPECIFICATION MCSpec
CONSTANTS
    Matters = {"approval", "holds", "floors", "scan"}
    Requests = {q1}
    Approvers = {a1, a2, a3}
    Ballots = {b1, b2, b3}
    Executors = {x1}
    Quorums = {1, 2}
    MaxOps = 2
    MaxCrashes = 1
    Nobody = Nobody
    q1 = q1
    a1 = a1
    a2 = a2
    a3 = a3
    b1 = b1
    b2 = b2
    b3 = b3
    x1 = x1
    None = None
    t1 = t1
    t2 = t2
    e1 = e1
    e2 = e2
    short = short
    long = long
    unlisted = unlisted
    Tenants = {t1, t2}
    Officers = {o1, o2}
    HoldIds = {h1}
    RemovalIds = {r1, r2}
    Sessions = {s1, s2}
    MaxInterrupted = 1
    Records = {e1, e2}
    TenantOf <- TwoTenants
    Floors <- TwoFloors
    Classes = {short, long, unlisted}
    Scanners = {n1}
    BatchSize = 1
    MaxAge = 2
    o1 = o1
    o2 = o2
    h1 = h1
    r1 = r1
    r2 = r2
    s1 = s1
    s2 = s2
    n1 = n1
INVARIANTS
    QuorumBehindApproval
    OperationsHaveQuorum
    QuorumIsNoticed
    FourEyes
    HoldsAreSeen
PROPERTIES
    DeletedPastFloor
    WriteOnce
    ExpiredIsScannedAway
CHECK_DEADLOCK FALSE
