SPECIFICATION Spec
CONSTANTS
    Users = {u1, u2}
    Superusers = {u1, u2}
    Creds = {c1, c2}
    Reqs = {r1, r2}
    MaxChallenges = 2
    MaxCounter = 2
    Threshold = 2
    MaxFails = 2
    MaxCuts = 1
    MaxStarts = 3
    Nobody = Nobody
    Jtis = {j1, j2, j3}
    Refreshers = {f1, f2}
    Lifetime = 1
    MaxHalves = 5
    MaxRotations = 2
    Unset = Unset
    RowTokens = {w1}
    JwtTokens = {g1}
    Pods = {p1}
    PodOf <- MCPodOf
    Callers = {k1, k2, k3}
    NoCaller = NoCaller
    Tenants = {t1}
    IPs = {i1}
    PlainWindow = 2
    PlainMax = 1
    DefaultWindow = 2
    LongestDefault = 3
    DefaultMax = 2
    RatePolicies <- MCPolicies
    MaxClock = 6
    u1 = u1
    u2 = u2
    c1 = c1
    c2 = c2
    r1 = r1
    r2 = r2
    j1 = j1
    j2 = j2
    j3 = j3
    f1 = f1
    f2 = f2
    w1 = w1
    g1 = g1
    p1 = p1
    k1 = k1
    k2 = k2
    k3 = k3
    t1 = t1
    i1 = i1
SYMMETRY Symmetry
INVARIANTS
    CredentialsHold
    EndedIsRefused
PROPERTIES
    SpentStaysSpent
CHECK_DEADLOCK FALSE
