SPECIFICATION Spec
CONSTANTS
    Types = {t1}
    MaxRow = 2
    Calls = {c1, c2}
    Batch = 1
    MaxKeys = 2
    MaxEdits = 2
    NoKey = NoKey
    Scopes = {s1, s2}
    Holders = {h1}
    Admin = Admin
    Readers = {r1}
    MaxContent = 2
    MaxDek = 3
    NoDek = NoDek
    Absent = Absent
    Tenants = {n1, n2}
    Names = {a, b}
    People = {p1, p2}
    Tokens = {o1, o2}
    Ingests = {i1, i2}
    Resolves = {v1}
    NoName = NoName
    Writers = {w1, w2, w3}
    MaxClock = 3
    t1 = t1
    c1 = c1
    c2 = c2
    s1 = s1
    s2 = s2
    h1 = h1
    r1 = r1
    n1 = n1
    n2 = n2
    a = a
    b = b
    p1 = p1
    p2 = p2
    o1 = o1
    o2 = o2
    i1 = i1
    i2 = i2
    v1 = v1
    w1 = w1
    w2 = w2
    w3 = w3
    Fields = {"name", "flag", "pii"}
    Sensitive = {"pii"}
    Required = "name"
    Salted = TRUE
    Desks = {d1, d2}
    MaxValue = 2
    Setters = {d1, d2, d3}
    Halting = TRUE
    Gone = Gone
    d1 = d1
    d2 = d2
    d3 = d3
    Servers = {k1, k2}
    MaxDay = 2
    Reports = {1, 2}
    Weekly = {1}
    Mondays = {1, 2}
    Firsts = {1}
    Flags = {f1}
    MaxFlagEdits = 2
    MaxJobFails = 1
    MaxStops = 1
    Never = Never
    k1 = k1
    k2 = k2
    f1 = f1
    Backups = {b1, b2}
    Restores = {x1, x2}
    Databases = {"app", "audit"}
    MaxSecond = 2
    Writes = {u1, u2}
    NoFile = NoFile
    u1 = u1
    u2 = u2
    b1 = b1
    b2 = b2
    x1 = x1
    x2 = x2
    RowIds = {1, 2, 3}
    Kinds = {"entity", "version", "thread", "reply", "event"}
    MaxInstant = 2
    Limit = 1
    NoRow = NoRow
INVARIANTS
    SecretsAreKept
    RecordsBearWitness
PROPERTIES
    FlagsFollowTheirTime
CHECK_DEADLOCK FALSE
