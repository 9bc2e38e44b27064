SPECIFICATION Spec
CONSTANTS
    Items = {i1}
    Movers = {m1, m2}
    MaxMoves = 6
    MaxHalts = 1
    NoItem = NoItem
    MaxUid = 4
    Batch = 2
    Broken = {2}
    MaxWindow = 2
    Attempts = 2
    Uploads = {q1, q2, q3}
    Emails = {q2}
    Direct = {q3}
    NoUid = NoUid
    Dismissals = {d1, d2, d3}
    Window = 2
    Threshold = 2
    MaxToday = 4
    Never = Never
    MaxStreams = 2
    MaxPhrases = 2
    NoBlob = NoBlob
    i1 = i1
    m1 = m1
    m2 = m2
    q1 = q1
    q2 = q2
    q3 = q3
    CallsOf = {c1, c2}
    c1 = c1
    c2 = c2
    d1 = d1
    d2 = d2
    d3 = d3
INVARIANTS
    IntakeIsWhole
    RecordingIsSound
PROPERTIES
    EndsAreReached
CHECK_DEADLOCK FALSE
