SPECIFICATION Spec
CONSTANTS
    Prospects = {p1}
    Reps <- MCReps
    Scores = {2, 300}
    Qualifies = 5
    LeadReqs = {q1, q2}
    MaxLeadStarts = 3
    MaxMacro = 2
    MaxLeadCuts = 1
    NoRep = NoRep
    DealOf = {p1}
    DealReqs = {q1, q2}
    MaxDeals = 4
    Customers = {c1, c2}
    Servers = {s1, s2}
    MaxDate = 1
    Clients = {c1}
    Cases = {i1, i2}
    Crons = {s1}
    EscalationDays = 1
    MaxDay = 2
    NoDay = NoDay
    r1 = r1
    r2 = r2
    p1 = p1
    q1 = q1
    q2 = q2
    c1 = c1
    c2 = c2
    s1 = s1
    s2 = s2
    i1 = i1
    i2 = i2
INVARIANTS
    LeadsArriveRight
    CustomersAreServed
PROPERTIES
    CareGoesOn
CHECK_DEADLOCK FALSE
