SPECIFICATION MCSpec
CONSTANTS
    Invoices = {i1}
    Payers = {q1, q2}
    PayAmounts = {1, 2}
    Planners = {n1}
    PlanTotals = {1, 2}
    PlanCounts = {2}
    SettleAmounts = {1, 2}
    Threshold = 0
    Engines = {e1, e2}
    Monitors = {m1}
    MaxPaid = 3
    MaxPlans = 1
    MaxApprovals = 2
    MaxCrashes = 1
    InvoiceAmount = 2
    Amount <- AmountDef
    None = None
    e1 = e1
    e2 = e2
    i1 = i1
    m1 = m1
    n1 = n1
    q1 = q1
    q2 = q2
    Crews = {"desk", "overlap", "tills"}
INVARIANTS
    CasesAddUp
    MoneyDecides
    DunningIsOrderly
PROPERTIES
    DebtsMoveOn
