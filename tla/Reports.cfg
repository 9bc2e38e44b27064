SPECIFICATION MCSpec
CONSTANTS
    Subjects = {"plan", "upload", "query", "draft", "ageing", "performance", "portfolio"}
    MaxTotal = 13
    MaxCount = 7
    MaxPaid = 15
    Uploads = {u1, u2}
    Texts <- ShortTexts
    Ceilings = {1, 2, 3}
    Readers = {1, 2}
    EmbedMax = 1
    EmbedWindow = 2
    MaxNow = 3
    MaxEvents = 3
    Checks = {1, 2}
    Chunks = {x1, x2}
    Drafts <- ShortDrafts
    SlaPercent = 99
    Priorities = {"undefined", "P1", "P3"}
    Invoices = {v1, v2}
    Ages <- Boundaries
    Cents = {50, 149}
    NoDate = NoDate
    Deals = {d1, d2}
    Cases = {c1, c2}
    Agents = {1, 2}
    NoAgent = 0
    MaxVolume = 33
    Roles = {"cfo", "finance_controller", "account_manager"}
    Leads = {l1, l2}
    Snapshots <- SomeSnapshots
    NoValue = NoValue
    Unscored = Unscored
    LogRevenue <- TwoLogs
    Revenue <- TwoRevenues
    Deltas <- SliderPositions
    v1 = v1
    v2 = v2
    d1 = d1
    d2 = d2
    c1 = c1
    c2 = c2
    l1 = l1
    l2 = l2
    u1 = u1
    u2 = u2
    x1 = x1
    x2 = x2
    low = low
    high = high
INVARIANTS
    CorpusIsSound
    FiguresAddUp
CHECK_DEADLOCK FALSE
