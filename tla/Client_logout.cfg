SPECIFICATION Spec
CONSTANTS
    Persons = {"superuser", "cfo", "sales_rep"}
    MaxToken = 2
    MaxNow = 2
    Timeout = 1
    CsrfModes = {FALSE}
    Nobody = Nobody
    PageKinds = {"leadQueue", "caseQueue", "invoices", "tierTrend", "agingBucket", "customerHealth", "campaign", "leadDetail", "caseDetail", "invoiceDetail", "kycReview", "approvals", "passkeys", "paymentPlan"}
    Keys = {k1, k2}
    RowIds = {r1, r2}
    MaxLoads = 3
    NoData = NoData
    k1 = k1
    k2 = k2
    r1 = r1
    r2 = r2
    Notices = {n1, n2, n3}
    Polls = {1, 2}
    Industries = {i1, i2}
    NoSegments = NoSegments
    i1 = i1
    i2 = i2
    n1 = n1
    n2 = n2
    n3 = n3
PROPERTIES
    LogoutEndsSession
CHECK_DEADLOCK FALSE
