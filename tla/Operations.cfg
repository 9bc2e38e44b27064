SPECIFICATION Spec
CONSTANTS
    Jobs = {"genesis", "provision", "login", "rollout"}
    Shops = {a1, a2}
    Clients = {c1}
    NoShop = NoShop
    MaxGenesis = 3
    a1 = a1
    a2 = a2
    c1 = c1
    MaxDeaths = 3
    MaxCloudFails = 1
    Scripts = {q1, q2}
    MaxNow = 5
    Life = 3
    Margin = 1
    Latency = 1
    Timeout = 3
    Interval = 1
    Slower = 1
    Empty = Empty
    Torn = Torn
    q1 = q1
    q2 = q2
    Images = {1, 2, 3}
    First = 1
    WorkerTypes <- workerOrder
    Entries = {"ssh", "talos", "direct"}
    MaxReleases = 3
    NoTag = NoTag
    Mixed = Mixed
INVARIANTS
    OperationsAreSafe
PROPERTIES
    OperationsConverge
CHECK_DEADLOCK FALSE
