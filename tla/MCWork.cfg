SPECIFICATION WorkSpec
CONSTANTS
    w1 = w1  r1 = r1  q1 = q1  q2 = q2  h1 = h1  h2 = h2
    Workers = {w1}
    Runs = {r1}
    Contested = {r1}
    LeaseTime = 2
    Margin = 1
    Capacity = 1
    MaxLeaseEpoch = 1
    MayAbort = {r1}
    MayLeave = {w1}
    MayDelay = {}
    LlmIds = {l1, l2}
    Completes = {}
    Searches = {s1}
    Clients = {c1}
    LlmKeys = {k1}
    Payloads = {h1}
    Outcomes = {"ok"}
    MaxActive = 1
    MaxWaiting = 1
    MayCrash = TRUE
    Accounts = {a1, a2}
    First = a1
    Replicas = {h1, h2}
    Reqs = {q1, q2}
    Home <- HomeOf
    Admins = {t1}
    MaxToken = 2
    MayRotate = {a1}
    MayEdit = {a2}
    NoOne = NoOne
    Logins = {g1, g2}
    Visits = {v1, v2}
    MaxAttempts = 1
    MaxRestarts = 1
CHECK_DEADLOCK FALSE
INVARIANTS LlmWorkIsAccounted AccountsStayUsable SignInsAreTruthful
PROPERTIES WorkersLetGo LlmRunsEndOnce
