SPECIFICATION ServicesSpec
CONSTANTS
    p1 = p1  p2 = p2  s1 = s1  s2 = s2  s3 = s3  r1 = r1  r2 = r2  r3 = r3
    q1 = q1  q2 = q2  k1 = k1  k2 = k2  h1 = h1  h2 = h2
    g1 = g1  g2 = g2  d1 = d1  d2 = d2
    Patches = {p1, p2}
    Snapshots = {s1}
    Restores = {r1}
    SnapshotOf <- RestoreOf
    Invocations = {i1}
    Versions <- Supports
    Promoted = {p1}
    MaxVersion = 1
    MaxDisturbances = 2
    Free = Free
    NoRelease = NoRelease
    Calls = {q1, q2}
    CallKeys = {k1, k2}
    Workloads <- SomeWorkloads
    NoReply = NoReply
    MaxEpoch = 2
    MaxResends = 1
    MaxSwitches = 1
    BatchSize = 1
    Rows = {r1, r2, r3}
    NoRow = NoRow
    Refers <- SomeRefers
    Slips = {"s1", "s2"}
    CatchesLoss = FALSE
    HostAccounts = {e1, e2}
    ApiKeys = {k1}
    Handlers = {g1, g2}
    Clients = {d1, d2}
    CreateKeys = {s1, s2, s3}
    Sessions = {s1, s2, s3}
    Harness <- OneHarness
    Environment <- SomeEnvironment
    NoValue = novalue
    MaxAdmin = 2
    MaxExpiries = 1
    Samples <- AllSamples
    Workers = {w1}
    Runs = {r1}
    Contested = {r1}
    LeaseTime = 2
    Margin = 1
    Capacity = 1
    MaxLeaseEpoch = 2
    MayAbort = {}
    MayLeave = {}
    MayDelay = {w1}
CHECK_DEADLOCK FALSE
INVARIANTS
    SitesAreWhole
    CallsTakeEffectOnce
    SiteWritesAreWhole
    SandboxesAreKept
    TextsAreExact
    LateRequestsAreHarmless
PROPERTIES
    NothingStaleIsWritten
