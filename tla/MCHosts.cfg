SPECIFICATION HostsSpec
CONSTANTS
    h1 = h1
    s1 = s1
    t1 = t1
    t2 = t2
    NoItem = NoItem
    Hosts = {h1}
    Snapshots = {s1}
    Tasks = {t1, t2}
    SlowTasks = TRUE
    Patient = FALSE
    MaxRequests = 3
    MaxCrashes = 0
    MaxMade = 2
    o1 = o1
    o2 = o2
    l1 = l1
    l2 = l2
    NoLane = NoLane
    Lanes = {l1, l2}
    Sandboxes = {o1}
    Executions = {o2}
    MaxRows = 1
    MaxEpoch = 4
    MaxOutput = 2
    MaxGeneration = 1
    RegOps = {"op1"}
    MaxLinks = 2
    MaxCreds = 2
    MaxInFlight = 1
    QueueSize = 2
    MaxRegTries = 2
    MaxFaults = 1
    Runtimes = {"r1", "r2"}
    Requests = {"q1", "q2"}
    MaxTries = 2
    MaxLost = 2
    MaxServes = 3
    MaxDeaths = 1
SYMMETRY HostsSymmetry
CHECK_DEADLOCK FALSE
INVARIANTS
    HostsAreAsReported
    RowsTellTheTruth
    LinksAreAuthentic
    SandboxCallsAreExact
PROPERTIES
    NothingIsTakenBack
