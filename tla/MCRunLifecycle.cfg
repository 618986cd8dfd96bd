SPECIFICATION LifecycleSpec
CONSTANTS
    w1 = w1  r1 = r1  k1 = k1  k2 = k2  m1 = m1  s1 = s1  b1 = b1  b2 = b2
    NoWorker = NoWorker
    CanRun <- EveryHarness
    Workers = {w1}
    Sessions = {s1}
    Runs = {r1}
    SessionOf <- OneSession
    Messages = {m1}
    Waits = {k1, k2}
    Capacities = {1}
    MaxEpoch = 2
    MaxVersion = 4
    Branches = {b1, b2}
    Trunk = b1
    BranchHarness <- TheHarness
    MaxSessions = 2
    MaxAlias = 4
    MaxCommands = 3
CHECK_DEADLOCK FALSE
INVARIANTS WakeUpsAreKept NumbersNameOneCommand
PROPERTIES NoStalePark RunsMoveOn
