SPECIFICATION SessionsSpec
CONSTANTS
    w1 = w1  w2 = w2  r1 = r1  r2 = r2  r3 = r3  s1 = s1  s2 = s2
    NoWorker = NoWorker
    CanRun <- EveryHarness
    Workers = {w1, w2}
    Sessions = {s1, s2}
    Runs = {r1, r2, r3}
    SessionOf <- SharedSession
    Messages = {}
    Waits = {}
    Capacities = {1, 2}
    MaxEpoch = 3
    MaxVersion = 5
    Sources = {"s1", "s2"}
    MaxNested = 2
    MaxOwners = 2
    MaxTexts = 2
    MaxRequests = 2
    MaxLosses = 2
SYMMETRY WorkerSymmetry
CHECK_DEADLOCK FALSE
INVARIANTS LeasesAreExclusive JournalIsTrue
PROPERTIES HandOversAreInTurn CapacityRespected
