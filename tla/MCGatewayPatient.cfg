SPECIFICATION FairSpec
CONSTANTS
    h1 = h1
    s1 = s1
    t1 = t1
    t2 = t2
    NoItem = NoItem
    Hosts = {h1}
    Snapshots = {s1}
    Tasks = {t1, t2}
    SlowTasks = FALSE
    Patient = TRUE
    MaxRequests = 6
    MaxCrashes = 1
    MaxMade = 3
CHECK_DEADLOCK FALSE
INVARIANTS
    NothingIsForgotten
PROPERTIES
    WorkEndsForGood
