SPECIFICATION HarnessSpec
CONSTANTS
    Kinds = {"codex", "unified", "cc", "environments", "sites"}
    i1 = i1
    i2 = i2
    Inputs = {i1, i2}
    FirstInput = i1
    MaxOps = 2
    MaxEffects = 2
    Batches <- SomeBatches
    MaxStops = 1
    MaxSessions = 2
    Retries = 1
CHECK_DEADLOCK FALSE
INVARIANTS
    CallsAreCarriedOutOnce
    NothingIsLeftOver
PROPERTIES
    AbortEnds
