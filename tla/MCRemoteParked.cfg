SPECIFICATION RemoteSpec
CONSTANTS
    o1 = o1
    o2 = o2
    l1 = l1
    l2 = l2
    NoLane = NoLane
    Lanes = {l1, l2}
    Sandboxes = {o1}
    Executions = {}
    MaxRows = 1
    MaxEpoch = 5
    MaxOutput = 0
    MaxGeneration = 0
SYMMETRY LaneSymmetry
CHECK_DEADLOCK FALSE
INVARIANTS
    CancelledIsScheduled
