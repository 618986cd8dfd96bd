SPECIFICATION SupervisorSpec
CONSTANTS
    e1 = e1  e2 = e2  e3 = e3
    Nobody = Nobody
    NoRequest = NoRequest
    Execs = {e1, e2, e3}
    Requests <- SomeRequests
    Callers = {c1, c2}
    TermOps = {o1}
    Writes = {w1}
    Timed = {e1}
    Drained = {e1}
    MaxConcurrent = 1
    MayShutdown = TRUE
    MaxFaults = 1
    Readers = {r1}
    MaxChunk = 3
    MaxRead = 2
    MaxSequence = 4
    MaxJournalFaults = 1
    MaxLost = 1
CHECK_DEADLOCK FALSE
INVARIANTS SlotsAreAccounted ReadersMissNothing
PROPERTIES ImplementsContract ProcessesEnd ReadersReachTheClosedEnd
