SPECIFICATION ToolsSpec
CONSTANTS
    p1 = p1  p2 = p2  e1 = e1
    ExecKinds = {"pipe", "tty", "bash"}
    ChunkSizes = {2, 3}
    MaxOutput = 4
    MaxKept = 3
    MaxLines = 1
    Newlines = {2, 4}
    MaxCalls = 3
    MaxLosses = 1
    Paths = {p1, p2}
    Editors = {e1}
    EditPath <- EditF
    Patcher = patcher
    Hunks <- SomeHunks
    NoPath = nopath
    MaxRestarts = 1
    MaxFaults = 1
    MaxOutside = 1
    Cells = {c1}
    MaxLive = 1
    PipeFrames = 1
    OutputLimit = 2
    PendingLimit = 2
    NoteLimit = 1
    MaxFrames = 3
    MaxOuter = 3
CHECK_DEADLOCK FALSE
INVARIANTS CommandResultsAreExact ScriptReportsAreExact
PROPERTIES CommandsAreAnswered FilesKeepTheirContract ScriptsStop
