------------------------------ MODULE CodeCells ------------------------------
(***************************************************************************)
(* Live cells of code mode (tools/code-mode, live.rs and live/process.rs)  *)
(* as the sites harness uses them: a script runs in a process of its own,  *)
(* a task of the session serves its frames, and the model collects output  *)
(* with exec and wait, one call at a time, while the cells keep running.   *)
(*                                                                         *)
(* Guest and task are joined by two pipes.  A guest writes a frame before  *)
(* it goes on, and the task does nothing else while it writes an answer or *)
(* waits for room in the channel of notifications.                         *)
(***************************************************************************)
EXTENDS Naturals, Sequences, FiniteSets

CONSTANTS
    Cells,
    MaxLive,       \* 32 cells that are not collected
    PipeFrames,    \* frames that fit into a pipe
    OutputLimit,   \* items of a batch that is not collected (1000, or 256 KiB)
    PendingLimit,  \* 1024 pending operations
    NoteLimit,     \* 64 notifications in the channel
    MaxFrames,     \* bound: frames of a script
    MaxOuter       \* bound: calls of exec and wait

ASSUME CellsAssumption ==
    {MaxLive, PipeFrames, OutputLimit, PendingLimit, NoteLimit, MaxFrames, MaxOuter} \subseteq Nat \ {0}

VARIABLES
    live,       \* CellState, and the resume and cancel channels
    task,       \* Process::work: what it is doing, and its pending operations
    guest,      \* the script: what it is doing, and what it has sent
    toHost, toGuest,
    notes,      \* the channel of notifications
    outer,      \* the harness's call of exec or wait
    calls,      \* how many there were
    collected,  \* output in the reports, by cell
    savedNotes  \* notifications appended to the conversation

sessionVars == <<live, task, notes>>
guestVars == <<guest, toHost, toGuest>>
modelVars == <<outer, calls, collected, savedNotes>>
cellVars == <<sessionVars, guestVars, modelVars>>

NoTask == [at |-> "none", frame |-> 0, pending |-> {}]
NoGuest == [at |-> "none", frame |-> 0, sent |-> 0, items |-> 0, notes |-> 0, resumed |-> 0]
NoCall == [at |-> "idle"]

CellsInit ==
    /\ live = [c \in Cells |-> [status |-> "new", output |-> <<>>, yielded |-> FALSE,
                                permit |-> FALSE, cancel |-> FALSE, boundaries |-> 0]]
    /\ task = [c \in Cells |-> NoTask] /\ guest = [c \in Cells |-> NoGuest]
    /\ toHost = [c \in Cells |-> <<>>] /\ toGuest = [c \in Cells |-> <<>>]
    /\ notes = <<>> /\ savedNotes = <<>>
    /\ outer = NoCall /\ calls = 0 /\ collected = [c \in Cells |-> [items |-> <<>>, last |-> "none"]]

-----------------------------------------------------------------------------
(***************************************************************************)
(* The guest (live_guest.js, live_guest.rs)                                *)
(***************************************************************************)
Kinds == {"output", "yield", "note", "sync", "call", "clear"}
Alive(c) == guest[c].at \in {"run", "emit", "sync"}

Gone(c) == [guest[c] EXCEPT !.at = "exited"]

\* The script decides on a frame; `done' and `failure' are its last one.
Say(c, kind) ==
    LET g == guest[c]  id == g.sent + 1 IN
    /\ g.at = "run" /\ (kind \in Kinds => g.sent < MaxFrames)
    /\ guest' = [guest EXCEPT ![c] =
          [at |-> "emit", sent |-> id, resumed |-> g.resumed,
           items |-> IF kind = "output" THEN g.items + 1 ELSE g.items,
           notes |-> IF kind = "note" THEN g.notes + 1 ELSE g.notes,
           frame |-> [kind |-> kind, id |-> id, item |-> IF kind = "note" THEN g.notes + 1 ELSE g.items + 1]]]
    /\ UNCHANGED <<sessionVars, toHost, toGuest, modelVars>>

\* emit: returns once the frame is in the pipe; a synchronous call waits for its answer.
AfterFrame(kind) ==
    CASE kind = "sync" -> "sync" [] kind \in {"done", "failure"} -> "exited" [] OTHER -> "run"
Emit(c) ==
    LET g == guest[c] IN
    /\ g.at = "emit" /\ Len(toHost[c]) < PipeFrames
    /\ toHost' = [toHost EXCEPT ![c] = Append(@, g.frame)]
    /\ guest' = [guest EXCEPT ![c] = [g EXCEPT !.at = AfterFrame(g.frame.kind)]]
    /\ UNCHANGED <<sessionVars, toGuest, modelVars>>

\* read_reply: an asynchronous answer that arrives during a synchronous call is queued.
Hear(c) ==
    LET g == guest[c]  reply == Head(toGuest[c]) IN
    /\ g.at \in {"run", "sync"} /\ toGuest[c] # <<>>
    /\ toGuest' = [toGuest EXCEPT ![c] = Tail(@)]
    /\ guest' = [guest EXCEPT ![c] =
          [g EXCEPT !.at = IF reply.kind = "sync" THEN "run" ELSE g.at,
                    !.resumed = IF reply.kind = "yield" THEN g.resumed + 1 ELSE g.resumed]]
    /\ UNCHANGED <<sessionVars, toHost, modelVars>>

\* The memory limit, for one.
GuestDies(c) ==
    /\ Alive(c)
    /\ guest' = [guest EXCEPT ![c] = Gone(c)]
    /\ UNCHANGED <<sessionVars, toHost, toGuest, modelVars>>

-----------------------------------------------------------------------------
(***************************************************************************)
(* Process::work and Process::run                                          *)
(***************************************************************************)
TaskEnded == [at |-> "ended", frame |-> 0, pending |-> {}]
TaskIs(c, at, frame) == [task[c] EXCEPT !.at = at, !.frame = frame]

\* The task ends with a status, and the guest with it (kill_on_drop).
FinishCell(c, status) ==
    /\ live' = [live EXCEPT ![c] = [live[c] EXCEPT !.status = status]]
    /\ task' = [task EXCEPT ![c] = TaskEnded]
    /\ guest' = [guest EXCEPT ![c] = Gone(c)]
    /\ toHost' = [toHost EXCEPT ![c] = <<>>] /\ toGuest' = [toGuest EXCEPT ![c] = <<>>]

Serving(c) == task[c].at = "serve"
Room(c) == Cardinality(task[c].pending) < PendingLimit

\* A frame that is served at once, without ending the task.
Serve(c, newLive, newTask) ==
    /\ live' = [live EXCEPT ![c] = newLive] /\ task' = [task EXCEPT ![c] = newTask]
    /\ toHost' = [toHost EXCEPT ![c] = Tail(@)]
    /\ UNCHANGED <<guest, toGuest>>

ReceiveFrame(c) ==
    LET f == Head(toHost[c])  l == live[c]  t == task[c]
        pend == [t EXCEPT !.pending = t.pending \union {[kind |-> f.kind, id |-> f.id]}]
    IN
    /\ Serving(c) /\ toHost[c] # <<>>
    /\ CASE f.kind = "done"    -> FinishCell(c, "completed")
         [] f.kind = "failure" -> FinishCell(c, "failed")
         [] f.kind = "output"  ->
              IF Len(l.output) >= OutputLimit THEN FinishCell(c, "failed")
              ELSE Serve(c, [l EXCEPT !.output = Append(l.output, f.item)], t)
         [] f.kind = "yield"   ->
              IF ~Room(c) THEN FinishCell(c, "failed") ELSE Serve(c, [l EXCEPT !.yielded = TRUE], pend)
         [] f.kind = "call"    -> IF ~Room(c) THEN FinishCell(c, "failed") ELSE Serve(c, l, pend)
         [] f.kind = "clear"   -> Serve(c, l, [t EXCEPT !.pending = {p \in t.pending : p.kind # "call"}])
         [] f.kind = "note"    -> Serve(c, l, TaskIs(c, "notify", f))
         [] f.kind = "sync"    -> Serve(c, l, TaskIs(c, "write", f))
    /\ UNCHANGED <<notes, modelVars>>

\* A pending call, timer or yield completes: its answer is written.
CompleteCall(c, p) ==
    /\ Serving(c) /\ p \in task[c].pending /\ (p.kind = "yield" => live[c].permit)
    /\ live' = [live EXCEPT ![c] = [live[c] EXCEPT !.permit = live[c].permit /\ p.kind # "yield"]]
    /\ task' = [task EXCEPT ![c] = [at |-> "write", frame |-> p, pending |-> task[c].pending \ {p}]]
    /\ UNCHANGED <<notes, guestVars, modelVars>>

\* An answer: the pipe has room, or its reader is gone.
WriteReply(c) ==
    /\ task[c].at = "write"
    /\ \/ /\ Alive(c) /\ Len(toGuest[c]) < PipeFrames
          /\ toGuest' = [toGuest EXCEPT ![c] = Append(@, task[c].frame)]
          /\ task' = [task EXCEPT ![c] = TaskIs(c, "serve", task[c].frame)]
          /\ UNCHANGED <<live, guest, toHost>>
       \/ ~Alive(c) /\ FinishCell(c, "failed")
    /\ UNCHANGED <<notes, modelVars>>

Notify(c) ==
    /\ task[c].at = "notify" /\ Len(notes) < NoteLimit
    /\ notes' = Append(notes, <<c, task[c].frame.item>>)
    /\ task' = [task EXCEPT ![c] = TaskIs(c, "serve", task[c].frame)]
    /\ UNCHANGED <<live, guestVars, modelVars>>

GuestExited(c) ==
    /\ Serving(c) /\ toHost[c] = <<>> /\ guest[c].at = "exited"
    /\ FinishCell(c, "failed")
    /\ UNCHANGED <<notes, modelVars>>

\* Faulty variant: the request is looked at between two frames only.
ObservesCancelBetween(c) == Serving(c) /\ live[c].cancel

\* Process::run selects between the work and the request to stop.
ObservesCancel(c) == task[c].at \in {"serve", "write", "notify"} /\ live[c].cancel

Terminated(c) ==
    /\ ObservesCancel(c)
    /\ FinishCell(c, "terminated")
    /\ UNCHANGED <<notes, modelVars>>

-----------------------------------------------------------------------------
(***************************************************************************)
(* Session::exec, wait and observe, and the harness                        *)
(***************************************************************************)
Uncollected == {c \in Cells : live[c].status \notin {"new", "closed", "dropped"}}

Exec(c) ==
    /\ outer = NoCall /\ calls < MaxOuter
    /\ live[c].status = "new" /\ Cardinality(Uncollected) < MaxLive
    /\ live' = [live EXCEPT ![c] = [live[c] EXCEPT !.status = "running"]]
    /\ task' = [task EXCEPT ![c] = TaskIs(c, "serve", 0)]
    /\ guest' = [guest EXCEPT ![c] = [guest[c] EXCEPT !.at = "run"]]
    /\ outer' = [at |-> "observe", cell |-> c] /\ calls' = calls + 1
    /\ UNCHANGED <<toHost, toGuest, notes, collected, savedNotes>>

Wait(c, terminate) ==
    /\ outer = NoCall /\ calls < MaxOuter /\ c \in Uncollected
    /\ live' = IF terminate THEN [live EXCEPT ![c] = [live[c] EXCEPT !.cancel = TRUE]] ELSE live
    /\ outer' = [at |-> IF terminate THEN "join" ELSE "observe", cell |-> c] /\ calls' = calls + 1
    /\ UNCHANGED <<task, notes, guestVars, collected, savedNotes>>

\* The task is awaited after a request to stop.
Join ==
    /\ outer.at = "join" /\ task[outer.cell].at = "ended"
    /\ outer' = [outer EXCEPT !.at = "observe"]
    /\ UNCHANGED <<sessionVars, guestVars, calls, collected, savedNotes>>

\* Faulty variant: the output stays in the cell.
ReportCopies(c) == [live[c] EXCEPT !.yielded = FALSE, !.permit = @ \/ live[c].yielded,
                                   !.boundaries = @ + (IF live[c].yielded THEN 1 ELSE 0)]

\* The state after a report: output is taken, and a yield may go on; a cell that is over
\* is closed.
Report(c) ==
    LET l == live[c] IN
    [status |-> IF l.status = "running" THEN "running" ELSE "closed", output |-> <<>>, yielded |-> FALSE,
     permit |-> l.permit \/ l.yielded, cancel |-> l.cancel,
     boundaries |-> l.boundaries + (IF l.yielded THEN 1 ELSE 0)]

\* observe: something to report, or the time is over.
Observe ==
    LET c == outer.cell IN
    /\ outer.at = "observe"
    /\ live' = [live EXCEPT ![c] = Report(c)]
    /\ collected' = [collected EXCEPT ![c] = [items |-> collected[c].items \o live[c].output, last |-> live[c].status]]
    /\ outer' = NoCall
    /\ UNCHANGED <<task, notes, guestVars, calls, savedNotes>>

\* Notifications are saved during a call, and between two calls.
SaveNotification ==
    /\ notes # <<>> /\ savedNotes' = Append(savedNotes, Head(notes)) /\ notes' = Tail(notes)
    /\ UNCHANGED <<live, task, guestVars, outer, calls, collected>>

\* The run is aborted, drained or lost: the session is dropped with all its cells.
DropSession ==
    /\ calls > 0 /\ calls <= MaxOuter
    /\ live' = [c \in Cells |-> [live[c] EXCEPT !.status = "dropped"]]
    /\ task' = [c \in Cells |-> TaskEnded] /\ guest' = [c \in Cells |-> Gone(c)]
    /\ toHost' = [c \in Cells |-> <<>>] /\ toGuest' = [c \in Cells |-> <<>>]
    /\ outer' = NoCall /\ calls' = MaxOuter + 1
    /\ UNCHANGED <<notes, collected, savedNotes>>

GuestStep(c) ==
    \/ \E kind \in Kinds \union {"done", "failure"} : Say(c, kind)
    \/ Emit(c) \/ Hear(c) \/ GuestDies(c)
TaskStep(c) ==
    \/ ReceiveFrame(c) \/ (\E p \in task[c].pending : CompleteCall(c, p)) \/ WriteReply(c) \/ Notify(c)
    \/ GuestExited(c) \/ Terminated(c)
CellsNext ==
    \/ \E c \in Cells : GuestStep(c) \/ TaskStep(c) \/ Exec(c) \/ \E b \in BOOLEAN : Wait(c, b)
    \/ Join \/ Observe \/ SaveNotification \/ DropSession

CellsSpec == CellsInit /\ [][CellsNext]_cellVars
\* The task is scheduled and observe has a time limit; a script need not do anything.
CellsFairness == WF_cellVars(Join) /\ WF_cellVars(Observe) /\ \A c \in Cells : WF_cellVars(Terminated(c))
CellsFairSpec == CellsSpec /\ CellsFairness

-----------------------------------------------------------------------------
\* The notifications of a cell, and how many of them are among the first n.
Heard == savedNotes \o notes
HeardOf(c, n) == {j \in 1..n : Heard[j][1] = c}

\* Reports divide the output of a script: nothing is lost, repeated or out of order, and
\* the report of a completed script has the rest ("Only new content, or final
\* completion/failure/termination", tools/code-mode/README.md:22).  Notifications arrive
\* in order, and a script that yields goes on only after a report.
ScriptReportsAreExact ==
    \A c \in Cells :
        LET got == collected[c].items  all == got \o live[c].output IN
        /\ all = [i \in 1..Len(all) |-> i] /\ Len(all) <= guest[c].items
        /\ collected[c].last = "completed" => Len(got) = guest[c].items
        /\ \A i \in 1..Len(Heard) : Heard[i][1] = c => Heard[i][2] = Cardinality(HeardOf(c, i))
        /\ guest[c].resumed <= live[c].boundaries

\* A cell that is told to stop does so, even while its task waits for a guest that does
\* not read, or for room in the channel of notifications ("Cancellation is observed by the
\* process supervisor even during CPU loops", live.rs:143).
StoppedCellIsReported == outer.at = "join" ~> outer.at = "idle"

\* Guest and task never wait for each other.
BridgeMoves ==
    \A c \in Cells : ~(/\ task[c].at = "write" /\ Len(toGuest[c]) = PipeFrames
                       /\ guest[c].at = "emit" /\ Len(toHost[c]) = PipeFrames)

\* A yield that was reported goes on.
YieldsResume ==
    \A c \in Cells : ~(/\ Serving(c) /\ ~live[c].permit /\ ~live[c].yielded /\ toHost[c] = <<>>
                       /\ \E p \in task[c].pending : p.kind = "yield")
=============================================================================
