---------------------------- MODULE ProcessManager ----------------------------
(***************************************************************************)
(* The processes of one supervisor generation (execution-supervisor-core,  *)
(* process/manager.rs): concurrent start, input, signal and terminate      *)
(* requests, the tasks that watch each process (output reader, completion, *)
(* timeout), the cleanup of finished sessions and the shutdown.            *)
(*                                                                         *)
(* Of the journal (EventJournal) only its state and whether it is closed   *)
(* are kept.  The operating system is external: a process may end at any   *)
(* time, closes its output when it likes, and ends once it is killed.      *)
(*                                                                         *)
(* Definitions under "Faulty variant" are not part of the specification.   *)
(***************************************************************************)
EXTENDS Integers, FiniteSets

CONSTANTS
    Execs,          \* execution ids
    Requests,       \* start requests: [exec, op]
    NoRequest,      \* no session
    Callers,        \* concurrent requests
    Nobody,         \* a free lock
    TermOps,        \* operation ids of terminate requests
    Writes,         \* write ids of input requests
    Timed,          \* executions with timeout_ms
    Drained,        \* executions with output_drain_timeout_ms
    MaxConcurrent,  \* max_concurrent_processes
    MayShutdown,    \* may the host be shut down?
    MaxFaults       \* bound: failures of the journal and of output readers

ASSUME RequestsAssumption == Requests \subseteq [exec : Execs, op : STRING] /\ NoRequest \notin Requests
ASSUME SetsAssumption ==
    /\ Timed \subseteq Execs /\ Drained \subseteq Execs
    /\ Nobody \notin Callers \union Execs
ASSUME LimitsAssumption == MaxConcurrent \in Nat \ {0} /\ MaxFaults \in Nat /\ MayShutdown \in BOOLEAN

VARIABLES
    session,     \* sessions: the start request of an execution
    retired,     \* retired_execution_ids
    active,      \* active_processes
    gate,        \* who holds start_gate
    state,       \* the journal's ExecutionState
    closed,      \* is the journal closed?
    completion,  \* COMPLETION_NORMAL, _TERMINATED or _TIMED_OUT
    child,       \* the process
    doomed,      \* processes that were sent a kill
    reader,      \* the output reader tasks of a session
    stop,        \* sessions whose output_stop is cancelled
    waiter,      \* the completion task of a session
    alarm,       \* its timeout task
    control,     \* who holds the lock of its control_records
    records,     \* its terminate records
    inputLock,   \* who holds the lock of its input_records
    accepted,    \* the write ids in its input_records
    delivered,   \* how often each input was written to the process
    pc,          \* a caller's next step
    job,         \* its request: [start] or [exec, id], and was_running
    sweep,       \* the session the cleanup task is removing
    shut,        \* the shutdown
    toKill,      \* sessions it still has to look at
    faults       \* failures so far

manager == <<session, retired, active, gate>>
process == <<state, closed, completion, child, doomed>>
tasks == <<reader, stop, waiter, alarm>>
requests == <<control, records, inputLock, accepted, delivered>>
callers == <<pc, job>>
rest == <<sweep, shut, toKill, faults>>
vars == <<manager, process, tasks, requests, callers, rest>>

States == {"starting", "running", "exited", "cancelled", "failed"}
Terminal(e) == state[e] \in {"exited", "cancelled", "failed"}
NoJob == [start |-> NoRequest, exec |-> Nobody, id |-> Nobody, was |-> FALSE]

\* Types.
TypeOK ==
    /\ session \in [Execs -> Requests \union {NoRequest}] /\ retired \subseteq Execs
    /\ active \in Nat /\ gate \in Callers \union {Nobody}
    /\ state \in [Execs -> States] /\ closed \in [Execs -> BOOLEAN]
    /\ completion \in [Execs -> {"normal", "terminated", "timed_out"}]
    /\ child \in [Execs -> {"none", "running", "gone"}] /\ doomed \subseteq Execs
    /\ reader \in [Execs -> {"none", "reading", "ended", "failed"}] /\ stop \subseteq Execs
    /\ waiter \in [Execs -> {"none", "wait", "drain", "done"}]
    /\ alarm \in [Execs -> {"none", "sleeping", "fire", "grace", "done"}]
    /\ control \in [Execs -> Callers \union {Nobody}] /\ inputLock \in [Execs -> Callers \union {Nobody}]
    /\ records \in [Execs -> [TermOps -> {"none", "was_running", "was_not"}]]
    /\ accepted \in [Execs -> SUBSET Writes] /\ delivered \in [Execs -> [Writes -> Nat]]
    /\ pc \in [Callers -> {"idle", "session", "retired", "limit", "spawn", "install", "mark",
                           "check", "signal", "grace", "record", "write"}]
    /\ job \in [Callers -> [start : Requests \union {NoRequest}, exec : Execs \union {Nobody},
                            id : TermOps \union Writes \union {Nobody}, was : BOOLEAN]]
    /\ sweep \in Execs \union {Nobody}
    /\ shut \in {"no", "killing", "down"} /\ toKill \subseteq Execs /\ faults \in 0..MaxFaults

Init ==
    /\ session = [e \in Execs |-> NoRequest] /\ retired = {} /\ active = 0 /\ gate = Nobody
    /\ state = [e \in Execs |-> "starting"] /\ closed = [e \in Execs |-> FALSE]
    /\ completion = [e \in Execs |-> "normal"]
    /\ child = [e \in Execs |-> "none"] /\ doomed = {}
    /\ reader = [e \in Execs |-> "none"] /\ stop = {}
    /\ waiter = [e \in Execs |-> "none"] /\ alarm = [e \in Execs |-> "none"]
    /\ control = [e \in Execs |-> Nobody] /\ inputLock = [e \in Execs |-> Nobody]
    /\ records = [e \in Execs |-> [o \in TermOps |-> "none"]]
    /\ accepted = [e \in Execs |-> {}] /\ delivered = [e \in Execs |-> [w \in Writes |-> 0]]
    /\ pc = [c \in Callers |-> "idle"] /\ job = [c \in Callers |-> NoJob]
    /\ sweep = Nobody /\ shut = "no" /\ toKill = {} /\ faults = 0

Fault == faults < MaxFaults /\ faults' = faults + 1
Goto(c, step) == pc' = [pc EXCEPT ![c] = step] /\ UNCHANGED job
Leave(c) == pc' = [pc EXCEPT ![c] = "idle"] /\ job' = [job EXCEPT ![c] = NoJob]

-----------------------------------------------------------------------------
(* start *)

\* One start at a time from here on.
Enter(c, q) ==
    /\ pc[c] = "idle"
    /\ gate = Nobody
    /\ gate' = c
    /\ pc' = [pc EXCEPT ![c] = "session"]
    /\ job' = [job EXCEPT ![c] = [NoJob EXCEPT !.start = q]]
    /\ UNCHANGED <<session, retired, active, process, tasks, requests, rest>>

Refuse(c) ==
    /\ Leave(c)
    /\ gate' = Nobody
    /\ UNCHANGED <<session, retired, active, process, tasks, requests, rest>>

Proceed(c, step) == Goto(c, step) /\ UNCHANGED <<manager, process, tasks, requests, rest>>

\* A known id: its handle, or a conflict if the request differs.
CheckSession(c) ==
    /\ pc[c] = "session"
    /\ IF session[job[c].start.exec] # NoRequest THEN Refuse(c) ELSE Proceed(c, "retired")

CheckRetired(c) ==
    /\ pc[c] = "retired"
    /\ IF job[c].start.exec \in retired THEN Refuse(c) ELSE Proceed(c, "limit")

\* The operation id of another execution is a conflict; so is a full host.
CheckLimit(c) ==
    /\ pc[c] = "limit"
    /\ IF \/ \E x \in Execs : session[x] # NoRequest /\ session[x].op = job[c].start.op
          \/ active >= MaxConcurrent
       THEN Refuse(c) ELSE Proceed(c, "spawn")

\* The working directory, the journal file or the process may fail.
Spawn(c) ==
    LET e == job[c].start.exec IN
    /\ pc[c] = "spawn"
    /\ \/ Refuse(c)
       \/ /\ child' = [child EXCEPT ![e] = "running"]
          /\ Goto(c, "install")
          /\ UNCHANGED <<manager, state, closed, completion, doomed, tasks, requests, rest>>

Install(c) ==
    LET e == job[c].start.exec IN
    /\ pc[c] = "install"
    /\ session' = [session EXCEPT ![e] = job[c].start]
    /\ active' = active + 1
    /\ Goto(c, "mark")
    /\ UNCHANGED <<retired, gate, process, tasks, requests, rest>>

\* The journal records the start, and the tasks of the session begin.
MarkStarted(c) ==
    LET e == job[c].start.exec IN
    /\ pc[c] = "mark"
    /\ state' = [state EXCEPT ![e] = "running"]
    /\ reader' = [reader EXCEPT ![e] = "reading"]
    /\ waiter' = [waiter EXCEPT ![e] = "wait"]
    /\ alarm' = [alarm EXCEPT ![e] = IF e \in Timed THEN "sleeping" ELSE "done"]
    /\ gate' = Nobody
    /\ Leave(c)
    /\ UNCHANGED <<session, retired, active, closed, completion, child, doomed, stop, requests, rest>>

\* Faulty variant.
WithdrawOccupied(c) ==
    LET e == job[c].start.exec IN
    /\ pc[c] = "mark" /\ Fault
    /\ session' = [session EXCEPT ![e] = NoRequest] /\ gate' = Nobody
    /\ child' = [child EXCEPT ![e] = "none"]
    /\ completion' = [completion EXCEPT ![e] = "normal"] /\ doomed' = doomed \ {e}
    /\ control' = [control EXCEPT ![e] = Nobody] /\ inputLock' = [inputLock EXCEPT ![e] = Nobody]
    /\ records' = [records EXCEPT ![e] = [o \in TermOps |-> "none"]]
    /\ accepted' = [accepted EXCEPT ![e] = {}] /\ delivered' = [delivered EXCEPT ![e] = [w \in Writes |-> 0]]
    /\ pc' = [x \in Callers |-> IF x = c \/ job[x].exec = e THEN "idle" ELSE pc[x]]
    /\ job' = [x \in Callers |-> IF x = c \/ job[x].exec = e THEN NoJob ELSE job[x]]
    /\ toKill' = toKill \ {e} /\ UNCHANGED <<active, retired, state, closed, tasks, sweep, shut>>

\* The journal fails: the session is taken back, the process killed.  Requests
\* and a shutdown that found the session meanwhile work on a process that is gone.
Withdraw(c) ==
    LET e    == job[c].start.exec
        lost == {x \in Callers : x = c \/ job[x].exec = e}
    IN  /\ pc[c] = "mark"
        /\ Fault
        /\ session' = [session EXCEPT ![e] = NoRequest]
        /\ active' = active - 1
        /\ gate' = Nobody
        /\ child' = [child EXCEPT ![e] = "none"]
        /\ completion' = [completion EXCEPT ![e] = "normal"]
        /\ doomed' = doomed \ {e}
        /\ control' = [control EXCEPT ![e] = Nobody]
        /\ inputLock' = [inputLock EXCEPT ![e] = Nobody]
        /\ records' = [records EXCEPT ![e] = [o \in TermOps |-> "none"]]
        /\ accepted' = [accepted EXCEPT ![e] = {}]
        /\ delivered' = [delivered EXCEPT ![e] = [w \in Writes |-> 0]]
        /\ pc' = [x \in Callers |-> IF x \in lost THEN "idle" ELSE pc[x]]
        /\ job' = [x \in Callers |-> IF x \in lost THEN NoJob ELSE job[x]]
        /\ toKill' = toKill \ {e}
        /\ UNCHANGED <<retired, state, closed, tasks, sweep, shut>>

StartStep(c) ==
    \/ CheckSession(c) \/ CheckRetired(c) \/ CheckLimit(c)
    \/ Spawn(c) \/ Install(c) \/ MarkStarted(c) \/ Withdraw(c)

-----------------------------------------------------------------------------
(* The tasks of a session. *)

\* The operating system ends the process.
ChildExits(e) ==
    /\ child[e] = "running"
    /\ child' = [child EXCEPT ![e] = "gone"]
    /\ UNCHANGED <<manager, state, closed, completion, doomed, tasks, requests, callers, rest>>

\* The output ends, or cannot be read or journaled.
ReaderEnds(e) ==
    /\ reader[e] = "reading"
    /\ \/ reader' = [reader EXCEPT ![e] = "ended"] /\ UNCHANGED faults
       \/ reader' = [reader EXCEPT ![e] = "failed"] /\ Fault
    /\ UNCHANGED <<manager, process, stop, waiter, alarm, requests, callers, sweep, shut, toKill>>

\* output_stop ends the reader though the output is still open.
ReaderStops(e) ==
    /\ reader[e] = "reading"
    /\ e \in stop
    /\ reader' = [reader EXCEPT ![e] = "ended"]
    /\ UNCHANGED <<manager, process, stop, waiter, alarm, requests, callers, rest>>

Outcome(e) ==
    CASE completion[e] = "terminated" -> "cancelled"
      [] completion[e] = "timed_out" -> "failed"
      [] OTHER -> "exited"

\* mark_exited_locked: the outcome is published once.
MarkExited(e) == IF Terminal(e) THEN state[e] ELSE Outcome(e)

\* begin_output_drain: with a drain timeout the exit is published at once.
Reap(e) ==
    /\ waiter[e] = "wait"
    /\ child[e] = "gone"
    /\ state' = [state EXCEPT ![e] = IF e \in Drained THEN MarkExited(e) ELSE @]
    /\ waiter' = [waiter EXCEPT ![e] = "drain"]
    /\ UNCHANGED <<manager, closed, completion, child, doomed, reader, stop, alarm, requests, callers, rest>>

\* Faulty variant.
DrainForever(e) == FALSE /\ UNCHANGED vars

DrainElapses(e) ==
    /\ e \in Drained \ stop
    /\ waiter[e] = "drain"
    /\ stop' = stop \union {e}
    /\ UNCHANGED <<manager, process, reader, waiter, alarm, requests, callers, rest>>

\* complete_session: if the journal fails, one more attempt, then it stays open.
Complete(e) ==
    /\ waiter[e] = "drain"
    /\ reader[e] \in {"ended", "failed"}
    /\ \/ /\ state' = [state EXCEPT ![e] = IF reader[e] = "failed" THEN "failed" ELSE MarkExited(e)]
          /\ closed' = [closed EXCEPT ![e] = TRUE]
          /\ UNCHANGED faults
       \/ /\ Fault
          /\ state' = [state EXCEPT ![e] = "failed"]
          /\ \E b \in BOOLEAN : closed' = [closed EXCEPT ![e] = b]
    /\ active' = active - 1
    /\ waiter' = [waiter EXCEPT ![e] = "done"]
    /\ UNCHANGED <<session, retired, gate, completion, child, doomed, reader, stop, alarm,
                   requests, callers, sweep, shut, toKill>>

Alarm(e, step) == alarm' = [alarm EXCEPT ![e] = step]

\* spawn_timeout: the time is up.
AlarmRings(e) ==
    /\ alarm[e] = "sleeping"
    /\ Alarm(e, IF Terminal(e) THEN "done" ELSE "fire")
    /\ UNCHANGED <<manager, process, reader, stop, waiter, requests, callers, rest>>

\* Only the first of timeout and terminate decides the outcome; a terminate signal.
AlarmFires(e) ==
    /\ alarm[e] = "fire"
    /\ IF completion[e] = "normal"
       THEN completion' = [completion EXCEPT ![e] = "timed_out"] /\ Alarm(e, "grace")
       ELSE completion' = completion /\ Alarm(e, "done")
    /\ UNCHANGED <<manager, state, closed, child, doomed, reader, stop, waiter, requests, callers, rest>>

\* The process ended within the grace period, or is killed.
AlarmKills(e) ==
    /\ alarm[e] = "grace"
    /\ doomed' = IF Terminal(e) THEN doomed ELSE doomed \union {e}
    /\ Alarm(e, "done")
    /\ UNCHANGED <<manager, state, closed, completion, child, reader, stop, waiter, requests, callers, rest>>

-----------------------------------------------------------------------------
(* terminate, signal and write *)

\* A known operation id only repeats its result.
Terminate(c, e, o) ==
    /\ pc[c] = "idle"
    /\ session[e] # NoRequest
    /\ control[e] = Nobody
    /\ records[e][o] = "none"
    /\ control' = [control EXCEPT ![e] = c]
    /\ pc' = [pc EXCEPT ![c] = "check"]
    /\ job' = [job EXCEPT ![c] = [NoJob EXCEPT !.exec = e, !.id = o]]
    /\ UNCHANGED <<manager, process, tasks, records, inputLock, accepted, delivered, rest>>

TermCheck(c) ==
    LET was == ~Terminal(job[c].exec) IN
    /\ pc[c] = "check"
    /\ job' = [job EXCEPT ![c].was = was]
    /\ pc' = [pc EXCEPT ![c] = IF was THEN "signal" ELSE "record"]
    /\ UNCHANGED <<manager, process, tasks, requests, rest>>

TermSignal(c) ==
    LET e == job[c].exec IN
    /\ pc[c] = "signal"
    /\ completion' = [completion EXCEPT ![e] = IF @ = "normal" THEN "terminated" ELSE @]
    /\ Goto(c, "grace")
    /\ UNCHANGED <<manager, state, closed, child, doomed, tasks, requests, rest>>

\* The process ended within the grace period, or is killed; the kill of a process
\* that is gone may fail, and then nothing is recorded.
TermGrace(c) ==
    LET e == job[c].exec IN
    /\ pc[c] = "grace"
    /\ \/ Terminal(e) /\ Goto(c, "record") /\ UNCHANGED <<doomed, control>>
       \/ ~Terminal(e) /\ doomed' = doomed \union {e} /\ Goto(c, "record") /\ UNCHANGED control
       \/ ~Terminal(e) /\ child[e] = "gone" /\ control' = [control EXCEPT ![e] = Nobody] /\ Leave(c) /\ UNCHANGED doomed
    /\ UNCHANGED <<manager, state, closed, completion, child, tasks,
                   records, inputLock, accepted, delivered, rest>>

TermRecord(c) ==
    LET e == job[c].exec IN
    /\ pc[c] = "record"
    /\ records' = [records EXCEPT ![e][job[c].id] = IF job[c].was THEN "was_running" ELSE "was_not"]
    /\ control' = [control EXCEPT ![e] = Nobody]
    /\ Leave(c)
    /\ UNCHANGED <<manager, process, tasks, inputLock, accepted, delivered, rest>>

\* A kill signal of a client.
Signal(e) ==
    /\ session[e] # NoRequest /\ control[e] = Nobody /\ ~Terminal(e)
    /\ doomed' = doomed \union {e}
    /\ UNCHANGED <<manager, state, closed, completion, child, tasks, requests, callers, rest>>

\* Faulty variant.
WriteUnlocked(c, e, w) ==
    /\ pc[c] = "idle" /\ session[e] # NoRequest /\ w \notin accepted[e] /\ ~Terminal(e)
    /\ pc' = [pc EXCEPT ![c] = "write"]
    /\ job' = [job EXCEPT ![c] = [NoJob EXCEPT !.exec = e, !.id = w]]
    /\ UNCHANGED <<manager, process, tasks, requests, rest>>

\* A known write id is already accepted; a finished process takes no input.
Write(c, e, w) ==
    /\ pc[c] = "idle"
    /\ session[e] # NoRequest
    /\ inputLock[e] = Nobody
    /\ w \notin accepted[e]
    /\ ~Terminal(e)
    /\ inputLock' = [inputLock EXCEPT ![e] = c]
    /\ pc' = [pc EXCEPT ![c] = "write"]
    /\ job' = [job EXCEPT ![c] = [NoJob EXCEPT !.exec = e, !.id = w]]
    /\ UNCHANGED <<manager, process, tasks, control, records, accepted, delivered, rest>>

\* The input is written and recorded.  Closed input is recorded too; an error of
\* the process's end of the pipe is not.
WriteEnds(c) ==
    LET e == job[c].exec
        w == job[c].id
    IN  /\ pc[c] = "write"
        /\ \/ /\ accepted' = [accepted EXCEPT ![e] = @ \union {w}]
              /\ delivered' = [delivered EXCEPT ![e][w] = @ + 1]
           \/ /\ accepted' \in {accepted, [accepted EXCEPT ![e] = @ \union {w}]}
              /\ delivered' = delivered
        /\ inputLock' = [inputLock EXCEPT ![e] = Nobody]
        /\ Leave(c)
        /\ UNCHANGED <<manager, process, tasks, control, records, rest>>

TermStep(c) == TermCheck(c) \/ TermSignal(c) \/ TermGrace(c) \/ TermRecord(c)

-----------------------------------------------------------------------------
(* Cleanup and shutdown. *)

\* cleanup_completed, for a session whose retention is over: the id is retired
\* before the session is removed.
Sweep(e) ==
    /\ shut = "no"
    /\ sweep = Nobody
    /\ session[e] # NoRequest
    /\ closed[e]
    /\ retired' = retired \union {e}
    /\ sweep' = e
    /\ UNCHANGED <<session, active, gate, process, tasks, requests, callers, shut, toKill, faults>>

SweepEnds ==
    /\ sweep # Nobody
    /\ session' = [session EXCEPT ![sweep] = NoRequest]
    /\ sweep' = Nobody
    /\ UNCHANGED <<retired, active, gate, process, tasks, requests, callers, shut, toKill, faults>>

Shutdown ==
    /\ MayShutdown
    /\ shut = "no"
    /\ shut' = "killing"
    /\ toKill' = {e \in Execs : session[e] # NoRequest}
    /\ UNCHANGED <<manager, process, tasks, requests, callers, sweep, faults>>

ShutdownKill(e) ==
    /\ e \in toKill
    /\ doomed' = IF Terminal(e) THEN doomed ELSE doomed \union {e}
    /\ toKill' = toKill \ {e}
    /\ UNCHANGED <<manager, state, closed, completion, child, tasks, requests, callers, sweep, shut, faults>>

\* The host's process ends, and with it every task and request.
ShutdownEnds ==
    /\ shut = "killing" /\ toKill = {}
    /\ shut' = "down"
    /\ UNCHANGED <<manager, process, tasks, requests, callers, sweep, toKill, faults>>

\* While the host is up its tasks and requests go on.
HostUp == shut # "down"

Watch(e) == ReaderStops(e) \/ Reap(e) \/ DrainElapses(e) \/ Complete(e)
Timeout(e) == AlarmRings(e) \/ AlarmFires(e) \/ AlarmKills(e)

Next ==
    \/ /\ HostUp
       /\ \/ \E c \in Callers : \/ \E q \in Requests : Enter(c, q)
                                \/ \E e \in Execs, o \in TermOps : Terminate(c, e, o)
                                \/ \E e \in Execs, w \in Writes : Write(c, e, w)
                                \/ StartStep(c) \/ TermStep(c) \/ WriteEnds(c)
          \/ \E e \in Execs : Watch(e) \/ ReaderEnds(e) \/ Timeout(e) \/ Signal(e) \/ Sweep(e) \/ ShutdownKill(e)
          \/ SweepEnds \/ Shutdown \/ ShutdownEnds
    \/ \E e \in Execs : ChildExits(e)

\* While the host is up its tasks and requests go on and time passes; a killed process ends
\* also when the host is down.
Fairness ==
    /\ \A e \in Execs : /\ WF_vars(HostUp /\ ReaderStops(e)) /\ WF_vars(HostUp /\ Reap(e))
                        /\ WF_vars(HostUp /\ DrainElapses(e)) /\ WF_vars(HostUp /\ Complete(e))
                        /\ WF_vars(HostUp /\ Timeout(e)) /\ WF_vars(e \in doomed /\ ChildExits(e))
    /\ \A c \in Callers : WF_vars(HostUp /\ TermStep(c))

Spec == Init /\ [][Next]_vars
FairSpec == Spec /\ Fairness

-----------------------------------------------------------------------------
(* Properties. *)

Contract == INSTANCE ProcessContract WITH
    status <- state, process <- child, cause <- completion, killed <- doomed,
    answered <- records, taken <- accepted, applied <- delivered

\* The concurrent requests and tasks of the manager, seen from outside, are the
\* atomic operations of the contract: one process per execution id although starts
\* are repeated and race with the cleanup that forgets the first one
\* (manager.rs:415-437, 1449-1474), an answered terminate has had its effect
\* (683-698), each input is delivered once (534-587), and a published outcome
\* stays, except that the loss of the remaining output may follow it
\* (journal.rs:139-147).
ImplementsContract == Contract!Spec

\* No slot leaks and none is released twice: active_processes counts the sessions
\* that are not completed, also after a start that failed half-way, and so there
\* are never more processes than max_concurrent_processes.
SlotsAreAccounted ==
    /\ active = Cardinality({e \in Execs : session[e] # NoRequest /\ waiter[e] # "done"})
    /\ Cardinality({e \in Execs : child[e] = "running"}) <= MaxConcurrent

\* With a drain timeout the slot of an ended process is released, though its
\* output stays open ("cannot leave a blocking reader stuck after the drain
\* deadline", execution-supervisor-core/README.md:47-49), unless the host goes down first.
DrainedSlotIsReleased == \A e \in Drained : waiter[e] = "drain" ~> waiter[e] = "done" \/ ~HostUp

\* A process with a timeout ends, though it ignores signals and others terminate it.  The one
\* way out is a host that went down and sent it no kill (ShutdownStopsProcesses says how).
TimedProcessEnds ==
    \A e \in Timed : alarm[e] = "sleeping" ~> child[e] # "running" \/ (~HostUp /\ e \notin doomed)

\* "Stops every process still owned by this generation"
\* (execution-supervisor-core/src/runtime.rs:81).
ShutdownStopsProcesses ==
    shut = "down" => \A e \in Execs : child[e] = "running" => e \in doomed
=============================================================================
