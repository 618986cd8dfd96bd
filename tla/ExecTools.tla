----------------------------- MODULE ExecTools -----------------------------
(***************************************************************************)
(* The process tools of a harness: unified-exec (exec_command and          *)
(* write_stdin over a retained session, with or without a terminal) and    *)
(* bash-minimal (one command, one answer).                                 *)
(*                                                                         *)
(* A call is a plan the harness saves after every step: prepared, then     *)
(* running with a cursor into the process journal and the output kept so   *)
(* far, then an answer.  The step itself (a request to the host and what   *)
(* it returned) is lost when the worker stops before the save, and is then *)
(* repeated from the saved plan.  The answer and the session it leaves are *)
(* saved together.                                                         *)
(*                                                                         *)
(* The host is EventJournal and ProcessManager seen from outside: events   *)
(* with increasing sequence numbers, read in pages after a cursor, and     *)
(* input that a repeated write_id does not apply again.                    *)
(***************************************************************************)
EXTENDS Integers, Sequences, FiniteSets, SequencesExt

CONSTANTS
    ExecKinds,     \* "pipe" and "tty" (unified-exec), "bash" (bash-minimal)
    ChunkSizes,    \* bytes one output event may carry
    MaxOutput,     \* bound: bytes the process writes
    MaxKept,       \* max_output_bytes
    MaxLines,      \* max_output_lines (bash-minimal)
    Newlines,      \* the positions of the stream that hold a newline
    MaxCalls,      \* bound: tool calls
    MaxLosses      \* bound: worker stops and supervisor restarts

ASSUME ExecAssumption ==
    /\ ExecKinds \subseteq {"pipe", "tty", "bash"}
    /\ ChunkSizes \subseteq Nat \ {0} /\ Newlines \subseteq Nat
    /\ {MaxOutput, MaxKept, MaxCalls, MaxLosses} \subseteq Nat /\ MaxLines \in Nat \ {0}

VARIABLES
    kind,      \* which tool runs
    events,    \* the journal of the process: output, exited, closed
    pstate,    \* its ExecutionState
    written,   \* bytes it wrote
    applied,   \* the calls whose input the host applied, in order
    plan,      \* the saved plan of the call
    draft,     \* what the last step returned, not saved yet
    due,       \* the deadline of the running plan has passed
    session,   \* the saved session
    answers,   \* the tool results of the session
    asked,     \* calls prepared
    losses

execVars == <<kind, events, pstate, written, applied, plan, draft, due, session, answers,
              asked, losses>>
execHost == <<events, pstate, written, applied>>
execHarness == <<plan, draft, session, answers>>

NoSession == [at |-> "none"]
NoDraft == [at |-> "none"]
Idle == [at |-> "idle"]
EmptyBuffer == [head |-> <<>>, tail |-> <<>>, omitted |-> 0, cut |-> FALSE]
Output(bytes) == [kind |-> "output", bytes |-> bytes]
Exited == [kind |-> "exited", bytes |-> <<>>]
Closed == [kind |-> "closed", bytes |-> <<>>]

\* is_terminal
IsTerminal(s) == s \notin {"starting", "running"}

ExecInit ==
    /\ kind \in ExecKinds
    /\ events = <<>> /\ pstate = "none" /\ written = 0 /\ applied = <<>>
    /\ plan = Idle /\ draft = NoDraft /\ due = FALSE
    /\ session = NoSession /\ answers = <<>>
    /\ asked = 0 /\ losses = 0

-----------------------------------------------------------------------------
(***************************************************************************)
(* The output that is kept                                                 *)
(***************************************************************************)
Least(a, b) == IF a < b THEN a ELSE b
Left(n, m) == IF n > m THEN n - m ELSE 0
LastOf(s, n) == SubSeq(s, Len(s) - n + 1, Len(s))

HeadBudget == MaxKept \div 2
TailBudget == MaxKept - HeadBudget

\* HeadTailBuffer::push: the first half of the budget keeps the beginning of the
\* stream, the rest its end; what falls between is counted.
Push(buf, input) ==
    LET headLen == Least(Len(input), Left(HeadBudget, Len(buf.head)))
        rest == SubSeq(input, headLen + 1, Len(input))
        omitted == Left(Len(buf.tail) + Len(rest), TailBudget)
        keepPrevious == Len(buf.tail) - Least(omitted, Len(buf.tail))
        skipped == Left(omitted, Len(buf.tail))
    IN IF rest = <<>> THEN [buf EXCEPT !.head = @ \o SubSeq(input, 1, headLen)]
       ELSE [buf EXCEPT !.head = @ \o SubSeq(input, 1, headLen),
                        !.omitted = @ + omitted,
                        !.tail = LastOf(@, keepPrevious) \o SubSeq(rest, skipped + 1, Len(rest))]

\* The lines that the bytes from position i on make up, an unended last one included.
LinesFrom(bytes, i) ==
    (IF bytes # <<>> /\ Last(bytes) \notin Newlines THEN 1 ELSE 0)
      + Cardinality({j \in i..Len(bytes) : bytes[j] \in Newlines})

\* Faulty variant: lines are counted within one event.
PushTailByEvent(buf, input) ==
    LET keepNew == Least(Len(input), MaxKept)
        keepOld == Least(Len(buf.tail), MaxKept - keepNew)
        over == {i \in 1..keepNew : LastOf(input, keepNew)[i] \in Newlines
                                    /\ LinesFrom(LastOf(input, keepNew), i) > MaxLines}
        start == IF over = {} THEN 0 ELSE CHOOSE i \in over : \A j \in over : j <= i
        kept == IF start > 0 THEN SubSeq(LastOf(input, keepNew), start + 1, keepNew)
                ELSE LastOf(buf.tail, keepOld) \o LastOf(input, keepNew)
    IN [head |-> <<>>, tail |-> kept, omitted |-> buf.omitted + Len(buf.tail) + Len(input) - Len(kept),
        cut |-> TRUE]

\* Tail::push: the newest bytes, cut back to max_bytes and then to max_lines.
PushTail(buf, input) ==
    LET keepNew == Least(Len(input), MaxKept)
        keepOld == Least(Len(buf.tail), MaxKept - keepNew)
        bytes == LastOf(buf.tail, keepOld) \o LastOf(input, keepNew)
        over == {i \in 1..Len(bytes) : bytes[i] \in Newlines /\ LinesFrom(bytes, i) > MaxLines}
        start == IF over = {} THEN 0 ELSE CHOOSE i \in over : \A j \in over : j <= i
    IN [head |-> <<>>, tail |-> SubSeq(bytes, start + 1, Len(bytes)),
        omitted |-> buf.omitted + Len(buf.tail) + Len(input) - (Len(bytes) - start),
        cut |-> buf.cut \/ keepNew < Len(input) \/ keepOld < Len(buf.tail) \/ start > 0]

Keep(buf, event) == CASE event.kind # "output" -> buf
                      [] event.kind = "output" /\ kind = "bash" -> PushTail(buf, event.bytes)
                      [] OTHER -> Push(buf, event.bytes)
KeepAll(buf, page) == FoldLeft(Keep, buf, page)

-----------------------------------------------------------------------------
(***************************************************************************)
(* The process                                                             *)
(***************************************************************************)
Write(n) ==
    /\ pstate \in {"running", "exited", "cancelled"} /\ Closed \notin Range(events)
    /\ written + n <= MaxOutput
    /\ events' = Append(events, Output([i \in 1..n |-> written + i]))
    /\ written' = written + n
    /\ UNCHANGED <<kind, pstate, applied, execHarness, due, asked, losses>>

\* A start without output_drain_timeout_ms (bash-minimal) records the exit when all
\* output was read; with one the exit is visible first and output may follow it.
Leave(outcome) ==
    /\ pstate = "running"
    /\ pstate' = outcome
    /\ events' = IF kind = "bash" THEN events \o <<Exited, Closed>> ELSE Append(events, Exited)

Exit ==
    /\ Leave("exited")
    /\ UNCHANGED <<kind, written, applied, execHarness, due, asked, losses>>

Close ==
    /\ pstate \in {"exited", "cancelled"} /\ Closed \notin Range(events)
    /\ events' = Append(events, Closed)
    /\ UNCHANGED <<kind, pstate, written, applied, execHarness, due, asked, losses>>

\* The supervisor restarts under a new generation: its processes are lost.
RestartSupervisor ==
    /\ losses < MaxLosses /\ pstate \notin {"none", "lost"}
    /\ losses' = losses + 1
    /\ pstate' = "lost"
    /\ UNCHANGED <<kind, events, written, applied, execHarness, due, asked>>

-----------------------------------------------------------------------------
(***************************************************************************)
(* A call                                                                  *)
(***************************************************************************)
NoteAnswer(a) == answers' = Append(answers, a)
Failed(id) == [call |-> id, ok |-> FALSE, ended |-> FALSE, buf |-> EmptyBuffer, wrote |-> FALSE]

\* prepare_exec_command, prepare of bash-minimal: the identities of the start, drawn
\* and saved before anything is sent.
PrepareStart ==
    /\ plan = Idle /\ asked = 0 /\ MaxCalls > 0
    /\ asked' = 1
    /\ plan' = [at |-> "prepared", id |-> 1, does |-> "start"]
    /\ UNCHANGED <<kind, execHost, draft, due, session, answers, losses>>

\* prepare_write_stdin: a session that ended is not found; input needs a terminal,
\* without one only the interrupt character is taken.
PrepareWriteStdin(does) ==
    /\ kind # "bash" /\ plan = Idle /\ asked > 0 /\ asked < MaxCalls
    /\ session # NoSession
    /\ asked' = asked + 1
    /\ IF does = "write" /\ kind # "tty"
       THEN NoteAnswer(Failed(asked')) /\ UNCHANGED plan
       ELSE /\ plan' = [at |-> "prepared", id |-> asked', does |-> does]
            /\ UNCHANGED answers
    /\ UNCHANGED <<kind, execHost, draft, due, session, losses>>

Running(p, from, status) ==
    [at |-> "running", id |-> p.id, does |-> p.does, cursor |-> from.cursor,
     state |-> from.state, buf |-> EmptyBuffer, closed |-> FALSE, ready |-> FALSE,
     wrote |-> status = "accepted", refused |-> status = "closed"]

\* ExecutionLost or ExecutionNotFound: an error is the answer and the session is dropped.
Lose ==
    /\ NoteAnswer(Failed(plan.id))
    /\ plan' = Idle /\ draft' = NoDraft /\ session' = NoSession

\* start_exec_command, start and recover of bash-minimal.  A repeated start finds the
\* execution it already made.
Start ==
    /\ plan.at = "prepared" /\ draft = NoDraft /\ plan.does = "start"
    /\ IF pstate = "lost"
       THEN Lose /\ UNCHANGED <<pstate, due>>
       ELSE /\ pstate' = IF pstate = "none" THEN "running" ELSE pstate
            /\ draft' = Running(plan, [cursor |-> 0, state |-> pstate'], "none")
            /\ due' = FALSE
            /\ UNCHANGED <<plan, session, answers>>
    /\ UNCHANGED <<kind, events, written, applied, asked, losses>>

\* start_write_stdin: the saved action is applied once.  The host refuses input when the
\* process ended, which it may notice before the journal says so; an interrupt of an
\* ended process is taken as done.
StartWriteStdin ==
    /\ plan.at = "prepared" /\ draft = NoDraft /\ plan.does # "start"
    /\ IF pstate = "lost"
       THEN Lose /\ UNCHANGED <<applied, due>>
       ELSE \E status \in {"none", "accepted", "closed"} :
               /\ (status = "none") <=> (plan.does # "write")
               /\ plan.does = "write" /\ plan.id \in Range(applied) => status = "accepted"
               /\ plan.does = "write" /\ IsTerminal(pstate) => plan.id \in Range(applied) \/ status = "closed"
               /\ applied' = IF status = "accepted" /\ plan.id \notin Range(applied)
                             THEN Append(applied, plan.id) ELSE applied
               /\ draft' = Running(plan, session, status)
               /\ due' = FALSE
               /\ UNCHANGED <<plan, session, answers>>
    /\ UNCHANGED <<kind, events, pstate, written, asked, losses>>

\* Faulty variant: the deadline of a call is not looked at.
ReadyOnlyWhenClosed(p, late) == IsTerminal(p.state) /\ p.closed

\* When a poll ends its call: unified-exec waits for Closed or for the deadline.
Ready(p, late) == \/ IsTerminal(p.state) /\ p.closed
                  \/ ~IsTerminal(p.state) /\ late

\* bash-minimal is complete on a page that is empty or holds Closed.
Complete(p, page) == IsTerminal(p.state) /\ (page = <<>> \/ Closed \in Range(page))

\* poll of unified-exec, poll of bash-minimal: one page after the cursor.
Poll(n) ==
    /\ plan.at = "running" /\ draft = NoDraft /\ ~plan.ready
    /\ n <= Len(events) - plan.cursor /\ (n = 0 => Len(events) = plan.cursor)
    /\ IF pstate = "lost" THEN Lose
       ELSE LET page == SubSeq(events, plan.cursor + 1, plan.cursor + n)
                p == [plan EXCEPT !.cursor = @ + n, !.state = pstate,
                                  !.buf = KeepAll(@, page),
                                  !.closed = @ \/ Closed \in Range(page)]
            IN /\ draft' = [p EXCEPT !.ready = IF kind = "bash" THEN Complete(p, page)
                                               ELSE Ready(p, due)]
               /\ UNCHANGED <<plan, session, answers>>
    /\ UNCHANGED <<kind, execHost, due, asked, losses>>

\* The harness saves the plan a step returned.
Checkpoint ==
    /\ draft # NoDraft
    /\ plan' = draft /\ draft' = NoDraft
    /\ UNCHANGED <<kind, execHost, due, session, answers, asked, losses>>

\* finish, finish_exec_command, finish_write_stdin: the answer and the session it leaves
\* are one save; input that was refused by a live process is an error, and the session
\* keeps the cursor it had.
Finish ==
    /\ plan.at = "running" /\ plan.ready /\ draft = NoDraft
    /\ plan' = Idle
    /\ IF plan.refused /\ ~IsTerminal(plan.state)
       THEN NoteAnswer(Failed(plan.id)) /\ UNCHANGED session
       ELSE /\ NoteAnswer([call |-> plan.id, ok |-> TRUE, ended |-> IsTerminal(plan.state),
                           buf |-> plan.buf, wrote |-> plan.wrote])
            /\ session' = IF IsTerminal(plan.state) THEN NoSession
                          ELSE [at |-> "open", cursor |-> plan.cursor, state |-> plan.state]
    /\ UNCHANGED <<kind, execHost, draft, due, asked, losses>>

\* The wall clock passes the deadline of the running call.
Deadline ==
    /\ plan.at = "running" \/ draft # NoDraft
    /\ ~due /\ due' = TRUE
    /\ UNCHANGED <<kind, execHost, execHarness, asked, losses>>

\* terminate_session and terminate: the harness stops a session or a running command.
Terminate ==
    /\ session # NoSession \/ plan.at = "running"
    /\ Leave("cancelled")
    /\ UNCHANGED <<kind, written, applied, execHarness, due, asked, losses>>

\* The worker stops before the save: what the step returned is lost, its effect is not.
StopWorker ==
    /\ losses < MaxLosses /\ draft # NoDraft
    /\ losses' = losses + 1
    /\ draft' = NoDraft
    /\ UNCHANGED <<kind, execHost, plan, due, session, answers, asked>>

\* The two packages: unified-exec keeps its process as a session, bash-minimal runs one
\* command to its end.
PrepareExecCommand == kind # "bash" /\ PrepareStart
PrepareBash == kind = "bash" /\ PrepareStart
StartExecCommand == kind # "bash" /\ Start
StartBash == kind = "bash" /\ Start
PollSession(n) == kind # "bash" /\ Poll(n)
PollBash(n) == kind = "bash" /\ Poll(n)
TerminateSession == kind # "bash" /\ Terminate
TerminateBash == kind = "bash" /\ Terminate

Respond ==
    \/ StartExecCommand \/ StartBash \/ StartWriteStdin \/ Checkpoint \/ Finish
    \/ \E n \in 0..Len(events) : PollSession(n) \/ PollBash(n)

ExecNext ==
    \/ PrepareExecCommand \/ PrepareBash
    \/ \E does \in {"write", "interrupt", "poll"} : PrepareWriteStdin(does)
    \/ \E n \in ChunkSizes : Write(n)
    \/ Exit \/ Close \/ RestartSupervisor \/ Deadline \/ StopWorker
    \/ TerminateSession \/ TerminateBash
    \/ Respond

\* A harness drives its call, a supervisor closes the journal of a process that exited,
\* time passes, and bash-minimal always sets a timeout that ends the process.
ExecFairness ==
    /\ WF_execVars(Respond) /\ WF_execVars(Close) /\ WF_execVars(Deadline)
    /\ WF_execVars(kind = "bash" /\ Exit)

ExecSpec == ExecInit /\ [][ExecNext]_execVars
ExecFairSpec == ExecSpec /\ ExecFairness
-----------------------------------------------------------------------------
ExecTypeOK ==
    /\ kind \in ExecKinds /\ due \in BOOLEAN /\ written \in 0..MaxOutput
    /\ pstate \in {"none", "running", "exited", "cancelled", "lost"}
    /\ plan.at \in {"idle", "prepared", "running"}
    /\ draft.at \in {"none", "running"} /\ session.at \in {"none", "open"}
    /\ asked \in 0..MaxCalls /\ losses \in 0..MaxLosses

Stream == [i \in 1..written |-> i]
Total(buf) == Len(buf.head) + Len(buf.tail) + buf.omitted

\* The bytes that the answers before the k-th one account for.
Before(k) == FoldLeft(LAMBDA n, a : n + Total(a.buf), 0, SubSeq(answers, 1, k - 1))

\* What a buffer holds of the segment of the stream it stands for: a beginning and an
\* end, with the count of what lies between.
Stands(buf, from) ==
    LET to == from + Total(buf) IN
    /\ to <= written
    /\ buf.head = SubSeq(Stream, from + 1, from + Len(buf.head))
    /\ buf.tail = SubSeq(Stream, to - Len(buf.tail) + 1, to)
    /\ buf.omitted > 0 => (kind = "bash" => buf.cut)

\* Every byte the process wrote is accounted for by exactly one tool result, in order:
\* the results partition the stream although a page may be read, lost with the worker
\* and read again, and although write_stdin calls and exec_command share one cursor.
\* A result that reports the end of the process leaves nothing behind.
ResultsPartitionOutput ==
    \A k \in 1..Len(answers) :
        /\ Stands(answers[k].buf, Before(k))
        /\ answers[k].ended /\ pstate # "lost" => Before(k + 1) = written

\* The input of a write_stdin call is applied once, in the order of the calls, and never
\* unless its call was prepared; a result that says the input was taken tells the truth.
StdinAppliedOnce ==
    /\ \A i, j \in 1..Len(applied) : i < j => applied[i] < applied[j]
    /\ \A k \in 1..Len(answers) : answers[k].wrote => answers[k].call \in Range(applied)

\* bash-minimal keeps the longest end of the stream that fits both of its limits,
\* however the stream was cut into events and pages.
TailIsTheLongest ==
    kind = "bash" => \A p \in {plan, draft} : p.at = "running" =>
        LET n == Total(p.buf)
            Fits(m) == /\ m <= MaxKept
                       /\ m > 0 => LET t == SubSeq(Stream, n - m + 1, n) IN LinesFrom(t, 1) <= MaxLines
        IN /\ Fits(Len(p.buf.tail))
           /\ \A m \in Len(p.buf.tail) + 1 .. n : ~Fits(m)

\* A call is answered: at the latest by the deadline while the process lives, and by the
\* end of its output once it does not.
CallsAreAnswered == (plan # Idle) ~> (plan = Idle)
=============================================================================
