--------------------------- MODULE HarnessDriver ---------------------------
(***************************************************************************)
(* The driver every harness runs for an activation of a run: the loop over *)
(* boundary, model call and tool batch that five packages under            *)
(* platform/packages/harnesses carry a copy of.  This module is written    *)
(* from basic-codex-tools-harness; module Harnesses says where the others  *)
(* differ.                                                                 *)
(*                                                                         *)
(* One run is followed over any number of activations.  What is committed  *)
(* (run, inputs, history, checkpoint, process sessions) survives; what an  *)
(* activation knows does not.  The LLM gateway and the execution host keep *)
(* what reached them, and a request may reach the host after the driver    *)
(* that sent it has given up waiting.                                      *)
(*                                                                         *)
(* A commit is one step: the platform fences it, and a version conflict is *)
(* refreshed and repeated by save.                                         *)
(***************************************************************************)
EXTENDS Integers, Sequences, FiniteSets

CONSTANTS
    Kinds,        \* the harnesses considered
    Inputs,       \* user messages that may be sent to the run
    FirstInput,   \* the one the run was created with
    MaxOps,       \* bound: model operations
    MaxEffects,   \* bound: identities drawn for tool effects
    Batches,      \* bound: the tool calls a response may hold
    MaxStops,     \* bound: activations that end early
    Retries,      \* generations after a retryable failure (2)
    MaxSessions   \* process sessions a session may retain (32)

ASSUME HarnessAssumption ==
    /\ Kinds \subseteq {"codex", "unified", "cc", "environments", "sites"}
    /\ FirstInput \in Inputs
    /\ IsFiniteSet(Inputs)
    /\ Batches \subseteq Seq({"process", "stdin", "mutation", "query", "script"})
    /\ {MaxOps, MaxEffects, MaxStops, Retries, MaxSessions} \subseteq Nat

VARIABLES
    harness,  \* which of Kinds runs
    run,      \* status and abort_requested of the run
    input,    \* the status of each input
    history,  \* session messages
    cp,       \* the checkpoint
    sess,     \* process sessions in the session state
    act,      \* the activation, if there is one
    ops,      \* model operations drawn so far
    jobs,     \* LLM gateway: runs by idempotency key
    drawn,    \* identities drawn for tool effects so far
    proc,     \* host: processes by execution id
    starts,   \* start requests on their way to the host
    strays,   \* history: processes whose driver gave up, or gave an error, over them
    effects,  \* history: the identities each call was dispatched under
    stops,    \* activations that ended early
    down      \* what cannot be reached any more, if anything

driverVars == <<harness, run, input, history, cp, sess, act, ops, jobs, drawn, proc,
                starts, strays, effects, stops, down>>

durable == <<run, input, history, cp, sess>>
host == <<drawn, proc, starts, strays, effects>>

\* An execution an earlier run of the session left running.
Earlier == 0

KeepsSessions == {"codex", "unified"}
KeepsFailure == {"codex", "unified"}
ToolsOf == [k \in {"codex", "unified", "cc", "environments", "sites"} |->
              CASE k = "unified" -> {"process", "stdin"}
                [] k = "codex"   -> {"process", "stdin", "mutation", "query"}
                [] k = "sites"   -> {"script", "query"}
                [] OTHER         -> {"process", "mutation", "query"}]

NoCheckpoint == [phase |-> [at |-> "none"], failure |-> FALSE]
NoActivation == [pc |-> "none"]
NoJob == [status |-> "none"]
NoPlan == [tool |-> "none"]

AtBoundary(final) == [at |-> "boundary", final |-> final]
AtModel(op, rev, job, n) ==
    [at |-> "model", op |-> op, rev |-> rev, job |-> job, attempt |-> n]
AtTools(id, index, plan) == [at |-> "tools", id |-> id, index |-> index, plan |-> plan]

User(i) == [role |-> "user", input |-> i]
Assistant(id, calls, valid) ==
    [role |-> "assistant", id |-> id, calls |-> calls, valid |-> valid]
\* A call's own result, and a result with the call's id that a script sends
\* besides it: notify.
ToolResult(id, index) == [role |-> "result", id |-> id, index |-> index, note |-> FALSE]
Note(call) == [role |-> "result", id |-> call[1], index |-> call[2], note |-> TRUE]

phase == cp.phase
Live == run.status = "live"

\* calls: the tool calls of the assistant message the checkpoint names.
Calls(id) == LET m == CHOOSE m \in 1..Len(history) :
                        history[m].role = "assistant" /\ history[m].id = id
             IN history[m].calls

DriverInit ==
    /\ harness \in Kinds
    /\ run = [status |-> "live", abort |-> FALSE]
    /\ input = [i \in Inputs |-> IF i = FirstInput THEN "pending" ELSE "none"]
    /\ history = << >>
    /\ cp = NoCheckpoint
    /\ sess = IF harness \in KeepsSessions THEN {Earlier} ELSE {}
    /\ act = NoActivation
    /\ ops = 0
    /\ jobs = [o \in 1..MaxOps |-> NoJob]
    /\ drawn = Earlier
    /\ proc = [e \in 0..MaxEffects |->
                 IF e = Earlier /\ harness \in KeepsSessions THEN "alive" ELSE "none"]
    /\ starts = {}
    /\ strays = {}
    /\ effects = {}
    /\ stops = 0
    /\ down = "none"

-----------------------------------------------------------------------------
(***************************************************************************)
(* The platform, the worker, the gateway and the host around the driver    *)
(***************************************************************************)

\* A user message, or an abort, reaches the run.
Arrive(i) ==
    /\ Live /\ input[i] = "none"
    /\ input' = [input EXCEPT ![i] = "pending"]
    /\ UNCHANGED <<harness, run, history, cp, sess, act, ops, jobs, host, stops, down>>

RequestAbort ==
    /\ Live /\ ~run.abort
    /\ run' = [run EXCEPT !.abort = TRUE]
    /\ UNCHANGED <<harness, input, history, cp, sess, act, ops, jobs, host, stops, down>>

\* The worker's signal, or a reply that carries abort_requested.
SeeAbort ==
    /\ act # NoActivation /\ run.abort /\ ~act.seen
    /\ act' = [act EXCEPT !.seen = TRUE]
    /\ UNCHANGED <<harness, durable, ops, jobs, host, stops, down>>

\* The activation ends early: the worker dies, the lease is lost, a call's
\* outcome is uncertain, the host cannot be reached.
Stop ==
    /\ act # NoActivation
    /\ stops < MaxStops
    /\ act' = NoActivation
    /\ stops' = stops + 1
    /\ UNCHANGED <<harness, durable, ops, jobs, host, down>>

\* The LLM gateway, or the execution host and its gateway, is out of reach for
\* good; an outage that ends is a Stop.  Bound: it counts as one.
Outage ==
    /\ down = "none"
    /\ stops < MaxStops
    /\ down' \in {"llm", "host"}
    /\ stops' = stops + 1
    /\ UNCHANGED <<harness, durable, act, ops, jobs, host>>

LlmReachable == down # "llm"
HostReachable == down # "host" \/ harness = "sites"

\* The gateway's run ends by itself.
JobEnds(o) ==
    /\ jobs[o].status = "running"
    /\ \E s \in {"succeeded", "failed", "retryable"} :
          jobs' = [jobs EXCEPT ![o] = [@ EXCEPT !.status = s]]
    /\ UNCHANGED <<harness, durable, act, ops, host, stops, down>>

Waits(e) == act.pc = "starting" /\ phase.plan.eid = e

\* A start request reaches the host; a known execution id starts nothing.
HostStarts(e) ==
    /\ e \in starts
    /\ starts' = starts \ {e}
    /\ proc' = [proc EXCEPT ![e] = IF @ = "none" THEN "alive" ELSE @]
    /\ strays' = IF proc[e] = "none" /\ ~Waits(e) THEN strays \cup {e} ELSE strays
    /\ UNCHANGED <<harness, durable, act, ops, jobs, drawn, effects, stops, down>>

HostEnds(e) ==
    /\ proc[e] = "alive"
    /\ proc' = [proc EXCEPT ![e] = "ended"]
    /\ UNCHANGED <<harness, durable, act, ops, jobs, drawn, starts, strays, effects, stops, down>>

-----------------------------------------------------------------------------
(***************************************************************************)
(* Starting an activation                                                  *)
(***************************************************************************)

\* Where a reply shows the abort, the next turn of the loop handles it.
Fresh == [pc |-> "top", seen |-> run.abort, done |-> {}, cells |-> {}]

\* save: checkpoint, messages, input results and session writes in one commit.
Save(p, messages) ==
    /\ cp' = [cp EXCEPT !.phase = p]
    /\ history' = history \o messages

\* run, for a run that already has a checkpoint.
Resume ==
    /\ Live /\ act = NoActivation /\ cp # NoCheckpoint
    /\ act' = Fresh
    /\ UNCHANGED <<harness, durable, ops, jobs, host, stops, down>>

\* run, the first time: the configuration, the target and the host are
\* resolved, and the first checkpoint is saved; or the run ends here.
BeginRun ==
    /\ Live /\ act = NoActivation /\ cp = NoCheckpoint
    /\ ~run.abort
    /\ harness # "environments" => HostReachable
    /\ Save(AtBoundary(0), << >>)
    /\ act' = Fresh
    /\ UNCHANGED <<harness, run, input, sess, ops, jobs, host, stops, down>>

\* initial_failure, or the abort of a run that has not begun.
EndAtOnce ==
    /\ Live /\ act = NoActivation /\ cp = NoCheckpoint
    /\ run' = [run EXCEPT !.status = IF run.abort THEN "aborted" ELSE "failed"]
    /\ UNCHANGED <<harness, input, history, cp, sess, act, ops, jobs, host, stops, down>>

-----------------------------------------------------------------------------
(***************************************************************************)
(* The loop                                                                *)
(***************************************************************************)

Top == act.pc = "top" /\ ~act.seen /\ ~cp.failure

\* drive: the abort is confirmed by the server and handled first.
TurnToAbort ==
    /\ act.pc = "top" /\ act.seen
    /\ act' = [act EXCEPT !.pc = "abort"]
    /\ UNCHANGED <<harness, durable, ops, jobs, host, stops, down>>

\* drive: a draining worker gives the run back.
Drain ==
    /\ act.pc = "top" /\ ~act.seen
    /\ stops < MaxStops
    /\ stops' = stops + 1
    /\ act' = NoActivation
    /\ UNCHANGED <<harness, durable, ops, jobs, host, down>>

\* drive: a failure an earlier activation saved is finished.
TurnToFailure ==
    /\ act.pc = "top" /\ ~act.seen /\ cp.failure
    /\ act' = [act EXCEPT !.pc = "failing"]
    /\ UNCHANGED <<harness, durable, ops, jobs, host, stops, down>>

Pending == {i \in Inputs : input[i] = "pending"}

\* boundary: pending inputs come first, then an empty history fails the run,
\* then a final message completes it, and otherwise a model call is planned.
Boundary ==
    /\ Top /\ phase.at = "boundary"
    /\ \/ /\ Pending # {}
          /\ act' = [pc |-> "inputs", seen |-> act.seen, done |-> {}, cells |-> act.cells,
                     batch |-> Pending]
          /\ UNCHANGED <<cp, history, ops>>
       \/ /\ Pending = {} /\ history = << >>
          /\ act' = [act EXCEPT !.pc = "fail"]
          /\ UNCHANGED <<cp, history, ops>>
       \/ /\ Pending = {} /\ history # << >> /\ phase.final # 0
          /\ act' = [act EXCEPT !.pc = "complete"]
          /\ UNCHANGED <<cp, history, ops>>
       \/ /\ Pending = {} /\ history # << >> /\ phase.final = 0
          /\ ops < MaxOps
          /\ ops' = ops + 1
          /\ Save(AtModel(ops + 1, Len(history), FALSE, 0), << >>)
          /\ UNCHANGED act
    /\ UNCHANGED <<harness, run, input, sess, jobs, host, stops, down>>

\* Some order of the inputs; the code takes theirs.
InOrder(S) == CHOOSE s \in [1..Cardinality(S) -> S] : \A i \in S : \E k \in DOMAIN s : s[k] = i

\* boundary's commit: each input is appended and handled, or rejected (an
\* unsupported kind, a message over 512 KiB).  A message that would take the
\* batch over 512 KiB is left for the next turn, with those after it.
CommitInputs ==
    /\ act.pc = "inputs"
    /\ \E taken \in (SUBSET act.batch) \ {{}} : \E good \in SUBSET taken :
          LET b == InOrder(good) IN
          /\ FirstInput \in act.batch => FirstInput \in taken
          /\ taken # act.batch => good # {}
          /\ Save(AtBoundary(IF good = {} THEN phase.final ELSE 0),
                  [k \in DOMAIN b |-> User(b[k])])
          /\ input' = [i \in Inputs |-> IF i \in good THEN "handled"
                                        ELSE IF i \in taken THEN "rejected"
                                        ELSE input[i]]
    /\ act' = [pc |-> "top", seen |-> act.seen, done |-> {}, cells |-> act.cells]
    /\ UNCHANGED <<harness, run, sess, ops, jobs, host, stops, down>>

\* boundary's completion: refused while an input is pending.
Complete ==
    /\ act.pc = "complete"
    /\ IF Pending # {}
       THEN act' = [act EXCEPT !.pc = "top", !.seen = run.abort] /\ UNCHANGED run
       ELSE act' = NoActivation /\ run' = [run EXCEPT !.status = "completed"]
    /\ UNCHANGED <<harness, input, history, cp, sess, ops, jobs, host, stops, down>>

-----------------------------------------------------------------------------
(***************************************************************************)
(* The model call                                                          *)
(***************************************************************************)

\* request: the messages up to the revision saved with the operation.
Request(rev) == rev

\* The gateway finds the key; or it starts a run for it, or refuses it.
Submitted(o, rev, outcome) ==
    jobs' = [jobs EXCEPT ![o] =
               [status   |-> IF jobs[o].status \in {"none", "refused"} THEN outcome
                             ELSE jobs[o].status,
                payloads |-> IF jobs[o].status = "none" THEN {Request(rev)}
                             ELSE jobs[o].payloads \cup {Request(rev)}]]

\* drive, Phase::Model: submit under the saved operation, or look at the job.
\* A request the gateway refuses for good fails the run.
Ask ==
    /\ Top /\ phase.at = "model" /\ LlmReachable
    /\ IF phase.job
       THEN UNCHANGED jobs
       ELSE \E outcome \in {"running", "refused"} : Submitted(phase.op, phase.rev, outcome)
    /\ act' = [pc |-> IF phase.job THEN "answer"
                      ELSE IF jobs'[phase.op].status = "refused" THEN "fail" ELSE "handle",
               seen |-> FALSE, done |-> {}, cells |-> act.cells,
               reply |-> jobs'[phase.op].status]
    /\ UNCHANGED <<harness, durable, ops, host, stops, down>>

\* The handle is saved before the answer is looked at.
Submission == AtModel(phase.op, phase.rev, TRUE, phase.attempt)

SaveJob ==
    /\ act.pc = "handle"
    /\ Save(Submission, << >>)
    /\ act' = [act EXCEPT !.pc = IF act.seen THEN "top" ELSE "answer"]
    /\ UNCHANGED <<harness, run, input, sess, ops, jobs, host, stops, down>>

LastAnswer == Cardinality({m \in DOMAIN history : history[m].role = "assistant"})

\* What the model may answer.  Bound: calls in the first answer only, and one
\* at most in an answer that is not valid.
ModelAnswers ==
    {r \in [calls : Batches, valid : BOOLEAN] :
        /\ \A k \in DOMAIN r.calls : r.calls[k] \in ToolsOf[harness]
        /\ LastAnswer > 0 => r.calls = << >>
        /\ r.valid \/ Len(r.calls) <= 1}

\* assistant: the message is appended, with its batch or as the final one.
\* An unusable answer fails the run; where failures are kept, the same commit
\* says so.
SaveAnswer(r) ==
    LET id == LastAnswer + 1 IN
    /\ cp' = [phase |-> IF r.calls = << >> THEN AtBoundary(id) ELSE AtTools(id, 1, NoPlan),
              failure |-> cp.failure \/ (~r.valid /\ harness \in KeepsFailure)]
    /\ history' = Append(history, Assistant(id, r.calls, r.valid))
    /\ act' = [act EXCEPT !.pc = IF r.valid THEN "top" ELSE "fail"]
    /\ UNCHANGED ops

\* drive, RunState::Succeeded: assistant, which may also find the message too
\* large or its calls unusable.
TakeMessage ==
    /\ act.pc = "answer" /\ ~act.seen
    /\ act.reply = "succeeded"
    /\ \/ \E r \in ModelAnswers : SaveAnswer(r)
       \/ /\ act' = [act EXCEPT !.pc = "fail"]
          /\ UNCHANGED <<cp, history, ops>>
    /\ UNCHANGED <<harness, run, input, sess, jobs, host, stops, down>>

\* drive, the other states of the job.
TakeAnswer ==
    /\ act.pc = "answer" /\ ~act.seen
    /\ \/ /\ act.reply = "running"
          /\ act' = [act EXCEPT !.pc = "top"]
          /\ UNCHANGED <<cp, history, ops>>
       \/ /\ act.reply = "retryable" /\ phase.attempt < Retries
          /\ ops < MaxOps
          /\ ops' = ops + 1
          /\ Save(AtModel(ops + 1, phase.rev, FALSE, phase.attempt + 1), << >>)
          /\ act' = [act EXCEPT !.pc = "top"]
       \/ /\ \/ act.reply \in {"failed", "aborted"}
             \/ act.reply = "retryable" /\ phase.attempt = Retries
          /\ act' = [act EXCEPT !.pc = "fail"]
          /\ UNCHANGED <<cp, history, ops>>
    /\ UNCHANGED <<harness, run, input, sess, jobs, host, stops, down>>

\* interrupted: the abort came while the answer was on its way.
LeaveAnswer ==
    /\ act.pc = "answer" /\ act.seen
    /\ act' = [act EXCEPT !.pc = "top"]
    /\ UNCHANGED <<harness, durable, ops, jobs, host, stops, down>>

-----------------------------------------------------------------------------
(***************************************************************************)
(* Tools                                                                   *)
(***************************************************************************)

InBatch == Top /\ phase.at = "tools"
Call == Calls(phase.id)[phase.index]
More == phase.index <= Len(Calls(phase.id))

\* tool: the batch is done.
EndBatch ==
    /\ InBatch /\ ~More
    /\ Save(AtBoundary(0), << >>)
    /\ UNCHANGED <<harness, run, input, sess, act, ops, jobs, host, stops, down>>

\* The execution a plan is about, and the identity its effect goes out under:
\* the same but for write_stdin, which has a write_id of its own.
Planned(tool, e, key, stage) == [tool |-> tool, eid |-> e, key |-> key, stage |-> stage]
PlanAt(stage) ==
    AtTools(phase.id, phase.index,
            Planned(phase.plan.tool, phase.plan.eid, phase.plan.key, stage))

\* tool_result: the result, the sessions and the next index in one commit.
SaveResult(s) ==
    /\ Save(AtTools(phase.id, phase.index + 1, NoPlan), <<ToolResult(phase.id, phase.index)>>)
    /\ sess' = s

\* tool, without a plan: the arguments are checked and the identity of the
\* effect is drawn and saved.  A refusal is the call's result.
Prepare ==
    /\ InBatch /\ More /\ phase.plan = NoPlan /\ HostReachable
    /\ \/ /\ drawn < MaxEffects
          /\ Call = "process" /\ harness \in KeepsSessions => Cardinality(sess) < MaxSessions
          /\ drawn' = drawn + 1
          /\ \E e \in IF Call = "stdin" THEN sess ELSE {drawn + 1} :
                Save(AtTools(phase.id, phase.index, Planned(Call, e, drawn + 1, "prepared")), << >>)
          /\ UNCHANGED sess
       \/ /\ SaveResult(sess)
          /\ UNCHANGED drawn
    /\ UNCHANGED <<harness, run, input, act, ops, jobs, proc, starts, strays, effects, stops, down>>

\* Faulty variant: the identity is drawn anew by each activation.
DispatchUnsaved(e) ==
    effects' = effects \cup {<<phase.id, phase.index, e + MaxEffects * stops>>}

\* What leaves for the host, under which identity.
Dispatch(e) == effects' = effects \cup {<<phase.id, phase.index, e>>}

\* execute, ExecPrepared: the start request is sent.
SendStart ==
    /\ InBatch /\ phase.plan # NoPlan
    /\ phase.plan.tool = "process" /\ phase.plan.stage = "prepared" /\ HostReachable
    /\ starts' = starts \cup {phase.plan.eid}
    /\ Dispatch(phase.plan.key)
    /\ act' = [act EXCEPT !.pc = "starting"]
    /\ UNCHANGED <<harness, durable, ops, jobs, drawn, proc, strays, stops, down>>

\* The reply to the start: the running state is saved, or the refusal is the
\* call's result.
SaveStarted ==
    /\ act.pc = "starting" /\ ~act.seen /\ HostReachable
    /\ \/ /\ phase.plan.eid \notin starts
          /\ Save(PlanAt("running"), << >>)
          /\ UNCHANGED <<sess, starts>>
       \/ /\ phase.plan.eid \in starts /\ proc[phase.plan.eid] = "none"
          /\ starts' = starts \ {phase.plan.eid}
          /\ SaveResult(sess)
    /\ act' = [act EXCEPT !.pc = "top"]
    /\ UNCHANGED <<harness, run, input, ops, jobs, drawn, proc, strays, effects, stops, down>>

\* execute, StdinPrepared: the input is sent, if there is any.
SendInput ==
    /\ InBatch /\ phase.plan # NoPlan
    /\ phase.plan.tool = "stdin" /\ phase.plan.stage = "prepared" /\ HostReachable
    /\ Dispatch(phase.plan.key)
    /\ act' = [act EXCEPT !.pc = "writing"]
    /\ UNCHANGED <<harness, durable, ops, jobs, drawn, proc, starts, strays, stops, down>>

\* The reply to the input: accepted, or an error that is the call's result;
\* ExecutionLost and ExecutionNotFound drop the session.
SaveWritten ==
    /\ act.pc = "writing" /\ ~act.seen /\ HostReachable
    /\ \/ Save(PlanAt("running"), << >>) /\ UNCHANGED sess
       \/ SaveResult(sess)
       \/ proc[phase.plan.eid] # "alive" /\ SaveResult(sess \ {phase.plan.eid})
    /\ act' = [act EXCEPT !.pc = "top"]
    /\ UNCHANGED <<harness, run, input, ops, jobs, host, stops, down>>

\* guarded: the driver stops waiting; the request it sent is not called back.
LeaveStart ==
    /\ act.pc \in {"starting", "writing"} /\ act.seen
    /\ act' = [act EXCEPT !.pc = "top"]
    /\ UNCHANGED <<harness, durable, ops, jobs, host, stops, down>>

\* execute, Exec and Stdin: the process ended, or the time to wait is over and
\* its session is kept; or the step failed and its outcome is not uncertain (a
\* checkpoint over 512 KiB, a refused read): the error is the call's result,
\* and a process that has no session yet runs on with none.
Poll ==
    /\ InBatch /\ phase.plan # NoPlan /\ phase.plan.stage = "running" /\ HostReachable
    /\ LET e == phase.plan.eid IN
       \/ proc[e] # "alive" /\ SaveResult(sess \ {e}) /\ UNCHANGED strays
       \/ /\ proc[e] = "alive" /\ harness \in KeepsSessions
          /\ SaveResult(sess \cup {e})
          /\ UNCHANGED strays
       \/ /\ SaveResult(sess)
          /\ strays' = IF proc[e] = "alive" /\ e \notin sess THEN strays \cup {e} ELSE strays
    /\ UNCHANGED <<harness, run, input, act, ops, jobs, drawn, proc, starts, effects, stops, down>>

\* execute, a patch or an image: the operation is applied under its identity.
Apply ==
    /\ InBatch /\ phase.plan # NoPlan
    /\ phase.plan.tool \in {"mutation", "query"} /\ HostReachable
    /\ IF phase.plan.tool = "mutation" THEN Dispatch(phase.plan.key) ELSE UNCHANGED effects
    /\ act' = [act EXCEPT !.pc = "applied"]
    /\ UNCHANGED <<harness, durable, ops, jobs, drawn, proc, starts, strays, stops, down>>

SaveApplied ==
    /\ act.pc = "applied"
    /\ SaveResult(sess)
    /\ act' = [act EXCEPT !.pc = "top"]
    /\ UNCHANGED <<harness, run, input, ops, jobs, host, stops, down>>

-----------------------------------------------------------------------------
(***************************************************************************)
(* The end of a run                                                        *)
(***************************************************************************)

\* fail: the failure is saved before the cleanup begins.
Fail ==
    /\ act.pc = "fail"
    /\ IF harness \in KeepsFailure THEN cp' = [cp EXCEPT !.failure = TRUE] ELSE UNCHANGED cp
    /\ act' = [act EXCEPT !.pc = "failing"]
    /\ UNCHANGED <<harness, run, input, history, sess, ops, jobs, host, stops, down>>

\* The gateway's run, once it is told to abort.
AbortedJob(o) == IF jobs[o].status = "running" THEN "aborted" ELSE jobs[o].status

\* abort, Phase::Model: an ambiguous submission is repeated under its own key.
\* An error of submit, a refusal too, ends the activation.
SubmitForAbort ==
    /\ act.pc = "abort" /\ phase.at = "model" /\ ~phase.job /\ LlmReachable
    /\ \E outcome \in {"running", "refused"} : Submitted(phase.op, phase.rev, outcome)
    /\ act' = IF jobs'[phase.op].status = "refused" THEN NoActivation
              ELSE [act EXCEPT !.pc = "abort_handle"]
    /\ UNCHANGED <<harness, durable, ops, host, stops, down>>

\* Its handle is saved before the job is aborted.
SaveAbortJob ==
    /\ act.pc = "abort_handle"
    /\ Save(Submission, << >>)
    /\ act' = [act EXCEPT !.pc = "abort"]
    /\ UNCHANGED <<harness, run, input, sess, ops, jobs, host, stops, down>>

AbortJob ==
    /\ act.pc = "abort" /\ phase.at = "model" /\ phase.job /\ LlmReachable
    /\ jobs' = [jobs EXCEPT ![phase.op] = [@ EXCEPT !.status = AbortedJob(phase.op)]]
    /\ act' = [act EXCEPT !.pc = "cleanup"]
    /\ UNCHANGED <<harness, durable, ops, host, stops, down>>

\* Faulty variant: a batch of tools is not given up.
AbortAtBoundary ==
    /\ act.pc = "abort" /\ phase.at = "boundary"
    /\ act' = [act EXCEPT !.pc = "cleanup"]
    /\ UNCHANGED <<harness, durable, ops, jobs, host, stops, down>>

AbortElsewhere ==
    /\ act.pc = "abort" /\ phase.at # "model"
    /\ act' = [act EXCEPT !.pc = "cleanup"]
    /\ UNCHANGED <<harness, durable, ops, jobs, host, stops, down>>

\* The execution the saved plan names.
PlannedProcess ==
    IF phase.at = "tools" /\ phase.plan # NoPlan /\ phase.plan.tool \in {"process", "stdin"}
    THEN {phase.plan.eid}
    ELSE {}

\* Faulty variant: only the sessions on record are terminated.
ToCleanSessions == IF harness \in KeepsSessions THEN sess \ {Earlier} ELSE {}

\* cleanup_processes: the plan's execution and what this run has started.
\* Without sessions, the plan's execution is all there is.
ToClean ==
    PlannedProcess \cup (IF harness \in KeepsSessions THEN sess \ {Earlier} ELSE {})

Ending == act.pc \in {"cleanup", "failing"}

\* terminate_process and cleanup_result: an execution the host does not know
\* counts as stopped.  Each one is saved before the next.
Terminate(e) ==
    /\ Ending /\ HostReachable
    /\ e \in ToClean \ act.done
    /\ proc' = [proc EXCEPT ![e] = IF @ = "alive" THEN "killed" ELSE @]
    /\ sess' = sess \ {e}
    /\ act' = [act EXCEPT !.done = @ \cup {e}]
    /\ UNCHANGED <<harness, run, input, history, cp, ops, jobs, drawn, starts, strays,
                   effects, stops, down>>

\* connect, connect_for_cleanup and every call to the LLM gateway: what is out of
\* reach is an error of the activation, and the next one meets it again.
Unreachable ==
    /\ act # NoActivation
    /\ \/ /\ ~LlmReachable /\ phase.at = "model"
          /\ Top \/ act.pc = "abort"
       \/ /\ ~HostReachable
          /\ \/ InBatch /\ More
             \/ act.pc \in {"starting", "writing"}
             \/ Ending /\ ~(ToClean \subseteq act.done)
    /\ act' = NoActivation
    /\ UNCHANGED <<harness, durable, ops, jobs, host, stops, down>>

\* unfinished_tools: every call without a result gets one.
Unfinished ==
    IF phase.at = "tools"
    THEN [k \in 1..(Len(Calls(phase.id)) + 1 - phase.index) |->
             ToolResult(phase.id, phase.index + k - 1)]
    ELSE << >>

\* The last commit of abort and of finish_failure.
End ==
    /\ Ending
    /\ ToClean \subseteq act.done
    /\ run' = [run EXCEPT !.status = IF act.pc = "cleanup" THEN "aborted" ELSE "failed"]
    /\ input' = [i \in Inputs |->
                   IF act.pc = "cleanup" /\ input[i] = "pending" THEN "rejected" ELSE input[i]]
    /\ Save(AtBoundary(0), Unfinished)
    /\ act' = NoActivation
    /\ UNCHANGED <<harness, sess, ops, jobs, host, stops, down>>
=============================================================================
