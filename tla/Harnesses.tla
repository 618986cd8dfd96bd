----------------------------- MODULE Harnesses -----------------------------
(***************************************************************************)
(* The five harnesses over the driver they share a copy of: what each of   *)
(* them runs, how the sites harness runs scripts, and the properties of    *)
(* the run they drive.                                                     *)
(*                                                                         *)
(*   codex         exec_command, write_stdin, apply_patch, view_image      *)
(*   unified       exec_command and write_stdin                            *)
(*   cc            read, write, edit and bash                              *)
(*   environments  the same on any host, and the gateway's lifecycle calls *)
(*   sites         code mode: exec and wait                                *)
(***************************************************************************)
EXTENDS HarnessDriver

-----------------------------------------------------------------------------
(***************************************************************************)
(* basic-codex-tools                                                       *)
(***************************************************************************)

AbortModel == SubmitForAbort \/ SaveAbortJob \/ AbortJob

CodexStep ==
    /\ harness = "codex"
    /\ \/ Resume \/ BeginRun \/ EndAtOnce
       \/ TurnToAbort \/ Drain \/ TurnToFailure
       \/ Boundary \/ CommitInputs \/ Complete
       \/ Ask \/ SaveJob \/ TakeMessage \/ TakeAnswer \/ LeaveAnswer
       \/ EndBatch \/ Prepare \/ SendStart \/ SaveStarted \/ LeaveStart \/ Poll
       \/ SendInput \/ SaveWritten \/ Apply \/ SaveApplied
       \/ Fail \/ AbortModel \/ AbortElsewhere \/ End \/ Unreachable
       \/ \E e \in 0..MaxEffects : Terminate(e)

-----------------------------------------------------------------------------
(***************************************************************************)
(* unified-exec-only: no patch and no image; a call of any other tool      *)
(* fails the run as an unusable batch does.                                *)
(***************************************************************************)

UnifiedRun == harness = "unified" /\ (Resume \/ BeginRun \/ EndAtOnce)

UnifiedDrive ==
    /\ harness = "unified"
    /\ \/ TurnToAbort \/ Drain \/ TurnToFailure
       \/ TakeAnswer \/ LeaveAnswer

UnifiedAsk == harness = "unified" /\ (Ask \/ SaveJob)

UnifiedBoundary == harness = "unified" /\ (Boundary \/ CommitInputs \/ Complete)

UnifiedAssistant == harness = "unified" /\ TakeMessage

UnifiedTool ==
    /\ harness = "unified"
    /\ \/ EndBatch \/ Prepare \/ SendStart \/ SaveStarted \/ LeaveStart \/ Poll
       \/ SendInput \/ SaveWritten

UnifiedCleanup ==
    /\ harness = "unified"
    /\ Unreachable \/ \E e \in 0..MaxEffects : Terminate(e)

UnifiedAbort == harness = "unified" /\ (AbortModel \/ AbortElsewhere)

UnifiedFail == harness = "unified" /\ (Fail \/ End)

UnifiedStep ==
    \/ UnifiedRun \/ UnifiedDrive \/ UnifiedAsk \/ UnifiedBoundary \/ UnifiedAssistant \/ UnifiedTool
    \/ UnifiedCleanup \/ UnifiedAbort \/ UnifiedFail

-----------------------------------------------------------------------------
(***************************************************************************)
(* basic-cc-tools: no sessions, so a bash command is polled to its end, and *)
(* no failure in the checkpoint, so fail goes straight to its commit.      *)
(***************************************************************************)

CcRun == harness = "cc" /\ (Resume \/ BeginRun \/ EndAtOnce)

CcDrive ==
    /\ harness = "cc"
    /\ TurnToAbort \/ Drain \/ TakeAnswer \/ LeaveAnswer

CcAsk == harness = "cc" /\ (Ask \/ SaveJob)

CcBoundary == harness = "cc" /\ (Boundary \/ CommitInputs \/ Complete)

CcAssistant == harness = "cc" /\ TakeMessage

CcPrepare == harness = "cc" /\ Prepare

CcExecute ==
    /\ harness = "cc"
    /\ SendStart \/ SaveStarted \/ LeaveStart \/ Poll \/ Apply \/ SaveApplied

CcTool == CcPrepare \/ CcExecute \/ (harness = "cc" /\ EndBatch)

CcAbort ==
    /\ harness = "cc"
    /\ \/ AbortModel \/ AbortElsewhere \/ Unreachable
       \/ \E e \in 0..MaxEffects : Terminate(e)

CcFail == harness = "cc" /\ (Fail \/ End)

CcStep ==
    CcRun \/ CcDrive \/ CcAsk \/ CcBoundary \/ CcAssistant \/ CcTool \/ CcAbort \/ CcFail

-----------------------------------------------------------------------------
(***************************************************************************)
(* environments: the same loop; a plan is a filesystem operation on a host  *)
(* named in the call, a lifecycle call of the gateway or the platform under *)
(* a saved key ("mutation"), or a query.                                   *)
(***************************************************************************)

EnvRun == harness = "environments" /\ (Resume \/ BeginRun \/ EndAtOnce)

EnvDrive ==
    /\ harness = "environments"
    /\ TurnToAbort \/ Drain \/ TakeAnswer \/ LeaveAnswer

EnvAsk == harness = "environments" /\ (Ask \/ SaveJob)

EnvBoundary == harness = "environments" /\ (Boundary \/ CommitInputs \/ Complete)

EnvAssistant == harness = "environments" /\ TakeMessage

EnvPrepare == harness = "environments" /\ Prepare

EnvExecute ==
    /\ harness = "environments"
    /\ SendStart \/ SaveStarted \/ LeaveStart \/ Poll \/ Apply \/ SaveApplied

EnvTool == EnvPrepare \/ EnvExecute \/ (harness = "environments" /\ EndBatch)

EnvAbortPlan == harness = "environments" /\ \E e \in 0..MaxEffects : Terminate(e)

EnvAbort == harness = "environments" /\ (AbortModel \/ AbortElsewhere \/ Unreachable)

EnvFail == harness = "environments" /\ (Fail \/ End)

EnvStep ==
    \/ EnvRun \/ EnvDrive \/ EnvAsk \/ EnvBoundary \/ EnvAssistant \/ EnvTool
    \/ EnvAbortPlan \/ EnvAbort \/ EnvFail

-----------------------------------------------------------------------------
(***************************************************************************)
(* sites: exec runs a script that may call any nested tool, so it is never *)
(* run twice; its cell may notify, and go on after its call has answered.  *)
(***************************************************************************)

SitesRun == harness = "sites" /\ (Resume \/ BeginRun \/ EndAtOnce)

SitesDrive ==
    /\ harness = "sites"
    /\ TurnToAbort \/ Drain \/ TakeAnswer \/ LeaveAnswer

SitesAsk == harness = "sites" /\ (Ask \/ SaveJob)

SitesBoundary == harness = "sites" /\ (Boundary \/ CommitInputs \/ Complete)

SitesAssistant == harness = "sites" /\ TakeMessage

SitesPlan ==
    /\ harness = "sites"
    /\ EndBatch \/ Prepare \/ Apply \/ SaveApplied

ScriptAt(stage) ==
    /\ InBatch /\ phase.plan # NoPlan
    /\ phase.plan.tool = "script" /\ phase.plan.stage = stage

\* tool: the admission is committed before the script is dispatched.
Admit ==
    /\ harness = "sites"
    /\ ScriptAt("prepared")
    /\ Save(PlanAt("admitted"), << >>)
    /\ act' = [act EXCEPT !.pc = "script", !.cells = @ \cup {<<phase.id, phase.index>>}]
    /\ UNCHANGED <<harness, run, input, sess, ops, jobs, host, stops, down>>

\* session.exec.  Nothing deduplicates a script: each activation that runs it
\* runs it anew.
RunScript ==
    /\ act.pc = "script"
    /\ effects' = effects \cup
          {<<phase.id, phase.index, phase.plan.eid + MaxEffects * stops>>}
    /\ act' = [act EXCEPT !.pc = "applied"]
    /\ UNCHANGED <<harness, durable, ops, jobs, drawn, proc, starts, strays, stops, down>>

\* tool: an admitted script that this activation did not dispatch is lost.
ScriptLost ==
    /\ harness = "sites"
    /\ ScriptAt("admitted")
    /\ SaveResult(sess)
    /\ UNCHANGED <<harness, run, input, act, ops, jobs, host, stops, down>>

\* A call of the conversation.
Called(h, id, index) ==
    \E m \in DOMAIN h : /\ h[m].role = "assistant" /\ h[m].id = id
                       /\ index \in DOMAIN h[m].calls

\* save_notification and flush_notifications: while a script runs, and at the
\* head of the loop.  A notification is a further result of its script's call,
\* which must be in the history.
Notify ==
    /\ harness = "sites"
    /\ act.pc \in {"top", "applied"}
    /\ \E c \in act.cells :
          /\ Called(history, c[1], c[2])
          /\ ~\E m \in DOMAIN history : history[m] = Note(c)   \* bound: once a cell
          /\ Save(phase, <<Note(c)>>)
    /\ UNCHANGED <<harness, run, input, sess, act, ops, jobs, host, stops, down>>

SitesAbort == harness = "sites" /\ (AbortModel \/ AbortElsewhere \/ Unreachable)

SitesFail == harness = "sites" /\ (Fail \/ End)

SitesStep ==
    \/ SitesRun \/ SitesDrive \/ SitesAsk \/ SitesBoundary \/ SitesAssistant \/ SitesPlan
    \/ Admit \/ RunScript \/ ScriptLost \/ Notify \/ SitesAbort \/ SitesFail

-----------------------------------------------------------------------------
DriverStep == CodexStep \/ UnifiedStep \/ CcStep \/ EnvStep \/ SitesStep

DriverNext ==
    \/ DriverStep
    \/ \E i \in Inputs : Arrive(i)
    \/ RequestAbort
    \/ SeeAbort
    \/ Stop \/ Outage
    \/ \E o \in 1..MaxOps : JobEnds(o)
    \/ \E e \in 0..MaxEffects : HostStarts(e) \/ HostEnds(e)

DriverSpec == DriverInit /\ [][DriverNext]_driverVars

\* A worker keeps activating a live run and polls its driver, the signal
\* arrives, and requests reach the host.
DriverFairSpec ==
    /\ DriverSpec
    /\ WF_driverVars(DriverStep)
    /\ WF_driverVars(SeeAbort)
    /\ \A e \in 0..MaxEffects : WF_driverVars(HostStarts(e))

-----------------------------------------------------------------------------
(***************************************************************************)
(* Properties                                                              *)
(***************************************************************************)

Ended == {"completed", "failed", "aborted"}
Unusable == {"user", "assistant"}

DriverTypeOK ==
    /\ run.status \in Ended \cup {"live"}
    /\ input \in [Inputs -> {"none", "pending", "handled", "rejected"}]
    /\ phase.at \in {"none", "boundary", "model", "tools"}
    /\ sess \subseteq 0..drawn
    /\ ops \in 0..MaxOps /\ drawn \in 0..MaxEffects

\* A call's effect is dispatched under one identity, whatever dies in between:
\* the host can tell a repetition from a second effect, and a script, which
\* nothing deduplicates, is dispatched at most once.
OneIdentityPerCall ==
    \A x, y \in effects : x[1] = y[1] /\ x[2] = y[2] => x[3] = y[3]

\* Every call of h has one result of its own, before anything else is said, and
\* every result in h, a notification too, is one of a call made before it.
Paired(h) ==
    /\ \A m \in DOMAIN h : h[m].role = "assistant" =>
          \A k \in DOMAIN h[m].calls :
              \E n \in DOMAIN h :
                  /\ n > m
                  /\ h[n] = ToolResult(h[m].id, k)
                  /\ \A j \in (m + 1)..(n - 1) : h[j].role \notin Unusable
                  /\ \A j \in DOMAIN h : h[j] = h[n] => j = n
    /\ \A n \in DOMAIN h : h[n].role = "result" =>
          Called(SubSeq(h, 1, n - 1), h[n].id, h[n].index)

\* What is sent to the model is a conversation it accepts, the same one when an
\* operation is submitted again, and a run that has ended leaves one behind.
SubmittedHistoryIsPaired ==
    /\ \A o \in 1..MaxOps : jobs[o] # NoJob =>
          \E n \in 0..Len(history) :
              jobs[o].payloads = {n} /\ Paired(SubSeq(history, 1, n))
    /\ ~Live => Paired(history)

\* A run that was aborted or has failed leaves no process behind but one whose
\* start request outlived its driver, or whose first call ended in an error
\* while it ran; and it terminates no earlier run's process but the one its
\* last call was using.
CleanupIsExact ==
    /\ run.status \in {"aborted", "failed"} =>
          \A e \in 1..MaxEffects : proc[e] = "alive" => e \in strays
    /\ proc[Earlier] = "killed" =>
          \E m \in DOMAIN history :
              history[m].role = "assistant" /\ "stdin" \in {history[m].calls[k] :
                                                   k \in DOMAIN history[m].calls}

\* A user message enters the history when it is handled and only then, once;
\* a run does not complete over a message it has not looked at.
InputsOnce ==
    /\ \A i \in Inputs :
          Cardinality({m \in DOMAIN history : history[m] = User(i)})
              = IF input[i] = "handled" THEN 1 ELSE 0
    /\ run.status = "completed" => Pending = {}

\* What an abort cannot get past: a submission it must repeat and the gateway
\* refuses, a gateway or a host with something to stop on it that is gone.
Stuck ==
    \/ /\ phase.at = "model"
       /\ ~LlmReachable \/ (~phase.job /\ jobs[phase.op].status = "refused")
    \/ ~HostReachable /\ ToClean # {}

\* A requested abort ends the run, unless from some moment on the driver is, for
\* good, before a submission that is refused, or before a gateway or a host that
\* does not answer; nothing else keeps an aborted run alive.
AbortEnds == (run.abort ~> run.status \in Ended) \/ <>[]Stuck

\* Refuted: "Abort stops the active process and processes created by that run"
\* without exception.
FailedRunsLeaveNothing ==
    run.status \in {"aborted", "failed"} => \A e \in 1..MaxEffects : proc[e] # "alive"

\* Refuted: a requested abort always ends the run.
AbortAlwaysEnds == run.abort ~> run.status \in Ended

\* "length/filter/empty/unsupported stops fail explicitly": a run does not
\* complete on an answer that was cut short or filtered.
IncompleteResponseFails ==
    run.status = "completed" =>
        \A m \in DOMAIN history : history[m].role = "assistant" => history[m].valid

-----------------------------------------------------------------------------
(* The properties together. *)

\* Whatever is saved, lost and repeated between the steps of a turn, a call is carried
\* out under one identity, and every history the model is asked with has one result for
\* each of its calls.
CallsAreCarriedOutOnce == OneIdentityPerCall /\ SubmittedHistoryIsPaired

\* What a run started it stops, no more, and every input reaches the history once.
NothingIsLeftOver == CleanupIsExact /\ InputsOnce
=============================================================================
