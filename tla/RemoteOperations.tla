--------------------------- MODULE RemoteOperations ---------------------------
(***************************************************************************)
(* Durable remote work of the platform server (runtime/remote_operations.rs *)
(* and remote_operations/runner.rs): sandboxes and shell executions that   *)
(* HTTP handlers accept as rows and that leased reconciler lanes drive.    *)
(*                                                                         *)
(* A lane takes a due row (one transaction), works on its copy of it with  *)
(* calls to the execution gateway, and writes the copy back if it still    *)
(* holds the row.  Between the two the row is open to cancel requests, to  *)
(* the lane's 30 second lease running out, to a crash and to other lanes.  *)
(*                                                                         *)
(* The gateway and the hosts are external.  They are modelled by what the  *)
(* runner relies on: create_host and start are idempotent under the saved  *)
(* identity, a deleted host is still shown, a restarted supervisor reports *)
(* ExecutionLost, and a call may fail before or after its effect.          *)
(*                                                                         *)
(* Definitions under "Faulty variants" are not part of the specification.  *)
(***************************************************************************)
EXTENDS Integers, FiniteSets

CONSTANTS
    Sandboxes,     \* rows with kind='sandbox'
    Executions,    \* rows with kind='execution'
    Lanes,         \* concurrent calls of reconcile_remote_once
    NoLane,        \* processor_id is null
    MaxRows,       \* bound: rows accepted
    MaxEpoch,      \* bound: times one row is taken
    MaxOutput,     \* bound: chunks of output one process writes
    MaxGeneration  \* bound: restarts of the execution host's supervisor

ASSUME NoLaneAssumption == NoLane \notin Lanes
ASSUME RemoteKindsAssumption == Sandboxes \intersect Executions = {}
ASSUME RemoteBoundsAssumption == {MaxRows, MaxEpoch, MaxOutput, MaxGeneration} \subseteq Nat

Ops == Sandboxes \union Executions

VARIABLES
    status,     \* the row's status, "absent" before the request is accepted
    phase,      \* how far the row's saved state goes (see Phases)
    generation, \* the supervisor generation saved with the prepared request
    cursor,     \* chunks of output saved in the row, with the reader's cursor
    cancel,     \* rows with cancel_requested
    confirmed,  \* rows with cancellation_confirmed
    finished,   \* rows with finished_at
    next,       \* next_attempt_at: "due", "later" or "never" ('infinity')
    holder,     \* processor_id
    lease,      \* processor_expires_at: "none", "live" or "expired"
    epoch,      \* process_epoch
    asking,     \* cancel requests that have read the row and not yet updated it
    overdue,    \* executions whose deadline_at has passed
    work,       \* each lane's copy of the row it took
    lanePc,     \* each lane: "idle", "taken" or "stepped"
    host,       \* the sandbox host at the gateway
    doomed,     \* hosts whose desired state is deleted
    process,    \* the process on the execution host
    output,     \* chunks of output the process has written
    supervisor  \* the execution host's supervisor generation

rowVars == <<status, phase, generation, cursor, cancel, confirmed, finished, next, holder, lease, epoch>>
laneVars == <<work, lanePc>>
remoteVars == <<host, doomed, process, output, supervisor>>
remoteState == <<rowVars, asking, overdue, laneVars, remoteVars>>

\* A sandbox: nothing sent, create_host about to be sent (state.submitted), host
\* known.  An execution: nothing, request prepared, start about to be sent
\* (state.start_submitted), process known (state.running).
Phases == {"new", "prepared", "submitted", "bound"}
SandboxStatus == {"provisioning", "ready", "unavailable", "terminating", "terminated"}
ExecutionStatus == {"pending", "running", "completed", "failed", "cancelled", "lost"}
Ended == {"exited", "failed", "cancelled"}

\* The fields of a row a lane changes in its copy.  ok: the step succeeded.
CopyType ==
    [op : Ops, epoch : Nat, status : SandboxStatus \union ExecutionStatus, phase : Phases,
     generation : Nat, cursor : Nat, cancel : BOOLEAN, confirmed : BOOLEAN,
     finished : BOOLEAN, ok : BOOLEAN]

NoCopy == [op |-> NoLane]

\* Types, and the schema's pairing of kind, status and lease.
RemoteTypeOK ==
    /\ status \in [Ops -> SandboxStatus \union ExecutionStatus \union {"absent"}]
    /\ \A o \in Ops : status[o] \in (IF o \in Sandboxes THEN SandboxStatus ELSE ExecutionStatus) \union {"absent"}
    /\ phase \in [Ops -> Phases]
    /\ generation \in [Ops -> Nat] /\ cursor \in [Ops -> Nat] /\ epoch \in [Ops -> Nat]
    /\ cancel \subseteq Ops /\ confirmed \subseteq finished /\ finished \subseteq Ops
    /\ next \in [Ops -> {"due", "later", "never"}]
    /\ holder \in [Ops -> Lanes \union {NoLane}]
    /\ lease \in [Ops -> {"none", "live", "expired"}]
    /\ \A o \in Ops : holder[o] = NoLane <=> lease[o] = "none"
    /\ asking \subseteq Ops /\ overdue \subseteq Executions
    /\ lanePc \in [Lanes -> {"idle", "taken", "stepped"}]
    /\ work \in [Lanes -> CopyType \union {NoCopy}]
    /\ \A l \in Lanes : lanePc[l] = "idle" <=> work[l] = NoCopy
    /\ host \in [Sandboxes -> {"none", "provisioning", "ready", "unrooted", "unavailable", "deleted"}]
    /\ doomed \subseteq Sandboxes
    /\ process \in [Executions -> {"none", "running", "stopping"} \union Ended]
    /\ output \in [Executions -> Nat]
    /\ supervisor \in Nat

RemoteInit ==
    /\ status = [o \in Ops |-> "absent"]
    /\ phase = [o \in Ops |-> "new"]
    /\ generation = [o \in Ops |-> 0]
    /\ cursor = [o \in Ops |-> 0]
    /\ cancel = {} /\ confirmed = {} /\ finished = {}
    /\ next = [o \in Ops |-> "due"]
    /\ holder = [o \in Ops |-> NoLane]
    /\ lease = [o \in Ops |-> "none"]
    /\ epoch = [o \in Ops |-> 0]
    /\ asking = {} /\ overdue = {}
    /\ work = [l \in Lanes |-> NoCopy]
    /\ lanePc = [l \in Lanes |-> "idle"]
    /\ host = [o \in Sandboxes |-> "none"]
    /\ doomed = {}
    /\ process = [o \in Executions |-> "none"]
    /\ output = [o \in Executions |-> 0]
    /\ supervisor = 0

-----------------------------------------------------------------------------
(* The capability handlers (remote_capability). *)

Room == Cardinality({o \in Ops : status[o] # "absent"}) < MaxRows

CreateSandbox(o) ==
    /\ status[o] = "absent" /\ Room
    /\ status' = [status EXCEPT ![o] = "provisioning"]
    /\ UNCHANGED <<phase, generation, cursor, cancel, confirmed, finished, next, holder, lease, epoch,
                   asking, overdue, laneVars, remoteVars>>

\* bind_harness_workspace: a host the harness provisioned itself is adopted.  It
\* is looked up before the transaction and may have changed since.
AdoptSandbox(o) ==
    /\ status[o] = "absent" /\ Room
    /\ status' = [status EXCEPT ![o] = "provisioning"]
    /\ phase' = [phase EXCEPT ![o] = "bound"]
    /\ \E seen \in {"provisioning", "ready", "unrooted", "unavailable", "deleted"} :
           host' = [host EXCEPT ![o] = seen]
    /\ UNCHANGED <<generation, cursor, cancel, confirmed, finished, next, holder, lease, epoch, asking,
                   overdue, laneVars, doomed, process, output, supervisor>>

Bash(o) ==
    /\ status[o] = "absent" /\ Room
    /\ status' = [status EXCEPT ![o] = "pending"]
    /\ UNCHANGED <<phase, generation, cursor, cancel, confirmed, finished, next, holder, lease, epoch,
                   asking, overdue, laneVars, remoteVars>>

\* sandboxes.terminate and execution.cancel read the row without a lock ...
AskCancel(o) ==
    /\ status[o] # "absent"
    /\ o \notin finished
    /\ asking' = asking \union {o}
    /\ UNCHANGED <<rowVars, overdue, laneVars, remoteVars>>

\* ... and then update it, whatever happened to it meanwhile.
RequestCancel(o) ==
    /\ o \in asking
    /\ asking' = asking \ {o}
    /\ cancel' = cancel \union {o}
    /\ next' = [next EXCEPT ![o] = "due"]
    /\ UNCHANGED <<status, phase, generation, cursor, confirmed, finished, holder, lease, epoch,
                   overdue, laneVars, remoteVars>>

-----------------------------------------------------------------------------
(* reconcile_remote_once: taking a row and writing it back. *)

\* A row is free when no lane holds it, or its lane's 30 seconds are over.
Free(o) == lease[o] \in {"none", "expired"}

\* The deadline of an execution counts as a cancel request in the copy.
Take(l, o) ==
    /\ lanePc[l] = "idle"
    /\ status[o] # "absent" /\ o \notin finished
    /\ next[o] = "due"
    /\ Free(o)
    /\ epoch[o] < MaxEpoch
    /\ holder' = [holder EXCEPT ![o] = l]
    /\ lease' = [lease EXCEPT ![o] = "live"]
    /\ epoch' = [epoch EXCEPT ![o] = @ + 1]
    /\ lanePc' = [lanePc EXCEPT ![l] = "taken"]
    /\ work' = [work EXCEPT ![l] =
                  [op |-> o, epoch |-> epoch[o] + 1, status |-> status[o], phase |-> phase[o],
                   generation |-> generation[o], cursor |-> cursor[o],
                   cancel |-> o \in cancel \/ o \in overdue, confirmed |-> o \in confirmed,
                   finished |-> FALSE, ok |-> TRUE]]
    /\ UNCHANGED <<status, phase, generation, cursor, cancel, confirmed, finished, next, asking,
                   overdue, remoteVars>>

\* Faulty variants.
HoldsRegardless(l, o) == TRUE
CancelAfterCopy(r) == IF r.cancel THEN cancel \union {r.op} ELSE cancel \ {r.op}

\* The write-back's fence.
Holds(l, o) == holder[o] = l /\ epoch[o] = work[l].epoch /\ lease[o] = "live"

\* A ready sandbox that nobody asked to end is parked; the rest is retried.
NextAttempt(r) ==
    IF r.ok /\ r.op \in Sandboxes /\ r.status = "ready" /\ ~r.cancel THEN "never" ELSE "later"

\* The write-back adds the copy's request and keeps one that came meanwhile.
CancelAfter(r) == IF r.cancel THEN cancel \union {r.op} ELSE cancel

\* A lane that no longer holds the row updates nothing.
WriteBack(l) ==
    LET r == work[l]
        o == r.op
    IN  /\ lanePc[l] = "stepped"
        /\ lanePc' = [lanePc EXCEPT ![l] = "idle"]
        /\ work' = [work EXCEPT ![l] = NoCopy]
        /\ IF Holds(l, o)
           THEN /\ status' = [status EXCEPT ![o] = r.status]
                /\ phase' = [phase EXCEPT ![o] = r.phase]
                /\ generation' = [generation EXCEPT ![o] = r.generation]
                /\ cursor' = [cursor EXCEPT ![o] = r.cursor]
                /\ cancel' = CancelAfter(r)
                /\ confirmed' = IF r.confirmed THEN confirmed \union {o} ELSE confirmed \ {o}
                /\ finished' = IF r.finished THEN finished \union {o} ELSE finished \ {o}
                /\ next' = [next EXCEPT ![o] = NextAttempt(r)]
                /\ holder' = [holder EXCEPT ![o] = NoLane]
                /\ lease' = [lease EXCEPT ![o] = "none"]
           ELSE UNCHANGED <<status, phase, generation, cursor, cancel, confirmed, finished, next,
                            holder, lease>>
        /\ UNCHANGED <<epoch, asking, overdue, remoteVars>>

\* The server stops, or the task is dropped, in the middle of a step.
RemoteCrash(l) ==
    /\ lanePc[l] # "idle"
    /\ lanePc' = [lanePc EXCEPT ![l] = "idle"]
    /\ work' = [work EXCEPT ![l] = NoCopy]
    /\ UNCHANGED <<rowVars, asking, overdue, remoteVars>>

-----------------------------------------------------------------------------
(* The steps.  Each changes the lane's copy, and what the calls it makes      *)
(* change at the gateway; a failed call leaves the copy as it was then.       *)

Stepped(l, r) ==
    /\ work' = [work EXCEPT ![l] = r]
    /\ lanePc' = [lanePc EXCEPT ![l] = "stepped"]
    /\ UNCHANGED <<rowVars, asking, overdue>>

Failed(r) == [r EXCEPT !.ok = FALSE]
Finished(r, end) == [r EXCEPT !.status = end, !.finished = TRUE]
Confirmed(r, end) == [r EXCEPT !.status = end, !.finished = TRUE, !.confirmed = TRUE]
Untouched == UNCHANGED remoteVars

\* A call that fails in transport; everything else about the row is retried.
CallFails(l) ==
    /\ lanePc[l] = "taken"
    /\ \/ work[l].op \in Sandboxes /\ work[l].phase # "new"
       \/ work[l].op \in Executions /\ ~(work[l].cancel /\ work[l].phase \in {"new", "prepared"})
    /\ Stepped(l, Failed(work[l]))
    /\ Untouched

\* Nothing was sent yet: a cancelled sandbox is over, another is marked first.
SandboxSubmit(l) ==
    LET r == work[l] IN
    /\ lanePc[l] = "taken" /\ r.op \in Sandboxes /\ r.phase = "new"
    /\ Stepped(l, IF r.cancel THEN Confirmed(r, "terminated") ELSE [r EXCEPT !.phase = "submitted"])
    /\ Untouched

\* What the runner makes of the host it was shown.
Observed(r, seen) ==
    LET b == [r EXCEPT !.phase = "bound"] IN
    IF seen = "deleted" THEN Confirmed(b, "terminated")
    ELSE IF r.cancel THEN [b EXCEPT !.status = "terminating"]
    ELSE IF seen \in {"ready", "provisioning"} THEN [b EXCEPT !.status = seen]
    ELSE IF seen = "unrooted" THEN Failed([b EXCEPT !.status = "unavailable"])
    ELSE [b EXCEPT !.status = "unavailable"]

\* create_host, or get_host when the host is known; then, on a cancelled
\* sandbox, delete_host.  Both show the host as it is, deleted ones included.
SandboxAdvance(l) ==
    LET r     == work[l]
        o     == r.op
        shown == IF host[o] = "none" THEN "provisioning" ELSE host[o]
    IN  /\ lanePc[l] = "taken" /\ o \in Sandboxes /\ r.phase \in {"submitted", "bound"}
        /\ host' = [host EXCEPT ![o] = shown]
        /\ \/ \* Every call is answered.
              /\ doomed' = IF r.cancel /\ shown # "deleted" THEN doomed \union {o} ELSE doomed
              /\ Stepped(l, Observed(r, shown))
           \/ \* The host was created or read, and the reply is lost.
              /\ doomed' = doomed
              /\ Stepped(l, Failed(r))
           \/ \* delete_host fails, before or after its effect.
              /\ r.cancel /\ shown # "deleted"
              /\ doomed' \in {doomed, doomed \union {o}}
              /\ Stepped(l, Failed([r EXCEPT !.phase = "bound", !.status = "terminating"]))
        /\ UNCHANGED <<process, output, supervisor>>

\* A cancelled execution whose start was never sent is over.
CancelUnsent(l) ==
    LET r == work[l] IN
    /\ lanePc[l] = "taken" /\ r.op \in Executions
    /\ r.cancel /\ r.phase \in {"new", "prepared"}
    /\ Stepped(l, Confirmed(r, "cancelled"))
    /\ Untouched

\* The request is prepared and saved before anything is sent; a request the
\* host refuses fails the execution.
Prepare(l, valid) ==
    LET r == work[l] IN
    /\ lanePc[l] = "taken" /\ r.op \in Executions
    /\ ~r.cancel /\ r.phase = "new"
    /\ Stepped(l, IF valid THEN [r EXCEPT !.phase = "prepared", !.generation = supervisor]
                  ELSE Failed(Finished(r, "failed")))
    /\ Untouched

\* Faulty variant.
SubmitStartAtOnce(l) ==
    LET r == work[l] IN
    /\ lanePc[l] = "taken" /\ r.op \in Executions
    /\ ~r.cancel /\ r.phase = "prepared"
    /\ Stepped(l, [r EXCEPT !.phase = "submitted"])
    /\ process' = [process EXCEPT ![r.op] = IF @ = "none" /\ r.generation = supervisor THEN "running" ELSE @]
    /\ UNCHANGED <<host, doomed, output, supervisor>>

\* The intent to start is saved before the start.
SubmitStart(l) ==
    LET r == work[l] IN
    /\ lanePc[l] = "taken" /\ r.op \in Executions
    /\ ~r.cancel /\ r.phase = "prepared"
    /\ Stepped(l, [r EXCEPT !.phase = "submitted"])
    /\ Untouched

\* The start: idempotent, refused as lost by a restarted supervisor.
StartProcess(l, answered) ==
    LET r == work[l]
        o == r.op
    IN  /\ lanePc[l] = "taken" /\ o \in Executions
        /\ ~r.cancel /\ r.phase = "submitted"
        /\ IF r.generation # supervisor
           THEN Stepped(l, Failed(Finished(r, "lost"))) /\ Untouched
           ELSE /\ process' = [process EXCEPT ![o] = IF @ = "none" THEN "running" ELSE @]
                /\ Stepped(l, IF answered THEN [r EXCEPT !.phase = "bound", !.status = "running"]
                              ELSE Failed(r))
                /\ UNCHANGED <<host, doomed, output, supervisor>>

\* Only an observed end confirms a cancellation.
CancellationConfirmed(r, observed) == r.cancel /\ observed \in Ended

\* A poll ends the execution once the process has ended and its page reaches
\* the journal's end.
Complete(o, upto) == process[o] \in Ended /\ upto = output[o]

Outcome(observed) ==
    CASE observed = "exited" -> "completed" [] observed = "cancelled" -> "cancelled" [] OTHER -> "failed"

\* terminate when cancelled, then one poll of at most one page; a process the
\* host has never heard of is an error that is retried.
Poll(l, upto) ==
    LET r    == work[l]
        o    == r.op
        now  == IF r.cancel /\ process[o] = "running" THEN "stopping" ELSE process[o]
        page == [r EXCEPT !.phase = "bound", !.cursor = upto]
    IN  /\ lanePc[l] = "taken" /\ o \in Executions
        /\ r.phase = "bound" \/ (r.phase = "submitted" /\ r.cancel)
        /\ IF r.generation # supervisor
           THEN Stepped(l, Failed(Finished(r, "lost"))) /\ Untouched /\ upto = r.cursor
           ELSE IF process[o] = "none"
           THEN Stepped(l, Failed(r)) /\ Untouched /\ upto = r.cursor
           ELSE /\ upto \in r.cursor .. output[o]
                /\ r.cursor < output[o] => upto > r.cursor
                /\ process' = [process EXCEPT ![o] = now]
                /\ Stepped(l, IF Complete(o, upto)
                              THEN [page EXCEPT !.status = Outcome(process[o]), !.finished = TRUE,
                                                !.confirmed = CancellationConfirmed(r, process[o])]
                              ELSE [page EXCEPT !.status = "running"])
                /\ UNCHANGED <<host, doomed, output, supervisor>>

\* The terminate call takes effect and its reply is lost.
TerminateUnanswered(l) ==
    LET r == work[l] IN
    /\ lanePc[l] = "taken" /\ r.op \in Executions
    /\ r.cancel /\ r.phase \in {"submitted", "bound"}
    /\ r.generation = supervisor /\ process[r.op] = "running"
    /\ process' = [process EXCEPT ![r.op] = "stopping"]
    /\ Stepped(l, Failed(r))
    /\ UNCHANGED <<host, doomed, output, supervisor>>

-----------------------------------------------------------------------------
(* Time, and the hosts. *)

RetryElapses(o) ==
    /\ next[o] = "later"
    /\ next' = [next EXCEPT ![o] = "due"]
    /\ UNCHANGED <<status, phase, generation, cursor, cancel, confirmed, finished, holder, lease, epoch,
                   asking, overdue, laneVars, remoteVars>>

RemoteLeaseExpires(o) ==
    /\ lease[o] = "live"
    /\ lease' = [lease EXCEPT ![o] = "expired"]
    /\ UNCHANGED <<status, phase, generation, cursor, cancel, confirmed, finished, next, holder, epoch,
                   asking, overdue, laneVars, remoteVars>>

DeadlinePasses(o) ==
    /\ o \in Executions /\ status[o] # "absent"
    /\ overdue' = overdue \union {o}
    /\ UNCHANGED <<rowVars, asking, laneVars, remoteVars>>

\* An unrooted host is ready and does not expose the saved workspace root.  A
\* snapshot that completes late takes a delete request back (see GatewayHosts).
HostChanges(o) ==
    /\ host[o] \in {"provisioning", "ready", "unrooted", "unavailable"}
    /\ \/ \E s \in {"ready", "unrooted", "unavailable"} :
              o \notin doomed /\ host' = [host EXCEPT ![o] = s] /\ doomed' = doomed
       \/ host' = [host EXCEPT ![o] = "deleted"] /\ doomed' = doomed
       \/ o \in doomed /\ host' = [host EXCEPT ![o] = "unavailable"] /\ doomed' = doomed \ {o}
    /\ UNCHANGED <<rowVars, asking, overdue, laneVars, process, output, supervisor>>

ProcessWrites(o) ==
    /\ process[o] \in {"running", "stopping"}
    /\ output[o] < MaxOutput
    /\ output' = [output EXCEPT ![o] = @ + 1]
    /\ UNCHANGED <<rowVars, asking, overdue, laneVars, host, doomed, process, supervisor>>

\* An ordinary exit may win the race with a termination.
ProcessEnds(o) ==
    /\ process[o] \in {"running", "stopping"}
    /\ \E end \in {"exited", "failed"} \union (IF process[o] = "stopping" THEN {"cancelled"} ELSE {}) :
           process' = [process EXCEPT ![o] = end]
    /\ UNCHANGED <<rowVars, asking, overdue, laneVars, host, doomed, output, supervisor>>

\* A restart ends the host's processes, and their identity with them.
SupervisorRestarts ==
    /\ supervisor < MaxGeneration
    /\ supervisor' = supervisor + 1
    /\ process' = [o \in Executions |-> IF process[o] \in {"running", "stopping"} THEN "failed" ELSE process[o]]
    /\ UNCHANGED <<rowVars, asking, overdue, laneVars, host, doomed, output>>

-----------------------------------------------------------------------------

RemoteRequests ==
    \/ \E o \in Sandboxes : CreateSandbox(o) \/ AdoptSandbox(o)
    \/ \E o \in Executions : Bash(o)
    \/ \E o \in Ops : AskCancel(o) \/ RequestCancel(o)

RemoteStep(l) ==
    \/ SandboxSubmit(l) \/ SandboxAdvance(l)
    \/ CancelUnsent(l) \/ SubmitStart(l)
    \/ \E valid \in BOOLEAN : Prepare(l, valid)
    \/ \E answered \in BOOLEAN : StartProcess(l, answered)
    \/ \E upto \in 0 .. MaxOutput : Poll(l, upto)
    \/ CallFails(l) \/ TerminateUnanswered(l)

Lane(l) == (\E o \in Ops : Take(l, o)) \/ RemoteStep(l) \/ WriteBack(l) \/ RemoteCrash(l)

World ==
    \/ \E o \in Ops : RetryElapses(o) \/ RemoteLeaseExpires(o)
    \/ \E o \in Executions : DeadlinePasses(o) \/ ProcessWrites(o) \/ ProcessEnds(o)
    \/ \E o \in Sandboxes : HostChanges(o)
    \/ SupervisorRestarts

RemoteNext == RemoteRequests \/ (\E l \in Lanes : Lane(l)) \/ World

RemoteSpec == RemoteInit /\ [][RemoteNext]_remoteState

-----------------------------------------------------------------------------
(* Properties. *)

\* A sandbox that is reported terminated has no host left at the gateway, and
\* never gets one: neither a create_host whose reply was lost nor one that a
\* lane is about to send survives the termination (runner.rs:95-108, 171-175).
NoOrphanHost ==
    \A o \in Sandboxes : o \in finished => host[o] \in {"none", "deleted"}

\* A cancellation that is reported confirmed is true: the process is not running
\* and no start that is still under way will launch it (runner.rs:181-186,
\* 272-275).
ConfirmedMeansStopped ==
    \A o \in Executions : o \in confirmed => process[o] \in {"none"} \union Ended

\* An execution whose end was observed has saved every chunk its process wrote,
\* across pages, lost write-backs and lanes (runner.rs:252-275).
DrainedOutput ==
    \A o \in Executions :
        o \in finished /\ phase[o] = "bound" /\ status[o] # "lost" => cursor[o] = output[o]

\* A cancelled row that is not finished is due for another attempt some time:
\* "Explicit termination sets next_attempt_at back to the current time"
\* (migrations/20260910040000_persistent_sandboxes.sql:25-26).
CancelledIsScheduled ==
    \A o \in Ops : o \in cancel \ finished => next[o] # "never"

\* A lane that lost its row never changes it again: a finished row stays as it is,
\* only a late request may still mark it, and saved output never gives way to the
\* older copy of a lane that was overtaken (runner.rs:83-84).
SavedWorkIsKept ==
    /\ \A o \in finished :
            /\ o \in finished'
            /\ o \in confirmed' <=> o \in confirmed
            /\ UNCHANGED <<status[o], phase[o], cursor[o]>>
    /\ \A o \in Ops : cursor[o] <= cursor'[o]

\* Nothing takes a cancel request back: not the write-back of a copy that was
\* read before the request (runner.rs:83).
CancelIsSticky == cancel \subseteq cancel'

\* What a remote operation's row reports is true of the hosts and processes at
\* the gateway: a confirmed cancellation, a drained output, a terminated sandbox
\* (remote_operations/runner.rs).
RowsTellTheTruth == ConfirmedMeansStopped /\ DrainedOutput /\ NoOrphanHost

\* No lane undoes what another lane or a request has written (remote_operations/runner.rs).
NothingIsTakenBack == [][SavedWorkIsKept /\ CancelIsSticky]_remoteState
=============================================================================
