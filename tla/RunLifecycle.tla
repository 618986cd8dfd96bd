---------------------------- MODULE RunLifecycle ----------------------------
(***************************************************************************)
(* The agent runtime of platform/apps/server/src/runtime: runs, the worker *)
(* leases that protect them, the inputs that reach them, the durable waits *)
(* they park on, and the reconciler.                                       *)
(*                                                                         *)
(* Every HTTP handler of the runtime is one PostgreSQL transaction that    *)
(* locks the rows it decides on (workers.rs:40-59), so every handler is    *)
(* one action.  What stays concurrent, and is modelled, is what crosses    *)
(* transactions: the view a worker loaded and commits against later, the   *)
(* lease that runs out in between, the reply that is lost, the reconciler  *)
(* and the other clients that act meanwhile.  Handlers that reject their   *)
(* request roll back, and replays of a saved receipt only read: both are   *)
(* stuttering steps.                                                       *)
(*                                                                         *)
(* Time is abstracted to what the code compares: a lease is "live" until   *)
(* LeaseExpires, a delayed run waits for DelayElapses, a worker is silent  *)
(* once 120 seconds have passed since last_seen_at.                        *)
(*                                                                         *)
(* Definitions under "Faulty variants" are not part of the specification.  *)
(* Each is what a neighbouring definition would be with a plausible bug;   *)
(* the README lists the property that each of them violates.               *)
(***************************************************************************)
EXTENDS Integers, Sequences, FiniteSets

CONSTANTS
    Workers,     \* worker identities (a restarted process takes a new one)
    NoWorker,    \* runs.worker_id is null
    Sessions,
    Runs,        \* identities of runs, created or not
    SessionOf,   \* the session a run belongs to (runs.session_id)
    CanRun,      \* the runs whose harness a worker supports
    Messages,    \* identities of the inputs clients and other runs send
    Waits,       \* identities of a run's durable waits
    Capacities,  \* the capacities a worker may have
    MaxEpoch,    \* bound: claims of one run
    MaxVersion   \* bound: a run at this version accepts no further commit

ASSUME NoWorkerAssumption == NoWorker \notin Workers
ASSUME SessionOfAssumption == SessionOf \in [Runs -> Sessions]
ASSUME CanRunAssumption == CanRun \in [Workers -> SUBSET Runs]
ASSUME RunsAssumption == IsFiniteSet(Runs)
ASSUME CapacitiesAssumption == Capacities \subseteq Nat \ {0}
ASSUME BoundsAssumption == MaxEpoch \in Nat /\ MaxVersion \in Nat

\* A run's inputs: the one it was created with, the abort request (at most one,
\* deduplication key 'runtime:abort') and the messages.
Inputs == {"initial", "abort"} \union Messages

VARIABLES
    workerStatus, \* workers.status, "absent" before registration
    capacity,     \* workers.capacity
    silent,       \* workers whose last_seen_at is more than 120 seconds ago
    archived,     \* sessions with archived_at
    history,      \* session_messages: which run appended, under which lease epoch
    status,       \* runs.status, "absent" before the run is created
    version,      \* runs.version
    epoch,        \* runs.lease_epoch
    owner,        \* runs.worker_id
    lease,        \* runs.lease_expires_at: none, in the future or in the past
    delayed,      \* queued runs whose available_at is in the future
    aborting,     \* runs with abort_requested_at
    checkpoint,   \* run_checkpoints.saved_by_lease_epoch, 0 without a checkpoint
    input,        \* run_inputs.status; "settled" is handled or rejected
    wait,         \* run_waits.status; "resolved" is satisfied or timed_out
    due,          \* waits whose dependencies are met or deadline has passed
    view          \* what each worker process knows of each run

workerVars == <<workerStatus, capacity, silent>>
sessionVars == <<archived, history>>
leaseVars == <<epoch, owner, lease>>
runVars == <<status, version, delayed, aborting>>
inboxVars == <<input, wait, due>>
vars == <<workerVars, sessionVars, leaseVars, runVars, inboxVars, checkpoint, view>>

Terminal == {"completed", "failed", "aborted"}
LiveStatus == {"ready", "running", "waiting"}

\* A worker's knowledge of a run: the lease epoch it was assigned, the run
\* version and session revision it last read, the resolved waits its context
\* showed, and those resolved inside its own commits (a commit's reply carries
\* the version after them but not the waits, commits.rs:297).
ViewType ==
    [epoch    : Nat,
     version  : Nat,
     revision : Nat,
     seen     : SUBSET Waits,
     own      : SUBSET Waits]

\* The CHECK constraints of table runs: exactly a running run has an owner, a
\* lease and an epoch; only a queued run is put off; an aborted run was asked to.
RowValid(r) ==
    /\ status[r] = "running" <=> owner[r] # NoWorker
    /\ status[r] = "running" <=> lease[r] # "none"
    /\ status[r] = "running" => epoch[r] > 0
    /\ r \in delayed => status[r] = "ready"
    /\ status[r] = "aborted" => r \in aborting

\* Types, and the table constraints the schema states row by row.
TypeOK ==
    /\ workerStatus \in [Workers -> {"absent", "accepting", "draining", "offline"}]
    /\ capacity \in [Workers -> Nat]
    /\ silent \subseteq Workers
    /\ archived \subseteq Sessions
    /\ history \in [Sessions -> Seq([run : Runs, epoch : Nat])]
    /\ status \in [Runs -> LiveStatus \union Terminal \union {"absent"}]
    /\ version \in [Runs -> Nat]
    /\ epoch \in [Runs -> Nat]
    /\ owner \in [Runs -> Workers \union {NoWorker}]
    /\ lease \in [Runs -> {"none", "live", "expired"}]
    /\ delayed \subseteq Runs
    /\ aborting \subseteq Runs
    /\ checkpoint \in [Runs -> Nat]
    /\ input \in [Runs -> [Inputs -> {"none", "pending", "settled"}]]
    /\ wait \in [Runs -> [Waits -> {"none", "pending", "resolved", "cancelled"}]]
    /\ due \in [Runs -> SUBSET Waits]
    /\ view \in [Workers -> [Runs -> ViewType]]
    /\ \A r \in Runs : RowValid(r)

NoView == [epoch |-> 0, version |-> 0, revision |-> 0, seen |-> {}, own |-> {}]

Init ==
    /\ workerStatus = [w \in Workers |-> "absent"]
    /\ capacity = [w \in Workers |-> 0]
    /\ silent = {}
    /\ archived = {}
    /\ history = [s \in Sessions |-> <<>>]
    /\ status = [r \in Runs |-> "absent"]
    /\ version = [r \in Runs |-> 0]
    /\ epoch = [r \in Runs |-> 0]
    /\ owner = [r \in Runs |-> NoWorker]
    /\ lease = [r \in Runs |-> "none"]
    /\ delayed = {}
    /\ aborting = {}
    /\ checkpoint = [r \in Runs |-> 0]
    /\ input = [r \in Runs |-> [i \in Inputs |-> "none"]]
    /\ wait = [r \in Runs |-> [k \in Waits |-> "none"]]
    /\ due = [r \in Runs |-> {}]
    /\ view = [w \in Workers |-> [r \in Runs |-> NoView]]

-----------------------------------------------------------------------------
(* Predicates and sets the handlers decide on. *)

Pending(r) == {i \in Inputs : input[r][i] = "pending"}
Open(r) == {k \in Waits : wait[r][k] = "pending"}
Resolved(r) == {k \in Waits : wait[r][k] = "resolved"}

\* The unexpired leases of a worker, whatever it has heard of them.
Leases(w) == {r \in Runs : owner[r] = w /\ lease[r] = "live"}

OwnedByAnyone(w, r) == lease[r] = "live" /\ view[w][r].epoch > 0
ClaimableWhileLeased(w) == {r \in CanRun[w] : status[r] \in {"ready", "running"} /\ r \notin delayed}
SpareIgnoringLeases(w) == capacity[w]
WakesIfParked(r) == status[r] = "waiting"
AcceptedWithPendingInput(r, goal, pending, log) ==
    /\ goal = "aborted" => r \in aborting
    /\ goal = "completed" => \E n \in DOMAIN log : log[n].run = r

Live(r) == status[r] \in LiveStatus

\* workers.rs `owned`: the caller's identity and epoch hold an unexpired lease.
Owned(w, r) ==
    /\ status[r] = "running"
    /\ owner[r] = w
    /\ epoch[r] = view[w][r].epoch
    /\ lease[r] = "live"
    /\ workerStatus[w] # "offline"

\* Runs a claim may take: due work, and running work whose lease ran out.
Claimable(w) ==
    {r \in CanRun[w] : \/ status[r] = "ready" /\ r \notin delayed
                       \/ status[r] = "running" /\ lease[r] = "expired"}

\* What a claim may add to a worker's leases; negative after its capacity shrank.
Spare(w) == capacity[w] - Cardinality(Leases(w))

\* mutations.rs `wake` changes the parked and the delayed runs.
Wakes(r) == status[r] = "waiting" \/ (status[r] = "ready" /\ r \in delayed)

\* The dispositions a commit is granted: an abort somebody asked for, and a
\* completion that leaves no input unread and has a final message of this run.
Accepted(r, goal, pending, log) ==
    /\ goal = "aborted" => r \in aborting
    /\ goal = "completed" => ~pending /\ \E n \in DOMAIN log : log[n].run = r

-----------------------------------------------------------------------------
(* Effects the handlers share. *)

\* Marks a set of waits or inputs.
Marked(f, S, mark) == [x \in DOMAIN f |-> IF x \in S THEN mark ELSE f[x]]

Wake(r) ==
    /\ status' = [status EXCEPT ![r] = IF Wakes(r) THEN "ready" ELSE @]
    /\ delayed' = IF Wakes(r) THEN delayed \ {r} ELSE delayed

\* Faulty variants.
VersionAfterResolveUnbumped(r, settled) == IF Wakes(r) THEN version[r] + 1 ELSE version[r]
ResolveUnwoken(r, settled) ==
    /\ wait' = [wait EXCEPT ![r] = Marked(@, settled, "resolved")]
    /\ due' = [due EXCEPT ![r] = @ \ settled]
    /\ UNCHANGED <<status, delayed>>

\* waits.rs `resolve` followed by `wake`: a parked or delayed run moves to the
\* next version when it wakes, an active one when waits settle under it.
VersionAfterResolve(r, settled) ==
    IF Wakes(r) \/ (status[r] = "running" /\ settled # {}) THEN version[r] + 1 ELSE version[r]

\* The waits in `settled` have resolved, and the run is woken.
Resolve(r, settled) ==
    /\ wait' = [wait EXCEPT ![r] = Marked(@, settled, "resolved")]
    /\ due' = [due EXCEPT ![r] = @ \ settled]
    /\ Wake(r)

\* A new input for a live run r (mutations.rs input, satisfy_inputs, resolve,
\* wake).  `matched` are the open waits whose last condition this input is.
Deliver(r, i, matched) ==
    LET settled == Open(r) \intersect (due[r] \union matched)
    IN  /\ Live(r)
        /\ input[r][i] = "none"
        /\ input' = [input EXCEPT ![r] = Marked(@, {i}, "pending")]
        /\ Resolve(r, settled)
        /\ version' = [version EXCEPT ![r] = VersionAfterResolve(r, settled)]
        /\ UNCHANGED aborting

\* mutations.rs `request_abort`, with `abort_unstarted`: a run no worker has
\* ever claimed ends at once and settles its inputs.
AbortUnstarted(r) ==
    /\ status[r] = "ready"
    /\ epoch[r] = 0
    /\ status' = [status EXCEPT ![r] = "aborted"]
    /\ delayed' = delayed \ {r}
    /\ version' = [version EXCEPT ![r] = IF r \in aborting THEN @ + 1 ELSE @ + 2]
    /\ input' = [input EXCEPT ![r] = Marked(@, Pending(r) \union {"abort"}, "settled")]
    /\ wait' = [wait EXCEPT ![r] = Marked(@, Open(r), "cancelled")]
    /\ due' = [due EXCEPT ![r] = {}]

\* Otherwise the first request leaves an input and wakes the run, and a
\* repeated one changes nothing.
AbortStarted(r) ==
    /\ Live(r)
    /\ ~(status[r] = "ready" /\ epoch[r] = 0)
    /\ r \notin aborting
    /\ input' = [input EXCEPT ![r] = Marked(@, {"abort"}, "pending")]
    /\ Wake(r)
    /\ version' = [version EXCEPT ![r] = IF Wakes(r) THEN @ + 2 ELSE @ + 1]
    /\ UNCHANGED <<wait, due>>

RequestAbort(r) ==
    /\ AbortUnstarted(r) \/ AbortStarted(r)
    /\ aborting' = aborting \union {r}

\* mutations.rs `start_with_parent`: one live run per session, and only while
\* the session is not archived.
Start(r) ==
    /\ status[r] = "absent"
    /\ SessionOf[r] \notin archived
    /\ \A q \in Runs : SessionOf[q] = SessionOf[r] => ~Live(q)
    /\ status' = [status EXCEPT ![r] = "ready"]
    /\ version' = [version EXCEPT ![r] = 1]
    /\ input' = [input EXCEPT ![r] = Marked(@, {"initial"}, "pending")]

-----------------------------------------------------------------------------
(* The application's requests. *)

StartRun(r) ==
    /\ Start(r)
    /\ UNCHANGED <<workerVars, sessionVars, leaseVars, delayed, aborting, wait, due, checkpoint, view>>

PatchSession(s) ==
    /\ archived' \in {archived \union {s}, archived \ {s}}
    /\ UNCHANGED <<workerVars, history, leaseVars, runVars, inboxVars, checkpoint, view>>

SubmitInput(r, i, matched) ==
    /\ Deliver(r, i, matched)
    /\ UNCHANGED <<workerVars, sessionVars, leaseVars, checkpoint, view>>

Abort(r) ==
    /\ RequestAbort(r)
    /\ UNCHANGED <<workerVars, sessionVars, leaseVars, checkpoint, view>>

-----------------------------------------------------------------------------
(* Workers: registration, capacity, leases. *)

\* A repeated PUT never resets status, capacity or leases.
RegisterWorker(w, c) ==
    /\ workerStatus[w] = "absent"
    /\ workerStatus' = [workerStatus EXCEPT ![w] = "accepting"]
    /\ capacity' = [capacity EXCEPT ![w] = c]
    /\ UNCHANGED <<silent, sessionVars, leaseVars, runVars, inboxVars, checkpoint, view>>

\* Offline is final, and needs every lease of the worker released or run out.
PatchWorker(w, goal, c) ==
    /\ workerStatus[w] # "absent"
    /\ workerStatus[w] = "offline" => goal = "offline"
    /\ goal = "offline" => Leases(w) = {}
    /\ workerStatus' = [workerStatus EXCEPT ![w] = goal]
    /\ capacity' = [capacity EXCEPT ![w] = c]
    /\ silent' = silent \ {w}
    /\ UNCHANGED <<sessionVars, leaseVars, runVars, inboxVars, checkpoint, view>>

\* Renewing an unexpired lease keeps it live, so only last_seen_at changes here;
\* LeaseExpires is the interval without a renewal.
Heartbeat(w) ==
    /\ workerStatus[w] \in {"accepting", "draining"}
    /\ silent' = silent \ {w}
    /\ UNCHANGED <<workerStatus, capacity, sessionVars, leaseVars, runVars, inboxVars, checkpoint, view>>

\* `taken` is any set of claimable runs: rows another transaction has locked
\* are skipped.  The reply, or a later look at the assignments, tells the
\* worker its epoch; the context is still to be loaded.
Claim(w, taken) ==
    /\ workerStatus[w] = "accepting"
    /\ taken \subseteq Claimable(w)
    /\ taken = {} \/ Cardinality(taken) <= Spare(w)
    /\ \A r \in taken : epoch[r] < MaxEpoch
    /\ silent' = silent \ {w}
    /\ status' = Marked(status, taken, "running")
    /\ owner' = Marked(owner, taken, w)
    /\ lease' = Marked(lease, taken, "live")
    /\ epoch' = [r \in Runs |-> IF r \in taken THEN epoch[r] + 1 ELSE epoch[r]]
    /\ version' = [r \in Runs |-> IF r \in taken THEN version[r] + 1 ELSE version[r]]
    /\ view' = [view EXCEPT ![w] =
                 [r \in Runs |->
                    IF r \in taken
                    THEN [epoch |-> epoch[r] + 1, version |-> 0, revision |-> 0, seen |-> {}, own |-> {}]
                    ELSE view[w][r]]]
    /\ UNCHANGED <<workerStatus, capacity, sessionVars, delayed, aborting, inboxVars, checkpoint>>

\* The owner reads the run, the session and its waits.
Context(w, r) ==
    /\ Owned(w, r)
    /\ view' = [view EXCEPT ![w] = [view[w] EXCEPT ![r] =
                 [epoch |-> view[w][r].epoch, version |-> version[r],
                  revision |-> Len(history[SessionOf[r]]), seen |-> Resolved(r), own |-> {}]]]
    /\ UNCHANGED <<workerVars, sessionVars, leaseVars, runVars, inboxVars, checkpoint>>

-----------------------------------------------------------------------------
(* commits.rs `commit`: one transaction for messages, input results,       *)
(* checkpoint, waits and the disposition of the run.  The harnesses save a *)
(* checkpoint with every commit (basic-codex-tools-harness/src/driver.rs   *)
(* `save`), and so does every commit here.                                 *)

\* Parking, and a delay, give way to input or a resolution that came first.
Outcome(goal, pending, settled) ==
    IF goal \in {"waiting", "later"} /\ (pending \/ settled # {}) THEN "ready" ELSE goal

\* Only a run that goes on running keeps its owner and its lease.
Release(r, outcome) ==
    IF outcome = "running" THEN UNCHANGED <<owner, lease>>
    ELSE owner' = [owner EXCEPT ![r] = NoWorker] /\ lease' = [lease EXCEPT ![r] = "none"]

\* appended: the commit carries messages.   acked: input results.
\* cancelled, opened: waits.   early: opened waits whose conditions already hold.
\* goal: the disposition, "later" for ready with available_at in the future.
\* answered: the reply reaches the worker.
Commit(w, r, appended, acked, cancelled, opened, early, goal, answered) ==
    LET s        == SessionOf[r]
        known    == view[w][r]
        log      == IF appended THEN Append(history[s], [run |-> r, epoch |-> known.epoch])
                    ELSE history[s]
        pending  == Pending(r) \ acked # {}
        held     == (Open(r) \ cancelled) \union opened
        settled  == held \intersect (due[r] \union early)
        outcome  == Outcome(goal, pending, settled)
        ends     == outcome \in Terminal
        next     == IF settled = {} THEN version[r] + 1 ELSE version[r] + 2
    IN  /\ Owned(w, r)
        /\ version[r] = known.version
        /\ Len(history[s]) = known.revision
        /\ version[r] < MaxVersion
        /\ acked \subseteq Pending(r)
        /\ cancelled \subseteq Open(r)
        /\ \A k \in opened : wait[r][k] = "none"
        /\ early \subseteq opened
        /\ Accepted(r, goal, pending, log)
        /\ outcome = "waiting" => held # {}
        /\ history' = [history EXCEPT ![s] = log]
        /\ input' = [input EXCEPT ![r] = Marked(@, acked, "settled")]
        /\ checkpoint' = [checkpoint EXCEPT ![r] = known.epoch]
        /\ wait' = [wait EXCEPT ![r] =
                      [k \in Waits |-> IF k \in settled THEN "resolved"
                                       ELSE IF k \in cancelled \/ (k \in held /\ ends) THEN "cancelled"
                                       ELSE IF k \in opened THEN "pending" ELSE @[k]]]
        /\ due' = [due EXCEPT ![r] = IF ends THEN {} ELSE @ \ (settled \union cancelled)]
        /\ status' = [status EXCEPT ![r] = IF outcome = "later" THEN "ready" ELSE outcome]
        /\ delayed' = IF outcome = "later" THEN delayed \union {r} ELSE delayed
        /\ version' = [version EXCEPT ![r] = next]
        /\ Release(r, outcome)
        /\ view' = IF answered
                   THEN [view EXCEPT ![w] = [view[w] EXCEPT ![r] =
                           [epoch |-> known.epoch, version |-> next, revision |-> Len(log),
                            seen |-> known.seen, own |-> known.own \union settled]]]
                   ELSE view
        /\ UNCHANGED <<workerVars, archived, epoch, aborting>>

-----------------------------------------------------------------------------
(* Coordination: the owner of a run acts on another one. *)

\* coordination.rs `child` and `follow_up`.
StartChild(w, r, q) ==
    /\ Owned(w, r)
    /\ Start(q)
    /\ UNCHANGED <<workerVars, sessionVars, leaseVars, delayed, aborting, wait, due, checkpoint, view>>

RunMessage(w, r, q, i, matched) ==
    /\ Owned(w, r)
    /\ Deliver(q, i, matched)
    /\ UNCHANGED <<workerVars, sessionVars, leaseVars, checkpoint, view>>

\* A terminal target is left alone.
AbortRequest(w, r, q) ==
    /\ Owned(w, r)
    /\ RequestAbort(q)
    /\ UNCHANGED <<workerVars, sessionVars, leaseVars, checkpoint, view>>

-----------------------------------------------------------------------------
(* The reconciler's passes (waits.rs), once a second on every server. *)

\* Faulty variants.
RequeueExpiredOfOffline(r) ==
    /\ status[r] = "running"
    /\ lease[r] = "expired"
    /\ workerStatus[owner[r]] = "offline"
    /\ status' = [status EXCEPT ![r] = "ready"]
    /\ version' = [version EXCEPT ![r] = @ + 1]
    /\ owner' = [owner EXCEPT ![r] = NoWorker]
    /\ lease' = [lease EXCEPT ![r] = "none"]
    /\ UNCHANGED <<workerVars, sessionVars, epoch, delayed, aborting, inboxVars, checkpoint, view>>
RetireWorkerWithLeases(w) ==
    /\ workerStatus[w] \in {"accepting", "draining"}
    /\ w \in silent
    /\ workerStatus' = [workerStatus EXCEPT ![w] = "offline"]
    /\ UNCHANGED <<capacity, silent, sessionVars, leaseVars, runVars, inboxVars, checkpoint, view>>

\* Its available_at is now, so the run is not delayed (it was not while running).
RequeueExpired(r) ==
    /\ status[r] = "running"
    /\ lease[r] = "expired"
    /\ status' = [status EXCEPT ![r] = "ready"]
    /\ version' = [version EXCEPT ![r] = @ + 1]
    /\ owner' = [owner EXCEPT ![r] = NoWorker]
    /\ lease' = [lease EXCEPT ![r] = "none"]
    /\ UNCHANGED <<workerVars, sessionVars, epoch, delayed, aborting, inboxVars, checkpoint, view>>

ResolveDue(r) ==
    LET settled == Open(r) \intersect due[r]
    IN  /\ Live(r)
        /\ settled # {}
        /\ Resolve(r, settled)
        /\ version' = [version EXCEPT ![r] = VersionAfterResolve(r, settled)]
        /\ UNCHANGED <<workerVars, sessionVars, leaseVars, aborting, input, checkpoint, view>>

RetireWorker(w) ==
    /\ workerStatus[w] \in {"accepting", "draining"}
    /\ w \in silent
    /\ Leases(w) = {}
    /\ workerStatus' = [workerStatus EXCEPT ![w] = "offline"]
    /\ UNCHANGED <<capacity, silent, sessionVars, leaseVars, runVars, inboxVars, checkpoint, view>>

-----------------------------------------------------------------------------
(* Time and the world outside. *)

\* 60 seconds without a renewal.
LeaseExpires(r) ==
    /\ lease[r] = "live"
    /\ lease' = [lease EXCEPT ![r] = "expired"]
    /\ UNCHANGED <<workerVars, sessionVars, epoch, owner, runVars, inboxVars, checkpoint, view>>

\* available_at of a delayed run is reached.
DelayElapses(r) ==
    /\ r \in delayed
    /\ delayed' = delayed \ {r}
    /\ UNCHANGED <<workerVars, sessionVars, leaseVars, status, version, aborting, inboxVars, checkpoint, view>>

\* A timer or deadline of a wait is reached, or a run it depends on ends.
ConditionMet(r, k) ==
    /\ k \in Open(r) \ due[r]
    /\ due' = [due EXCEPT ![r] = @ \union {k}]
    /\ UNCHANGED <<workerVars, sessionVars, leaseVars, runVars, input, wait, checkpoint, view>>

\* 120 seconds without a word from the worker.
WorkerSilent(w) ==
    /\ workerStatus[w] \in {"accepting", "draining"}
    /\ silent' = silent \union {w}
    /\ UNCHANGED <<workerStatus, capacity, sessionVars, leaseVars, runVars, inboxVars, checkpoint, view>>

-----------------------------------------------------------------------------

Application ==
    \/ \E r \in Runs : StartRun(r) \/ Abort(r)
    \/ \E s \in Sessions : PatchSession(s)
    \/ \E r \in Runs, i \in Messages : \E matched \in SUBSET Open(r) : SubmitInput(r, i, matched)

WorkerLifecycle ==
    \/ \E w \in Workers, c \in Capacities : RegisterWorker(w, c)
    \/ \E w \in Workers, goal \in {"accepting", "draining", "offline"}, c \in Capacities :
           PatchWorker(w, goal, c)
    \/ \E w \in Workers : Heartbeat(w)
    \/ \E w \in Workers : \E taken \in SUBSET Claimable(w) : Claim(w, taken)

CommitSome(w, r) ==
    \E appended, answered \in BOOLEAN, acked \in SUBSET Pending(r), cancelled \in SUBSET Open(r),
       opened \in SUBSET {k \in Waits : wait[r][k] = "none"},
       goal \in LiveStatus \union {"later"} \union Terminal :
        \E early \in SUBSET opened :
            Commit(w, r, appended, acked, cancelled, opened, early, goal, answered)

RunRequest(w, r) ==
    \/ Context(w, r)
    \/ /\ Owned(w, r) /\ version[r] = view[w][r].version /\ version[r] < MaxVersion
       /\ CommitSome(w, r)
    \/ \E q \in Runs : StartChild(w, r, q) \/ AbortRequest(w, r, q)
    \/ \E q \in Runs, i \in Messages : \E matched \in SUBSET Open(q) :
           RunMessage(w, r, q, i, matched)

Reconciler ==
    \/ \E r \in Runs : RequeueExpired(r) \/ ResolveDue(r)
    \/ \E w \in Workers : RetireWorker(w)

Time ==
    \/ \E r \in Runs : LeaseExpires(r) \/ DelayElapses(r)
    \/ \E r \in Runs, k \in Waits : ConditionMet(r, k)
    \/ \E w \in Workers : WorkerSilent(w)

Next ==
    \/ Application
    \/ WorkerLifecycle
    \/ \E w \in Workers, r \in Runs : RunRequest(w, r)
    \/ Reconciler
    \/ Time

Spec == Init /\ [][Next]_vars

\* Every server runs the reconciler each second and waits for no one, and each
\* of its passes retries what it found locked; time passes.
Fairness ==
    /\ \A r \in Runs : WF_vars(RequeueExpired(r)) /\ WF_vars(ResolveDue(r))
    /\ \A w \in Workers : WF_vars(RetireWorker(w))
    /\ \A r \in Runs : WF_vars(LeaseExpires(r))

FairSpec == Spec /\ Fairness

-----------------------------------------------------------------------------
(* Safety. *)

\* A parked run, or one put off to a later time, has no input it has not
\* settled: an input that arrives before, during or after the commit that parks
\* the run always leaves it due (commits.rs:229-261, mutations.rs:184-190).
NoLostWakeUp ==
    \A r \in Runs : status[r] = "waiting" \/ r \in delayed => Pending(r) = {}

\* A parked run has an open wait that can wake it, and an ended run has none;
\* no order of resolving, cancelling and parking leaves a run parked on nothing
\* (commits.rs:247-265, waits.rs:73-89).
ParkedOnOpenWait ==
    \A r \in Runs :
        /\ status[r] = "waiting" => Open(r) # {}
        /\ status[r] \in Terminal => Open(r) = {}

\* A run that completed left no input unread (commits.rs:238-243), and a run
\* aborted before any worker claimed it settled every input it had been sent
\* (mutations.rs:111-118).
EndedRunsSettleInputs ==
    \A r \in Runs :
        status[r] = "completed" \/ (status[r] = "aborted" /\ epoch[r] = 0) => Pending(r) = {}

\* A worker that is offline, by its own request (workers.rs:192-200) or because
\* it fell silent (waits.rs:154-161), holds no unexpired lease, so nothing keeps
\* its runs from being taken over.
OfflineHoldsNoLease ==
    \A w \in Workers : workerStatus[w] = "offline" => Leases(w) = {}

\* Whatever the interleaving of application, parent and child requests, a session
\* has at most one live run (mutations.rs:150-156).
OneLiveRunPerSession ==
    \A r, q \in Runs : Live(r) /\ Live(q) /\ SessionOf[r] = SessionOf[q] => r = q

\* Fencing (workers.rs:60-70): in a session's history the entries of a run are
\* ordered by lease epoch and none is newer than the run's own epoch, and so is
\* its checkpoint.  A worker that lost its lease and does not know it never
\* writes after the worker that took over.
FencedWrites ==
    /\ \A s \in Sessions : \A m, n \in DOMAIN history[s] :
        /\ m < n /\ history[s][m].run = history[s][n].run
              => history[s][m].epoch <= history[s][n].epoch
        /\ history[s][m].epoch <= checkpoint[history[s][m].run]
    /\ \A r \in Runs : checkpoint[r] <= epoch[r]

-----------------------------------------------------------------------------
(* What a step may never do. *)

\* A worker parks a run only after it observed, in the context it loaded, every
\* wait that something other than its own commits resolved (waits.rs:74-80).
NoStalePark ==
    [][\A r \in Runs :
          status[r] = "running" /\ status'[r] = "waiting" =>
              Resolved(r) \subseteq view[owner[r]][r].seen \union view[owner[r]][r].own]_vars

\* The claim of docs/worker-runtime-api.md:239-241 and waits.rs:74-75 in full: a
\* worker parks a run only after its context showed it every resolved wait, its
\* own commits' resolutions included.
ParkObservesEveryResolution ==
    [][\A r \in Runs :
          status[r] = "running" /\ status'[r] = "waiting" =>
              Resolved(r) \subseteq view[owner[r]][r].seen]_vars

\* A run changes hands only when nobody holds it: the lease was released or ran
\* out, and the epoch moves with the owner and by one (workers.rs:306-313).
TakeOver ==
    [][\A r \in Runs :
          /\ epoch'[r] # epoch[r] =>
                lease[r] # "live" /\ lease'[r] = "live" /\ epoch'[r] = epoch[r] + 1
          /\ owner'[r] \notin {owner[r], NoWorker} => epoch'[r] # epoch[r]]_vars

\* No step gives a worker more unexpired leases than the capacity it has then
\* (workers.rs:297-305).
CapacityRespected ==
    [][\A w \in Workers :
          Cardinality(Leases(w)') > Cardinality(Leases(w)) =>
              Cardinality(Leases(w)') <= capacity[w]]_vars

\* An ended run stays as it is, and so do its inputs, waits and checkpoint: no
\* late delivery, reconciler pass or stale commit reopens it (model.rs:179-189).
EndedRunsAreFinal ==
    [][\A r \in Runs : status[r] \in Terminal =>
          /\ status'[r] = status[r]
          /\ version'[r] = version[r]
          /\ input'[r] = input[r]
          /\ wait'[r] = wait[r]
          /\ checkpoint'[r] = checkpoint[r]]_vars

-----------------------------------------------------------------------------
(* Liveness, under FairSpec. *)

\* A lease that ran out is not the end of the run: it is queued again or taken
\* over, even while its old worker still heartbeats (waits.rs:102-125).
ExpiredLeaseIsReleased ==
    \A r \in Runs : lease[r] = "expired" ~> lease[r] # "expired"

\* A parked run wakes once one of its waits is due, without any notification
\* (waits.rs:126-153).
DueWaitWakes ==
    \A r \in Runs : status[r] = "waiting" /\ due[r] # {} ~> status[r] # "waiting"
-----------------------------------------------------------------------------
(* The properties together. *)

\* No order of parking, waking, sending and ending leaves a run asleep with work to do,
\* asleep on nothing, or ended with inputs it never settled (commits.rs:229-265,
\* mutations.rs:111-190, waits.rs:73-89).
WakeUpsAreKept == ParkedOnOpenWait /\ NoLostWakeUp /\ EndedRunsSettleInputs

\* A session has one live run, a run one lease, and what was written under an older
\* lease never follows what was written under a newer one (workers.rs:60-70, 192-200,
\* mutations.rs:150-156).
LeasesAreExclusive == FencedWrites /\ OfflineHoldsNoLease /\ OneLiveRunPerSession

\* A run changes hands only when nobody holds it, and never after it ended
\* (workers.rs:306-313, model.rs:179-189).
HandOversAreInTurn == TakeOver /\ EndedRunsAreFinal

\* A lease that ran out is released and a wait that is due wakes its run
\* (waits.rs:102-153).
RunsMoveOn == ExpiredLeaseIsReleased /\ DueWaitWakes
=============================================================================
