----------------------------- MODULE GatewayHosts -----------------------------
(***************************************************************************)
(* E2B hosts and snapshots of the execution gateway: the HTTP handlers     *)
(* that write what a client wants (http.rs, database.rs) and the           *)
(* reconcile tasks that make the provider follow (lifecycle.rs).           *)
(*                                                                         *)
(* A task claims an item under a five minute lease, reads it, calls the    *)
(* provider and records the result.  Only the claim looks at the lease:    *)
(* the record is guarded by the state the client wants, and most requests  *)
(* clear the lease, so several tasks may work on one item.                 *)
(*                                                                         *)
(* The provider (E2B) is external: it creates sandboxes and snapshot       *)
(* images under ids of its own, and a call may fail before or after its    *)
(* effect.                                                                 *)
(*                                                                         *)
(* Definitions under "Faulty variants" are not part of the specification.  *)
(***************************************************************************)
EXTENDS Naturals, FiniteSets

CONSTANTS
    Hosts,        \* E2B execution hosts
    Snapshots,    \* snapshots of hosts
    Tasks,        \* concurrent reconcile tasks and execution requests
    NoItem,       \* an idle task's item
    SlowTasks,    \* may a task outlive its lease?
    Patient,      \* do clients wait for an item to settle before their next request?
    MaxRequests,  \* bound: client requests
    MaxCrashes,   \* bound: tasks that are cut off
    MaxMade       \* bound: resources the provider makes for one item

ASSUME KindsAssumption == Hosts \intersect Snapshots = {} /\ NoItem \notin Hosts \union Snapshots
ASSUME FlagsAssumption == SlowTasks \in BOOLEAN /\ Patient \in BOOLEAN
ASSUME BoundsAssumption == MaxRequests \in Nat /\ MaxCrashes \in Nat /\ MaxMade \in Nat

Items == Hosts \union Snapshots

VARIABLES
    want,      \* desired_state, "absent" before the item is created
    seen,      \* observed_state
    due,       \* items whose reconcile_after is set
    leased,    \* items with an unexpired reconcile lease
    gone,      \* items with deleted_at
    bound,     \* e2b_sandbox_id or e2b_snapshot_id, 0 when null
    source,    \* the host a snapshot was taken of
    live,      \* the item's resources that exist at the provider
    made,      \* how many the provider has made for the item
    unheard,   \* resources whose id never reached the gateway
    pc,        \* a task's next step
    job,       \* what a task is doing
    requests,  \* client requests so far
    crashes    \* tasks cut off so far

itemVars == <<want, seen, due, leased, gone, bound, source>>
providerVars == <<live, made, unheard>>
taskVars == <<pc, job>>
vars == <<itemVars, providerVars, taskVars, requests, crashes>>

HostWants == {"ready", "paused", "deleted"}
HostStates == {"provisioning", "ready", "pausing", "paused", "resuming", "unavailable",
               "deleting", "deleted", "failed", "lost"}
SnapshotStates == {"creating", "ready", "deleting", "deleted", "failed"}
Transitional == {"provisioning", "pausing", "resuming", "creating", "deleting"}

\* A task's copy of the item (HostWork, SnapshotWork), the resource it works on,
\* and the failure it is about to record.
Idle == [item |-> NoItem, kind |-> "none", want |-> "ready", res |-> 0, fail |-> "none", retry |-> FALSE]
Jobs == [item : Items, kind : {"reconcile", "operation"}, want : HostWants, res : Nat,
         fail : {"none", "unavailable", "failed", "lost"}, retry : BOOLEAN]

\* Types, and the schema's states per kind.
TypeOK ==
    /\ want \in [Items -> HostWants \union {"absent"}]
    /\ \A s \in Snapshots : want[s] # "paused"
    /\ seen \in [Items -> HostStates \union SnapshotStates]
    /\ \A h \in Hosts : seen[h] \in HostStates
    /\ \A s \in Snapshots : seen[s] \in SnapshotStates
    /\ due \subseteq Items /\ leased \subseteq Items /\ gone \subseteq Items
    /\ bound \in [Items -> Nat]
    /\ source \in [Snapshots -> Hosts \union {NoItem}]
    /\ live \in [Items -> SUBSET Nat] /\ made \in [Items -> Nat] /\ unheard \in [Items -> SUBSET Nat]
    /\ pc \in [Tasks -> {"idle", "claimed", "create", "attach", "call", "record", "fail"}]
    /\ job \in [Tasks -> Jobs \union {Idle}]
    /\ \A t \in Tasks : pc[t] = "idle" <=> job[t] = Idle
    /\ \A t \in Tasks : pc[t] = "fail" => job[t].fail # "none"
    /\ requests \in Nat /\ crashes \in Nat

Init ==
    /\ want = [i \in Items |-> "absent"]
    /\ seen = [i \in Items |-> IF i \in Hosts THEN "provisioning" ELSE "creating"]
    /\ due = {} /\ leased = {} /\ gone = {}
    /\ bound = [i \in Items |-> 0]
    /\ source = [s \in Snapshots |-> NoItem]
    /\ live = [i \in Items |-> {}]
    /\ made = [i \in Items |-> 0]
    /\ unheard = [i \in Items |-> {}]
    /\ pc = [t \in Tasks |-> "idle"]
    /\ job = [t \in Tasks |-> Idle]
    /\ requests = 0 /\ crashes = 0

-----------------------------------------------------------------------------
(* Requests of clients. *)

Exists(i) == want[i] # "absent"
Working(i) == {t \in Tasks : job[t].item = i /\ job[t].kind = "reconcile"}
Settled(i) == seen[i] \notin Transitional /\ i \notin due /\ Working(i) = {}

\* A patient client waits for what it asked for, and for a host's snapshots.
May(i) ==
    /\ requests < MaxRequests
    /\ Patient => /\ \A t \in Tasks : job[t].item # i
                  /\ Exists(i) => Settled(i)
                  /\ \A s \in Snapshots : Exists(s) /\ (source[s] = i \/ s = i) => Settled(s)
    /\ requests' = requests + 1

CreateHost(h) ==
    /\ May(h)
    /\ ~Exists(h)
    /\ want' = [want EXCEPT ![h] = "ready"]
    /\ due' = due \union {h}
    /\ UNCHANGED <<seen, leased, gone, bound, source, providerVars, taskVars, crashes>>

\* request_host_state: the new wish is due at once, whoever holds the lease.
RequestHostState(h, desired, observed) ==
    /\ May(h)
    /\ Exists(h) /\ h \notin gone
    /\ want' = [want EXCEPT ![h] = desired]
    /\ seen' = [seen EXCEPT ![h] = observed]
    /\ due' = due \union {h}
    /\ leased' = leased \ {h}
    /\ UNCHANGED <<gone, bound, source, providerVars, taskVars, crashes>>

PauseHost(h) == RequestHostState(h, "paused", "pausing")
ResumeHost(h) == RequestHostState(h, "ready", "resuming")
DeleteHost(h) == seen[h] # "deleted" /\ RequestHostState(h, "deleted", "deleting")

RefreshHost(h) ==
    /\ May(h)
    /\ Exists(h) /\ h \notin gone
    /\ due' = due \union {h}
    /\ leased' = leased \ {h}
    /\ UNCHANGED <<want, seen, gone, bound, source, providerVars, taskVars, crashes>>

\* An operation on a paused host resumes it, unless a snapshot is being taken.
ResumeOnUse(h) ==
    /\ May(h)
    /\ want[h] = "paused" /\ seen[h] = "paused" /\ h \notin gone
    /\ \A s \in Snapshots : ~(source[s] = h /\ want[s] = "ready" /\ seen[s] = "creating")
    /\ want' = [want EXCEPT ![h] = "ready"]
    /\ seen' = [seen EXCEPT ![h] = "resuming"]
    /\ due' = due \union {h}
    /\ UNCHANGED <<leased, gone, bound, source, providerVars, taskVars, crashes>>

\* An operation on a ready host goes to its sandbox; no lease is taken.
StartOperation(t, h) ==
    /\ May(h)
    /\ pc[t] = "idle"
    /\ want[h] = "ready" /\ seen[h] = "ready" /\ h \notin gone /\ bound[h] # 0
    /\ pc' = [pc EXCEPT ![t] = "call"]
    /\ job' = [job EXCEPT ![t] = [Idle EXCEPT !.item = h, !.kind = "operation", !.res = bound[h]]]
    /\ UNCHANGED <<itemVars, providerVars, crashes>>

CreateSnapshot(s, h) ==
    /\ May(h)
    /\ ~Exists(s)
    /\ want[h] = "ready" /\ seen[h] = "ready" /\ h \notin gone
    /\ want' = [want EXCEPT ![s] = "ready"]
    /\ source' = [source EXCEPT ![s] = h]
    /\ due' = due \union {s}
    /\ UNCHANGED <<seen, leased, gone, bound, providerVars, taskVars, crashes>>

DeleteSnapshot(s) ==
    /\ May(s)
    /\ Exists(s) /\ s \notin gone /\ seen[s] # "deleted"
    /\ want' = [want EXCEPT ![s] = "deleted"]
    /\ seen' = [seen EXCEPT ![s] = "deleting"]
    /\ due' = due \union {s}
    /\ leased' = leased \ {s}
    /\ UNCHANGED <<gone, bound, source, providerVars, taskVars, crashes>>

-----------------------------------------------------------------------------
(* Reconcile tasks. *)

\* claim_hosts, claim_snapshots: the item stays due until a result is recorded.
Claim(t, i) ==
    /\ pc[t] = "idle"
    /\ i \in due \ leased
    /\ leased' = leased \union {i}
    /\ pc' = [pc EXCEPT ![t] = "claimed"]
    /\ job' = [job EXCEPT ![t] = [Idle EXCEPT !.item = i, !.kind = "reconcile"]]
    /\ UNCHANGED <<want, seen, due, gone, bound, source, providerVars, requests, crashes>>

\* The failures a step may end with.
Failure(state, retryable) == [state |-> state, retry |-> retryable]
Permanent == {Failure("failed", FALSE)}
Transient == {Failure("unavailable", TRUE), Failure("failed", FALSE)}
Missing == {Failure("lost", FALSE)}

Goto(t, step, j) ==
    /\ pc' = [pc EXCEPT ![t] = step]
    /\ job' = [job EXCEPT ![t] = j]
    /\ UNCHANGED <<itemVars, requests, crashes>>

Fails(t, outcomes) ==
    \E o \in outcomes : Goto(t, "fail", [job[t] EXCEPT !.fail = o.state, !.retry = o.retry])

\* e2b_host_work, snapshot_work, and what each wish calls for first.  A disabled
\* account or a credential that cannot be read is a permanent failure.
ReadWork(t) ==
    LET i     == job[t].item
        found == [job[t] EXCEPT !.want = want[i], !.res = bound[i]]
    IN  /\ pc[t] = "claimed"
        /\ \/ Goto(t, CASE want[i] = "deleted" -> (IF bound[i] = 0 THEN "record" ELSE "call")
                        [] want[i] # "deleted" /\ bound[i] = 0 -> "create"
                        [] OTHER -> IF i \in Hosts THEN "call" ELSE "record", found)
           \/ Goto(t, "fail", [found EXCEPT !.fail = "failed"])
        /\ UNCHANGED providerVars

\* A sandbox for a host, or an image of a snapshot's source sandbox.  Creation is
\* not retried: a lost reply is a permanent failure.
Create(t) ==
    LET i  == job[t].item
        id == made[i] + 1
        ok == i \in Snapshots => bound[source[i]] \in live[source[i]]
    IN  /\ pc[t] = "create"
        /\ \/ /\ ok /\ made[i] < MaxMade
              /\ made' = [made EXCEPT ![i] = id]
              /\ live' = [live EXCEPT ![i] = @ \union {id}]
              /\ \/ /\ unheard' = unheard
                    /\ Goto(t, IF i \in Hosts THEN "attach" ELSE "record", [job[t] EXCEPT !.res = id])
                 \/ /\ unheard' = [unheard EXCEPT ![i] = @ \union {id}]
                    /\ Fails(t, Permanent)
           \/ /\ Fails(t, IF i \in Hosts THEN Permanent ELSE Transient)
              /\ UNCHANGED providerVars

\* attach_provider_host: the first id stays; the task goes on with its own.
AttachTo(b, i, id) == IF b[i] = 0 THEN [b EXCEPT ![i] = id] ELSE b

Attach(t) ==
    /\ pc[t] = "attach"
    /\ bound' = AttachTo(bound, job[t].item, job[t].res)
    /\ pc' = [pc EXCEPT ![t] = "call"]
    /\ UNCHANGED <<want, seen, due, leased, gone, source, providerVars, job, requests, crashes>>

\* Faulty variant.
CallDeletesNothing(t) ==
    /\ pc[t] = "call" /\ Goto(t, "record", job[t]) /\ UNCHANGED providerVars

\* Describe, pause or delete the sandbox, or delete the image.  A missing
\* resource is already deleted.
Call(t) ==
    LET i == job[t].item
        r == job[t].res
    IN  /\ pc[t] = "call"
        /\ UNCHANGED <<made, unheard>>
        /\ IF job[t].want = "deleted"
           THEN /\ live' \in {live, [live EXCEPT ![i] = @ \ {r}]}
                /\ \/ r \notin live'[i] /\ Goto(t, "record", job[t])
                   \/ Fails(t, Transient)
           ELSE /\ live' = live
                /\ \/ r \in live[i] /\ Goto(t, "record", job[t])
                   \/ Fails(t, (IF job[t].want = "paused" THEN Permanent ELSE Transient)
                               \union (IF job[t].kind = "operation" THEN {Failure("unavailable", FALSE)} ELSE {})
                               \union Missing)

Done(t) ==
    /\ pc' = [pc EXCEPT ![t] = "idle"]
    /\ job' = [job EXCEPT ![t] = Idle]
    /\ UNCHANGED <<providerVars, requests, crashes>>

\* Faulty variant.
RegardlessOfWish(i, j) == TRUE

\* complete_host_*, complete_snapshot_*, fail_host: recorded only while the item
\* is still wanted as it was when the task read it.
StillWanted(i, j) == want[i] = j.want

CompletesStillDue(i, j) ==
    /\ seen' = [seen EXCEPT ![i] = j.want]
    /\ bound' = IF i \in Snapshots /\ j.want = "ready" THEN [bound EXCEPT ![i] = j.res] ELSE bound
    /\ gone' = IF j.want = "deleted" THEN gone \union {i} ELSE gone
    /\ due' = due \union {i} /\ leased' = leased \ {i}
    /\ UNCHANGED <<want, source>>

\* A new image pauses the source host, whatever is wanted of it.
Completes(i, j) ==
    LET h == IF i \in Snapshots /\ j.want = "ready" THEN source[i] ELSE NoItem
        p == {h} \ (gone \union {NoItem})
    IN  /\ seen' = [x \in Items |-> IF x = i THEN j.want ELSE IF x \in p THEN "paused" ELSE seen[x]]
        /\ want' = [x \in Items |-> IF x \in p THEN "paused" ELSE want[x]]
        /\ bound' = IF i \in Snapshots /\ j.want = "ready" THEN [bound EXCEPT ![i] = j.res] ELSE bound
        /\ gone' = IF j.want = "deleted" THEN gone \union {i} ELSE gone
        /\ due' = (due \ {i}) \ p
        /\ leased' = leased \ {i}
        /\ source' = source

Record(t) ==
    LET i == job[t].item IN
    /\ pc[t] = "record"
    /\ IF StillWanted(i, job[t]) THEN Completes(i, job[t]) ELSE UNCHANGED itemVars
    /\ Done(t)

\* fail_host is guarded by the wish; fail_snapshot is not.
RecordFailure(t) ==
    LET i == job[t].item IN
    /\ pc[t] = "fail"
    /\ IF i \in Hosts => StillWanted(i, job[t])
       THEN /\ seen' = [seen EXCEPT ![i] = IF i \in Hosts THEN job[t].fail ELSE "failed"]
            /\ due' = IF job[t].retry THEN due \union {i} ELSE due \ {i}
            /\ leased' = leased \ {i}
            /\ UNCHANGED <<want, gone, bound, source>>
       ELSE UNCHANGED itemVars
    /\ Done(t)

-----------------------------------------------------------------------------

\* The gateway stops, or a task is dropped; the lease runs out later.
Crash(t) ==
    /\ pc[t] # "idle"
    /\ crashes < MaxCrashes
    /\ crashes' = crashes + 1
    /\ unheard' = IF pc[t] = "attach" \/ (pc[t] = "record" /\ job[t].item \in Snapshots /\ job[t].want = "ready")
                  THEN [unheard EXCEPT ![job[t].item] = @ \union {job[t].res}] ELSE unheard
    /\ pc' = [pc EXCEPT ![t] = "idle"]
    /\ job' = [job EXCEPT ![t] = Idle]
    /\ UNCHANGED <<itemVars, live, made, requests>>

\* Faulty variant.
LeaseKept(i) == FALSE /\ UNCHANGED vars

LeaseExpires(i) ==
    /\ i \in leased
    /\ SlowTasks \/ Working(i) = {}
    /\ leased' = leased \ {i}
    /\ UNCHANGED <<want, seen, due, gone, bound, source, providerVars, taskVars, requests, crashes>>

Request ==
    \/ \E h \in Hosts : CreateHost(h) \/ PauseHost(h) \/ ResumeHost(h) \/ DeleteHost(h) \/ RefreshHost(h)
    \/ \E h \in Hosts : ResumeOnUse(h) \/ \E t \in Tasks : StartOperation(t, h)
    \/ \E s \in Snapshots : DeleteSnapshot(s) \/ \E h \in Hosts : CreateSnapshot(s, h)

Step(t) == ReadWork(t) \/ Create(t) \/ Attach(t) \/ Call(t) \/ Record(t) \/ RecordFailure(t)

Next ==
    \/ Request
    \/ \E t \in Tasks : Step(t) \/ Crash(t) \/ \E i \in Items : Claim(t, i)
    \/ \E i \in Items : LeaseExpires(i)

\* A task goes on until it has recorded a result, and time passes.  Every pass of
\* the reconciler takes all due items that are free then (up to sixteen of each
\* kind), so an item that is free again and again is taken.
Fairness ==
    /\ \A t \in Tasks : WF_vars(Step(t))
    /\ \A i \in Items : SF_vars(\E t \in Tasks : Claim(t, i)) /\ WF_vars(LeaseExpires(i))

Spec == Init /\ [][Next]_vars
FairSpec == Spec /\ Fairness

-----------------------------------------------------------------------------
(* Properties. *)

\* What was observed never contradicts what is wanted, however many tasks that
\* started under an older wish are still on their way (database.rs:934-1029,
\* 1255-1300: every late result is guarded).
ObservedAgreesWithDesired ==
    \A i \in Items :
        /\ seen[i] \in {"ready", "provisioning", "resuming", "creating"} => want[i] \in {"ready", "absent"}
        /\ seen[i] \in {"paused", "pausing"} => want[i] = "paused"
        /\ seen[i] \in {"deleting", "deleted"} => want[i] = "deleted"

\* Work that is under way in the database is due: a gateway that stops at any
\* point finds it again ("Recover pending lifecycle work after a gateway
\* restart", execution-gateway/README.md:19).
PendingWorkIsScheduled ==
    \A i \in Items : Exists(i) /\ seen[i] \in Transitional => i \in due

\* A snapshot that is reported ready can be used: its image exists at the
\* provider, though creations, deletions and retries of it overlap.
ReadySnapshotExists ==
    \A s \in Snapshots : Exists(s) /\ seen[s] = "ready" => bound[s] \in live[s]

\* With patient clients every sandbox or image at the provider is the item's own,
\* one a task has just made, or one whose id never reached the gateway: none is
\* forgotten (lifecycle.rs:203-260).
NothingIsForgotten ==
    \A i \in Items :
        /\ \A id \in live[i] :
               \/ id = bound[i] \/ id \in unheard[i]
               \/ \E t \in Tasks : job[t].item = i /\ job[t].res = id
        /\ i \in gone => bound[i] \notin live[i]

\* With patient clients a deleted item stays deleted (fail_host and fail_snapshot
\* do not look at deleted_at).
DeletedIsFinal == [][\A i \in gone : seen'[i] = "deleted"]_vars

\* "allowing multiple gateway replicas without performing the same lifecycle
\* action concurrently" (execution-gateway/README.md:242-244).
SameActionOnce ==
    \A t, u \in Tasks :
        t # u /\ job[t].kind = "reconcile" /\ job[u].kind = "reconcile" /\ job[t].item = job[u].item
              /\ pc[t] \in {"create", "call"} /\ pc[u] = pc[t] => job[t].want # job[u].want

\* "Deleted hosts and pauses/snapshots in progress are not automatically
\* overridden" (execution-gateway/README.md:206): only a client's own pause or
\* resume request takes a delete request back.
DeleteIsNotOverridden ==
    [][\A h \in Hosts :
          want[h] = "deleted" /\ want'[h] # "deleted" => seen'[h] \in {"pausing", "resuming"}]_vars

\* Under the reconciler's fairness pending work comes to an end.
PendingWorkSettles ==
    \A i \in Items : (Exists(i) /\ seen[i] \in Transitional) ~> (seen[i] \notin Transitional)

\* Whatever tasks and requests overlap, an item is observed in no state its wish
\* excludes, and an item on its way is due for the reconciler.
WishesArePursued == ObservedAgreesWithDesired /\ PendingWorkIsScheduled

\* Whatever requests and tasks overlap, a host or snapshot is observed in no
\* state its wish excludes, one on its way is due for the reconciler, and a
\* snapshot reported ready exists at the provider (lifecycle.rs, database.rs of
\* the execution gateway).
HostsAreAsReported == WishesArePursued /\ ReadySnapshotExists

\* With patient clients work comes to its end, and a deletion is one for good.
WorkEndsForGood == DeletedIsFinal /\ PendingWorkSettles
=============================================================================
