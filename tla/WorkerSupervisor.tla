-------------------------- MODULE WorkerSupervisor --------------------------
(***************************************************************************)
(* The worker process (platform/apps/worker/src/supervisor.rs) and the     *)
(* lease table it works against (platform/apps/server/src/runtime/         *)
(* workers.rs).  A supervisor keeps the runs it is executing in `active`,  *)
(* each with a local deadline, renews them by heartbeats, finds and claims *)
(* work by a chain of four requests ("allocation"), and must stop a local  *)
(* execution before the server may give the run to somebody else.          *)
(*                                                                         *)
(* Time is relative: a lease counts down to zero on the server, a deadline *)
(* counts down to zero at the worker, a request remembers how long ago it  *)
(* was started, and Tick moves all of them together.                       *)
(*                                                                         *)
(* A definition described as "without", "forgets" or the like is a faulty  *)
(* variant of its neighbour and not part of the specification; the README  *)
(* lists the property each of them violates.                               *)
(***************************************************************************)
EXTENDS Integers, FiniteSets, FiniteSetsExt, Functions

CONSTANTS
    Workers,     \* worker identities, each one process, modelled in full
    Contested,   \* runs that workers outside Workers compete for
    Runs,        \* runs of harnesses every worker supports
    LeaseTime,   \* LEASE_SECONDS (30 s), in ticks
    Margin,      \* what `deadline` takes off a lease (5 s), in ticks
    Capacity,    \* settings.capacity, the same for every worker
    MaxLeaseEpoch,    \* bound: how often one run is claimed
    MayAbort,    \* bound: runs somebody may ask to abort
    MayLeave,    \* bound: workers that may drain or crash
    MayDelay     \* bound: workers whose abandoned requests may arrive late

ASSUME LeaseAssumption ==
    /\ Margin \in Nat \ {0}
    /\ LeaseTime \in Nat
    /\ LeaseTime > Margin

ASSUME CapacityAssumption == Capacity \in Nat \ {0} /\ MaxLeaseEpoch \in Nat \ {0}

ASSUME OwnersAssumption == IsFiniteSet(Runs) /\ {"nobody", "rival"} \cap Workers = {}

VARIABLES
    lease,     \* the runs table
    status,    \* workers.status
    used,      \* worker_claim_requests: the claim keys already answered
    mode,      \* the process: up, draining, stopped, gone, failed or dead
    drain,     \* the drain notification: none, sent or done
    active,    \* the supervisor's `active` map
    tasks,     \* executions: the harness tasks not yet joined
    retired,   \* activations that must not start again
    hb,        \* the heartbeat in flight (heartbeat_busy)
    al,        \* the allocation in flight (allocation_busy)
    pending,   \* pending_claim
    late,      \* a request its sender has given up, still on its way
    released,  \* history: leases whose harness gave the run back
    begun      \* history: how often each lease was activated

vars == <<lease, status, used, mode, drain, active, tasks, retired, hb, al,
          pending, late, released, begun>>

server == <<lease, status, used>>

Epochs == 1..MaxLeaseEpoch
Leases == Runs \X Epochs
Keys == {1, 2}

\* A lease as the heartbeat reply describes it: with its abort flag.
Notice == [l : Leases, abort : BOOLEAN]

None == [st |-> "none"]
NoClaim == [key |-> 0, limit |-> 0]
Live == {w \in Workers : mode[w] \in {"up", "draining"}}

\* Counted from the reply, with no margin.
UntilFromReply(age) == LeaseTime

\* deadline(start, seconds): what is left of a lease renewed by a request
\* that was started `age` ago.  Counted from the start, before the server
\* can have renewed anything.
Until(age) == LeaseTime - Margin - age

-----------------------------------------------------------------------------
(* The server's transactions. *)

\* assignments(): the unexpired leases of worker w.
Listing(w) ==
    {<<r, lease[r].epoch>> : r \in {q \in Runs :
        lease[q].state = "running" /\ lease[q].owner = w /\ lease[q].ttl > 0}}

\* heartbeat(): renew what w still holds; everything else is lost.
Renew(w, leases) ==
    lease' = [r \in Runs |->
        IF <<r, lease[r].epoch>> \in leases \cap Listing(w)
        THEN [lease[r] EXCEPT !.ttl = LeaseTime]
        ELSE lease[r]]

Renewed(w, leases) ==
    {[l |-> l, abort |-> lease[l[1]].abort] : l \in leases \cap Listing(w)}

\* claim(): ready runs and runs whose lease has expired, whoever holds it.
Claimable ==
    {r \in Runs : /\ lease[r].epoch < MaxLeaseEpoch
                  /\ \/ lease[r].state = "ready"
                     \/ lease[r].state = "running" /\ lease[r].ttl = 0}

Take(w, limit) ==
    Min({Max({Capacity - Cardinality(Listing(w)), 0}), limit,
         Cardinality(Claimable)})

\* A key that was answered changes nothing again.
ClaimRuns(w, claim) ==
    IF claim.key \in used[w]
    THEN UNCHANGED <<lease, used>>
    ELSE /\ used' = [used EXCEPT ![w] = @ \cup {claim.key}]
         /\ \E S \in kSubset(Take(w, claim.limit), Claimable) :
               lease' = [r \in Runs |->
                   IF r \in S
                   THEN [lease[r] EXCEPT !.state = "running", !.owner = w,
                                         !.epoch = @ + 1, !.ttl = LeaseTime]
                   ELSE lease[r]]

\* The claim is refused: a new key from a worker that is not accepting.
RefusedClaim(w, claim) == claim.key \notin used[w] /\ status[w] # "accepting"

-----------------------------------------------------------------------------
(* The tail of the supervisor's loop, run after every event: local         *)
(* deadlines that have passed end their execution and retire the lease,    *)
(* and a supervisor that has just begun to drain says so.                  *)

Without(act, gone) == Restrict(act, DOMAIN act \ gone)

SettleTask(w, act, ret, drains) ==
    LET gone == {r \in DOMAIN act : act[r].left = 0} IN
    /\ active' = [active EXCEPT ![w] = Without(act, gone)]
    /\ retired' = [retired EXCEPT
                      ![w] = ret \cup {<<r, act[r].epoch>> : r \in gone}]
    /\ mode' = [mode EXCEPT ![w] = IF drains THEN "draining" ELSE @]
    /\ drain' = [drain EXCEPT
                    ![w] = IF drains /\ mode[w] = "up" THEN "sent" ELSE @]

\* The 100 ms tick: nothing but the tail.
Sweep(w) ==
    /\ w \in Live
    /\ \E r \in DOMAIN active[w] : active[w][r].left = 0
    /\ SettleTask(w, active[w], retired[w], FALSE)
    /\ UNCHANGED <<server, tasks, hb, al, pending, late, released, begun>>

-----------------------------------------------------------------------------
(* Requests that are given up.  The transport repeats a request a few      *)
(* times and then reports an error; the server may still execute it later. *)

GiveUp(w, request) ==
    late' \in {late} \cup IF w \in MayDelay /\ late[w] = None
                          THEN {[late EXCEPT ![w] = request]}
                          ELSE {}

LateHeartbeat(leases) == [st |-> "heartbeat", leases |-> leases]
LateClaim(claim) == [st |-> "claim", claim |-> claim]

ServeLateHeartbeat(w) ==
    /\ late[w].st = "heartbeat"
    /\ late' = [late EXCEPT ![w] = None]
    /\ IF status[w] = "offline" THEN UNCHANGED lease
                                ELSE Renew(w, late[w].leases)
    /\ UNCHANGED <<status, used, mode, drain, active, tasks, retired, hb, al,
                   pending, released, begun>>

ServeLateClaim(w) ==
    /\ late[w].st = "claim"
    /\ late' = [late EXCEPT ![w] = None]
    /\ IF RefusedClaim(w, late[w].claim) THEN UNCHANGED <<lease, used>>
                                    ELSE ClaimRuns(w, late[w].claim)
    /\ UNCHANGED <<status, mode, drain, active, tasks, retired, hb, al,
                   pending, released, begun>>

-----------------------------------------------------------------------------
(* Heartbeats. *)

ActiveLeases(w) == {<<r, active[w][r].epoch>> : r \in DOMAIN active[w]}

HeartbeatSend(w) ==
    /\ w \in Live
    /\ hb[w] = None
    /\ hb' = [hb EXCEPT ![w] = [st |-> "sent", age |-> 0,
                                leases |-> ActiveLeases(w), renewed |-> {}]]
    /\ UNCHANGED <<server, mode, drain, active, tasks, retired, al, pending,
                   late, released, begun>>

\* The reply may be lost, and then the transport asks again.
HeartbeatServe(w) ==
    /\ hb[w].st = "sent"
    /\ \/ /\ status[w] = "offline"
          /\ hb' = [hb EXCEPT ![w].st = "offline"]
          /\ UNCHANGED lease
       \/ /\ status[w] # "offline"
          /\ Renew(w, hb[w].leases)
          /\ \/ hb' = [hb EXCEPT ![w].st = "replied",
                                 ![w].renewed = Renewed(w, hb[w].leases)]
             \/ UNCHANGED hb
    /\ UNCHANGED <<status, used, mode, drain, active, tasks, retired, al,
                   pending, late, released, begun>>

\* An error: the local deadlines remain in force.
HeartbeatFails(w) ==
    /\ hb[w].st = "sent"
    /\ hb' = [hb EXCEPT ![w] = None]
    /\ GiveUp(w, LateHeartbeat(hb[w].leases))
    /\ SettleTask(w, active[w], retired[w], FALSE)
    /\ UNCHANGED <<server, tasks, al, pending, released, begun>>

\* Leaves the abort flag of the reply unread.
AfterHeartbeatNoAbort(w, r) ==
    LET a == active[w][r]
        l == <<r, a.epoch>> IN
    IF l \notin hb[w].leases THEN a
    ELSE IF ~\E n \in hb[w].renewed : n.l = l THEN [a EXCEPT !.left = 0]
    ELSE [a EXCEPT !.left = Max({@, Until(hb[w].age)})]

\* What a reply says of an active run: renewed, lost, or nothing because the
\* run was not asked about under this epoch.
AfterHeartbeat(w, r) ==
    LET a == active[w][r]
        l == <<r, a.epoch>>
        notes == {n \in hb[w].renewed : n.l = l} IN
    IF l \notin hb[w].leases THEN a
    ELSE IF notes = {} THEN [a EXCEPT !.left = 0]
    ELSE [a EXCEPT !.left = Max({@, Until(hb[w].age)}),
                   !.abort = @ \/ \E n \in notes : n.abort]

HeartbeatReply(w) ==
    /\ hb[w].st = "replied"
    /\ hb' = [hb EXCEPT ![w] = None]
    /\ SettleTask(w, [r \in DOMAIN active[w] |-> AfterHeartbeat(w, r)],
              retired[w], FALSE)
    /\ UNCHANGED <<server, tasks, al, pending, late, released, begun>>

-----------------------------------------------------------------------------
(* Allocation: assignments, claim, assignments again, and a heartbeat that *)
(* proves ownership before anything starts.                                *)

\* active.len() against settings.capacity.
Room(w) == Capacity - Cardinality(DOMAIN active[w])

\* A key nobody can still present stands for every fresh UUID.
FreshKey(w) ==
    CHOOSE k \in Keys : ~(late[w].st = "claim" /\ late[w].claim.key = k)

\* Renews every assignment, the retired ones too.
AllocationStartForgetful(w) ==
    /\ mode[w] = "up"
    /\ al[w] = None
    /\ LET key == FreshKey(w)
           room == Room(w) IN
       /\ IF pending[w] # NoClaim THEN UNCHANGED <<pending, used>>
          ELSE /\ pending' = [pending EXCEPT
                     ![w] = [key |-> key, limit |-> Max({room, 1})]]
               /\ used' = [used EXCEPT ![w] = @ \ {key}]
       /\ al' = [al EXCEPT ![w] =
                   [st |-> "list", age |-> 0, excluded |-> {},
                    can |-> room > 0, items |-> {}, accepting |-> TRUE,
                    renewed |-> {}]]
    /\ UNCHANGED <<lease, status, mode, drain, active, tasks, retired, hb,
                   late, released, begun>>

AllocationStart(w) ==
    /\ mode[w] = "up"
    /\ al[w] = None
    /\ LET key == FreshKey(w)
           room == Room(w) IN
       /\ IF pending[w] # NoClaim THEN UNCHANGED <<pending, used>>
          ELSE /\ pending' = [pending EXCEPT
                     ![w] = [key |-> key, limit |-> Max({room, 1})]]
               /\ used' = [used EXCEPT ![w] = @ \ {key}]
       /\ al' = [al EXCEPT ![w] =
                   [st |-> "list", age |-> 0, excluded |-> retired[w],
                    can |-> room > 0, items |-> {}, accepting |-> TRUE,
                    renewed |-> {}]]
    /\ UNCHANGED <<lease, status, mode, drain, active, tasks, retired, hb,
                   late, released, begun>>

Listed(w, st) == [al[w] EXCEPT !.st = st, !.items = Listing(w),
                               !.accepting = status[w] = "accepting"]

AllocationList(w) ==
    /\ al[w].st = "list"
    /\ al' = [al EXCEPT ![w] =
                 IF status[w] = "offline" THEN [@ EXCEPT !.st = "offline"]
                 ELSE IF al[w].can /\ status[w] = "accepting"
                 THEN [@ EXCEPT !.st = "claim"]
                 ELSE Listed(w, "renew")]
    /\ UNCHANGED <<server, mode, drain, active, tasks, retired, hb, pending,
                   late, released, begun>>

\* A refusal is an ordinary error: the claim keeps its key.
AllocationClaim(w) ==
    /\ al[w].st = "claim"
    /\ ~RefusedClaim(w, pending[w])
    /\ ClaimRuns(w, pending[w])
    /\ \/ al' = [al EXCEPT ![w].st = "list2"]
       \/ UNCHANGED al
    /\ UNCHANGED <<status, mode, drain, active, tasks, retired, hb, pending,
                   late, released, begun>>

AllocationList2(w) ==
    /\ al[w].st = "list2"
    /\ al' = [al EXCEPT ![w] = Listed(w, "renew")]
    /\ UNCHANGED <<server, mode, drain, active, tasks, retired, hb, pending,
                   late, released, begun>>

AllocationRenew(w) ==
    /\ al[w].st = "renew"
    /\ LET leases == al[w].items \ al[w].excluded IN
       \/ /\ status[w] = "offline"
          /\ al' = [al EXCEPT ![w].st = "offline"]
          /\ UNCHANGED lease
       \/ /\ status[w] # "offline"
          /\ Renew(w, leases)
          /\ \/ al' = [al EXCEPT ![w].st = "replied",
                                 ![w].renewed = Renewed(w, leases)]
             \/ UNCHANGED al
    /\ UNCHANGED <<status, used, mode, drain, active, tasks, retired, hb,
                   pending, late, released, begun>>

\* Any of the four requests fails: the claim identity is kept for a retry.
AllocationFails(w) ==
    /\ al[w].st \in {"list", "claim", "list2", "renew"}
    /\ al' = [al EXCEPT ![w] = None]
    /\ CASE al[w].st = "claim" -> GiveUp(w, LateClaim(pending[w]))
         [] al[w].st = "renew" ->
                GiveUp(w, LateHeartbeat(al[w].items \ al[w].excluded))
         [] OTHER -> UNCHANGED late
    /\ SettleTask(w, active[w], retired[w], FALSE)
    /\ UNCHANGED <<server, tasks, hb, pending, released, begun>>

\* The assignments a reply may start: not active, not retired, renewed by
\* the heartbeat of the same allocation, and not yet past the deadline.
Startable(w) ==
    {l \in al[w].items :
        /\ l[1] \notin DOMAIN active[w]
        /\ l \notin retired[w]
        /\ Until(al[w].age) > 0
        /\ \E n \in al[w].renewed : n.l = l}

AllocationReply(w) ==
    LET drains == mode[w] = "draining" \/ ~al[w].accepting
        many == IF drains THEN 0
                ELSE Min({Room(w), Cardinality(Startable(w))}) IN
    /\ al[w].st = "replied"
    /\ al' = [al EXCEPT ![w] = None]
    /\ pending' = [pending EXCEPT ![w] = NoClaim]
    /\ \E S \in kSubset(many, Startable(w)) :
         LET started == [r \in {l[1] : l \in S} |->
                 [epoch |-> (CHOOSE l \in S : l[1] = r)[2],
                  left |-> Until(al[w].age),
                  abort |-> \E n \in al[w].renewed : n.l[1] = r /\ n.abort]] IN
         /\ SettleTask(w, [r \in DOMAIN active[w] \cup DOMAIN started |->
                         IF r \in DOMAIN started THEN started[r]
                                                 ELSE active[w][r]],
                   retired[w] \cap al[w].items, drains)
         /\ tasks' = [tasks EXCEPT ![w] = @ \cup S]
         /\ begun' = [l \in Leases |->
                         IF l \in S THEN begun[l] + 1 ELSE begun[l]]
    /\ UNCHANGED <<server, hb, late, released>>

-----------------------------------------------------------------------------
(* Harness tasks. *)

\* A harness commits a ready or final disposition: only while it owns the
\* run (workers.rs `owned`).
Release(w, l) ==
    /\ l \in tasks[w] \cap Listing(w)
    /\ w \in Live
    /\ status[w] # "offline"
    /\ \E s \in {"ready", "done"} :
          lease' = [lease EXCEPT ![l[1]].state = s, ![l[1]].owner = "nobody",
                                 ![l[1]].ttl = 0]
    /\ released' = released \cup {l}
    /\ UNCHANGED <<status, used, mode, drain, active, tasks, retired, hb, al,
                   pending, late, begun>>

\* Forgets that this lease was already executed.
TaskEndsUnretired(w, l) ==
    /\ w \in Live
    /\ l \in tasks[w]
    /\ tasks' = [tasks EXCEPT ![w] = @ \ {l}]
    /\ SettleTask(w, IF l \in ActiveLeases(w) THEN Without(active[w], {l[1]})
                                          ELSE active[w],
              retired[w], FALSE)
    /\ UNCHANGED <<server, hb, al, pending, late, released, begun>>

\* A task has returned, panicked or been cancelled, and is joined.
TaskEnds(w, l) ==
    /\ w \in Live
    /\ l \in tasks[w]
    /\ tasks' = [tasks EXCEPT ![w] = @ \ {l}]
    /\ SettleTask(w, IF l \in ActiveLeases(w) THEN Without(active[w], {l[1]})
                                          ELSE active[w],
              retired[w] \cup {l}, FALSE)
    /\ UNCHANGED <<server, hb, al, pending, late, released, begun>>

-----------------------------------------------------------------------------
(* The end of a worker. *)

\* The stop signal.
BeginDrain(w) ==
    /\ w \in MayLeave
    /\ mode[w] = "up"
    /\ SettleTask(w, active[w], retired[w], TRUE)
    /\ UNCHANGED <<server, tasks, hb, al, pending, late, released, begun>>

\* The drain notification is answered or fails; it is not repeated.
DrainEnds(w) ==
    /\ drain[w] = "sent"
    /\ mode[w] = "draining"
    /\ drain' = [drain EXCEPT ![w] = "done"]
    /\ \/ /\ status[w] # "offline"
          /\ status' = [status EXCEPT ![w] = "draining"]
       \/ UNCHANGED status
    /\ UNCHANGED <<lease, used, mode, active, tasks, retired, hb, al, pending,
                   late, released, begun>>

\* active.clear(), network.abort_all() and joining every task.
Abandon(w, m) ==
    /\ mode' = [mode EXCEPT ![w] = m]
    /\ active' = [active EXCEPT ![w] = <<>>]
    /\ tasks' = [tasks EXCEPT ![w] = {}]
    /\ retired' = [retired EXCEPT ![w] = {}]
    /\ hb' = [hb EXCEPT ![w] = None]
    /\ al' = [al EXCEPT ![w] = None]
    /\ pending' = [pending EXCEPT ![w] = NoClaim]
    /\ CASE hb[w].st = "sent" -> GiveUp(w, LateHeartbeat(hb[w].leases))
         [] hb[w].st # "sent" /\ al[w].st = "claim" ->
                GiveUp(w, LateClaim(pending[w]))
         [] OTHER -> UNCHANGED late

\* Everything has drained, or the grace period is over.
Stop(w) ==
    /\ mode[w] = "draining"
    /\ Abandon(w, "stopped")
    /\ UNCHANGED <<server, drain, released, begun>>

\* The last request of a drained worker: refused while it holds a lease.
GoOffline(w) ==
    /\ mode[w] = "stopped"
    /\ mode' = [mode EXCEPT ![w] = "gone"]
    /\ \/ /\ Listing(w) = {}
          /\ status' = [status EXCEPT ![w] = "offline"]
       \/ UNCHANGED status
    /\ UNCHANGED <<lease, used, drain, active, tasks, retired, hb, al, pending,
                   late, released, begun>>

\* WorkerOffline from a heartbeat, an allocation or the work notification.
Fail(w) ==
    /\ w \in Live
    /\ \/ hb[w].st = "offline"
       \/ al[w].st = "offline"
       \/ /\ status[w] = "offline"
          /\ mode[w] = "up" /\ al[w] = None /\ pending[w] = NoClaim
          /\ Room(w) > 0
    /\ Abandon(w, "failed")
    /\ UNCHANGED <<server, drain, released, begun>>

Crash(w) ==
    /\ w \in MayLeave \cap Live
    /\ Abandon(w, "dead")
    /\ UNCHANGED <<server, drain, released, begun>>

\* Without the look at its leases.
ReconcileBusyWorker(w) ==
    /\ status[w] # "offline"
    /\ w \in MayLeave
    /\ status' = [status EXCEPT ![w] = "offline"]
    /\ UNCHANGED <<lease, used, mode, drain, active, tasks, retired, hb, al,
                   pending, late, released, begun>>

\* reconcile_workers: a worker not seen for two minutes that holds no lease.
ReconcileWorker(w) ==
    /\ status[w] # "offline"
    /\ w \in MayLeave
    /\ Listing(w) = {}
    /\ status' = [status EXCEPT ![w] = "offline"]
    /\ UNCHANGED <<lease, used, mode, drain, active, tasks, retired, hb, al,
                   pending, late, released, begun>>

-----------------------------------------------------------------------------

\* A run nobody has claimed yet ends at once; any other learns of it later.
AbortRequest(r) ==
    /\ r \in MayAbort
    /\ ~lease[r].abort
    /\ lease[r].state # "done"
    /\ lease' = [lease EXCEPT ![r].abort = TRUE,
                   ![r].state = IF lease[r].epoch = 0 THEN "done" ELSE @]
    /\ UNCHANGED <<status, used, mode, drain, active, tasks, retired, hb, al,
                   pending, late, released, begun>>

\* Other workers: they claim what is claimable, renew it, or give it back.
RivalClaim(r) ==
    /\ r \in Contested \cap Claimable
    /\ lease' = [lease EXCEPT ![r].state = "running", ![r].owner = "rival",
                              ![r].epoch = @ + 1, ![r].ttl = LeaseTime]
    /\ UNCHANGED <<status, used, mode, drain, active, tasks, retired, hb, al,
                   pending, late, released, begun>>

RivalActs(r) ==
    /\ lease[r].owner = "rival"
    /\ lease[r].ttl > 0
    /\ \/ lease' = [lease EXCEPT ![r].ttl = LeaseTime]
       \/ lease' = [lease EXCEPT ![r].state = "ready", ![r].owner = "nobody",
                                 ![r].ttl = 0]
    /\ UNCHANGED <<status, used, mode, drain, active, tasks, retired, hb, al,
                   pending, late, released, begun>>

Down(n) == IF n > 0 THEN n - 1 ELSE 0

\* A request older than any deadline it could grant does not age further.
Aged(request) ==
    IF request.st \in {"none", "offline"} THEN request
    ELSE [request EXCEPT !.age = Min({@ + 1, LeaseTime - Margin})]

\* Time passes.  The supervisor's 100 ms tick is short against a lease: no
\* live supervisor lets a deadline stand past the instant it is reached.
Tick ==
    /\ \A w \in Live : \A r \in DOMAIN active[w] : active[w][r].left > 0
    /\ lease' = [r \in Runs |-> [lease[r] EXCEPT !.ttl = Down(@)]]
    /\ active' = [w \in Workers |-> [r \in DOMAIN active[w] |->
                    [active[w][r] EXCEPT !.left = Down(@)]]]
    /\ hb' = [w \in Workers |-> Aged(hb[w])]
    /\ al' = [w \in Workers |-> Aged(al[w])]
    /\ UNCHANGED <<status, used, mode, drain, tasks, retired, pending, late,
                   released, begun>>

-----------------------------------------------------------------------------

Init ==
    /\ lease = [r \in Runs |-> [state |-> "ready", owner |-> "nobody",
                                epoch |-> 0, ttl |-> 0, abort |-> FALSE]]
    /\ status = [w \in Workers |-> "accepting"]
    /\ used = [w \in Workers |-> {}]
    /\ mode = [w \in Workers |-> "up"]
    /\ drain = [w \in Workers |-> "none"]
    /\ active = [w \in Workers |-> <<>>]
    /\ tasks = [w \in Workers |-> {}]
    /\ retired = [w \in Workers |-> {}]
    /\ hb = [w \in Workers |-> None]
    /\ al = [w \in Workers |-> None]
    /\ pending = [w \in Workers |-> NoClaim]
    /\ late = [w \in Workers |-> None]
    /\ released = {}
    /\ begun = [l \in Leases |-> 0]

Next ==
    \/ \E w \in Workers :
        \/ Sweep(w)
        \/ ServeLateHeartbeat(w)
        \/ ServeLateClaim(w)
        \/ HeartbeatSend(w)
        \/ HeartbeatServe(w)
        \/ HeartbeatFails(w)
        \/ HeartbeatReply(w)
        \/ AllocationStart(w)
        \/ AllocationList(w)
        \/ AllocationClaim(w)
        \/ AllocationList2(w)
        \/ AllocationRenew(w)
        \/ AllocationFails(w)
        \/ AllocationReply(w)
        \/ BeginDrain(w)
        \/ DrainEnds(w)
        \/ Stop(w)
        \/ GoOffline(w)
        \/ Fail(w)
        \/ Crash(w)
        \/ ReconcileWorker(w)
        \/ \E l \in Leases : Release(w, l) \/ TaskEnds(w, l)
    \/ \E r \in Runs : AbortRequest(r) \/ RivalClaim(r) \/ RivalActs(r)
    \/ Tick

Spec == Init /\ [][Next]_vars

\* Time goes on, the supervisor's loop runs, the transport ends every request
\* after a bounded number of attempts, and a heartbeat that is sent again and
\* again is answered now and then.  Nothing is assumed of harnesses, claims
\* or rivals.
Answered(w) == HeartbeatServe(w) /\ hb'[w].st = "replied"

Fairness ==
    /\ WF_vars(Tick)
    /\ \A w \in Workers :
        /\ WF_vars(Sweep(w))
        /\ WF_vars(HeartbeatSend(w))
        /\ SF_vars(Answered(w))
        /\ WF_vars(HeartbeatReply(w) \/ HeartbeatFails(w))
        /\ WF_vars(AllocationReply(w) \/ AllocationFails(w))

FairSpec == Spec /\ Fairness

-----------------------------------------------------------------------------
(* Properties. *)

\* The type of the state; no local deadline is ever further away than a lease
\* less its margin.
TypeOK ==
    /\ lease \in [Runs -> [state : {"ready", "running", "done"},
                           owner : Workers \cup {"nobody", "rival"},
                           epoch : 0..MaxLeaseEpoch, ttl : 0..LeaseTime,
                           abort : BOOLEAN]]
    /\ status \in [Workers -> {"accepting", "draining", "offline"}]
    /\ mode \in [Workers -> {"up", "draining", "stopped", "gone", "failed",
                             "dead"}]
    /\ drain \in [Workers -> {"none", "sent", "done"}]
    /\ \A w \in Workers :
        /\ DOMAIN active[w] \subseteq Runs
        /\ \A r \in DOMAIN active[w] :
              active[w][r] \in [epoch : Epochs, left : 0..LeaseTime - Margin,
                                abort : BOOLEAN]
        /\ tasks[w] \subseteq Leases
        /\ retired[w] \subseteq Leases
        /\ hb[w] # None /\ hb[w].st = "replied" => hb[w].renewed \subseteq Notice
        /\ pending[w] \in [key : {0} \cup Keys, limit : 0..Capacity]
        /\ used[w] \subseteq Keys
    /\ released \subseteq Leases

\* "Conservative monotonic deadlines cancel local execution on uncertain
\* ownership" (apps/worker/README.md): an execution the supervisor lets run
\* and that has not given the run back holds an unexpired lease, so no other
\* worker can have claimed the run, whatever requests were lost or late.
HeldWhileActive ==
    \A w \in Workers : \A l \in ActiveLeases(w) :
        l \in released \/ l \in Listing(w)

\* "prevents duplicate local (run, epoch) tasks": one lease is activated at
\* most once, however assignments, renewals and ends of tasks interleave.
NeverActivatedTwice == \A l \in Leases : begun[l] <= 1

\* What a worker executes it holds, although its heartbeats and claims are lost or
\* arrive after it gave them up: no execution outlives its lease, and none is begun
\* twice (supervisor.rs of the worker, workers.rs of the runtime).
LateRequestsAreHarmless == HeldWhileActive /\ NeverActivatedTwice

\* A worker that the server has taken offline executes nothing it has not
\* given back: going offline and being reconciled wait for its leases, and
\* the local deadline always comes before the lease's end.
OfflineIsIdle ==
    \A w \in Workers :
        status[w] = "offline" => ActiveLeases(w) \subseteq released

\* Only a harness's own end, an expired lease or the end of the worker stops
\* renewals: a lease whose activation is over runs out and the run becomes
\* claimable again, although the worker goes on polling and renewing.
AbandonedLeaseExpires ==
    \A w \in Workers : \A l \in Leases :
        (l \in Listing(w) /\ begun[l] > 0 /\ l \notin ActiveLeases(w))
            ~> l \notin Listing(w)

\* An abort request reaches the running harness by a heartbeat.
AbortIsSignalled ==
    \A w \in Workers : \A r \in Runs :
        (r \in DOMAIN active[w] /\ lease[r].abort)
            ~> (r \notin DOMAIN active[w] \/ active[w][r].abort)
=============================================================================
