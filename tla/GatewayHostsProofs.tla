-------------------------- MODULE GatewayHostsProofs --------------------------
(***************************************************************************)
(* Proofs about the hosts of the execution gateway, at both of its ends.   *)
(* GatewayHosts, for any number of hosts, snapshots and tasks, and whether *)
(* or not tasks outlive their leases.  RemoteOperations, the rows of the   *)
(* runtime that create and use such hosts, for any number of rows and      *)
(* lanes and any bounds: what a row reports is true, and no lane undoes    *)
(* another's work.                                                         *)
(***************************************************************************)
EXTENDS GatewayHosts, RemoteOperations, TLAPS

\* The inductive invariant.  Both halves need the types only: every update of a
\* row writes the observed state together with the wish, or under a guard on it.
Rows == TypeOK /\ ObservedAgreesWithDesired /\ PendingWorkIsScheduled

LEMMA IdleIsNoJob == Idle \notin Jobs
<1>. QED BY KindsAssumption DEF Idle, Jobs, Items

LEMMA InitRows == Init => Rows
<1>. SUFFICES ASSUME Init PROVE Rows
  OBVIOUS
<1>1. TypeOK
  BY IdleIsNoJob, KindsAssumption DEF Init, TypeOK, Items, HostWants, HostStates, SnapshotStates
<1>2. ObservedAgreesWithDesired
  BY DEF Init, ObservedAgreesWithDesired
<1>3. PendingWorkIsScheduled
  BY DEF Init, PendingWorkIsScheduled, Exists
<1>. QED BY <1>1, <1>2, <1>3 DEF Rows

\* Requests.
LEMMA CreateHostRows ==
  ASSUME NEW h \in Hosts, Rows, CreateHost(h) PROVE Rows'
<1>. USE DEF Rows, CreateHost, May, Exists, itemVars, providerVars, taskVars
<1>1. TypeOK'
  BY DEF TypeOK, Items, HostWants
<1>2. ObservedAgreesWithDesired'
  BY DEF TypeOK, ObservedAgreesWithDesired, Items
<1>3. PendingWorkIsScheduled'
  BY DEF TypeOK, PendingWorkIsScheduled, Items
<1>. QED BY <1>1, <1>2, <1>3

LEMMA RequestHostStateRows ==
  ASSUME NEW h \in Hosts, Rows, NEW d, NEW o, RequestHostState(h, d, o),
         <<d, o>> \in {<<"paused", "pausing">>, <<"ready", "resuming">>, <<"deleted", "deleting">>}
  PROVE  Rows'
<1>. USE DEF Rows, RequestHostState, May, Exists, itemVars, providerVars, taskVars
<1>0. d \in HostWants /\ o \in HostStates /\ o # "absent"
  BY DEF HostWants, HostStates
<1>1. TypeOK'
  BY <1>0, KindsAssumption DEF TypeOK, Items
<1>2. ObservedAgreesWithDesired'
  BY DEF TypeOK, ObservedAgreesWithDesired, Items
<1>3. PendingWorkIsScheduled'
  BY DEF TypeOK, PendingWorkIsScheduled, Items
<1>. QED BY <1>1, <1>2, <1>3

LEMMA RefreshHostRows ==
  ASSUME NEW h \in Hosts, Rows, RefreshHost(h) PROVE Rows'
<1>. QED BY DEF Rows, RefreshHost, May, Exists, itemVars, providerVars, taskVars, TypeOK,
                ObservedAgreesWithDesired, PendingWorkIsScheduled, Items

LEMMA ResumeOnUseRows ==
  ASSUME NEW h \in Hosts, Rows, ResumeOnUse(h) PROVE Rows'
<1>. USE DEF Rows, ResumeOnUse, May, Exists, itemVars, providerVars, taskVars
<1>1. TypeOK'
  BY KindsAssumption DEF TypeOK, Items, HostWants, HostStates
<1>2. ObservedAgreesWithDesired'
  BY DEF TypeOK, ObservedAgreesWithDesired, Items
<1>3. PendingWorkIsScheduled'
  BY DEF TypeOK, PendingWorkIsScheduled, Items
<1>. QED BY <1>1, <1>2, <1>3

LEMMA CreateSnapshotRows ==
  ASSUME NEW s \in Snapshots, NEW h \in Hosts, Rows, CreateSnapshot(s, h) PROVE Rows'
<1>. USE DEF Rows, CreateSnapshot, May, Exists, itemVars, providerVars, taskVars
<1>1. TypeOK'
  BY KindsAssumption DEF TypeOK, Items, HostWants
<1>2. ObservedAgreesWithDesired'
  BY DEF TypeOK, ObservedAgreesWithDesired, Items
<1>3. PendingWorkIsScheduled'
  BY DEF TypeOK, PendingWorkIsScheduled, Items
<1>. QED BY <1>1, <1>2, <1>3

LEMMA DeleteSnapshotRows ==
  ASSUME NEW s \in Snapshots, Rows, DeleteSnapshot(s) PROVE Rows'
<1>. USE DEF Rows, DeleteSnapshot, May, Exists, itemVars, providerVars, taskVars
<1>1. TypeOK'
  BY KindsAssumption DEF TypeOK, Items, HostWants, SnapshotStates
<1>2. ObservedAgreesWithDesired'
  BY DEF TypeOK, ObservedAgreesWithDesired, Items
<1>3. PendingWorkIsScheduled'
  BY DEF TypeOK, PendingWorkIsScheduled, Items
<1>. QED BY <1>1, <1>2, <1>3


\* What the steps of a task leave behind.
Typed ==
    /\ pc \in [Tasks -> {"idle", "claimed", "create", "attach", "call", "record", "fail"}]
    /\ job \in [Tasks -> Jobs \union {Idle}]
    /\ \A t \in Tasks : pc[t] = "idle" <=> job[t] = Idle
    /\ \A t \in Tasks : pc[t] = "fail" => job[t].fail # "none"

LEMMA BusyTask ==
  ASSUME TypeOK, NEW t \in Tasks, pc[t] # "idle"
  PROVE  job[t] \in Jobs
<1>. QED BY DEF TypeOK

LEMMA TaskTypes ==
  ASSUME TypeOK, NEW t \in Tasks, NEW step, NEW j, Goto(t, step, j),
         j \in Jobs, step \in {"claimed", "create", "attach", "call", "record"} \/ (step = "fail" /\ j.fail # "none")
  PROVE  Typed' /\ UNCHANGED <<itemVars, requests, crashes>>
<1>. QED BY IdleIsNoJob DEF TypeOK, Goto, Typed

Failures == [state : {"unavailable", "failed", "lost"}, retry : BOOLEAN]

LEMMA FailureTypes ==
  ASSUME NEW s \in {"unavailable", "failed", "lost"}, NEW r \in BOOLEAN
  PROVE  Failure(s, r) \in Failures
<1>. QED BY DEF Failure, Failures

LEMMA OutcomeTypes ==
  /\ Permanent \subseteq Failures /\ Transient \subseteq Failures /\ Missing \subseteq Failures
  /\ {Failure("unavailable", FALSE)} \subseteq Failures
<1>1. Failure("failed", FALSE) \in Failures
  BY FailureTypes
<1>2. Failure("unavailable", TRUE) \in Failures
  BY FailureTypes
<1>3. Failure("lost", FALSE) \in Failures
  BY FailureTypes
<1>4. Failure("unavailable", FALSE) \in Failures
  BY FailureTypes
<1>. QED BY <1>1, <1>2, <1>3, <1>4 DEF Permanent, Transient, Missing

LEMMA FailTypes ==
  ASSUME TypeOK, NEW t \in Tasks, pc[t] # "idle", NEW outcomes, Fails(t, outcomes),
         outcomes \subseteq Failures
  PROVE  Typed' /\ UNCHANGED <<itemVars, requests, crashes>>
<1>1. PICK o \in outcomes : Goto(t, "fail", [job[t] EXCEPT !.fail = o.state, !.retry = o.retry])
  BY DEF Fails
<1>2. job[t] \in Jobs
  BY BusyTask
<1>3. /\ [job[t] EXCEPT !.fail = o.state, !.retry = o.retry] \in Jobs
      /\ [job[t] EXCEPT !.fail = o.state, !.retry = o.retry].fail # "none"
  BY <1>2 DEF Jobs, Failures
<1>. QED BY <1>1, <1>3, TaskTypes

\* A step that leaves the rows alone preserves the invariant if it is well typed.
LEMMA RowsKept ==
  ASSUME Rows, UNCHANGED itemVars, Typed',
         live' \in [Items -> SUBSET Nat], made' \in [Items -> Nat], unheard' \in [Items -> SUBSET Nat],
         requests' \in Nat, crashes' \in Nat
  PROVE  Rows'
<1>. QED BY DEF Rows, itemVars, Typed, TypeOK, ObservedAgreesWithDesired, PendingWorkIsScheduled, Exists

LEMMA StartOperationRows ==
  ASSUME NEW t \in Tasks, NEW h \in Hosts, Rows, StartOperation(t, h) PROVE Rows'
<1>. DEFINE j == [Idle EXCEPT !.item = h, !.kind = "operation", !.res = bound[h]]
<1>1. j \in Jobs
  BY DEF Rows, TypeOK, Items, Idle, Jobs, HostWants
<1>2. Typed'
  BY <1>1, IdleIsNoJob DEF Rows, TypeOK, StartOperation, Typed
<1>3. UNCHANGED <<itemVars, providerVars, crashes>> /\ requests' \in Nat
  BY DEF Rows, TypeOK, StartOperation, May
<1>. QED BY <1>2, <1>3, RowsKept DEF Rows, TypeOK, providerVars

LEMMA ClaimRows ==
  ASSUME NEW t \in Tasks, NEW i \in Items, Rows, Claim(t, i) PROVE Rows'
<1>. DEFINE j == [Idle EXCEPT !.item = i, !.kind = "reconcile"]
<1>1. j \in Jobs
  BY DEF Idle, Jobs, HostWants
<1>2. Typed'
  BY <1>1, IdleIsNoJob DEF Rows, TypeOK, Claim, Typed
<1>. QED BY <1>2 DEF Rows, Claim, Typed, TypeOK, ObservedAgreesWithDesired, PendingWorkIsScheduled,
                     Exists, providerVars

\* No task works on an item that was not created: items are claimed when due.
LEMMA ReadWorkRows ==
  ASSUME NEW t \in Tasks, Rows, want[job[t].item] # "absent", ReadWork(t) PROVE Rows'
<1>. DEFINE i == job[t].item
            found == [job[t] EXCEPT !.want = want[i], !.res = bound[i]]
<1>1. job[t] \in Jobs
  BY BusyTask DEF Rows, ReadWork
<1>2. found \in Jobs /\ [found EXCEPT !.fail = "failed"] \in Jobs /\ [found EXCEPT !.fail = "failed"].fail # "none"
  BY <1>1 DEF Rows, TypeOK, Jobs
<1>3. UNCHANGED providerVars
  BY DEF ReadWork
<1>4. CASE Goto(t, "fail", [found EXCEPT !.fail = "failed"])
  BY <1>2, <1>3, <1>4, TaskTypes, RowsKept DEF Rows, TypeOK, providerVars
<1>5. ASSUME NEW step \in {"create", "call", "record"}, Goto(t, step, found)
      PROVE  Rows'
  BY <1>2, <1>3, <1>5, TaskTypes, RowsKept DEF Rows, TypeOK, providerVars
<1>. QED BY <1>4, <1>5 DEF ReadWork

LEMMA CreateRows ==
  ASSUME NEW t \in Tasks, Rows, Create(t) PROVE Rows'
<1>. DEFINE i == job[t].item
            id == made[i] + 1
<1>1. job[t] \in Jobs /\ i \in Items
  BY BusyTask DEF Rows, Create, Jobs
<1>2. Permanent \union Transient \subseteq Failures
  BY OutcomeTypes
<1>3. id \in Nat /\ [job[t] EXCEPT !.res = id] \in Jobs
  BY <1>1 DEF Rows, TypeOK, Jobs
<1>4. Typed' /\ UNCHANGED <<itemVars, requests, crashes>>
  <2>1. CASE Goto(t, IF i \in Hosts THEN "attach" ELSE "record", [job[t] EXCEPT !.res = id])
    BY <2>1, <1>3, TaskTypes DEF Rows
  <2>2. CASE Fails(t, Permanent)
    BY <2>2, <1>2, FailTypes DEF Rows, Create
  <2>3. CASE Fails(t, IF i \in Hosts THEN Permanent ELSE Transient)
    BY <2>3, <1>2, FailTypes DEF Rows, Create
  <2>. QED BY <2>1, <2>2, <2>3 DEF Create
<1>5. live' \in [Items -> SUBSET Nat] /\ made' \in [Items -> Nat] /\ unheard' \in [Items -> SUBSET Nat]
  BY <1>1, <1>3 DEF Rows, TypeOK, Create, providerVars
<1>. QED BY <1>4, <1>5, RowsKept DEF Rows, TypeOK

LEMMA AttachRows ==
  ASSUME NEW t \in Tasks, Rows, Attach(t) PROVE Rows'
<1>1. job[t] \in Jobs
  BY BusyTask DEF Rows, Attach
<1>2. bound' \in [Items -> Nat]
  BY <1>1 DEF Rows, TypeOK, Attach, AttachTo, Jobs
<1>3. Typed'
  BY IdleIsNoJob DEF Rows, TypeOK, Attach, Typed
<1>. QED BY <1>2, <1>3 DEF Rows, Attach, Typed, TypeOK, ObservedAgreesWithDesired, PendingWorkIsScheduled,
                           Exists, providerVars

LEMMA CallRows ==
  ASSUME NEW t \in Tasks, Rows, Call(t) PROVE Rows'
<1>1. job[t] \in Jobs
  BY BusyTask DEF Rows, Call
<1>. DEFINE outcomes == (IF job[t].want = "paused" THEN Permanent ELSE Transient)
                        \union (IF job[t].kind = "operation" THEN {Failure("unavailable", FALSE)} ELSE {})
                        \union Missing
<1>2. /\ outcomes \subseteq Failures
      /\ Transient \subseteq Failures
  BY OutcomeTypes
<1>3. Typed' /\ UNCHANGED <<itemVars, requests, crashes>>
  <2>1. CASE Goto(t, "record", job[t])
    BY <2>1, <1>1, TaskTypes DEF Rows
  <2>2. CASE Fails(t, Transient)
    BY <2>2, <1>2, FailTypes DEF Rows, Call
  <2>3. CASE Fails(t, outcomes)
    BY <2>3, <1>2, FailTypes DEF Rows, Call
  <2>. QED BY <2>1, <2>2, <2>3 DEF Call
<1>4. live' \in [Items -> SUBSET Nat] /\ made' = made /\ unheard' = unheard
  BY <1>1 DEF Rows, TypeOK, Call, Jobs
<1>. QED BY <1>3, <1>4, RowsKept DEF Rows, TypeOK

LEMMA DoneTypes ==
  ASSUME TypeOK, NEW t \in Tasks, Done(t)
  PROVE  Typed' /\ UNCHANGED <<live, made, unheard, requests, crashes>>
<1>. QED BY IdleIsNoJob DEF TypeOK, Done, Typed, providerVars

\* A late result agrees with the newest wish, and so does the pause it may bring.
LEMMA CompletesRows ==
  ASSUME NEW t \in Tasks, Rows, pc[t] # "idle", StillWanted(job[t].item, job[t]),
         Completes(job[t].item, job[t]), Done(t)
  PROVE  Rows'
<1>. DEFINE i == job[t].item
            j == job[t]
            h == IF i \in Snapshots /\ j.want = "ready" THEN source[i] ELSE NoItem
            p == {h} \ (gone \union {NoItem})
<1>1. j \in Jobs /\ i \in Items /\ j.want \in HostWants /\ j.res \in Nat /\ want[i] = j.want
  BY BusyTask DEF Rows, Jobs, StillWanted
<1>2. p \subseteq Hosts /\ i \notin p
  BY <1>1, KindsAssumption DEF Rows, TypeOK, Items
<1>3. /\ seen' = [x \in Items |-> IF x = i THEN j.want ELSE IF x \in p THEN "paused" ELSE seen[x]]
      /\ want' = [x \in Items |-> IF x \in p THEN "paused" ELSE want[x]]
      /\ bound' \in [Items -> Nat]
      /\ gone' \subseteq Items /\ leased' \subseteq Items
      /\ due' = (due \ {i}) \ p
      /\ source' = source
  BY <1>1 DEF Rows, TypeOK, Completes
<1>4. Typed' /\ UNCHANGED <<live, made, unheard, requests, crashes>>
  BY DoneTypes DEF Rows
<1>5. TypeOK'
  <2>1. want' \in [Items -> HostWants \union {"absent"}] /\ \A s \in Snapshots : want'[s] # "paused"
    BY <1>2, <1>3, KindsAssumption DEF Rows, TypeOK, HostWants, Items
  <2>2. \A x \in Hosts : seen'[x] \in HostStates
    BY <1>1, <1>2, <1>3 DEF Rows, TypeOK, HostWants, HostStates, Items
  <2>3. \A s \in Snapshots : seen'[s] \in SnapshotStates
    BY <1>1, <1>2, <1>3, KindsAssumption DEF Rows, TypeOK, HostWants, SnapshotStates, Items
  <2>4. seen' \in [Items -> HostStates \union SnapshotStates]
    BY <1>3, <2>2, <2>3 DEF Items
  <2>5. due' \subseteq Items
    BY <1>3 DEF Rows, TypeOK
  <2>. QED BY <1>3, <1>4, <2>1, <2>2, <2>3, <2>4, <2>5 DEF Rows, TypeOK, Typed
<1>6. ObservedAgreesWithDesired'
  <2>. SUFFICES ASSUME NEW x \in Items
                PROVE  /\ seen'[x] \in {"ready", "provisioning", "resuming", "creating"} => want'[x] \in {"ready", "absent"}
                       /\ seen'[x] \in {"paused", "pausing"} => want'[x] = "paused"
                       /\ seen'[x] \in {"deleting", "deleted"} => want'[x] = "deleted"
    BY DEF ObservedAgreesWithDesired
  <2>1. CASE x = i
    BY <2>1, <1>1, <1>2, <1>3 DEF HostWants
  <2>2. CASE x \in p
    BY <2>2, <1>2, <1>3
  <2>3. CASE x # i /\ x \notin p
    BY <2>3, <1>3 DEF Rows, ObservedAgreesWithDesired
  <2>. QED BY <2>1, <2>2, <2>3
<1>7. PendingWorkIsScheduled'
  BY <1>1, <1>3 DEF Rows, PendingWorkIsScheduled, Exists, Transitional, HostWants
<1>. QED BY <1>5, <1>6, <1>7 DEF Rows

LEMMA RecordRows ==
  ASSUME NEW t \in Tasks, Rows, Record(t) PROVE Rows'
<1>1. CASE StillWanted(job[t].item, job[t])
  BY <1>1, CompletesRows DEF Record
<1>2. CASE ~StillWanted(job[t].item, job[t])
  BY <1>2, DoneTypes, RowsKept DEF Record, Rows, TypeOK
<1>. QED BY <1>1, <1>2

LEMMA RecordFailureRows ==
  ASSUME NEW t \in Tasks, Rows, RecordFailure(t) PROVE Rows'
<1>. DEFINE i == job[t].item
<1>1. job[t] \in Jobs /\ i \in Items /\ job[t].fail \in {"unavailable", "failed", "lost"}
  BY BusyTask DEF Rows, RecordFailure, Jobs, TypeOK
<1>2. Typed' /\ UNCHANGED <<live, made, unheard, requests, crashes>>
  BY DoneTypes DEF RecordFailure, Rows
<1>3. CASE UNCHANGED itemVars
  BY <1>2, <1>3, RowsKept DEF Rows, TypeOK
<1>4. CASE /\ seen' = [seen EXCEPT ![i] = IF i \in Hosts THEN job[t].fail ELSE "failed"]
           /\ due' = IF job[t].retry THEN due \union {i} ELSE due \ {i}
           /\ leased' = leased \ {i}
           /\ UNCHANGED <<want, gone, bound, source>>
  <2>1. TypeOK'
    BY <1>1, <1>2, <1>4, KindsAssumption DEF Rows, TypeOK, Typed, HostStates, SnapshotStates, Items
  <2>2. ObservedAgreesWithDesired'
    BY <1>1, <1>4 DEF Rows, TypeOK, ObservedAgreesWithDesired
  <2>3. PendingWorkIsScheduled'
    BY <1>1, <1>4 DEF Rows, TypeOK, PendingWorkIsScheduled, Exists, Transitional
  <2>. QED BY <2>1, <2>2, <2>3 DEF Rows
<1>. QED BY <1>3, <1>4 DEF RecordFailure

LEMMA CrashRows ==
  ASSUME NEW t \in Tasks, Rows, Crash(t) PROVE Rows'
<1>1. job[t] \in Jobs
  BY BusyTask DEF Rows, Crash
<1>2. unheard' \in [Items -> SUBSET Nat]
  BY <1>1 DEF Rows, TypeOK, Crash, Jobs
<1>3. Typed'
  BY IdleIsNoJob DEF Rows, TypeOK, Crash, Typed
<1>. QED BY <1>2, <1>3, RowsKept DEF Rows, TypeOK, Crash

LEMMA LeaseExpiresRows ==
  ASSUME NEW i \in Items, Rows, LeaseExpires(i) PROVE Rows'
<1>. QED BY DEF Rows, LeaseExpires, TypeOK, ObservedAgreesWithDesired, PendingWorkIsScheduled, Exists,
                providerVars, taskVars

\* Tasks work on items that exist.
Created ==
    /\ \A i \in due : Exists(i)
    /\ \A t \in Tasks : pc[t] # "idle" => Exists(job[t].item)

LEMMA InitCreated == Init => Created
<1>. QED BY DEF Init, Created

\* A step of a task stays with its item, or ends.
LEMMA GotoStays ==
  ASSUME TypeOK, NEW t \in Tasks, NEW step, NEW j, Goto(t, step, j), j.item = job[t].item
  PROVE  /\ UNCHANGED itemVars
         /\ \A u \in Tasks : job'[u].item = job[u].item /\ (u # t => pc'[u] = pc[u])
<1>. QED BY DEF TypeOK, Goto

LEMMA FailsStays ==
  ASSUME TypeOK, NEW t \in Tasks, pc[t] # "idle", NEW outcomes, Fails(t, outcomes)
  PROVE  /\ UNCHANGED itemVars
         /\ \A u \in Tasks : job'[u].item = job[u].item /\ (u # t => pc'[u] = pc[u])
<1>1. PICK o \in outcomes : Goto(t, "fail", [job[t] EXCEPT !.fail = o.state, !.retry = o.retry])
  BY DEF Fails
<1>2. [job[t] EXCEPT !.fail = o.state, !.retry = o.retry].item = job[t].item
  BY BusyTask DEF Jobs
<1>. QED BY <1>1, <1>2, GotoStays

LEMMA StepStays ==
  ASSUME TypeOK, NEW t \in Tasks, Step(t)
  PROVE  /\ pc[t] # "idle"
         /\ due' \subseteq due \union {job[t].item}
         /\ \A i \in Items : Exists(i) => Exists(i)'
         /\ \A u \in Tasks : pc'[u] # "idle" => pc[u] # "idle" /\ job'[u].item = job[u].item
<1>. DEFINE Stays == /\ UNCHANGED itemVars
                     /\ \A u \in Tasks : job'[u].item = job[u].item /\ (u # t => pc'[u] = pc[u])
<1>1. ASSUME pc[t] # "idle", Stays
      PROVE  /\ due' \subseteq due \union {job[t].item}
             /\ \A i \in Items : Exists(i) => Exists(i)'
             /\ \A u \in Tasks : pc'[u] # "idle" => pc[u] # "idle" /\ job'[u].item = job[u].item
  BY <1>1 DEF itemVars, Exists
<1>2. CASE ReadWork(t)
  <2>1. job[t] \in Jobs /\ pc[t] # "idle"
    BY <1>2, BusyTask DEF ReadWork
  <2>. DEFINE found == [job[t] EXCEPT !.want = want[job[t].item], !.res = bound[job[t].item]]
  <2>2. found.item = job[t].item /\ [found EXCEPT !.fail = "failed"].item = job[t].item
    BY <2>1 DEF Jobs
  <2>3. CASE Goto(t, "fail", [found EXCEPT !.fail = "failed"])
    BY <2>1, <2>2, <2>3, <1>1, GotoStays
  <2>4. ASSUME NEW step \in {"create", "call", "record"}, Goto(t, step, found) PROVE Stays
    BY <2>2, <2>4, GotoStays
  <2>. QED BY <1>1, <1>2, <2>1, <2>3, <2>4 DEF ReadWork
<1>3. CASE Create(t)
  <2>1. job[t] \in Jobs /\ pc[t] # "idle"
    BY <1>3, BusyTask DEF Create
  <2>2. \A id : [job[t] EXCEPT !.res = id].item = job[t].item
    BY <2>1 DEF Jobs
  <2>. QED BY <1>1, <1>3, <2>1, <2>2, GotoStays, FailsStays DEF Create
<1>4. CASE Attach(t)
  BY <1>4 DEF TypeOK, Attach, Exists
<1>5. CASE Call(t)
  <2>1. pc[t] # "idle"
    BY <1>5 DEF Call
  <2>. QED BY <1>1, <1>5, <2>1, GotoStays, FailsStays DEF Call
<1>6. CASE Record(t)
  <2>1. due' \subseteq due /\ \A i \in Items : Exists(i) => Exists(i)'
    BY <1>6 DEF Record, Completes, itemVars, Exists
  <2>. QED BY <1>6, <2>1 DEF TypeOK, Record, Done
<1>7. CASE RecordFailure(t)
  <2>1. due' \subseteq due \union {job[t].item} /\ want' = want
    BY <1>7 DEF RecordFailure, itemVars
  <2>. QED BY <1>7, <2>1 DEF TypeOK, RecordFailure, Done, Exists
<1>. QED BY <1>2, <1>3, <1>4, <1>5, <1>6, <1>7 DEF Step

\* So does everything else: nothing is un-created, only existing items become
\* due, and a task takes up items that are due or, for an operation, ready.
LEMMA NextCreated ==
  ASSUME Rows, Created, [Next]_vars PROVE Created'
<1>1. ASSUME NEW t \in Tasks, Step(t) PROVE Created'
  BY <1>1, StepStays, BusyTask DEF Rows, TypeOK, Created, Jobs
<1>2. ASSUME NEW t \in Tasks, NEW h \in Hosts, StartOperation(t, h) PROVE Created'
  BY <1>2 DEF Rows, TypeOK, Created, StartOperation, Exists, itemVars, Idle, Items
<1>3. ASSUME NEW t \in Tasks, NEW i \in Items, Claim(t, i) PROVE Created'
  BY <1>3 DEF Rows, TypeOK, Created, Claim, Exists, Idle
<1>4. ASSUME NEW t \in Tasks, Crash(t) PROVE Created'
  BY <1>4 DEF Rows, TypeOK, Created, Crash, Exists, itemVars
<1>5. ASSUME NEW i \in Items, LeaseExpires(i) PROVE Created'
  BY <1>5 DEF Rows, TypeOK, Created, LeaseExpires, Exists, taskVars
<1>6. ASSUME taskVars' = taskVars, \A i \in Items : Exists(i) => Exists(i)', \A i \in due' : i \in due \/ Exists(i)'
      PROVE  Created'
  BY <1>6, BusyTask DEF Rows, TypeOK, Created, Jobs, taskVars
<1>7. ASSUME NEW h \in Hosts, CreateHost(h) PROVE Created'
  BY <1>6, <1>7 DEF Rows, TypeOK, CreateHost, Exists, Items
<1>8. ASSUME NEW h \in Hosts, PauseHost(h) \/ ResumeHost(h) \/ DeleteHost(h) PROVE Created'
  BY <1>6, <1>8 DEF Rows, TypeOK, PauseHost, ResumeHost, DeleteHost, RequestHostState, Exists, Items
<1>9. ASSUME NEW h \in Hosts, RefreshHost(h) \/ ResumeOnUse(h) PROVE Created'
  BY <1>6, <1>9 DEF Rows, TypeOK, RefreshHost, ResumeOnUse, Exists, Items
<1>10. ASSUME NEW s \in Snapshots, DeleteSnapshot(s) \/ \E h \in Hosts : CreateSnapshot(s, h) PROVE Created'
  BY <1>6, <1>10 DEF Rows, TypeOK, DeleteSnapshot, CreateSnapshot, Exists, Items
<1>11. CASE UNCHANGED vars
  BY <1>11 DEF Created, Exists, vars, itemVars, taskVars
<1>12. CASE Request
  BY <1>2, <1>7, <1>8, <1>9, <1>10, <1>12 DEF Request
<1>13. CASE \E t \in Tasks : Step(t) \/ Crash(t) \/ \E i \in Items : Claim(t, i)
  BY <1>1, <1>3, <1>4, <1>13
<1>. QED BY <1>5, <1>11, <1>12, <1>13 DEF Next

LEMMA NextRows ==
  ASSUME Rows, Created, [Next]_vars PROVE Rows'
<1>1. ASSUME NEW h \in Hosts, CreateHost(h) \/ RefreshHost(h) \/ ResumeOnUse(h) PROVE Rows'
  BY <1>1, CreateHostRows, RefreshHostRows, ResumeOnUseRows
<1>2. ASSUME NEW h \in Hosts, PauseHost(h) \/ ResumeHost(h) \/ DeleteHost(h) PROVE Rows'
  BY <1>2, RequestHostStateRows DEF PauseHost, ResumeHost, DeleteHost
<1>3. ASSUME NEW s \in Snapshots, DeleteSnapshot(s) \/ \E h \in Hosts : CreateSnapshot(s, h) PROVE Rows'
  BY <1>3, DeleteSnapshotRows, CreateSnapshotRows
<1>4. ASSUME NEW t \in Tasks, Step(t) PROVE Rows'
  <2>1. CASE ReadWork(t)
    <3>1. pc[t] # "idle"
      BY <2>1 DEF ReadWork
    <3>2. want[job[t].item] # "absent"
      BY <3>1 DEF Created, Exists
    <3>. QED BY <2>1, <3>2, ReadWorkRows
  <2>. QED BY <1>4, <2>1, CreateRows, AttachRows, CallRows, RecordRows, RecordFailureRows DEF Step
<1>5. ASSUME NEW t \in Tasks, Crash(t) PROVE Rows'
  BY <1>5, CrashRows
<1>6. ASSUME NEW t \in Tasks, NEW i \in Items, Claim(t, i) PROVE Rows'
  BY <1>6, ClaimRows
<1>7. ASSUME NEW t \in Tasks, NEW h \in Hosts, StartOperation(t, h) PROVE Rows'
  BY <1>7, StartOperationRows
<1>8. ASSUME NEW i \in Items, LeaseExpires(i) PROVE Rows'
  BY <1>8, LeaseExpiresRows
<1>9. CASE UNCHANGED vars
  BY <1>9 DEF Rows, TypeOK, ObservedAgreesWithDesired, PendingWorkIsScheduled, Exists,
              vars, itemVars, providerVars, taskVars
<1>10. CASE Request
  BY <1>1, <1>2, <1>3, <1>7, <1>10 DEF Request
<1>11. CASE \E t \in Tasks : Step(t) \/ Crash(t) \/ \E i \in Items : Claim(t, i)
  BY <1>4, <1>5, <1>6, <1>11
<1>. QED BY <1>8, <1>9, <1>10, <1>11 DEF Next

LEMMA RowsInvariant == Spec => [](Rows /\ Created)
<1>1. Init => Rows /\ Created
  BY InitRows, InitCreated
<1>2. Rows /\ Created /\ [Next]_vars => (Rows /\ Created)'
  BY NextRows, NextCreated
<1>. QED BY <1>1, <1>2, PTL DEF Spec

\* Every row and every task is well formed, whatever requests, reconcile tasks
\* and crashes do (the CHECK constraints of execution_hosts and
\* execution_snapshots are never hit).
THEOREM HostTypesCorrect == Spec => []TypeOK
<1>1. Rows /\ Created => TypeOK
  BY DEF Rows
<1>. QED BY <1>1, RowsInvariant, PTL

\* However many tasks race with each other and with clients, a late result never
\* makes the observed state contradict the wish: the guards on desired_state in
\* complete_host_* and complete_snapshot_* are enough.
THEOREM LateResultsAgree == Spec => []ObservedAgreesWithDesired
<1>1. Rows /\ Created => ObservedAgreesWithDesired
  BY DEF Rows
<1>. QED BY <1>1, RowsInvariant, PTL

\* An item in a transitional state is always due, so a gateway that is started
\* again resumes it (claim_hosts, claim_snapshots).
THEOREM PendingWorkIsNeverDropped == Spec => []PendingWorkIsScheduled
<1>1. Rows /\ Created => PendingWorkIsScheduled
  BY DEF Rows
<1>. QED BY <1>1, RowsInvariant, PTL

\* Both together, as the runs check them: what was observed never contradicts the
\* wish, and what is on its way is found again (lifecycle.rs, database.rs).
THEOREM WishesAreAlwaysPursued == Spec => []WishesArePursued
<1>1. Rows /\ Created => WishesArePursued
  BY DEF Rows, WishesArePursued
<1>. QED BY <1>1, RowsInvariant, PTL

-----------------------------------------------------------------------------
(* Images of snapshots *)

\* While a snapshot is wanted, no task deletes images of it, and the image on record, as
\* well as the one a task is about to record, exists.
ImageOf(s) ==
    /\ want[s] = "ready" /\ bound[s] # 0 => bound[s] \in live[s]
    /\ want[s] = "ready" /\ seen[s] = "ready" => bound[s] \in live[s]
    /\ ~Exists(s) => bound[s] = 0 /\ seen[s] = "creating"

TaskOf(t, s) ==
    job[t].item = s =>
        /\ job[t].want = "deleted" => want[s] = "deleted"
        /\ pc[t] = "record" /\ job[t].want = "ready" /\ want[s] = "ready" => job[t].res \in live[s]
        /\ pc[t] # "attach"

Images == \A s \in Snapshots : ImageOf(s) /\ \A t \in Tasks : TaskOf(t, s)

LEMMA InitImages == Init => Images
<1>. QED BY KindsAssumption DEF Init, Images, ImageOf, TaskOf, Exists, Items, Idle

\* A step of a client changes no task and no resource.
LEMMA RequestImages ==
  ASSUME Rows, Created, Images, UNCHANGED <<taskVars, providerVars, bound>>,
         \A s \in Snapshots : \/ want'[s] = want[s] /\ seen'[s] = seen[s]
                              \/ want[s] = "absent" /\ want'[s] = "ready" /\ seen'[s] = seen[s]
                              \/ want'[s] = "deleted"
  PROVE  Images'
<1>. SUFFICES ASSUME NEW s \in Snapshots PROVE ImageOf(s)' /\ \A t \in Tasks : TaskOf(t, s)'
  BY DEF Images
<1>1. ImageOf(s)'
  BY DEF Images, ImageOf, Exists, providerVars
<1>2. ASSUME NEW t \in Tasks PROVE TaskOf(t, s)'
  <2>1. CASE want[s] # "absent"
    BY <2>1 DEF Images, TaskOf, taskVars, providerVars
  <2>2. CASE want[s] = "absent"
    <3>1. pc[t] # "record" \/ job[t].item # s
      BY <2>2 DEF Created, Exists
    <3>. QED BY <2>2, <3>1 DEF Images, TaskOf, taskVars, providerVars
  <2>. QED BY <2>1, <2>2
<1>. QED BY <1>1, <1>2

\* A step of one task that leaves the rows alone and takes no image of a wanted snapshot away.
LEMMA TaskImages ==
  ASSUME Rows, Images, NEW t \in Tasks, UNCHANGED <<want, seen, bound>>,
         \A u \in Tasks : u # t => pc'[u] = pc[u] /\ job'[u] = job[u],
         \A s \in Snapshots : want[s] = "ready" => live[s] \subseteq live'[s],
         \A s \in Snapshots : TaskOf(t, s)'
  PROVE  Images'
<1>. SUFFICES ASSUME NEW s \in Snapshots PROVE ImageOf(s)' /\ \A u \in Tasks : TaskOf(u, s)'
  BY DEF Images
<1>1. ImageOf(s)'
  BY DEF Images, ImageOf, Exists
<1>2. ASSUME NEW u \in Tasks, u # t PROVE TaskOf(u, s)'
  BY <1>2 DEF Images, TaskOf
<1>. QED BY <1>1, <1>2

\* A task that goes on from step to step.
LEMMA GotoTasks ==
  ASSUME Rows, NEW t \in Tasks, NEW step, NEW j, Goto(t, step, j)
  PROVE  /\ UNCHANGED <<want, seen, bound>>
         /\ \A u \in Tasks : u # t => pc'[u] = pc[u] /\ job'[u] = job[u]
         /\ pc'[t] = step /\ job'[t] = j
<1>. QED BY DEF Rows, TypeOK, Goto, itemVars

LEMMA FailsTasks ==
  ASSUME Rows, NEW t \in Tasks, pc[t] # "idle", NEW outcomes, Fails(t, outcomes)
  PROVE  /\ UNCHANGED <<want, seen, bound>>
         /\ \A u \in Tasks : u # t => pc'[u] = pc[u] /\ job'[u] = job[u]
         /\ pc'[t] = "fail" /\ job'[t].item = job[t].item /\ job'[t].want = job[t].want
<1>1. PICK o \in outcomes : Goto(t, "fail", [job[t] EXCEPT !.fail = o.state, !.retry = o.retry])
  BY DEF Fails
<1>2. /\ [job[t] EXCEPT !.fail = o.state, !.retry = o.retry].item = job[t].item
      /\ [job[t] EXCEPT !.fail = o.state, !.retry = o.retry].want = job[t].want
  BY BusyTask DEF Jobs, Rows
<1>. QED BY <1>1, <1>2, GotoTasks

LEMMA ReadWorkImages ==
  ASSUME Rows, Created, Images, NEW t \in Tasks, ReadWork(t) PROVE Images'
<1>. DEFINE i == job[t].item
            found == [job[t] EXCEPT !.want = want[i], !.res = bound[i]]
            failed == [found EXCEPT !.fail = "failed"]
<1>1. job[t] \in Jobs /\ i \in Items /\ Exists(i)
  BY BusyTask DEF Rows, ReadWork, Jobs, Created
<1>2. found.item = i /\ found.want = want[i] /\ found.res = bound[i]
  BY <1>1 DEF Jobs
<1>3. failed.item = i /\ failed.want = want[i]
  BY <1>1 DEF Jobs
<1>4. live' = live
  BY DEF ReadWork, providerVars
<1>. HIDE DEF found, failed
<1>5. CASE Goto(t, "fail", failed)
  <2>1. /\ UNCHANGED <<want, seen, bound>>
        /\ \A u \in Tasks : u # t => pc'[u] = pc[u] /\ job'[u] = job[u]
        /\ pc'[t] = "fail" /\ job'[t] = failed
    BY <1>5, GotoTasks
  <2>2. \A s \in Snapshots : TaskOf(t, s)'
    BY <1>3, <2>1 DEF TaskOf
  <2>. QED BY <1>4, <2>1, <2>2, TaskImages
<1>6. ASSUME NEW step \in {"create", "call", "record"}, Goto(t, step, found),
             step = "record" /\ want[i] = "ready" => bound[i] # 0
      PROVE  Images'
  <2>1. /\ UNCHANGED <<want, seen, bound>>
        /\ \A u \in Tasks : u # t => pc'[u] = pc[u] /\ job'[u] = job[u]
        /\ pc'[t] = step /\ job'[t] = found
    BY <1>6, GotoTasks
  <2>2. \A s \in Snapshots : TaskOf(t, s)'
    BY <1>2, <1>4, <1>6, <2>1 DEF TaskOf, Images, ImageOf
  <2>. QED BY <1>4, <2>1, <2>2, TaskImages
<1>7. CASE Goto(t, CASE want[i] = "deleted" -> (IF bound[i] = 0 THEN "record" ELSE "call")
                     [] want[i] # "deleted" /\ bound[i] = 0 -> "create"
                     [] OTHER -> IF i \in Hosts THEN "call" ELSE "record", found)
  BY <1>6, <1>7
<1>. QED BY <1>5, <1>7 DEF ReadWork, found, failed

LEMMA CreateImages ==
  ASSUME Rows, Images, NEW t \in Tasks, Create(t) PROVE Images'
<1>. DEFINE i == job[t].item
            id == made[i] + 1
            j == [job[t] EXCEPT !.res = id]
<1>1. job[t] \in Jobs /\ i \in Items /\ pc[t] # "idle"
  BY BusyTask DEF Rows, Create, Jobs
<1>2. j.item = i /\ j.want = job[t].want /\ j.res = id
  BY <1>1 DEF Jobs
<1>3. \A s \in Items : live[s] \subseteq live'[s]
  BY <1>1 DEF Rows, TypeOK, Create, providerVars
<1>4. ASSUME NEW outcomes, Fails(t, outcomes) PROVE Images'
  <2>1. /\ UNCHANGED <<want, seen, bound>>
        /\ \A u \in Tasks : u # t => pc'[u] = pc[u] /\ job'[u] = job[u]
        /\ pc'[t] = "fail" /\ job'[t].item = job[t].item /\ job'[t].want = job[t].want
    BY <1>1, <1>4, FailsTasks
  <2>2. \A s \in Snapshots : TaskOf(t, s)'
    BY <2>1 DEF TaskOf, Images
  <2>. QED BY <1>3, <2>1, <2>2, TaskImages DEF Items
<1>. HIDE DEF j
<1>5. CASE Goto(t, IF i \in Hosts THEN "attach" ELSE "record", j) /\ id \in live'[i]
  <2>. DEFINE step == IF i \in Hosts THEN "attach" ELSE "record"
  <2>1. /\ UNCHANGED <<want, seen, bound>>
        /\ \A u \in Tasks : u # t => pc'[u] = pc[u] /\ job'[u] = job[u]
        /\ pc'[t] = step /\ job'[t] = j
    BY <1>5, GotoTasks
  <2>2. i \in Snapshots => step = "record"
    BY KindsAssumption
  <2>. HIDE DEF step
  <2>3. \A s \in Snapshots : TaskOf(t, s)'
    BY <1>2, <1>5, <2>1, <2>2 DEF TaskOf, Images
  <2>. QED BY <1>3, <2>1, <2>3, TaskImages DEF Items
<1>6. live' = [live EXCEPT ![i] = @ \union {id}] => id \in live'[i]
  BY <1>1 DEF Rows, TypeOK
<1>. QED BY <1>4, <1>5, <1>6 DEF Create, j

LEMMA AttachImages ==
  ASSUME Rows, Images, NEW t \in Tasks, Attach(t) PROVE Images'
<1>1. job[t].item \notin Snapshots
  BY DEF Images, TaskOf, Attach
<1>2. \A s \in Snapshots : bound'[s] = bound[s]
  BY <1>1 DEF Rows, TypeOK, Attach, AttachTo, Items
<1>3. \A u \in Tasks : job'[u] = job[u] /\ (u # t => pc'[u] = pc[u])
  BY DEF Attach, Rows, TypeOK
<1>4. UNCHANGED <<want, seen, live>>
  BY DEF Attach, providerVars
<1>5. \A s \in Snapshots : ImageOf(s)'
  BY <1>2, <1>4 DEF Images, ImageOf, Exists
<1>6. \A u \in Tasks, s \in Snapshots : TaskOf(u, s)'
  BY <1>1, <1>3, <1>4 DEF Images, TaskOf
<1>. QED BY <1>5, <1>6 DEF Images

\* Only a task that read the wish "deleted" takes an image away, and a snapshot that was
\* once unwanted is not wanted again.
LEMMA CallImages ==
  ASSUME Rows, Images, NEW t \in Tasks, Call(t) PROVE Images'
<1>. DEFINE i == job[t].item
            r == job[t].res
<1>1. job[t] \in Jobs /\ i \in Items /\ pc[t] # "idle"
  BY BusyTask DEF Rows, Call, Jobs
<1>2. \A s \in Snapshots : want[s] = "ready" => live'[s] = live[s]
  <2>1. CASE live' = live
    BY <2>1
  <2>2. CASE job[t].want = "deleted" /\ live' = [live EXCEPT ![i] = @ \ {r}]
    BY <2>2 DEF Images, TaskOf, Rows, TypeOK, Items
  <2>. QED BY <2>1, <2>2 DEF Call
<1>3. ASSUME NEW outcomes, Fails(t, outcomes) PROVE Images'
  <2>1. /\ UNCHANGED <<want, seen, bound>>
        /\ \A u \in Tasks : u # t => pc'[u] = pc[u] /\ job'[u] = job[u]
        /\ pc'[t] = "fail" /\ job'[t].item = job[t].item /\ job'[t].want = job[t].want
    BY <1>1, <1>3, FailsTasks
  <2>2. \A s \in Snapshots : TaskOf(t, s)'
    BY <2>1 DEF TaskOf, Images
  <2>. QED BY <1>2, <2>1, <2>2, TaskImages
<1>4. CASE Goto(t, "record", job[t]) /\ (job[t].want # "deleted" => r \in live[i])
  <2>1. /\ UNCHANGED <<want, seen, bound>>
        /\ \A u \in Tasks : u # t => pc'[u] = pc[u] /\ job'[u] = job[u]
        /\ pc'[t] = "record" /\ job'[t] = job[t]
    BY <1>4, GotoTasks
  <2>2. \A s \in Snapshots : TaskOf(t, s)'
    BY <1>2, <1>4, <2>1 DEF TaskOf, Images
  <2>. QED BY <1>2, <2>1, <2>2, TaskImages
<1>. QED BY <1>3, <1>4 DEF Call

\* The end of a task.
LEMMA DoneTasks ==
  ASSUME Rows, NEW t \in Tasks, Done(t)
  PROVE  /\ live' = live
         /\ \A u \in Tasks : u # t => pc'[u] = pc[u] /\ job'[u] = job[u]
         /\ pc'[t] = "idle" /\ job'[t].item = NoItem
<1>. QED BY DEF Rows, TypeOK, Done, providerVars, Idle

LEMMA RecordImages ==
  ASSUME Rows, Created, Images, NEW t \in Tasks, Record(t) PROVE Images'
<1>. DEFINE i == job[t].item
<1>1. job[t] \in Jobs /\ i \in Items /\ Exists(i) /\ pc[t] = "record"
  BY BusyTask DEF Rows, Record, Jobs, Created
<1>2. /\ live' = live
      /\ \A u \in Tasks : u # t => pc'[u] = pc[u] /\ job'[u] = job[u]
      /\ pc'[t] = "idle" /\ job'[t].item = NoItem
  BY DoneTasks DEF Record
<1>3. \A s \in Snapshots : TaskOf(t, s)'
  BY <1>2, KindsAssumption DEF TaskOf
<1>4. CASE ~StillWanted(i, job[t])
  BY <1>2, <1>3, <1>4, TaskImages DEF Record, itemVars
<1>5. CASE StillWanted(i, job[t])
  <2>. DEFINE h == IF i \in Snapshots /\ job[t].want = "ready" THEN source[i] ELSE NoItem
              p == {h} \ (gone \union {NoItem})
  <2>1. p \subseteq Hosts
    BY DEF Rows, TypeOK
  <2>2. /\ seen' = [x \in Items |-> IF x = i THEN job[t].want ELSE IF x \in p THEN "paused" ELSE seen[x]]
        /\ want' = [x \in Items |-> IF x \in p THEN "paused" ELSE want[x]]
        /\ bound' = IF i \in Snapshots /\ job[t].want = "ready" THEN [bound EXCEPT ![i] = job[t].res] ELSE bound
    BY <1>5 DEF Record, Completes
  <2>. HIDE DEF p
  <2>3. \A s \in Snapshots : want'[s] = want[s] /\ (s # i => seen'[s] = seen[s] /\ bound'[s] = bound[s])
    BY <2>1, <2>2, KindsAssumption DEF Items, Rows, TypeOK
  <2>4. i \in Snapshots => seen'[i] = want[i]
    BY <1>1, <1>5, <2>2 DEF StillWanted
  <2>5. i \in Snapshots /\ want[i] = "ready" => bound'[i] \in live'[i]
    BY <1>1, <1>2, <1>5, <2>2 DEF StillWanted, Images, TaskOf, Rows, TypeOK
  <2>6. ASSUME NEW s \in Snapshots PROVE ImageOf(s)'
    <3>1. CASE s = i
      BY <1>1, <2>3, <2>5, <3>1 DEF ImageOf, Exists
    <3>2. CASE s # i
      BY <1>2, <2>3, <3>2 DEF Images, ImageOf, Exists
    <3>. QED BY <3>1, <3>2
  <2>7. ASSUME NEW u \in Tasks, NEW s \in Snapshots, u # t PROVE TaskOf(u, s)'
    BY <1>2, <2>3, <2>7 DEF Images, TaskOf
  <2>. QED BY <1>3, <2>6, <2>7 DEF Images
<1>. QED BY <1>4, <1>5

LEMMA RecordFailureImages ==
  ASSUME Rows, Created, Images, NEW t \in Tasks, RecordFailure(t) PROVE Images'
<1>. DEFINE i == job[t].item
<1>1. job[t] \in Jobs /\ i \in Items /\ Exists(i)
  BY BusyTask DEF Rows, RecordFailure, Jobs, Created
<1>2. /\ live' = live
      /\ \A u \in Tasks : u # t => pc'[u] = pc[u] /\ job'[u] = job[u]
      /\ pc'[t] = "idle" /\ job'[t].item = NoItem
  BY DoneTasks DEF RecordFailure
<1>3. want' = want /\ bound' = bound
  BY DEF RecordFailure, itemVars
<1>4. \A s \in Snapshots : seen'[s] = seen[s] \/ (s = i /\ seen'[s] = "failed")
  BY <1>1, KindsAssumption DEF RecordFailure, itemVars, Rows, TypeOK, Items
<1>5. \A s \in Snapshots : ImageOf(s)'
  BY <1>1, <1>2, <1>3, <1>4 DEF Images, ImageOf, Exists
<1>6. \A u \in Tasks, s \in Snapshots : TaskOf(u, s)'
  BY <1>2, <1>3, KindsAssumption DEF Images, TaskOf
<1>. QED BY <1>5, <1>6 DEF Images

LEMMA NextImages ==
  ASSUME Rows, Created, Images, [Next]_vars PROVE Images'
<1>1. ASSUME NEW h \in Hosts, CreateHost(h) \/ RefreshHost(h) \/ ResumeOnUse(h) PROVE Images'
  BY <1>1, RequestImages, KindsAssumption
     DEF Rows, TypeOK, CreateHost, RefreshHost, ResumeOnUse, Items
<1>2. ASSUME NEW h \in Hosts, PauseHost(h) \/ ResumeHost(h) \/ DeleteHost(h) PROVE Images'
  BY <1>2, RequestImages, KindsAssumption
     DEF Rows, TypeOK, PauseHost, ResumeHost, DeleteHost, RequestHostState, Items
<1>3. ASSUME NEW s \in Snapshots, DeleteSnapshot(s) \/ \E h \in Hosts : CreateSnapshot(s, h) PROVE Images'
  BY <1>3, RequestImages DEF Rows, TypeOK, DeleteSnapshot, CreateSnapshot, Exists, Items
<1>4. ASSUME NEW t \in Tasks, Step(t) PROVE Images'
  BY <1>4, ReadWorkImages, CreateImages, AttachImages, CallImages, RecordImages,
     RecordFailureImages DEF Step
<1>5. ASSUME NEW t \in Tasks, Crash(t) PROVE Images'
  <2>1. /\ UNCHANGED <<want, seen, bound, live>>
        /\ \A u \in Tasks : u # t => pc'[u] = pc[u] /\ job'[u] = job[u]
        /\ pc'[t] = "idle" /\ job'[t].item = NoItem
    BY <1>5 DEF Rows, TypeOK, Crash, itemVars, Idle
  <2>2. \A s \in Snapshots : TaskOf(t, s)'
    BY <2>1, KindsAssumption DEF TaskOf
  <2>. QED BY <2>1, <2>2, TaskImages
<1>6. ASSUME NEW t \in Tasks, NEW i \in Items, Claim(t, i) PROVE Images'
  <2>1. /\ UNCHANGED <<want, seen, bound, live>>
        /\ \A u \in Tasks : u # t => pc'[u] = pc[u] /\ job'[u] = job[u]
        /\ pc'[t] = "claimed" /\ job'[t].want = "ready"
    BY <1>6 DEF Rows, TypeOK, Claim, providerVars, Idle
  <2>2. \A s \in Snapshots : TaskOf(t, s)'
    BY <2>1 DEF TaskOf
  <2>. QED BY <2>1, <2>2, TaskImages
<1>7. ASSUME NEW t \in Tasks, NEW h \in Hosts, StartOperation(t, h) PROVE Images'
  <2>1. /\ UNCHANGED <<want, seen, bound, live>>
        /\ \A u \in Tasks : u # t => pc'[u] = pc[u] /\ job'[u] = job[u]
        /\ pc'[t] = "call" /\ job'[t].want = "ready"
    BY <1>7 DEF Rows, TypeOK, StartOperation, itemVars, providerVars, Idle
  <2>2. \A s \in Snapshots : TaskOf(t, s)'
    BY <2>1 DEF TaskOf
  <2>. QED BY <2>1, <2>2, TaskImages
<1>8. ASSUME NEW i \in Items, LeaseExpires(i) PROVE Images'
  BY <1>8, RequestImages DEF LeaseExpires
<1>9. CASE UNCHANGED vars
  BY <1>9, RequestImages DEF vars, itemVars
<1>10. CASE Request
  BY <1>1, <1>2, <1>3, <1>7, <1>10 DEF Request
<1>11. CASE \E t \in Tasks : Step(t) \/ Crash(t) \/ \E i \in Items : Claim(t, i)
  BY <1>4, <1>5, <1>6, <1>11
<1>. QED BY <1>8, <1>9, <1>10, <1>11 DEF Next

\* A snapshot reported ready has its image at the provider, although tasks that create and
\* delete it may overlap and outlive their leases (lifecycle.rs, database.rs).
THEOREM ReadySnapshotsExist == Spec => []ReadySnapshotExists
<1>1. Init => Rows /\ Created /\ Images
  BY InitRows, InitCreated, InitImages
<1>2. Rows /\ Created /\ Images /\ [Next]_vars => (Rows /\ Created /\ Images)'
  BY NextRows, NextCreated, NextImages
<1>3. Rows /\ Created /\ Images => ReadySnapshotExists
  BY DEF Rows, TypeOK, ObservedAgreesWithDesired, Images, ImageOf, ReadySnapshotExists, Exists,
         Items
<1>. QED BY <1>1, <1>2, <1>3, PTL DEF Spec

\* Everything the gateway reports of its hosts and snapshots, as the run checks it
\* (lifecycle.rs, database.rs).
THEOREM HostsStayAsReported == Spec => []HostsAreAsReported
<1>. QED BY WishesAreAlwaysPursued, ReadySnapshotsExist, PTL DEF HostsAreAsReported

-----------------------------------------------------------------------------
\* One task at a time works on an item.
Alone ==
    \A t, u \in Tasks : pc[t] # "idle" /\ pc[u] # "idle" /\ job[t].item = job[u].item => t = u

\* A reconcile task has its item's lease, and the host of an operation is not due.
Held(t) ==
    /\ job[t].kind = "reconcile" => job[t].item \in leased
    /\ job[t].kind = "operation" => job[t].item \in Hosts \ due

\* While a snapshot is taken, or is due to be, nobody works on its host.
HostUntouched(s) ==
    want[s] = "ready" /\ (s \in due \/ \E t \in Tasks : job[t].item = s) =>
        source[s] \in Hosts \ due /\ \A t \in Tasks : job[t].item # source[s]

\* What a task has read of its item, or made for it, is still so.
Reading(t, i) ==
    /\ pc[t] = "claimed" => job[t].res = 0
    /\ pc[t] \notin {"idle", "claimed"} => want[i] = job[t].want
    /\ pc[t] = "create" => bound[i] = 0 /\ job[t].res = 0 /\ want[i] # "deleted"
    /\ pc[t] = "attach" => bound[i] = 0 /\ i \in Hosts
    /\ pc[t] \in {"call", "fail"} => job[t].res = bound[i]
    /\ pc[t] = "record" => job[t].res = bound[i] \/ (bound[i] = 0 /\ i \in Snapshots /\ job[t].want = "ready")
    /\ pc[t] = "record" /\ job[t].want = "deleted" => bound[i] \notin live[i]

\* The resources of an item that are at the provider are accounted for, and an item that
\* is gone is left alone.
Ledger(i) ==
    /\ 0 \notin live[i]
    /\ \A id \in live[i] : \/ id = bound[i] \/ id \in unheard[i]
                           \/ \E t \in Tasks : job[t].item = i /\ job[t].res = id
    /\ i \in gone => /\ bound[i] \notin live[i] /\ i \notin due /\ seen[i] = "deleted"
                     /\ \A t \in Tasks : job[t].item # i

Patience ==
    /\ Alone
    /\ \A t \in Tasks : Held(t) /\ Reading(t, job[t].item)
    /\ \A s \in Snapshots : HostUntouched(s)
    /\ \A i \in Items : Ledger(i)

LEMMA InitPatience == Init => Patience
<1>. SUFFICES ASSUME Init PROVE Patience
  OBVIOUS
<1>1. Alone
  BY DEF Init, Alone
<1>2. \A t \in Tasks : Held(t) /\ Reading(t, job[t].item)
  BY DEF Init, Held, Reading, Idle
<1>3. \A s \in Snapshots : HostUntouched(s)
  BY DEF Init, HostUntouched, Items
<1>4. \A i \in Items : Ledger(i)
  BY DEF Init, Ledger
<1>. QED BY <1>1, <1>2, <1>3, <1>4 DEF Patience

\* A task that goes on with its item.
LEMMA TaskGoesOn ==
  ASSUME Rows, Patience, NEW t \in Tasks, UNCHANGED <<want, seen, due, leased, gone, source>>,
         pc[t] # "idle", pc'[t] # "idle", job'[t].item = job[t].item, job'[t].kind = job[t].kind,
         \A u \in Tasks : u # t => pc'[u] = pc[u] /\ job'[u] = job[u],
         \A i \in Items : i # job[t].item => live'[i] = live[i] /\ unheard'[i] = unheard[i] /\ bound'[i] = bound[i],
         Reading(t, job[t].item)', Ledger(job[t].item)'
  PROVE  Patience'
<1>1. job[t] \in Jobs /\ job[t].item \in Items
  BY BusyTask DEF Rows, Jobs
<1>2. \A u \in Tasks : job'[u].item = job[u].item /\ job'[u].kind = job[u].kind
  OBVIOUS
<1>3. Alone'
  BY <1>2 DEF Patience, Alone
<1>4. \A u \in Tasks : Held(u)'
  BY <1>2 DEF Patience, Held
<1>5. ASSUME NEW u \in Tasks PROVE Reading(u, job[u].item)'
  <2>1. CASE u = t
    BY <2>1
  <2>2. CASE u # t /\ pc[u] # "idle"
    <3>1. job[u] \in Jobs /\ job[u].item \in Items /\ job[u].item # job[t].item
      BY <2>2, BusyTask DEF Rows, Jobs, Patience, Alone
    <3>2. pc'[u] = pc[u] /\ job'[u] = job[u] /\ bound'[job[u].item] = bound[job[u].item]
          /\ live'[job[u].item] = live[job[u].item] /\ Reading(u, job[u].item)
      BY <2>2, <3>1 DEF Patience
    <3>. QED BY <3>2 DEF Reading
  <2>3. CASE u # t /\ pc[u] = "idle"
    BY <2>3 DEF Reading
  <2>. QED BY <2>1, <2>2, <2>3
<1>6. \A s \in Snapshots : HostUntouched(s)'
  BY <1>2 DEF Patience, HostUntouched
<1>7. ASSUME NEW i \in Items PROVE Ledger(i)'
  <2>1. CASE i = job[t].item
    BY <2>1
  <2>2. CASE i # job[t].item
    <3>1. live'[i] = live[i] /\ unheard'[i] = unheard[i] /\ bound'[i] = bound[i] /\ Ledger(i)
      BY <2>2 DEF Patience
    <3>2. \A u \in Tasks : job[u].item = i => job'[u] = job[u]
      BY <2>2
    <3>. QED BY <1>2, <3>1, <3>2 DEF Ledger
  <2>. QED BY <2>1, <2>2
<1>. QED BY <1>3, <1>4, <1>5, <1>6, <1>7 DEF Patience

\* What a task is left with when it goes on.
LEMMA GotoKeeps ==
  ASSUME Rows, NEW t \in Tasks, NEW step, NEW j, Goto(t, step, j)
  PROVE  /\ UNCHANGED <<want, seen, due, leased, gone, source, bound>>
         /\ \A u \in Tasks : u # t => pc'[u] = pc[u] /\ job'[u] = job[u]
         /\ pc'[t] = step /\ job'[t] = j
<1>. QED BY DEF Rows, TypeOK, Goto, itemVars

LEMMA FailsKeeps ==
  ASSUME Rows, NEW t \in Tasks, pc[t] # "idle", NEW outcomes, Fails(t, outcomes)
  PROVE  /\ UNCHANGED <<want, seen, due, leased, gone, source, bound>>
         /\ \A u \in Tasks : u # t => pc'[u] = pc[u] /\ job'[u] = job[u]
         /\ pc'[t] = "fail" /\ job'[t].item = job[t].item /\ job'[t].want = job[t].want
         /\ job'[t].kind = job[t].kind /\ job'[t].res = job[t].res
<1>1. PICK o \in outcomes : Goto(t, "fail", [job[t] EXCEPT !.fail = o.state, !.retry = o.retry])
  BY DEF Fails
<1>. DEFINE j == [job[t] EXCEPT !.fail = o.state, !.retry = o.retry]
<1>2. j.item = job[t].item /\ j.want = job[t].want /\ j.kind = job[t].kind /\ j.res = job[t].res
  BY BusyTask DEF Jobs, Rows
<1>. HIDE DEF j
<1>3. Goto(t, "fail", j)
  BY <1>1 DEF j
<1>. QED BY <1>2, <1>3, GotoKeeps

\* The resources of the item are as they were, and the task has none or the one it had.
LEMMA LedgerStays ==
  ASSUME Rows, Patience, NEW t \in Tasks, NEW i \in Items, i = job[t].item, pc[t] # "idle",
         UNCHANGED <<seen, due, gone>>, bound'[i] = bound[i], live'[i] \subseteq live[i], unheard'[i] = unheard[i],
         job'[t].item = i, \A u \in Tasks : u # t => job'[u] = job[u],
         job'[t].res = job[t].res \/ job[t].res \in {0, bound[i]}
  PROVE  Ledger(i)'
<1>1. Ledger(i)
  BY DEF Patience
<1>2. i \notin gone
  BY <1>1 DEF Ledger
<1>3. ASSUME NEW id \in live'[i]
      PROVE  id = bound'[i] \/ id \in unheard'[i] \/ \E u \in Tasks : job'[u].item = i /\ job'[u].res = id
  <2>1. id \in live[i] /\ id # 0
    BY <1>1 DEF Ledger
  <2>2. CASE id = bound[i] \/ id \in unheard[i]
    BY <2>2
  <2>3. CASE \E u \in Tasks : job[u].item = i /\ job[u].res = id
    BY <2>1, <2>3
  <2>. QED BY <1>1, <2>1, <2>2, <2>3 DEF Ledger
<1>. QED BY <1>1, <1>2, <1>3 DEF Ledger

LEMMA ReadWorkPatience ==
  ASSUME Rows, Created, Patience, NEW t \in Tasks, ReadWork(t) PROVE Patience'
<1>. DEFINE i == job[t].item
            found == [job[t] EXCEPT !.want = want[i], !.res = bound[i]]
            failed == [found EXCEPT !.fail = "failed"]
<1>1. job[t] \in Jobs /\ i \in Items /\ pc[t] = "claimed" /\ pc[t] # "idle"
  BY BusyTask DEF Rows, ReadWork, Jobs
<1>2. found.item = i /\ found.want = want[i] /\ found.res = bound[i] /\ found.kind = job[t].kind
  BY <1>1 DEF Jobs
<1>3. failed.item = i /\ failed.want = want[i] /\ failed.res = bound[i] /\ failed.kind = job[t].kind
  BY <1>1 DEF Jobs
<1>4. UNCHANGED <<live, made, unheard>> /\ job[t].res = 0
  BY <1>1 DEF ReadWork, providerVars, Patience, Reading
<1>. HIDE DEF found, failed
<1>5. ASSUME NEW step \in {"create", "call", "record", "fail"}, NEW j, Goto(t, step, j),
             j.item = i, j.want = want[i], j.res = bound[i], j.kind = job[t].kind,
             step = "create" => bound[i] = 0 /\ want[i] # "deleted",
             step = "record" /\ want[i] = "deleted" => bound[i] = 0
      PROVE  Patience'
  <2>1. /\ UNCHANGED <<want, seen, due, leased, gone, source, bound>>
        /\ \A u \in Tasks : u # t => pc'[u] = pc[u] /\ job'[u] = job[u]
        /\ pc'[t] = step /\ job'[t] = j
    BY <1>5, GotoKeeps
  <2>2. 0 \notin live[i]
    BY <1>1 DEF Patience, Ledger
  <2>3. Reading(t, i)'
    BY <1>4, <1>5, <2>1, <2>2 DEF Reading
  <2>4. Ledger(i)'
    BY <1>1, <1>4, <1>5, <2>1, LedgerStays
  <2>5. pc'[t] # "idle" /\ job'[t].item = job[t].item /\ job'[t].kind = job[t].kind
    BY <1>5, <2>1
  <2>. QED BY <1>1, <1>4, <2>1, <2>3, <2>4, <2>5, TaskGoesOn
<1>6. CASE Goto(t, "fail", failed)
  BY <1>3, <1>5, <1>6
<1>7. CASE Goto(t, CASE want[i] = "deleted" -> (IF bound[i] = 0 THEN "record" ELSE "call")
                     [] want[i] # "deleted" /\ bound[i] = 0 -> "create"
                     [] OTHER -> IF i \in Hosts THEN "call" ELSE "record", found)
  BY <1>2, <1>5, <1>7
<1>. QED BY <1>6, <1>7 DEF ReadWork, found, failed

LEMMA CreatePatience ==
  ASSUME Rows, Patience, NEW t \in Tasks, Create(t) PROVE Patience'
<1>0. job[t] \in Jobs /\ pc[t] = "create" /\ pc[t] # "idle"
  BY BusyTask DEF Rows, Create
<1>a. PICK i \in Items : i = job[t].item
  BY <1>0 DEF Jobs
<1>. DEFINE id == made[i] + 1
            j == [job[t] EXCEPT !.res = id]
<1>1. job[t] \in Jobs /\ i = job[t].item /\ pc[t] = "create" /\ pc[t] # "idle" /\ id \in Nat \ {0}
  BY <1>0, <1>a DEF Rows, TypeOK
<1>2. j.item = i /\ j.want = job[t].want /\ j.res = id /\ j.kind = job[t].kind
  BY <1>1 DEF Jobs
<1>3. bound[i] = 0 /\ job[t].res = 0 /\ want[i] = job[t].want /\ Ledger(i) /\ i \notin gone
  BY <1>1 DEF Patience, Reading, Ledger
<1>4. \A x \in Items : x # i => live'[x] = live[x] /\ unheard'[x] = unheard[x]
  BY <1>1 DEF Rows, TypeOK, Create, providerVars
<1>. HIDE DEF j, id
<1>5. ASSUME NEW outcomes, Fails(t, outcomes),
             \/ live'[i] = live[i] /\ unheard'[i] = unheard[i]
             \/ live'[i] = live[i] \union {id} /\ unheard'[i] = unheard[i] \union {id}
      PROVE  Patience'
  <2>1. /\ UNCHANGED <<want, seen, due, leased, gone, source, bound>>
        /\ \A u \in Tasks : u # t => pc'[u] = pc[u] /\ job'[u] = job[u]
        /\ pc'[t] = "fail" /\ job'[t].item = job[t].item /\ job'[t].want = job[t].want
        /\ job'[t].kind = job[t].kind /\ job'[t].res = job[t].res
    BY <1>1, <1>5, FailsKeeps
  <2>2. Reading(t, i)'
    BY <1>3, <2>1 DEF Reading
  <2>3. \A u \in Tasks : job'[u].item = job[u].item /\ job'[u].res = job[u].res
    BY <2>1
  <2>4. Ledger(i)'
    BY <1>1, <1>3, <1>5, <2>1, <2>3 DEF Ledger
  <2>. QED BY <1>1, <1>4, <2>1, <2>2, <2>4, TaskGoesOn
<1>6. CASE /\ Goto(t, IF i \in Hosts THEN "attach" ELSE "record", j)
           /\ live'[i] = live[i] \union {id} /\ unheard'[i] = unheard[i]
           /\ i \in Snapshots => want[i] = "ready"
  <2>. DEFINE step == IF i \in Hosts THEN "attach" ELSE "record"
  <2>1. /\ UNCHANGED <<want, seen, due, leased, gone, source, bound>>
        /\ \A u \in Tasks : u # t => pc'[u] = pc[u] /\ job'[u] = job[u]
        /\ pc'[t] = step /\ job'[t] = j
    BY <1>6, GotoKeeps
  <2>2. (i \in Hosts /\ step = "attach") \/ (i \in Snapshots /\ step = "record")
    BY <1>1 DEF Items
  <2>. HIDE DEF step
  <2>3. Reading(t, i)'
    BY <1>2, <1>3, <1>6, <2>1, <2>2 DEF Reading
  <2>4. Ledger(i)'
    <3>1. ASSUME NEW x \in live'[i]
          PROVE  x = bound'[i] \/ x \in unheard'[i] \/ \E u \in Tasks : job'[u].item = i /\ job'[u].res = x
      <4>1. CASE x = id
        BY <1>2, <2>1, <4>1
      <4>2. CASE x \in live[i] /\ x # id
        <5>1. x # 0
          BY <1>3, <4>2 DEF Ledger
        <5>2. CASE \E u \in Tasks : job[u].item = i /\ job[u].res = x
          BY <1>3, <2>1, <5>1, <5>2
        <5>. QED BY <1>3, <1>6, <2>1, <4>2, <5>2 DEF Ledger
      <4>. QED BY <1>6, <4>1, <4>2
    <3>2. 0 \notin live'[i]
      BY <1>1, <1>3, <1>6 DEF Ledger
    <3>3. i \notin gone'
      BY <1>3, <2>1
    <3>. QED BY <3>1, <3>2, <3>3 DEF Ledger
  <2>5. pc'[t] # "idle" /\ job'[t].item = job[t].item /\ job'[t].kind = job[t].kind
    BY <1>1, <1>2, <2>1, <2>2
  <2>. QED BY <1>1, <1>4, <2>1, <2>3, <2>4, <2>5, TaskGoesOn
<1>7. CASE live' = [live EXCEPT ![i] = @ \union {id}] /\ made' = [made EXCEPT ![i] = id]
  <2>1. live'[i] = live[i] \union {id}
    BY <1>1, <1>7 DEF Rows, TypeOK
  <2>2. CASE unheard' = unheard /\ Goto(t, IF i \in Hosts THEN "attach" ELSE "record", j)
    <3>1. i \in Snapshots => want[i] = "ready"
      <4>1. job[t].want \in HostWants
        BY <1>1 DEF Jobs
      <4>2. want[i] # "deleted"
        BY <1>1 DEF Patience, Reading
      <4>. QED BY <1>3, <4>1, <4>2 DEF Rows, TypeOK, HostWants
    <3>. QED BY <1>6, <2>1, <2>2, <3>1
  <2>3. CASE unheard' = [unheard EXCEPT ![i] = @ \union {id}] /\ Fails(t, Permanent)
    <3>1. unheard'[i] = unheard[i] \union {id}
      BY <1>1, <2>3 DEF Rows, TypeOK
    <3>. QED BY <1>5, <2>1, <2>3, <3>1
  <2>4. CASE UNCHANGED providerVars /\ Fails(t, IF i \in Hosts THEN Permanent ELSE Transient)
    BY <1>5, <2>4 DEF providerVars
  <2>. QED BY <1>1, <1>7, <2>2, <2>3, <2>4 DEF Create, j, id
<1>8. CASE UNCHANGED providerVars /\ Fails(t, IF i \in Hosts THEN Permanent ELSE Transient)
  BY <1>5, <1>8 DEF providerVars
<1>. QED BY <1>1, <1>7, <1>8 DEF Create, j, id

LEMMA AttachPatience ==
  ASSUME Rows, Patience, NEW t \in Tasks, Attach(t) PROVE Patience'
<1>1. job[t] \in Jobs /\ pc[t] = "attach" /\ pc[t] # "idle"
  BY BusyTask DEF Rows, Attach
<1>2. PICK i \in Items : i = job[t].item
  BY <1>1 DEF Jobs
<1>3. bound[i] = 0 /\ Ledger(i) /\ i \notin gone /\ want[i] = job[t].want
  BY <1>1, <1>2 DEF Patience, Reading, Ledger
<1>4. /\ UNCHANGED <<want, seen, due, leased, gone, source, live, unheard, job>>
      /\ pc'[t] = "call" /\ \A u \in Tasks : u # t => pc'[u] = pc[u]
      /\ bound' = [bound EXCEPT ![i] = job[t].res]
  BY <1>1, <1>2, <1>3 DEF Rows, TypeOK, Attach, AttachTo, providerVars
<1>5. bound'[i] = job[t].res /\ \A x \in Items : x # i => bound'[x] = bound[x]
  BY <1>2, <1>4 DEF Rows, TypeOK
<1>6. Reading(t, i)'
  BY <1>3, <1>4, <1>5 DEF Reading
<1>7. Ledger(i)'
  <2>1. \A id \in live'[i] : id # 0 /\ id # bound[i]
    BY <1>3, <1>4 DEF Ledger
  <2>. QED BY <1>3, <1>4, <2>1 DEF Ledger
<1>8. /\ pc'[t] # "idle" /\ job'[t].item = job[t].item /\ job'[t].kind = job[t].kind
      /\ \A u \in Tasks : u # t => pc'[u] = pc[u] /\ job'[u] = job[u]
      /\ \A x \in Items : x # job[t].item => live'[x] = live[x] /\ unheard'[x] = unheard[x] /\ bound'[x] = bound[x]
  BY <1>2, <1>4, <1>5
<1>9. Reading(t, job[t].item)' /\ Ledger(job[t].item)'
  BY <1>2, <1>4, <1>6, <1>7
<1>. QED BY <1>1, <1>4, <1>8, <1>9, TaskGoesOn

LEMMA CallPatience ==
  ASSUME Rows, Patience, NEW t \in Tasks, Call(t) PROVE Patience'
<1>1. job[t] \in Jobs /\ pc[t] = "call" /\ pc[t] # "idle"
  BY BusyTask DEF Rows, Call
<1>2. PICK i \in Items : i = job[t].item
  BY <1>1 DEF Jobs
<1>3. job[t].res = bound[i] /\ want[i] = job[t].want /\ Ledger(i)
  BY <1>1, <1>2 DEF Patience, Reading
<1>4. unheard' = unheard /\ live'[i] \subseteq live[i] /\ \A x \in Items : x # i => live'[x] = live[x]
  BY <1>2 DEF Rows, TypeOK, Call
<1>5. ASSUME UNCHANGED <<want, seen, due, leased, gone, source, bound>>,
             \A u \in Tasks : u # t => pc'[u] = pc[u] /\ job'[u] = job[u],
             pc'[t] \in {"record", "fail"}, job'[t].item = job[t].item, job'[t].want = job[t].want,
             job'[t].kind = job[t].kind, job'[t].res = job[t].res,
             pc'[t] = "record" /\ job[t].want = "deleted" => job[t].res \notin live'[i]
      PROVE  Patience'
  <2>1. Reading(t, i)'
    BY <1>3, <1>5 DEF Reading
  <2>2. Ledger(i)'
    BY <1>1, <1>2, <1>4, <1>5, LedgerStays
  <2>3. Reading(t, job[t].item)' /\ Ledger(job[t].item)'
    BY <1>2, <1>5, <2>1, <2>2
  <2>4. \A x \in Items : x # job[t].item => live'[x] = live[x] /\ unheard'[x] = unheard[x] /\ bound'[x] = bound[x]
    BY <1>2, <1>4, <1>5
  <2>5. pc'[t] # "idle"
    BY <1>5
  <2>. QED BY <1>1, <1>5, <2>3, <2>4, <2>5, TaskGoesOn
<1>6. ASSUME Goto(t, "record", job[t]), job[t].want = "deleted" => job[t].res \notin live'[i] PROVE Patience'
  <2>1. /\ UNCHANGED <<want, seen, due, leased, gone, source, bound>>
        /\ \A u \in Tasks : u # t => pc'[u] = pc[u] /\ job'[u] = job[u]
        /\ pc'[t] = "record" /\ job'[t] = job[t]
    BY <1>6, GotoKeeps
  <2>. QED BY <1>5, <1>6, <2>1
<1>7. ASSUME NEW outcomes, Fails(t, outcomes) PROVE Patience'
  <2>1. /\ UNCHANGED <<want, seen, due, leased, gone, source, bound>>
        /\ \A u \in Tasks : u # t => pc'[u] = pc[u] /\ job'[u] = job[u]
        /\ pc'[t] = "fail" /\ job'[t].item = job[t].item /\ job'[t].want = job[t].want
        /\ job'[t].kind = job[t].kind /\ job'[t].res = job[t].res
    BY <1>1, <1>7, FailsKeeps
  <2>. QED BY <1>5, <2>1
<1>. QED BY <1>2, <1>6, <1>7 DEF Call

\* Who works on an item is no idle task.
LEMMA WorkerIsBusy ==
  ASSUME Rows, NEW u \in Tasks, job[u].item \in Items
  PROVE  pc[u] # "idle" /\ job[u] \in Jobs
<1>1. pc[u] # "idle"
  BY KindsAssumption DEF Rows, TypeOK, Idle, Items
<1>. QED BY <1>1, BusyTask DEF Rows

\* A task that ends leaves its item to others.
LEMMA TaskEnds ==
  ASSUME Rows, Patience, NEW t \in Tasks, NEW i \in Items, i = job[t].item,
         pc'[t] = "idle", job'[t] = Idle,
         \A u \in Tasks : u # t => pc'[u] = pc[u] /\ job'[u] = job[u],
         UNCHANGED <<source, live>>, due' \subseteq due \union {i}, \A x \in leased : x # i => x \in leased',
         \A x \in Items : x # i => /\ bound'[x] = bound[x] /\ unheard'[x] = unheard[x]
                                   /\ x \in gone => seen'[x] = seen[x]
                                   /\ x \in gone' => x \in gone
                                   /\ (\E u \in Tasks : job[u].item = x) => want'[x] = want[x],
         \A s \in Snapshots : want'[s] = want[s],
         Ledger(i)'
  PROVE  Patience'
<1>1. pc[t] # "idle" /\ job'[t].item = NoItem /\ job'[t].kind = "none" /\ NoItem \notin Items
  BY WorkerIsBusy, KindsAssumption DEF Idle, Items
<1>2. ASSUME NEW u \in Tasks, u # t
      PROVE  pc[u] # "idle" => job[u].item \in Items /\ job[u].item # i
  BY <1>1, <1>2, BusyTask DEF Rows, Jobs, Patience, Alone
<1>3. Alone'
  BY DEF Patience, Alone
<1>4. ASSUME NEW u \in Tasks PROVE Held(u)'
  <2>1. CASE u = t
    BY <1>1, <2>1 DEF Held
  <2>2. CASE u # t /\ pc[u] = "idle"
    <3>1. job'[u] = Idle
      BY <2>2 DEF Rows, TypeOK
    <3>. QED BY <3>1 DEF Held, Idle
  <2>3. CASE u # t /\ pc[u] # "idle"
    BY <1>2, <2>3 DEF Patience, Held
  <2>. QED BY <2>1, <2>2, <2>3
<1>5. ASSUME NEW u \in Tasks PROVE Reading(u, job[u].item)'
  <2>1. CASE pc'[u] = "idle"
    BY <2>1 DEF Reading
  <2>2. CASE u # t /\ pc[u] # "idle"
    <3>1. PICK x \in Items : x = job[u].item /\ x # i
      BY <1>2, <2>2
    <3>2. pc'[u] = pc[u] /\ job'[u] = job[u] /\ bound'[x] = bound[x] /\ want'[x] = want[x]
          /\ live' = live /\ Reading(u, x)
      BY <2>2, <3>1 DEF Patience
    <3>3. Reading(u, x)'
      BY <3>2 DEF Reading
    <3>. QED BY <3>1, <3>2, <3>3
  <2>. QED BY <2>1, <2>2
<1>6. ASSUME NEW s \in Snapshots PROVE HostUntouched(s)'
  <2>1. SUFFICES ASSUME want'[s] = "ready", s \in due' \/ \E u \in Tasks : job'[u].item = s
                 PROVE  source'[s] \in Hosts \ due' /\ \A u \in Tasks : job'[u].item # source'[s]
    BY DEF HostUntouched
  <2>2. s \in Items /\ s # NoItem
    BY KindsAssumption DEF Items
  <2>3. want[s] = "ready" /\ (s \in due \/ \E u \in Tasks : job[u].item = s)
    BY <1>1, <2>1, <2>2
  <2>4. source[s] \in Hosts \ due /\ \A u \in Tasks : job[u].item # source[s]
    BY <2>3 DEF Patience, HostUntouched
  <2>. QED BY <1>1, <2>4, KindsAssumption DEF Items
<1>7. ASSUME NEW x \in Items PROVE Ledger(x)'
  <2>1. CASE x = i
    BY <2>1
  <2>2. CASE x # i
    <3>1. /\ Ledger(x) /\ live'[x] = live[x] /\ bound'[x] = bound[x] /\ unheard'[x] = unheard[x]
          /\ \A u \in Tasks : job[u].item = x => job'[u] = job[u]
          /\ \A u \in Tasks : job'[u].item = x => job'[u] = job[u]
      BY <1>1, <2>2 DEF Patience
    <3>2. x \in gone' => x \in gone /\ seen'[x] = seen[x] /\ x \notin due' 
      BY <2>2, <3>1 DEF Ledger
    <3>. QED BY <3>1, <3>2 DEF Ledger
  <2>. QED BY <2>1, <2>2
<1>. QED BY <1>3, <1>4, <1>5, <1>6, <1>7 DEF Patience

\* What the item of a task that ends has at the provider.
LEMMA LedgerLeft ==
  ASSUME Rows, Patience, NEW t \in Tasks, NEW i \in Items, i = job[t].item, live' = live,
         job'[t] = Idle, \A u \in Tasks : u # t => job'[u] = job[u],
         bound'[i] = bound[i] \/ bound[i] = 0, unheard[i] \subseteq unheard'[i],
         job[t].res \in {0, bound'[i]} \union unheard'[i],
         i \in gone' => bound'[i] \notin live[i] /\ i \notin due' /\ seen'[i] = "deleted"
  PROVE  Ledger(i)'
<1>1. pc[t] # "idle" /\ Ledger(i) /\ job'[t].item # i
  BY WorkerIsBusy, KindsAssumption DEF Patience, Idle, Items
<1>2. \A u \in Tasks : job[u].item = i => u = t
  BY <1>1, WorkerIsBusy DEF Patience, Alone
<1>3. \A u \in Tasks : job'[u].item # i
  BY <1>1, <1>2
<1>4. ASSUME NEW id \in live'[i] PROVE id = bound'[i] \/ id \in unheard'[i]
  BY <1>1, <1>2 DEF Ledger
<1>5. 0 \notin live'[i]
  BY <1>1 DEF Ledger
<1>. QED BY <1>3, <1>4, <1>5 DEF Ledger

LEMMA CrashPatience ==
  ASSUME Rows, Patience, NEW t \in Tasks, Crash(t) PROVE Patience'
<1>1. job[t] \in Jobs /\ pc[t] # "idle"
  BY BusyTask DEF Rows, Crash
<1>2. PICK i \in Items : i = job[t].item
  BY <1>1 DEF Jobs
<1>3. /\ UNCHANGED <<want, seen, due, leased, gone, bound, source, live>>
      /\ pc'[t] = "idle" /\ job'[t] = Idle
      /\ \A u \in Tasks : u # t => pc'[u] = pc[u] /\ job'[u] = job[u]
  BY DEF Rows, TypeOK, Crash, itemVars
<1>4. \A x \in Items : x # i => unheard'[x] = unheard[x]
  BY <1>2 DEF Rows, TypeOK, Crash
<1>5. unheard[i] \subseteq unheard'[i]
  BY <1>2 DEF Rows, TypeOK, Crash
<1>6. pc[t] = "attach" \/ (pc[t] = "record" /\ i \in Snapshots /\ job[t].want = "ready") => job[t].res \in unheard'[i]
  BY <1>2 DEF Rows, TypeOK, Crash
<1>7. job[t].res \in {0, bound'[i]} \union unheard'[i]
  <2>1. Reading(t, i) /\ pc[t] \in {"claimed", "create", "attach", "call", "record", "fail"}
    BY <1>1, <1>2 DEF Patience, Rows, TypeOK
  <2>. QED BY <1>3, <1>6, <2>1 DEF Reading
<1>8. i \notin gone
  BY <1>2 DEF Patience, Ledger
<1>9. Ledger(i)'
  BY <1>2, <1>3, <1>5, <1>7, <1>8, LedgerLeft
<1>. QED BY <1>2, <1>3, <1>4, <1>9, TaskEnds

LEMMA RecordFailurePatience ==
  ASSUME Rows, Patience, NEW t \in Tasks, RecordFailure(t) PROVE Patience'
<1>1. job[t] \in Jobs /\ pc[t] = "fail" /\ pc[t] # "idle"
  BY BusyTask DEF Rows, RecordFailure
<1>2. PICK i \in Items : i = job[t].item
  BY <1>1 DEF Jobs
<1>3. /\ UNCHANGED <<want, gone, bound, source, live, unheard>>
      /\ pc'[t] = "idle" /\ job'[t] = Idle
      /\ \A u \in Tasks : u # t => pc'[u] = pc[u] /\ job'[u] = job[u]
  BY DEF Rows, TypeOK, RecordFailure, Done, itemVars, providerVars
<1>4. due' \subseteq due \union {i} /\ \A x \in leased : x # i => x \in leased'
  BY <1>2 DEF RecordFailure, itemVars
<1>5. \A x \in Items : x # i => seen'[x] = seen[x]
  BY <1>2 DEF Rows, TypeOK, RecordFailure, itemVars
<1>6. job[t].res = bound[i] /\ i \notin gone
  BY <1>1, <1>2 DEF Patience, Reading, Ledger
<1>7. Ledger(i)'
  BY <1>2, <1>3, <1>6, LedgerLeft
<1>. QED BY <1>2, <1>3, <1>4, <1>5, <1>7, TaskEnds

\* An image that is recorded pauses a host nobody works on.
LEMMA RecordPatience ==
  ASSUME Rows, Patience, NEW t \in Tasks, Record(t) PROVE Patience'
<1>1. job[t] \in Jobs /\ pc[t] = "record" /\ pc[t] # "idle"
  BY BusyTask DEF Rows, Record
<1>2. PICK i \in Items : i = job[t].item
  BY <1>1 DEF Jobs
<1>3. want[i] = job[t].want /\ Reading(t, i) /\ i \notin gone
  BY <1>1, <1>2 DEF Patience, Reading, Ledger
<1>4. PICK p : /\ p = {IF i \in Snapshots /\ job[t].want = "ready" THEN source[i] ELSE NoItem} \ (gone \union {NoItem})
  OBVIOUS
<1>5. /\ seen' = [x \in Items |-> IF x = i THEN job[t].want ELSE IF x \in p THEN "paused" ELSE seen[x]]
      /\ want' = [x \in Items |-> IF x \in p THEN "paused" ELSE want[x]]
      /\ bound' = IF i \in Snapshots /\ job[t].want = "ready" THEN [bound EXCEPT ![i] = job[t].res] ELSE bound
      /\ gone' = IF job[t].want = "deleted" THEN gone \union {i} ELSE gone
      /\ due' = (due \ {i}) \ p /\ leased' = leased \ {i} /\ source' = source
  BY <1>2, <1>3, <1>4 DEF Record, StillWanted, Completes
<1>6. /\ UNCHANGED <<live, unheard>> /\ pc'[t] = "idle" /\ job'[t] = Idle
      /\ \A u \in Tasks : u # t => pc'[u] = pc[u] /\ job'[u] = job[u]
  BY DEF Rows, TypeOK, Record, Done, providerVars
<1>7. p \subseteq Hosts /\ \A x \in p : x \notin gone /\ \A u \in Tasks : job[u].item # x
  BY <1>2, <1>3, <1>4 DEF Patience, HostUntouched, Rows, TypeOK
<1>8. /\ \A x \in Items : x # i => /\ bound'[x] = bound[x] /\ unheard'[x] = unheard[x]
                                   /\ x \in gone => seen'[x] = seen[x]
                                   /\ x \in gone' => x \in gone
                                   /\ (\E u \in Tasks : job[u].item = x) => want'[x] = want[x]
      /\ \A s \in Snapshots : want'[s] = want[s]
  BY <1>5, <1>6, <1>7, KindsAssumption DEF Rows, TypeOK, Items
<1>9. Ledger(i)'
  <2>1. bound'[i] = bound[i] \/ bound[i] = 0
    BY <1>1, <1>3, <1>5 DEF Reading, Rows, TypeOK
  <2>2. job[t].res = bound'[i]
    BY <1>1, <1>3, <1>5 DEF Reading, Rows, TypeOK
  <2>3. i \in gone' => bound'[i] \notin live[i] /\ i \notin due' /\ seen'[i] = "deleted"
    BY <1>1, <1>3, <1>5 DEF Reading
  <2>. QED BY <1>2, <1>6, <2>1, <2>2, <2>3, LedgerLeft
<1>10. due' \subseteq due \union {i} /\ \A x \in leased : x # i => x \in leased'
  BY <1>5
<1>. QED BY <1>2, <1>5, <1>6, <1>8, <1>9, <1>10, TaskEnds

\* Nobody takes up a snapshot or works on it once it has settled.
LEMMA SettledSnapshot ==
  ASSUME Rows, Patience, NEW s \in Snapshots, Settled(s)
  PROVE  s \notin due /\ \A t \in Tasks : job[t].item # s
<1>1. ASSUME NEW t \in Tasks, job[t].item = s PROVE FALSE
  <2>1. job[t] \in Jobs
    BY <1>1, WorkerIsBusy DEF Items
  <2>2. job[t].kind # "operation"
    BY <1>1, KindsAssumption DEF Patience, Held
  <2>. QED BY <1>1, <2>1, <2>2 DEF Settled, Working, Jobs
<1>. QED BY <1>1 DEF Settled

\* A request about an item nobody works on, of a client that has waited for it.
LEMMA AskedPatience ==
  ASSUME Rows, Patience, NEW i \in Items, i \notin gone, \A t \in Tasks : job[t].item # i,
         UNCHANGED <<gone, bound, live, unheard, source, pc, job>>, due' = due \union {i},
         \A x \in leased : x # i => x \in leased',
         \A x \in Items : x # i => want'[x] = want[x] /\ seen'[x] = seen[x],
         \A s \in Snapshots : Exists(s) /\ source[s] = i => Settled(s),
         i \in Snapshots => want'[i] # "ready"
  PROVE  Patience'
<1>1. Alone'
  BY DEF Patience, Alone
<1>2. \A u \in Tasks : Held(u)'
  BY DEF Patience, Held
<1>3. ASSUME NEW u \in Tasks PROVE Reading(u, job[u].item)'
  <2>1. CASE pc[u] = "idle"
    BY <2>1 DEF Reading
  <2>2. CASE pc[u] # "idle"
    <3>1. PICK x \in Items : x = job[u].item /\ x # i
      BY <2>2, BusyTask DEF Rows, Jobs
    <3>2. Reading(u, x) /\ want'[x] = want[x]
      BY <3>1 DEF Patience
    <3>3. Reading(u, x)'
      BY <3>2 DEF Reading
    <3>. QED BY <3>1, <3>3
  <2>. QED BY <2>1, <2>2
<1>4. ASSUME NEW s \in Snapshots PROVE HostUntouched(s)'
  <2>1. CASE s = i
    BY <2>1 DEF HostUntouched
  <2>2. CASE s # i /\ source[s] # i
    BY <2>2 DEF Patience, HostUntouched, Items
  <2>3. CASE s # i /\ source[s] = i
    <3>1. want'[s] = "ready" => Settled(s)
      BY <2>3 DEF Exists, Items
    <3>. QED BY <2>3, <3>1, SettledSnapshot DEF HostUntouched
  <2>. QED BY <2>1, <2>2, <2>3
<1>5. ASSUME NEW x \in Items PROVE Ledger(x)'
  <2>1. Ledger(x)
    BY DEF Patience
  <2>2. x \in gone => x # i
    OBVIOUS
  <2>. QED BY <2>1, <2>2 DEF Ledger
<1>. QED BY <1>1, <1>2, <1>3, <1>4, <1>5 DEF Patience

\* What is gone was created.
LEMMA GoneWasCreated ==
  ASSUME Rows, Patience, NEW i \in gone PROVE Exists(i)
<1>. QED BY DEF Rows, TypeOK, ObservedAgreesWithDesired, Patience, Ledger, Exists

LEMMA RequestPatience ==
  ASSUME Patient = TRUE, Rows, Created, Patience, NEW h \in Hosts,
         CreateHost(h) \/ PauseHost(h) \/ ResumeHost(h) \/ DeleteHost(h) \/ RefreshHost(h) \/ ResumeOnUse(h)
  PROVE  Patience'
<1>1. h \in Items /\ h \notin Snapshots
  BY KindsAssumption DEF Items
<1>2. May(h)
  BY DEF CreateHost, PauseHost, ResumeHost, DeleteHost, RequestHostState, RefreshHost, ResumeOnUse
<1>3. h \notin gone
  BY GoneWasCreated DEF CreateHost, PauseHost, ResumeHost, DeleteHost, RequestHostState, RefreshHost, ResumeOnUse
<1>4. /\ UNCHANGED <<gone, bound, live, unheard, source, pc, job>> /\ due' = due \union {h}
      /\ \A x \in leased : x # h => x \in leased'
  BY DEF CreateHost, PauseHost, ResumeHost, DeleteHost, RequestHostState, RefreshHost, ResumeOnUse, providerVars, taskVars
<1>5. \A x \in Items : x # h => want'[x] = want[x] /\ seen'[x] = seen[x]
  BY DEF CreateHost, PauseHost, ResumeHost, DeleteHost, RequestHostState, RefreshHost, ResumeOnUse, Rows, TypeOK
<1>6. (\A t \in Tasks : job[t].item # h) /\ \A s \in Snapshots : Exists(s) /\ source[s] = h => Settled(s)
  BY <1>2 DEF May
<1>. QED BY <1>1, <1>3, <1>4, <1>5, <1>6, AskedPatience

LEMMA DeleteSnapshotPatience ==
  ASSUME Patient = TRUE, Rows, Patience, NEW s \in Snapshots, DeleteSnapshot(s) PROVE Patience'
<1>1. s \in Items /\ s \notin Hosts /\ s # NoItem
  BY KindsAssumption DEF Items
<1>2. May(s) /\ s \notin gone
  BY DEF DeleteSnapshot
<1>3. /\ UNCHANGED <<gone, bound, live, unheard, source, pc, job>> /\ due' = due \union {s}
      /\ \A x \in leased : x # s => x \in leased'
  BY DEF DeleteSnapshot, providerVars, taskVars
<1>4. want'[s] = "deleted" /\ \A x \in Items : x # s => want'[x] = want[x] /\ seen'[x] = seen[x]
  BY <1>1 DEF DeleteSnapshot, Rows, TypeOK
<1>5. (\A t \in Tasks : job[t].item # s) /\ \A r \in Snapshots : Exists(r) /\ source[r] = s => Settled(r)
  BY <1>2 DEF May
<1>. QED BY <1>1, <1>2, <1>3, <1>4, <1>5, AskedPatience

\* A new snapshot finds its host ready and left alone.
LEMMA CreateSnapshotPatience ==
  ASSUME Patient = TRUE, Rows, Created, Patience, NEW s \in Snapshots, NEW h \in Hosts, CreateSnapshot(s, h)
  PROVE  Patience'
<1>1. s \in Items /\ s \notin Hosts /\ s # NoItem /\ h \in Items
  BY KindsAssumption DEF Items
<1>2. /\ UNCHANGED <<seen, leased, gone, bound, live, unheard, pc, job>> /\ due' = due \union {s}
      /\ source' = [source EXCEPT ![s] = h] /\ want' = [want EXCEPT ![s] = "ready"] /\ ~Exists(s)
  BY DEF CreateSnapshot, providerVars, taskVars
<1>3. /\ source'[s] = h /\ want'[s] = "ready"
      /\ \A r \in Snapshots : r # s => source'[r] = source[r]
      /\ \A x \in Items : x # s => want'[x] = want[x]
  BY <1>1, <1>2 DEF Rows, TypeOK
<1>4. h \notin due /\ \A t \in Tasks : job[t].item # h
  BY DEF CreateSnapshot, May, Exists, Settled
<1>5. \A t \in Tasks : job[t].item # s
  BY <1>1, <1>2, WorkerIsBusy DEF Created
<1>6. s \notin gone
  BY <1>2, GoneWasCreated
<1>7. Alone'
  BY <1>2 DEF Patience, Alone
<1>8. \A u \in Tasks : Held(u)'
  BY <1>1, <1>2 DEF Patience, Held
<1>9. ASSUME NEW u \in Tasks PROVE Reading(u, job[u].item)'
  <2>1. CASE pc[u] = "idle"
    BY <1>2, <2>1 DEF Reading
  <2>2. CASE pc[u] # "idle"
    <3>1. PICK x \in Items : x = job[u].item /\ x # s
      BY <1>5, <2>2, BusyTask DEF Rows, Jobs
    <3>2. Reading(u, x) /\ want'[x] = want[x]
      BY <1>3, <3>1 DEF Patience
    <3>3. Reading(u, x)'
      BY <1>2, <3>2 DEF Reading
    <3>. QED BY <1>2, <3>1, <3>3
  <2>. QED BY <2>1, <2>2
<1>10. ASSUME NEW r \in Snapshots PROVE HostUntouched(r)'
  <2>1. CASE r = s
    BY <1>1, <1>2, <1>3, <1>4, <2>1 DEF HostUntouched
  <2>2. CASE r # s
    BY <1>1, <1>2, <1>3, <2>2 DEF Patience, HostUntouched, Items
  <2>. QED BY <2>1, <2>2
<1>11. ASSUME NEW x \in Items PROVE Ledger(x)'
  <2>1. Ledger(x)
    BY DEF Patience
  <2>2. x \in gone => x # s
    BY <1>6
  <2>. QED BY <1>2, <2>1, <2>2 DEF Ledger
<1>. QED BY <1>7, <1>8, <1>9, <1>10, <1>11 DEF Patience

\* A task that takes up an item finds nobody else at work on it.
LEMMA TakenUp ==
  ASSUME Rows, Patience, NEW t \in Tasks, NEW i \in Items, pc[t] = "idle", pc'[t] # "idle", job'[t].item = i,
         UNCHANGED <<want, seen, due, gone, bound, source, live, unheard>>, leased \subseteq leased',
         \A u \in Tasks : u # t => pc'[u] = pc[u] /\ job'[u] = job[u],
         \A u \in Tasks : job[u].item # i, i \notin gone,
         \A s \in Snapshots : want[s] = "ready" /\ (s \in due \/ \E u \in Tasks : job[u].item = s) => source[s] # i,
         i \in Snapshots => i \in due,
         Held(t)', Reading(t, i)'
  PROVE  Patience'
<1>1. job[t] = Idle /\ job[t].item \notin Items
  BY KindsAssumption DEF Rows, TypeOK, Idle, Items
<1>2. Alone'
  BY DEF Patience, Alone
<1>3. ASSUME NEW u \in Tasks PROVE Held(u)'
  BY DEF Patience, Held
<1>4. ASSUME NEW u \in Tasks PROVE Reading(u, job[u].item)'
  <2>1. CASE u = t
    BY <2>1
  <2>2. CASE u # t
    <3>1. PICK x : x = job[u].item
      OBVIOUS
    <3>2. Reading(u, x) /\ pc'[u] = pc[u] /\ job'[u] = job[u]
      BY <2>2, <3>1 DEF Patience
    <3>3. Reading(u, x)'
      BY <3>2 DEF Reading
    <3>. QED BY <3>1, <3>2, <3>3
  <2>. QED BY <2>1, <2>2
<1>5. ASSUME NEW s \in Snapshots PROVE HostUntouched(s)'
  <2>1. SUFFICES ASSUME want'[s] = "ready", s \in due' \/ \E u \in Tasks : job'[u].item = s
                 PROVE  source'[s] \in Hosts \ due' /\ \A u \in Tasks : job'[u].item # source'[s]
    BY DEF HostUntouched
  <2>2. want[s] = "ready" /\ (s \in due \/ \E u \in Tasks : job[u].item = s)
    BY <2>1
  <2>3. source[s] \in Hosts \ due /\ (\A u \in Tasks : job[u].item # source[s]) /\ source[s] # i
    BY <2>2 DEF Patience, HostUntouched
  <2>. QED BY <2>3
<1>6. ASSUME NEW x \in Items PROVE Ledger(x)'
  <2>1. Ledger(x) /\ \A u \in Tasks : job[u].item = x => job'[u] = job[u]
    BY <1>1 DEF Patience
  <2>2. x \in gone => \A u \in Tasks : job'[u].item # x
    BY <2>1 DEF Ledger
  <2>. QED BY <2>1, <2>2 DEF Ledger
<1>. QED BY <1>2, <1>3, <1>4, <1>5, <1>6 DEF Patience

LEMMA ClaimPatience ==
  ASSUME Rows, Patience, NEW t \in Tasks, NEW i \in Items, Claim(t, i) PROVE Patience'
<1>1. PICK j : j = [Idle EXCEPT !.item = i, !.kind = "reconcile"]
  OBVIOUS
<1>2. j.item = i /\ j.kind = "reconcile" /\ j.res = 0
  BY <1>1 DEF Idle
<1>3. /\ UNCHANGED <<want, seen, due, gone, bound, source, live, unheard>> /\ leased' = leased \union {i}
      /\ pc[t] = "idle" /\ i \in due \ leased
      /\ pc'[t] = "claimed" /\ job'[t] = j
      /\ \A u \in Tasks : u # t => pc'[u] = pc[u] /\ job'[u] = job[u]
  BY <1>1 DEF Claim, Rows, TypeOK, providerVars
<1>4. ASSUME NEW u \in Tasks, job[u].item = i PROVE FALSE
  <2>1. job[u].kind \in {"reconcile", "operation"}
    BY <1>4, WorkerIsBusy DEF Jobs
  <2>. QED BY <1>3, <1>4, <2>1 DEF Patience, Held
<1>5. i \notin gone
  BY <1>3 DEF Patience, Ledger
<1>6. \A s \in Snapshots : want[s] = "ready" /\ (s \in due \/ \E u \in Tasks : job[u].item = s) => source[s] # i
  BY <1>3 DEF Patience, HostUntouched
<1>7. Held(t)' /\ Reading(t, i)'
  BY <1>2, <1>3 DEF Held, Reading
<1>. QED BY <1>2, <1>3, <1>4, <1>5, <1>6, <1>7, TakenUp

LEMMA StartOperationPatience ==
  ASSUME Patient = TRUE, Rows, Patience, NEW t \in Tasks, NEW h \in Hosts, StartOperation(t, h)
  PROVE  Patience'
<1>1. PICK j : j = [Idle EXCEPT !.item = h, !.kind = "operation", !.res = bound[h]]
  OBVIOUS
<1>2. j.item = h /\ j.kind = "operation" /\ j.res = bound[h] /\ j.want = "ready"
  BY <1>1 DEF Idle
<1>3. /\ UNCHANGED <<want, seen, due, leased, gone, bound, source, live, unheard>>
      /\ pc[t] = "idle" /\ pc'[t] = "call" /\ job'[t] = j /\ want[h] = "ready" /\ h \notin gone
      /\ \A u \in Tasks : u # t => pc'[u] = pc[u] /\ job'[u] = job[u]
  BY <1>1 DEF StartOperation, Rows, TypeOK, itemVars, providerVars
<1>4. h \notin due /\ \A u \in Tasks : job[u].item # h
  BY DEF StartOperation, May, Exists, Settled
<1>5. ASSUME NEW s \in Snapshots, want[s] = "ready", source[s] = h
      PROVE  s \notin due /\ \A u \in Tasks : job[u].item # s
  <2>1. Settled(s)
    BY <1>5 DEF StartOperation, May, Exists
  <2>. QED BY <2>1, SettledSnapshot
<1>6. h \in Items /\ h \notin Snapshots
  BY KindsAssumption DEF Items
<1>7. Held(t)' /\ Reading(t, h)'
  BY <1>2, <1>3, <1>4 DEF Held, Reading
<1>. QED BY <1>2, <1>3, <1>4, <1>5, <1>6, <1>7, TakenUp

LEMMA LeaseExpiresPatience ==
  ASSUME SlowTasks = FALSE, Rows, Patience, NEW i \in Items, LeaseExpires(i) PROVE Patience'
<1>1. /\ UNCHANGED <<want, seen, due, gone, bound, source, live, unheard, pc, job>> /\ leased' = leased \ {i}
      /\ Working(i) = {}
  BY DEF LeaseExpires, providerVars, taskVars
<1>2. \A t \in Tasks : Held(t)'
  BY <1>1 DEF Patience, Held, Working
<1>3. \A t \in Tasks : Reading(t, job[t].item)'
  BY <1>1 DEF Patience, Reading
<1>4. Alone' /\ \A s \in Snapshots : HostUntouched(s)'
  BY <1>1 DEF Patience, Alone, HostUntouched
<1>5. \A x \in Items : Ledger(x)'
  BY <1>1 DEF Patience, Ledger
<1>. QED BY <1>2, <1>3, <1>4, <1>5 DEF Patience

LEMMA NextPatience ==
  ASSUME Patient = TRUE, SlowTasks = FALSE, Rows, Created, Patience, [Next]_vars PROVE Patience'
<1>1. ASSUME NEW t \in Tasks, Step(t) PROVE Patience'
  BY <1>1, ReadWorkPatience, CreatePatience, AttachPatience, CallPatience, RecordPatience, RecordFailurePatience
     DEF Step
<1>2. CASE Request
  BY <1>2, RequestPatience, StartOperationPatience, DeleteSnapshotPatience, CreateSnapshotPatience DEF Request
<1>3. CASE \E t \in Tasks : Step(t) \/ Crash(t) \/ \E i \in Items : Claim(t, i)
  BY <1>1, <1>3, CrashPatience, ClaimPatience
<1>4. CASE \E i \in Items : LeaseExpires(i)
  BY <1>4, LeaseExpiresPatience
<1>5. CASE UNCHANGED vars
  <2>1. UNCHANGED <<want, seen, due, leased, gone, bound, source, live, unheard, pc, job>>
    BY <1>5 DEF vars, itemVars, providerVars, taskVars
  <2>. QED BY <2>1 DEF Patience, Alone, Held, Reading, HostUntouched, Ledger
<1>. QED BY <1>2, <1>3, <1>4, <1>5 DEF Next

LEMMA PatienceInvariant ==
  ASSUME Patient = TRUE, SlowTasks = FALSE PROVE Spec => [](Rows /\ Created /\ Patience)
<1>1. Init => Rows /\ Created /\ Patience
  BY InitRows, InitCreated, InitPatience
<1>2. Rows /\ Created /\ Patience /\ [Next]_vars => (Rows /\ Created /\ Patience)'
  BY NextRows, NextCreated, NextPatience
<1>. QED BY <1>1, <1>2, PTL DEF Spec

\* With clients that wait for an item to settle, and tasks that end within their
\* lease, every sandbox and image at the provider is the item's own, in the hands
\* of a task, or one whose id never reached the gateway, whatever fails or stops
\* between the provider's call and the record of it (lifecycle.rs:203-260).
THEOREM NothingIsEverForgotten ==
  ASSUME Patient = TRUE, SlowTasks = FALSE PROVE Spec => []NothingIsForgotten
<1>1. Rows /\ Created /\ Patience => NothingIsForgotten
  BY DEF Patience, Ledger, NothingIsForgotten
<1>. QED BY <1>1, PatienceInvariant, PTL

\* With such clients a deleted item is never written again: no late failure, retry
\* or snapshot of it turns up after its deletion was recorded (fail_host and
\* fail_snapshot do not look at deleted_at; database.rs:1018-1029).
THEOREM DeletionsAreFinal ==
  ASSUME Patient = TRUE, SlowTasks = FALSE PROVE Spec => DeletedIsFinal
<1>1. ASSUME NEW i \in gone, Patience, Patience', gone \subseteq gone', TypeOK PROVE seen'[i] = "deleted"
  BY <1>1 DEF Patience, Ledger, TypeOK
<1>2. ASSUME TypeOK, [Next]_vars PROVE gone \subseteq gone'
  <2>1. ASSUME NEW t \in Tasks, Step(t) PROVE gone \subseteq gone'
    BY <2>1 DEF Step, ReadWork, Create, Attach, Call, Record, RecordFailure, Completes, Goto, Fails, itemVars
  <2>2. CASE Request
    BY <2>2 DEF Request, CreateHost, PauseHost, ResumeHost, DeleteHost, RequestHostState, RefreshHost, ResumeOnUse,
                StartOperation, CreateSnapshot, DeleteSnapshot, itemVars
  <2>. QED BY <1>2, <2>1, <2>2 DEF Next, Crash, Claim, LeaseExpires, vars, itemVars
<1>3. Rows /\ Created /\ Patience /\ (Rows /\ Created /\ Patience)' /\ [Next]_vars
        => [\A i \in gone : seen'[i] = "deleted"]_vars
  BY <1>1, <1>2 DEF Rows
<1>. QED BY <1>3, PatienceInvariant, PTL DEF Spec, DeletedIsFinal

-----------------------------------------------------------------------------
(***************************************************************************)
(* RemoteOperations                                                        *)
(***************************************************************************)
\* The phases in which a call that creates a host or a process may have been sent.
Sent == {"submitted", "bound"}

Kind(o) == IF o \in Sandboxes THEN SandboxStatus ELSE ExecutionStatus

\* A copy with the latest epoch belongs to the row's holder and is ahead of the row.
Ahead(l, r) ==
    /\ r.epoch <= epoch[r.op]
    /\ r.epoch = epoch[r.op] =>
          /\ holder[r.op] = l
          /\ r.op \notin finished
          /\ cursor[r.op] <= r.cursor
          /\ phase[r.op] \in Sent => r.phase \in Sent

\* What a copy reports is true of the world outside, whether or not the lane may
\* still write it.
Truthful(r) ==
    /\ r.op \in Sandboxes /\ r.finished => r.phase \notin Sent \/ host[r.op] = "deleted"
    /\ r.op \in Executions /\ r.confirmed => r.phase \notin Sent \/ process[r.op] \in Ended
    /\ r.op \in Executions /\ r.finished /\ r.phase = "bound" /\ r.status # "lost" =>
          process[r.op] \in Ended /\ r.cursor = output[r.op]

\* A lane that is about to call the gateway: had its row's request not been sent
\* when it was copied, it calls nothing that creates.
Fresh(r) == ~r.finished /\ ~r.confirmed /\ (r.phase \in Sent => phase[r.op] \in Sent)

Copies ==
    \A l \in Lanes : lanePc[l] # "idle" =>
        /\ work[l].status \in Kind(work[l].op)
        /\ status[work[l].op] # "absent"
        /\ work[l].confirmed => work[l].finished
        /\ Ahead(l, work[l])
        /\ Truthful(work[l])
        /\ lanePc[l] = "taken" => Fresh(work[l])

Reports ==
    /\ \A o \in finished : status[o] # "absent"
    /\ \A o \in Sandboxes :
          /\ phase[o] \notin Sent => host[o] = "none"
          /\ o \in finished => phase[o] \notin Sent \/ host[o] = "deleted"
    /\ \A o \in Executions :
          /\ phase[o] \notin Sent => process[o] = "none"
          /\ o \in confirmed => phase[o] \notin Sent \/ process[o] \in Ended
          /\ o \in finished /\ phase[o] = "bound" /\ status[o] # "lost" =>
                process[o] \in Ended /\ cursor[o] = output[o]

\* The inductive invariant.
RemoteInv == RemoteTypeOK /\ Copies /\ Reports

\* What a step leaves of the world: a deleted host and an ended process stay, and
\* nothing appears before the row's request was sent.
WorldKept ==
    /\ host' \in [Sandboxes -> {"none", "provisioning", "ready", "unrooted", "unavailable", "deleted"}]
    /\ doomed' \subseteq Sandboxes
    /\ process' \in [Executions -> {"none", "running", "stopping"} \union Ended]
    /\ output' \in [Executions -> Nat]
    /\ supervisor' \in Nat
    /\ \A o \in Sandboxes :
          /\ host[o] = "deleted" => host'[o] = "deleted"
          /\ phase[o] \notin Sent => host'[o] = host[o]
    /\ \A o \in Executions :
          /\ process[o] \in Ended => process'[o] = process[o] /\ output'[o] = output[o]
          /\ phase[o] \notin Sent => process'[o] = process[o]

LEMMA InitRemote == RemoteInit => RemoteInv
<1> SUFFICES ASSUME RemoteInit PROVE RemoteInv
  OBVIOUS
<1>1. RemoteTypeOK
  BY NoLaneAssumption, RemoteKindsAssumption DEF RemoteInit, RemoteTypeOK, Ops, Phases
<1>2. Copies /\ Reports
  BY DEF RemoteInit, Copies, Reports, Sent, Ops
<1> QED BY <1>1, <1>2 DEF RemoteInv

\* No copy is the empty one, and a lane that is not idle has a copy.
LEMMA CopiesAreTyped ==
    ASSUME RemoteTypeOK, NEW l \in Lanes, lanePc[l] # "idle"
    PROVE  work[l] \in CopyType /\ work[l].op \in Ops
  BY DEF RemoteTypeOK, CopyType

\* A step of the world outside.
LEMMA WorldStep ==
    ASSUME RemoteInv, WorldKept, UNCHANGED <<rowVars, asking, laneVars>>, overdue' \subseteq Executions
    PROVE  RemoteInv'
<1> USE DEF RemoteInv, rowVars, laneVars
<1>1. RemoteTypeOK'
  BY DEF RemoteTypeOK, WorldKept
<1>2. Copies'
  <2> SUFFICES ASSUME NEW l \in Lanes, lanePc[l] # "idle" PROVE
         /\ work[l].status \in Kind(work[l].op)
         /\ status[work[l].op] # "absent"
         /\ work[l].confirmed => work[l].finished
         /\ Ahead(l, work[l])
         /\ Truthful(work[l])'
         /\ lanePc[l] = "taken" => Fresh(work[l])
    BY DEF Copies, Ahead, Fresh
  <2>1. Truthful(work[l])'
    BY CopiesAreTyped DEF Copies, Truthful, WorldKept
  <2> QED BY <2>1 DEF Copies
<1>3. Reports'
  BY DEF Reports, WorldKept, RemoteTypeOK
<1> QED BY <1>1, <1>2, <1>3

\* A step of a lane: its new copy r is a true continuation of the one it took.
LEMMA LaneStep ==
    ASSUME RemoteInv, NEW l \in Lanes, NEW r \in CopyType, lanePc[l] = "taken", Stepped(l, r),
           WorldKept, r.op = work[l].op, r.epoch = work[l].epoch, work[l].cursor <= r.cursor,
           work[l].phase \in Sent => r.phase \in Sent, r.status \in Kind(r.op),
           r.confirmed => r.finished,
           r.op \in Sandboxes /\ r.finished => r.phase \notin Sent \/ host'[r.op] = "deleted",
           r.op \in Executions /\ r.confirmed => r.phase \notin Sent \/ process[r.op] \in Ended,
           r.op \in Executions /\ r.finished /\ r.phase = "bound" /\ r.status # "lost" =>
              process[r.op] \in Ended /\ r.cursor = output[r.op]
    PROVE  RemoteInv'
<1> USE DEF RemoteInv
<1>0. r # NoCopy
  <2>1. r.op \in Ops /\ work[l].op \in Ops
    BY CopiesAreTyped DEF CopyType
  <2>2. CASE r = NoCopy
    <3>1. "status" \in DOMAIN r /\ DOMAIN NoCopy = {"op"}
      BY DEF CopyType, NoCopy
    <3> QED BY <2>2, <3>1
  <2> QED BY <2>2
<1>1. RemoteTypeOK'
  BY <1>0 DEF RemoteTypeOK, WorldKept, Stepped, rowVars
<1>2. /\ UNCHANGED <<rowVars, asking, overdue>>
      /\ work'[l] = r /\ lanePc'[l] = "stepped"
      /\ \A m \in Lanes \ {l} : work'[m] = work[m] /\ lanePc'[m] = lanePc[m]
  BY DEF Stepped, RemoteTypeOK
<1>3. ASSUME NEW m \in Lanes, lanePc'[m] # "idle"
      PROVE  /\ work'[m].status \in Kind(work'[m].op)
             /\ status[work'[m].op] # "absent"
             /\ work'[m].confirmed => work'[m].finished
             /\ Ahead(m, work'[m])
             /\ Truthful(work[m])'
             /\ lanePc'[m] = "taken" => Fresh(work'[m])
  <2>1. CASE m = l
    <3>1. Ahead(l, r)
      <4>1. /\ work[l].epoch \in Nat /\ work[l].cursor \in Nat /\ r.cursor \in Nat
            /\ r.op \in Ops /\ cursor[r.op] \in Nat
        BY CopiesAreTyped DEF CopyType, RemoteTypeOK
      <4>2. Ahead(l, work[l])
        BY DEF Copies
      <4> QED BY <4>1, <4>2 DEF Ahead
    <3>2. Truthful(work[m])'
      BY <1>2, <2>1 DEF Truthful, WorldKept
    <3>3. status[r.op] # "absent"
      BY DEF Copies
    <3> QED BY <1>2, <2>1, <3>1, <3>2, <3>3
  <2>2. CASE m # l
    <3>1. work'[m] = work[m] /\ lanePc'[m] = lanePc[m]
      BY <1>2, <2>2
    <3>2. Truthful(work[m])'
      BY <1>3, <3>1, CopiesAreTyped DEF Copies, Truthful, WorldKept
    <3> QED BY <1>3, <3>1, <3>2 DEF Copies
  <2> QED BY <2>1, <2>2
<1>4. Copies'
  BY <1>2, <1>3 DEF Copies, Ahead, Fresh, rowVars
<1>5. Reports'
  BY <1>2 DEF Reports, WorldKept, RemoteTypeOK, rowVars
<1> QED BY <1>1, <1>4, <1>5

-----------------------------------------------------------------------------
(* One lemma per action. *)

LEMMA CreateSandboxRemote ==
    ASSUME RemoteInv, NEW o \in Sandboxes, CreateSandbox(o) PROVE RemoteInv'
<1> USE DEF RemoteInv, CreateSandbox, laneVars, remoteVars
<1>1. RemoteTypeOK'
  BY RemoteKindsAssumption DEF RemoteTypeOK, Ops, SandboxStatus
<1>2. Copies'
  BY CopiesAreTyped DEF RemoteTypeOK, Copies, Ahead, Truthful, Fresh, Ops
<1>3. Reports'
  BY RemoteKindsAssumption DEF RemoteTypeOK, Reports, Ops
<1> QED BY <1>1, <1>2, <1>3

LEMMA BashRemote ==
    ASSUME RemoteInv, NEW o \in Executions, Bash(o) PROVE RemoteInv'
<1> USE DEF RemoteInv, Bash, laneVars, remoteVars
<1>1. RemoteTypeOK'
  BY RemoteKindsAssumption DEF RemoteTypeOK, Ops, ExecutionStatus
<1>2. Copies'
  BY CopiesAreTyped DEF RemoteTypeOK, Copies, Ahead, Truthful, Fresh, Ops
<1>3. Reports'
  BY RemoteKindsAssumption DEF RemoteTypeOK, Reports, Ops
<1> QED BY <1>1, <1>2, <1>3

\* No lane has a copy of a row that is not there yet.
LEMMA AdoptSandboxRemote ==
    ASSUME RemoteInv, NEW o \in Sandboxes, AdoptSandbox(o) PROVE RemoteInv'
<1> USE DEF RemoteInv, AdoptSandbox, laneVars
<1>1. RemoteTypeOK'
  BY RemoteKindsAssumption DEF RemoteTypeOK, Ops, SandboxStatus, Phases
<1>2. Copies'
  <2>1. /\ \A q \in Ops \ {o} : status'[q] = status[q] /\ phase'[q] = phase[q]
        /\ \A q \in Sandboxes \ {o} : host'[q] = host[q]
        /\ UNCHANGED <<epoch, holder, finished, cursor, process, output, work, lanePc>>
    BY DEF RemoteTypeOK, Ops
  <2>2. ASSUME NEW l \in Lanes, lanePc[l] # "idle" PROVE work[l].op \in Ops \ {o}
    BY <2>2, CopiesAreTyped DEF Copies
  <2> QED BY <2>1, <2>2 DEF Copies, Ahead, Truthful, Fresh
<1>3. Reports'
  BY RemoteKindsAssumption DEF RemoteTypeOK, Reports, Ops, Sent
<1> QED BY <1>1, <1>2, <1>3

\* Requests, retries and lease expiry touch nothing a report is about.
LEMMA UnreportedRemote ==
    ASSUME RemoteInv, RemoteTypeOK',
           UNCHANGED <<status, phase, cursor, confirmed, finished, holder, epoch, laneVars, remoteVars>>
    PROVE  RemoteInv'
  BY DEF RemoteInv, Copies, Reports, Ahead, Truthful, Fresh, laneVars, remoteVars

LEMMA RequestsRemote ==
    ASSUME RemoteInv, NEW o \in Ops,
           AskCancel(o) \/ RequestCancel(o) \/ RetryElapses(o) \/ RemoteLeaseExpires(o)
    PROVE  RemoteInv'
<1>1. CASE AskCancel(o)
  <2>1. RemoteTypeOK'
    BY <1>1 DEF RemoteInv, RemoteTypeOK, AskCancel, rowVars, laneVars, remoteVars
  <2> QED BY <1>1, <2>1, UnreportedRemote DEF AskCancel, rowVars
<1>2. CASE RequestCancel(o)
  <2>1. RemoteTypeOK'
    BY <1>2 DEF RemoteInv, RemoteTypeOK, RequestCancel, laneVars, remoteVars
  <2> QED BY <1>2, <2>1, UnreportedRemote DEF RequestCancel
<1>3. CASE RetryElapses(o)
  <2>1. RemoteTypeOK'
    BY <1>3 DEF RemoteInv, RemoteTypeOK, RetryElapses, laneVars, remoteVars
  <2> QED BY <1>3, <2>1, UnreportedRemote DEF RetryElapses
<1>4. CASE RemoteLeaseExpires(o)
  <2>1. RemoteTypeOK'
    BY <1>4 DEF RemoteInv, RemoteTypeOK, RemoteLeaseExpires, laneVars, remoteVars
  <2> QED BY <1>4, <2>1, UnreportedRemote DEF RemoteLeaseExpires
<1> QED BY <1>1, <1>2, <1>3, <1>4

\* Taking a row makes every other copy of it outdated.
LEMMA TakeRemote ==
    ASSUME RemoteInv, NEW l \in Lanes, NEW o \in Ops, Take(l, o) PROVE RemoteInv'
<1> DEFINE r == [op |-> o, epoch |-> epoch[o] + 1, status |-> status[o], phase |-> phase[o],
                 generation |-> generation[o], cursor |-> cursor[o],
                 cancel |-> o \in cancel \/ o \in overdue, confirmed |-> o \in confirmed,
                 finished |-> FALSE, ok |-> TRUE]
<1> USE DEF RemoteInv
<1>1. r \in CopyType /\ r # NoCopy
  <2>1. status[o] \in SandboxStatus \union ExecutionStatus /\ epoch[o] + 1 \in Nat
    BY DEF Take, RemoteTypeOK
  <2>2. phase[o] \in Phases /\ generation[o] \in Nat /\ cursor[o] \in Nat
    BY DEF RemoteTypeOK
  <2>3. "status" \in DOMAIN r /\ DOMAIN NoCopy = {"op"}
    BY DEF NoCopy
  <2>4. r \in CopyType
    <3> DEFINE c == o \in cancel \/ o \in overdue
               d == o \in confirmed
    <3>1. c \in BOOLEAN /\ d \in BOOLEAN
      OBVIOUS
    <3> HIDE DEF c, d
    <3> QED BY <2>1, <2>2, <3>1 DEF CopyType, c, d
  <2> QED BY <2>3, <2>4
<1>2. /\ work'[l] = r /\ lanePc'[l] = "taken" /\ lanePc[l] = "idle"
      /\ \A m \in Lanes \ {l} : work'[m] = work[m] /\ lanePc'[m] = lanePc[m]
      /\ work' \in [Lanes -> CopyType \union {NoCopy}]
      /\ lanePc' \in [Lanes -> {"idle", "taken", "stepped"}]
  BY <1>1 DEF Take, RemoteTypeOK
<1>3. /\ epoch'[o] = epoch[o] + 1 /\ holder'[o] = l /\ epoch[o] \in Nat
      /\ \A q \in Ops \ {o} : epoch'[q] = epoch[q] /\ holder'[q] = holder[q]
      /\ epoch' \in [Ops -> Nat]
      /\ UNCHANGED <<status, phase, cursor, confirmed, finished, remoteVars>>
  BY DEF Take, RemoteTypeOK
<1>4. o \notin finished /\ o \notin confirmed /\ status[o] # "absent" /\ cursor[o] \in Nat
  BY DEF Take, RemoteTypeOK
<1>5. r.op = o /\ r.epoch = epoch[o] + 1 /\ r.status = status[o] /\ r.phase = phase[o]
      /\ r.cursor = cursor[o] /\ ~r.confirmed /\ r.finished = FALSE
  BY <1>4
<1> HIDE DEF r
<1>6. RemoteTypeOK'
  <2>1. /\ holder' \in [Ops -> Lanes \union {NoLane}]
        /\ lease' \in [Ops -> {"none", "live", "expired"}]
        /\ \A q \in Ops : holder'[q] = NoLane <=> lease'[q] = "none"
    BY NoLaneAssumption DEF RemoteTypeOK, Take
  <2>2. \A m \in Lanes : lanePc'[m] = "idle" <=> work'[m] = NoCopy
    BY <1>1, <1>2 DEF RemoteTypeOK
  <2> QED BY <1>2, <1>3, <2>1, <2>2 DEF RemoteTypeOK, Take, remoteVars
<1>7. ASSUME NEW m \in Lanes, lanePc'[m] # "idle"
      PROVE  /\ work'[m].status \in Kind(work'[m].op)
             /\ status'[work'[m].op] # "absent"
             /\ work'[m].confirmed => work'[m].finished
             /\ Ahead(m, work[m])'
             /\ Truthful(work[m])'
             /\ lanePc'[m] = "taken" => Fresh(work[m])'
  <2>1. CASE m = l
    BY <1>2, <1>3, <1>4, <1>5, <2>1 DEF Ahead, Truthful, Fresh, Kind, RemoteTypeOK
  <2>2. CASE m # l
    <3>1. work'[m] = work[m] /\ lanePc'[m] = lanePc[m] /\ work[m] \in CopyType
      BY <1>2, <1>7, <2>2, CopiesAreTyped
    <3>2. work[m].op \in Ops /\ work[m].epoch \in Nat
      BY <3>1 DEF CopyType
    <3>3. Ahead(m, work[m])'
      BY <1>3, <1>7, <3>1, <3>2 DEF Ahead, Copies
    <3> QED BY <1>3, <1>7, <3>1, <3>3 DEF Copies, Truthful, Fresh, remoteVars
  <2> QED BY <2>1, <2>2
<1>8. Copies'
  BY <1>7 DEF Copies, Kind
<1>9. Reports'
  BY <1>3 DEF Reports, remoteVars
<1> QED BY <1>6, <1>8, <1>9

\* The write-back: only a copy with the latest epoch reaches the row, and there is
\* one such copy.
LEMMA WriteBackRemote ==
    ASSUME RemoteInv, NEW l \in Lanes, WriteBack(l) PROVE RemoteInv'
<1> DEFINE r == work[l]
           o == r.op
<1> USE DEF RemoteInv
<1>1. r \in CopyType /\ o \in Ops /\ lanePc[l] = "stepped"
  BY CopiesAreTyped DEF WriteBack
<1>2. /\ r.status \in Kind(o) /\ status[o] # "absent" /\ (r.confirmed => r.finished)
      /\ Ahead(l, r) /\ Truthful(r)
  BY <1>1 DEF Copies
<1>3. /\ work'[l] = NoCopy /\ lanePc'[l] = "idle"
      /\ \A m \in Lanes \ {l} : work'[m] = work[m] /\ lanePc'[m] = lanePc[m]
      /\ work' \in [Lanes -> CopyType \union {NoCopy}]
      /\ lanePc' \in [Lanes -> {"idle", "taken", "stepped"}]
      /\ UNCHANGED <<epoch, asking, overdue, remoteVars>>
  BY DEF WriteBack, RemoteTypeOK
<1>4. CASE ~Holds(l, o)
  <2>1. UNCHANGED <<status, phase, generation, cursor, cancel, confirmed, finished, next, holder, lease>>
    BY <1>4 DEF WriteBack
  <2>2. RemoteTypeOK'
    BY <1>3, <2>1 DEF RemoteTypeOK, remoteVars
  <2>3. Copies'
    BY <1>3, <2>1 DEF Copies, Ahead, Truthful, Fresh, remoteVars
  <2>4. Reports'
    BY <1>3, <2>1 DEF Reports, remoteVars
  <2> QED BY <2>2, <2>3, <2>4
<1>5. CASE Holds(l, o)
  <2>1. /\ status' = [status EXCEPT ![o] = r.status]
        /\ phase' = [phase EXCEPT ![o] = r.phase]
        /\ generation' = [generation EXCEPT ![o] = r.generation]
        /\ cursor' = [cursor EXCEPT ![o] = r.cursor]
        /\ cancel' = CancelAfter(r)
        /\ confirmed' = IF r.confirmed THEN confirmed \union {o} ELSE confirmed \ {o}
        /\ finished' = IF r.finished THEN finished \union {o} ELSE finished \ {o}
        /\ next' = [next EXCEPT ![o] = NextAttempt(r)]
        /\ holder' = [holder EXCEPT ![o] = NoLane]
        /\ lease' = [lease EXCEPT ![o] = "none"]
    BY <1>5 DEF WriteBack
  <2>2. /\ r.epoch = epoch[o] /\ holder[o] = l /\ o \notin finished
        /\ phase[o] \in Sent => r.phase \in Sent
    BY <1>2, <1>5 DEF Holds, Ahead
  <2>3. /\ r.status \in SandboxStatus \union ExecutionStatus /\ r.phase \in Phases
        /\ r.generation \in Nat /\ r.cursor \in Nat
    BY <1>1 DEF CopyType
  <2> HIDE DEF r, o
  <2>4. RemoteTypeOK'
    <3>1. /\ status' \in [Ops -> SandboxStatus \union ExecutionStatus \union {"absent"}]
          /\ \A q \in Ops : status'[q] \in (IF q \in Sandboxes THEN SandboxStatus ELSE ExecutionStatus)
                                           \union {"absent"}
      <4>1. /\ status \in [Ops -> SandboxStatus \union ExecutionStatus \union {"absent"}]
            /\ \A q \in Ops : status[q] \in Kind(q) \union {"absent"}
        BY DEF RemoteTypeOK, Kind
      <4>2. \A q \in Ops : status'[q] \in Kind(q) \union {"absent"}
        BY <1>2, <2>1, <4>1
      <4> QED BY <2>1, <2>3, <4>1, <4>2 DEF Kind
    <3>2. /\ phase' \in [Ops -> Phases] /\ generation' \in [Ops -> Nat] /\ cursor' \in [Ops -> Nat]
          /\ next' \in [Ops -> {"due", "later", "never"}]
      BY <2>1, <2>3 DEF RemoteTypeOK, NextAttempt
    <3>3. cancel' \subseteq Ops /\ confirmed' \subseteq finished' /\ finished' \subseteq Ops
      BY <1>1, <1>2, <2>1 DEF RemoteTypeOK, CancelAfter, o
    <3>4. /\ holder' \in [Ops -> Lanes \union {NoLane}]
          /\ lease' \in [Ops -> {"none", "live", "expired"}]
          /\ \A q \in Ops : holder'[q] = NoLane <=> lease'[q] = "none"
      BY <2>1 DEF RemoteTypeOK
    <3>5. \A m \in Lanes : lanePc'[m] = "idle" <=> work'[m] = NoCopy
      BY <1>3 DEF RemoteTypeOK
    <3> QED BY <1>3, <3>1, <3>2, <3>3, <3>4, <3>5 DEF RemoteTypeOK, remoteVars
  <2>5. ASSUME NEW m \in Lanes, lanePc'[m] # "idle"
        PROVE  /\ work'[m].status \in Kind(work'[m].op)
               /\ status'[work'[m].op] # "absent"
               /\ work'[m].confirmed => work'[m].finished
               /\ Ahead(m, work[m])'
               /\ Truthful(work[m])'
               /\ lanePc'[m] = "taken" => Fresh(work[m])'
    <3>1. m # l /\ work'[m] = work[m] /\ lanePc'[m] = lanePc[m] /\ work[m] \in CopyType
      BY <1>3, <2>5, CopiesAreTyped
    <3>2. work[m].op \in Ops /\ Ahead(m, work[m]) /\ Truthful(work[m])
      BY <2>5, <3>1 DEF CopyType, Copies
    <3>3. Ahead(m, work[m])'
      <4>1. CASE work[m].op = o
        <5>1. work[m].epoch # epoch[o]
          BY <2>2, <3>1, <3>2, <4>1 DEF Ahead
        <5> QED BY <1>3, <3>1, <3>2, <4>1, <5>1 DEF Ahead
      <4>2. CASE work[m].op # o
        <5>1. LET q == work[m].op IN
              /\ holder'[q] = holder[q] /\ cursor'[q] = cursor[q] /\ phase'[q] = phase[q]
              /\ q \in finished' <=> q \in finished
          BY <2>1, <3>2, <4>2 DEF RemoteTypeOK
        <5> QED BY <1>3, <3>1, <3>2, <5>1 DEF Ahead
      <4> QED BY <4>1, <4>2
    <3>4. Truthful(work[m])'
      BY <1>3, <3>1, <3>2 DEF Truthful, remoteVars
    <3>5. status'[work[m].op] # "absent"
      BY <1>1, <2>1, <2>3, <2>5, <3>1, <3>2 DEF Copies, RemoteTypeOK, SandboxStatus, ExecutionStatus
    <3>6. \A q \in Ops : phase[q] \in Sent => phase'[q] \in Sent
      BY <2>1, <2>2 DEF RemoteTypeOK
    <3>7. lanePc'[m] = "taken" => Fresh(work[m])'
      BY <2>5, <3>1, <3>2, <3>6 DEF Copies, Fresh
    <3> QED BY <2>5, <3>1, <3>3, <3>4, <3>5, <3>7 DEF Copies
  <2>6. Copies'
    BY <2>5 DEF Copies, Kind
  <2>7. Reports'
    <3>1. \A q \in finished' : status'[q] # "absent"
      BY <1>1, <2>1, <2>3 DEF Reports, RemoteTypeOK, SandboxStatus, ExecutionStatus
    <3>2. ASSUME NEW q \in Ops \ {o}
          PROVE  /\ phase'[q] = phase[q] /\ status'[q] = status[q] /\ cursor'[q] = cursor[q]
                 /\ q \in finished' <=> q \in finished
                 /\ q \in confirmed' <=> q \in confirmed
      BY <2>1 DEF RemoteTypeOK
    <3>3. /\ phase'[o] = r.phase /\ status'[o] = r.status /\ cursor'[o] = r.cursor
          /\ o \in finished' <=> r.finished
          /\ o \in confirmed' <=> r.confirmed
      BY <1>1, <2>1 DEF RemoteTypeOK, o
    <3>4. Sandboxes \subseteq Ops /\ Executions \subseteq Ops
      BY DEF Ops
    <3>5. /\ o \in Sandboxes /\ r.finished => r.phase \notin Sent \/ host[o] = "deleted"
          /\ o \in Executions /\ r.confirmed => r.phase \notin Sent \/ process[o] \in Ended
          /\ o \in Executions /\ r.finished /\ r.phase = "bound" /\ r.status # "lost" =>
                process[o] \in Ended /\ r.cursor = output[o]
      BY <1>2 DEF Truthful, o
    <3>6. ASSUME NEW q \in Sandboxes
          PROVE  /\ phase'[q] \notin Sent => host'[q] = "none"
                 /\ q \in finished' => phase'[q] \notin Sent \/ host'[q] = "deleted"
      BY <1>3, <2>2, <3>2, <3>3, <3>4, <3>5 DEF Reports, remoteVars
    <3>7. ASSUME NEW q \in Executions
          PROVE  /\ phase'[q] \notin Sent => process'[q] = "none"
                 /\ q \in confirmed' => phase'[q] \notin Sent \/ process'[q] \in Ended
                 /\ q \in finished' /\ phase'[q] = "bound" /\ status'[q] # "lost" =>
                      process'[q] \in Ended /\ cursor'[q] = output'[q]
      BY <1>3, <2>2, <3>2, <3>3, <3>4, <3>5 DEF Reports, remoteVars
    <3> QED BY <3>1, <3>6, <3>7 DEF Reports
  <2> QED BY <2>4, <2>6, <2>7
<1> QED BY <1>4, <1>5

LEMMA CrashRemote ==
    ASSUME RemoteInv, NEW l \in Lanes, RemoteCrash(l) PROVE RemoteInv'
<1> USE DEF RemoteInv, RemoteCrash, rowVars, remoteVars
<1>1. RemoteTypeOK'
  BY DEF RemoteTypeOK
<1>2. Copies'
  BY DEF RemoteTypeOK, Copies, Ahead, Truthful, Fresh
<1>3. Reports'
  BY DEF Reports
<1> QED BY <1>1, <1>2, <1>3

\* The steps.  A step that calls nothing, or whose call fails, leaves the world alone.
LEMMA UntouchedIsKept == ASSUME RemoteInv, Untouched PROVE WorldKept
  BY DEF RemoteInv, RemoteTypeOK, WorldKept, Untouched, remoteVars

\* A failed call leaves the copy as it was.
LEMMA FailedRemote ==
    ASSUME RemoteInv, NEW l \in Lanes, lanePc[l] = "taken", Stepped(l, Failed(work[l])), WorldKept
    PROVE  RemoteInv'
<1> DEFINE r == Failed(work[l])
<1>1. work[l] \in CopyType /\ work[l].status \in Kind(work[l].op) /\ Fresh(work[l])
  BY CopiesAreTyped DEF RemoteInv, Copies
<1>2. /\ r \in CopyType /\ r.op = work[l].op /\ r.epoch = work[l].epoch /\ r.cursor = work[l].cursor
      /\ r.phase = work[l].phase /\ r.status = work[l].status /\ ~r.finished /\ ~r.confirmed
      /\ r.cursor \in Nat
  BY <1>1 DEF CopyType, Failed, Fresh
<1> HIDE DEF r
<1>3. Stepped(l, r)
  BY DEF r
<1> QED BY <1>1, <1>2, <1>3, LaneStep

LEMMA SandboxSubmitRemote ==
    ASSUME RemoteInv, NEW l \in Lanes, SandboxSubmit(l) PROVE RemoteInv'
<1> DEFINE r == IF work[l].cancel THEN Confirmed(work[l], "terminated")
                ELSE [work[l] EXCEPT !.phase = "submitted"]
<1>1. /\ work[l] \in CopyType /\ work[l].status \in Kind(work[l].op) /\ Fresh(work[l])
      /\ lanePc[l] = "taken" /\ work[l].op \in Sandboxes /\ work[l].phase = "new"
  BY CopiesAreTyped DEF RemoteInv, Copies, SandboxSubmit
<1>2. /\ r \in CopyType /\ r.op = work[l].op /\ r.epoch = work[l].epoch /\ r.cursor = work[l].cursor
      /\ r.status \in Kind(r.op) /\ r.cursor \in Nat /\ (r.confirmed => r.finished)
      /\ r.finished => r.phase \notin Sent
  BY <1>1 DEF CopyType, Confirmed, Fresh, Kind, SandboxStatus, Phases, Sent
<1> HIDE DEF r
<1>3. Stepped(l, r) /\ WorldKept
  BY UntouchedIsKept DEF r, SandboxSubmit
<1> QED BY <1>1, <1>2, <1>3, LaneStep, RemoteKindsAssumption DEF Sent

LEMMA SandboxAdvanceRemote ==
    ASSUME RemoteInv, NEW l \in Lanes, SandboxAdvance(l) PROVE RemoteInv'
<1> DEFINE o     == work[l].op
           shown == IF host[o] = "none" THEN "provisioning" ELSE host[o]
<1>1. /\ work[l] \in CopyType /\ work[l].status \in Kind(o) /\ Fresh(work[l])
      /\ lanePc[l] = "taken" /\ o \in Sandboxes /\ work[l].phase \in Sent
  BY CopiesAreTyped DEF RemoteInv, Copies, SandboxAdvance, Sent
<1>2. /\ host' = [host EXCEPT ![o] = shown] /\ doomed' \subseteq Sandboxes
      /\ UNCHANGED <<process, output, supervisor>>
  BY <1>1 DEF SandboxAdvance, RemoteInv, RemoteTypeOK
<1>3. host'[o] = shown /\ shown \in {"provisioning", "ready", "unrooted", "unavailable", "deleted"}
  BY <1>1, <1>2 DEF RemoteInv, RemoteTypeOK
<1>4. WorldKept
  BY <1>1, <1>2, <1>3 DEF RemoteInv, RemoteTypeOK, WorldKept, Fresh
<1>5. CASE Stepped(l, Failed(work[l]))
  BY <1>1, <1>4, <1>5, FailedRemote
<1>6. CASE Stepped(l, Observed(work[l], shown))
  <2> DEFINE r == Observed(work[l], shown)
  <2>1. /\ r \in CopyType /\ r.op = o /\ r.epoch = work[l].epoch /\ r.cursor = work[l].cursor
        /\ r.status \in SandboxStatus /\ r.cursor \in Nat /\ (r.confirmed => r.finished)
        /\ r.phase = "bound" /\ (r.finished => shown = "deleted")
    <3> DEFINE b == [work[l] EXCEPT !.phase = "bound"]
    <3>1. \/ shown = "deleted" /\ r = Confirmed(b, "terminated")
          \/ \E s \in SandboxStatus : r = [b EXCEPT !.status = s] \/ r = Failed([b EXCEPT !.status = s])
      BY <1>3 DEF Observed, SandboxStatus
    <3>2. /\ b \in CopyType /\ b.op = o /\ b.epoch = work[l].epoch /\ b.cursor = work[l].cursor
          /\ b.cursor \in Nat /\ ~b.finished /\ ~b.confirmed /\ b.phase = "bound"
      BY <1>1 DEF CopyType, Fresh, Phases
    <3> HIDE DEF shown, b, r
    <3>3. CASE shown = "deleted" /\ r = Confirmed(b, "terminated")
      BY <3>2, <3>3 DEF CopyType, Confirmed, SandboxStatus
    <3>4. CASE \E s \in SandboxStatus : r = [b EXCEPT !.status = s] \/ r = Failed([b EXCEPT !.status = s])
      <4>1. PICK s \in SandboxStatus : r = [b EXCEPT !.status = s] \/ r = Failed([b EXCEPT !.status = s])
        BY <3>4
      <4> QED BY <3>2, <4>1 DEF CopyType, Failed
    <3> QED BY <3>1, <3>3, <3>4, Zenon
  <2> HIDE DEF r
  <2>2. Stepped(l, r)
    BY <1>6 DEF r
  <2>3. r.status \in Kind(r.op)
    BY <1>1, <2>1 DEF Kind
  <2>4. r.op \notin Executions
    BY <1>1, <2>1, RemoteKindsAssumption
  <2> QED BY <1>1, <1>3, <1>4, <2>1, <2>2, <2>3, <2>4, LaneStep DEF Sent
<1>7. CASE Stepped(l, Failed([work[l] EXCEPT !.phase = "bound", !.status = "terminating"]))
  <2> DEFINE r == Failed([work[l] EXCEPT !.phase = "bound", !.status = "terminating"])
  <2>1. /\ r \in CopyType /\ r.op = o /\ r.epoch = work[l].epoch /\ r.cursor = work[l].cursor
        /\ r.status \in SandboxStatus /\ r.cursor \in Nat /\ ~r.confirmed /\ ~r.finished
        /\ r.phase = "bound"
    BY <1>1 DEF CopyType, Failed, Fresh, SandboxStatus, Phases
  <2> HIDE DEF r
  <2>2. Stepped(l, r)
    BY <1>7 DEF r
  <2>3. r.status \in Kind(r.op)
    BY <1>1, <2>1 DEF Kind
  <2> QED BY <1>1, <1>4, <2>1, <2>2, <2>3, LaneStep DEF Sent
<1> QED BY <1>5, <1>6, <1>7 DEF SandboxAdvance

LEMMA CancelUnsentRemote ==
    ASSUME RemoteInv, NEW l \in Lanes, CancelUnsent(l) PROVE RemoteInv'
<1> DEFINE r == Confirmed(work[l], "cancelled")
<1>1. /\ work[l] \in CopyType /\ lanePc[l] = "taken" /\ work[l].op \in Executions
      /\ work[l].phase \in {"new", "prepared"}
  BY CopiesAreTyped DEF RemoteInv, CancelUnsent
<1>2. /\ r \in CopyType /\ r.op = work[l].op /\ r.epoch = work[l].epoch /\ r.cursor = work[l].cursor
      /\ r.cursor \in Nat /\ r.confirmed /\ r.finished /\ r.phase = work[l].phase
      /\ r.status = "cancelled"
  BY <1>1 DEF CopyType, Confirmed, ExecutionStatus
<1> HIDE DEF r
<1>3. Stepped(l, r) /\ WorldKept
  BY UntouchedIsKept DEF r, CancelUnsent
<1>4. r.op \notin Sandboxes /\ r.status \in Kind(r.op) /\ r.phase \notin Sent
  BY <1>1, <1>2, RemoteKindsAssumption DEF Kind, ExecutionStatus, Sent
<1> QED BY <1>1, <1>2, <1>3, <1>4, LaneStep DEF Sent

LEMMA PrepareRemote ==
    ASSUME RemoteInv, NEW l \in Lanes, NEW valid \in BOOLEAN, Prepare(l, valid) PROVE RemoteInv'
<1> DEFINE r == IF valid THEN [work[l] EXCEPT !.phase = "prepared", !.generation = supervisor]
                ELSE Failed(Finished(work[l], "failed"))
<1>1. /\ work[l] \in CopyType /\ work[l].status \in Kind(work[l].op) /\ Fresh(work[l])
      /\ lanePc[l] = "taken" /\ work[l].op \in Executions /\ work[l].phase = "new"
      /\ supervisor \in Nat
  BY CopiesAreTyped DEF RemoteInv, RemoteTypeOK, Copies, Prepare
<1>2. /\ r \in CopyType /\ r.op = work[l].op /\ r.epoch = work[l].epoch /\ r.cursor = work[l].cursor
      /\ r.cursor \in Nat /\ ~r.confirmed /\ r.phase \in {"new", "prepared"}
      /\ r.status \in {work[l].status, "failed"}
  BY <1>1 DEF CopyType, Finished, Failed, Fresh, ExecutionStatus, Phases
<1> HIDE DEF r
<1>3. Stepped(l, r) /\ WorldKept
  BY UntouchedIsKept DEF r, Prepare
<1>4. r.op \notin Sandboxes /\ r.status \in Kind(r.op) /\ r.phase \notin Sent
  BY <1>1, <1>2, RemoteKindsAssumption DEF Kind, ExecutionStatus, Sent
<1> QED BY <1>1, <1>2, <1>3, <1>4, LaneStep DEF Sent

LEMMA SubmitStartRemote ==
    ASSUME RemoteInv, NEW l \in Lanes, SubmitStart(l) PROVE RemoteInv'
<1> DEFINE r == [work[l] EXCEPT !.phase = "submitted"]
<1>1. /\ work[l] \in CopyType /\ work[l].status \in Kind(work[l].op) /\ Fresh(work[l])
      /\ lanePc[l] = "taken"
  BY CopiesAreTyped DEF RemoteInv, Copies, SubmitStart
<1>2. /\ r \in CopyType /\ r.op = work[l].op /\ r.epoch = work[l].epoch /\ r.cursor = work[l].cursor
      /\ r.cursor \in Nat /\ ~r.confirmed /\ ~r.finished /\ r.phase = "submitted"
      /\ r.status = work[l].status
  BY <1>1 DEF CopyType, Fresh, Phases
<1> HIDE DEF r
<1>3. Stepped(l, r) /\ WorldKept
  BY UntouchedIsKept DEF r, SubmitStart
<1> QED BY <1>1, <1>2, <1>3, LaneStep DEF Sent

\* An execution whose supervisor is gone is reported lost.
LEMMA LostRemote ==
    ASSUME RemoteInv, NEW l \in Lanes, lanePc[l] = "taken", work[l].op \in Executions,
           Stepped(l, Failed(Finished(work[l], "lost"))), WorldKept
    PROVE  RemoteInv'
<1> DEFINE r == Failed(Finished(work[l], "lost"))
<1>1. work[l] \in CopyType /\ Fresh(work[l])
  BY CopiesAreTyped DEF RemoteInv, Copies
<1>2. /\ r \in CopyType /\ r.op = work[l].op /\ r.epoch = work[l].epoch /\ r.cursor = work[l].cursor
      /\ r.cursor \in Nat /\ ~r.confirmed /\ r.phase = work[l].phase /\ r.status = "lost"
  BY <1>1 DEF CopyType, Finished, Failed, Fresh, ExecutionStatus
<1> HIDE DEF r
<1>3. Stepped(l, r)
  BY DEF r
<1>4. r.op \notin Sandboxes /\ r.status \in Kind(r.op)
  BY <1>2, RemoteKindsAssumption DEF Kind, ExecutionStatus
<1> QED BY <1>1, <1>2, <1>3, <1>4, LaneStep

LEMMA StartProcessRemote ==
    ASSUME RemoteInv, NEW l \in Lanes, NEW answered \in BOOLEAN, StartProcess(l, answered)
    PROVE  RemoteInv'
<1> DEFINE o == work[l].op
           r == [work[l] EXCEPT !.phase = "bound", !.status = "running"]
<1>1. /\ work[l] \in CopyType /\ Fresh(work[l])
      /\ lanePc[l] = "taken" /\ o \in Executions /\ work[l].phase = "submitted"
  BY CopiesAreTyped DEF RemoteInv, Copies, StartProcess
<1>2. CASE work[l].generation # supervisor
  BY <1>1, <1>2, LostRemote, UntouchedIsKept DEF StartProcess
<1>3. CASE work[l].generation = supervisor
  <2>1. /\ process' = [process EXCEPT ![o] = IF @ = "none" THEN "running" ELSE @]
        /\ UNCHANGED <<host, doomed, output, supervisor>>
        /\ Stepped(l, IF answered THEN r ELSE Failed(work[l]))
    BY <1>3 DEF StartProcess
  <2>2. WorldKept
    BY <1>1, <2>1 DEF RemoteInv, RemoteTypeOK, WorldKept, Fresh, Sent, Ended
  <2>3. CASE ~answered
    BY <1>1, <2>1, <2>2, <2>3, FailedRemote
  <2>4. CASE answered
    <3>1. /\ r \in CopyType /\ r.op = o /\ r.epoch = work[l].epoch /\ r.cursor = work[l].cursor
          /\ r.cursor \in Nat /\ ~r.confirmed /\ ~r.finished /\ r.phase = "bound" /\ r.status = "running"
      BY <1>1 DEF CopyType, Fresh, ExecutionStatus, Phases
    <3> HIDE DEF r
    <3>2. Stepped(l, r) /\ r.status \in Kind(r.op)
      BY <1>1, <2>1, <2>4, <3>1, RemoteKindsAssumption DEF Kind, ExecutionStatus
    <3> QED BY <1>1, <2>2, <3>1, <3>2, LaneStep DEF Sent
  <2> QED BY <2>3, <2>4
<1> QED BY <1>2, <1>3

LEMMA PollRemote ==
    ASSUME RemoteInv, NEW l \in Lanes, NEW upto \in Nat, Poll(l, upto) PROVE RemoteInv'
<1> DEFINE o    == work[l].op
           page == [work[l] EXCEPT !.phase = "bound", !.cursor = upto]
           end  == [page EXCEPT !.status = Outcome(process[o]), !.finished = TRUE,
                                !.confirmed = CancellationConfirmed(work[l], process[o])]
<1>1. /\ work[l] \in CopyType /\ Fresh(work[l])
      /\ lanePc[l] = "taken" /\ o \in Executions /\ work[l].phase \in Sent
  BY CopiesAreTyped DEF RemoteInv, Copies, Poll, Sent
<1>2. CASE work[l].generation # supervisor
  BY <1>1, <1>2, LostRemote, UntouchedIsKept DEF Poll
<1>3. CASE work[l].generation = supervisor /\ process[o] = "none"
  BY <1>1, <1>3, FailedRemote, UntouchedIsKept DEF Poll
<1>4. CASE work[l].generation = supervisor /\ process[o] # "none"
  <2>1. /\ process' = [process EXCEPT ![o] = IF work[l].cancel /\ process[o] = "running"
                                             THEN "stopping" ELSE process[o]]
        /\ UNCHANGED <<host, doomed, output, supervisor>>
        /\ work[l].cursor <= upto
        /\ Stepped(l, IF Complete(o, upto) THEN end ELSE [page EXCEPT !.status = "running"])
    BY <1>4 DEF Poll
  <2>2. WorldKept
    BY <1>1, <2>1 DEF RemoteInv, RemoteTypeOK, WorldKept, Fresh, Ended
  <2>3. CASE ~Complete(o, upto)
    <3> DEFINE r == [page EXCEPT !.status = "running"]
    <3>1. /\ r \in CopyType /\ r.op = o /\ r.epoch = work[l].epoch /\ r.cursor = upto
          /\ ~r.confirmed /\ ~r.finished /\ r.phase = "bound" /\ r.status = "running"
      BY <1>1 DEF CopyType, Fresh, ExecutionStatus, Phases
    <3> HIDE DEF r
    <3>2. Stepped(l, r) /\ r.status \in Kind(r.op)
      BY <1>1, <2>1, <2>3, <3>1, RemoteKindsAssumption DEF Kind, ExecutionStatus, r
    <3> QED BY <1>1, <2>1, <2>2, <3>1, <3>2, LaneStep DEF Sent
  <2>4. CASE Complete(o, upto)
    <3>1. process[o] \in Ended /\ upto = output[o]
      BY <2>4 DEF Complete
    <3>2. Outcome(process[o]) \in ExecutionStatus /\ CancellationConfirmed(work[l], process[o]) \in BOOLEAN
      BY DEF Outcome, ExecutionStatus, CancellationConfirmed
    <3>3. /\ end \in CopyType /\ end.op = o /\ end.epoch = work[l].epoch /\ end.cursor = upto
          /\ end.finished /\ end.phase = "bound" /\ end.status \in ExecutionStatus
      BY <1>1, <3>2 DEF CopyType, Phases
    <3> HIDE DEF end
    <3>4. Stepped(l, end) /\ end.status \in Kind(end.op) /\ end.op \notin Sandboxes
      BY <1>1, <2>1, <2>4, <3>3, RemoteKindsAssumption DEF Kind
    <3> QED BY <1>1, <2>1, <2>2, <3>1, <3>3, <3>4, LaneStep DEF Sent
  <2> QED BY <2>3, <2>4
<1> QED BY <1>2, <1>3, <1>4

LEMMA TerminateUnansweredRemote ==
    ASSUME RemoteInv, NEW l \in Lanes, TerminateUnanswered(l) PROVE RemoteInv'
<1>1. work[l] \in CopyType /\ Fresh(work[l]) /\ lanePc[l] = "taken"
  BY CopiesAreTyped DEF RemoteInv, Copies, TerminateUnanswered
<1>2. WorldKept
  BY <1>1 DEF TerminateUnanswered, RemoteInv, RemoteTypeOK, WorldKept, Fresh, Ended, Sent
<1> QED BY <1>1, <1>2, FailedRemote DEF TerminateUnanswered

LEMMA CallFailsRemote ==
    ASSUME RemoteInv, NEW l \in Lanes, CallFails(l) PROVE RemoteInv'
  BY FailedRemote, UntouchedIsKept DEF CallFails

\* The hosts and the processes.
LEMMA WorldRemote == ASSUME RemoteInv, World PROVE RemoteInv'
<1>1. ASSUME NEW o \in Executions, DeadlinePasses(o) PROVE RemoteInv'
  <2>1. WorldKept /\ overdue' \subseteq Executions
    BY <1>1 DEF DeadlinePasses, RemoteInv, RemoteTypeOK, WorldKept, remoteVars
  <2> QED BY <1>1, <2>1, WorldStep DEF DeadlinePasses
<1>2. ASSUME NEW o \in Executions, ProcessWrites(o) PROVE RemoteInv'
  <2>1. WorldKept /\ overdue' \subseteq Executions
    BY <1>2 DEF ProcessWrites, RemoteInv, RemoteTypeOK, WorldKept, Ended
  <2> QED BY <1>2, <2>1, WorldStep DEF ProcessWrites
<1>3. ASSUME NEW o \in Executions, ProcessEnds(o) PROVE RemoteInv'
  <2>1. phase[o] \in Sent /\ process[o] \notin Ended
    BY <1>3 DEF ProcessEnds, RemoteInv, Reports, Ended
  <2>2. PICK end \in Ended : process' = [process EXCEPT ![o] = end]
    BY <1>3 DEF ProcessEnds, Ended
  <2>3. WorldKept /\ overdue' \subseteq Executions
    BY <1>3, <2>1, <2>2 DEF ProcessEnds, RemoteInv, RemoteTypeOK, WorldKept
  <2> QED BY <1>3, <2>3, WorldStep DEF ProcessEnds
<1>4. ASSUME NEW o \in Sandboxes, HostChanges(o) PROVE RemoteInv'
  <2>1. phase[o] \in Sent /\ host[o] # "deleted"
    BY <1>4 DEF HostChanges, RemoteInv, Reports
  <2>2. PICK s \in {"ready", "unrooted", "unavailable", "deleted"} : host' = [host EXCEPT ![o] = s]
    BY <1>4 DEF HostChanges
  <2>3. WorldKept /\ overdue' \subseteq Executions
    BY <1>4, <2>1, <2>2 DEF HostChanges, RemoteInv, RemoteTypeOK, WorldKept
  <2> QED BY <1>4, <2>3, WorldStep DEF HostChanges
<1>5. CASE SupervisorRestarts
  <2>1. \A o \in Executions : phase[o] \notin Sent => process[o] = "none"
    BY DEF RemoteInv, Reports
  <2>2. WorldKept /\ overdue' \subseteq Executions
    BY <1>5, <2>1 DEF SupervisorRestarts, RemoteInv, RemoteTypeOK, WorldKept, Ended
  <2> QED BY <1>5, <2>2, WorldStep DEF SupervisorRestarts
<1> QED BY <1>1, <1>2, <1>3, <1>4, <1>5, RequestsRemote DEF World

LEMMA NextRemote == ASSUME RemoteInv, [RemoteNext]_remoteState PROVE RemoteInv'
<1>1. CASE UNCHANGED remoteState
  BY <1>1 DEF remoteState, rowVars, laneVars, remoteVars, RemoteInv, RemoteTypeOK, Copies, Reports,
              Ahead, Truthful, Fresh
<1>2. CASE RemoteRequests
  BY <1>2, CreateSandboxRemote, AdoptSandboxRemote, BashRemote, RequestsRemote DEF RemoteRequests
<1>3. ASSUME NEW l \in Lanes, Lane(l) PROVE RemoteInv'
  <2>1. CASE RemoteStep(l)
    <3>1. ASSUME NEW upto \in 0 .. MaxOutput, Poll(l, upto) PROVE RemoteInv'
      BY <3>1, PollRemote, RemoteBoundsAssumption
    <3> QED BY <2>1, <3>1, SandboxSubmitRemote, SandboxAdvanceRemote, CancelUnsentRemote,
               SubmitStartRemote, PrepareRemote, StartProcessRemote, CallFailsRemote,
               TerminateUnansweredRemote DEF RemoteStep
  <2> QED BY <1>3, <2>1, TakeRemote, WriteBackRemote, CrashRemote DEF Lane
<1>4. CASE World
  BY <1>4, WorldRemote
<1> QED BY <1>1, <1>2, <1>3, <1>4 DEF RemoteNext

-----------------------------------------------------------------------------
(* The theorems. *)

\* Every behaviour of rows, lanes and hosts keeps the inductive invariant.
THEOREM RemoteInvariance == RemoteSpec => []RemoteInv
  BY InitRemote, NextRemote, PTL DEF RemoteSpec

\* Rows, copies and the world are well typed: a row has a status of its kind, and
\* a processor exactly while it has a lease (remote_operations.rs).
THEOREM RemoteTypesCorrect == RemoteSpec => []RemoteTypeOK
<1>1. RemoteInv => RemoteTypeOK
  BY DEF RemoteInv
<1> QED BY <1>1, RemoteInvariance, PTL

\* What a row reports is true: a confirmed cancellation's process is not running,
\* an observed end has all its output, a terminated sandbox leaves no host behind
\* (runner.rs:95-108, 171-186, 252-275).
THEOREM RowsAlwaysTellTheTruth == RemoteSpec => []RowsTellTheTruth
<1>1. RemoteInv => RowsTellTheTruth
  BY DEF RemoteInv, Reports, RowsTellTheTruth, ConfirmedMeansStopped, DrainedOutput, NoOrphanHost
<1> QED BY <1>1, RemoteInvariance, PTL

\* Only a write-back changes a row that is there, and the row of a current copy is
\* not finished and not ahead of the copy.
LEMMA WritesAreKept ==
    ASSUME RemoteInv, [RemoteNext]_remoteState PROVE SavedWorkIsKept /\ CancelIsSticky
<1> DEFINE Kept == SavedWorkIsKept /\ CancelIsSticky
<1> USE DEF SavedWorkIsKept, CancelIsSticky
<1>1. ASSUME UNCHANGED <<status, phase, cursor, confirmed, finished>>, cancel \subseteq cancel' PROVE Kept
  BY <1>1 DEF RemoteInv, RemoteTypeOK
<1>2. ASSUME UNCHANGED rowVars PROVE Kept
  BY <1>1, <1>2 DEF rowVars
<1>3. ASSUME NEW o \in Ops, CreateSandbox(o) \/ AdoptSandbox(o) \/ Bash(o) PROVE Kept
  <2>1. o \notin finished /\ finished \subseteq Ops
    BY <1>3 DEF RemoteInv, RemoteTypeOK, Reports, CreateSandbox, AdoptSandbox, Bash
  <2>2. \A q \in Ops \ {o} : status'[q] = status[q] /\ phase'[q] = phase[q]
    BY <1>3 DEF RemoteInv, RemoteTypeOK, CreateSandbox, AdoptSandbox, Bash
  <2>3. UNCHANGED <<cursor, cancel, confirmed, finished>>
    BY <1>3 DEF CreateSandbox, AdoptSandbox, Bash
  <2> QED BY <2>1, <2>2, <2>3 DEF RemoteInv, RemoteTypeOK
<1>4. ASSUME NEW l \in Lanes, WriteBack(l) PROVE Kept
  <2>1. work[l] \in CopyType /\ work[l].op \in Ops /\ Ahead(l, work[l])
    BY <1>4, CopiesAreTyped DEF RemoteInv, Copies, WriteBack
  <2>2. CASE ~Holds(l, work[l].op)
    BY <1>1, <1>4, <2>2 DEF WriteBack
  <2>3. CASE Holds(l, work[l].op)
    <3> DEFINE o == work[l].op
    <3>1. /\ o \notin finished /\ cursor[o] <= work[l].cursor
      BY <2>1, <2>3 DEF Ahead, Holds
    <3>2. /\ \A q \in Ops \ {o} : /\ status'[q] = status[q] /\ phase'[q] = phase[q] /\ cursor'[q] = cursor[q]
                                  /\ q \in finished' <=> q \in finished
                                  /\ q \in confirmed' <=> q \in confirmed
          /\ cursor'[o] = work[l].cursor
      BY <1>4, <2>1, <2>3 DEF WriteBack, RemoteInv, RemoteTypeOK
    <3>3. cancel \subseteq cancel'
      BY <1>4, <2>3 DEF WriteBack, CancelAfter
    <3>4. finished \subseteq Ops /\ \A q \in Ops : cursor[q] \in Nat
      BY DEF RemoteInv, RemoteTypeOK
    <3> HIDE DEF o
    <3> QED BY <3>1, <3>2, <3>3, <3>4
  <2> QED BY <2>2, <2>3
<1>5. CASE UNCHANGED remoteState
  BY <1>2, <1>5 DEF remoteState
<1>6. CASE RemoteRequests
  BY <1>1, <1>2, <1>3, <1>6 DEF RemoteRequests, AskCancel, RequestCancel, Ops
<1>7. ASSUME NEW l \in Lanes, Lane(l) PROVE Kept
  <2>1. CASE \E o \in Ops : Take(l, o)
    BY <1>1, <2>1 DEF Take
  <2>2. CASE RemoteStep(l)
    <3>1. \E r : Stepped(l, r)
      BY <2>2, Zenon DEF RemoteStep, SandboxSubmit, SandboxAdvance, CancelUnsent, SubmitStart, Prepare,
                         StartProcess, Poll, CallFails, TerminateUnanswered
    <3> QED BY <1>2, <3>1 DEF Stepped
  <2>3. CASE RemoteCrash(l)
    BY <1>2, <2>3 DEF RemoteCrash
  <2> QED BY <1>4, <1>7, <2>1, <2>2, <2>3 DEF Lane
<1>8. CASE World
  BY <1>1, <1>2, <1>8 DEF World, RetryElapses, RemoteLeaseExpires, DeadlinePasses, ProcessWrites,
                          ProcessEnds, HostChanges, SupervisorRestarts
<1> QED BY <1>5, <1>6, <1>7, <1>8 DEF RemoteNext

\* No lane undoes what another lane or a request has saved: a finished row keeps
\* its result, saved output only grows, and no write-back takes a cancel request
\* away (runner.rs:83-84).
THEOREM NothingIsEverTakenBack == RemoteSpec => NothingIsTakenBack
<1>1. RemoteInv /\ [RemoteNext]_remoteState => [SavedWorkIsKept /\ CancelIsSticky]_remoteState
  BY WritesAreKept
<1> QED BY <1>1, RemoteInvariance, PTL DEF RemoteSpec, NothingIsTakenBack
=============================================================================
