---------------------------- MODULE LlmRunsProofs ----------------------------
(***************************************************************************)
(* Proofs about LlmRuns, for any number of requests, keys and permits: a   *)
(* key is paid for once, no permit of the gate is lost or made up, and     *)
(* what ran to its end has closed its accounting row.  After them, proofs  *)
(* about the accounts the gateway calls with (LlmAccounts) and about the   *)
(* sign-in that creates one (ProviderLogin).                               *)
(***************************************************************************)
EXTENDS LlmRuns, LlmAccounts, ProviderLogin, FiniteSetTheorems, SequenceTheorems, TLAPS

TaskStates ==
    {"new", "spawned", "waiting", "granted", "resolving", "inserting", "calling",
     "answered", "returned", "done", "lost"}
AcctStates ==
    {"none", "running", "succeeded", "cancelled", "provider_error", "timeout",
     "internal_error"}
RowType ==
    [key : LlmKeys, hash : Payloads, age : {0, Expired, Forgotten},
     status : Ended \cup {"running", "expired"}]

Typed ==
    /\ row \in [LlmIds -> {NoRow} \cup RowType]
    /\ task \in [Requests -> TaskStates]
    /\ permits \in Nat
    /\ queue \in Seq(Requests)
    /\ acct \in [Requests -> AcctStates]
    /\ unwritten \subseteq Requests
    /\ call \in [LlmIds -> {NoCall} \cup [key : LlmKeys, hash : Payloads]]

\* Whoever is in the queue waits there, in one place.
Line ==
    /\ \A i \in 1..Len(queue) : task[queue[i]] = "waiting"
    /\ \A i, j \in 1..Len(queue) : queue[i] = queue[j] => i = j

Over == {"done", "lost"}

\* A task has its row until it is over, the row's key is the one it pays for, and a
\* key has one row at the most.
KeysAreOwned ==
    /\ \A r \in LlmIds : Present(r) /\ row[r].age > 0 => task[r] \in Over
    /\ \A r \in LlmIds : task[r] \notin Over \cup {"new"} => Present(r)
    /\ \A r \in LlmIds : task[r] = "new" => ~Present(r) /\ call[r] = NoCall
    /\ \A r \in LlmIds : Present(r) /\ call[r] # NoCall => call[r].key = row[r].key
    /\ \A r, s \in LlmIds : Present(r) /\ Present(s) /\ row[r].key = row[s].key => r = s

\* An open accounting row is being worked for, unless its last write failed or its
\* task was lost.
Accounted ==
    \A r \in Requests :
        acct[r] = "running" => r \in unwritten \/ task[r] \in {"calling", "answered", "lost"}

Inv == Typed /\ Line /\ PermitsAreConserved /\ KeysAreOwned /\ Accounted

-----------------------------------------------------------------------------
(* The gate. *)

\* A queue without repetitions, and what is left of it.
LEMMA WithoutType ==
    ASSUME NEW q \in Seq(Requests), NEW r,
           \A i, j \in 1..Len(q) : q[i] = q[j] => i = j
    PROVE  /\ LlmWithout(q, r) \in Seq(Requests)
           /\ \A i \in 1..Len(LlmWithout(q, r)) :
                 LlmWithout(q, r)[i] # r /\ \E j \in 1..Len(q) : LlmWithout(q, r)[i] = q[j]
           /\ \A i, j \in 1..Len(LlmWithout(q, r)) :
                 LlmWithout(q, r)[i] = LlmWithout(q, r)[j] => i = j
           /\ (\A i \in 1..Len(q) : q[i] # r) => LlmWithout(q, r) = q
           /\ q = << >> => LlmWithout(q, r) = << >>
<1>0. Len(q) \in Nat /\ \A i \in 1..Len(q) : q[i] \in Requests
  BY LenProperties, ElementOfSeq
<1>1. CASE ~\E i \in 1..Len(q) : q[i] = r
  <2>1. LlmWithout(q, r) = q
    BY <1>1 DEF LlmWithout
  <2> QED BY <1>1, <2>1
<1>2. CASE \E i \in 1..Len(q) : q[i] = r
  <2> DEFINE k == CHOOSE j \in 1..Len(q) : q[j] = r
             a == SubSeq(q, 1, k - 1)
             b == SubSeq(q, k + 1, Len(q))
  <2>1. k \in 1..Len(q) /\ q[k] = r
    BY <1>2
  <2>2. LlmWithout(q, r) = a \o b
    BY <1>2 DEF LlmWithout
  <2> HIDE DEF k
  <2>3. /\ a \in Seq(Requests) /\ Len(a) = k - 1
        /\ \A i \in 1..k - 1 : a[i] = q[i]
    <3>1. \A i \in 1..k - 1 : q[i] \in Requests
      BY <1>0, <2>1
    <3>2. k - 1 \in Int /\ 1 \in Int
      BY <1>0, <2>1
    <3> QED BY <1>0, <2>1, <3>1, <3>2, SubSeqProperties
  <2>4. /\ b \in Seq(Requests) /\ Len(b) = Len(q) - k
        /\ \A i \in 1..Len(q) - k : b[i] = q[k + i]
    <3>1. \A i \in k + 1..Len(q) : q[i] \in Requests
      BY <1>0, <2>1
    <3>2. k + 1 \in Int /\ Len(q) \in Int
      BY <1>0, <2>1
    <3> QED BY <1>0, <2>1, <3>1, <3>2, SubSeqProperties
  <2> HIDE DEF a, b
  <2>5. /\ a \o b \in Seq(Requests) /\ Len(a \o b) = Len(q) - 1
        /\ \A i \in 1..Len(q) - 1 : (a \o b)[i] = IF i <= k - 1 THEN q[i] ELSE q[i + 1]
    <3>1. /\ a \o b \in Seq(Requests) /\ Len(a \o b) = Len(a) + Len(b)
          /\ \A i \in 1..Len(a) + Len(b) :
                (a \o b)[i] = IF i <= Len(a) THEN a[i] ELSE b[i - Len(a)]
      BY <2>3, <2>4, ConcatProperties
    <3>2. Len(a) + Len(b) = Len(q) - 1
      BY <1>0, <2>1, <2>3, <2>4
    <3>3. ASSUME NEW i \in 1..Len(q) - 1
          PROVE  (a \o b)[i] = IF i <= k - 1 THEN q[i] ELSE q[i + 1]
      <4>1. CASE i <= k - 1
        BY <1>0, <2>1, <2>3, <3>1, <3>2, <4>1
      <4>2. CASE ~(i <= k - 1)
        <5>1. i - Len(a) \in 1..Len(q) - k /\ k + (i - Len(a)) = i + 1
          BY <1>0, <2>1, <2>3, <4>2
        <5>2. (a \o b)[i] = b[i - Len(a)]
          BY <1>0, <2>1, <2>3, <3>1, <3>2, <4>2
        <5> QED BY <2>4, <4>2, <5>1, <5>2
      <4> QED BY <4>1, <4>2
    <3> QED BY <3>1, <3>2, <3>3
  <2> DEFINE c == a \o b
             at(i) == IF i <= k - 1 THEN i ELSE i + 1
  <2>6. \A i \in 1..Len(c) : c[i] = q[at(i)] /\ at(i) \in 1..Len(q) /\ at(i) # k
    BY <1>0, <2>1, <2>5
  <2>7. \A i, j \in 1..Len(c) : at(i) = at(j) => i = j
    BY <1>0, <2>1, <2>5
  <2>8. \A i \in 1..Len(c) : c[i] # r
    BY <2>1, <2>6
  <2>9. \A i, j \in 1..Len(c) : c[i] = c[j] => i = j
    BY <2>6, <2>7
  <2>10. \A i \in 1..Len(c) : \E j \in 1..Len(q) : c[i] = q[j]
    BY <2>6
  <2>11. q # << >>
    BY <1>0, <2>1
  <2> HIDE DEF at
  <2> QED BY <2>1, <2>2, <2>5, <2>8, <2>9, <2>10, <2>11
<1> QED BY <1>1, <1>2

LEMMA FiniteRequests ==
    ASSUME NEW T, T \subseteq Requests
    PROVE  IsFiniteSet(T) /\ Cardinality(T) \in Nat
  BY RequestsAssumption, FS_Subset, FS_CardinalityType

\* One leaves a set and another enters it.
LEMMA Exchange ==
    ASSUME NEW T, T \subseteq Requests, NEW r \in T, NEW s \in Requests \ T
    PROVE  Cardinality((T \ {r}) \cup {s}) = Cardinality(T)
<1>1. IsFiniteSet(T)
  BY FiniteRequests
<1>2. IsFiniteSet(T \ {r}) /\ Cardinality(T \ {r}) = Cardinality(T) - 1
  BY <1>1, FS_RemoveElement
<1>3. Cardinality((T \ {r}) \cup {s}) = Cardinality(T \ {r}) + 1
  BY <1>2, FS_AddElement
<1> QED BY <1>2, <1>3, FiniteRequests

\* A step that moves one task without touching the gate.
LEMMA MoveStep ==
    ASSUME Inv, NEW r \in Requests, NEW t \in TaskStates, task' = [task EXCEPT ![r] = t],
           UNCHANGED <<queue, permits>>, task[r] # "waiting",
           task[r] \in Holding <=> t \in Holding, t \in InQueue => task[r] \in InQueue
    PROVE  Line' /\ PermitsAreConserved' /\ task' \in [Requests -> TaskStates]
<1> USE DEF Inv
<1>1. task' \in [Requests -> TaskStates] /\ task'[r] = t /\ \A s \in Requests \ {r} : task'[s] = task[s]
  BY DEF Typed
<1>2. Line'
  <2>1. \A i \in 1..Len(queue) : queue[i] \in Requests
    BY ElementOfSeq DEF Typed
  <2> QED BY <1>1, <2>1 DEF Line
<1>3. {s \in Requests : task'[s] \in Holding} = {s \in Requests : task[s] \in Holding}
  BY <1>1
<1>4. Cardinality(Waiting') <= MaxWaiting
  <2>1. Waiting' \subseteq Waiting
    BY <1>1 DEF Waiting
  <2>2. IsFiniteSet(Waiting) /\ Cardinality(Waiting) \in Nat /\ Cardinality(Waiting') \in Nat
    BY FiniteRequests, <2>1 DEF Waiting
  <2>3. Cardinality(Waiting') <= Cardinality(Waiting)
    BY <2>1, <2>2, FS_Subset
  <2> QED BY <2>2, <2>3, LlmRunsAssumption DEF PermitsAreConserved
<1>5. PermitsAreConserved'
  BY <1>3, <1>4 DEF PermitsAreConserved
<1> QED BY <1>1, <1>2, <1>5

\* Leaving the gate.
LEMMA ReleaseStep ==
    ASSUME Inv, NEW r \in Requests, NEW t \in {"returned", "lost"}, LlmRelease(r, t)
    PROVE  /\ Line' /\ PermitsAreConserved' /\ task' \in [Requests -> TaskStates]
           /\ permits' \in Nat /\ queue' \in Seq(Requests) /\ task'[r] = t
           /\ \A s \in Requests \ {r} :
                 task'[s] = task[s] \/ (task[s] = "waiting" /\ task'[s] = "granted")
<1> USE DEF Inv
<1> DEFINE q == LlmWithout(queue, r)
<1>1. /\ q \in Seq(Requests)
      /\ \A i \in 1..Len(q) : q[i] # r /\ \E j \in 1..Len(queue) : q[i] = queue[j]
      /\ \A i, j \in 1..Len(q) : q[i] = q[j] => i = j
      /\ queue = << >> => q = << >>
  BY WithoutType DEF Typed, Line
<1>2. \A i \in 1..Len(q) : q[i] # r /\ q[i] \in Requests /\ task[q[i]] = "waiting"
  BY <1>1, ElementOfSeq DEF Line
<1>3. /\ task[r] \in Holding /\ q # << >> =>
            /\ queue' = Tail(q) /\ permits' = permits
            /\ task' = [task EXCEPT ![r] = t, ![Head(q)] = "granted"]
      /\ ~(task[r] \in Holding /\ q # << >>) =>
            /\ queue' = q /\ task' = [task EXCEPT ![r] = t]
            /\ permits' = IF task[r] \in Holding THEN permits + 1 ELSE permits
  BY DEF LlmRelease
<1> HIDE DEF q
<1>4. CASE task[r] \in Holding /\ q # << >>
  <2> DEFINE h == Head(q)
  <2>1. /\ queue' \in Seq(Requests) /\ Len(queue') = Len(q) - 1 /\ Len(q) \in Nat
        /\ \A i \in 1..Len(queue') : queue'[i] = q[i + 1]
    <3>1. /\ Tail(q) \in Seq(Requests) /\ Len(Tail(q)) = Len(q) - 1
          /\ \A i \in 1..Len(Tail(q)) : Tail(q)[i] = q[i + 1]
      BY <1>1, <1>4, HeadTailProperties
    <3>2. queue' = Tail(q) /\ Len(q) \in Nat
      BY <1>1, <1>3, <1>4, LenProperties
    <3> QED BY <3>1, <3>2
  <2>2. h = q[1] /\ 1 \in 1..Len(q)
    BY <1>1, <1>4, EmptySeq, LenProperties
  <2>3. h \in Requests \ {r} /\ task[h] = "waiting"
    BY <1>2, <2>2
  <2>4. \A i \in 1..Len(queue') : i + 1 \in 1..Len(q) /\ queue'[i] = q[i + 1] /\ q[i + 1] # h
    BY <1>1, <2>1, <2>2
  <2> HIDE DEF h
  <2>5. task' = [task EXCEPT ![r] = t, ![h] = "granted"] /\ permits' = permits
    BY <1>3, <1>4 DEF h
  <2>6. /\ task' \in [Requests -> TaskStates] /\ task'[r] = t /\ task'[h] = "granted"
        /\ \A s \in Requests \ {r, h} : task'[s] = task[s]
    BY <2>3, <2>5 DEF Typed, TaskStates
  <2>7. Line'
    <3>1. \A i \in 1..Len(queue') : task'[queue'[i]] = "waiting"
      BY <1>2, <2>4, <2>6
    <3>2. \A i, j \in 1..Len(queue') : queue'[i] = queue'[j] => i = j
      <4> SUFFICES ASSUME NEW i \in 1..Len(queue'), NEW j \in 1..Len(queue'), queue'[i] = queue'[j]
                   PROVE  i = j
        OBVIOUS
      <4>1. i + 1 = j + 1
        BY <1>1, <2>4
      <4> QED BY <2>1, <4>1
    <3> QED BY <3>1, <3>2 DEF Line
  <2>8. PermitsAreConserved'
    <3> DEFINE T == {s \in Requests : task[s] \in Holding}
    <3>1. {s \in Requests : task'[s] \in Holding} = (T \ {r}) \cup {h}
      BY <1>4, <2>3, <2>6 DEF Holding
    <3>2. Cardinality((T \ {r}) \cup {h}) = Cardinality(T)
      <4>1. T \subseteq Requests /\ r \in T /\ h \in Requests \ T
        BY <1>4, <2>3 DEF Holding
      <4> HIDE DEF T
      <4> QED BY <4>1, Exchange
    <3>3. queue # << >>
      BY <1>1, <1>4
    <3>4. Waiting' \subseteq Waiting
      BY <2>3, <2>6 DEF Waiting, InQueue
    <3>5. Cardinality(Waiting') <= MaxWaiting
      <4>1. IsFiniteSet(Waiting) /\ Cardinality(Waiting) \in Nat /\ Cardinality(Waiting') \in Nat
        BY FiniteRequests, <3>4 DEF Waiting
      <4>2. Cardinality(Waiting') <= Cardinality(Waiting)
        BY <3>4, <4>1, FS_Subset
      <4> QED BY <4>1, <4>2, LlmRunsAssumption DEF PermitsAreConserved
    <3> QED BY <2>5, <3>1, <3>2, <3>3, <3>5 DEF PermitsAreConserved
  <2> QED BY <2>1, <2>3, <2>5, <2>6, <2>7, <2>8 DEF Typed
<1>5. CASE ~(task[r] \in Holding /\ q # << >>)
  <2>1. /\ queue' = q /\ task' = [task EXCEPT ![r] = t]
        /\ permits' = IF task[r] \in Holding THEN permits + 1 ELSE permits
    BY <1>3, <1>5
  <2>2. /\ task' \in [Requests -> TaskStates] /\ task'[r] = t
        /\ \A s \in Requests \ {r} : task'[s] = task[s]
    BY <2>1 DEF Typed, TaskStates
  <2>3. Line'
    BY <1>1, <1>2, <2>1, <2>2 DEF Line
  <2>4. permits' \in Nat
    BY <2>1 DEF Typed
  <2>5. PermitsAreConserved'
    <3> DEFINE T == {s \in Requests : task[s] \in Holding}
    <3>1. {s \in Requests : task'[s] \in Holding} = T \ {r}
      BY <2>2 DEF Holding
    <3>2. Cardinality(T \ {r}) = IF r \in T THEN Cardinality(T) - 1 ELSE Cardinality(T)
      <4>1. T \subseteq Requests
        OBVIOUS
      <4> HIDE DEF T
      <4>2. CASE r \in T
        BY <4>1, <4>2, FiniteRequests, FS_RemoveElement
      <4>3. CASE r \notin T
        <5>1. T \ {r} = T
          BY <4>3
        <5> QED BY <4>3, <5>1
      <4> QED BY <4>2, <4>3
    <3>3. Cardinality(T) \in Nat /\ permits + Cardinality(T) = MaxActive
      BY FiniteRequests DEF PermitsAreConserved
    <3>4. permits' + Cardinality(T \ {r}) = MaxActive
      BY <2>1, <3>2, <3>3, LlmRunsAssumption DEF Typed
    <3>5. queue' # << >> => permits' = 0
      BY <1>1, <1>5, <2>1 DEF PermitsAreConserved
    <3>6. Waiting' \subseteq Waiting
      BY <2>2 DEF Waiting, InQueue
    <3>7. Cardinality(Waiting') <= MaxWaiting
      <4>1. IsFiniteSet(Waiting) /\ Cardinality(Waiting) \in Nat /\ Cardinality(Waiting') \in Nat
        BY FiniteRequests, <3>6 DEF Waiting
      <4>2. Cardinality(Waiting') <= Cardinality(Waiting)
        BY <3>6, <4>1, FS_Subset
      <4> QED BY <4>1, <4>2, LlmRunsAssumption DEF PermitsAreConserved
    <3> QED BY <3>1, <3>4, <3>5, <3>7 DEF PermitsAreConserved
  <2> QED BY <1>1, <2>1, <2>2, <2>3, <2>4, <2>5
<1> QED BY <1>4, <1>5

\* What a move of tasks asks of rows and accounts that stay as they are.
LEMMA TasksMove ==
    ASSUME Inv, task' \in [Requests -> TaskStates], UNCHANGED <<row, call>>,
           \A s \in LlmIds : /\ task'[s] = "new" => task[s] = "new"
                             /\ task[s] \in Over => task'[s] \in Over
                             /\ task'[s] \notin Over \cup {"new"} => task[s] \notin Over \cup {"new"}
    PROVE  KeysAreOwned'
  BY DEF Inv, KeysAreOwned, Present

-----------------------------------------------------------------------------
(* The actions. *)

LEMMA InitInv == LlmRunsInit => Inv
<1> SUFFICES ASSUME LlmRunsInit PROVE Inv
  OBVIOUS
<1>1. Typed
  BY LlmRunsAssumption, EmptySeq DEF LlmRunsInit, Typed, TaskStates, AcctStates
<1>2. Line /\ KeysAreOwned /\ Accounted
  BY DEF LlmRunsInit, Line, KeysAreOwned, Accounted, Present, Over, Requests
<1>3. PermitsAreConserved
  <2>1. {r \in Requests : task[r] \in Holding} = {} /\ Waiting = {}
    BY DEF LlmRunsInit, Holding, Waiting, InQueue
  <2>2. Cardinality({r \in Requests : task[r] \in Holding}) = 0 /\ Cardinality(Waiting) = 0
    BY <2>1, FS_EmptySet
  <2>3. permits = MaxActive /\ queue = << >>
    BY DEF LlmRunsInit
  <2> QED BY <2>2, <2>3, LlmRunsAssumption DEF PermitsAreConserved
<1> QED BY <1>1, <1>2, <1>3 DEF Inv

\* A step of one task that leaves the gate, or goes on inside or outside it.
LEMMA OneTask ==
    ASSUME Inv, NEW r \in Requests, NEW t \in TaskStates, UNCHANGED <<row, call>>,
           \/ LlmRelease(r, t) /\ t \in {"returned", "lost"}
           \/ /\ task' = [task EXCEPT ![r] = t] /\ UNCHANGED <<queue, permits>> /\ task[r] # "waiting"
              /\ task[r] \in Holding <=> t \in Holding
              /\ t \in InQueue => task[r] \in InQueue,
           r \in LlmIds => /\ task[r] \notin Over \cup {"new"} /\ t # "new",
           acct' \in [Requests -> AcctStates], unwritten \subseteq unwritten', unwritten' \subseteq Requests,
           \A s \in Requests \ {r} : acct'[s] = acct[s],
           acct'[r] = "running" => r \in unwritten' \/ t \in {"calling", "answered", "lost"}
    PROVE  Inv'
<1> USE DEF Inv
<1>1. /\ Line' /\ PermitsAreConserved' /\ task' \in [Requests -> TaskStates]
      /\ permits' \in Nat /\ queue' \in Seq(Requests) /\ task'[r] = t
      /\ \A s \in Requests \ {r} :
            task'[s] = task[s] \/ (task[s] = "waiting" /\ task'[s] = "granted")
  <2>1. CASE LlmRelease(r, t) /\ t \in {"returned", "lost"}
    BY <2>1, ReleaseStep
  <2>2. CASE /\ task' = [task EXCEPT ![r] = t] /\ UNCHANGED <<queue, permits>> /\ task[r] # "waiting"
             /\ task[r] \in Holding <=> t \in Holding
             /\ t \in InQueue => task[r] \in InQueue
    <3>1. Line' /\ PermitsAreConserved' /\ task' \in [Requests -> TaskStates]
      BY <2>2, MoveStep
    <3> QED BY <2>2, <3>1 DEF Typed
  <2> QED BY <2>1, <2>2
<1>2. Typed'
  BY <1>1 DEF Typed
<1>3. KeysAreOwned'
  <2>1. LlmIds \subseteq Requests
    BY DEF Requests
  <2> QED BY <1>1, <2>1, TasksMove DEF Over
<1>4. Accounted'
  BY <1>1 DEF Accounted
<1> QED BY <1>1, <1>2, <1>3, <1>4

LEMMA EnterInv == ASSUME Inv, NEW r \in Requests, Enter(r) PROVE Inv'
<1> USE DEF Inv
<1>0. /\ task[r] = "spawned" /\ UNCHANGED <<row, acct, unwritten, call>>
      /\ acct[r] = "running" => r \in unwritten
  BY DEF Enter, Accounted
<1>1. CASE task' = [task EXCEPT ![r] = "returned"] /\ UNCHANGED <<queue, permits>>
  BY <1>0, <1>1, OneTask DEF Typed, TaskStates, Holding, InQueue, Over
<1>2. CASE permits > 0 /\ permits' = permits - 1 /\ task' = [task EXCEPT ![r] = "resolving"]
           /\ UNCHANGED queue
  <2>1. /\ task' \in [Requests -> TaskStates] /\ task'[r] = "resolving"
        /\ \A s \in Requests \ {r} : task'[s] = task[s]
    BY <1>2 DEF Typed, TaskStates
  <2>2. permits' \in Nat /\ queue = << >>
    BY <1>2 DEF Typed, PermitsAreConserved
  <2>3. PermitsAreConserved'
    <3> DEFINE T == {s \in Requests : task[s] \in Holding}
    <3>1. {s \in Requests : task'[s] \in Holding} = T \cup {r} /\ r \notin T /\ T \subseteq Requests
      BY <1>0, <2>1 DEF Holding
    <3>2. permits + Cardinality(T) = MaxActive
      BY DEF PermitsAreConserved
    <3>3. Waiting' = Waiting
      BY <1>0, <2>1 DEF Waiting, InQueue
    <3> HIDE DEF T
    <3>4. Cardinality(T \cup {r}) = Cardinality(T) + 1 /\ Cardinality(T) \in Nat
      BY <3>1, FiniteRequests, FS_AddElement
    <3>5. permits' + Cardinality(T \cup {r}) = MaxActive
      BY <1>2, <3>2, <3>4 DEF Typed
    <3> QED BY <1>2, <2>2, <3>1, <3>3, <3>5 DEF PermitsAreConserved
  <2>4. Typed'
    BY <1>0, <1>2, <2>1, <2>2 DEF Typed
  <2>5. Line'
    BY <1>2, <2>2, EmptySeq DEF Line
  <2>6. KeysAreOwned'
    <3>1. LlmIds \subseteq Requests
      BY DEF Requests
    <3> QED BY <1>0, <2>1, <3>1, TasksMove DEF Over
  <2>7. Accounted'
    BY <1>0, <2>1 DEF Accounted
  <2> QED BY <2>3, <2>4, <2>5, <2>6, <2>7
<1>3. CASE permits = 0 /\ Cardinality(Waiting) < MaxWaiting /\ queue' = Append(queue, r)
           /\ task' = [task EXCEPT ![r] = "waiting"] /\ UNCHANGED permits
  <2>1. /\ task' \in [Requests -> TaskStates] /\ task'[r] = "waiting"
        /\ \A s \in Requests \ {r} : task'[s] = task[s]
    BY <1>3 DEF Typed, TaskStates
  <2>2. /\ queue' \in Seq(Requests) /\ Len(queue') = Len(queue) + 1 /\ Len(queue) \in Nat
        /\ queue'[Len(queue) + 1] = r /\ \A i \in 1..Len(queue) : queue'[i] = queue[i]
    BY <1>3, AppendProperties, LenProperties DEF Typed
  <2>3. \A i \in 1..Len(queue) : queue[i] \in Requests /\ queue[i] # r /\ task[queue[i]] = "waiting"
    BY <1>0, ElementOfSeq DEF Typed, Line
  <2>4. Line'
    <3>1. \A i \in 1..Len(queue') : i = Len(queue) + 1 \/ i \in 1..Len(queue)
      BY <2>2
    <3>2. \A i \in 1..Len(queue') : task'[queue'[i]] = "waiting"
      BY <2>1, <2>2, <2>3, <3>1
    <3>3. \A i, j \in 1..Len(queue') : queue'[i] = queue'[j] => i = j
      BY <2>2, <2>3, <3>1 DEF Line
    <3> QED BY <3>2, <3>3 DEF Line
  <2>5. PermitsAreConserved'
    <3>1. {s \in Requests : task'[s] \in Holding} = {s \in Requests : task[s] \in Holding}
      BY <1>0, <2>1 DEF Holding
    <3>2. Waiting' = Waiting \cup {r} /\ r \notin Waiting
      BY <1>0, <2>1 DEF Waiting, InQueue
    <3>3. IsFiniteSet(Waiting) /\ Cardinality(Waiting) \in Nat
      BY FiniteRequests DEF Waiting
    <3>4. Cardinality(Waiting') = Cardinality(Waiting) + 1
      BY <3>2, <3>3, FS_AddElement
    <3>5. permits' + Cardinality({s \in Requests : task'[s] \in Holding}) = MaxActive
      BY <1>3, <3>1 DEF PermitsAreConserved
    <3>6. Cardinality(Waiting') <= MaxWaiting
      BY <1>3, <3>3, <3>4, LlmRunsAssumption
    <3> QED BY <1>3, <3>5, <3>6 DEF PermitsAreConserved
  <2>6. Typed'
    BY <1>0, <1>3, <2>1, <2>2 DEF Typed
  <2>7. KeysAreOwned'
    <3>1. LlmIds \subseteq Requests
      BY DEF Requests
    <3> QED BY <1>0, <2>1, <3>1, TasksMove DEF Over
  <2>8. Accounted'
    BY <1>0, <2>1 DEF Accounted
  <2> QED BY <2>4, <2>5, <2>6, <2>7, <2>8
<1> QED BY <1>1, <1>2, <1>3 DEF Enter

\* A step that neither moves a task nor touches the gate or the accounts.
LEMMA RowsMove ==
    ASSUME Inv, UNCHANGED <<queue, permits, acct, unwritten>>,
           row' \in [LlmIds -> {NoRow} \cup RowType],
           \/ UNCHANGED <<task, call>>
           \/ \E r \in LlmIds : /\ task[r] = "new" /\ task' = [task EXCEPT ![r] = "spawned"]
                                 /\ UNCHANGED call,
           KeysAreOwned'
    PROVE  Inv'
<1> USE DEF Inv
<1>1. CASE UNCHANGED <<task, call>>
  BY <1>1 DEF Typed, Line, PermitsAreConserved, Waiting, Accounted
<1>2. ASSUME NEW r \in LlmIds, task[r] = "new", task' = [task EXCEPT ![r] = "spawned"], UNCHANGED call
      PROVE  Inv'
  <2>1. r \in Requests
    BY DEF Requests
  <2>2. Line' /\ PermitsAreConserved' /\ task' \in [Requests -> TaskStates]
    BY <1>2, <2>1, MoveStep DEF TaskStates, Holding, InQueue
  <2>3. Typed' /\ Accounted'
    BY <1>2, <2>1, <2>2 DEF Typed, Accounted
  <2> QED BY <2>2, <2>3
<1> QED BY <1>1, <1>2

LEMMA StatusTypes == \A o : AccountingStatus(o) \in AcctStates \ {"running"}
  BY DEF AccountingStatus, AcctStates

LEMMA TaskStepInv == ASSUME Inv, NEW r \in Requests, TaskStep(r) PROVE Inv'
<1> USE DEF Inv
<1>0. acct \in [Requests -> AcctStates] /\ unwritten \subseteq Requests
  BY DEF Typed
<1>1. CASE Admitted(r)
  BY <1>0, <1>1, OneTask DEF Admitted, Accounted, TaskStates, Holding, InQueue, Over
<1>2. CASE QueueTimeout(r)
  BY <1>0, <1>2, OneTask DEF QueueTimeout, Accounted, TaskStates, Over
<1>3. CASE ResolveAccount(r)
  <2>1. CASE task' = [task EXCEPT ![r] = "inserting"] /\ UNCHANGED <<queue, permits>>
    BY <1>0, <1>3, <2>1, OneTask DEF ResolveAccount, Accounted, TaskStates, Holding, InQueue, Over
  <2>2. CASE LlmRelease(r, "returned")
    BY <1>0, <1>3, <2>2, OneTask DEF ResolveAccount, Accounted, TaskStates, Over
  <2> QED BY <1>3, <2>1, <2>2 DEF ResolveAccount
<1>4. CASE Begin(r)
  <2>0. task[r] = "inserting" /\ UNCHANGED <<row, unwritten>>
    BY <1>4 DEF Begin
  <2>1. CASE LlmRelease(r, "returned") /\ UNCHANGED <<acct, call>>
    BY <1>0, <2>0, <2>1, OneTask DEF Accounted, TaskStates, Over
  <2>2. CASE /\ acct' = [acct EXCEPT ![r] = "running"] /\ task' = [task EXCEPT ![r] = "calling"]
             /\ call' = IF r \in LlmIds
                        THEN [call EXCEPT ![r] = [key |-> row[r].key, hash |-> row[r].hash]]
                        ELSE call
             /\ UNCHANGED <<queue, permits>>
    <3>1. Line' /\ PermitsAreConserved' /\ task' \in [Requests -> TaskStates]
      BY <2>0, <2>2, MoveStep DEF TaskStates, Holding, InQueue
    <3>2. acct' \in [Requests -> AcctStates]
      BY <1>0, <2>2 DEF AcctStates
    <3>3. task'[r] = "calling" /\ \A s \in Requests \ {r} : task'[s] = task[s] /\ acct'[s] = acct[s]
      BY <2>2 DEF Typed
    <3>4. CASE r \in LlmIds
      <4> DEFINE new == [key |-> row[r].key, hash |-> row[r].hash]
      <4>1. Present(r) /\ row[r] \in RowType
        BY <2>0, <3>4 DEF KeysAreOwned, Over, Typed, Present
      <4>2. new \in [key : LlmKeys, hash : Payloads] /\ new.key = row[r].key
        BY <4>1 DEF RowType
      <4>3. call' = [call EXCEPT ![r] = new]
        BY <2>2, <3>4
      <4> HIDE DEF new
      <4>4. /\ call' \in [LlmIds -> {NoCall} \cup [key : LlmKeys, hash : Payloads]]
            /\ call'[r].key = row[r].key /\ \A s \in LlmIds \ {r} : call'[s] = call[s]
        BY <3>4, <4>2, <4>3 DEF Typed
      <4>5. KeysAreOwned'
        <5>1. \A s \in LlmIds \ {r} : s \in Requests /\ task'[s] = task[s]
          BY <3>3 DEF Requests
        <5> QED BY <2>0, <3>3, <3>4, <4>1, <4>4, <5>1 DEF KeysAreOwned, Present, Over
      <4>6. Typed'
        BY <2>0, <2>2, <3>1, <3>2, <4>4 DEF Typed
      <4>7. Accounted'
        BY <2>0, <3>3 DEF Accounted
      <4> QED BY <3>1, <4>5, <4>6, <4>7
    <3>5. CASE r \notin LlmIds
      <4>1. call' = call /\ r \notin LlmIds
        BY <2>2, <3>5
      <4> QED BY <1>0, <2>0, <2>2, <3>2, <3>3, <4>1, OneTask DEF TaskStates, Holding, InQueue
    <3> QED BY <3>4, <3>5
  <2> QED BY <1>4, <2>1, <2>2 DEF Begin
<1>5. CASE CompletionAnswers(r) \/ SearchAnswers(r)
  <2>1. /\ task[r] = "calling" /\ task' = [task EXCEPT ![r] = "answered"]
        /\ UNCHANGED <<row, queue, permits, acct, unwritten, call>>
    BY <1>5 DEF CompletionAnswers, SearchAnswers
  <2> QED BY <1>0, <2>1, OneTask DEF TaskStates, Holding, InQueue, Over
<1>6. CASE Interrupted(r)
  <2>0. UNCHANGED <<row, acct, unwritten, call>>
    BY <1>6 DEF Interrupted
  <2>1. CASE task[r] \in InQueue \cup {"resolving"} /\ LlmRelease(r, "returned")
    BY <1>0, <2>0, <2>1, OneTask DEF Accounted, TaskStates, InQueue, Over
  <2>2. CASE task[r] = "calling" /\ task' = [task EXCEPT ![r] = "answered"] /\ UNCHANGED <<queue, permits>>
    BY <1>0, <2>0, <2>2, OneTask DEF TaskStates, Holding, InQueue, Over
  <2> QED BY <1>6, <2>1, <2>2 DEF Interrupted
<1>7. CASE LlmSettle(r)
  <2>1. task[r] = "answered" /\ LlmRelease(r, "returned") /\ UNCHANGED <<row, call>>
    BY <1>7 DEF LlmSettle
  <2>2. /\ acct' \in [Requests -> AcctStates] /\ unwritten \subseteq unwritten' /\ unwritten' \subseteq Requests
        /\ \A s \in Requests \ {r} : acct'[s] = acct[s]
        /\ acct'[r] = "running" => r \in unwritten'
    <3>1. CASE FinishSuccess(r)
      BY <1>0, <3>1 DEF FinishSuccess, AcctStates
    <3>2. CASE RecordFailure(r)
      BY <1>0, <3>2, StatusTypes DEF RecordFailure
    <3>3. CASE FinishFails(r)
      BY <1>0, <3>3 DEF FinishFails
    <3> QED BY <1>7, <3>1, <3>2, <3>3 DEF LlmSettle
  <2> QED BY <2>1, <2>2, OneTask DEF TaskStates, Over
<1>8. CASE Save(r)
  <2>1. /\ r \in LlmIds /\ task[r] = "returned" /\ task' = [task EXCEPT ![r] = "done"]
        /\ UNCHANGED <<queue, permits, acct, unwritten, call>>
        /\ row' = IF Present(r) /\ row[r].status = "running"
                  THEN [row EXCEPT ![r].status = Outcome(r)] ELSE row
    BY <1>8 DEF Save
  <2>2. /\ task'[r] = "done" /\ \A s \in Requests \ {r} : task'[s] = task[s]
    BY <2>1 DEF Typed
  <2>3. Line' /\ PermitsAreConserved' /\ task' \in [Requests -> TaskStates]
    BY <2>1, MoveStep DEF TaskStates, Holding, InQueue
  <2>4. Present(r) /\ row[r] \in RowType
    BY <2>1 DEF KeysAreOwned, Over, Typed, Present
  <2>5. /\ row' \in [LlmIds -> {NoRow} \cup RowType]
        /\ \A s \in LlmIds : Present(s)' <=> Present(s)
        /\ \A s \in LlmIds : Present(s) => row'[s].key = row[s].key /\ row'[s].age = row[s].age
    <3>1. CASE row' = row
      BY <3>1 DEF Typed, Present
    <3>2. CASE row' = [row EXCEPT ![r].status = Outcome(r)]
      <4> DEFINE new == [row[r] EXCEPT !.status = Outcome(r)]
      <4>1. Outcome(r) \in {"succeeded", "failed"}
        BY DEF Outcome
      <4>2. /\ new \in RowType /\ new.key = row[r].key /\ new.age = row[r].age
            /\ new.status # "absent"
        BY <2>4, <4>1 DEF RowType, Ended
      <4>3. row' = [row EXCEPT ![r] = new]
        BY <3>2
      <4> HIDE DEF new
      <4>4. row'[r] = new /\ \A s \in LlmIds \ {r} : row'[s] = row[s]
        BY <2>1, <4>3 DEF Typed
      <4>5. new # NoRow
        BY <4>2 DEF NoRow
      <4> QED BY <2>1, <2>4, <4>2, <4>3, <4>4, <4>5 DEF Typed, Present
    <3> QED BY <2>1, <3>1, <3>2
  <2>6. KeysAreOwned'
    <3>1. \A s \in LlmIds \ {r} : s \in Requests /\ task'[s] = task[s]
      BY <2>2 DEF Requests
    <3>2. call' = call
      BY <2>1
    <3> QED BY <2>1, <2>2, <2>5, <3>1, <3>2 DEF KeysAreOwned, Over
  <2>7. Typed'
    BY <2>1, <2>3, <2>5 DEF Typed
  <2>8. Accounted'
    BY <2>1, <2>2 DEF Accounted
  <2> QED BY <2>3, <2>6, <2>7, <2>8
<1>9. CASE SyncResponds(r)
  <2>1. r \notin LlmIds
    BY <1>9, RequestsAssumption DEF SyncResponds
  <2> QED BY <1>0, <1>9, <2>1, OneTask DEF SyncResponds, Accounted, TaskStates, Holding, InQueue
<1> QED BY <1>1, <1>2, <1>3, <1>4, <1>5, <1>6, <1>7, <1>8, <1>9, EnterInv DEF TaskStep

LEMMA SyncInv == ASSUME Inv, NEW s \in Syncs, SyncArrives(s) \/ Disconnect(s) PROVE Inv'
<1> USE DEF Inv
<1>0. /\ acct \in [Requests -> AcctStates] /\ unwritten \subseteq Requests
      /\ s \in Requests /\ s \notin LlmIds
  BY RequestsAssumption DEF Typed, Requests
<1>1. CASE SyncArrives(s)
  BY <1>0, <1>1, OneTask DEF SyncArrives, Accounted, TaskStates, Holding, InQueue
<1>2. CASE Disconnect(s)
  BY <1>0, <1>2, OneTask DEF Disconnect, TaskStates
<1> QED BY <1>1, <1>2

LEMMA SubmitInv ==
    ASSUME Inv, NEW c \in Clients, NEW k \in LlmKeys, NEW h \in Payloads, Submit(c, k, h) PROVE Inv'
<1> USE DEF Inv
<1>0. UNCHANGED <<queue, permits, acct, unwritten, call>>
  BY DEF Submit, Accept
<1>1. CASE UNCHANGED <<row, task>>
  <2>1. KeysAreOwned' /\ row' \in [LlmIds -> {NoRow} \cup RowType]
    BY <1>0, <1>1 DEF Typed, KeysAreOwned, Present
  <2> QED BY <1>0, <1>1, <2>1, RowsMove
<1>2. ASSUME NEW r \in LlmIds, Holders(k) = {}, task[r] = "new",
             row' = [row EXCEPT ![r] = [key |-> k, hash |-> h, age |-> 0, status |-> "running"]],
             task' = [task EXCEPT ![r] = "spawned"]
      PROVE  Inv'
  <2> DEFINE new == [key |-> k, hash |-> h, age |-> 0, status |-> "running"]
  <2>1. new \in RowType /\ new # NoRow /\ new.key = k /\ new.age = 0
    <3>1. new \in RowType
      BY DEF RowType
    <3>2. new.status # NoRow.status
      BY DEF NoRow
    <3> QED BY <3>1, <3>2
  <2>2. row' = [row EXCEPT ![r] = new]
    BY <1>2
  <2> HIDE DEF new
  <2>3. /\ row' \in [LlmIds -> {NoRow} \cup RowType] /\ row'[r] = new
        /\ \A s \in LlmIds \ {r} : row'[s] = row[s]
    BY <2>1, <2>2 DEF Typed
  <2>4. task'[r] = "spawned" /\ \A s \in LlmIds \ {r} : task'[s] = task[s]
    BY <1>2 DEF Typed, Requests
  <2>5. \A s \in LlmIds : Present(s) => row[s].key # k
    BY <1>2 DEF Holders
  <2>6. KeysAreOwned'
    BY <1>0, <1>2, <2>1, <2>3, <2>4, <2>5 DEF KeysAreOwned, Present, Over
  <2> QED BY <1>0, <1>2, <2>3, <2>6, RowsMove
<1> QED BY <1>1, <1>2 DEF Submit, Accept

LEMMA ClientInv == ASSUME Inv, NEW c \in Clients, Retrieve(c) \/ LlmGiveUp(c) PROVE Inv'
<1>1. UNCHANGED <<row, task, queue, permits, acct, unwritten, call>>
  BY DEF Retrieve, LlmGiveUp
<1>2. KeysAreOwned' /\ row' \in [LlmIds -> {NoRow} \cup RowType]
  BY <1>1 DEF Inv, Typed, KeysAreOwned, Present
<1> QED BY <1>1, <1>2, RowsMove

LEMMA AbortAgeInv == ASSUME Inv, NEW r \in LlmIds, Abort(r) \/ Age(r) PROVE Inv'
<1> USE DEF Inv
<1>0. UNCHANGED <<task, queue, permits, acct, unwritten, call>> /\ row[r] \in RowType /\ Present(r)
  BY DEF Abort, Age, Typed, Present
<1>1. ASSUME NEW new \in RowType, row' = [row EXCEPT ![r] = new], new.key = row[r].key,
             new.age = row[r].age \/ task[r] \in Over
      PROVE  Inv'
  <2>1. new # NoRow
    BY DEF RowType, NoRow, Ended
  <2>2. /\ row' \in [LlmIds -> {NoRow} \cup RowType] /\ row'[r] = new
        /\ \A s \in LlmIds \ {r} : row'[s] = row[s]
    BY <1>1 DEF Typed
  <2>3. KeysAreOwned'
    BY <1>0, <1>1, <2>1, <2>2 DEF KeysAreOwned, Present
  <2> QED BY <1>0, <2>2, <2>3, RowsMove
<1>2. CASE Abort(r)
  <2> DEFINE new == [row[r] EXCEPT !.status = "aborted"]
  <2>1. new \in RowType /\ new.key = row[r].key /\ new.age = row[r].age
    BY <1>0 DEF RowType, Ended
  <2>2. row' = [row EXCEPT ![r] = new]
    BY <1>2 DEF Abort
  <2> HIDE DEF new
  <2> QED BY <1>1, <2>1, <2>2
<1>3. CASE Age(r)
  <2> DEFINE new == [row[r] EXCEPT !.age = @ + 1]
  <2>1. row[r].age + 1 \in {Expired, Forgotten}
    BY <1>0, <1>3 DEF Age, RowType, Expired, Forgotten
  <2>2. new \in RowType /\ new.key = row[r].key
    BY <1>0, <2>1 DEF RowType
  <2>3. row' = [row EXCEPT ![r] = new] /\ task[r] \in Over
    BY <1>3 DEF Age, Over
  <2> HIDE DEF new
  <2> QED BY <1>1, <2>2, <2>3
<1> QED BY <1>2, <1>3

LEMMA CleanupInv == ASSUME Inv, CleanupRuns PROVE Inv'
<1> USE DEF Inv
<1>1. UNCHANGED <<task, queue, permits, acct, unwritten, call>>
  BY DEF CleanupRuns
<1>2. ASSUME NEW r \in LlmIds
      PROVE  /\ row'[r] \in {NoRow} \cup RowType
             /\ row'[r] # NoRow => /\ Present(r) /\ row'[r].key = row[r].key
                                   /\ row'[r].age = row[r].age
             /\ Present(r) /\ row'[r] = NoRow => row[r].age > 0
  <2>1. CASE ~Present(r)
    BY <2>1 DEF CleanupRuns
  <2>2. CASE Present(r) /\ row[r].age = Forgotten
    BY <2>2 DEF CleanupRuns, Forgotten
  <2>3. CASE Present(r) /\ row[r].age = Expired
    <3>1. row[r] \in RowType
      BY <2>3 DEF Typed, Present
    <3>2. row'[r] = [row[r] EXCEPT !.status = "expired"]
      BY <2>3 DEF CleanupRuns, Expired, Forgotten
    <3>3. row'[r] \in RowType /\ row'[r].key = row[r].key /\ row'[r].age = row[r].age
      BY <3>1, <3>2 DEF RowType
    <3> QED BY <2>3, <3>3 DEF Expired
  <2>4. CASE Present(r) /\ row[r].age # Forgotten /\ row[r].age # Expired
    BY <2>4 DEF CleanupRuns, Typed, Present
  <2> QED BY <2>1, <2>2, <2>3, <2>4
<1>3. row' \in [LlmIds -> {NoRow} \cup RowType]
  BY <1>2 DEF CleanupRuns
<1>4. KeysAreOwned'
  BY <1>1, <1>2 DEF KeysAreOwned, Present, Over
<1> QED BY <1>1, <1>3, <1>4, RowsMove

LEMMA CrashInv == ASSUME Inv, LlmCrash PROVE Inv'
<1> USE DEF Inv
<1>1. /\ UNCHANGED <<row, acct, unwritten, call>> /\ queue' = << >> /\ permits' = MaxActive
      /\ task' \in [Requests -> TaskStates]
      /\ \A r \in Requests : task'[r] = IF task[r] \in {"new", "done"} THEN task[r] ELSE "lost"
  BY DEF LlmCrash, Typed, TaskStates
<1>2. Typed'
  BY <1>1, EmptySeq, LlmRunsAssumption DEF Typed
<1>3. Line'
  BY <1>1, EmptySeq DEF Line
<1>4. PermitsAreConserved'
  <2>1. {r \in Requests : task'[r] \in Holding} = {} /\ Waiting' = {}
    BY <1>1 DEF Holding, Waiting, InQueue
  <2>2. Cardinality({r \in Requests : task'[r] \in Holding}) = 0 /\ Cardinality(Waiting') = 0
    BY <2>1, FS_EmptySet
  <2> QED BY <1>1, <2>2, LlmRunsAssumption DEF PermitsAreConserved
<1>5. KeysAreOwned'
  <2>1. LlmIds \subseteq Requests
    BY DEF Requests
  <2> QED BY <1>1, <2>1, TasksMove DEF Over
<1>6. Accounted'
  BY <1>1 DEF Accounted
<1> QED BY <1>2, <1>3, <1>4, <1>5, <1>6

LEMMA NextInv == ASSUME Inv, [LlmRunsNext]_llmRunVars PROVE Inv'
<1>1. CASE UNCHANGED llmRunVars
  <2>1. UNCHANGED <<row, task, queue, permits, acct, unwritten, call>>
    BY <1>1 DEF llmRunVars
  <2>2. KeysAreOwned' /\ row' \in [LlmIds -> {NoRow} \cup RowType]
    BY <2>1 DEF Inv, Typed, KeysAreOwned, Present
  <2> QED BY <2>1, <2>2, RowsMove
<1> QED BY <1>1, TaskStepInv, SyncInv, SubmitInv, ClientInv, AbortAgeInv, CleanupInv, CrashInv
        DEF LlmRunsNext

\* The inductive invariant holds throughout.
THEOREM LlmRunsInvariance == LlmRunsSpec => []Inv
<1>1. Inv /\ [LlmRunsNext]_llmRunVars => Inv'
  BY NextInv
<1> QED BY InitInv, <1>1, PTL DEF LlmRunsSpec

\* Rows, tasks, queue and permits are what LlmRunsTypeOK says (runs.rs, gateway.rs).
THEOREM LlmRunsTypesCorrect == LlmRunsSpec => []LlmRunsTypeOK
<1>1. Inv => LlmRunsTypeOK
  <2> SUFFICES ASSUME Inv PROVE LlmRunsTypeOK
    OBVIOUS
  <2>1. permits \in 0..MaxActive
    <3>1. Cardinality({r \in Requests : task[r] \in Holding}) \in Nat
      BY FiniteRequests
    <3> QED BY <3>1, LlmRunsAssumption DEF Inv, Typed, PermitsAreConserved
  <2> QED BY <2>1 DEF Inv, Typed, LlmRunsTypeOK, TaskStates, RowType, Present
<1> QED BY <1>1, LlmRunsInvariance, PTL

\* For every number of requests and permits: two runs of one key that both called the
\* provider are never both on record, permits are neither lost nor made up and none lies
\* idle while a request waits, and a request that ran to its end has no open accounting
\* row unless its last write failed (runs.rs and gateway.rs of the LLM gateway).
THEOREM LlmWorkStaysAccounted == LlmRunsSpec => []LlmWorkIsAccounted
<1>1. Inv => LlmWorkIsAccounted
  BY DEF Inv, KeysAreOwned, Accounted, LlmWorkIsAccounted, OneExecutionPerKey, EndedIsAccounted
<1> QED BY <1>1, LlmRunsInvariance, PTL

\* The first terminal transition of a run stays, whatever answer or abort comes after it
\* (runs.rs: the save and the abort change a running row only).
THEOREM FirstTransitionStays == LlmRunsSpec => FirstTransitionWins
<1> DEFINE Stays == \A r \in LlmIds :
          Present(r) /\ row[r].status # "running" =>
              \/ row'[r] = NoRow
              \/ row'[r].status \in {row[r].status, "expired"}
<1>1. Inv /\ [LlmRunsNext]_llmRunVars => [Stays]_llmRunVars
  <2> SUFFICES ASSUME Inv, LlmRunsNext, NEW r \in LlmIds, Present(r), row[r].status # "running"
               PROVE  row'[r] = NoRow \/ row'[r].status \in {row[r].status, "expired"}
    OBVIOUS
  <2>0. row \in [LlmIds -> {NoRow} \cup RowType] /\ row[r] \in RowType
    BY DEF Inv, Typed, Present
  <2>1. CASE row' = row
    BY <2>1
  <2>2. ASSUME NEW s \in Requests, TaskStep(s)
        PROVE  row'[r] = NoRow \/ row'[r].status \in {row[r].status, "expired"}
    <3>1. CASE Save(s)
      <4>1. s # r => row'[r] = row[r]
        BY <2>0, <3>1 DEF Save
      <4>2. s = r => row'[r] = row[r]
        BY <3>1 DEF Save
      <4> QED BY <4>1, <4>2
    <3>2. CASE ~Save(s)
      <4>1. row' = row
        BY <2>2, <3>2 DEF TaskStep, Enter, Admitted, QueueTimeout, ResolveAccount, Begin,
             CompletionAnswers, SearchAnswers, Interrupted, LlmSettle, SyncResponds
      <4> QED BY <4>1
    <3> QED BY <3>1, <3>2
  <2>3. ASSUME NEW c \in Clients, NEW k \in LlmKeys, NEW h \in Payloads, Submit(c, k, h)
        PROVE  row'[r] = row[r]
    <3>1. task[r] # "new"
      BY DEF Inv, KeysAreOwned
    <3> QED BY <2>0, <2>3, <3>1 DEF Submit, Accept
  <2>4. ASSUME NEW s \in LlmIds, Abort(s) \/ Age(s)
        PROVE  row'[r] = NoRow \/ row'[r].status \in {row[r].status, "expired"}
    <3>1. CASE s # r
      BY <2>0, <2>4, <3>1 DEF Abort, Age
    <3>2. CASE s = r
      <4>1. row' = [row EXCEPT ![r].age = @ + 1]
        BY <2>4, <3>2 DEF Abort, Age
      <4>2. row'[r].status = row[r].status
        BY <2>0, <4>1 DEF RowType
      <4> QED BY <4>2
    <3> QED BY <3>1, <3>2
  <2>5. CASE CleanupRuns
    <3>1. row'[r] \in {NoRow, row[r], [row[r] EXCEPT !.status = "expired"]}
      BY <2>5 DEF CleanupRuns
    <3> QED BY <2>0, <3>1 DEF RowType
  <2>6. ASSUME NEW s \in Syncs, SyncArrives(s) \/ Disconnect(s) PROVE row' = row
    BY <2>6 DEF SyncArrives, Disconnect
  <2>7. ASSUME NEW c \in Clients, Retrieve(c) \/ LlmGiveUp(c) PROVE row' = row
    BY <2>7 DEF Retrieve, LlmGiveUp
  <2>8. LlmCrash => row' = row
    BY DEF LlmCrash
  <2> QED BY <2>1, <2>2, <2>3, <2>4, <2>5, <2>6, <2>7, <2>8 DEF LlmRunsNext
<1> QED BY <1>1, LlmRunsInvariance, PTL DEF LlmRunsSpec, FirstTransitionWins

-----------------------------------------------------------------------------
(* The accounts of providers and their tokens (LlmAccounts). *)

\* What a request knows of its account: it was created; while it refreshes it has the
\* advisory lock; the token it presents, or has got, is the live one; unless it is lost.
RequestOK(q) ==
    /\ req[q].pc \notin {"new", "done"} => acc[req[q].acct] # Absent
    /\ req[q].pc \in Refreshing => advisory[req[q].acct] = q \/ req[q].acct \in lost
    /\ req[q].pc \in {"present", "rotated"} => req[q].token = live[req[q].acct] \/ req[q].acct \in lost
    /\ req[q].pc = "refused" => req[q].acct \in lost

\* The stored token is the live one, or a request is about to store that.
RowOK(a) ==
    /\ Exists(a) /\ a \notin lost =>
          acc[a].token = live[a] \/ \E q \in Reqs : req[q].pc = "rotated" /\ req[q].acct = a
    /\ acc[a].status = "reauth_required" => a \in lost
    /\ acc[a].default = TRUE => Exists(a) /\ acc[a].status # "disabled"

\* A transaction that is about to write has its locks, and the entry is as it was read.
AdminOK(t) ==
    /\ admin[t].pc = "update" => provLock = t
    /\ admin[t].pc = "update" /\ admin[t].op = "create" => acc[admin[t].acct] = Absent
    /\ admin[t].pc \in {"provider", "update"} /\ admin[t].op = "default" =>
          /\ rowLock[admin[t].acct] = t /\ Exists(admin[t].acct)
          /\ acc[admin[t].acct].status = "active"

OneDefault == \A a, b \in Accounts : acc[a].default = TRUE /\ acc[b].default = TRUE => a = b

AccountsInv ==
    /\ AccountsTypeOK
    /\ \A q \in Reqs : RequestOK(q)
    /\ \A a \in Accounts : RowOK(a)
    /\ \A t \in Admins : AdminOK(t)
    /\ OneDefault

-----------------------------------------------------------------------------
LEMMA RowFacts ==
    /\ Absent.status = "absent" /\ Absent.default = FALSE
    /\ Removed.status = "removed" /\ Removed.default = FALSE /\ Removed # Absent
    /\ \A r \in AccountRows : r # Absent /\ r # Removed
<1>1. \A r \in AccountRows : r.status \in {"active", "disabled", "reauth_required"}
  BY DEF AccountRows
<1>2. Absent.status = "absent" /\ Removed.status = "removed"
  BY DEF Absent, Removed
<1>3. Absent.default = FALSE /\ Removed.default = FALSE
  BY DEF Absent, Removed
<1> QED BY <1>1, <1>2, <1>3

LEMMA RowsThatExist ==
    ASSUME AccountsTypeOK, NEW a \in Accounts
    PROVE  (Exists(a) <=> acc[a] \in AccountRows) /\ (Exists(a) => acc[a] # Absent)
  BY RowFacts DEF AccountsTypeOK, Exists

\* The fields of the states of a request.
LEMMA RequestFields ==
    ASSUME NEW x \in RequestStates
    PROVE  /\ x.pc \notin {"new", "done"} => x.acct \in Accounts /\ x.snap \in AccountRows /\ x.forced \in BOOLEAN
           /\ x.pc \in {"present", "refused", "rotated", "reread", "have", "call"} => x.token \in Nat
           /\ x.pc \in {"new", "done", "need", "lock", "check", "present", "refused", "rotated", "reread", "have", "call"}
<1>1. CASE x \in [pc : {"new", "done"}]
  BY <1>1
<1>2. CASE x \in [pc : {"need", "lock", "check"}, acct : Accounts, snap : AccountRows, forced : BOOLEAN]
  BY <1>2
<1>3. CASE x \in [pc : {"present", "refused", "rotated", "reread", "have", "call"}, acct : Accounts,
                  snap : AccountRows, forced : BOOLEAN, token : Nat]
  BY <1>3
<1> QED BY <1>1, <1>2, <1>3 DEF RequestStates

LEMMA AskingFacts ==
    ASSUME NEW pc \in {"need", "lock", "check"}, NEW a \in Accounts, NEW s \in AccountRows, NEW f \in BOOLEAN
    PROVE  /\ Asking(pc, a, s, f) \in RequestStates
           /\ Asking(pc, a, s, f).pc = pc /\ Asking(pc, a, s, f).acct = a
  BY DEF Asking, RequestStates

LEMMA HavingFacts ==
    ASSUME NEW pc \in {"present", "refused", "rotated", "reread", "have", "call"},
           NEW a \in Accounts, NEW s \in AccountRows, NEW f \in BOOLEAN, NEW t \in Nat
    PROVE  /\ Having(pc, a, s, f, t) \in RequestStates
           /\ Having(pc, a, s, f, t).pc = pc /\ Having(pc, a, s, f, t).acct = a
           /\ Having(pc, a, s, f, t).token = t
  BY DEF Having, RequestStates

LEMMA AdminFields ==
    ASSUME NEW x \in AdminStates
    PROVE  x.pc \notin {"new", "done"} => x.acct \in Accounts /\ x.op \in {"create", "default"}
<1>1. CASE x \in [pc : {"new", "done"}]
  BY <1>1
<1>2. CASE x \in [pc : {"update"}, op : {"create"}, acct : Accounts, makeDefault : BOOLEAN]
  BY <1>2
<1>3. CASE x \in [pc : {"provider", "update"}, op : {"default"}, acct : Accounts]
  BY <1>3
<1> QED BY <1>1, <1>2, <1>3 DEF AdminStates

-----------------------------------------------------------------------------
LEMMA AccountsInitially == AccountsInit => AccountsInv
<1> SUFFICES ASSUME AccountsInit PROVE AccountsInv
  OBVIOUS
<1>1. First \in Accounts /\ MaxToken \in Nat
  BY LlmAccountsAssumption
<1>2. NewAccount(1, TRUE) \in AccountRows /\ NewAccount(1, TRUE).status = "active" /\ NewAccount(1, TRUE).token = 1
  BY DEF NewAccount, AccountRows
<1>3. acc \in [Accounts -> AccountRows \cup {Absent, Removed}]
  BY <1>2 DEF AccountsInit
<1>4. req \in [Reqs -> RequestStates] /\ admin \in [Admins -> AdminStates]
  BY DEF AccountsInit, RequestStates, AdminStates
<1>5. AccountsTypeOK
  BY <1>3, <1>4 DEF AccountsInit, AccountsTypeOK
<1>6. \A q \in Reqs : RequestOK(q)
  BY DEF AccountsInit, RequestOK, Refreshing
<1>7. ASSUME NEW a \in Accounts PROVE RowOK(a)
  <2>1. CASE a = First
    <3>1. acc[a] = NewAccount(1, TRUE) /\ live[a] = 1
      BY <2>1 DEF AccountsInit
    <3> QED BY <3>1, <1>2, <1>5, RowsThatExist DEF RowOK
  <2>2. CASE a # First
    <3>1. acc[a] = Absent
      BY <2>2 DEF AccountsInit
    <3> QED BY <3>1, RowFacts DEF RowOK, Exists
  <2> QED BY <2>1, <2>2
<1>8. \A t \in Admins : AdminOK(t)
  BY DEF AccountsInit, AdminOK
<1>9. \A a \in Accounts : acc[a].default = TRUE => a = First
  <2>1. \A a \in Accounts : a # First => acc[a] = Absent
    BY DEF AccountsInit
  <2> QED BY <2>1, RowFacts
<1>10. OneDefault
  BY <1>9 DEF OneDefault
<1> QED BY <1>5, <1>6, <1>7, <1>8, <1>10 DEF AccountsInv

\* What a step leaves of the rows outside A and the requests outside Q, and makes of those inside.
Touches(A, Q) ==
    /\ \A a \in Accounts \ A : acc'[a] = acc[a] /\ live'[a] = live[a]
    /\ \A q \in Reqs \ Q : req'[q] = req[q] /\ \A a \in Accounts : advisory[a] = q => advisory'[a] = q
    /\ \A q \in Q : RequestOK(q)'
    /\ \A a \in A : RowOK(a)'
    /\ \A a \in A : Exists(a) /\ acc'[a] # Absent
    /\ \A a \in A : acc'[a].default = TRUE => acc[a].default = TRUE
    /\ \A a \in A : rowLock[a] = NoOne \/ (Exists(a)' /\ acc'[a].status = acc[a].status)
    /\ \A a \in A, q \in Reqs \ Q : req[q].pc \in {"present", "rotated"} /\ req[q].acct = a =>
             live'[a] = live[a] \/ a \in lost'
    /\ \A q \in Q : req[q].pc = "rotated" =>
             \/ req'[q].pc = "rotated" /\ req'[q].acct = req[q].acct
             \/ req[q].acct \in lost' \cup A \/ ~Exists(req[q].acct)

\* A step that no administrator takes changes some requests and some rows: what it does
\* not touch keeps what it had.
LEMMA StepOfRequests ==
    ASSUME AccountsInv, AccountsTypeOK', UNCHANGED adminSide, lost \subseteq lost',
           NEW A \in SUBSET Accounts, NEW Q \in SUBSET Reqs,
           Touches(A, Q)
    PROVE  AccountsInv'
<1> USE DEF Touches
<1>1. ASSUME NEW q \in Reqs PROVE RequestOK(q)'
  <2>1. CASE q \in Q
    BY <2>1
  <2>2. CASE q \notin Q
    <3>1. req'[q] = req[q] /\ \A a \in Accounts : advisory[a] = q => advisory'[a] = q
      BY <2>2
    <3>2. RequestOK(q) /\ req[q] \in RequestStates
      BY DEF AccountsInv, AccountsTypeOK
    <3>3. req[q].pc \notin {"new", "done"} => req[q].acct \in Accounts
      BY <3>2, RequestFields
    <3>4. req[q].pc \notin {"new", "done"} => acc'[req[q].acct] # Absent
      BY <3>2, <3>3 DEF RequestOK
    <3>5. req[q].pc \in Refreshing => advisory'[req[q].acct] = q \/ req[q].acct \in lost'
      BY <3>1, <3>2, <3>3 DEF RequestOK, Refreshing
    <3>6. req[q].pc \in {"present", "rotated"} => req[q].token = live'[req[q].acct] \/ req[q].acct \in lost'
      BY <2>2, <3>2, <3>3 DEF RequestOK
    <3> QED BY <3>1, <3>2, <3>4, <3>5, <3>6 DEF RequestOK
  <2> QED BY <2>1, <2>2
<1>2. ASSUME NEW a \in Accounts PROVE RowOK(a)'
  <2>1. CASE a \in A
    BY <2>1
  <2>2. CASE a \notin A
    <3>1. acc'[a] = acc[a] /\ live'[a] = live[a] /\ RowOK(a)
      BY <2>2 DEF AccountsInv
    <3>2. Exists(a)' <=> Exists(a)
      BY <3>1 DEF Exists
    <3>3. ASSUME Exists(a), a \notin lost', acc[a].token # live[a]
          PROVE  \E q \in Reqs : req'[q].pc = "rotated" /\ req'[q].acct = a
      <4>1. PICK q \in Reqs : req[q].pc = "rotated" /\ req[q].acct = a
        BY <3>1, <3>3 DEF RowOK
      <4> QED BY <4>1, <2>2, <3>3
    <3> QED BY <3>1, <3>2, <3>3 DEF RowOK
  <2> QED BY <2>1, <2>2
<1>3. ASSUME NEW t \in Admins PROVE AdminOK(t)'
  <2>1. admin'[t] = admin[t] /\ provLock' = provLock /\ rowLock' = rowLock /\ AdminOK(t)
    BY DEF adminSide, AccountsInv
  <2>2. admin[t].pc \notin {"new", "done"} => admin[t].acct \in Accounts
    BY AdminFields DEF AccountsInv, AccountsTypeOK
  <2>3. admin[t].pc = "update" /\ admin[t].op = "create" => acc'[admin[t].acct] = Absent
    <3> SUFFICES ASSUME admin[t].pc = "update", admin[t].op = "create" PROVE acc'[admin[t].acct] = Absent
      OBVIOUS
    <3>1. acc[admin[t].acct] = Absent /\ admin[t].acct \in Accounts
      BY <2>1, <2>2 DEF AdminOK
    <3>2. admin[t].acct \notin A
      BY <3>1 DEF Exists
    <3> QED BY <3>1, <3>2
  <2>4. admin[t].pc \in {"provider", "update"} /\ admin[t].op = "default" =>
          Exists(admin[t].acct)' /\ acc'[admin[t].acct].status = "active"
    <3> SUFFICES ASSUME admin[t].pc \in {"provider", "update"}, admin[t].op = "default"
                 PROVE  Exists(admin[t].acct)' /\ acc'[admin[t].acct].status = "active"
      BY <2>1
    <3> DEFINE a == admin[t].acct
    <3>1. rowLock[a] = t /\ Exists(a) /\ acc[a].status = "active" /\ a \in Accounts
      BY <2>1, <2>2 DEF AdminOK
    <3>2. admin'[t].acct = a
      BY <2>1
    <3> HIDE DEF a
    <3>3. CASE a \in A
      <4>1. rowLock[a] # NoOne
        BY <3>1, LlmAccountsAssumption
      <4> QED BY <3>1, <3>3, <4>1, <3>2 DEF Exists, a
    <3>4. CASE a \notin A
      BY <3>1, <3>4, <3>2 DEF Exists, a
    <3> QED BY <3>3, <3>4
  <2> QED BY <2>1, <2>3, <2>4 DEF AdminOK
<1>4. OneDefault'
  BY DEF AccountsInv, OneDefault
<1> QED BY <1>1, <1>2, <1>3, <1>4 DEF AccountsInv

\* One request moves to x, and the locks of the others stay.
Moves(q, x) ==
    /\ req' = [req EXCEPT ![q] = x]
    /\ mutex' \in [Replicas -> [Accounts -> Reqs \cup {NoOne}]]
    /\ advisory' \in [Accounts -> Reqs \cup {NoOne}]
    /\ \A p \in Reqs \ {q} : \A a \in Accounts : advisory[a] = p => advisory'[a] = p

LEMMA LeaveMoves ==
    ASSUME AccountsInv, NEW q \in Reqs, NEW x \in RequestStates, Leave(q, x) PROVE Moves(q, x)
<1>1. AccountsTypeOK
  BY DEF AccountsInv
<1>2. mutex' \in [Replicas -> [Accounts -> Reqs \cup {NoOne}]]
  BY <1>1 DEF Leave, AccountsTypeOK
<1>3. advisory' \in [Accounts -> Reqs \cup {NoOne}]
  BY <1>1 DEF Leave, AccountsTypeOK
<1> QED BY <1>2, <1>3 DEF Leave, Moves

LEMMA MovesOnly ==
    ASSUME AccountsInv, NEW q \in Reqs, NEW x, UNCHANGED <<mutex, advisory>>, req' = [req EXCEPT ![q] = x]
    PROVE  Moves(q, x)
  BY DEF AccountsInv, AccountsTypeOK, Moves

\* A request moves, and no entry changes.
LEMMA RequestMoves ==
    ASSUME AccountsInv, NEW q \in Reqs, NEW x \in RequestStates, Moves(q, x),
           UNCHANGED <<acc, live, issued, adminSide>>, lost \subseteq lost', lost' \subseteq Accounts,
           cache' \in [Replicas -> [Accounts -> {NoTransport} \cup [rev : Nat, ver : Nat, token : Nat]]],
           x.pc \notin {"new", "done"} => acc[x.acct] # Absent,
           x.pc \in Refreshing => advisory'[x.acct] = q \/ x.acct \in lost',
           x.pc \in {"present", "rotated"} => x.token = live[x.acct] \/ x.acct \in lost',
           x.pc = "refused" => x.acct \in lost',
           req[q].pc = "rotated" => \/ x.pc = "rotated" /\ x.acct = req[q].acct
                                    \/ req[q].acct \in lost'
    PROVE  AccountsInv'
<1>1. req' \in [Reqs -> RequestStates] /\ req'[q] = x /\ \A p \in Reqs \ {q} : req'[p] = req[p]
  BY DEF AccountsInv, AccountsTypeOK, Moves
<1>2. AccountsTypeOK'
  BY <1>1 DEF AccountsInv, AccountsTypeOK, adminSide, Moves
<1>3. RequestOK(q)'
  BY <1>1 DEF RequestOK
<1>4. \A p \in Reqs \ {q} : \A a \in Accounts : advisory[a] = p => advisory'[a] = p
  BY DEF Moves
<1> DEFINE A == {}
           Q == {q}
<1>5. A \in SUBSET Accounts /\ Q \in SUBSET Reqs
  OBVIOUS
<1>6. \A p \in Q : RequestOK(p)'
  BY <1>3
<1>7. \A p \in Q : req[p].pc = "rotated" =>
          \/ req'[p].pc = "rotated" /\ req'[p].acct = req[p].acct
          \/ req[p].acct \in lost' \cup A \/ ~Exists(req[p].acct)
  BY <1>1
<1>8. \A a \in Accounts \ A : acc'[a] = acc[a] /\ live'[a] = live[a]
  OBVIOUS
<1>9. \A p \in Reqs \ Q : req'[p] = req[p] /\ \A a \in Accounts : advisory[a] = p => advisory'[a] = p
  BY <1>1, <1>4
<1>10. \A a \in A : FALSE
  OBVIOUS
<1> HIDE DEF A, Q
<1>11. Touches(A, Q)
  BY <1>6, <1>7, <1>8, <1>9, <1>10 DEF Touches
<1> QED BY <1>2, <1>5, <1>11, StepOfRequests

LEMMA RequestNow ==
    ASSUME AccountsInv, NEW q \in Reqs
    PROVE  /\ req[q] \in RequestStates /\ RequestOK(q)
           /\ cache \in [Replicas -> [Accounts -> {NoTransport} \cup [rev : Nat, ver : Nat, token : Nat]]]
           /\ lost \subseteq Accounts /\ AccountsTypeOK /\ Failed \in RequestStates /\ Failed.pc = "done"
<1>1. Failed \in RequestStates /\ Failed.pc = "done"
  BY DEF Failed, RequestStates
<1> QED BY <1>1 DEF AccountsInv, AccountsTypeOK

LEMMA ResolveKeeps == ASSUME AccountsInv, NEW q \in Reqs, ResolveCredential(q) PROVE AccountsInv'
<1>1. req[q].pc = "new" /\ UNCHANGED <<acc, live, issued, lost, mutex, advisory, cache, adminSide>>
  BY DEF ResolveCredential
<1>2. CASE \E a \in Accounts : acc[a].status = "active" /\ req' = [req EXCEPT ![q] = Asking("need", a, acc[a], FALSE)]
  <2>1. PICK a \in Accounts : acc[a].status = "active" /\ req' = [req EXCEPT ![q] = Asking("need", a, acc[a], FALSE)]
    BY <1>2
  <2>2. acc[a] \in AccountRows /\ acc[a] # Absent
    BY <2>1, RowFacts DEF AccountsInv, AccountsTypeOK
  <2> DEFINE x == Asking("need", a, acc[a], FALSE)
  <2>3. x \in RequestStates /\ x.pc = "need" /\ x.acct = a
    BY <2>2 DEF Asking, RequestStates
  <2>4. req' = [req EXCEPT ![q] = x]
    BY <2>1
  <2> HIDE DEF x
  <2>5. Moves(q, x)
    BY <1>1, <2>4, MovesOnly
  <2> QED BY <1>1, <2>2, <2>3, <2>5, RequestNow, RequestMoves DEF Refreshing
<1>3. CASE req' = [req EXCEPT ![q] = Failed]
  <2>1. Moves(q, Failed)
    BY <1>1, <1>3, MovesOnly
  <2> QED BY <1>1, <2>1, RequestNow, RequestMoves DEF Refreshing
<1> QED BY <1>2, <1>3 DEF ResolveCredential

LEMMA CredentialsKeeps == ASSUME AccountsInv, NEW q \in Reqs, Credentials(q) PROVE AccountsInv'
<1> DEFINE x == req[q]
<1>1. x.pc = "need" /\ UNCHANGED <<acc, live, issued, lost, mutex, advisory, cache, adminSide>>
  BY DEF Credentials
<1>2. x.acct \in Accounts /\ x.snap \in AccountRows /\ x.forced \in BOOLEAN /\ acc[x.acct] # Absent /\ x.snap.token \in Nat
  BY <1>1, RequestNow, RequestFields DEF RequestOK, AccountRows
<1>3. PICK y \in RequestStates : req' = [req EXCEPT ![q] = y] /\ y.pc \in {"have", "lock"} /\ y.acct = x.acct
  <2> DEFINE y1 == Having("have", x.acct, x.snap, x.forced, x.snap.token)
             y2 == Asking("lock", x.acct, x.snap, x.forced)
  <2>1. y1 \in RequestStates /\ y1.pc = "have" /\ y1.acct = x.acct
    BY <1>2, HavingFacts
  <2>2. y2 \in RequestStates /\ y2.pc = "lock" /\ y2.acct = x.acct
    BY <1>2, AskingFacts
  <2>3. req' = [req EXCEPT ![q] = y1] \/ req' = [req EXCEPT ![q] = y2]
    BY DEF Credentials
  <2> HIDE DEF y1, y2
  <2> QED BY <2>1, <2>2, <2>3
<1>4. Moves(q, y)
  BY <1>1, <1>3, MovesOnly
<1> QED BY <1>1, <1>2, <1>3, <1>4, RequestNow, RequestMoves DEF Refreshing

LEMMA LockKeeps == ASSUME AccountsInv, NEW q \in Reqs, Lock(q) PROVE AccountsInv'
<1> DEFINE x == req[q]
           a == req[q].acct
<1>1. x.pc = "lock" /\ UNCHANGED <<acc, live, issued, lost, cache, adminSide>>
  BY DEF Lock
<1>2. a \in Accounts /\ acc[a] # Absent /\ x \in RequestStates /\ Home[q] \in Replicas /\ q # NoOne /\ NoOne \notin Reqs
  BY <1>1, RequestNow, RequestFields, LlmAccountsAssumption DEF RequestOK
<1>3. CASE mutex' = [mutex EXCEPT ![Home[q]][a] = q] /\ UNCHANGED <<req, advisory>>
  <2>1. req' = [req EXCEPT ![q] = x]
    BY <1>3, RequestNow DEF AccountsTypeOK
  <2>2. mutex' \in [Replicas -> [Accounts -> Reqs \cup {NoOne}]]
    BY <1>2, <1>3, RequestNow DEF AccountsTypeOK
  <2>3. Moves(q, x)
    BY <1>3, <2>1, <2>2, RequestNow DEF Moves, AccountsTypeOK
  <2> QED BY <1>1, <1>2, <2>3, RequestNow, RequestMoves DEF Refreshing
<1>4. CASE advisory[a] = NoOne /\ advisory' = [advisory EXCEPT ![a] = q] /\ req' = [req EXCEPT ![q].pc = "check"]
           /\ UNCHANGED mutex
  <2> DEFINE y == [x EXCEPT !.pc = "check"]
  <2>1. y \in RequestStates /\ y.pc = "check" /\ y.acct = a
    <3>1. x \in [pc : {"need", "lock", "check"}, acct : Accounts, snap : AccountRows, forced : BOOLEAN]
      BY <1>1, <1>2 DEF RequestStates
    <3> QED BY <3>1 DEF RequestStates
  <2>2. req' = [req EXCEPT ![q] = y]
    BY <1>4, RequestNow DEF AccountsTypeOK
  <2>3. advisory' \in [Accounts -> Reqs \cup {NoOne}] /\ advisory'[a] = q
        /\ \A b \in Accounts \ {a} : advisory'[b] = advisory[b]
    BY <1>2, <1>4, RequestNow DEF AccountsTypeOK
  <2> HIDE DEF y
  <2>4. Moves(q, y)
    BY <1>2, <1>4, <2>2, <2>3, RequestNow DEF Moves, AccountsTypeOK
  <2> QED BY <1>1, <1>2, <2>1, <2>3, <2>4, RequestNow, RequestMoves
<1>5. CASE Leave(q, Failed)
  BY <1>1, <1>5, LeaveMoves, RequestNow, RequestMoves DEF Refreshing
<1> QED BY <1>3, <1>4, <1>5 DEF Lock

\* Whoever refreshes an account that is not lost does so alone.
LEMMA RefreshesAlone ==
    ASSUME AccountsInv, NEW p \in Reqs, NEW q \in Reqs, req[p].pc \in Refreshing, req[q].pc \in Refreshing,
           req[p].acct = req[q].acct, req[p].acct \notin lost
    PROVE  p = q
  BY DEF AccountsInv, RequestOK

LEMMA RecheckKeeps == ASSUME AccountsInv, NEW q \in Reqs, Recheck(q) PROVE AccountsInv'
<1> DEFINE a == req[q].acct
           y(pc) == Having(pc, a, acc[a], req[q].forced, acc[a].token)
<1>1. req[q].pc = "check" /\ UNCHANGED <<acc, live, issued, lost, cache, adminSide>>
  BY DEF Recheck
<1>2. a \in Accounts /\ acc[a] # Absent /\ req[q].forced \in BOOLEAN
  BY <1>1, RequestNow, RequestFields DEF RequestOK
<1>3. advisory[a] = q \/ a \in lost
  BY <1>1, RequestNow DEF RequestOK, Refreshing
<1>4. CASE Leave(q, Failed)
  BY <1>1, <1>4, LeaveMoves, RequestNow, RequestMoves DEF Refreshing
<1>5. CASE Exists(a) /\ Leave(q, y("have"))
  <2>1. acc[a] \in AccountRows /\ acc[a].token \in Nat
    BY <1>2, <1>5, RequestNow, RowsThatExist DEF AccountRows
  <2>2. y("have") \in RequestStates /\ y("have").pc = "have" /\ y("have").acct = a
    BY <1>2, <2>1, HavingFacts
  <2> DEFINE x == y("have")
  <2>3. Leave(q, x) /\ x \in RequestStates /\ x.pc = "have" /\ x.acct = a
    BY <1>5, <2>2
  <2> HIDE DEF x
  <2> QED BY <1>1, <1>2, <2>3, LeaveMoves, RequestNow, RequestMoves DEF Refreshing
<1>6. CASE Exists(a) /\ req' = [req EXCEPT ![q] = y("present")] /\ UNCHANGED <<mutex, advisory>>
  <2>1. acc[a] \in AccountRows /\ acc[a].token \in Nat
    BY <1>2, <1>6, RequestNow, RowsThatExist DEF AccountRows
  <2> DEFINE x == y("present")
  <2>2. x \in RequestStates /\ x.pc = "present" /\ x.acct = a /\ x.token = acc[a].token
    BY <1>2, <2>1, HavingFacts
  <2>3. req' = [req EXCEPT ![q] = x]
    BY <1>6
  <2>4. acc[a].token = live[a] \/ a \in lost
    <3> SUFFICES ASSUME a \notin lost PROVE acc[a].token = live[a]
      OBVIOUS
    <3>1. RowOK(a)
      BY <1>2 DEF AccountsInv
    <3>2. ASSUME NEW p \in Reqs, req[p].pc = "rotated", req[p].acct = a PROVE FALSE
      BY <1>1, <3>2, RefreshesAlone DEF Refreshing
    <3> QED BY <1>6, <3>1, <3>2 DEF RowOK
  <2> HIDE DEF x
  <2>5. Moves(q, x)
    BY <1>6, <2>3, MovesOnly
  <2> QED BY <1>1, <1>2, <1>3, <1>6, <2>2, <2>4, <2>5, RequestNow, RequestMoves DEF Refreshing
<1> QED BY <1>4, <1>5, <1>6 DEF Recheck

LEMMA RereadKeeps == ASSUME AccountsInv, NEW q \in Reqs, Reread(q) PROVE AccountsInv'
<1> DEFINE a == req[q].acct
           x == Having("have", a, acc[a], req[q].forced, req[q].token)
<1>1. req[q].pc = "reread" /\ UNCHANGED <<acc, live, issued, lost, cache, adminSide>>
  BY DEF Reread
<1>2. a \in Accounts /\ acc[a] # Absent /\ req[q].forced \in BOOLEAN /\ req[q].token \in Nat
  BY <1>1, RequestNow, RequestFields DEF RequestOK
<1>3. CASE Leave(q, Failed)
  BY <1>1, <1>3, LeaveMoves, RequestNow, RequestMoves DEF Refreshing
<1>4. CASE Exists(a) /\ Leave(q, x)
  <2>1. acc[a] \in AccountRows
    BY <1>2, <1>4, RequestNow, RowsThatExist
  <2>2. Leave(q, x) /\ x \in RequestStates /\ x.pc = "have" /\ x.acct = a
    BY <1>2, <1>4, <2>1, HavingFacts
  <2> HIDE DEF x
  <2> QED BY <1>1, <1>2, <2>2, LeaveMoves, RequestNow, RequestMoves DEF Refreshing
<1> QED BY <1>3, <1>4 DEF Reread

LEMMA TransportKeeps == ASSUME AccountsInv, NEW q \in Reqs, Transport(q) PROVE AccountsInv'
<1> DEFINE a == req[q].acct
           s == req[q].snap
           hit == cache[Home[q]][a]
<1>1. req[q].pc = "have" /\ UNCHANGED <<acc, live, issued, lost, mutex, advisory, adminSide>>
  BY DEF Transport
<1>2. /\ a \in Accounts /\ acc[a] # Absent /\ req[q].forced \in BOOLEAN /\ req[q].token \in Nat /\ s \in AccountRows
      /\ Home[q] \in Replicas /\ req[q] \in RequestStates
  BY <1>1, RequestNow, RequestFields, LlmAccountsAssumption DEF RequestOK
<1>3. CASE hit # NoTransport /\ req' = [req EXCEPT ![q] = Having("call", a, s, @.forced, hit.token)] /\ UNCHANGED cache
  <2> DEFINE x == Having("call", a, s, req[q].forced, hit.token)
  <2>1. hit.token \in Nat
    BY <1>2, <1>3, RequestNow
  <2>2. x \in RequestStates /\ x.pc = "call" /\ x.acct = a
    BY <1>2, <2>1, HavingFacts
  <2>3. req' = [req EXCEPT ![q] = x]
    BY <1>3, RequestNow DEF AccountsTypeOK
  <2> HIDE DEF x
  <2>4. Moves(q, x)
    BY <1>1, <2>3, MovesOnly
  <2> QED BY <1>1, <1>2, <1>3, <2>2, <2>4, RequestNow, RequestMoves DEF Refreshing
<1>4. CASE /\ req' = [req EXCEPT ![q].pc = "call"]
           /\ cache' = [cache EXCEPT ![Home[q]][a] = [rev |-> s.rev, ver |-> s.ver, token |-> req[q].token]]
  <2> DEFINE x == [req[q] EXCEPT !.pc = "call"]
             c == [rev |-> s.rev, ver |-> s.ver, token |-> req[q].token]
  <2>1. x \in RequestStates /\ x.pc = "call" /\ x.acct = a
    <3>1. req[q] \in [pc : {"present", "refused", "rotated", "reread", "have", "call"}, acct : Accounts,
                      snap : AccountRows, forced : BOOLEAN, token : Nat]
      BY <1>1, <1>2 DEF RequestStates
    <3> QED BY <3>1 DEF RequestStates
  <2>2. c \in [rev : Nat, ver : Nat, token : Nat]
    BY <1>2 DEF AccountRows
  <2>3. req' = [req EXCEPT ![q] = x]
    BY <1>4, RequestNow DEF AccountsTypeOK
  <2>4. cache' = [cache EXCEPT ![Home[q]][a] = c]
    BY <1>4
  <2> HIDE DEF x, c
  <2>5. cache' \in [Replicas -> [Accounts -> {NoTransport} \cup [rev : Nat, ver : Nat, token : Nat]]]
    BY <1>2, <2>2, <2>4, RequestNow
  <2>6. Moves(q, x)
    BY <1>1, <2>3, MovesOnly
  <2> QED BY <1>1, <1>2, <2>1, <2>5, <2>6, RequestNow, RequestMoves DEF Refreshing
<1> QED BY <1>3, <1>4 DEF Transport

LEMMA CallKeeps == ASSUME AccountsInv, NEW q \in Reqs, Call(q) PROVE AccountsInv'
<1> DEFINE x == Asking("need", req[q].acct, req[q].snap, TRUE)
<1>1. req[q].pc = "call" /\ UNCHANGED <<acc, live, issued, lost, mutex, advisory, cache, adminSide>>
  BY DEF Call
<1>2. req[q].acct \in Accounts /\ acc[req[q].acct] # Absent /\ req[q].snap \in AccountRows
  BY <1>1, RequestNow, RequestFields DEF RequestOK
<1>3. CASE req' = [req EXCEPT ![q] = Failed]
  <2>1. Moves(q, Failed)
    BY <1>1, <1>3, MovesOnly
  <2> QED BY <1>1, <2>1, RequestNow, RequestMoves DEF Refreshing
<1>4. CASE req' = [req EXCEPT ![q] = x]
  <2>1. x \in RequestStates /\ x.pc = "need" /\ x.acct = req[q].acct
    BY <1>2 DEF Asking, RequestStates
  <2> HIDE DEF x
  <2>2. Moves(q, x)
    BY <1>1, <1>4, MovesOnly
  <2> QED BY <1>1, <1>2, <2>1, <2>2, RequestNow, RequestMoves DEF Refreshing
<1>5. ~req[q].forced /\ req' = [req EXCEPT ![q] = Asking("need", @.acct, @.snap, TRUE)] =>
        req' = [req EXCEPT ![q] = x]
  BY RequestNow DEF AccountsTypeOK
<1> QED BY <1>3, <1>4, <1>5 DEF Call

LEMMA DropKeeps == ASSUME AccountsInv, NEW q \in Reqs, Drop(q) PROVE AccountsInv'
<1>1. /\ req[q].pc \in Refreshing \cup {"lock", "have", "call"} /\ Leave(q, Failed)
      /\ lost' = IF req[q].pc = "rotated" THEN lost \cup {req[q].acct} ELSE lost
      /\ UNCHANGED <<acc, live, issued, cache, adminSide>>
  BY DEF Drop
<1>2. req[q].acct \in Accounts
  BY <1>1, RequestNow, RequestFields DEF Refreshing
<1> QED BY <1>1, <1>2, LeaveMoves, RequestNow, RequestMoves DEF Refreshing

LEMMA LoseKeeps == ASSUME AccountsInv, NEW q \in Reqs, LoseAdvisoryLock(q) PROVE AccountsInv'
<1> DEFINE a == req[q].acct
           x == req[q]
<1>1. /\ x.pc = "present" /\ advisory[a] = q /\ advisory' = [advisory EXCEPT ![a] = NoOne]
      /\ lost' = lost \cup {a} /\ UNCHANGED <<acc, live, issued, req, mutex, cache, adminSide>>
  BY DEF LoseAdvisoryLock
<1>2. a \in Accounts /\ acc[a] # Absent /\ x \in RequestStates
  BY <1>1, RequestNow, RequestFields DEF RequestOK
<1>3. req' = [req EXCEPT ![q] = x]
  BY <1>1, RequestNow DEF AccountsTypeOK
<1>4. advisory' \in [Accounts -> Reqs \cup {NoOne}] /\ \A p \in Reqs \ {q} : \A b \in Accounts : advisory[b] = p => advisory'[b] = p
  BY <1>1, <1>2, RequestNow DEF AccountsTypeOK
<1>5. Moves(q, x)
  BY <1>1, <1>3, <1>4, RequestNow DEF Moves, AccountsTypeOK
<1> QED BY <1>1, <1>2, <1>5, RequestNow, RequestMoves


LEMMA PresentKeeps == ASSUME AccountsInv, NEW q \in Reqs, PresentToken(q) PROVE AccountsInv'
<1>1. req[q].pc = "present" /\ UNCHANGED <<acc, cache, adminSide>>
  BY DEF PresentToken
<1>0. PICK a \in Accounts : a = req[q].acct
  BY <1>1, RequestNow, RequestFields
<1>2. /\ a \in Accounts /\ acc[a] # Absent /\ req[q].forced \in BOOLEAN /\ req[q].token \in Nat
      /\ req[q].snap \in AccountRows /\ req[q] \in RequestStates
      /\ advisory[a] = q \/ a \in lost
      /\ req[q].token = live[a] \/ a \in lost
  BY <1>0, <1>1, RequestNow, RequestFields DEF RequestOK, Refreshing
<1>3. CASE Leave(q, Failed) /\ UNCHANGED <<live, issued, lost>>
  BY <1>1, <1>3, LeaveMoves, RequestNow, RequestMoves DEF Refreshing
<1>4. CASE /\ req[q].token # live[a] /\ req' = [req EXCEPT ![q].pc = "refused"]
           /\ UNCHANGED <<live, issued, lost, mutex, advisory>>
  <2> DEFINE x == [req[q] EXCEPT !.pc = "refused"]
  <2>1. x \in RequestStates /\ x.pc = "refused" /\ x.acct = a
    <3>1. req[q] \in [pc : {"present", "refused", "rotated", "reread", "have", "call"}, acct : Accounts,
                      snap : AccountRows, forced : BOOLEAN, token : Nat]
      BY <1>1, <1>2 DEF RequestStates
    <3> QED BY <1>0, <3>1 DEF RequestStates
  <2>2. req' = [req EXCEPT ![q] = x]
    BY <1>4, RequestNow DEF AccountsTypeOK
  <2> HIDE DEF x
  <2>3. Moves(q, x)
    BY <1>4, <2>2, MovesOnly
  <2> QED BY <1>1, <1>2, <1>4, <2>1, <2>3, RequestNow, RequestMoves
<1>5. CASE /\ issued' = issued + 1 /\ live' = [live EXCEPT ![a] = issued + 1]
           /\ \/ /\ req' = [req EXCEPT ![q] = Having("rotated", a, @.snap, @.forced, issued + 1)]
                 /\ UNCHANGED <<mutex, advisory, lost>>
              \/ /\ Leave(q, Failed)
                 /\ lost' = lost \cup {a}
  <2> DEFINE y == Having("rotated", a, req[q].snap, req[q].forced, issued + 1)
  <2>1. issued \in Nat /\ issued + 1 \in Nat
    BY RequestNow DEF AccountsTypeOK
  <2>2. y \in RequestStates /\ y.pc = "rotated" /\ y.acct = a /\ y.token = issued + 1
    BY <1>2, <2>1, HavingFacts
  <2>3. live' \in [Accounts -> Nat] /\ live'[a] = issued + 1 /\ \A b \in Accounts \ {a} : live'[b] = live[b]
    BY <1>2, <1>5, <2>1, RequestNow DEF AccountsTypeOK
  <2> HIDE DEF y
  <2>4. PICK x \in RequestStates : /\ Moves(q, x)
                                   /\ \/ x = y /\ UNCHANGED <<advisory, lost>>
                                      \/ x.pc = "done" /\ lost' = lost \cup {a}
    <3>1. CASE req' = [req EXCEPT ![q] = Having("rotated", a, @.snap, @.forced, issued + 1)] /\ UNCHANGED <<mutex, advisory, lost>>
      <4>1. req' = [req EXCEPT ![q] = y]
        BY <3>1, RequestNow DEF AccountsTypeOK, y
      <4> QED BY <2>2, <3>1, <4>1, MovesOnly
    <3>2. CASE Leave(q, Failed) /\ lost' = lost \cup {a}
      BY <3>2, LeaveMoves, RequestNow
    <3> QED BY <1>5, <3>1, <3>2
  <2>5. req' \in [Reqs -> RequestStates] /\ req'[q] = x /\ \A p \in Reqs \ {q} : req'[p] = req[p]
    BY <2>4, RequestNow DEF Moves, AccountsTypeOK
  <2>6. lost \subseteq lost' /\ lost' \subseteq Accounts
    BY <1>2, <2>4, RequestNow
  <2>7. AccountsTypeOK'
    BY <1>1, <1>5, <2>1, <2>3, <2>4, <2>5, <2>6, RequestNow DEF AccountsTypeOK, Moves, adminSide
  <2>8. RequestOK(q)'
    BY <1>1, <1>2, <2>2, <2>3, <2>4, <2>5 DEF RequestOK, Refreshing
  <2>9. RowOK(a) /\ (Exists(a)' <=> Exists(a)) /\ acc'[a] = acc[a]
    BY <1>1, <1>2 DEF AccountsInv, Exists
  <2>10. a \in lost' \/ (req'[q].pc = "rotated" /\ req'[q].acct = a)
    BY <2>2, <2>4, <2>5
  <2>11. RowOK(a)'
    BY <2>6, <2>9, <2>10 DEF RowOK
  <2>12. \A p \in Reqs \ {q} : req[p].pc \in {"present", "rotated"} /\ req[p].acct = a => a \in lost'
    BY <1>0, <1>1, <2>6, RefreshesAlone DEF Refreshing
  <2>13. \A p \in Reqs \ {q} : \A b \in Accounts : advisory[b] = p => advisory'[b] = p
    BY <2>4 DEF Moves
  <2>14. acc' = acc /\ (Exists(a) \/ acc[a] = Removed)
    BY <1>1, <1>2 DEF Exists
  <2>15. CASE Exists(a)
    <3> DEFINE A == {a}
               Q == {q}
    <3>1. A \in SUBSET Accounts /\ Q \in SUBSET Reqs /\ (\A b \in A : b = a) /\ (\A p \in Q : p = q)
          /\ \A b \in Accounts : b \notin A <=> b # a
      BY <1>2
    <3>2. \A p \in Reqs : p \notin Q <=> p # q
      OBVIOUS
    <3> HIDE DEF A, Q
    <3>3. \A b \in A : Exists(b) /\ acc'[b] # Absent
      BY <1>2, <2>14, <2>15, <3>1
    <3>4. \A b \in A : RowOK(b)'
      BY <2>11, <3>1
    <3>5. \A b \in A : rowLock[b] = NoOne \/ (Exists(b)' /\ acc'[b].status = acc[b].status)
      BY <2>9, <2>14, <2>15, <3>1
    <3>6. \A p \in Q : RequestOK(p)'
      BY <2>8, <3>1
    <3>7. \A b \in A, p \in Reqs \ Q : req[p].pc \in {"present", "rotated"} /\ req[p].acct = b =>
                live'[b] = live[b] \/ b \in lost'
      BY <2>12, <3>1, <3>2
    <3>8. \A p \in Q : req[p].pc # "rotated"
      BY <1>1, <3>1
    <3>9. \A b \in Accounts \ A : acc'[b] = acc[b] /\ live'[b] = live[b]
      BY <2>3, <2>14, <3>1
    <3>10. \A p \in Reqs \ Q : req'[p] = req[p] /\ \A b \in Accounts : advisory[b] = p => advisory'[b] = p
      BY <2>5, <2>13, <3>2
    <3>11. Touches(A, Q)
      BY <2>14, <3>3, <3>4, <3>5, <3>6, <3>7, <3>8, <3>9, <3>10 DEF Touches
    <3> QED BY <1>1, <2>6, <2>7, <3>1, <3>11, StepOfRequests
  <2>16. CASE acc[a] = Removed
    \* A removed account has no stored token to disagree with.
    <3>1. \A p \in Reqs : RequestOK(p)'
      <4> SUFFICES ASSUME NEW p \in Reqs, p # q PROVE RequestOK(p)'
        BY <2>8
      <4>1. RequestOK(p) /\ req'[p] = req[p] /\ req[p] \in RequestStates
        BY <2>5, RequestNow
      <4>2. req[p].pc \notin {"new", "done"} => req[p].acct \in Accounts
        BY <4>1, RequestFields
      <4>3. req[p].pc \in {"present", "rotated"} => req[p].token = live'[req[p].acct] \/ req[p].acct \in lost'
        BY <2>3, <2>6, <2>12, <4>1, <4>2 DEF RequestOK
      <4>4. req[p].pc \in Refreshing => advisory'[req[p].acct] = p \/ req[p].acct \in lost'
        BY <2>6, <2>13, <4>1, <4>2 DEF RequestOK, Refreshing
      <4> QED BY <2>6, <2>14, <4>1, <4>3, <4>4 DEF RequestOK
    <3>2. ASSUME NEW b \in Accounts PROVE RowOK(b)'
      <4>1. CASE b = a
        BY <4>1, <2>11
      <4>2. CASE b # a
        <5>1. RowOK(b) /\ acc'[b] = acc[b] /\ live'[b] = live[b] /\ (Exists(b)' <=> Exists(b))
          BY <2>3, <2>14, <4>2 DEF AccountsInv, Exists
        <5>2. \A p \in Reqs : req[p].pc = "rotated" => req'[p] = req[p]
          BY <1>1, <2>5
        <5> QED BY <2>6, <5>1, <5>2 DEF RowOK
      <4> QED BY <4>1, <4>2
    <3>3. \A t \in Admins : AdminOK(t)'
      BY <1>1, <2>14 DEF adminSide, AccountsInv, AdminOK, Exists
    <3>4. OneDefault'
      BY <2>14 DEF AccountsInv, OneDefault
    <3> QED BY <2>7, <3>1, <3>2, <3>3, <3>4 DEF AccountsInv
  <2> QED BY <2>14, <2>15, <2>16
<1> QED BY <1>0, <1>3, <1>4, <1>5 DEF PresentToken

\* A entry that exists changes, and at most one request moves.
LEMMA RowMoves ==
    ASSUME AccountsInv, NEW a \in Accounts, Exists(a), NEW entry \in AccountRows \cup {Removed},
           acc' = [acc EXCEPT ![a] = entry], live' \in [Accounts -> Nat], issued' \in Nat,
           \A b \in Accounts \ {a} : live'[b] = live[b],
           UNCHANGED adminSide, lost \subseteq lost', lost' \subseteq Accounts,
           cache' \in [Replicas -> [Accounts -> {NoTransport} \cup [rev : Nat, ver : Nat, token : Nat]]],
           NEW Q \in SUBSET Reqs,
           \/ Q = {} /\ UNCHANGED <<req, mutex, advisory>>
           \/ \E q \in Reqs, x \in RequestStates :
                Q = {q} /\ Moves(q, x) /\ x.pc \in {"done", "reread"} /\ req[q].acct = a
                /\ (x.pc = "reread" => x.acct = a /\ (advisory'[a] = q \/ a \in lost')),
           entry.status = "reauth_required" => a \in lost',
           entry.default = TRUE => acc[a].default = TRUE /\ entry.status # "disabled",
           rowLock[a] = NoOne \/ (entry # Removed /\ entry.status = acc[a].status),
           \A p \in Reqs \ Q : req[p].pc \in {"present", "rotated"} /\ req[p].acct = a =>
                live'[a] = live[a] \/ a \in lost',
           \/ entry = Removed \/ a \in lost' \/ entry.token = live'[a]
           \/ entry.token = acc[a].token /\ live'[a] = live[a] /\ Q = {}
    PROVE  AccountsInv'
<1>1. /\ req' \in [Reqs -> RequestStates]
      /\ mutex' \in [Replicas -> [Accounts -> Reqs \cup {NoOne}]] /\ advisory' \in [Accounts -> Reqs \cup {NoOne}]
      /\ \A p \in Reqs \ Q : req'[p] = req[p] /\ \A b \in Accounts : advisory[b] = p => advisory'[b] = p
      /\ \A q \in Q : /\ req[q].acct = a /\ req'[q].pc \in {"done", "reread"}
                      /\ req'[q].pc = "reread" => req'[q].acct = a /\ (advisory'[a] = q \/ a \in lost')
  <2>1. CASE Q = {} /\ UNCHANGED <<req, mutex, advisory>>
    BY <2>1 DEF AccountsInv, AccountsTypeOK
  <2>2. ASSUME NEW q \in Reqs, NEW x \in RequestStates,
               Q = {q} /\ Moves(q, x) /\ x.pc \in {"done", "reread"} /\ req[q].acct = a
               /\ (x.pc = "reread" => x.acct = a /\ (advisory'[a] = q \/ a \in lost'))
        PROVE  /\ req' \in [Reqs -> RequestStates]
               /\ mutex' \in [Replicas -> [Accounts -> Reqs \cup {NoOne}]] /\ advisory' \in [Accounts -> Reqs \cup {NoOne}]
               /\ \A p \in Reqs \ Q : req'[p] = req[p] /\ \A b \in Accounts : advisory[b] = p => advisory'[b] = p
               /\ \A p \in Q : /\ req[p].acct = a /\ req'[p].pc \in {"done", "reread"}
                               /\ req'[p].pc = "reread" => req'[p].acct = a /\ (advisory'[a] = p \/ a \in lost')
    BY <2>2 DEF AccountsInv, AccountsTypeOK, Moves
  <2> QED BY <2>1, <2>2
<1>2. /\ acc' \in [Accounts -> AccountRows \cup {Absent, Removed}] /\ acc'[a] = entry
      /\ \A b \in Accounts \ {a} : acc'[b] = acc[b]
  BY DEF AccountsInv, AccountsTypeOK
<1>3. AccountsTypeOK'
  BY <1>1, <1>2 DEF AccountsInv, AccountsTypeOK, adminSide
<1>4. entry # Absent /\ (entry \in AccountRows => entry # Removed)
  BY RowFacts
<1>5. \A q \in Q : RequestOK(q)'
  BY <1>1, <1>2, <1>4 DEF RequestOK, Refreshing
<1>6. RowOK(a)'
  <2>1. Exists(a)' <=> entry # Removed
    BY <1>2, <1>4 DEF Exists
  <2>2. entry.default = TRUE => entry # Removed
    BY RowFacts
  <2>3. ASSUME a \notin lost', entry # Removed
        PROVE  entry.token = live'[a] \/ \E q \in Reqs : req'[q].pc = "rotated" /\ req'[q].acct = a
    <3>1. CASE entry.token = live'[a]
      BY <3>1
    <3>2. CASE entry.token = acc[a].token /\ live'[a] = live[a] /\ Q = {}
      <4>1. RowOK(a) /\ a \notin lost
        BY <2>3 DEF AccountsInv
      <4> QED BY <3>2, <4>1, <1>1 DEF RowOK
    <3> QED BY <2>3, <3>1, <3>2
  <2> QED BY <1>2, <2>1, <2>2, <2>3 DEF RowOK
<1> DEFINE A == {a}
<1>7. A \in SUBSET Accounts /\ (\A b \in A : b = a) /\ \A b \in Accounts : b \notin A <=> b # a
  OBVIOUS
<1> HIDE DEF A
<1>8. /\ \A b \in A : RowOK(b)'
      /\ \A b \in A : Exists(b) /\ acc'[b] # Absent
      /\ \A b \in A : acc'[b].default = TRUE => acc[b].default = TRUE
  BY <1>2, <1>4, <1>6, <1>7
<1>9. \A b \in A : rowLock[b] = NoOne \/ (Exists(b)' /\ acc'[b].status = acc[b].status)
  BY <1>2, <1>4, <1>7 DEF Exists
<1>10. \A b \in Accounts \ A : acc'[b] = acc[b] /\ live'[b] = live[b]
  BY <1>2, <1>7
<1>11. \A b \in A, p \in Reqs \ Q : req[p].pc \in {"present", "rotated"} /\ req[p].acct = b =>
                live'[b] = live[b] \/ b \in lost'
  BY <1>7
<1>12. \A p \in Q : req[p].pc = "rotated" =>
           \/ req'[p].pc = "rotated" /\ req'[p].acct = req[p].acct
           \/ req[p].acct \in lost' \cup A \/ ~Exists(req[p].acct)
  BY <1>1, <1>7 DEF A
<1>13. Touches(A, Q)
  BY <1>1, <1>5, <1>8, <1>9, <1>10, <1>11, <1>12 DEF Touches
<1> QED BY <1>3, <1>7, <1>13, StepOfRequests


LEMMA MarkReauthKeeps == ASSUME AccountsInv, NEW q \in Reqs, MarkReauth(q) PROVE AccountsInv'
<1>1. req[q].pc = "refused" /\ Leave(q, Failed) /\ UNCHANGED <<live, issued, lost, cache, adminSide>>
  BY DEF MarkReauth
<1>0. PICK a \in Accounts : a = req[q].acct
  BY <1>1, RequestNow, RequestFields
<1>2. rowLock[a] = NoOne /\ acc' = IF Exists(a) THEN [acc EXCEPT ![a].status = "reauth_required"] ELSE acc
  BY <1>0 DEF MarkReauth
<1>3. a \in lost /\ AccountsTypeOK /\ Moves(q, Failed)
  BY <1>0, <1>1, RequestNow, LeaveMoves DEF RequestOK
<1>4. CASE Exists(a)
  <2> DEFINE entry == [acc[a] EXCEPT !.status = "reauth_required"]
             Q == {q}
  <2>1. acc[a] \in AccountRows
    BY <1>3, <1>4, RowsThatExist
  <2>2. entry \in AccountRows /\ entry.status = "reauth_required" /\ entry.default = acc[a].default
    BY <2>1 DEF AccountRows
  <2>3. acc' = [acc EXCEPT ![a] = entry]
    BY <1>2, <1>3, <1>4 DEF AccountsTypeOK
  <2>4. live' \in [Accounts -> Nat] /\ issued' \in Nat /\ live' = live /\ lost' = lost /\ lost' \subseteq Accounts
        /\ cache' \in [Replicas -> [Accounts -> {NoTransport} \cup [rev : Nat, ver : Nat, token : Nat]]]
    BY <1>1, <1>3 DEF AccountsTypeOK
  <2>5. \E p \in Reqs, x \in RequestStates :
          Q = {p} /\ Moves(p, x) /\ x.pc \in {"done", "reread"} /\ req[p].acct = a
          /\ (x.pc = "reread" => x.acct = a /\ (advisory'[a] = p \/ a \in lost'))
    BY <1>0, <1>3, RequestNow
  <2>6. Q \in SUBSET Reqs
    OBVIOUS
  <2> HIDE DEF entry, Q
  <2> QED BY <1>1, <1>2, <1>3, <1>4, <2>2, <2>3, <2>4, <2>5, <2>6, RowMoves
<1>5. CASE ~Exists(a)
  <2>1. acc' = acc
    BY <1>2, <1>5
  <2> QED BY <1>1, <1>3, <2>1, RequestNow, RequestMoves DEF Refreshing
<1> QED BY <1>4, <1>5

\* The entry that a rotation of the credentials writes.
LEMMA RotatedRow ==
    ASSUME AccountsTypeOK, NEW a \in Accounts, Exists(a), NEW t \in Nat, Rotate(a, t)
    PROVE  \E entry \in AccountRows : /\ acc' = [acc EXCEPT ![a] = entry] /\ entry.status = "active" /\ entry.token = t
                                    /\ entry.default = acc[a].default
<1> DEFINE entry == [status |-> "active", default |-> acc[a].default, rev |-> acc[a].rev + 1,
                   ver |-> acc[a].ver + 1, token |-> t, stale |-> FALSE]
<1>1. acc[a] \in AccountRows
  BY RowsThatExist
<1>2. entry \in AccountRows /\ entry.status = "active" /\ entry.token = t /\ entry.default = acc[a].default
  BY <1>1 DEF AccountRows
<1>3. acc' = [acc EXCEPT ![a] = entry]
  BY DEF Rotate, AccountsTypeOK
<1> HIDE DEF entry
<1> QED BY <1>2, <1>3

LEMMA StoreKeeps == ASSUME AccountsInv, NEW q \in Reqs, StoreRefreshed(q) PROVE AccountsInv'
<1>1. req[q].pc = "rotated" /\ UNCHANGED <<live, issued, lost, cache, adminSide>>
  BY DEF StoreRefreshed
<1>0. PICK a \in Accounts : a = req[q].acct
  BY <1>1, RequestNow, RequestFields
<1>2. /\ AccountsTypeOK /\ req[q].token \in Nat /\ (req[q].token = live[a] \/ a \in lost)
      /\ acc[a] # Absent /\ req[q].token \in Nat /\ (advisory[a] = q \/ a \in lost) /\ req[q] \in RequestStates
  BY <1>0, <1>1, RequestNow, RequestFields DEF RequestOK, Refreshing
<1>3. CASE Exists(a)
  <2>1. rowLock[a] = NoOne /\ Rotate(a, req[q].token) /\ req' = [req EXCEPT ![q].pc = "reread"] /\ UNCHANGED <<mutex, advisory>>
    BY <1>0, <1>3 DEF StoreRefreshed
  <2>2. PICK entry \in AccountRows : /\ acc' = [acc EXCEPT ![a] = entry] /\ entry.status = "active" /\ entry.token = req[q].token
                                   /\ entry.default = acc[a].default
    <3>1. AccountsTypeOK /\ req[q].token \in Nat
      BY <1>0, <1>1, RequestNow, RequestFields
    <3> QED BY <1>3, <2>1, <3>1, RotatedRow
  <2> DEFINE x == [req[q] EXCEPT !.pc = "reread"]
             Q == {q}
  <2>3. x \in RequestStates /\ x.pc = "reread" /\ x.acct = a
    <3>1. req[q] \in [pc : {"present", "refused", "rotated", "reread", "have", "call"}, acct : Accounts,
                      snap : AccountRows, forced : BOOLEAN, token : Nat]
      BY <1>1, <1>2 DEF RequestStates
    <3> QED BY <1>0, <3>1 DEF RequestStates
  <2>4. req' = [req EXCEPT ![q] = x]
    BY <2>1, RequestNow DEF AccountsTypeOK
  <2>5. Q \in SUBSET Reqs /\ \A p \in Reqs : p \in Q <=> p = q
    OBVIOUS
  <2> HIDE DEF x
  <2>6. Moves(q, x)
    BY <2>1, <2>4, MovesOnly
  <2>7. \E p \in Reqs, y \in RequestStates :
          Q = {p} /\ Moves(p, y) /\ y.pc \in {"done", "reread"} /\ req[p].acct = a
          /\ (y.pc = "reread" => y.acct = a /\ (advisory'[a] = p \/ a \in lost'))
    BY <1>0, <1>1, <1>2, <2>1, <2>3, <2>6
  <2>8. live' \in [Accounts -> Nat] /\ issued' \in Nat /\ live' = live /\ lost' = lost /\ lost' \subseteq Accounts
        /\ cache' \in [Replicas -> [Accounts -> {NoTransport} \cup [rev : Nat, ver : Nat, token : Nat]]]
    BY <1>1, RequestNow DEF AccountsTypeOK
  <2> HIDE DEF Q
  <2>9. entry.token = live'[a] \/ a \in lost'
    BY <1>2, <2>2, <2>8
  <2> QED BY <1>1, <1>3, <2>1, <2>2, <2>5, <2>7, <2>8, <2>9, RowMoves
<1>4. CASE ~Exists(a)
  <2>1. Leave(q, Failed) /\ acc' = acc
    BY <1>0, <1>4 DEF StoreRefreshed
  <2>2. Moves(q, Failed)
    BY <2>1, RequestNow, LeaveMoves
  <2>3. req' \in [Reqs -> RequestStates] /\ req'[q].pc = "done" /\ \A p \in Reqs \ {q} : req'[p] = req[p]
    BY <2>2, RequestNow DEF Moves, AccountsTypeOK
  <2>4. AccountsTypeOK'
    BY <1>1, <2>1, <2>2, <2>3, RequestNow DEF AccountsTypeOK, Moves, adminSide
  <2> DEFINE A == {}
             Q == {q}
  <2>5. A \in SUBSET Accounts /\ Q \in SUBSET Reqs /\ (\A b \in A : FALSE) /\ \A p \in Q : p = q
    OBVIOUS
  <2>6. \A p \in Reqs \ Q : p # q
    OBVIOUS
  <2> HIDE DEF A, Q
  <2>7. Touches(A, Q)
    <3>1. \A p \in Q : RequestOK(p)'
      BY <2>3, <2>5 DEF RequestOK, Refreshing
    <3>2. \A p \in Reqs \ Q : req'[p] = req[p] /\ \A b \in Accounts : advisory[b] = p => advisory'[b] = p
      BY <2>2, <2>3, <2>6 DEF Moves
    <3>3. \A p \in Q : ~Exists(req[p].acct)
      BY <1>0, <1>4, <2>5
    <3>4. \A b \in Accounts \ A : acc'[b] = acc[b] /\ live'[b] = live[b]
      BY <1>1, <2>1
    <3> QED BY <2>5, <3>1, <3>2, <3>3, <3>4 DEF Touches
  <2> QED BY <1>1, <2>4, <2>5, <2>7, StepOfRequests
<1> QED BY <1>3, <1>4

LEMMA ExpireKeeps == ASSUME AccountsInv, NEW a \in Accounts, Expire(a) PROVE AccountsInv'
<1> DEFINE entry == [acc[a] EXCEPT !.stale = TRUE]
           Q == {}
<1>1. AccountsTypeOK
  BY DEF AccountsInv
<1>2. /\ Exists(a) /\ acc' = [acc EXCEPT ![a].stale = TRUE]
      /\ UNCHANGED <<live, issued, lost, req, mutex, advisory, cache, adminSide>>
  BY DEF Expire, requestSide
<1>3. acc[a] \in AccountRows
  BY <1>1, <1>2, RowsThatExist
<1>4. entry \in AccountRows /\ entry.status = acc[a].status /\ entry.default = acc[a].default /\ entry.token = acc[a].token
  BY <1>3 DEF AccountRows
<1>5. acc' = [acc EXCEPT ![a] = entry]
  BY <1>1, <1>2 DEF AccountsTypeOK
<1>6. RowOK(a)
  BY DEF AccountsInv
<1>7. live' \in [Accounts -> Nat] /\ issued' \in Nat /\ lost' \subseteq Accounts
      /\ cache' \in [Replicas -> [Accounts -> {NoTransport} \cup [rev : Nat, ver : Nat, token : Nat]]]
  BY <1>1, <1>2 DEF AccountsTypeOK
<1>8. entry # Removed
  BY <1>4, RowFacts
<1>9. entry.status = "reauth_required" => a \in lost'
  BY <1>2, <1>4, <1>6 DEF RowOK
<1>10. entry.default = TRUE => acc[a].default = TRUE /\ entry.status # "disabled"
  BY <1>4, <1>6 DEF RowOK
<1>11. Q \in SUBSET Reqs
  OBVIOUS
<1> HIDE DEF entry
<1> QED BY <1>2, <1>4, <1>5, <1>7, <1>8, <1>9, <1>10, <1>11, RowMoves

\* The caches after an eviction.
LEMMA EvictType ==
    ASSUME AccountsTypeOK, NEW h \in Replicas, NEW a \in Accounts, Evict(h, a)
    PROVE  cache' \in [Replicas -> [Accounts -> {NoTransport} \cup [rev : Nat, ver : Nat, token : Nat]]]
  BY DEF AccountsTypeOK, Evict

LEMMA RotateKeeps == ASSUME AccountsInv, NEW a \in Accounts, NEW h \in Replicas, RotateCredentials(a, h) PROVE AccountsInv'
<1> DEFINE Q == {}
<1>1. AccountsTypeOK /\ RowOK(a)
  BY DEF AccountsInv
<1>2. /\ Exists(a) /\ rowLock[a] = NoOne /\ issued' = issued + 1 /\ live' = [live EXCEPT ![a] = issued + 1]
      /\ Rotate(a, issued + 1) /\ lost' = (IF InFlight(a) THEN lost \cup {a} ELSE lost)
      /\ Evict(h, a) /\ UNCHANGED <<req, mutex, advisory, adminSide>>
  BY DEF RotateCredentials
<1>3. issued + 1 \in Nat /\ live' \in [Accounts -> Nat] /\ live'[a] = issued + 1
      /\ \A b \in Accounts \ {a} : live'[b] = live[b]
  BY <1>1, <1>2 DEF AccountsTypeOK
<1>4. PICK entry \in AccountRows : /\ acc' = [acc EXCEPT ![a] = entry] /\ entry.status = "active" /\ entry.token = issued + 1
                                 /\ entry.default = acc[a].default
  BY <1>1, <1>2, <1>3, RotatedRow
<1>5. lost \subseteq lost' /\ lost' \subseteq Accounts
  BY <1>1, <1>2 DEF AccountsTypeOK
<1>6. \A p \in Reqs \ Q : req[p].pc \in {"present", "rotated"} /\ req[p].acct = a =>
         live'[a] = live[a] \/ a \in lost'
  BY <1>2 DEF InFlight, Refreshing
<1>7. cache' \in [Replicas -> [Accounts -> {NoTransport} \cup [rev : Nat, ver : Nat, token : Nat]]]
  BY <1>1, <1>2, EvictType
<1>8. Q \in SUBSET Reqs
  OBVIOUS
<1>9. issued' \in Nat /\ entry.token = live'[a] /\ entry.status # "reauth_required"
      /\ (entry.default = TRUE => acc[a].default = TRUE /\ entry.status # "disabled")
      /\ acc' = [acc EXCEPT ![a] = entry] /\ entry \in AccountRows \cup {Removed}
  BY <1>2, <1>3, <1>4
<1>10. UNCHANGED <<req, mutex, advisory>> /\ UNCHANGED adminSide /\ Exists(a) /\ rowLock[a] = NoOne
  BY <1>2
<1>11. Q = {} /\ UNCHANGED <<req, mutex, advisory>>
  BY <1>10
<1>12. \/ entry = Removed \/ a \in lost' \/ entry.token = live'[a]
       \/ entry.token = acc[a].token /\ live'[a] = live[a] /\ Q = {}
  BY <1>9
<1>13. /\ UNCHANGED adminSide /\ Exists(a)
       /\ rowLock[a] = NoOne \/ (entry # Removed /\ entry.status = acc[a].status)
       /\ entry.status = "reauth_required" => a \in lost'
       /\ entry.default = TRUE => acc[a].default = TRUE /\ entry.status # "disabled"
       /\ acc' = [acc EXCEPT ![a] = entry] /\ entry \in AccountRows \cup {Removed} /\ issued' \in Nat
  BY <1>9, <1>10
<1> HIDE DEF Q
<1> QED BY <1>3, <1>5, <1>6, <1>7, <1>8, <1>11, <1>12, <1>13, RowMoves

LEMMA UpdateKeeps == ASSUME AccountsInv, NEW a \in Accounts, NEW h \in Replicas, UpdateAccount(a, h) PROVE AccountsInv'
<1> DEFINE Q == {}
<1>1. AccountsTypeOK /\ RowOK(a)
  BY DEF AccountsInv
<1>2. /\ Exists(a) /\ rowLock[a] = NoOne /\ Evict(h, a) /\ UNCHANGED <<live, issued, lost, req, mutex, advisory, adminSide>>
      /\ \E s \in {"active", "disabled"} : UpdateRow(a, s)
  BY DEF UpdateAccount
<1>3. PICK s \in {"active", "disabled"} : (s = "disabled" => ~acc[a].default) /\ acc' = [acc EXCEPT ![a].status = s]
  BY <1>2 DEF UpdateRow
<1> DEFINE entry == [acc[a] EXCEPT !.status = s]
<1>4. acc[a] \in AccountRows
  BY <1>1, <1>2, RowsThatExist
<1>5. entry \in AccountRows /\ entry.status = s /\ entry.default = acc[a].default /\ entry.token = acc[a].token
  BY <1>4 DEF AccountRows
<1>6. acc' = [acc EXCEPT ![a] = entry]
  BY <1>1, <1>3 DEF AccountsTypeOK
<1>7. entry.default = TRUE => acc[a].default = TRUE /\ entry.status # "disabled"
  BY <1>3, <1>5
<1>8. cache' \in [Replicas -> [Accounts -> {NoTransport} \cup [rev : Nat, ver : Nat, token : Nat]]]
  BY <1>1, <1>2, EvictType
<1>9. live' \in [Accounts -> Nat] /\ issued' \in Nat /\ lost' \subseteq Accounts
  BY <1>1, <1>2 DEF AccountsTypeOK
<1>10. Q \in SUBSET Reqs /\ entry.status # "reauth_required"
  BY <1>5
<1> HIDE DEF entry
<1> QED BY <1>2, <1>5, <1>6, <1>7, <1>8, <1>9, <1>10, RowMoves

LEMMA RemoveKeeps == ASSUME AccountsInv, NEW a \in Accounts, NEW h \in Replicas, RemoveAccount(a, h) PROVE AccountsInv'
<1> DEFINE Q == {}
<1>1. AccountsTypeOK
  BY DEF AccountsInv
<1>2. /\ Exists(a) /\ rowLock[a] = NoOne /\ Evict(h, a) /\ UNCHANGED <<live, issued, lost, req, mutex, advisory, adminSide>>
      /\ acc' = [acc EXCEPT ![a] = Removed]
  BY DEF RemoveAccount
<1>3. cache' \in [Replicas -> [Accounts -> {NoTransport} \cup [rev : Nat, ver : Nat, token : Nat]]]
  BY <1>1, <1>2, EvictType
<1>4. live' \in [Accounts -> Nat] /\ issued' \in Nat /\ lost' \subseteq Accounts
  BY <1>1, <1>2 DEF AccountsTypeOK
<1>5. Q \in SUBSET Reqs /\ Removed \in AccountRows \cup {Removed}
  OBVIOUS
<1>6. Removed.status # "reauth_required" /\ Removed.default # TRUE
  BY RowFacts
<1> QED BY <1>2, <1>3, <1>4, <1>5, <1>6, RowMoves


\* A transaction of an administrator that changes no entry.
LEMMA AdminMoves ==
    ASSUME AccountsInv, NEW t \in Admins, UNCHANGED <<acc, live, issued, lost, requestSide>>,
           NEW x \in AdminStates, admin' = [admin EXCEPT ![t] = x],
           rowLock' \in [Accounts -> Admins \cup {NoOne}], provLock' \in Admins \cup {NoOne},
           \A u \in Admins \ {t} : /\ provLock = u => provLock' = u
                                   /\ \A a \in Accounts : rowLock[a] = u => rowLock'[a] = u,
           AdminOK(t)'
    PROVE  AccountsInv'
<1>1. admin' \in [Admins -> AdminStates] /\ admin'[t] = x /\ \A u \in Admins \ {t} : admin'[u] = admin[u]
  BY DEF AccountsInv, AccountsTypeOK
<1>2. AccountsTypeOK'
  BY <1>1 DEF AccountsInv, AccountsTypeOK, requestSide
<1>3. \A q \in Reqs : RequestOK(q)'
  BY DEF AccountsInv, RequestOK, requestSide
<1>4. \A a \in Accounts : RowOK(a)'
  BY DEF AccountsInv, RowOK, Exists, requestSide
<1>5. OneDefault'
  BY DEF AccountsInv, OneDefault
<1>6. ASSUME NEW u \in Admins, u # t PROVE AdminOK(u)'
  <2>1. AdminOK(u) /\ admin'[u] = admin[u] /\ admin[u] \in AdminStates
    BY <1>1, <1>6 DEF AccountsInv, AccountsTypeOK
  <2>2. admin[u].pc \notin {"new", "done"} => admin[u].acct \in Accounts
    BY <2>1, AdminFields
  <2> QED BY <1>6, <2>1, <2>2 DEF AdminOK, Exists
<1> QED BY <1>2, <1>3, <1>4, <1>5, <1>6 DEF AccountsInv

LEMMA CreateStartKeeps ==
    ASSUME AccountsInv, NEW t \in Admins, NEW a \in Accounts, NEW d \in BOOLEAN, CreateStart(t, a, d) PROVE AccountsInv'
<1> DEFINE x == [pc |-> "update", op |-> "create", acct |-> a, makeDefault |-> d]
<1>1. /\ acc[a] = Absent /\ provLock = NoOne /\ provLock' = t /\ admin' = [admin EXCEPT ![t] = x]
      /\ UNCHANGED <<acc, live, issued, lost, requestSide, rowLock>>
  BY DEF CreateStart
<1>2. x \in AdminStates /\ x.pc = "update" /\ x.op = "create" /\ x.acct = a
  BY DEF AdminStates
<1> HIDE DEF x
<1>3. AccountsTypeOK
  BY DEF AccountsInv
<1>4. admin'[t] = x
  BY <1>1, <1>3 DEF AccountsTypeOK
<1>5. AdminOK(t)'
  BY <1>1, <1>2, <1>4 DEF AdminOK
<1>6. rowLock' \in [Accounts -> Admins \cup {NoOne}]
  BY <1>1, <1>3 DEF AccountsTypeOK
<1>7. \A u \in Admins \ {t} : /\ provLock = u => provLock' = u
                              /\ \A b \in Accounts : rowLock[b] = u => rowLock'[b] = u
  BY <1>1, LlmAccountsAssumption
<1> QED BY <1>1, <1>2, <1>5, <1>6, <1>7, AdminMoves

LEMMA SetDefaultStartKeeps ==
    ASSUME AccountsInv, NEW t \in Admins, NEW a \in Accounts, SetDefaultStart(t, a) PROVE AccountsInv'
<1> DEFINE x == [pc |-> "provider", op |-> "default", acct |-> a]
<1>1. /\ Exists(a) /\ rowLock[a] = NoOne /\ acc[a].status = "active" /\ rowLock' = [rowLock EXCEPT ![a] = t]
      /\ admin' = [admin EXCEPT ![t] = x] /\ UNCHANGED <<acc, live, issued, lost, requestSide, provLock>>
  BY DEF SetDefaultStart
<1>2. x \in AdminStates /\ x.pc = "provider" /\ x.op = "default" /\ x.acct = a
  BY DEF AdminStates
<1> HIDE DEF x
<1>3. AccountsTypeOK
  BY DEF AccountsInv
<1>4. admin'[t] = x
  BY <1>1, <1>3 DEF AccountsTypeOK
<1>5. rowLock' \in [Accounts -> Admins \cup {NoOne}] /\ rowLock'[a] = t /\ \A b \in Accounts \ {a} : rowLock'[b] = rowLock[b]
  BY <1>1, <1>3 DEF AccountsTypeOK
<1>6. AdminOK(t)'
  BY <1>1, <1>2, <1>4, <1>5 DEF AdminOK, Exists
<1>7. \A u \in Admins \ {t} : /\ provLock = u => provLock' = u
                              /\ \A b \in Accounts : rowLock[b] = u => rowLock'[b] = u
  BY <1>1, <1>5, LlmAccountsAssumption
<1>8. provLock' \in Admins \cup {NoOne}
  BY <1>1, <1>3 DEF AccountsTypeOK
<1> QED BY <1>1, <1>2, <1>5, <1>6, <1>7, <1>8, AdminMoves

LEMMA LockProviderKeeps == ASSUME AccountsInv, NEW t \in Admins, LockProvider(t) PROVE AccountsInv'
<1> DEFINE x == [admin[t] EXCEPT !.pc = "update"]
<1>1. /\ admin[t].pc = "provider" /\ provLock = NoOne /\ provLock' = t /\ admin' = [admin EXCEPT ![t].pc = "update"]
      /\ UNCHANGED <<acc, live, issued, lost, requestSide, rowLock>>
  BY DEF LockProvider
<1>2. AccountsTypeOK /\ AdminOK(t)
  BY DEF AccountsInv
<1>3. admin[t] \in [pc : {"provider", "update"}, op : {"default"}, acct : Accounts]
  BY <1>1, <1>2 DEF AccountsTypeOK, AdminStates
<1>4. x \in AdminStates /\ x.pc = "update" /\ x.op = "default" /\ x.acct = admin[t].acct
  BY <1>3 DEF AdminStates
<1>5. admin' = [admin EXCEPT ![t] = x]
  BY <1>1, <1>2 DEF AccountsTypeOK
<1> HIDE DEF x
<1>6. admin'[t] = x
  BY <1>2, <1>5 DEF AccountsTypeOK
<1>7. AdminOK(t)'
  BY <1>1, <1>2, <1>3, <1>4, <1>6 DEF AdminOK, Exists
<1>8. rowLock' \in [Accounts -> Admins \cup {NoOne}]
  BY <1>1, <1>2 DEF AccountsTypeOK
<1>9. \A u \in Admins \ {t} : /\ provLock = u => provLock' = u
                              /\ \A b \in Accounts : rowLock[b] = u => rowLock'[b] = u
  BY <1>1, LlmAccountsAssumption
<1> QED BY <1>1, <1>4, <1>5, <1>7, <1>8, <1>9, AdminMoves

\* The end of a transaction gives its locks back, and no others.
LEMMA EndFacts ==
    ASSUME AccountsInv, NEW t \in Admins, EndAdmin(t)
    PROVE  /\ admin' = [admin EXCEPT ![t] = [pc |-> "done"]] /\ [pc |-> "done"] \in AdminStates
           /\ admin' \in [Admins -> AdminStates] /\ admin'[t].pc = "done" /\ \A u \in Admins \ {t} : admin'[u] = admin[u]
           /\ rowLock' \in [Accounts -> Admins \cup {NoOne}] /\ provLock' \in Admins \cup {NoOne}
           /\ \A u \in Admins \ {t} : /\ provLock = u => provLock' = u
                                      /\ \A a \in Accounts : rowLock[a] = u => rowLock'[a] = u
<1>1. AccountsTypeOK
  BY DEF AccountsInv
<1>2. [pc |-> "done"] \in AdminStates
  BY DEF AdminStates
<1>3. admin' \in [Admins -> AdminStates] /\ admin'[t].pc = "done" /\ \A u \in Admins \ {t} : admin'[u] = admin[u]
  BY <1>1, <1>2 DEF EndAdmin, AccountsTypeOK
<1>4. rowLock' \in [Accounts -> Admins \cup {NoOne}] /\ provLock' \in Admins \cup {NoOne}
  BY <1>1 DEF EndAdmin, AccountsTypeOK
<1>5. \A u \in Admins \ {t} : /\ provLock = u => provLock' = u
                              /\ \A a \in Accounts : rowLock[a] = u => rowLock'[a] = u
  BY DEF EndAdmin
<1> QED BY <1>2, <1>3, <1>4, <1>5 DEF EndAdmin

LEMMA LockTimeoutKeeps == ASSUME AccountsInv, NEW t \in Admins, LockTimeout(t) PROVE AccountsInv'
<1>1. EndAdmin(t) /\ UNCHANGED <<acc, live, issued, lost, requestSide>>
  BY DEF LockTimeout
<1>2. AdminOK(t)'
  BY <1>1, EndFacts DEF AdminOK
<1> QED BY <1>1, <1>2, EndFacts, AdminMoves

\* The rows after the default is taken from whichever had it.
LEMMA ClearedRows ==
    ASSUME AccountsTypeOK
    PROVE  /\ ClearDefault \in [Accounts -> AccountRows \cup {Absent, Removed}]
           /\ \A b \in Accounts : /\ ClearDefault[b].default # TRUE
                                  /\ ClearDefault[b].status = acc[b].status
                                  /\ ClearDefault[b] \in AccountRows <=> acc[b] \in AccountRows
                                  /\ ClearDefault[b] = Absent <=> acc[b] = Absent
                                  /\ acc[b] \in AccountRows => ClearDefault[b].token = acc[b].token
<1>1. ASSUME NEW b \in Accounts
      PROVE  /\ ClearDefault[b] \in AccountRows \cup {Absent, Removed}
             /\ ClearDefault[b].default # TRUE
             /\ ClearDefault[b].status = acc[b].status
             /\ ClearDefault[b] \in AccountRows <=> acc[b] \in AccountRows
             /\ ClearDefault[b] = Absent <=> acc[b] = Absent
             /\ acc[b] \in AccountRows => ClearDefault[b].token = acc[b].token
  <2>1. CASE acc[b] \in AccountRows
    <3> DEFINE r == [acc[b] EXCEPT !.default = FALSE]
    <3>1. r \in AccountRows /\ r.default = FALSE /\ r.status = acc[b].status /\ r.token = acc[b].token
      BY <2>1 DEF AccountRows
    <3>2. acc[b].default \in BOOLEAN
      BY <2>1 DEF AccountRows
    <3>3. ClearDefault[b] = IF acc[b].default THEN r ELSE acc[b]
      BY DEF ClearDefault
    <3> HIDE DEF r
    <3>4. CASE acc[b].default = TRUE
      BY <2>1, <3>1, <3>3, <3>4, RowFacts
    <3>5. CASE acc[b].default = FALSE
      BY <2>1, <3>3, <3>5, RowFacts
    <3> QED BY <3>2, <3>4, <3>5
  <2>2. CASE acc[b] \in {Absent, Removed}
    <3>1. acc[b].default = FALSE
      BY <2>2, RowFacts
    <3>2. ClearDefault[b] = acc[b]
      BY <3>1 DEF ClearDefault
    <3> QED BY <2>2, <3>1, <3>2, RowFacts
  <2> QED BY <2>1, <2>2 DEF AccountsTypeOK
<1>2. ClearDefault \in [Accounts -> AccountRows \cup {Absent, Removed}]
  BY <1>1 DEF ClearDefault
<1> QED BY <1>1, <1>2


\* The rows as they are, or without a default.
Base(rows) ==
    /\ rows \in [Accounts -> AccountRows \cup {Absent, Removed}]
    /\ \A b \in Accounts : /\ rows[b].default = TRUE => acc[b].default = TRUE
                           /\ rows[b].status = acc[b].status
                           /\ rows[b] \in AccountRows <=> acc[b] \in AccountRows
                           /\ rows[b] = Absent <=> acc[b] = Absent
                           /\ acc[b] \in AccountRows => rows[b].token = acc[b].token

\* An administrator's transaction commits the entry of an account that it creates or that
\* it has locked.
LEMMA CommitMoves ==
    ASSUME AccountsInv, NEW t \in Admins, admin[t].pc = "update", EndAdmin(t), UNCHANGED <<lost, requestSide>>,
           NEW a \in Accounts, NEW entry \in AccountRows, NEW rows, Base(rows), acc' = [rows EXCEPT ![a] = entry],
           live' \in [Accounts -> Nat], issued' \in Nat, \A b \in Accounts \ {a} : live'[b] = live[b],
           entry.status = "active",
           \/ acc[a] = Absent /\ entry.token = live'[a]
           \/ acc[a] \in AccountRows /\ entry.token = acc[a].token /\ live'[a] = live[a],
           entry.default = TRUE => \A b \in Accounts \ {a} : rows[b].default # TRUE
    PROVE  AccountsInv'
<1>1. AccountsTypeOK
  BY DEF AccountsInv
<1>2. /\ acc' \in [Accounts -> AccountRows \cup {Absent, Removed}] /\ acc'[a] = entry
      /\ \A b \in Accounts \ {a} : acc'[b] = rows[b]
  BY DEF Base
<1>3. entry # Absent /\ entry # Removed
  BY RowFacts
<1>4. AccountsTypeOK'
  BY <1>1, <1>2, EndFacts DEF AccountsTypeOK, requestSide
<1>5. ASSUME NEW b \in Accounts, b # a
      PROVE  /\ acc'[b].status = acc[b].status /\ (acc'[b] = Absent <=> acc[b] = Absent) /\ (Exists(b)' <=> Exists(b))
             /\ Exists(b) => acc'[b].token = acc[b].token
             /\ acc'[b].default = TRUE => acc[b].default = TRUE
  <2>1. acc'[b] = rows[b]
    BY <1>2, <1>5
  <2>2. Exists(b) <=> acc[b] \in AccountRows
    BY <1>1, RowsThatExist
  <2>3. rows[b] \in AccountRows <=> rows[b] \notin {Absent, Removed}
    BY RowFacts DEF Base
  <2> QED BY <2>1, <2>2, <2>3 DEF Base, Exists
<1>6. Exists(a)'
  BY <1>2, <1>3 DEF Exists
<1>7. ASSUME NEW q \in Reqs PROVE RequestOK(q)'
  <2>1. RequestOK(q) /\ req'[q] = req[q] /\ req[q] \in RequestStates /\ advisory' = advisory /\ lost' = lost
    BY <1>1 DEF AccountsInv, AccountsTypeOK, requestSide
  <2>2. req[q].pc \notin {"new", "done"} => req[q].acct \in Accounts
    BY <2>1, RequestFields
  <2>3. req[q].pc \notin {"new", "done"} => acc'[req[q].acct] # Absent
    BY <1>2, <1>3, <1>5, <2>1, <2>2 DEF RequestOK
  <2>4. req[q].pc \notin {"new", "done"} => live'[req[q].acct] = live[req[q].acct]
    <3> SUFFICES ASSUME req[q].pc \notin {"new", "done"} PROVE live'[req[q].acct] = live[req[q].acct]
      OBVIOUS
    <3>1. acc[req[q].acct] # Absent
      BY <2>1 DEF RequestOK
    <3> QED BY <2>2, <3>1
  <2> QED BY <2>1, <2>3, <2>4 DEF RequestOK
<1>8. ASSUME NEW b \in Accounts PROVE RowOK(b)'
  <2>1. RowOK(b) /\ req' = req /\ lost' = lost
    BY DEF AccountsInv, requestSide
  <2>2. CASE b = a
    <3>1. CASE acc[a] = Absent /\ entry.token = live'[a]
      BY <1>2, <1>6, <2>2, <3>1 DEF RowOK
    <3>2. CASE acc[a] \in AccountRows /\ entry.token = acc[a].token /\ live'[a] = live[a]
      <4>1. Exists(a)
        BY <1>1, <3>2, RowsThatExist
      <4> QED BY <1>2, <1>6, <2>1, <2>2, <3>2, <4>1 DEF RowOK
    <3> QED BY <3>1, <3>2
  <2>3. CASE b # a
    BY <1>5, <2>1, <2>3 DEF RowOK
  <2> QED BY <2>2, <2>3
<1>9. ASSUME NEW u \in Admins PROVE AdminOK(u)'
  <2>1. CASE u = t
    BY <2>1, EndFacts DEF AdminOK
  <2>2. CASE u # t
    <3>1. AdminOK(u) /\ AdminOK(t) /\ admin[u] \in AdminStates
      BY <1>1 DEF AccountsInv, AccountsTypeOK
    <3>2. admin'[u] = admin[u] /\ \A b \in Accounts : rowLock[b] = u => rowLock'[b] = u
      BY <2>2, EndFacts
    <3>3. admin[u].pc # "update"
      BY <2>2, <3>1 DEF AdminOK
    <3>4. admin[u].pc = "provider" => admin[u].acct \in Accounts
      BY <3>1, AdminFields
    <3>5. admin[u].pc = "provider" /\ admin[u].op = "default" =>
            Exists(admin[u].acct)' /\ acc'[admin[u].acct].status = "active"
      <4> SUFFICES ASSUME NEW b \in Accounts, b = admin[u].acct, Exists(b), acc[b].status = "active"
                   PROVE  Exists(b)' /\ acc'[b].status = "active"
        BY <3>1, <3>2, <3>4 DEF AdminOK, Exists
      <4> QED BY <1>2, <1>5, <1>6
    <3> QED BY <3>1, <3>2, <3>3, <3>4, <3>5 DEF AdminOK, Exists
  <2> QED BY <2>1, <2>2
<1>10. OneDefault'
  <2>1. OneDefault
    BY DEF AccountsInv
  <2>2. CASE entry.default = TRUE
    BY <1>2, <2>2 DEF OneDefault
  <2>3. CASE entry.default # TRUE
    <3> SUFFICES ASSUME NEW b \in Accounts, NEW c \in Accounts, acc'[b].default = TRUE, acc'[c].default = TRUE
                 PROVE  b = c
      BY DEF OneDefault
    <3>1. b # a /\ c # a
      BY <1>2, <2>3
    <3>2. acc[b].default = TRUE
      BY <1>5, <3>1
    <3>3. acc[c].default = TRUE
      BY <1>5, <3>1
    <3> QED BY <2>1, <3>2, <3>3 DEF OneDefault
  <2> QED BY <2>2, <2>3
<1> QED BY <1>4, <1>7, <1>8, <1>9, <1>10 DEF AccountsInv

LEMMA CommitAdminKeeps == ASSUME AccountsInv, NEW t \in Admins, CommitAdmin(t) PROVE AccountsInv'
<1>1. admin[t].pc = "update" /\ EndAdmin(t) /\ UNCHANGED <<lost, requestSide>>
  BY DEF CommitAdmin
<1>2. AccountsTypeOK /\ AdminOK(t) /\ admin[t] \in AdminStates
  BY DEF AccountsInv, AccountsTypeOK
<1>3. PICK a \in Accounts : a = admin[t].acct
  BY <1>1, <1>2, AdminFields
<1>4. issued \in Nat /\ live \in [Accounts -> Nat] /\ acc \in [Accounts -> AccountRows \cup {Absent, Removed}]
  BY <1>2 DEF AccountsTypeOK
<1>5. Base(acc) /\ Base(ClearDefault) /\ \A b \in Accounts : ClearDefault[b].default # TRUE
  BY <1>2, <1>4, ClearedRows DEF Base
<1>6. CASE admin[t].op = "create"
  <2> DEFINE makes == admin[t].makeDefault \/ Defaults = {}
             entry == NewAccount(issued + 1, makes)
  <2>1. /\ acc' = [(IF makes THEN ClearDefault ELSE acc) EXCEPT ![a] = entry]
        /\ issued' = issued + 1 /\ live' = [live EXCEPT ![a] = issued + 1]
    BY <1>3, <1>6 DEF CommitAdmin
  <2>2. acc[a] = Absent
    BY <1>1, <1>2, <1>3, <1>6 DEF AdminOK
  <2>3. makes \in BOOLEAN
    OBVIOUS
  <2> HIDE DEF makes
  <2>4. entry \in AccountRows /\ entry.status = "active" /\ entry.token = issued + 1 /\ entry.default = makes
    BY <1>4, <2>3 DEF NewAccount, AccountRows
  <2>5. issued' \in Nat /\ live' \in [Accounts -> Nat] /\ live'[a] = issued + 1
        /\ \A b \in Accounts \ {a} : live'[b] = live[b]
    BY <1>4, <2>1
  <2>6. CASE makes = TRUE
    <3>1. acc' = [ClearDefault EXCEPT ![a] = entry]
      BY <2>1, <2>6
    <3> HIDE DEF entry
    <3> QED BY <1>1, <1>5, <2>2, <2>4, <2>5, <3>1, CommitMoves
  <2>7. CASE makes = FALSE
    <3>1. acc' = [acc EXCEPT ![a] = entry] /\ entry.default # TRUE
      BY <2>1, <2>4, <2>7
    <3> HIDE DEF entry
    <3> QED BY <1>1, <1>5, <2>2, <2>4, <2>5, <3>1, CommitMoves
  <2> QED BY <2>3, <2>6, <2>7
<1>7. CASE admin[t].op # "create"
  <2> DEFINE entry == [acc[a] EXCEPT !.default = TRUE]
  <2>1. acc' = [ClearDefault EXCEPT ![a] = entry] /\ UNCHANGED <<issued, live>>
    BY <1>3, <1>7 DEF CommitAdmin
  <2>2. Exists(a) /\ acc[a].status = "active"
    BY <1>1, <1>2, <1>3, <1>7, AdminFields DEF AdminOK
  <2>3. acc[a] \in AccountRows
    BY <1>2, <2>2, RowsThatExist
  <2>4. entry \in AccountRows /\ entry.status = "active" /\ entry.token = acc[a].token
    BY <2>2, <2>3 DEF AccountRows
  <2> HIDE DEF entry
  <2> QED BY <1>1, <1>4, <1>5, <2>1, <2>3, <2>4, CommitMoves
<1> QED BY <1>6, <1>7

LEMMA AccountsStutter == ASSUME AccountsInv, UNCHANGED accountVars PROVE AccountsInv'
<1>1. AccountsTypeOK' /\ OneDefault'
  BY DEF accountVars, AccountsInv, AccountsTypeOK, OneDefault
<1>2. \A q \in Reqs : RequestOK(q)'
  BY DEF accountVars, AccountsInv, RequestOK
<1>3. \A a \in Accounts : RowOK(a)'
  BY DEF accountVars, AccountsInv, RowOK, Exists
<1>4. \A t \in Admins : AdminOK(t)'
  BY DEF accountVars, AccountsInv, AdminOK, Exists
<1> QED BY <1>1, <1>2, <1>3, <1>4 DEF AccountsInv

LEMMA AccountsStepKeeps == AccountsInv /\ [AccountsNext]_accountVars => AccountsInv'
<1> SUFFICES ASSUME AccountsInv, [AccountsNext]_accountVars PROVE AccountsInv'
  OBVIOUS
<1>1. CASE UNCHANGED accountVars
  BY <1>1, AccountsStutter
<1>2. ASSUME NEW q \in Reqs, ReqStep(q) \/ Drop(q) \/ LoseAdvisoryLock(q) PROVE AccountsInv'
  BY <1>2, ResolveKeeps, CredentialsKeeps, LockKeeps, RecheckKeeps, PresentKeeps, MarkReauthKeeps, StoreKeeps,
     RereadKeeps, TransportKeeps, CallKeeps, DropKeeps, LoseKeeps DEF ReqStep
<1>3. ASSUME NEW t \in Admins, AdminStep(t) PROVE AccountsInv'
  BY <1>3, LockProviderKeeps, CommitAdminKeeps, LockTimeoutKeeps DEF AdminStep
<1>4. CASE AccountsNext
  BY <1>2, <1>3, <1>4, ExpireKeeps, RotateKeeps, UpdateKeeps, RemoveKeeps, CreateStartKeeps, SetDefaultStartKeeps
  DEF AccountsNext
<1> QED BY <1>1, <1>4

LEMMA AccountsInvUsable == AccountsInv => OneUsableDefault /\ ReauthOnlyWhenLost
<1> SUFFICES ASSUME AccountsInv PROVE OneUsableDefault /\ ReauthOnlyWhenLost
  OBVIOUS
<1>0. \A a \in Accounts : acc[a].default \in BOOLEAN
  BY RowFacts DEF AccountsInv, AccountsTypeOK, AccountRows
<1>1. Cardinality(Defaults) <= 1
  <2>1. CASE Defaults = {}
    BY <2>1, FS_EmptySet
  <2>2. CASE Defaults # {}
    <3>1. PICK a \in Accounts : acc[a].default
      BY <2>2 DEF Defaults
    <3>2. Defaults = {a}
      BY <1>0, <3>1 DEF AccountsInv, OneDefault, Defaults
    <3> QED BY <3>2, FS_Singleton
  <2> QED BY <2>1, <2>2
<1>2. \A a \in Defaults : Exists(a) /\ acc[a].status # "disabled"
  BY <1>0 DEF AccountsInv, RowOK, Defaults
<1>3. \A a \in Accounts : acc[a].status = "reauth_required" => a \in lost
  BY DEF AccountsInv, RowOK
<1>4. \A p, q \in Reqs : req[p].pc = "present" /\ req[q].pc = "present" /\ req[p].acct = req[q].acct /\ p # q
          => req[p].acct \in lost
  BY RefreshesAlone DEF Refreshing
<1> QED BY <1>1, <1>2, <1>3, <1>4 DEF OneUsableDefault, ReauthOnlyWhenLost

\* Accounts, locks, transports and requests keep their types, whatever administrators and
\* replicas do (accounts of db/mod.rs, chatgpt_auth.rs).
THEOREM AccountsTypesCorrect == AccountsSpec => []AccountsTypeOK
<1>1. AccountsInv => AccountsTypeOK
  BY DEF AccountsInv
<1> QED BY <1>1, AccountsInitially, AccountsStepKeeps, PTL DEF AccountsSpec

\* For every number of accounts, replicas, requests and administrators: at most one account
\* is the default and it can be used, and racing refreshes cost an account its login only
\* when a token was really lost (chatgpt_auth.rs: the two locks and the second look at the
\* stored token).
THEOREM AccountsAlwaysUsable == AccountsSpec => []AccountsStayUsable
<1>1. AccountsInv => AccountsStayUsable
  BY AccountsInvUsable DEF AccountsStayUsable
<1> QED BY <1>1, AccountsInitially, AccountsStepKeeps, PTL DEF AccountsSpec

-----------------------------------------------------------------------------
(* Sign-ins of the platform (ProviderLogin). *)

\* A visit that never made its attempt leave "pending", or whose exchange left nothing.
Fresh(v) == visit[v].task = "none" /\ posted[v] = "no"

\* What a visit knows: its attempt was given out and is being exchanged while its task
\* works, the task posts once, and the popup says what the gateway did.
VisitOK(v) ==
    /\ visit[v].login \in started \cup {"none"}
    /\ ~Fresh(v) => visit[v].login \in Logins
    /\ visit[v].task # "none" => attempts[visit[v].login].status = "exchanging"
    /\ visit[v].task = "token" => posted[v] = "no"
    /\ visit[v].task = "ok" => posted[v] = "created"
    /\ visit[v].popup = "ok" => posted[v] = "created"

\* What an attempt knows of its visits.
AttemptOK(g) ==
    /\ attempts[g] # NoAttempt => g \in started
    /\ attempts[g].status = "exchanging" => \E v \in Visits : visit[v].login = g /\ visit[v].task # "none"
    /\ attempts[g].status = "pending" \/ "withdrawn" \in told[g] =>
          \A v \in Visits : visit[v].login = g => Fresh(v)
    /\ "withdrawn" \in told[g] => "cancelled" \in told[g]
    /\ "cancelled" \in told[g] => g \in started /\ attempts[g] = NoAttempt
    /\ attempts[g].status = "succeeded" \/ "succeeded" \in told[g] =>
          \E v \in Visits : visit[v].login = g /\ posted[v] = "created"

\* Two visits of one attempt are never both under way or answered.
OneExchange == \A u, v \in Visits :
    ~Fresh(u) /\ ~Fresh(v) /\ visit[u].login = visit[v].login => u = v

Within == IsFiniteSet(Kept(attempts)) /\ Cardinality(Kept(attempts)) <= MaxAttempts

LoginsInv ==
    /\ LoginsTypeOK
    /\ \A v \in Visits : VisitOK(v)
    /\ \A g \in Logins : AttemptOK(g)
    /\ OneExchange
    /\ Within

-----------------------------------------------------------------------------
LEMMA LoginsInitially == LoginsInit => LoginsInv
<1> SUFFICES ASSUME LoginsInit PROVE LoginsInv
  OBVIOUS
<1>1. LoginsTypeOK
  BY ProviderLoginAssumption DEF LoginsInit, LoginsTypeOK, NoVisit
<1>2. \A v \in Visits : VisitOK(v) /\ Fresh(v)
  BY DEF LoginsInit, VisitOK, Fresh, NoVisit
<1>3. \A g \in Logins : AttemptOK(g)
  BY <1>2 DEF LoginsInit, AttemptOK, NoAttempt
<1>4. OneExchange
  BY <1>2 DEF OneExchange
<1>5. Kept(attempts) = {}
  BY DEF Kept, LoginsInit
<1>6. Within
  BY <1>5, FS_EmptySet, ProviderLoginAssumption DEF Within
<1> QED BY <1>1, <1>2, <1>3, <1>4, <1>6 DEF LoginsInv

\* The map does not grow when no attempt is added.
LEMMA KeptShrinks ==
    ASSUME Within, \A g \in Logins : attempts'[g] # NoAttempt => attempts[g] # NoAttempt
    PROVE  Within'
<1>1. Kept(attempts)' \subseteq Kept(attempts)
  BY DEF Kept
<1>2. IsFiniteSet(Kept(attempts)') /\ Cardinality(Kept(attempts)') <= Cardinality(Kept(attempts))
  BY <1>1, FS_Subset DEF Within
<1>3. Cardinality(Kept(attempts)) \in Nat /\ Cardinality(Kept(attempts)') \in Nat
  BY <1>2, FS_CardinalityType DEF Within
<1> QED BY <1>2, <1>3, ProviderLoginAssumption DEF Within

LEMMA PrunedFacts ==
    ASSUME LoginsTypeOK
    PROVE  /\ Pruned \in [Logins -> {NoAttempt} \cup
                 [status : {"pending", "exchanging", "succeeded", "failed"}, expired : BOOLEAN]]
           /\ \A g \in Logins : Pruned[g] = attempts[g]
                                  \/ (Pruned[g] = NoAttempt /\ attempts[g].status # "exchanging")
  BY DEF Pruned, LoginsTypeOK, NoAttempt

LEMMA NoAttemptFacts == NoAttempt.status = "none" /\ NoVisit.task = "none" /\ NoVisit.login = "none"
  BY DEF NoAttempt, NoVisit

\* The dashboard and the clock: visits and the requests they sent stay as they are.
LEMMA DashboardMoves ==
    ASSUME LoginsInv, UNCHANGED <<visit, posted>>, started \subseteq started', LoginsTypeOK', Within',
           \A g \in Logins : attempts[g].status = "exchanging" => attempts'[g].status = "exchanging",
           \A g \in Logins : AttemptOK(g)'
    PROVE  LoginsInv'
<1>1. \A v \in Visits : visit[v].login \in Logins \cup {"none"}
  BY DEF LoginsInv, LoginsTypeOK
<1>2. ASSUME NEW v \in Visits PROVE VisitOK(v)'
  <2>1. VisitOK(v)
    BY DEF LoginsInv
  <2>2. visit[v].task # "none" => visit[v].login \in Logins
    BY <2>1 DEF VisitOK, Fresh
  <2> QED BY <2>1, <2>2 DEF VisitOK, Fresh
<1>3. OneExchange'
  BY DEF LoginsInv, OneExchange, Fresh
<1> QED BY <1>2, <1>3 DEF LoginsInv

\* An attempt that is dropped, or stays as it is, is as good as it was.
LEMMA DroppedOK ==
    ASSUME LoginsInv, NEW g \in Logins, UNCHANGED <<visit, posted>>, started \subseteq started',
           attempts'[g] = attempts[g] \/ (attempts'[g] = NoAttempt /\ attempts[g].status # "exchanging"),
           told'[g] = told[g]
    PROVE  AttemptOK(g)'
<1>1. AttemptOK(g)
  BY DEF LoginsInv
<1>2. CASE attempts'[g] = attempts[g]
  BY <1>1, <1>2 DEF AttemptOK, Fresh
<1>3. CASE attempts'[g] = NoAttempt
  BY <1>1, <1>3, NoAttemptFacts DEF AttemptOK, Fresh
<1> QED BY <1>2, <1>3

LEMMA StartLoginKeeps == ASSUME LoginsInv, NEW g \in Logins, StartLogin(g) PROVE LoginsInv'
<1>1. LoginsTypeOK /\ Within /\ AttemptOK(g)
  BY DEF LoginsInv
<1>2. g \notin started /\ UNCHANGED <<visit, posted, told, restarts>>
  BY DEF StartLogin
<1>3. CASE Cardinality(Kept(Pruned)) < MaxAttempts
  <2> DEFINE new == [status |-> "pending", expired |-> FALSE]
  <2>1. attempts' = [Pruned EXCEPT ![g] = new] /\ started' = started \cup {g}
    BY <1>3 DEF StartLogin
  <2>2. /\ LoginsTypeOK' /\ attempts'[g] = new
        /\ \A h \in Logins \ {g} : attempts'[h] = Pruned[h]
    BY <1>1, <1>2, <2>1, PrunedFacts DEF LoginsTypeOK
  <2>3. attempts[g] = NoAttempt
    BY <1>1, <1>2 DEF AttemptOK
  <2>4. ASSUME NEW h \in Logins PROVE AttemptOK(h)'
    <3>1. CASE h = g
      <4>1. \A v \in Visits : visit[v].login # g
        BY <1>2, ProviderLoginAssumption DEF LoginsInv, VisitOK
      <4>2. "cancelled" \notin told[g] /\ "withdrawn" \notin told[g] /\ "succeeded" \notin told[g]
        BY <1>1, <1>2, <4>1 DEF AttemptOK
      <4>3. attempts'[g].status = "pending" /\ g \in started' /\ told' = told
        BY <1>2, <2>1, <2>2
      <4> QED BY <1>2, <3>1, <4>1, <4>2, <4>3 DEF AttemptOK
    <3>2. CASE h # g
      BY <1>1, <1>2, <2>1, <2>2, <3>2, PrunedFacts, DroppedOK
    <3> QED BY <3>1, <3>2
  <2>5. \A h \in Logins : attempts[h].status = "exchanging" => attempts'[h].status = "exchanging"
    BY <1>1, <2>2, <2>3, PrunedFacts, NoAttemptFacts
  <2>6. Within'
    <3>1. Kept(Pruned) \subseteq Kept(attempts)
      BY <1>1, PrunedFacts DEF Kept
    <3>2. IsFiniteSet(Kept(Pruned)) /\ Cardinality(Kept(Pruned)) \in Nat
      BY <1>1, <3>1, FS_Subset, FS_CardinalityType DEF Within
    <3>3. Kept(attempts)' \subseteq Kept(Pruned) \cup {g}
      BY <2>2 DEF Kept
    <3>4. /\ IsFiniteSet(Kept(Pruned) \cup {g})
          /\ Cardinality(Kept(Pruned) \cup {g}) <= Cardinality(Kept(Pruned)) + 1
      BY <3>2, FS_AddElement
    <3>5. /\ IsFiniteSet(Kept(attempts)') /\ Cardinality(Kept(attempts)') \in Nat
          /\ Cardinality(Kept(attempts)') <= Cardinality(Kept(Pruned) \cup {g})
          /\ Cardinality(Kept(Pruned) \cup {g}) \in Nat
      BY <3>3, <3>4, FS_Subset, FS_CardinalityType
    <3> QED BY <1>3, <3>2, <3>4, <3>5, ProviderLoginAssumption DEF Within
  <2> QED BY <1>2, <2>1, <2>2, <2>4, <2>5, <2>6, DashboardMoves
<1>4. CASE ~(Cardinality(Kept(Pruned)) < MaxAttempts)
  <2>1. attempts' = Pruned /\ started' = started
    BY <1>4 DEF StartLogin
  <2>2. LoginsTypeOK'
    BY <1>1, <1>2, <2>1, PrunedFacts DEF LoginsTypeOK
  <2>3. Within'
    BY <1>1, <2>1, PrunedFacts, KeptShrinks
  <2>4. \A h \in Logins : AttemptOK(h)'
    BY <1>1, <1>2, <2>1, PrunedFacts, DroppedOK
  <2>5. \A h \in Logins : attempts[h].status = "exchanging" => attempts'[h].status = "exchanging"
    BY <1>1, <2>1, PrunedFacts
  <2> QED BY <1>2, <2>1, <2>2, <2>3, <2>4, <2>5, DashboardMoves
<1> QED BY <1>3, <1>4

LEMMA PollLoginKeeps == ASSUME LoginsInv, NEW g \in Logins, PollLogin(g) PROVE LoginsInv'
<1>1. LoginsTypeOK /\ Within /\ AttemptOK(g)
  BY DEF LoginsInv
<1>2. attempts' = Pruned /\ UNCHANGED <<started, visit, posted, restarts>>
  BY DEF PollLogin
<1>3. told' = [told EXCEPT ![g] = told[g] \cup ({Pruned[g].status} \cap {"succeeded"})]
  BY DEF PollLogin
<1>4. /\ told' \in [Logins -> SUBSET {"succeeded", "cancelled", "withdrawn"}]
      /\ \A h \in Logins \ {g} : told'[h] = told[h]
      /\ "cancelled" \in told'[g] => "cancelled" \in told[g]
      /\ "withdrawn" \in told'[g] => "withdrawn" \in told[g]
      /\ told[g] \subseteq told'[g]
      /\ "succeeded" \in told'[g] => "succeeded" \in told[g] \/ Pruned[g].status = "succeeded"
  BY <1>1, <1>3 DEF LoginsTypeOK
<1>5. LoginsTypeOK'
  BY <1>1, <1>2, <1>4, PrunedFacts DEF LoginsTypeOK
<1>6. Within'
  BY <1>1, <1>2, PrunedFacts, KeptShrinks
<1>7. ASSUME NEW h \in Logins PROVE AttemptOK(h)'
  <2>1. CASE h # g
    BY <1>1, <1>2, <1>4, <2>1, PrunedFacts, DroppedOK
  <2>2. CASE h = g
    <3>1. CASE Pruned[g] = attempts[g]
      BY <1>1, <1>2, <1>4, <2>2, <3>1 DEF AttemptOK, Fresh
    <3>2. CASE Pruned[g] = NoAttempt
      BY <1>1, <1>2, <1>4, <2>2, <3>2, NoAttemptFacts DEF AttemptOK, Fresh
    <3> QED BY <1>1, <3>1, <3>2, PrunedFacts
  <2> QED BY <2>1, <2>2
<1>8. \A h \in Logins : attempts[h].status = "exchanging" => attempts'[h].status = "exchanging"
  BY <1>1, <1>2, PrunedFacts
<1> QED BY <1>2, <1>5, <1>6, <1>7, <1>8, DashboardMoves

LEMMA CancelLoginKeeps == ASSUME LoginsInv, NEW g \in Logins, CancelLogin(g) PROVE LoginsInv'
<1>1. LoginsTypeOK /\ Within /\ AttemptOK(g)
  BY DEF LoginsInv
<1>2. g \in started /\ attempts[g].status # "exchanging" /\ UNCHANGED <<started, visit, posted, restarts>>
  BY DEF CancelLogin
<1>3. /\ attempts' \in [Logins -> {NoAttempt} \cup
            [status : {"pending", "exchanging", "succeeded", "failed"}, expired : BOOLEAN]]
      /\ attempts'[g] = NoAttempt /\ \A h \in Logins \ {g} : attempts'[h] = attempts[h]
  BY <1>1 DEF CancelLogin, LoginsTypeOK
<1>4. /\ told' \in [Logins -> SUBSET {"succeeded", "cancelled", "withdrawn"}]
      /\ \A h \in Logins \ {g} : told'[h] = told[h]
      /\ "cancelled" \in told'[g]
      /\ "withdrawn" \in told'[g] => "withdrawn" \in told[g] \/ attempts[g].status = "pending"
      /\ "succeeded" \in told'[g] => "succeeded" \in told[g]
  BY <1>1 DEF CancelLogin, LoginsTypeOK
<1>5. LoginsTypeOK'
  BY <1>1, <1>2, <1>3, <1>4 DEF LoginsTypeOK
<1>6. Within'
  BY <1>1, <1>3, KeptShrinks
<1>7. ASSUME NEW h \in Logins PROVE AttemptOK(h)'
  <2>1. CASE h # g
    BY <1>1, <1>2, <1>3, <1>4, <2>1, DroppedOK
  <2>2. CASE h = g
    BY <1>1, <1>2, <1>3, <1>4, <2>2, NoAttemptFacts DEF AttemptOK, Fresh
  <2> QED BY <2>1, <2>2
<1>8. \A h \in Logins : attempts[h].status = "exchanging" => attempts'[h].status = "exchanging"
  BY <1>2, <1>3
<1> QED BY <1>2, <1>5, <1>6, <1>7, <1>8, DashboardMoves

LEMMA ExpireLoginKeeps == ASSUME LoginsInv, NEW g \in Logins, ExpireLogin(g) PROVE LoginsInv'
<1>1. LoginsTypeOK /\ Within /\ AttemptOK(g)
  BY DEF LoginsInv
<1>2. attempts[g] # NoAttempt /\ UNCHANGED <<started, visit, posted, told, restarts>>
  BY DEF ExpireLogin
<1>3. /\ attempts' \in [Logins -> {NoAttempt} \cup
            [status : {"pending", "exchanging", "succeeded", "failed"}, expired : BOOLEAN]]
      /\ attempts'[g].status = attempts[g].status /\ \A h \in Logins \ {g} : attempts'[h] = attempts[h]
  <2> DEFINE old == attempts[g]
             new == [old EXCEPT !.expired = TRUE]
  <2>1. attempts' = [attempts EXCEPT ![g] = new]
    BY DEF ExpireLogin
  <2>2. old \in [status : {"pending", "exchanging", "succeeded", "failed"}, expired : BOOLEAN]
    BY <1>1, <1>2 DEF LoginsTypeOK
  <2>3. new \in [status : {"pending", "exchanging", "succeeded", "failed"}, expired : BOOLEAN] /\ new.status = old.status
    BY <2>2
  <2> HIDE DEF new
  <2> QED BY <1>1, <2>1, <2>3 DEF LoginsTypeOK
<1>4. LoginsTypeOK'
  BY <1>1, <1>2, <1>3 DEF LoginsTypeOK
<1>5. Within'
  BY <1>1, <1>2, <1>3, KeptShrinks
<1>6. ASSUME NEW h \in Logins PROVE AttemptOK(h)'
  <2>1. CASE h # g
    BY <1>1, <1>2, <1>3, <2>1, DroppedOK
  <2>2. CASE h = g
    BY <1>1, <1>2, <1>3, <2>2, NoAttemptFacts DEF AttemptOK, Fresh
  <2> QED BY <2>1, <2>2
<1>7. \A h \in Logins : attempts[h].status = "exchanging" => attempts'[h].status = "exchanging"
  BY <1>3
<1> QED BY <1>2, <1>4, <1>5, <1>6, <1>7, DashboardMoves

-----------------------------------------------------------------------------
\* The task of a visit goes on, its popup is closed, or the gateway works off its request.
TaskMoves(v) ==
    /\ UNCHANGED <<attempts, started, told>>
    /\ \A u \in Visits \ {v} : visit'[u] = visit[u] /\ posted'[u] = posted[u]
    /\ visit'[v].login = visit[v].login
    /\ visit'[v].task = "none" <=> visit[v].task = "none"
    /\ posted'[v] = "no" => posted[v] = "no"
    /\ posted[v] # "no" \/ visit[v].task # "none" \/ posted'[v] = "no"
    /\ posted[v] = "created" => posted'[v] = "created"

LEMMA TaskKeeps ==
    ASSUME LoginsInv, NEW v \in Visits, TaskMoves(v), LoginsTypeOK', VisitOK(v)'
    PROVE  LoginsInv'
<1>1. \A u \in Visits : Fresh(u)' <=> Fresh(u)
  BY DEF TaskMoves, Fresh
<1>2. \A u \in Visits : /\ visit'[u].login = visit[u].login /\ (visit'[u].task = "none" <=> visit[u].task = "none")
                        /\ posted[u] = "created" => posted'[u] = "created"
  BY DEF TaskMoves
<1>3. ASSUME NEW u \in Visits PROVE VisitOK(u)'
  <2>1. CASE u # v
    BY <1>1, <2>1 DEF LoginsInv, TaskMoves, VisitOK
  <2> QED BY <2>1
<1>4. ASSUME NEW g \in Logins PROVE AttemptOK(g)'
  <2>1. AttemptOK(g)
    BY DEF LoginsInv
  <2> QED BY <1>1, <1>2, <2>1 DEF TaskMoves, AttemptOK
<1>5. OneExchange'
  BY <1>1, <1>2 DEF LoginsInv, OneExchange
<1>6. Within'
  BY DEF LoginsInv, TaskMoves, Within, Kept
<1> QED BY <1>3, <1>4, <1>5, <1>6 DEF LoginsInv

LEMMA TaskToFacts ==
    ASSUME LoginsTypeOK, NEW v \in Visits, NEW t \in {"token", "create", "ok", "err"}, TaskTo(v, t)
    PROVE  /\ visit' \in [Visits -> [login : Logins \cup {"none"},
                             popup : {"none", "waiting", "ok", "failed", "closed"},
                             task : {"none", "token", "create", "ok", "err"}]]
           /\ visit'[v].task = t /\ visit'[v].login = visit[v].login /\ visit'[v].popup = visit[v].popup
           /\ \A u \in Visits \ {v} : visit'[u] = visit[u]
<1> DEFINE old == visit[v]
           new == [old EXCEPT !.task = t]
<1>1. visit' = [visit EXCEPT ![v] = new]
  BY DEF TaskTo
<1>2. old \in [login : Logins \cup {"none"}, popup : {"none", "waiting", "ok", "failed", "closed"},
               task : {"none", "token", "create", "ok", "err"}]
  BY DEF LoginsTypeOK
<1>3. /\ new \in [login : Logins \cup {"none"}, popup : {"none", "waiting", "ok", "failed", "closed"},
                  task : {"none", "token", "create", "ok", "err"}]
      /\ new.task = t /\ new.login = old.login /\ new.popup = old.popup
  BY <1>2
<1> HIDE DEF new
<1> QED BY <1>1, <1>3 DEF LoginsTypeOK

LEMMA ExchangeTokensKeeps == ASSUME LoginsInv, NEW v \in Visits, ExchangeTokens(v) PROVE LoginsInv'
<1>1. LoginsTypeOK /\ VisitOK(v)
  BY DEF LoginsInv
<1>2. visit[v].task = "token" /\ UNCHANGED <<attempts, started, told, restarts>>
  BY DEF ExchangeTokens
<1>3. posted[v] = "no" /\ visit[v].popup # "ok" /\ ~Fresh(v)
  BY <1>1, <1>2 DEF VisitOK, Fresh
<1>4. CASE TaskTo(v, "create") /\ posted' = [posted EXCEPT ![v] = "sent"]
  <2>1. LoginsTypeOK' /\ posted'[v] = "sent" /\ \A u \in Visits \ {v} : posted'[u] = posted[u]
    BY <1>1, <1>2, <1>4, TaskToFacts DEF LoginsTypeOK
  <2>2. TaskMoves(v)
    BY <1>1, <1>2, <1>3, <1>4, <2>1, TaskToFacts DEF TaskMoves
  <2>3. VisitOK(v)'
    BY <1>1, <1>2, <1>3, <1>4, <2>1, TaskToFacts DEF VisitOK, Fresh
  <2> QED BY <2>1, <2>2, <2>3, TaskKeeps
<1>5. CASE TaskTo(v, "err") /\ UNCHANGED posted
  <2>1. LoginsTypeOK'
    BY <1>1, <1>2, <1>5, TaskToFacts DEF LoginsTypeOK
  <2>2. TaskMoves(v)
    BY <1>1, <1>2, <1>3, <1>5, TaskToFacts DEF TaskMoves
  <2>3. VisitOK(v)'
    BY <1>1, <1>2, <1>3, <1>5, TaskToFacts DEF VisitOK, Fresh
  <2> QED BY <2>1, <2>2, <2>3, TaskKeeps
<1> QED BY <1>4, <1>5 DEF ExchangeTokens

LEMMA CreateAnsweredKeeps == ASSUME LoginsInv, NEW v \in Visits, CreateAnswered(v) PROVE LoginsInv'
<1>1. LoginsTypeOK /\ VisitOK(v)
  BY DEF LoginsInv
<1>2. visit[v].task = "create" /\ UNCHANGED <<attempts, started, posted, told, restarts>>
  BY DEF CreateAnswered
<1>3. PICK t \in {"ok", "err"} : TaskTo(v, t) /\ (t = "ok" => posted[v] = "created")
  BY DEF CreateAnswered
<1>4. LoginsTypeOK'
  BY <1>1, <1>2, <1>3, TaskToFacts DEF LoginsTypeOK
<1>5. TaskMoves(v)
  BY <1>1, <1>2, <1>3, TaskToFacts DEF TaskMoves
<1>6. VisitOK(v)'
  BY <1>1, <1>2, <1>3, TaskToFacts DEF VisitOK, Fresh
<1> QED BY <1>4, <1>5, <1>6, TaskKeeps

LEMMA GatewayCreatesKeeps == ASSUME LoginsInv, NEW v \in Visits, GatewayCreates(v) PROVE LoginsInv'
<1>1. LoginsTypeOK /\ VisitOK(v)
  BY DEF LoginsInv
<1>2. posted[v] = "sent" /\ UNCHANGED <<attempts, started, visit, told, restarts>>
  BY DEF GatewayCreates
<1>3. PICK r \in {"created", "refused"} : posted' = [posted EXCEPT ![v] = r]
  BY DEF GatewayCreates
<1>4. LoginsTypeOK' /\ posted'[v] = r /\ \A u \in Visits \ {v} : posted'[u] = posted[u]
  BY <1>1, <1>2, <1>3 DEF LoginsTypeOK
<1>5. TaskMoves(v)
  BY <1>2, <1>4 DEF TaskMoves
<1>6. VisitOK(v)'
  BY <1>1, <1>2, <1>4 DEF VisitOK, Fresh
<1> QED BY <1>4, <1>5, <1>6, TaskKeeps

LEMMA ClosePopupKeeps == ASSUME LoginsInv, NEW v \in Visits, ClosePopup(v) PROVE LoginsInv'
<1>1. LoginsTypeOK /\ VisitOK(v)
  BY DEF LoginsInv
<1>2. visit[v].popup = "waiting" /\ UNCHANGED <<attempts, started, posted, told, restarts>>
  BY DEF ClosePopup
<1> DEFINE old == visit[v]
           new == [old EXCEPT !.popup = "closed"]
<1>3. visit' = [visit EXCEPT ![v] = new]
  BY DEF ClosePopup
<1>4. old \in [login : Logins \cup {"none"}, popup : {"none", "waiting", "ok", "failed", "closed"},
               task : {"none", "token", "create", "ok", "err"}]
  BY <1>1 DEF LoginsTypeOK
<1>5. /\ new \in [login : Logins \cup {"none"}, popup : {"none", "waiting", "ok", "failed", "closed"},
                  task : {"none", "token", "create", "ok", "err"}]
      /\ new.task = old.task /\ new.login = old.login /\ new.popup = "closed"
  BY <1>4
<1> HIDE DEF new
<1>6. LoginsTypeOK' /\ visit'[v] = new /\ \A u \in Visits \ {v} : visit'[u] = visit[u]
  BY <1>1, <1>2, <1>3, <1>5 DEF LoginsTypeOK
<1>7. TaskMoves(v)
  BY <1>2, <1>5, <1>6 DEF TaskMoves
<1>8. VisitOK(v)'
  BY <1>1, <1>2, <1>5, <1>6 DEF VisitOK, Fresh
<1> QED BY <1>6, <1>7, <1>8, TaskKeeps

-----------------------------------------------------------------------------
\* A visit that is answered at once.
LEMMA CompleteLoginKeeps ==
    ASSUME LoginsInv, NEW v \in Visits, NEW g \in Logins, CompleteLogin(v, g) PROVE LoginsInv'
<1>1. LoginsTypeOK /\ VisitOK(v) /\ AttemptOK(g) /\ Within
  BY DEF LoginsInv
<1>2. visit[v] = NoVisit /\ g \in started /\ UNCHANGED <<started, posted, told, restarts>>
  BY DEF CompleteLogin
<1>3. Fresh(v) /\ visit[v].popup = "none" /\ posted[v] = "no"
  BY <1>1, <1>2, NoAttemptFacts, ProviderLoginAssumption DEF VisitOK, Fresh, NoVisit
<1>4. PICK seen \in {"waiting", "failed"}, t \in {"token", "none"}, st \in {"exchanging", "failed", "same"} :
        /\ visit' = [visit EXCEPT ![v] = [login |-> g, popup |-> seen, task |-> t]]
        /\ st # "same" => Pruned[g].status = "pending" /\ attempts' = [Pruned EXCEPT ![g].status = st]
        /\ st = "same" => Pruned[g].status # "pending" /\ attempts' = Pruned
        /\ t = "token" <=> st = "exchanging"
  BY DEF CompleteLogin, Answer
<1>5. Pruned[g].status = "pending" => Pruned[g] = attempts[g]
  BY <1>1, PrunedFacts, NoAttemptFacts
<1>6. /\ attempts' \in [Logins -> {NoAttempt} \cup
            [status : {"pending", "exchanging", "succeeded", "failed"}, expired : BOOLEAN]]
      /\ \A h \in Logins \ {g} : attempts'[h] = Pruned[h]
      /\ st = "same" => attempts'[g] = Pruned[g]
      /\ st # "same" => attempts'[g].status = st /\ attempts[g].status = "pending"
  <2>1. CASE st = "same"
    BY <1>1, <1>4, <2>1, PrunedFacts
  <2>2. CASE st # "same"
    <3> DEFINE old == Pruned[g]
               new == [old EXCEPT !.status = st]
    <3>1. old \in [status : {"pending", "exchanging", "succeeded", "failed"}, expired : BOOLEAN]
      BY <1>1, <1>4, <2>2, PrunedFacts, NoAttemptFacts
    <3>2. new \in [status : {"pending", "exchanging", "succeeded", "failed"}, expired : BOOLEAN] /\ new.status = st
      BY <2>2, <3>1
    <3>3. attempts' = [Pruned EXCEPT ![g] = new]
      BY <1>4, <2>2
    <3> HIDE DEF new
    <3> QED BY <1>1, <1>4, <1>5, <2>2, <3>2, <3>3, PrunedFacts
  <2> QED BY <2>1, <2>2
<1>7. /\ visit' \in [Visits -> [login : Logins \cup {"none"}, popup : {"none", "waiting", "ok", "failed", "closed"},
                               task : {"none", "token", "create", "ok", "err"}]]
      /\ visit'[v].login = g /\ visit'[v].popup = seen /\ visit'[v].task = t
      /\ \A u \in Visits \ {v} : visit'[u] = visit[u]
  BY <1>1, <1>4 DEF LoginsTypeOK
<1>8. LoginsTypeOK'
  BY <1>1, <1>2, <1>6, <1>7 DEF LoginsTypeOK
<1>9. Within'
  <2>1. st # "same" => attempts[g] # NoAttempt
    BY <1>6, NoAttemptFacts
  <2> QED BY <1>1, <1>6, <2>1, PrunedFacts, KeptShrinks
<1>10. \A h \in Logins : attempts[h].status = "exchanging" => attempts'[h].status = "exchanging"
  BY <1>1, <1>6, PrunedFacts
<1>11. ASSUME NEW u \in Visits PROVE VisitOK(u)'
  <2>1. CASE u = v
    BY <1>2, <1>3, <1>4, <1>6, <1>7, <2>1 DEF VisitOK, Fresh
  <2>2. CASE u # v
    <3>1. VisitOK(u) /\ visit'[u] = visit[u] /\ posted'[u] = posted[u]
      BY <1>2, <1>7, <2>2 DEF LoginsInv
    <3>2. visit[u].task # "none" => visit[u].login \in Logins
      BY <3>1 DEF VisitOK, Fresh
    <3> QED BY <1>2, <1>10, <3>1, <3>2 DEF VisitOK, Fresh
  <2> QED BY <2>1, <2>2
<1>12. \A u \in Visits : Fresh(u)' => Fresh(u)
  BY <1>2, <1>3, <1>7 DEF Fresh
<1>13. \A u \in Visits \ {v} : Fresh(u)' <=> Fresh(u)
  BY <1>2, <1>7 DEF Fresh
<1>14. t = "none" => Fresh(v)'
  BY <1>2, <1>3, <1>7 DEF Fresh
<1>15. ASSUME NEW h \in Logins PROVE AttemptOK(h)'
  <2>1. AttemptOK(h)
    BY DEF LoginsInv
  <2>2. /\ \A u \in Visits : visit[u].login = h => visit'[u].login = h /\ visit'[u] = visit[u]
        /\ \A u \in Visits \ {v} : visit'[u].login = h => visit[u].login = h
        /\ h # g => visit'[v].login # h
    BY <1>2, <1>7, NoAttemptFacts, ProviderLoginAssumption
  <2>3. CASE h # g
    <3>1. attempts'[h] = attempts[h] \/ (attempts'[h] = NoAttempt /\ attempts[h].status # "exchanging")
      BY <1>1, <1>6, <2>3, PrunedFacts
    <3>2. CASE attempts'[h] = attempts[h]
      BY <1>2, <1>13, <2>1, <2>2, <2>3, <3>2 DEF AttemptOK
    <3>3. CASE attempts'[h] = NoAttempt
      BY <1>2, <1>13, <2>1, <2>2, <2>3, <3>3, NoAttemptFacts DEF AttemptOK
    <3> QED BY <3>1, <3>2, <3>3
  <2>4. CASE h = g /\ st = "same"
    <3>1. attempts'[g] = attempts[g] \/ (attempts'[g] = NoAttempt /\ attempts[g].status # "exchanging")
      BY <1>1, <1>6, <2>4, PrunedFacts
    <3>2. attempts'[g].status # "pending" /\ t = "none"
      BY <1>4, <1>6, <2>4
    <3>3. CASE attempts'[h] = attempts[h]
      BY <1>2, <1>13, <1>14, <2>1, <2>2, <2>4, <3>2, <3>3 DEF AttemptOK
    <3>4. CASE attempts'[h] = NoAttempt
      BY <1>2, <1>13, <1>14, <2>1, <2>2, <2>4, <3>2, <3>4, NoAttemptFacts DEF AttemptOK
    <3> QED BY <2>4, <3>1, <3>3, <3>4
  <2>5. CASE h = g /\ st # "same"
    <3>1. /\ attempts[g].status = "pending" /\ attempts[g] # NoAttempt /\ attempts'[g].status = st
          /\ "cancelled" \notin told'[g] /\ "withdrawn" \notin told'[g]
      BY <1>2, <1>6, <2>1, <2>5, NoAttemptFacts DEF AttemptOK
    <3>2. st = "exchanging" => visit'[v].login = g /\ visit'[v].task # "none"
      BY <1>4, <1>7
    <3>3. "succeeded" \in told'[g] => \E u \in Visits : visit'[u].login = g /\ posted'[u] = "created"
      BY <1>2, <2>1, <2>2, <2>5 DEF AttemptOK
    <3> QED BY <1>2, <2>5, <3>1, <3>2, <3>3 DEF AttemptOK
  <2> QED BY <2>3, <2>4, <2>5
<1>16. OneExchange'
  <2> SUFFICES ASSUME NEW u \in Visits, NEW w \in Visits, ~Fresh(u)', ~Fresh(w)', visit'[u].login = visit'[w].login
               PROVE  u = w
    BY DEF OneExchange
  <2>1. CASE t = "none"
    <3>1. u # v /\ w # v
      BY <1>14, <2>1
    <3> QED BY <1>7, <1>13, <3>1 DEF LoginsInv, OneExchange
  <2>2. CASE t = "token"
    <3>1. \A x \in Visits : visit[x].login = g => Fresh(x)
      BY <1>1, <1>4, <1>6, <2>2 DEF AttemptOK
    <3>2. \A x \in Visits \ {v} : visit'[x].login = g => Fresh(x)'
      BY <1>7, <1>13, <3>1
    <3>3. CASE visit'[u].login = g
      BY <3>2, <3>3
    <3>4. CASE visit'[u].login # g
      <4>1. u # v /\ w # v
        BY <1>7, <3>4
      <4> QED BY <1>7, <1>13, <4>1 DEF LoginsInv, OneExchange
    <3> QED BY <3>3, <3>4
  <2> QED BY <2>1, <2>2
<1> QED BY <1>8, <1>9, <1>11, <1>15, <1>16 DEF LoginsInv

LEMMA StoreLoginKeeps == ASSUME LoginsInv, NEW v \in Visits, StoreLogin(v) PROVE LoginsInv'
<1>1. LoginsTypeOK /\ VisitOK(v) /\ Within
  BY DEF LoginsInv
<1>2. visit[v].task \in {"ok", "err"} /\ UNCHANGED <<started, posted, told, restarts>>
  BY DEF StoreLogin
<1>3. PICK g \in Logins : g = visit[v].login
  BY <1>1, <1>2 DEF VisitOK, Fresh
<1>4. attempts[g].status = "exchanging" /\ attempts[g] # NoAttempt /\ AttemptOK(g)
  BY <1>1, <1>2, <1>3, NoAttemptFacts DEF VisitOK, LoginsInv
<1>5. PICK st \in {"succeeded", "failed"}, seen \in {"none", "waiting", "ok", "failed", "closed"} :
        /\ attempts' = [attempts EXCEPT ![g] = [status |-> st, expired |-> FALSE]]
        /\ visit' = [visit EXCEPT ![v] = [login |-> g, popup |-> seen, task |-> "none"]]
        /\ st = "succeeded" => visit[v].task = "ok"
        /\ seen = "ok" => visit[v].task = "ok" \/ visit[v].popup = "ok"
  <2>1. visit[v].popup \in {"none", "waiting", "ok", "failed", "closed"}
    BY <1>1 DEF LoginsTypeOK
  <2>2. CASE visit[v].task = "ok"
    BY <1>3, <1>4, <2>1, <2>2 DEF StoreLogin, Answer
  <2>3. CASE visit[v].task # "ok"
    <3>1. attempts' = [attempts EXCEPT ![g] = [status |-> "failed", expired |-> FALSE]]
      BY <1>3, <1>4, <2>3 DEF StoreLogin
    <3>2. CASE visit[v].popup = "waiting"
      BY <1>3, <2>3, <3>1, <3>2 DEF StoreLogin, Answer
    <3>3. CASE visit[v].popup # "waiting"
      BY <1>3, <2>1, <2>3, <3>1, <3>3 DEF StoreLogin, Answer
    <3> QED BY <3>2, <3>3
  <2> QED BY <2>2, <2>3
<1>6. st = "succeeded" => posted[v] = "created"
  BY <1>1, <1>5 DEF VisitOK
<1>7. seen = "ok" => posted[v] = "created"
  BY <1>1, <1>5 DEF VisitOK
<1>8. /\ LoginsTypeOK'
      /\ attempts'[g] # NoAttempt /\ attempts'[g].status = st /\ \A h \in Logins \ {g} : attempts'[h] = attempts[h]
      /\ visit'[v].login = g /\ visit'[v].popup = seen /\ visit'[v].task = "none"
      /\ \A u \in Visits \ {v} : visit'[u] = visit[u]
  BY <1>1, <1>2, <1>5, NoAttemptFacts DEF LoginsTypeOK
<1>9. \A u \in Visits : (visit'[u].login = visit[u].login) /\ (Fresh(u) => Fresh(u)')
  BY <1>2, <1>3, <1>8 DEF Fresh
<1>10. \A u \in Visits \ {v} : visit[u].login = g => visit[u].task = "none"
  BY <1>2, <1>3 DEF LoginsInv, OneExchange, Fresh
<1>11. ASSUME NEW u \in Visits PROVE VisitOK(u)'
  <2>1. CASE u = v
    BY <1>1, <1>2, <1>3, <1>7, <1>8, <2>1 DEF VisitOK, Fresh
  <2>2. CASE u # v
    <3>1. VisitOK(u) /\ visit'[u] = visit[u] /\ posted'[u] = posted[u]
      BY <1>2, <1>8, <2>2 DEF LoginsInv
    <3>2. visit[u].task # "none" => visit[u].login \in Logins \ {g}
      BY <1>10, <2>2, <3>1 DEF VisitOK, Fresh
    <3> QED BY <1>2, <1>8, <3>1, <3>2 DEF VisitOK, Fresh
  <2> QED BY <2>1, <2>2
<1>12. ASSUME NEW h \in Logins PROVE AttemptOK(h)'
  <2>1. AttemptOK(h)
    BY DEF LoginsInv
  <2>2. CASE h # g
    <3>1. \A u \in Visits : visit[u].login = h => visit'[u] = visit[u]
      BY <1>3, <1>8, <2>2
    <3>2. \A u \in Visits : visit'[u].login = h => visit[u].login = h
      BY <1>9
    <3> QED BY <1>2, <1>8, <1>9, <2>1, <2>2, <3>1, <3>2 DEF AttemptOK
  <2>3. CASE h = g
    <3>1. attempts'[g].status \notin {"pending", "exchanging"} /\ g \in started' /\ "cancelled" \notin told'[g] /\ "withdrawn" \notin told'[g]
      BY <1>2, <1>4, <1>8 DEF AttemptOK
    <3>2. attempts'[g].status = "succeeded" \/ "succeeded" \in told'[g] =>
             \E u \in Visits : visit'[u].login = g /\ posted'[u] = "created"
      BY <1>2, <1>6, <1>8, <1>9, <2>1, <2>3 DEF AttemptOK
    <3> QED BY <2>3, <3>1, <3>2 DEF AttemptOK
  <2> QED BY <2>2, <2>3
<1>13. OneExchange'
  BY <1>9 DEF LoginsInv, OneExchange
<1>14. Within'
  BY <1>1, <1>4, <1>8, KeptShrinks
<1> QED BY <1>8, <1>11, <1>12, <1>13, <1>14 DEF LoginsInv

LEMMA RestartServerKeeps == ASSUME LoginsInv, RestartServer PROVE LoginsInv'
<1>1. LoginsTypeOK /\ Within
  BY DEF LoginsInv
<1>2. /\ UNCHANGED <<started, posted, told>> /\ restarts' \in 0..MaxRestarts
      /\ attempts' = [g \in Logins |-> NoAttempt]
  BY <1>1, ProviderLoginAssumption DEF RestartServer, LoginsTypeOK
<1>3. ASSUME NEW v \in Visits
      PROVE  /\ visit'[v].login = visit[v].login /\ visit'[v].task = "none"
             /\ visit'[v].popup = "ok" => visit[v].popup = "ok"
             /\ visit'[v] \in [login : Logins \cup {"none"}, popup : {"none", "waiting", "ok", "failed", "closed"},
                               task : {"none", "token", "create", "ok", "err"}]
  BY <1>1 DEF RestartServer, LoginsTypeOK
<1>4. LoginsTypeOK'
  <2>1. visit' = [v \in Visits |-> visit'[v]]
    BY DEF RestartServer
  <2>2. visit' \in [Visits -> [login : Logins \cup {"none"}, popup : {"none", "waiting", "ok", "failed", "closed"},
                               task : {"none", "token", "create", "ok", "err"}]]
    BY <1>3, <2>1
  <2> QED BY <1>1, <1>2, <2>2 DEF LoginsTypeOK
<1>5. ASSUME NEW v \in Visits PROVE VisitOK(v)'
  <2>1. VisitOK(v)
    BY DEF LoginsInv
  <2> QED BY <1>2, <1>3, <2>1 DEF VisitOK, Fresh
<1>6. ASSUME NEW g \in Logins PROVE AttemptOK(g)'
  <2>1. AttemptOK(g) /\ attempts'[g] = NoAttempt
    BY <1>2 DEF LoginsInv
  <2> QED BY <1>2, <1>3, <2>1, NoAttemptFacts DEF AttemptOK, Fresh
<1>7. OneExchange'
  BY <1>2, <1>3 DEF LoginsInv, OneExchange, Fresh
<1>8. Within'
  BY <1>1, <1>2, KeptShrinks
<1> QED BY <1>4, <1>5, <1>6, <1>7, <1>8 DEF LoginsInv

LEMMA LoginsStepKeeps == LoginsInv /\ [LoginsNext]_loginVars => LoginsInv'
<1> SUFFICES ASSUME LoginsInv, [LoginsNext]_loginVars PROVE LoginsInv'
  OBVIOUS
<1>1. CASE UNCHANGED loginVars
  <2>1. \A v \in Visits : VisitOK(v)'
    BY <1>1 DEF loginVars, LoginsInv, VisitOK, Fresh
  <2>2. \A g \in Logins : AttemptOK(g)'
    BY <1>1 DEF loginVars, LoginsInv, AttemptOK, Fresh
  <2>3. LoginsTypeOK' /\ OneExchange' /\ Within'
    BY <1>1 DEF loginVars, LoginsInv, LoginsTypeOK, OneExchange, Fresh, Within, Kept
  <2> QED BY <2>1, <2>2, <2>3 DEF LoginsInv
<1>2. CASE LoginsNext
  BY <1>2, StartLoginKeeps, PollLoginKeeps, CancelLoginKeeps, ExpireLoginKeeps, CompleteLoginKeeps, ExchangeTokensKeeps,
     CreateAnsweredKeeps, GatewayCreatesKeeps, StoreLoginKeeps, ClosePopupKeeps, RestartServerKeeps DEF LoginsNext
<1> QED BY <1>1, <1>2

LEMMA LoginsInvTruthful == LoginsInv => SignInsAreTruthful
<1> SUFFICES ASSUME LoginsInv PROVE SignInsAreTruthful
  OBVIOUS
<1>1. ASSUME NEW g \in Logins PROVE Cardinality({v \in Of(g) : posted[v] # "no"}) <= 1
  <2> DEFINE S == {v \in Of(g) : posted[v] # "no"}
  <2>1. CASE S = {}
    BY <2>1, FS_EmptySet
  <2>2. CASE S # {}
    <3>1. PICK v : v \in S
      BY <2>2
    <3>2. S = {v}
      BY <3>1 DEF LoginsInv, OneExchange, Fresh, Of
    <3>3. Cardinality(S) = Cardinality({v}) /\ Cardinality({v}) = 1
      BY <3>2, FS_Singleton
    <3> HIDE DEF S
    <3>4. Cardinality(S) <= 1
      BY <3>3
    <3> QED BY <3>4 DEF S
  <2> QED BY <2>1, <2>2
<1>2. OneAccountPerLogin
  BY <1>1 DEF OneAccountPerLogin
<1>3. LoginsAreTruthful
  <2>1. ASSUME NEW g \in Logins, NEW v \in Visits, visit[v].login = g, "cancelled" \in told[g]
        PROVE  visit[v].task = "none"
    BY <2>1, NoAttemptFacts DEF LoginsInv, AttemptOK, VisitOK
  <2>2. \A g \in Logins : "withdrawn" \in told[g] => \A v \in Of(g) : posted[v] = "no"
    BY DEF LoginsInv, AttemptOK, Of, Fresh
  <2>3. \A g \in Logins : "succeeded" \in told[g] => \E v \in Of(g) : posted[v] = "created"
    BY DEF LoginsInv, AttemptOK, Of
  <2>4. \A v \in Visits : visit[v].popup = "ok" => posted[v] = "created"
    BY DEF LoginsInv, VisitOK
  <2> QED BY <2>1, <2>2, <2>3, <2>4 DEF LoginsAreTruthful, Of
<1>4. NoneIsStranded
  BY DEF LoginsInv, NoneIsStranded, AttemptOK, VisitOK, Of, Within
<1> QED BY <1>2, <1>3, <1>4 DEF SignInsAreTruthful

\* For every number of attempts, visits and restarts: a sign-in creates one account at the
\* most and none after it was cancelled while pending, nothing works on one that was reported
\* cancelled, it reports a success only of an account that
\* exists, and an attempt is exchanging exactly while a task works on it (login.rs).
THEOREM SignInsStayTruthful == LoginsSpec => []SignInsAreTruthful
<1>1. LoginsInv => SignInsAreTruthful
  BY LoginsInvTruthful
<1> QED BY <1>1, LoginsInitially, LoginsStepKeeps, PTL DEF LoginsSpec

\* Attempts, visits and requests keep their types (login.rs).
THEOREM LoginsTypesCorrect == LoginsSpec => []LoginsTypeOK
<1>1. LoginsInv => LoginsTypeOK
  BY DEF LoginsInv
<1> QED BY <1>1, LoginsInitially, LoginsStepKeeps, PTL DEF LoginsSpec
=============================================================================
