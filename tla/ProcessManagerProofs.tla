------------------------ MODULE ProcessManagerProofs ------------------------
(***************************************************************************)
(* Theorems about ProcessManager, for every set of executions, requests    *)
(* and callers and every limit: the slots are accounted for, and the       *)
(* manager implements ProcessContract.                                     *)
(***************************************************************************)
EXTENDS ProcessManager, FiniteSetTheorems, TLAPS

USE RequestsAssumption, SetsAssumption, LimitsAssumption

-----------------------------------------------------------------------------
(* The inductive invariant. *)

StartSteps == {"session", "retired", "limit", "spawn", "install", "mark"}
TermSteps == {"check", "signal", "grace", "record"}

\* The execution a caller starts, and the one it terminates or writes to.
StartedBy(c) == job[c].start.exec
OnWhat(c) == job[c].exec

Installs(c, e) == pc[c] = "install" /\ StartedBy(c) = e
Known(e) == session[e] # NoRequest \/ e \in retired

\* A caller holds the lock its step needs, and works on a process that was spawned.
Locks ==
    \A c \in Callers :
        /\ pc[c] \in StartSteps <=> gate = c
        /\ pc[c] \in StartSteps => job[c].start \in Requests /\ OnWhat(c) = Nobody
        /\ pc[c] = "idle" => OnWhat(c) = Nobody
        /\ pc[c] \in TermSteps =>
             /\ OnWhat(c) \in Execs /\ job[c].id \in TermOps
             /\ control[OnWhat(c)] = c
             /\ records[OnWhat(c)][job[c].id] = "none"
             /\ child[OnWhat(c)] # "none"
        /\ pc[c] = "write" =>
             /\ OnWhat(c) \in Execs /\ job[c].id \in Writes
             /\ inputLock[OnWhat(c)] = c
             /\ job[c].id \notin accepted[OnWhat(c)]
             /\ child[OnWhat(c)] # "none"

\* What a start has found out still holds at its next step.
Starts ==
    \A c \in Callers :
        /\ pc[c] \in {"retired", "limit", "spawn", "install"} => session[StartedBy(c)] = NoRequest
        /\ pc[c] \in {"limit", "spawn", "install", "mark"} => StartedBy(c) \notin retired
        /\ pc[c] \in {"spawn", "install"} => active < MaxConcurrent
        /\ pc[c] \in {"install", "mark"} => child[StartedBy(c)] # "none" /\ waiter[StartedBy(c)] = "none"
        /\ pc[c] = "mark" => session[StartedBy(c)] # NoRequest

\* So has a terminate, when it comes to record its result.
Answers ==
    \A c \in Callers :
        /\ pc[c] \in {"signal", "grace"} => job[c].was
        /\ pc[c] = "grace" => completion[OnWhat(c)] # "normal"
        /\ pc[c] = "record" /\ job[c].was =>
             completion[OnWhat(c)] # "normal" /\ (Terminal(OnWhat(c)) \/ OnWhat(c) \in doomed)
        /\ pc[c] = "record" /\ ~job[c].was => Terminal(OnWhat(c))

\* A process belongs to a session, to a retired id or to a start that is about to
\* install it; its tasks follow its life, and the cleanup takes only what is complete.
Lives ==
    /\ \A e \in Execs :
        /\ child[e] # "none" => Known(e) \/ \E c \in Callers : Installs(c, e)
        /\ Known(e) => child[e] # "none"
        /\ waiter[e] = "none" <=> state[e] = "starting"
        /\ waiter[e] = "wait" => state[e] = "running"
        /\ waiter[e] # "none" => child[e] # "none"
        /\ waiter[e] \in {"drain", "done"} => child[e] = "gone"
        /\ alarm[e] # "none" => waiter[e] # "none"
        /\ closed[e] => waiter[e] = "done"
        /\ e \in retired => closed[e]
        /\ e \in toKill => child[e] # "none"
    /\ sweep # Nobody => sweep \in retired

\* The sessions that occupy a slot are counted, and there are no more than allowed.
Slots == {e \in Execs : session[e] # NoRequest /\ waiter[e] # "done"}
Counted == IsFiniteSet(Slots) /\ active = Cardinality(Slots) /\ active <= MaxConcurrent

Inv == TypeOK /\ Locks /\ Starts /\ Answers /\ Lives /\ Counted

-----------------------------------------------------------------------------
(* Every step keeps it. *)

\* A step that changes no session, no completion task and no count keeps the count.
LEMMA CountKept ==
    ASSUME Counted, UNCHANGED <<session, waiter, active>>
    PROVE  Counted'
  BY DEF Counted, Slots

\* The bound of the faults is kept.
LEMMA FaultBound ==
    ASSUME faults \in 0..MaxFaults, Fault \/ UNCHANGED faults
    PROVE  faults' \in 0..MaxFaults
  BY DEF Fault

\* What a terminate request finds out about the process.
LEMMA TermCheckJob ==
    ASSUME NEW c \in Callers, TermCheck(c)
    PROVE  \/ Terminal(OnWhat(c)) /\ job' = [job EXCEPT ![c].was = FALSE]
           \/ ~Terminal(OnWhat(c)) /\ job' = [job EXCEPT ![c].was = TRUE]
  <1>1. CASE Terminal(OnWhat(c))
    <2>1. (~Terminal(job[c].exec)) = FALSE
      BY <1>1 DEF OnWhat
    <2>2. job' = [job EXCEPT ![c].was = FALSE]
      BY <2>1, Zenon DEF TermCheck
    <2> QED BY <1>1, <2>2
  <1>2. CASE ~Terminal(OnWhat(c))
    <2>1. (~Terminal(job[c].exec)) = TRUE
      BY <1>2 DEF OnWhat
    <2>2. job' = [job EXCEPT ![c].was = TRUE]
      BY <2>1, Zenon DEF TermCheck
    <2> QED BY <1>2, <2>2
  <1> QED BY <1>1, <1>2

\* A session that leaves its slot is one less, and there was one.
LEMMA CountLess ==
    ASSUME Counted, NEW e \in Slots, Slots' = Slots \ {e}, active' = active - 1
    PROVE  Counted' /\ active' \in Nat
  <1>1. IsFiniteSet(Slots') /\ Cardinality(Slots') = Cardinality(Slots) - 1
    BY FS_RemoveElement DEF Counted
  <1>2. Cardinality(Slots') \in Nat /\ Cardinality(Slots) \in Nat
    BY <1>1, FS_CardinalityType DEF Counted
  <1> QED BY <1>1, <1>2 DEF Counted

\* A session of which the output is drained occupies a slot.
LEMMA DrainingHasSlot ==
    ASSUME Inv, NEW e \in Execs, waiter[e] = "drain"
    PROVE  e \in Slots
  <1> USE DEF Inv
  <1>1. child[e] = "gone" /\ e \notin retired
    BY DEF Lives
  <1>2. ~\E c \in Callers : Installs(c, e)
    BY DEF Starts, Installs
  <1> QED BY <1>1, <1>2 DEF Lives, Known, Slots

\* The initial state.
LEMMA InitInv == Init => Inv
  <1> SUFFICES ASSUME Init PROVE Inv
    OBVIOUS
  <1>1. TypeOK
    BY DEF Init, TypeOK, NoJob, States
  <1>2. Slots = {}
    BY DEF Init, Slots
  <1>3. Counted
    BY <1>2, FS_EmptySet DEF Init, Counted
  <1>4. Locks /\ Starts /\ Answers
    BY DEF Init, Locks, Starts, Answers, OnWhat, NoJob, StartSteps, TermSteps
  <1>5. Lives
    BY DEF Init, Lives, Known
  <1> QED BY <1>1, <1>3, <1>4, <1>5 DEF Inv

\* A request enters the gate.
LEMMA EnterInv ==
    ASSUME Inv, NEW c \in Callers, NEW q \in Requests, Enter(c, q)
    PROVE  Inv'
  <1> USE DEF Inv
  <1>1. TypeOK'
    BY DEF TypeOK, NoJob, States, Terminal, Enter, manager, process, tasks, requests,
           callers, rest
  <1>2. Locks'
    BY DEF TypeOK, Locks, OnWhat, StartSteps, TermSteps, NoJob, Enter, manager, process,
           tasks, requests, callers, rest
  <1>3. Starts'
    BY DEF TypeOK, Locks, Starts, Lives, StartedBy, StartSteps, NoJob, Enter, manager,
           process, tasks, requests, callers, rest
  <1>4. Answers'
    BY DEF TypeOK, Locks, Answers, OnWhat, TermSteps, NoJob, Terminal, Enter, manager,
           process, tasks, requests, callers, rest
  <1>5. Lives'
    BY DEF TypeOK, Locks, Starts, Lives, Installs, StartedBy, Known, StartSteps, NoJob,
           Terminal, Enter, manager, process, tasks, requests, callers, rest
  <1>6. Counted'
    <2>1. UNCHANGED <<session, waiter, active>>
      BY DEF Enter, manager, process,
           tasks, requests, callers, rest
    <2> QED BY <2>1, CountKept
  <1> QED BY <1>1, <1>2, <1>3, <1>4, <1>5, <1>6

\* A refused start (manager.rs start, an early return) leaves nothing behind.
LEMMA RefuseInv ==
    ASSUME Inv, NEW c \in Callers, pc[c] \in {"session", "retired", "limit", "spawn"}, Refuse(c)
    PROVE  Inv'
  <1> USE DEF Inv
  <1>1. TypeOK'
    BY DEF TypeOK, NoJob, States, Terminal, Refuse, Leave, manager, process, tasks,
           requests, callers, rest
  <1>2. Locks'
    BY DEF TypeOK, Locks, OnWhat, StartSteps, TermSteps, NoJob, Refuse, Leave, manager,
           process, tasks, requests, callers, rest
  <1>3. Starts'
    BY DEF TypeOK, Locks, Starts, Lives, StartedBy, StartSteps, NoJob, Refuse, Leave,
           manager, process, tasks, requests, callers, rest
  <1>4. Answers'
    BY DEF TypeOK, Locks, Answers, OnWhat, TermSteps, NoJob, Terminal, Refuse, Leave,
           manager, process, tasks, requests, callers, rest
  <1>5. Lives'
    BY DEF TypeOK, Locks, Starts, Lives, Installs, StartedBy, Known, StartSteps, NoJob,
           Terminal, Refuse, Leave, manager, process, tasks, requests, callers, rest
  <1>6. Counted'
    <2>1. UNCHANGED <<session, waiter, active>>
      BY DEF Refuse, Leave, manager,
           process, tasks, requests, callers, rest
    <2> QED BY <2>1, CountKept
  <1> QED BY <1>1, <1>2, <1>3, <1>4, <1>5, <1>6

\* A known execution is not started again.
LEMMA CheckSessionInv ==
    ASSUME Inv, NEW c \in Callers, CheckSession(c)
    PROVE  Inv'
  <1>1. CASE Refuse(c)
    BY <1>1, RefuseInv DEF CheckSession
  <1>2. CASE session[StartedBy(c)] = NoRequest /\ Proceed(c, "retired")
    <2> USE <1>2 DEF Inv, CheckSession, Proceed, Goto
    <2>1. TypeOK'
      BY DEF TypeOK, manager, process, tasks, requests, callers, rest
    <2>2. Locks'
      BY DEF TypeOK, Locks, OnWhat, StartSteps, TermSteps, manager, process, requests
    <2>3. Starts'
      BY DEF TypeOK, Starts, StartedBy, manager, process, tasks
    <2>4. Answers'
      BY DEF TypeOK, Answers, OnWhat, Terminal, process
    <2>5. Lives'
      BY DEF TypeOK, Lives, Known, Installs, StartedBy, manager, process, tasks, rest
    <2>6. Counted'
      BY CountKept DEF manager, tasks
    <2> QED BY <2>1, <2>2, <2>3, <2>4, <2>5, <2>6
  <1> QED BY <1>1, <1>2 DEF CheckSession, StartedBy

\* Nor is a retired one.
LEMMA CheckRetiredInv ==
    ASSUME Inv, NEW c \in Callers, CheckRetired(c)
    PROVE  Inv'
  <1>1. CASE Refuse(c)
    BY <1>1, RefuseInv DEF CheckRetired
  <1>2. CASE StartedBy(c) \notin retired /\ Proceed(c, "limit")
    <2> USE <1>2 DEF Inv, CheckRetired, Proceed, Goto
    <2>1. TypeOK'
      BY DEF TypeOK, manager, process, tasks, requests, callers, rest
    <2>2. Locks'
      BY DEF TypeOK, Locks, OnWhat, StartSteps, TermSteps, manager, process, requests
    <2>3. Starts'
      BY DEF TypeOK, Starts, StartedBy, manager, process, tasks
    <2>4. Answers'
      BY DEF TypeOK, Answers, OnWhat, Terminal, process
    <2>5. Lives'
      BY DEF TypeOK, Lives, Known, Installs, StartedBy, manager, process, tasks, rest
    <2>6. Counted'
      BY CountKept DEF manager, tasks
    <2> QED BY <2>1, <2>2, <2>3, <2>4, <2>5, <2>6
  <1> QED BY <1>1, <1>2 DEF CheckRetired, StartedBy

\* A full host starts nothing.
LEMMA CheckLimitInv ==
    ASSUME Inv, NEW c \in Callers, CheckLimit(c)
    PROVE  Inv'
  <1>1. CASE Refuse(c)
    BY <1>1, RefuseInv DEF CheckLimit
  <1>2. CASE active < MaxConcurrent /\ Proceed(c, "spawn")
    <2> USE <1>2 DEF Inv, CheckLimit, Proceed, Goto
    <2>1. TypeOK'
      BY DEF TypeOK, manager, process, tasks, requests, callers, rest
    <2>2. Locks'
      BY DEF TypeOK, Locks, OnWhat, StartSteps, TermSteps, manager, process, requests
    <2>3. Starts'
      BY DEF TypeOK, Starts, StartedBy, manager, process, tasks
    <2>4. Answers'
      BY DEF TypeOK, Answers, OnWhat, Terminal, process
    <2>5. Lives'
      BY DEF TypeOK, Lives, Known, Installs, StartedBy, manager, process, tasks, rest
    <2>6. Counted'
      BY CountKept DEF manager, tasks
    <2> QED BY <2>1, <2>2, <2>3, <2>4, <2>5, <2>6
  <1>3. active \in Nat
    BY DEF Inv, TypeOK
  <1> QED BY <1>1, <1>2, <1>3 DEF CheckLimit

\* The process of a start that found no session and no retired id is the first one.
LEMMA SpawnInv ==
    ASSUME Inv, NEW c \in Callers, Spawn(c)
    PROVE  Inv'
  <1> DEFINE e == StartedBy(c)
  <1>1. CASE Refuse(c)
    BY <1>1, RefuseInv DEF Spawn
  <1>2. CASE /\ child' = [child EXCEPT ![e] = "running"] /\ Goto(c, "install")
             /\ UNCHANGED <<manager, state, closed, completion, doomed, tasks, requests, rest>>
    <2> USE <1>2 DEF Inv, Spawn, Goto, StartedBy
    <2>1. e \in Execs
      BY DEF Locks, StartSteps
    <2>2. TypeOK'
      BY <2>1 DEF TypeOK, manager, tasks, requests, rest
    <2>3. Locks'
      BY <2>1 DEF TypeOK, Locks, OnWhat, StartSteps, TermSteps, manager, requests
    <2>4. waiter[e] = "none"
      BY <2>1 DEF TypeOK, Locks, Starts, Lives, Known, Installs, StartSteps
    <2>5. Starts'
      BY <2>1, <2>4 DEF TypeOK, Locks, Starts, StartSteps, manager, tasks
    <2>6. Answers'
      BY DEF TypeOK, Answers, OnWhat, Terminal
    <2>7. Lives'
      BY <2>1, <2>4 DEF TypeOK, Lives, Known, Installs, manager, tasks, rest
    <2>8. Counted'
      BY CountKept DEF manager, tasks
    <2> QED BY <2>2, <2>3, <2>5, <2>6, <2>7, <2>8
  <1> QED BY <1>1, <1>2 DEF Spawn, StartedBy

\* Installing a session takes a slot.
LEMMA InstallInv ==
    ASSUME Inv, NEW c \in Callers, Install(c)
    PROVE  Inv'
  <1> USE DEF Inv
  <1>1. TypeOK'
    <2>1. job[c].start \in Requests /\ job[c].start.exec \in Execs
      BY DEF Install, Locks, StartSteps
    <2>2. session' \in [Execs -> Requests \union {NoRequest}] /\ active' \in Nat
      BY <2>1 DEF TypeOK, Install
    <2> QED BY <2>2 DEF TypeOK, Install, Goto, process, tasks, requests, rest
  <1>2. Locks'
    BY DEF TypeOK, Locks, OnWhat, StartSteps, TermSteps, NoJob, Install, Goto, manager,
           process, tasks, requests, callers, rest
  <1>3. Starts'
    BY DEF TypeOK, Locks, Starts, Lives, StartedBy, StartSteps, NoJob, Install, Goto,
           manager, process, tasks, requests, callers, rest
  <1>4. Answers'
    BY DEF TypeOK, Locks, Answers, OnWhat, TermSteps, NoJob, Terminal, Install, Goto,
           manager, process, tasks, requests, callers, rest
  <1>5. Lives'
    BY DEF TypeOK, Locks, Starts, Lives, Installs, StartedBy, Known, StartSteps, NoJob,
           Terminal, Install, Goto, manager, process, tasks, requests, callers, rest
  <1>6. Counted'
    <2> DEFINE e == StartedBy(c)
    <2>1. e \in Execs /\ session[e] = NoRequest /\ waiter[e] # "done"
      BY DEF Install, Locks, Starts, StartSteps, StartedBy
    <2>2. session'[e] # NoRequest /\ \A x \in Execs \ {e} : session'[x] = session[x]
      BY <2>1 DEF Install, Locks, StartSteps, TypeOK, StartedBy
    <2>3. e \notin Slots /\ Slots' = Slots \union {e}
      BY <2>1, <2>2 DEF Slots, Install, tasks
    <2>4. IsFiniteSet(Slots') /\ Cardinality(Slots') = Cardinality(Slots) + 1
      BY <2>3, FS_AddElement DEF Counted
    <2>5. active' = active + 1 /\ active < MaxConcurrent /\ active \in Nat
      BY DEF Install, Starts, TypeOK
    <2> QED BY <2>4, <2>5 DEF Counted
  <1> QED BY <1>1, <1>2, <1>3, <1>4, <1>5, <1>6

\* The tasks of a session begin together with its journal.
LEMMA MarkStartedInv ==
    ASSUME Inv, NEW c \in Callers, MarkStarted(c)
    PROVE  Inv'
  <1> USE DEF Inv
  <1>1. TypeOK'
    BY DEF TypeOK, NoJob, States, Terminal, MarkStarted, Leave, manager, process, tasks,
           requests, callers, rest
  <1>2. Locks'
    BY DEF TypeOK, Locks, OnWhat, StartSteps, TermSteps, NoJob, MarkStarted, Leave,
           manager, process, tasks, requests, callers, rest
  <1>3. Starts'
    BY DEF TypeOK, Locks, Starts, Lives, StartedBy, StartSteps, NoJob, MarkStarted, Leave,
           manager, process, tasks, requests, callers, rest
  <1>4. Answers'
    <2>1. \A x \in Execs : Terminal(x) => Terminal(x)'
      BY DEF MarkStarted, TypeOK, Locks, Starts, Lives, StartedBy, StartSteps, Terminal
    <2>2. UNCHANGED <<completion, doomed>>
      BY DEF MarkStarted
    <2>3. \A x \in Callers : x # c => pc'[x] = pc[x] /\ job'[x] = job[x]
      BY DEF MarkStarted, Leave, TypeOK
    <2>4. pc'[c] = "idle"
      BY DEF MarkStarted, Leave, TypeOK
    <2> QED BY <2>1, <2>2, <2>3, <2>4 DEF Answers, Locks, OnWhat, TermSteps
  <1>5. Lives'
    BY DEF TypeOK, Locks, Starts, Lives, Installs, StartedBy, Known, StartSteps, NoJob,
           Terminal, MarkStarted, Leave, manager, process, tasks, requests, callers, rest
  <1>6. Counted'
    <2>1. Slots' = Slots /\ active' = active
      BY DEF MarkStarted, Slots, TypeOK, Locks, Starts, StartedBy, StartSteps
    <2> QED BY <2>1 DEF Counted
  <1> QED BY <1>1, <1>2, <1>3, <1>4, <1>5, <1>6

\* A start taken back gives its slot back, and no request is left working on it.
LEMMA WithdrawInv ==
    ASSUME Inv, NEW c \in Callers, Withdraw(c)
    PROVE  Inv'
  <1> USE DEF Inv
  <1>1. TypeOK'
    <2> DEFINE e == StartedBy(c)
    <2>1. e \in Slots /\ Slots' = Slots \ {e} /\ active' = active - 1
      BY DEF Withdraw, Slots, TypeOK, Locks, Starts, StartedBy, StartSteps, tasks
    <2>2. active' \in Nat
      BY <2>1, CountLess
    <2>3. /\ session' \in [Execs -> Requests \union {NoRequest}] /\ gate' \in Callers \union {Nobody}
          /\ child' \in [Execs -> {"none", "running", "gone"}] /\ doomed' \subseteq Execs
          /\ completion' \in [Execs -> {"normal", "terminated", "timed_out"}]
          /\ toKill' \subseteq Execs
      BY DEF Withdraw, TypeOK
    <2>6. faults' \in 0..MaxFaults
      BY FaultBound DEF Withdraw, TypeOK
    <2>4. /\ control' \in [Execs -> Callers \union {Nobody}] /\ inputLock' \in [Execs -> Callers \union {Nobody}]
          /\ records' \in [Execs -> [TermOps -> {"none", "was_running", "was_not"}]]
          /\ accepted' \in [Execs -> SUBSET Writes] /\ delivered' \in [Execs -> [Writes -> Nat]]
      BY DEF Withdraw, TypeOK
    <2>5. /\ pc' \in [Callers -> {"idle", "session", "retired", "limit", "spawn", "install", "mark",
                           "check", "signal", "grace", "record", "write"}]
          /\ job' \in [Callers -> [start : Requests \union {NoRequest}, exec : Execs \union {Nobody},
                            id : TermOps \union Writes \union {Nobody}, was : BOOLEAN]]
      BY DEF Withdraw, TypeOK, NoJob
    <2> QED BY <2>2, <2>3, <2>4, <2>5, <2>6 DEF TypeOK, Withdraw, tasks
  <1>2. Locks'
    BY DEF TypeOK, Locks, OnWhat, StartSteps, TermSteps, NoJob, Withdraw, Fault, manager,
           process, tasks, requests, callers, rest
  <1>3. Starts'
    BY DEF TypeOK, Locks, Starts, Lives, StartedBy, StartSteps, NoJob, Withdraw, Fault,
           manager, process, tasks, requests, callers, rest
  <1>4. Answers'
    BY DEF TypeOK, Locks, Answers, OnWhat, TermSteps, NoJob, Terminal, Withdraw, Fault,
           manager, process, tasks, requests, callers, rest
  <1>5. Lives'
    BY DEF TypeOK, Locks, Starts, Lives, Installs, StartedBy, Known, StartSteps, NoJob,
           Terminal, Withdraw, Fault, manager, process, tasks, requests, callers, rest
  <1>6. Counted'
    <2> DEFINE e == StartedBy(c)
    <2>1. e \in Slots /\ Slots' = Slots \ {e} /\ active' = active - 1
      BY DEF Withdraw, Slots, TypeOK, Locks, Starts, StartedBy, StartSteps, tasks
    <2> QED BY <2>1, CountLess
  <1> QED BY <1>1, <1>2, <1>3, <1>4, <1>5, <1>6

\* A process ends.
LEMMA ChildExitsInv ==
    ASSUME Inv, NEW e \in Execs, ChildExits(e)
    PROVE  Inv'
  <1> USE DEF Inv
  <1>1. TypeOK'
    BY DEF TypeOK, NoJob, States, Terminal, ChildExits, manager, process, tasks, requests,
           callers, rest
  <1>2. Locks'
    BY DEF TypeOK, Locks, OnWhat, StartSteps, TermSteps, NoJob, ChildExits, manager,
           process, tasks, requests, callers, rest
  <1>3. Starts'
    BY DEF TypeOK, Locks, Starts, Lives, StartedBy, StartSteps, NoJob, ChildExits,
           manager, process, tasks, requests, callers, rest
  <1>4. Answers'
    BY DEF TypeOK, Locks, Answers, OnWhat, TermSteps, NoJob, Terminal, ChildExits,
           manager, process, tasks, requests, callers, rest
  <1>5. Lives'
    BY DEF TypeOK, Locks, Starts, Lives, Installs, StartedBy, Known, StartSteps, NoJob,
           Terminal, ChildExits, manager, process, tasks, requests, callers, rest
  <1>6. Counted'
    <2>1. UNCHANGED <<session, waiter, active>>
      BY DEF ChildExits, manager, process,
           tasks, requests, callers, rest
    <2> QED BY <2>1, CountKept
  <1> QED BY <1>1, <1>2, <1>3, <1>4, <1>5, <1>6

\* Its output ends.
LEMMA ReaderInv ==
    ASSUME Inv, NEW e \in Execs, ReaderEnds(e) \/ ReaderStops(e)
    PROVE  Inv'
  <1> USE DEF Inv
  <1>1. TypeOK'
    <2>1. \E s \in {"ended", "failed"} : reader' = [reader EXCEPT ![e] = s]
      BY DEF ReaderEnds, ReaderStops
    <2>2. faults' \in 0..MaxFaults
      BY FaultBound DEF TypeOK, ReaderEnds, ReaderStops, rest
    <2> QED BY <2>1, <2>2 DEF TypeOK, ReaderEnds, ReaderStops, manager, process, requests, callers, rest
  <1>2. Locks'
    BY DEF TypeOK, Locks, OnWhat, StartSteps, TermSteps, NoJob, ReaderEnds, ReaderStops,
           Fault, manager, process, tasks, requests, callers, rest
  <1>3. Starts'
    BY DEF TypeOK, Locks, Starts, Lives, StartedBy, StartSteps, NoJob, ReaderEnds,
           ReaderStops, Fault, manager, process, tasks, requests, callers, rest
  <1>4. Answers'
    BY DEF TypeOK, Locks, Answers, OnWhat, TermSteps, NoJob, Terminal, ReaderEnds,
           ReaderStops, Fault, manager, process, tasks, requests, callers, rest
  <1>5. Lives'
    BY DEF TypeOK, Locks, Starts, Lives, Installs, StartedBy, Known, StartSteps, NoJob,
           Terminal, ReaderEnds, ReaderStops, Fault, manager, process, tasks, requests,
           callers, rest
  <1>6. Counted'
    <2>1. UNCHANGED <<session, waiter, active>>
      BY DEF ReaderEnds, ReaderStops,
           Fault, manager, process, tasks, requests, callers, rest
    <2> QED BY <2>1, CountKept
  <1> QED BY <1>1, <1>2, <1>3, <1>4, <1>5, <1>6

\* The completion task sees the exit.
LEMMA ReapInv ==
    ASSUME Inv, NEW e \in Execs, Reap(e)
    PROVE  Inv'
  <1> USE DEF Inv
  <1>1. TypeOK'
    BY DEF TypeOK, NoJob, States, Terminal, Reap, MarkExited, Outcome, manager, process,
           tasks, requests, callers, rest
  <1>2. Locks'
    BY DEF TypeOK, Locks, OnWhat, StartSteps, TermSteps, NoJob, Reap, MarkExited, Outcome,
           manager, process, tasks, requests, callers, rest
  <1>3. Starts'
    BY DEF TypeOK, Locks, Starts, Lives, StartedBy, StartSteps, NoJob, Reap, MarkExited,
           Outcome, manager, process, tasks, requests, callers, rest
  <1>4. Answers'
    BY DEF TypeOK, Locks, Answers, OnWhat, TermSteps, NoJob, Terminal, Reap, MarkExited,
           Outcome, manager, process, tasks, requests, callers, rest
  <1>5. Lives'
    BY DEF TypeOK, Locks, Starts, Lives, Installs, StartedBy, Known, StartSteps, NoJob,
           Terminal, Reap, MarkExited, Outcome, manager, process, tasks, requests,
           callers, rest
  <1>6. Counted'
    <2>1. Slots' = Slots /\ active' = active
      BY DEF Reap, Slots, TypeOK, manager
    <2> QED BY <2>1 DEF Counted
  <1> QED BY <1>1, <1>2, <1>3, <1>4, <1>5, <1>6

\* It stops the output.
LEMMA DrainElapsesInv ==
    ASSUME Inv, NEW e \in Execs, DrainElapses(e)
    PROVE  Inv'
  <1> USE DEF Inv
  <1>1. TypeOK'
    BY DEF TypeOK, NoJob, States, Terminal, DrainElapses, manager, process, tasks,
           requests, callers, rest
  <1>2. Locks'
    BY DEF TypeOK, Locks, OnWhat, StartSteps, TermSteps, NoJob, DrainElapses, manager,
           process, tasks, requests, callers, rest
  <1>3. Starts'
    BY DEF TypeOK, Locks, Starts, Lives, StartedBy, StartSteps, NoJob, DrainElapses,
           manager, process, tasks, requests, callers, rest
  <1>4. Answers'
    BY DEF TypeOK, Locks, Answers, OnWhat, TermSteps, NoJob, Terminal, DrainElapses,
           manager, process, tasks, requests, callers, rest
  <1>5. Lives'
    BY DEF TypeOK, Locks, Starts, Lives, Installs, StartedBy, Known, StartSteps, NoJob,
           Terminal, DrainElapses, manager, process, tasks, requests, callers, rest
  <1>6. Counted'
    <2>1. UNCHANGED <<session, waiter, active>>
      BY DEF DrainElapses, manager,
           process, tasks, requests, callers, rest
    <2> QED BY <2>1, CountKept
  <1> QED BY <1>1, <1>2, <1>3, <1>4, <1>5, <1>6

\* It completes the session and releases its slot.
LEMMA CompleteInv ==
    ASSUME Inv, NEW e \in Execs, Complete(e)
    PROVE  Inv'
  <1> USE DEF Inv
  <1>1. TypeOK'
    <2>1. active' \in Nat
      <3>1. e \in Slots /\ Slots' = Slots \ {e} /\ active' = active - 1
        BY DrainingHasSlot DEF Complete, Slots, TypeOK
      <3> QED BY <3>1, CountLess
    <2>2. state' \in [Execs -> States]
      <3>1. MarkExited(e) \in States
        BY DEF TypeOK, MarkExited, Outcome, States
      <3> QED BY <3>1 DEF TypeOK, Complete, States
    <2>3. closed' \in [Execs -> BOOLEAN]
      BY DEF TypeOK, Complete
    <2>5. faults' \in 0..MaxFaults
      BY FaultBound DEF TypeOK, Complete
    <2>4. waiter' \in [Execs -> {"none", "wait", "drain", "done"}]
      BY DEF TypeOK, Complete
    <2> QED BY <2>1, <2>2, <2>3, <2>4, <2>5 DEF TypeOK, Complete, requests, callers
  <1>2. Locks'
    BY DEF TypeOK, Locks, OnWhat, StartSteps, TermSteps, NoJob, Complete, MarkExited,
           Outcome, Fault, manager, process, tasks, requests, callers, rest
  <1>3. Starts'
    BY DEF TypeOK, Locks, Starts, Lives, StartedBy, StartSteps, NoJob, Complete,
           MarkExited, Outcome, Fault, manager, process, tasks, requests, callers, rest
  <1>4. Answers'
    <2>1. \A x \in Execs : Terminal(x) => Terminal(x)'
      BY DEF TypeOK, Complete, MarkExited, Outcome, Terminal
    <2>2. UNCHANGED <<completion, doomed, pc, job>>
      BY DEF Complete, callers
    <2> QED BY <2>1, <2>2 DEF Answers, Locks, OnWhat, TermSteps
  <1>5. Lives'
    BY DEF TypeOK, Locks, Starts, Lives, Installs, StartedBy, Known, StartSteps, NoJob,
           Terminal, Complete, MarkExited, Outcome, Fault, manager, process, tasks,
           requests, callers, rest
  <1>6. Counted'
    <2>1. e \in Slots /\ Slots' = Slots \ {e} /\ active' = active - 1
      BY DrainingHasSlot DEF Complete, Slots, TypeOK
    <2> QED BY <2>1, CountLess
  <1> QED BY <1>1, <1>2, <1>3, <1>4, <1>5, <1>6

\* The timeout task.
LEMMA TimeoutInv ==
    ASSUME Inv, NEW e \in Execs, Timeout(e)
    PROVE  Inv'
  <1> USE DEF Inv
  <1>1. TypeOK'
    <2>1. alarm' \in [Execs -> {"none", "sleeping", "fire", "grace", "done"}] /\ doomed' \subseteq Execs
      BY DEF TypeOK, Timeout, AlarmRings, AlarmFires, AlarmKills, Alarm, process
    <2>2. \/ completion' = completion
          \/ completion' = [completion EXCEPT ![e] = "timed_out"]
      BY DEF Timeout, AlarmRings, AlarmFires, AlarmKills, process
    <2>3. completion' \in [Execs -> {"normal", "terminated", "timed_out"}]
      BY <2>2 DEF TypeOK
    <2> QED BY <2>1, <2>3
            DEF TypeOK, Timeout, AlarmRings, AlarmFires, AlarmKills, manager, process, requests, callers, rest
  <1>2. Locks'
    BY DEF TypeOK, Locks, OnWhat, StartSteps, TermSteps, NoJob, Timeout, AlarmRings,
           AlarmFires, AlarmKills, Alarm, manager, process, tasks, requests, callers, rest
  <1>3. Starts'
    BY DEF TypeOK, Locks, Starts, Lives, StartedBy, StartSteps, NoJob, Timeout,
           AlarmRings, AlarmFires, AlarmKills, Alarm, manager, process, tasks, requests,
           callers, rest
  <1>4. Answers'
    BY DEF TypeOK, Locks, Answers, OnWhat, TermSteps, NoJob, Terminal, Timeout,
           AlarmRings, AlarmFires, AlarmKills, Alarm, manager, process, tasks, requests,
           callers, rest
  <1>5. Lives'
    BY DEF TypeOK, Locks, Starts, Lives, Installs, StartedBy, Known, StartSteps, NoJob,
           Terminal, Timeout, AlarmRings, AlarmFires, AlarmKills, Alarm, manager, process,
           tasks, requests, callers, rest
  <1>6. Counted'
    <2>1. UNCHANGED <<session, waiter, active>>
      BY DEF Timeout, AlarmRings,
           AlarmFires, AlarmKills, Alarm, manager, process, tasks, requests, callers, rest
    <2> QED BY <2>1, CountKept
  <1> QED BY <1>1, <1>2, <1>3, <1>4, <1>5, <1>6

\* A terminate request takes the lock of the session's control records.
LEMMA TerminateInv ==
    ASSUME Inv, NEW c \in Callers, NEW e \in Execs, NEW o \in TermOps, Terminate(c, e, o)
    PROVE  Inv'
  <1> USE DEF Inv
  <1>1. TypeOK'
    BY DEF TypeOK, NoJob, States, Terminal, Terminate, manager, process, tasks, requests,
           callers, rest
  <1>2. Locks'
    <2>1. child[e] # "none"
      BY DEF Lives, Known, Terminate
    <2> QED BY <2>1 DEF TypeOK, Locks, OnWhat, StartSteps, TermSteps, NoJob, Terminate, manager, process, tasks, requests, callers, rest
  <1>3. Starts'
    BY DEF TypeOK, Locks, Starts, Lives, StartedBy, StartSteps, NoJob, Terminate, manager,
           process, tasks, requests, callers, rest
  <1>4. Answers'
    BY DEF TypeOK, Locks, Answers, OnWhat, TermSteps, NoJob, Terminal, Terminate, manager,
           process, tasks, requests, callers, rest
  <1>5. Lives'
    BY DEF TypeOK, Locks, Starts, Lives, Installs, StartedBy, Known, StartSteps, NoJob,
           Terminal, Terminate, manager, process, tasks, requests, callers, rest
  <1>6. Counted'
    <2>1. UNCHANGED <<session, waiter, active>>
      BY DEF Terminate, manager, process,
           tasks, requests, callers, rest
    <2> QED BY <2>1, CountKept
  <1> QED BY <1>1, <1>2, <1>3, <1>4, <1>5, <1>6

\* It looks whether the process is running.
LEMMA TermCheckInv ==
    ASSUME Inv, NEW c \in Callers, TermCheck(c)
    PROVE  Inv'
  <1> USE DEF Inv
  <1>1. TypeOK'
    <2>1. job' \in [Callers -> [start : Requests \union {NoRequest}, exec : Execs \union {Nobody},
                            id : TermOps \union Writes \union {Nobody}, was : BOOLEAN]]
      <3>1. job \in [Callers -> [start : Requests \union {NoRequest}, exec : Execs \union {Nobody},
                            id : TermOps \union Writes \union {Nobody}, was : BOOLEAN]]
        BY DEF TypeOK
      <3>2. CASE job' = [job EXCEPT ![c].was = FALSE]
        BY <3>1, <3>2
      <3>3. CASE job' = [job EXCEPT ![c].was = TRUE]
        BY <3>1, <3>3
      <3> QED BY <3>2, <3>3, TermCheckJob
    <2>2. pc' \in [Callers -> {"idle", "session", "retired", "limit", "spawn", "install", "mark",
                           "check", "signal", "grace", "record", "write"}]
      BY DEF TypeOK, TermCheck
    <2> QED BY <2>1, <2>2 DEF TypeOK, TermCheck, manager, process, tasks, requests, rest
  <1>2. Locks'
    BY DEF TypeOK, Locks, OnWhat, StartSteps, TermSteps, NoJob, TermCheck, manager,
           process, tasks, requests, callers, rest
  <1>3. Starts'
    BY DEF TypeOK, Locks, Starts, Lives, StartedBy, StartSteps, NoJob, TermCheck, manager,
           process, tasks, requests, callers, rest
  <1>4. Answers'
    <2>1. \A x \in Callers : x # c => pc'[x] = pc[x] /\ job'[x] = job[x]
      BY DEF TermCheck, TypeOK
    <2>2. OnWhat(c)' = OnWhat(c)
      BY DEF TermCheck, TypeOK, OnWhat
    <2>3. UNCHANGED <<completion, doomed, state>>
      BY DEF TermCheck, process
    <2>4. CASE Terminal(OnWhat(c))
      <3>1. job' = [job EXCEPT ![c].was = FALSE]
        BY <2>4, TermCheckJob
      <3>2. job'[c].was = FALSE
        BY <3>1 DEF TypeOK
      <3>3. pc'[c] = "record"
        BY <2>4 DEF TermCheck, TypeOK, OnWhat
      <3> QED BY <2>1, <2>2, <2>3, <2>4, <3>2, <3>3 DEF Answers, OnWhat, Terminal
    <2>5. CASE ~Terminal(OnWhat(c))
      <3>1. job' = [job EXCEPT ![c].was = TRUE]
        BY <2>5, TermCheckJob
      <3>2. job'[c].was = TRUE
        BY <3>1 DEF TypeOK
      <3>3. pc'[c] = "signal"
        BY <2>5 DEF TermCheck, TypeOK, OnWhat
      <3> QED BY <2>1, <2>2, <2>3, <2>5, <3>2, <3>3 DEF Answers, OnWhat, Terminal
    <2> QED BY <2>4, <2>5
  <1>5. Lives'
    BY DEF TypeOK, Locks, Starts, Lives, Installs, StartedBy, Known, StartSteps, NoJob,
           Terminal, TermCheck, manager, process, tasks, requests, callers, rest
  <1>6. Counted'
    <2>1. UNCHANGED <<session, waiter, active>>
      BY DEF TermCheck, manager, process,
           tasks, requests, callers, rest
    <2> QED BY <2>1, CountKept
  <1> QED BY <1>1, <1>2, <1>3, <1>4, <1>5, <1>6

\* It marks the session as terminated.
LEMMA TermSignalInv ==
    ASSUME Inv, NEW c \in Callers, TermSignal(c)
    PROVE  Inv'
  <1> USE DEF Inv
  <1>1. TypeOK'
    BY DEF TypeOK, NoJob, States, Terminal, TermSignal, Goto, manager, process, tasks,
           requests, callers, rest
  <1>2. Locks'
    BY DEF TypeOK, Locks, OnWhat, StartSteps, TermSteps, NoJob, TermSignal, Goto, manager,
           process, tasks, requests, callers, rest
  <1>3. Starts'
    BY DEF TypeOK, Locks, Starts, Lives, StartedBy, StartSteps, NoJob, TermSignal, Goto,
           manager, process, tasks, requests, callers, rest
  <1>4. Answers'
    BY DEF TypeOK, Locks, Answers, OnWhat, TermSteps, NoJob, Terminal, TermSignal, Goto,
           manager, process, tasks, requests, callers, rest
  <1>5. Lives'
    BY DEF TypeOK, Locks, Starts, Lives, Installs, StartedBy, Known, StartSteps, NoJob,
           Terminal, TermSignal, Goto, manager, process, tasks, requests, callers, rest
  <1>6. Counted'
    <2>1. UNCHANGED <<session, waiter, active>>
      BY DEF TermSignal, Goto, manager,
           process, tasks, requests, callers, rest
    <2> QED BY <2>1, CountKept
  <1> QED BY <1>1, <1>2, <1>3, <1>4, <1>5, <1>6

\* It kills what did not end in time.
LEMMA TermGraceInv ==
    ASSUME Inv, NEW c \in Callers, TermGrace(c)
    PROVE  Inv'
  <1> USE DEF Inv
  <1>1. TypeOK'
    <2>1. OnWhat(c) \in Execs
      BY DEF TermGrace, Locks, TermSteps
    <2>2. doomed' \subseteq Execs /\ control' \in [Execs -> Callers \union {Nobody}]
      BY <2>1 DEF TypeOK, TermGrace, OnWhat
    <2>3. \/ pc' = [pc EXCEPT ![c] = "record"] /\ job' = job
          \/ pc' = [pc EXCEPT ![c] = "idle"] /\ job' = [job EXCEPT ![c] = NoJob]
      BY DEF TermGrace, Goto, Leave
    <2>4. pc' \in [Callers -> {"idle", "session", "retired", "limit", "spawn", "install", "mark",
                           "check", "signal", "grace", "record", "write"}]
      BY <2>3 DEF TypeOK
    <2>5. job' \in [Callers -> [start : Requests \union {NoRequest}, exec : Execs \union {Nobody},
                            id : TermOps \union Writes \union {Nobody}, was : BOOLEAN]]
      <3>1. NoJob \in [start : Requests \union {NoRequest}, exec : Execs \union {Nobody},
                      id : TermOps \union Writes \union {Nobody}, was : BOOLEAN]
        BY DEF NoJob
      <3>2. CASE job' = job
        BY <3>2 DEF TypeOK
      <3>3. CASE job' = [job EXCEPT ![c] = NoJob]
        BY <3>1, <3>3 DEF TypeOK
      <3> QED BY <2>3, <3>2, <3>3
    <2> QED BY <2>2, <2>4, <2>5 DEF TypeOK, TermGrace, manager, tasks, rest
  <1>2. Locks'
    BY DEF TypeOK, Locks, OnWhat, StartSteps, TermSteps, NoJob, TermGrace, Goto, Leave,
           manager, process, tasks, requests, callers, rest
  <1>3. Starts'
    BY DEF TypeOK, Locks, Starts, Lives, StartedBy, StartSteps, NoJob, TermGrace, Goto,
           Leave, manager, process, tasks, requests, callers, rest
  <1>4. Answers'
    BY DEF TypeOK, Locks, Answers, OnWhat, TermSteps, NoJob, Terminal, TermGrace, Goto,
           Leave, manager, process, tasks, requests, callers, rest
  <1>5. Lives'
    BY DEF TypeOK, Locks, Starts, Lives, Installs, StartedBy, Known, StartSteps, NoJob,
           Terminal, TermGrace, Goto, Leave, manager, process, tasks, requests, callers,
           rest
  <1>6. Counted'
    <2>1. UNCHANGED <<session, waiter, active>>
      BY DEF TermGrace, Goto, Leave,
           manager, process, tasks, requests, callers, rest
    <2> QED BY <2>1, CountKept
  <1> QED BY <1>1, <1>2, <1>3, <1>4, <1>5, <1>6

\* It records its result.
LEMMA TermRecordInv ==
    ASSUME Inv, NEW c \in Callers, TermRecord(c)
    PROVE  Inv'
  <1> USE DEF Inv
  <1>1. TypeOK'
    BY DEF TypeOK, NoJob, States, Terminal, TermRecord, Leave, manager, process, tasks,
           requests, callers, rest
  <1>2. Locks'
    BY DEF TypeOK, Locks, OnWhat, StartSteps, TermSteps, NoJob, TermRecord, Leave,
           manager, process, tasks, requests, callers, rest
  <1>3. Starts'
    BY DEF TypeOK, Locks, Starts, Lives, StartedBy, StartSteps, NoJob, TermRecord, Leave,
           manager, process, tasks, requests, callers, rest
  <1>4. Answers'
    BY DEF TypeOK, Locks, Answers, OnWhat, TermSteps, NoJob, Terminal, TermRecord, Leave,
           manager, process, tasks, requests, callers, rest
  <1>5. Lives'
    BY DEF TypeOK, Locks, Starts, Lives, Installs, StartedBy, Known, StartSteps, NoJob,
           Terminal, TermRecord, Leave, manager, process, tasks, requests, callers, rest
  <1>6. Counted'
    <2>1. UNCHANGED <<session, waiter, active>>
      BY DEF TermRecord, Leave, manager,
           process, tasks, requests, callers, rest
    <2> QED BY <2>1, CountKept
  <1> QED BY <1>1, <1>2, <1>3, <1>4, <1>5, <1>6

\* A client or the shutdown kills the process.
LEMMA KillInv ==
    ASSUME Inv, NEW e \in Execs, Signal(e) \/ ShutdownKill(e)
    PROVE  Inv'
  <1> USE DEF Inv
  <1>1. TypeOK'
    BY DEF TypeOK, NoJob, States, Terminal, Signal, ShutdownKill, manager, process, tasks,
           requests, callers, rest
  <1>2. Locks'
    BY DEF TypeOK, Locks, OnWhat, StartSteps, TermSteps, NoJob, Signal, ShutdownKill,
           manager, process, tasks, requests, callers, rest
  <1>3. Starts'
    BY DEF TypeOK, Locks, Starts, Lives, StartedBy, StartSteps, NoJob, Signal,
           ShutdownKill, manager, process, tasks, requests, callers, rest
  <1>4. Answers'
    BY DEF TypeOK, Locks, Answers, OnWhat, TermSteps, NoJob, Terminal, Signal,
           ShutdownKill, manager, process, tasks, requests, callers, rest
  <1>5. Lives'
    BY DEF TypeOK, Locks, Starts, Lives, Installs, StartedBy, Known, StartSteps, NoJob,
           Terminal, Signal, ShutdownKill, manager, process, tasks, requests, callers,
           rest
  <1>6. Counted'
    <2>1. UNCHANGED <<session, waiter, active>>
      BY DEF Signal, ShutdownKill,
           manager, process, tasks, requests, callers, rest
    <2> QED BY <2>1, CountKept
  <1> QED BY <1>1, <1>2, <1>3, <1>4, <1>5, <1>6

\* An input request takes the lock of the session's input records.
LEMMA WriteInv ==
    ASSUME Inv, NEW c \in Callers, NEW e \in Execs, NEW w \in Writes, Write(c, e, w)
    PROVE  Inv'
  <1> USE DEF Inv
  <1>1. TypeOK'
    BY DEF TypeOK, NoJob, States, Terminal, Write, manager, process, tasks, requests,
           callers, rest
  <1>2. Locks'
    <2>1. child[e] # "none"
      BY DEF Lives, Known, Write
    <2> QED BY <2>1 DEF TypeOK, Locks, OnWhat, StartSteps, TermSteps, NoJob, Write, manager, process, tasks, requests, callers, rest
  <1>3. Starts'
    BY DEF TypeOK, Locks, Starts, Lives, StartedBy, StartSteps, NoJob, Write, manager,
           process, tasks, requests, callers, rest
  <1>4. Answers'
    BY DEF TypeOK, Locks, Answers, OnWhat, TermSteps, NoJob, Terminal, Write, manager,
           process, tasks, requests, callers, rest
  <1>5. Lives'
    BY DEF TypeOK, Locks, Starts, Lives, Installs, StartedBy, Known, StartSteps, NoJob,
           Terminal, Write, manager, process, tasks, requests, callers, rest
  <1>6. Counted'
    <2>1. UNCHANGED <<session, waiter, active>>
      BY DEF Write, manager, process,
           tasks, requests, callers, rest
    <2> QED BY <2>1, CountKept
  <1> QED BY <1>1, <1>2, <1>3, <1>4, <1>5, <1>6

\* It writes and records the input.
LEMMA WriteEndsInv ==
    ASSUME Inv, NEW c \in Callers, WriteEnds(c)
    PROVE  Inv'
  <1> USE DEF Inv
  <1>1. TypeOK'
    <2>1. OnWhat(c) \in Execs /\ job[c].id \in Writes
      BY DEF WriteEnds, Locks
    <2>2. /\ accepted' \in {accepted, [accepted EXCEPT ![OnWhat(c)] = @ \union {job[c].id}]}
          /\ delivered' \in {delivered, [delivered EXCEPT ![OnWhat(c)][job[c].id] = @ + 1]}
      BY DEF WriteEnds, OnWhat
    <2>4. accepted' \in [Execs -> SUBSET Writes]
      <3>1. accepted \in [Execs -> SUBSET Writes]
        BY DEF TypeOK
      <3>2. [accepted EXCEPT ![OnWhat(c)] = @ \union {job[c].id}] \in [Execs -> SUBSET Writes]
        BY <2>1, <3>1
      <3> QED BY <2>2, <3>1, <3>2
    <2>5. delivered' \in [Execs -> [Writes -> Nat]]
      <3>1. delivered \in [Execs -> [Writes -> Nat]]
        BY DEF TypeOK
      <3>2. [delivered EXCEPT ![OnWhat(c)][job[c].id] = @ + 1] \in [Execs -> [Writes -> Nat]]
        BY <2>1, <3>1
      <3> QED BY <2>2, <3>1, <3>2
    <2>3. inputLock' \in [Execs -> Callers \union {Nobody}]
      BY <2>1 DEF TypeOK, WriteEnds, OnWhat
    <2> QED BY <2>3, <2>4, <2>5 DEF TypeOK, WriteEnds, Leave, NoJob, manager, process, tasks, rest
  <1>2. Locks'
    BY DEF TypeOK, Locks, OnWhat, StartSteps, TermSteps, NoJob, WriteEnds, Leave, manager,
           process, tasks, requests, callers, rest
  <1>3. Starts'
    BY DEF TypeOK, Locks, Starts, Lives, StartedBy, StartSteps, NoJob, WriteEnds, Leave,
           manager, process, tasks, requests, callers, rest
  <1>4. Answers'
    BY DEF TypeOK, Locks, Answers, OnWhat, TermSteps, NoJob, Terminal, WriteEnds, Leave,
           manager, process, tasks, requests, callers, rest
  <1>5. Lives'
    BY DEF TypeOK, Locks, Starts, Lives, Installs, StartedBy, Known, StartSteps, NoJob,
           Terminal, WriteEnds, Leave, manager, process, tasks, requests, callers, rest
  <1>6. Counted'
    <2>1. UNCHANGED <<session, waiter, active>>
      BY DEF WriteEnds, Leave, manager,
           process, tasks, requests, callers, rest
    <2> QED BY <2>1, CountKept
  <1> QED BY <1>1, <1>2, <1>3, <1>4, <1>5, <1>6

\* The cleanup retires the id of a complete session.
LEMMA SweepInv ==
    ASSUME Inv, NEW e \in Execs, Sweep(e)
    PROVE  Inv'
  <1> USE DEF Inv
  <1>1. TypeOK'
    BY DEF TypeOK, NoJob, States, Terminal, Sweep, manager, process, tasks, requests,
           callers, rest
  <1>2. Locks'
    BY DEF TypeOK, Locks, OnWhat, StartSteps, TermSteps, NoJob, Sweep, manager, process,
           tasks, requests, callers, rest
  <1>3. Starts'
    BY DEF TypeOK, Locks, Starts, Lives, StartedBy, StartSteps, NoJob, Sweep, manager,
           process, tasks, requests, callers, rest
  <1>4. Answers'
    BY DEF TypeOK, Locks, Answers, OnWhat, TermSteps, NoJob, Terminal, Sweep, manager,
           process, tasks, requests, callers, rest
  <1>5. Lives'
    BY DEF TypeOK, Locks, Starts, Lives, Installs, StartedBy, Known, StartSteps, NoJob,
           Terminal, Sweep, manager, process, tasks, requests, callers, rest
  <1>6. Counted'
    <2>1. UNCHANGED <<session, waiter, active>>
      BY DEF Sweep, manager, process,
           tasks, requests, callers, rest
    <2> QED BY <2>1, CountKept
  <1> QED BY <1>1, <1>2, <1>3, <1>4, <1>5, <1>6

\* It forgets the session, which occupies no slot.
LEMMA SweepEndsInv ==
    ASSUME Inv, SweepEnds
    PROVE  Inv'
  <1> USE DEF Inv
  <1>1. TypeOK'
    BY DEF TypeOK, NoJob, States, Terminal, SweepEnds, manager, process, tasks, requests,
           callers, rest
  <1>2. Locks'
    BY DEF TypeOK, Locks, OnWhat, StartSteps, TermSteps, NoJob, SweepEnds, manager,
           process, tasks, requests, callers, rest
  <1>3. Starts'
    BY DEF TypeOK, Locks, Starts, Lives, StartedBy, StartSteps, NoJob, SweepEnds, manager,
           process, tasks, requests, callers, rest
  <1>4. Answers'
    BY DEF TypeOK, Locks, Answers, OnWhat, TermSteps, NoJob, Terminal, SweepEnds, manager,
           process, tasks, requests, callers, rest
  <1>5. Lives'
    BY DEF TypeOK, Locks, Starts, Lives, Installs, StartedBy, Known, StartSteps, NoJob,
           Terminal, SweepEnds, manager, process, tasks, requests, callers, rest
  <1>6. Counted'
    <2>1. waiter[sweep] = "done" /\ sweep \in Execs
      BY DEF SweepEnds, TypeOK, Lives
    <2>2. Slots' = Slots /\ active' = active
      BY <2>1 DEF SweepEnds, Slots, TypeOK, tasks
    <2> QED BY <2>2 DEF Counted
  <1> QED BY <1>1, <1>2, <1>3, <1>4, <1>5, <1>6

\* The shutdown takes the list of sessions, and ends.
LEMMA ShutdownInv ==
    ASSUME Inv, Shutdown \/ ShutdownEnds
    PROVE  Inv'
  <1> USE DEF Inv
  <1>1. TypeOK'
    BY DEF TypeOK, NoJob, States, Terminal, Shutdown, ShutdownEnds, manager, process,
           tasks, requests, callers, rest
  <1>2. Locks'
    BY DEF TypeOK, Locks, OnWhat, StartSteps, TermSteps, NoJob, Shutdown, ShutdownEnds,
           manager, process, tasks, requests, callers, rest
  <1>3. Starts'
    BY DEF TypeOK, Locks, Starts, Lives, StartedBy, StartSteps, NoJob, Shutdown,
           ShutdownEnds, manager, process, tasks, requests, callers, rest
  <1>4. Answers'
    BY DEF TypeOK, Locks, Answers, OnWhat, TermSteps, NoJob, Terminal, Shutdown,
           ShutdownEnds, manager, process, tasks, requests, callers, rest
  <1>5. Lives'
    BY DEF TypeOK, Locks, Starts, Lives, Installs, StartedBy, Known, StartSteps, NoJob,
           Terminal, Shutdown, ShutdownEnds, manager, process, tasks, requests, callers,
           rest
  <1>6. Counted'
    <2>1. UNCHANGED <<session, waiter, active>>
      BY DEF Shutdown, ShutdownEnds,
           manager, process, tasks, requests, callers, rest
    <2> QED BY <2>1, CountKept
  <1> QED BY <1>1, <1>2, <1>3, <1>4, <1>5, <1>6

\* Every step of the manager keeps the invariant.
THEOREM Inductive == Inv /\ [Next]_vars => Inv'
  <1> SUFFICES ASSUME Inv, [Next]_vars PROVE Inv'
    OBVIOUS
  <1>1. CASE UNCHANGED vars
    <2> USE <1>1 DEF Inv, vars, manager, process, tasks, requests, callers, rest
    <2>1. TypeOK' /\ Lives'
      BY DEF TypeOK, Lives, Known, Installs, StartedBy
    <2>2. Locks' /\ Starts' /\ Answers'
      BY DEF Locks, Starts, Answers, OnWhat, StartedBy, Terminal
    <2>3. Counted'
      BY CountKept
    <2> QED BY <2>1, <2>2, <2>3
  <1>2. CASE Next
    <2>1. CASE \E c \in Callers : \E q \in Requests : Enter(c, q)
      BY <2>1, EnterInv
    <2>2. CASE \E c \in Callers : StartStep(c)
      BY <2>2, CheckSessionInv, CheckRetiredInv, CheckLimitInv, SpawnInv, InstallInv,
         MarkStartedInv, WithdrawInv DEF StartStep
    <2>3. CASE \E c \in Callers : \E e \in Execs, o \in TermOps : Terminate(c, e, o)
      BY <2>3, TerminateInv
    <2>4. CASE \E c \in Callers : TermStep(c)
      BY <2>4, TermCheckInv, TermSignalInv, TermGraceInv, TermRecordInv DEF TermStep
    <2>5. CASE \E c \in Callers : \E e \in Execs, w \in Writes : Write(c, e, w)
      BY <2>5, WriteInv
    <2>6. CASE \E c \in Callers : WriteEnds(c)
      BY <2>6, WriteEndsInv
    <2>7. CASE \E e \in Execs : Watch(e) \/ ReaderEnds(e)
      BY <2>7, ReaderInv, ReapInv, DrainElapsesInv, CompleteInv DEF Watch
    <2>8. CASE \E e \in Execs : Timeout(e)
      BY <2>8, TimeoutInv
    <2>9. CASE \E e \in Execs : Signal(e) \/ ShutdownKill(e)
      BY <2>9, KillInv
    <2>10. CASE \E e \in Execs : Sweep(e)
      BY <2>10, SweepInv
    <2>11. CASE SweepEnds \/ Shutdown \/ ShutdownEnds
      BY <2>11, SweepEndsInv, ShutdownInv
    <2>12. CASE \E e \in Execs : ChildExits(e)
      BY <2>12, ChildExitsInv
    <2> QED BY <1>2, <2>1, <2>2, <2>3, <2>4, <2>5, <2>6, <2>7, <2>8, <2>9, <2>10, <2>11, <2>12 DEF Next
  <1> QED BY <1>1, <1>2

\* The invariant holds in every reachable state.
THEOREM Invariance == Spec => []Inv
  BY InitInv, Inductive, PTL DEF Spec

-----------------------------------------------------------------------------
(* The slots. *)

\* A running process occupies a slot or is about to be installed by the one start
\* that holds the gate, which found a free slot.
LEMMA RunningFits ==
    ASSUME Inv
    PROVE  Cardinality({e \in Execs : child[e] = "running"}) <= MaxConcurrent
  <1> DEFINE Running == {e \in Execs : child[e] = "running"}
  <1> USE DEF Inv
  <1>1. \A e \in Running : e \in Slots \/ \E c \in Callers : Installs(c, e)
    BY DEF Lives, Known, Slots
  <1>2. IsFiniteSet(Slots) /\ Cardinality(Slots) \in Nat /\ Cardinality(Slots) = active
    BY FS_CardinalityType DEF Counted
  <1>3. CASE \E c \in Callers : pc[c] = "install"
    <2>1. PICK c \in Callers : pc[c] = "install"
      BY <1>3
    <2>2. \A x \in Callers : pc[x] = "install" => x = c
      BY <2>1 DEF Locks, StartSteps
    <2>3. Running \subseteq Slots \union {StartedBy(c)}
      BY <1>1, <2>2 DEF Installs
    <2>4. /\ IsFiniteSet(Slots \union {StartedBy(c)})
          /\ Cardinality(Slots \union {StartedBy(c)}) <= active + 1
          /\ Cardinality(Slots \union {StartedBy(c)}) \in Nat
      <3>1. CASE StartedBy(c) \in Slots
        <4>1. Slots \union {StartedBy(c)} = Slots
          BY <3>1
        <4>2. IsFiniteSet(Slots \union {StartedBy(c)}) /\ Cardinality(Slots \union {StartedBy(c)}) = active
          BY <1>2, <4>1, Zenon
        <4> QED BY <1>2, <4>2
      <3>2. CASE StartedBy(c) \notin Slots
        BY <1>2, <3>2, FS_AddElement
      <3> QED BY <3>1, <3>2
    <2>5. Cardinality(Running) <= Cardinality(Slots \union {StartedBy(c)}) /\ Cardinality(Running) \in Nat
      BY <2>3, <2>4, FS_Subset, FS_CardinalityType
    <2>6. active < MaxConcurrent /\ active \in Nat
      BY <2>1 DEF Starts, TypeOK
    <2> QED BY <2>4, <2>5, <2>6
  <1>4. CASE ~\E c \in Callers : pc[c] = "install"
    <2>1. Running \subseteq Slots
      BY <1>1, <1>4 DEF Installs
    <2>2. Cardinality(Running) <= active /\ Cardinality(Running) \in Nat
      BY <1>2, <2>1, FS_Subset, FS_CardinalityType
    <2> QED BY <2>2 DEF Counted, TypeOK
  <1> QED BY <1>3, <1>4

\* No slot leaks, none is released twice, and the processes never exceed the limit,
\* whoever starts, ends, withdraws or sweeps (active_processes in manager.rs).
THEOREM SlotsStayAccounted == Spec => []SlotsAreAccounted
  <1>1. Inv => SlotsAreAccounted
    BY RunningFits DEF Inv, Counted, Slots, SlotsAreAccounted
  <1> QED BY <1>1, Invariance, PTL

\* The types of every table.
THEOREM TypesCorrect == Spec => []TypeOK
  BY Invariance, PTL DEF Inv

-----------------------------------------------------------------------------
(* The contract: every step is one of its operations, or changes nothing it sees. *)

Allowed == Contract!Next \/ UNCHANGED Contract!contractVars

\* Steps that only move a request or a task along.
LEMMA HiddenSteps ==
    ASSUME UNCHANGED <<process, records, accepted, delivered>>
    PROVE  Allowed
  BY DEF Allowed, Contract!contractVars, process

\* A spawned process is the first one of its execution id (Start).
LEMMA SpawnAllowed ==
    ASSUME Inv, NEW c \in Callers, Spawn(c)
    PROVE  Allowed
  <1> DEFINE e == StartedBy(c)
  <1>1. CASE Refuse(c)
    BY <1>1, HiddenSteps DEF Refuse, requests
  <1>2. CASE ~Refuse(c)
    <2>1. e \in Execs /\ child[e] = "none"
      BY DEF Inv, TypeOK, Locks, Starts, Lives, Known, Installs, StartSteps, Spawn, StartedBy
    <2>2. Contract!Start(e)
      BY <1>2, <2>1 DEF Spawn, StartedBy, Contract!Start, requests
    <2> QED BY <2>1, <2>2 DEF Allowed, Contract!Next
  <1> QED BY <1>1, <1>2

\* The journal records the start of a spawned process (Started).
LEMMA MarkStartedAllowed ==
    ASSUME Inv, NEW c \in Callers, MarkStarted(c)
    PROVE  Allowed
  <1> DEFINE e == StartedBy(c)
  <1>1. e \in Execs /\ state[e] = "starting" /\ child[e] # "none"
    BY DEF Inv, Locks, Starts, Lives, StartSteps, MarkStarted, StartedBy
  <1>2. Contract!Started(e)
    BY <1>1 DEF MarkStarted, StartedBy, Contract!Started, requests
  <1> QED BY <1>1, <1>2 DEF Allowed, Contract!Next

\* A start that is taken back leaves nothing behind (StartFails).
LEMMA WithdrawAllowed ==
    ASSUME Inv, NEW c \in Callers, Withdraw(c)
    PROVE  Allowed
  <1> DEFINE e == StartedBy(c)
  <1>1. e \in Execs /\ state[e] = "starting"
    BY DEF Inv, Locks, Starts, Lives, StartSteps, Withdraw, StartedBy
  <1>2. Contract!StartFails(e)
    BY <1>1 DEF Withdraw, StartedBy, Contract!StartFails, Contract!NoAnswer, Contract!NoInput
  <1> QED BY <1>1, <1>2 DEF Allowed, Contract!Next

\* A process ends (Exit).
LEMMA ChildExitsAllowed ==
    ASSUME NEW e \in Execs, ChildExits(e)
    PROVE  Allowed
  <1>1. Contract!Exit(e)
    BY DEF ChildExits, Contract!Exit, requests
  <1> QED BY <1>1 DEF Allowed, Contract!Next

\* The outcome is published once, by what decided it (Publish).
LEMMA ReapAllowed ==
    ASSUME Inv, NEW e \in Execs, Reap(e)
    PROVE  Allowed
  <1>1. CASE e \in Drained
    <2>1. state[e] = "running" /\ ~Terminal(e)
      BY DEF Inv, Lives, Reap, Terminal
    <2>2. state' = [state EXCEPT ![e] = Outcome(e)]
      BY <1>1, <2>1 DEF Reap, MarkExited
    <2>3. Outcome(e) = Contract!Result(completion[e])
      BY DEF Outcome, Contract!Result
    <2>4. Contract!Publish(e)
      BY <2>1, <2>2, <2>3 DEF Reap, Contract!Publish, requests
    <2> QED BY <2>4 DEF Allowed, Contract!Next
  <1>2. CASE e \notin Drained
    <2>1. UNCHANGED Contract!contractVars
      BY <1>2 DEF Inv, TypeOK, Reap, Contract!contractVars, requests
    <2> QED BY <2>1 DEF Allowed
  <1> QED BY <1>1, <1>2

\* The session completes: the outcome is published, has been, or is lost with the
\* rest of the output (Publish, Lose).
LEMMA CompleteAllowed ==
    ASSUME Inv, NEW e \in Execs, Complete(e)
    PROVE  Allowed
  <1>1. state[e] # "starting" /\ child[e] = "gone"
    BY DEF Inv, TypeOK, Lives, Complete
  <1>2. UNCHANGED <<child, completion, doomed, records, accepted, delivered>>
    BY DEF Complete, requests
  <1>3. CASE state' = [state EXCEPT ![e] = "failed"]
    <2>1. Contract!Lose(e)
      BY <1>1, <1>2, <1>3 DEF Contract!Lose
    <2> QED BY <2>1 DEF Allowed, Contract!Next
  <1>4. CASE state' = [state EXCEPT ![e] = MarkExited(e)] /\ ~Terminal(e)
    <2>1. Outcome(e) = Contract!Result(completion[e])
      BY DEF Outcome, Contract!Result
    <2>2. state[e] = "running"
      BY <1>1, <1>4 DEF Inv, TypeOK, States, Terminal
    <2>3. Contract!Publish(e)
      BY <1>1, <1>2, <1>4, <2>1, <2>2 DEF MarkExited, Contract!Publish
    <2> QED BY <2>3 DEF Allowed, Contract!Next
  <1>5. CASE state' = [state EXCEPT ![e] = MarkExited(e)] /\ Terminal(e)
    <2>1. state' = state
      BY <1>5 DEF Inv, TypeOK, MarkExited
    <2> QED BY <1>2, <2>1 DEF Allowed, Contract!contractVars
  <1> QED BY <1>3, <1>4, <1>5 DEF Complete

\* A kill of a process that is not over (Kill).
LEMMA KillAllowed ==
    ASSUME NEW e \in Execs, child[e] # "none",
           doomed' = IF Terminal(e) THEN doomed ELSE doomed \union {e},
           UNCHANGED <<state, completion, child, records, accepted, delivered>>
    PROVE  Allowed
  <1>1. CASE Terminal(e)
    BY <1>1 DEF Allowed, Contract!contractVars
  <1>2. CASE ~Terminal(e)
    <2>1. Contract!Kill(e)
      BY <1>2 DEF Contract!Kill, Contract!Over, Terminal
    <2> QED BY <2>1 DEF Allowed, Contract!Next
  <1> QED BY <1>1, <1>2

\* A timeout decides the outcome if nothing did before, and kills (Decide, Kill).
LEMMA TimeoutAllowed ==
    ASSUME Inv, NEW e \in Execs, Timeout(e)
    PROVE  Allowed
  <1>1. CASE AlarmRings(e)
    BY <1>1, HiddenSteps DEF AlarmRings, requests
  <1>2. CASE AlarmFires(e) /\ completion[e] = "normal"
    <2>1. child[e] # "none"
      BY <1>2 DEF Inv, Lives, AlarmFires
    <2>2. Contract!Decide(e, "timed_out")
      BY <1>2, <2>1 DEF AlarmFires, Contract!Decide, requests
    <2> QED BY <2>2 DEF Allowed, Contract!Next
  <1>3. CASE AlarmFires(e) /\ completion[e] # "normal"
    <2>1. UNCHANGED Contract!contractVars
      BY <1>3 DEF AlarmFires, Contract!contractVars, requests
    <2> QED BY <2>1 DEF Allowed
  <1>4. CASE AlarmKills(e)
    <2>1. child[e] # "none"
      BY <1>4 DEF Inv, Lives, AlarmKills
    <2> QED BY <1>4, <2>1, KillAllowed DEF AlarmKills, requests
  <1> QED BY <1>1, <1>2, <1>3, <1>4 DEF Timeout

\* The first terminate or timeout decides (Decide).
LEMMA TermSignalAllowed ==
    ASSUME Inv, NEW c \in Callers, TermSignal(c)
    PROVE  Allowed
  <1> DEFINE e == OnWhat(c)
  <1>1. e \in Execs /\ child[e] # "none"
    BY DEF Inv, Locks, TermSteps, TermSignal
  <1>2. UNCHANGED <<state, child, doomed, records, accepted, delivered>>
    BY DEF TermSignal, requests
  <1>3. CASE completion[e] = "normal"
    <2>1. completion' = [completion EXCEPT ![e] = "terminated"]
      BY <1>3 DEF TermSignal, OnWhat
    <2>2. Contract!Decide(e, "terminated")
      BY <1>1, <1>2, <1>3, <2>1 DEF Contract!Decide
    <2> QED BY <1>1, <2>2 DEF Allowed, Contract!Next
  <1>4. CASE completion[e] # "normal"
    <2>1. completion' = completion
      BY <1>1, <1>4 DEF TermSignal, OnWhat, Inv, TypeOK
    <2> QED BY <1>2, <2>1 DEF Allowed, Contract!contractVars
  <1> QED BY <1>3, <1>4

\* A terminate kills what is not over (Kill).
LEMMA TermGraceAllowed ==
    ASSUME Inv, NEW c \in Callers, TermGrace(c)
    PROVE  Allowed
  <1> DEFINE e == OnWhat(c)
  <1>1. e \in Execs /\ child[e] # "none"
    BY DEF Inv, Locks, TermSteps, TermGrace
  <1>2. UNCHANGED <<state, completion, child, records, accepted, delivered>>
    BY DEF TermGrace
  <1>3. CASE doomed' = doomed
    BY <1>2, <1>3 DEF Allowed, Contract!contractVars
  <1>4. CASE ~Terminal(e) /\ doomed' = doomed \union {e}
    BY <1>1, <1>2, <1>4, KillAllowed
  <1> QED BY <1>3, <1>4 DEF TermGrace, OnWhat

\* A terminate is answered once, and what the answer says has come true (Answer).
LEMMA TermRecordAllowed ==
    ASSUME Inv, NEW c \in Callers, TermRecord(c)
    PROVE  Allowed
  <1> DEFINE e == OnWhat(c)
             o == job[c].id
             result == IF job[c].was THEN "was_running" ELSE "was_not"
  <1>1. e \in Execs /\ o \in TermOps /\ records[e][o] = "none"
    BY DEF Inv, Locks, TermSteps, TermRecord
  <1>2. /\ result = "was_not" => Terminal(e)
        /\ result = "was_running" => completion[e] # "normal" /\ (Terminal(e) \/ e \in doomed)
    BY DEF Inv, Answers, TermRecord
  <1>3. records' = [records EXCEPT ![e][o] = result]
    BY DEF TermRecord, OnWhat
  <1>4. UNCHANGED <<state, child, completion, doomed, accepted, delivered>>
    BY DEF TermRecord, process
  <1>5. Contract!Answer(e, o, result)
    <2> HIDE DEF result, e, o
    <2> QED BY <1>1, <1>2, <1>3, <1>4 DEF Contract!Answer, Contract!Over, Terminal
  <1>6. result \in {"was_running", "was_not"}
    OBVIOUS
  <1> QED BY <1>1, <1>5, <1>6 DEF Allowed, Contract!Next

\* An input reaches the process once (Input); an input that failed may be repeated.
LEMMA WriteEndsAllowed ==
    ASSUME Inv, NEW c \in Callers, WriteEnds(c)
    PROVE  Allowed
  <1> DEFINE e == OnWhat(c)
             w == job[c].id
  <1>1. e \in Execs /\ w \in Writes /\ w \notin accepted[e] /\ child[e] # "none"
    BY DEF Inv, Locks, WriteEnds
  <1>2. UNCHANGED <<state, child, completion, doomed, records>>
    BY DEF WriteEnds, process
  <1>3. CASE accepted' = [accepted EXCEPT ![e] = @ \union {w}]
    <2>1. delivered' \in {delivered, [delivered EXCEPT ![e][w] = @ + 1]}
      BY DEF WriteEnds, OnWhat
    <2>2. Contract!Input(e, w)
      BY <1>1, <1>2, <1>3, <2>1 DEF Contract!Input
    <2> QED BY <1>1, <2>2 DEF Allowed, Contract!Next
  <1>4. CASE accepted' = accepted /\ delivered' = delivered
    BY <1>2, <1>4 DEF Allowed, Contract!contractVars
  <1> QED BY <1>3, <1>4 DEF WriteEnds, OnWhat

\* Every step of the manager is a step of the contract.
LEMMA StepAllowed == Inv /\ [Next]_vars => Allowed
  <1> SUFFICES ASSUME Inv, [Next]_vars PROVE Allowed
    OBVIOUS
  <1>1. CASE UNCHANGED vars
    BY <1>1, HiddenSteps DEF vars, requests
  <1>2. CASE Next
    <2>1. CASE \E c \in Callers : \E q \in Requests : Enter(c, q)
      BY <2>1, HiddenSteps DEF Enter, requests
    <2>2. CASE \E c \in Callers : CheckSession(c) \/ CheckRetired(c) \/ CheckLimit(c)
      BY <2>2, HiddenSteps DEF CheckSession, CheckRetired, CheckLimit, Proceed, Refuse, requests
    <2>3. CASE \E c \in Callers : Install(c)
      BY <2>3, HiddenSteps DEF Install, requests
    <2>4. CASE \E c \in Callers : Spawn(c) \/ MarkStarted(c) \/ Withdraw(c)
      BY <2>4, SpawnAllowed, MarkStartedAllowed, WithdrawAllowed
    <2>5. CASE \E c \in Callers : \E e \in Execs, o \in TermOps : Terminate(c, e, o)
      BY <2>5, HiddenSteps DEF Terminate
    <2>6. CASE \E c \in Callers : \E e \in Execs, w \in Writes : Write(c, e, w)
      BY <2>6, HiddenSteps DEF Write
    <2>7. CASE \E c \in Callers : TermCheck(c)
      BY <2>7, HiddenSteps DEF TermCheck, requests
    <2>8. CASE \E c \in Callers : TermSignal(c) \/ TermGrace(c) \/ TermRecord(c) \/ WriteEnds(c)
      BY <2>8, TermSignalAllowed, TermGraceAllowed, TermRecordAllowed, WriteEndsAllowed
    <2>9. CASE \E e \in Execs : ReaderEnds(e) \/ ReaderStops(e) \/ DrainElapses(e)
      BY <2>9, HiddenSteps DEF ReaderEnds, ReaderStops, DrainElapses, requests
    <2>10. CASE \E e \in Execs : Reap(e) \/ Complete(e) \/ Timeout(e) \/ ChildExits(e)
      BY <2>10, ReapAllowed, CompleteAllowed, TimeoutAllowed, ChildExitsAllowed
    <2>11. ASSUME NEW e \in Execs, Signal(e) PROVE Allowed
      <3>1. child[e] # "none"
        BY <2>11 DEF Inv, Lives, Known, Signal
      <3> QED BY <2>11, <3>1, KillAllowed DEF Signal, requests
    <2>12. ASSUME NEW e \in Execs, ShutdownKill(e) PROVE Allowed
      <3>1. child[e] # "none"
        BY <2>12 DEF Inv, Lives, ShutdownKill
      <3> QED BY <2>12, <3>1, KillAllowed DEF ShutdownKill, requests
    <2>13. CASE \E e \in Execs : Sweep(e)
      BY <2>13, HiddenSteps DEF Sweep, requests
    <2>14. CASE SweepEnds \/ Shutdown \/ ShutdownEnds
      BY <2>14, HiddenSteps DEF SweepEnds, Shutdown, ShutdownEnds, requests
    <2> QED BY <1>2, <2>1, <2>2, <2>3, <2>4, <2>5, <2>6, <2>7, <2>8, <2>9, <2>10, <2>11, <2>12,
               <2>13, <2>14 DEF Next, StartStep, TermStep, Watch
  <1> QED BY <1>1, <1>2

\* Concurrent starts, inputs, terminations, timeouts, cleanup and shutdown
\* (manager.rs) look from outside like the atomic operations the conformance
\* suite asks of a runtime.
THEOREM ManagerImplementsContract == Spec => ImplementsContract
  <1>1. Init => Contract!Init
    BY DEF Init, Contract!Init, Contract!NoAnswer, Contract!NoInput
  <1>2. Inv /\ [Next]_vars => [Contract!Next]_(Contract!contractVars)
    BY StepAllowed DEF Allowed
  <1> QED BY <1>1, <1>2, Invariance, PTL DEF Spec, ImplementsContract, Contract!Spec
=============================================================================
