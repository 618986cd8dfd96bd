----------------------------- MODULE CodeJournal -----------------------------
(***************************************************************************)
(* The journaled engine of code mode (tools/code-mode, engine.rs) with its *)
(* adapter for runs (platform-agent-code-mode): a cell of JavaScript is    *)
(* admitted in the session state of its run, and every nested call of a    *)
(* tool is recorded there before it is dispatched and again before its     *)
(* result is given to the script.                                          *)
(*                                                                         *)
(* A write names the version it replaces and is fenced by the lease of the *)
(* run; it may be applied although its acknowledgement is lost, and a      *)
(* cancellation or the deadline ends the execution at any await.  The      *)
(* platform, which performs the calls, is external: it is fenced by the    *)
(* lease too, and performs an operation key once.                          *)
(***************************************************************************)
EXTENDS Naturals, Sequences

CONSTANTS
    Sources,       \* scripts with which the cell's id is used
    MaxNested,     \* limits.max_calls
    MaxOwners,     \* bound: lease epochs of the run
    MaxTexts,      \* bound: versions of the cell
    MaxRequests,   \* bound: requests to the platform
    MaxLosses      \* bound: lost acknowledgements and cancellations

ASSUME JournalAssumption ==
    {MaxNested, MaxOwners, MaxTexts, MaxRequests, MaxLosses} \subseteq Nat \ {0}

VARIABLES
    cell,       \* the entry cell.<id>: version (0: absent), owner, source, status
    nested,     \* the entries call.<id>.<n>
    cellOwner,  \* the epoch that holds the lease
    engine,     \* what each owner's engine is doing
    requests,   \* requests to the platform
    performed,  \* operation keys the platform has performed
    launched,   \* how often the script was started
    told,       \* outcomes of the cell that executions have returned
    losses

codeVars == <<cell, nested, cellOwner, engine, requests, performed, launched, told, losses>>

Owners == 1..MaxOwners
Nested == 1..MaxNested
Resting == [at |-> "idle"]
Over == {"completed", "failed", "interrupted"}

CodeInit ==
    /\ cell = [version |-> 0, owner |-> 0, source |-> "none", status |-> "absent"]
    /\ nested = [n \in Nested |-> [version |-> 0, status |-> "absent"]]
    /\ cellOwner = 1 /\ engine = [e \in Owners |-> Resting]
    /\ requests = <<>> /\ performed = {} /\ launched = 0 /\ told = {} /\ losses = 0

Go(e, next) == engine' = [engine EXCEPT ![e] = next]

\* Where an execution is: the version of the cell it wrote or read last, the number of
\* its nested call, the version of that call's record, and what it is about to write.
Running(at, v, n) == [at |-> at, version |-> v, count |-> n]
Calling(at, v, n, from) == [at |-> at, version |-> v, count |-> n, from |-> from]
Recording(at, v, n, from, r) ==
    [at |-> at, version |-> v, count |-> n, from |-> from, result |-> r]
Ending(v, n, status) == [at |-> "final", version |-> v, count |-> n, status |-> status]
Rereading(n) == [at |-> "reread", count |-> n]

Platform == <<requests, performed>>

-----------------------------------------------------------------------------
(***************************************************************************)
(* RunJournal::put, as (applied, outcome): refused unless the lease and    *)
(* the version are current; otherwise applied and acknowledged, or one of  *)
(* both is lost.                                                           *)
(***************************************************************************)
Current(e, version, expected) == e = cellOwner /\ version = expected

Outcomes(e, version, expected) ==
    IF Current(e, version, expected)
    THEN {<<TRUE, "ok">>} \union (IF losses < MaxLosses THEN {<<TRUE, "lost">>, <<FALSE, "lost">>} ELSE {})
    ELSE {<<FALSE, "conflict">>}

Losing(out) == losses' = losses + (IF out[2] = "lost" THEN 1 ELSE 0)

PutCell(e, expected, value, out) ==
    /\ out \in Outcomes(e, cell.version, expected)
    /\ cell' = IF out[1] THEN value ELSE cell
    /\ Losing(out)

PutNested(e, n, expected, status, out) ==
    /\ out \in Outcomes(e, nested[n].version, expected)
    /\ nested' = IF out[1] THEN [nested EXCEPT ![n] = [version |-> @.version + 1, status |-> status]] ELSE nested
    /\ Losing(out)

Value(status) ==
    [version |-> cell.version + 1, owner |-> cell.owner, source |-> cell.source, status |-> status]

-----------------------------------------------------------------------------
(***************************************************************************)
(* Engine::execute                                                         *)
(***************************************************************************)
\* A harness calls execute with the cell's id; a returned cell ends the call.
Execute(e, s) ==
    /\ engine[e] = Resting
    /\ CASE cell.status = "absent" -> Go(e, [at |-> "admit", source |-> s]) /\ told' = told
         [] cell.status # "absent" /\ cell.source # s -> engine' = engine /\ told' = told
         [] cell.status = "running" /\ cell.owner # e /\ cell.source = s ->
              Go(e, [at |-> "seal", version |-> cell.version]) /\ told' = told
         [] OTHER -> engine' = engine /\ told' = told \union ({cell.status} \ {"running"})
    /\ UNCHANGED <<cell, nested, cellOwner, Platform, launched, losses>>

\* recover_abandoned: without the script.
RecoverAbandoned(e) ==
    /\ engine[e] = Resting /\ cell.status = "running" /\ cell.owner # e
    /\ Go(e, [at |-> "seal", version |-> cell.version])
    /\ UNCHANGED <<cell, nested, cellOwner, Platform, launched, told, losses>>

\* The cell of a replaced owner is interrupted.
Seal(e) ==
    /\ engine[e].at = "seal"
    /\ \E out \in BOOLEAN \X {"ok", "lost", "conflict"} :
         /\ PutCell(e, engine[e].version, Value("interrupted"), out)
         /\ told' = told \union (IF out[2] = "ok" THEN {"interrupted"} ELSE {})
    /\ Go(e, Resting)
    /\ UNCHANGED <<nested, cellOwner, Platform, launched>>

Admit(e) ==
    /\ engine[e].at = "admit"
    /\ \E out \in BOOLEAN \X {"ok", "lost", "conflict"} :
         /\ PutCell(e, 0, [version |-> 1, owner |-> e, source |-> engine[e].source,
                           status |-> "running"], out)
         /\ Go(e, IF out[2] = "ok" THEN Running("launch", 1, 0) ELSE Resting)
    /\ UNCHANGED <<nested, cellOwner, Platform, launched, told>>

\* Cancelled before launch, the runtime is unavailable, or the script is started.
Launch(e) ==
    LET x == engine[e] IN
    /\ x.at = "launch"
    /\ \/ /\ \E status \in {"interrupted", "failed"} : Go(e, Ending(x.version, x.count, status))
          /\ launched' = launched
       \/ Go(e, Running("run", x.version, x.count)) /\ launched' = launched + 1
    /\ UNCHANGED <<cell, nested, cellOwner, Platform, told, losses>>

\* A frame of the script: text, a nested call, its result or its failure.
Frame(e) ==
    LET x == engine[e] IN
    /\ x.at = "run"
    /\ \/ x.version < MaxTexts /\ Go(e, Running("text", x.version, x.count))
       \/ x.count < MaxNested /\ Go(e, Running("prepare", x.version, x.count + 1))
       \/ \E status \in Over : Go(e, Ending(x.version, x.count, status))
    /\ UNCHANGED <<cell, nested, cellOwner, Platform, launched, told, losses>>

Text(e) ==
    LET x == engine[e] IN
    /\ x.at = "text"
    /\ \E out \in BOOLEAN \X {"ok", "lost", "conflict"} :
         /\ PutCell(e, x.version, Value("running"), out)
         /\ Go(e, IF out[2] = "ok" THEN Running("run", x.version + 1, x.count) ELSE Rereading(x.count))
    /\ UNCHANGED <<nested, cellOwner, Platform, launched, told>>

\* Faulty variant: the call is dispatched although the record was not acknowledged.
PreparedAnyway(out) == TRUE

Prepared(out) == out[2] = "ok"

\* The record of the call; invalid arguments are rejected without a dispatch.
Prepare(e) ==
    LET x == engine[e] IN
    /\ x.at = "prepare"
    /\ \E out \in BOOLEAN \X {"ok", "lost", "conflict"} :
         /\ PutNested(e, x.count, 0, "prepared", out)
         /\ \/ ~Prepared(out) /\ Go(e, Rereading(x.count))
            \/ Prepared(out) /\ Go(e, Calling("dispatch", x.version, x.count, 1))
            \/ Prepared(out) /\ Go(e, Recording("record", x.version, x.count, 1, "rejected"))
    /\ UNCHANGED <<cell, cellOwner, Platform, launched, told>>

\* PlatformDispatcher::invoke: the request leaves; its answer is waited for.
Dispatch(e) ==
    LET x == engine[e] IN
    /\ x.at \in {"dispatch", "redispatch"} /\ Len(requests) < MaxRequests
    /\ requests' = Append(requests, [call |-> x.count, owner |-> e, answer |-> "none"])
    /\ Go(e, [at |-> IF x.at = "dispatch" THEN "invoke" ELSE "reinvoke", version |-> x.version,
              count |-> x.count, from |-> x.from, request |-> Len(requests) + 1])
    /\ UNCHANGED <<cell, nested, cellOwner, performed, launched, told, losses>>

\* What a tool's answer is recorded as: no answer, or one that is too large, is uncertain.
AnswerCall(e, r) ==
    LET a == requests[engine[e].request].answer IN
    CASE a = "ok" -> r \in {"succeeded", "uncertain"} [] a = "refused" -> r = "rejected" [] OTHER -> r = "uncertain"

Invoke(e) ==
    LET x == engine[e] IN
    /\ x.at \in {"invoke", "reinvoke"}
    /\ \E r \in {"succeeded", "rejected", "uncertain"} :
         /\ AnswerCall(e, r)
         /\ Go(e, Recording(IF x.at = "invoke" THEN "record" ELSE "rerecord",
                            x.version, x.count, x.from, r))
    /\ UNCHANGED <<cell, nested, cellOwner, Platform, launched, told, losses>>

\* The result is saved before the script sees it.
Record(e) ==
    LET x == engine[e] IN
    /\ x.at \in {"record", "rerecord"}
    /\ \E out \in BOOLEAN \X {"ok", "lost", "conflict"} :
         /\ PutNested(e, x.count, x.from, x.result, out)
         /\ Go(e, CASE x.at = "rerecord" -> Resting
                    [] x.at = "record" /\ out[2] = "ok" -> Running("run", x.version, x.count)
                    [] OTHER -> Rereading(x.count))
    /\ UNCHANGED <<cell, cellOwner, Platform, launched, told>>

\* The signals of the run, or the deadline: whatever is awaited is dropped, a write of
\* the journal that has already left may be applied.
Cancel(e) ==
    LET x == engine[e] IN
    /\ x.at \in {"run", "text", "prepare", "dispatch", "invoke", "record"} /\ losses < MaxLosses
    /\ losses' = losses + 1
    /\ Go(e, Ending(x.version, x.count, "interrupted"))
    /\ CASE x.at = "text" /\ Current(e, cell.version, x.version) ->
              /\ cell' \in {cell, Value("running")}
              /\ nested' = nested
         [] x.at = "prepare" /\ Current(e, nested[x.count].version, 0) ->
              /\ nested' \in {nested, [nested EXCEPT ![x.count] = [version |-> 1, status |-> "prepared"]]}
              /\ cell' = cell
         [] x.at = "record" /\ Current(e, nested[x.count].version, x.from) ->
              /\ nested' \in {nested, [nested EXCEPT ![x.count] = [version |-> @.version + 1, status |-> x.result]]}
              /\ cell' = cell
         [] OTHER -> UNCHANGED <<cell, nested>>
    /\ UNCHANGED <<cellOwner, Platform, launched, told>>

\* After a failed write the guest is dead; the journal is read back.
RereadCell(e) ==
    LET x == engine[e] IN
    /\ x.at = "reread"
    /\ \/ Go(e, Resting) /\ told' = told
       \/ cell.status \in Over /\ Go(e, Resting) /\ told' = told \union {cell.status}
       \/ /\ cell.status = "running" /\ cell.owner = e
          /\ Go(e, Ending(cell.version, x.count, "interrupted"))
          /\ told' = told
    /\ UNCHANGED <<cell, nested, cellOwner, Platform, launched, losses>>

\* The last write of execute.
Final(e) ==
    LET x == engine[e] IN
    /\ x.at = "final"
    /\ \E out \in BOOLEAN \X {"ok", "lost", "conflict"} :
         /\ PutCell(e, x.version, Value(x.status), out)
         /\ told' = told \union (IF out[2] = "ok" THEN {x.status} ELSE {})
    /\ Go(e, Resting)
    /\ UNCHANGED <<nested, cellOwner, Platform, launched>>

\* AgentCodeMode::reconcile_call: the saved request again, under the saved key.
ReconcileCall(e, n) ==
    /\ engine[e] = Resting
    /\ cell.status \in {"interrupted", "failed"} /\ nested[n].status \in {"prepared", "uncertain"}
    /\ Go(e, Calling("redispatch", cell.version, n, nested[n].version))
    /\ UNCHANGED <<cell, nested, cellOwner, Platform, launched, told, losses>>

\* The worker of an owner stops.
StopEngine(e) ==
    /\ engine[e] # Resting /\ e # cellOwner
    /\ Go(e, Resting)
    /\ UNCHANGED <<cell, nested, cellOwner, Platform, launched, told, losses>>

TakeLease ==
    /\ cellOwner < MaxOwners
    /\ cellOwner' = cellOwner + 1
    /\ UNCHANGED <<cell, nested, engine, Platform, launched, told, losses>>

\* External: the platform answers a request, whenever it arrives.
Perform(i) ==
    LET r == requests[i] IN
    /\ r.answer = "none"
    /\ \/ /\ r.owner = cellOwner /\ performed' = performed \union {r.call}
          /\ requests' = [requests EXCEPT ![i].answer = "ok"]
       \/ /\ r.owner # cellOwner \/ r.call \notin performed
          /\ requests' = [requests EXCEPT ![i].answer = "refused"] /\ performed' = performed
    /\ UNCHANGED <<cell, nested, cellOwner, engine, launched, told, losses>>

CodeNext ==
    \/ \E e \in Owners :
         /\ e <= cellOwner
         /\ \/ \E s \in Sources : Execute(e, s)
            \/ RecoverAbandoned(e) \/ Seal(e) \/ Admit(e) \/ Launch(e) \/ Frame(e) \/ Text(e)
            \/ Prepare(e) \/ Dispatch(e) \/ Invoke(e) \/ Record(e) \/ Cancel(e) \/ RereadCell(e) \/ Final(e)
            \/ \E n \in Nested : ReconcileCall(e, n)
            \/ StopEngine(e)
    \/ TakeLease
    \/ \E i \in 1..Len(requests) : Perform(i)

CodeSpec == CodeInit /\ [][CodeNext]_codeVars

-----------------------------------------------------------------------------
\* Types.
EngineStates ==
    {Resting}
        \cup [at : {"admit"}, source : Sources]
        \cup [at : {"seal"}, version : Nat]
        \cup [at : {"launch", "run", "text"}, version : Nat, count : 0..MaxNested]
        \cup [at : {"prepare"}, version : Nat, count : Nested]
        \cup [at : {"dispatch", "redispatch"}, version : Nat, count : Nested, from : Nat]
        \cup [at : {"invoke", "reinvoke"}, version : Nat, count : Nested, from : Nat,
              request : 1..MaxRequests]
        \cup [at : {"record", "rerecord"}, version : Nat, count : Nested, from : Nat,
              result : {"succeeded", "rejected", "uncertain"}]
        \cup [at : {"final"}, version : Nat, count : 0..MaxNested, status : Over]
        \cup [at : {"reread"}, count : 0..MaxNested]
CallStatuses == {"absent", "prepared", "succeeded", "rejected", "uncertain"}
PlatformRequests == [call : Nested, owner : Owners, answer : {"none", "ok", "refused"}]

CodeTypeOK ==
    /\ cell \in [version : Nat, owner : 0..MaxOwners, source : Sources \cup {"none"},
                 status : Over \cup {"absent", "running"}]
    /\ nested \in [Nested -> [version : Nat, status : CallStatuses]]
    /\ cellOwner \in Owners
    /\ engine \in [Owners -> EngineStates]
    /\ requests \in Seq(PlatformRequests) /\ Len(requests) <= MaxRequests
    /\ performed \subseteq Nested /\ launched \in Nat
    /\ told \subseteq Over /\ losses \in 0..MaxLosses

\* What the journal says is what happened, whatever is lost, cancelled or taken over:
\* the script was started once at most ("source is never replayed, even if no call is
\* visible", engine.rs:78); the platform performed no operation that the journal does
\* not know ("This write must commit before any external tool effect", engine.rs:297), and
\* every one that is recorded as succeeded; an outcome that was returned stays.
JournalIsTrue ==
    /\ launched <= 1
    /\ \A n \in performed : nested[n].version > 0
    /\ \A n \in Nested : nested[n].status = "succeeded" => n \in performed
    /\ told \subseteq {cell.status}

\* A call that is recorded as rejected had no effect.
RejectedHadNoEffect ==
    \A n \in Nested : nested[n].status = "rejected" => n \notin performed

\* "Same-owner active cells must be cancelled through their running execution's
\* cancellation channel" (engine.rs:25-26): then they are no longer running.
CancelledIsSealed ==
    \A e \in Owners : cell.status = "running" /\ cell.owner = e /\ launched > 0 => engine[e] # Resting
=============================================================================
