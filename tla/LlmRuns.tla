------------------------------ MODULE LlmRuns ------------------------------
(***************************************************************************)
(* Asynchronous completions of the LLM gateway (http/runs.rs over          *)
(* gateway.rs and db/requests.rs), the synchronous completions and         *)
(* searches that share their admission gate, and the client that submits,  *)
(* waits and aborts (llm-client/src/client.rs).                            *)
(*                                                                         *)
(* A run is a row of llm_runs and a task of the process that accepted it.  *)
(* Every request, run or not, passes the gate (a semaphore of active       *)
(* permits with a bounded FIFO queue), resolves an account, inserts its    *)
(* accounting row, calls the provider, and settles the row.  An abort is   *)
(* the row's own transition; the task notices it when it polls the row.    *)
(*                                                                         *)
(* A definition described as "without", "forgets" or the like is a faulty  *)
(* variant of its neighbour and not part of the specification; the README  *)
(* lists the property each of them violates.                               *)
(***************************************************************************)
EXTENDS Integers, Sequences, FiniteSets

CONSTANTS
    LlmIds,     \* ids the gateway may draw for accepted runs
    Completes,  \* ids of synchronous POST /v1/llm requests
    Searches,   \* ids of POST /v1/search requests
    Clients,    \* callers of the llm-client library
    LlmKeys,    \* idempotency keys
    Payloads,   \* typed request payloads apart by their hash
    MaxActive,  \* max_concurrent_requests
    MaxWaiting, \* max_queued_requests
    Outcomes,   \* bound: how calls end, of ok, provider, timeout, internal
    MayCrash    \* bound: whether the gateway process may die

ASSUME LlmRunsAssumption ==
    /\ MaxActive \in Nat \ {0}
    /\ MaxWaiting \in Nat
    /\ MayCrash \in BOOLEAN
    /\ Outcomes \subseteq {"ok", "provider", "timeout", "internal"}

VARIABLES
    row,        \* llm_runs, by run id
    task,       \* the task or handler of each request
    answer,     \* what the request's execution returned
    queue,      \* the waiters of the active semaphore, in order
    permits,    \* active permits nobody holds
    acct,       \* llm_requests.status, by request id
    unwritten,  \* history: requests whose final accounting write failed
    call,       \* history: the key and payload a run called the provider for
    client      \* the callers

llmRunVars == <<row, task, answer, queue, permits, acct, unwritten, call, client>>

Syncs == Completes \cup Searches
Requests == LlmIds \cup Syncs

\* Every request has an id of its own.
ASSUME RequestsAssumption == IsFiniteSet(Requests) /\ LlmIds \cap Syncs = {}

NoRow == [status |-> "absent"]
NoCall == [key |-> "none"]
NoAnswer == "none"
Idle == [pc |-> "idle"]

Ended == {"succeeded", "failed", "aborted"}

\* Expiry is counted from completion: 0 until 48 hours, 1 until seven days, 2.
Expired == 1
Forgotten == 2

Present(r) == row[r] # NoRow

LlmRunsTypeOK ==
    /\ \A r \in LlmIds : Present(r) =>
          row[r] \in [key : LlmKeys, hash : Payloads, age : {0, Expired, Forgotten},
                      status : Ended \cup {"running", "expired"}]
    /\ task \in [Requests -> {"new", "spawned", "waiting", "granted", "resolving",
                              "inserting", "calling", "answered", "returned",
                              "done", "lost"}]
    /\ permits \in 0..MaxActive
    /\ queue \in Seq(Requests)
    /\ unwritten \subseteq Requests

LlmRunsInit ==
    /\ row = [r \in LlmIds |-> NoRow]
    /\ task = [r \in Requests |-> "new"]
    /\ answer = [r \in Requests |-> NoAnswer]
    /\ queue = << >>
    /\ permits = MaxActive
    /\ acct = [r \in Requests |-> "none"]
    /\ unwritten = {}
    /\ call = [r \in LlmIds |-> NoCall]
    /\ client = [c \in Clients |-> Idle]

-----------------------------------------------------------------------------
(***************************************************************************)
(* The admission gate                                                      *)
(***************************************************************************)

Holding == {"granted", "resolving", "inserting", "calling", "answered"}
InQueue == {"waiting", "granted"}

\* The queue when r has left its place in it, if it has one.
LlmWithout(q, r) ==
    IF \E i \in 1..Len(q) : q[i] = r
    THEN LET i == CHOOSE j \in 1..Len(q) : q[j] = r
         IN  SubSeq(q, 1, i - 1) \o SubSeq(q, i + 1, Len(q))
    ELSE q

\* Faulty variant: the permit of a waiter that goes away while it has already
\* been granted one is not passed on.
ReleaseForgetsGranted(r, t) ==
    LET q == LlmWithout(queue, r) IN
    IF task[r] \in Holding \ {"granted"} /\ q # << >>
    THEN /\ queue' = Tail(q)
         /\ task' = [task EXCEPT ![r] = t, ![Head(q)] = "granted"]
         /\ UNCHANGED permits
    ELSE /\ queue' = q
         /\ task' = [task EXCEPT ![r] = t]
         /\ permits' = IF task[r] \in Holding \ {"granted"} THEN permits + 1 ELSE permits

\* Leaving the gate: dropping the permit hands it to the first waiter, and a
\* waiter that leaves without one takes its place in the queue along.
LlmRelease(r, t) ==
    LET q == LlmWithout(queue, r) IN
    IF task[r] \in Holding /\ q # << >>
    THEN /\ queue' = Tail(q)
         /\ task' = [task EXCEPT ![r] = t, ![Head(q)] = "granted"]
         /\ UNCHANGED permits
    ELSE /\ queue' = q
         /\ task' = [task EXCEPT ![r] = t]
         /\ permits' = IF task[r] \in Holding THEN permits + 1 ELSE permits

Waiting == {r \in Requests : task[r] \in InQueue}

\* The start of complete_until_aborted and of search: the request is checked,
\* then a permit is taken at once, waited for, or refused.
Enter(r) ==
    /\ task[r] = "spawned"
    /\ \/ /\ task' = [task EXCEPT ![r] = "returned"]        \* validate, catalog
          /\ answer' = [answer EXCEPT ![r] = "refused"]
          /\ UNCHANGED <<queue, permits>>
       \/ /\ permits > 0
          /\ permits' = permits - 1
          /\ task' = [task EXCEPT ![r] = "resolving"]
          /\ UNCHANGED <<queue, answer>>
       \/ /\ permits = 0
          /\ Cardinality(Waiting) < MaxWaiting
          /\ queue' = Append(queue, r)
          /\ task' = [task EXCEPT ![r] = "waiting"]
          /\ UNCHANGED <<permits, answer>>
       \/ /\ permits = 0
          /\ Cardinality(Waiting) = MaxWaiting
          /\ task' = [task EXCEPT ![r] = "returned"]
          /\ answer' = [answer EXCEPT ![r] = "overloaded"]
          /\ UNCHANGED <<queue, permits>>
    /\ UNCHANGED <<row, acct, unwritten, call, client>>

\* The waiter is polled again and finds its permit.
Admitted(r) ==
    /\ task[r] = "granted"
    /\ task' = [task EXCEPT ![r] = "resolving"]
    /\ UNCHANGED <<row, answer, queue, permits, acct, unwritten, call, client>>

\* wait_timeout.  The timer is looked at only when the permit is not there yet.
QueueTimeout(r) ==
    /\ task[r] = "waiting"
    /\ LlmRelease(r, "returned")
    /\ answer' = [answer EXCEPT ![r] = "overloaded"]
    /\ UNCHANGED <<row, acct, unwritten, call, client>>

-----------------------------------------------------------------------------
(***************************************************************************)
(* Execution                                                               *)
(***************************************************************************)

\* resolve_account: the account exists, belongs to the provider and is active,
\* or the request ends here.
ResolveAccount(r) ==
    /\ task[r] = "resolving"
    /\ \/ /\ task' = [task EXCEPT ![r] = "inserting"]
          /\ UNCHANGED <<answer, queue, permits>>
       \/ /\ LlmRelease(r, "returned")
          /\ answer' = [answer EXCEPT ![r] = "refused"]
    /\ UNCHANGED <<row, acct, unwritten, call, client>>

\* begin_llm_request, and the execution that follows it.
Begin(r) ==
    /\ task[r] = "inserting"
    /\ \/ /\ acct' = [acct EXCEPT ![r] = "running"]
          /\ task' = [task EXCEPT ![r] = "calling"]
          /\ call' = IF r \in LlmIds
                     THEN [call EXCEPT ![r] = [key |-> row[r].key, hash |-> row[r].hash]]
                     ELSE call
          /\ UNCHANGED <<answer, queue, permits>>
       \/ /\ LlmRelease(r, "returned")
          /\ answer' = [answer EXCEPT ![r] = "internal"]
          /\ UNCHANGED <<acct, call>>
    /\ UNCHANGED <<row, unwritten, client>>

\* execute_completion: the message, the provider's error (a failed refresh of
\* its credentials included), a timeout, or a broken account configuration.
CompletionAnswers(r) ==
    /\ r \in LlmIds \cup Completes
    /\ task[r] = "calling"
    /\ task' = [task EXCEPT ![r] = "answered"]
    /\ \E o \in Outcomes :
          answer' = [answer EXCEPT ![r] = o]
    /\ UNCHANGED <<row, queue, permits, acct, unwritten, call, client>>

\* execute_search: the same, or a provider without search.
SearchAnswers(r) ==
    /\ r \in Searches
    /\ task[r] = "calling"
    /\ task' = [task EXCEPT ![r] = "answered"]
    /\ \E o \in Outcomes \cup {"unsupported"} :
          answer' = [answer EXCEPT ![r] = o]
    /\ UNCHANGED <<row, queue, permits, acct, unwritten, call, client>>

\* wait_for_abort returns when the row is no longer running, or is gone.
AbortSeen(r) == r \in LlmIds /\ (Present(r) => row[r].status # "running")

\* The abort branch of the three select!s of complete_until_aborted.  The
\* insertion and the final accounting are not interrupted.
Interrupted(r) ==
    /\ AbortSeen(r)
    /\ answer' = [answer EXCEPT ![r] = "aborted"]
    /\ \/ /\ task[r] \in InQueue \cup {"resolving"}
          /\ LlmRelease(r, "returned")
       \/ /\ task[r] = "calling"
          /\ task' = [task EXCEPT ![r] = "answered"]
          /\ UNCHANGED <<queue, permits>>
    /\ UNCHANGED <<row, acct, unwritten, call, client>>

\* GatewayError::accounting_status.
AccountingStatus(o) ==
    CASE o = "aborted"  -> "cancelled"
      [] o = "provider" -> "provider_error"
      [] o = "timeout"  -> "timeout"
      [] OTHER          -> "internal_error"

FinishSuccess(r) ==
    /\ answer[r] = "ok"
    /\ acct' = [acct EXCEPT ![r] = "succeeded"] /\ UNCHANGED unwritten
RecordFailure(r) ==
    /\ answer[r] # "ok"
    /\ acct' = [acct EXCEPT ![r] = AccountingStatus(answer[r])] /\ UNCHANGED unwritten
FinishFails(r) == unwritten' = unwritten \cup {r} /\ UNCHANGED acct

\* finish_llm_request_success or record_failure; a failing write is logged and
\* the answer is returned all the same.  The permit is dropped on return.
LlmSettle(r) ==
    /\ task[r] = "answered"
    /\ LlmRelease(r, "returned")
    /\ FinishSuccess(r) \/ RecordFailure(r) \/ FinishFails(r)
    /\ UNCHANGED <<row, answer, call, client>>

Outcome(r) == IF answer[r] = "ok" THEN "succeeded" ELSE "failed"

\* Faulty variant: the result is saved whatever the row's status is.
SaveOverwrites(r) ==
    /\ r \in LlmIds
    /\ task[r] = "returned"
    /\ task' = [task EXCEPT ![r] = "done"]
    /\ answer' = [answer EXCEPT ![r] = NoAnswer]
    /\ row' = IF Present(r)
              THEN [row EXCEPT ![r].status = Outcome(r)]
              ELSE row
    /\ UNCHANGED <<queue, permits, acct, unwritten, call, client>>

\* The save of a run's result: repeated until the database takes it, and only
\* a running row changes.
Save(r) ==
    /\ r \in LlmIds
    /\ task[r] = "returned"
    /\ task' = [task EXCEPT ![r] = "done"]
    /\ answer' = [answer EXCEPT ![r] = NoAnswer]
    /\ row' = IF Present(r) /\ row[r].status = "running"
              THEN [row EXCEPT ![r].status = Outcome(r)]
              ELSE row
    /\ UNCHANGED <<queue, permits, acct, unwritten, call, client>>

-----------------------------------------------------------------------------
(***************************************************************************)
(* The synchronous routes                                                  *)
(***************************************************************************)

\* http::complete and http::search: the handler awaits the gateway itself.
SyncArrives(s) ==
    /\ s \in Syncs
    /\ task[s] = "new"
    /\ task' = [task EXCEPT ![s] = "spawned"]
    /\ UNCHANGED <<row, answer, queue, permits, acct, unwritten, call, client>>

SyncResponds(s) ==
    /\ s \in Syncs
    /\ task[s] = "returned"
    /\ task' = [task EXCEPT ![s] = "done"]
    /\ answer' = [answer EXCEPT ![s] = NoAnswer]
    /\ UNCHANGED <<row, queue, permits, acct, unwritten, call, client>>

\* The caller hangs up: the server drops the handler's future where it is, and
\* with it the permit, the place in the queue and the accounting still to do.
Disconnect(s) ==
    /\ s \in Syncs
    /\ task[s] \in Holding \cup InQueue
    /\ LlmRelease(s, "lost")
    /\ UNCHANGED <<row, answer, acct, unwritten, call, client>>

-----------------------------------------------------------------------------
(***************************************************************************)
(* Runs: acceptance, abort, retrieval, retention                           *)
(***************************************************************************)

Holders(k) == {r \in LlmIds : Present(r) /\ row[r].key = k}

\* runs::load: a row past its expiry is reported expired, swept or not.
View(r) == IF row[r].age >= Expired THEN "expired" ELSE row[r].status

\* submit and accept, detached from the connection: the first row for a key
\* wins and starts the one task; any other submission finds that row and is
\* refused when its payload differs.  The reply reaches the caller, or is lost
\* and the caller submits the same key and payload again.
Accept(c, k, h) ==
    /\ \E r \in LlmIds :
          /\ \/ /\ r \in Holders(k)
                /\ UNCHANGED <<row, task>>
             \/ /\ Holders(k) = {}
                /\ task[r] = "new"
                /\ row' = [row EXCEPT ![r] = [key |-> k, hash |-> h, age |-> 0,
                                              status |-> "running"]]
                /\ task' = [task EXCEPT ![r] = "spawned"]
          /\ \/ client' = [client EXCEPT ![c] =
                  IF row'[r].hash = h THEN [pc |-> "waiting", run |-> r] ELSE Idle]
             \/ client' = [client EXCEPT ![c] = [pc |-> "retry", key |-> k, hash |-> h]]
    /\ UNCHANGED <<answer, queue, permits, acct, unwritten, call>>

\* LlmClient::submit, with a key of the caller's choice or, after a submission
\* whose reply was lost, with that submission's key and payload.
Submit(c, k, h) ==
    /\ client[c] \in {Idle, [pc |-> "retry", key |-> k, hash |-> h]}
    /\ Accept(c, k, h)

\* runs::abort.
Abort(r) ==
    /\ Present(r)
    /\ row[r].status = "running"
    /\ row' = [row EXCEPT ![r].status = "aborted"]
    /\ UNCHANGED <<task, answer, queue, permits, acct, unwritten, call, client>>

\* wait_loop: retrieve polls the row; terminal_result ends the wait.
Retrieve(c) ==
    /\ client[c].pc = "waiting"
    /\ Present(client[c].run) => View(client[c].run) # "running"
    /\ client' = [client EXCEPT ![c] = Idle]
    /\ UNCHANGED <<row, task, answer, queue, permits, acct, unwritten, call>>

\* The wait ends early: its timeout, a dropped future, a failed request.
LlmGiveUp(c) ==
    /\ client[c].pc = "waiting"
    /\ client' = [client EXCEPT ![c] = Idle]
    /\ UNCHANGED <<row, task, answer, queue, permits, acct, unwritten, call>>

\* Time since completion.  The two days and more this takes are longer than
\* any provider call, so the run's task is over.
Age(r) ==
    /\ Present(r)
    /\ row[r].status # "running"
    /\ row[r].age < Forgotten
    /\ task[r] \in {"done", "lost"}
    /\ row' = [row EXCEPT ![r].age = @ + 1]
    /\ UNCHANGED <<task, answer, queue, permits, acct, unwritten, call, client>>

\* cleanup_runs: expired results are dropped, old rows are deleted.
CleanupRuns ==
    /\ \E r \in LlmIds : Present(r) /\ row[r].age >= Expired
                       /\ (row[r].status # "expired" \/ row[r].age = Forgotten)
    /\ row' = [r \in LlmIds |->
                 IF ~Present(r) THEN NoRow
                 ELSE IF row[r].age = Forgotten THEN NoRow
                 ELSE IF row[r].age = Expired THEN [row[r] EXCEPT !.status = "expired"]
                 ELSE row[r]]
    /\ UNCHANGED <<task, answer, queue, permits, acct, unwritten, call, client>>

\* The process dies with every task and handler in it; rows stay.
LlmCrash ==
    /\ MayCrash
    /\ \A r \in Requests : task[r] # "lost"     \* bound: before anything else is lost
    /\ \E r \in Requests : task[r] \notin {"new", "done", "lost"}
    /\ task' = [r \in Requests |-> IF task[r] \in {"new", "done"} THEN task[r] ELSE "lost"]
    /\ queue' = << >>
    /\ permits' = MaxActive
    /\ UNCHANGED <<row, answer, acct, unwritten, call, client>>

-----------------------------------------------------------------------------
TaskStep(r) ==
    \/ Enter(r)
    \/ Admitted(r)
    \/ QueueTimeout(r)
    \/ ResolveAccount(r)
    \/ Begin(r)
    \/ CompletionAnswers(r)
    \/ SearchAnswers(r)
    \/ Interrupted(r)
    \/ LlmSettle(r)
    \/ Save(r)
    \/ SyncResponds(r)

LlmRunsNext ==
    \/ \E r \in Requests : TaskStep(r)
    \/ \E s \in Syncs : SyncArrives(s) \/ Disconnect(s)
    \/ \E c \in Clients : \E k \in LlmKeys, h \in Payloads : Submit(c, k, h)
    \/ \E c \in Clients : Retrieve(c) \/ LlmGiveUp(c)
    \/ \E r \in LlmIds : Abort(r) \/ Age(r)
    \/ CleanupRuns
    \/ LlmCrash

LlmRunsSpec == LlmRunsInit /\ [][LlmRunsNext]_llmRunVars

\* The runtime polls every task, the provider call is under a timeout and the
\* abort poll repeats every 250 ms.
LlmRunsFairSpec ==
    LlmRunsSpec /\ \A r \in Requests : WF_llmRunVars(TaskStep(r))

-----------------------------------------------------------------------------
(***************************************************************************)
(* Properties                                                              *)
(***************************************************************************)

\* A key pays for one execution: two runs of one key that both called the
\* provider are never both on record, whatever was resubmitted, lost or failed
\* in between (runs.rs: on conflict do nothing).
OneExecutionPerKey ==
    \A r, s \in LlmIds :
        /\ r # s
        /\ call[r] # NoCall /\ call[s] # NoCall
        /\ call[r].key = call[s].key
        => ~Present(r) \/ ~Present(s)

\* The first terminal transition of a run wins: after it the row only expires
\* and is deleted, so a late answer never replaces an abort, and an abort never
\* replaces an answer.
FirstTransitionWins ==
    [][\A r \in LlmIds :
          Present(r) /\ row[r].status # "running" =>
              \/ row'[r] = NoRow
              \/ row'[r].status \in {row[r].status, "expired"}]_llmRunVars

\* No active permit is lost or made up, and none lies idle while a request
\* waits: whatever leaves the gate hands its permit on.
PermitsAreConserved ==
    /\ permits + Cardinality({r \in Requests : task[r] \in Holding}) = MaxActive
    /\ queue # << >> => permits = 0
    /\ Cardinality(Waiting) <= MaxWaiting

\* "once the request row exists, a cancellation must finalize it": a request
\* that ran to its end has no running accounting row, unless the database
\* refused the final write.
EndedIsAccounted ==
    \A r \in Requests :
        task[r] = "done" /\ acct[r] = "running" => r \in unwritten

\* The LLM gateway pays once per key, gives every permit back and closes the accounts
\* of what ended, although callers hang up and the process dies (runs.rs, gateway.rs).
LlmWorkIsAccounted == OneExecutionPerKey /\ PermitsAreConserved /\ EndedIsAccounted

\* An aborted run stops: its task ends and its permit comes back, from the
\* queue, from account resolution or from the provider call.
AbortStopsWork ==
    \A r \in LlmIds :
        (Present(r) /\ row[r].status = "aborted") ~> task[r] \in {"done", "lost"}

\* Stated but not checked: every request whose row was inserted is finalized.
\* A caller that hangs up on a synchronous request refutes it.
EveryRequestIsFinalized ==
    \A s \in Syncs : task[s] = "lost" => acct[s] # "running"
=============================================================================
