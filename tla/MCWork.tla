------------------------------ MODULE MCWork ------------------------------
(***************************************************************************)
(* The worker supervisor, the executions and the accounts of the LLM       *)
(* gateway, and the sign-in that creates such an account, for TLC.  They   *)
(* share no state: a behaviour runs one of them, and the others stay where *)
(* they begin; the worker's variables are Off.                             *)
(***************************************************************************)
EXTENDS WorkerSupervisor, LlmRuns, LlmAccounts, ProviderLogin, TLC

CONSTANTS w1, r1, q1, q2, h1, h2

VARIABLE part

\* Each request of LlmAccounts is served by a replica of its own.
HomeOf == [q \in Reqs |-> IF q = q1 THEN h1 ELSE h2]

Off == "off"

WorkerOff ==
    /\ lease = Off /\ status = Off /\ used = Off /\ mode = Off /\ drain = Off /\ active = Off
    /\ tasks = Off /\ retired = Off /\ hb = Off /\ al = Off /\ pending = Off /\ late = Off
    /\ released = Off /\ begun = Off

WorkInit ==
    /\ part \in {"worker", "llm", "accounts", "logins"}
    /\ IF part = "worker" THEN Init ELSE WorkerOff
    /\ LlmRunsInit
    /\ AccountsInit
    /\ LoginsInit

WorkNext ==
    \/ part = "worker" /\ Next /\ UNCHANGED <<llmRunVars, accountVars, loginVars, part>>
    \/ part = "llm" /\ LlmRunsNext /\ UNCHANGED <<vars, accountVars, loginVars, part>>
    \/ part = "accounts" /\ AccountsNext /\ UNCHANGED <<vars, llmRunVars, loginVars, part>>
    \/ part = "logins" /\ LoginsNext /\ UNCHANGED <<vars, llmRunVars, accountVars, part>>

workVars == <<vars, llmRunVars, accountVars, loginVars, part>>

\* Fairness of the worker and that of LlmRunsFairSpec, of the part that runs.  A step
\* that ends what enables it is weakly fair exactly if the states it is enabled in are left
\* again and again: so are Sweep, HeartbeatSend, HeartbeatReply or HeartbeatFails, and
\* AllocationReply or AllocationFails.
WorkFairness ==
    /\ WF_vars(part = "worker" /\ Tick)
    /\ \A w \in Workers :
        /\ []<>(part # "worker" \/ w \notin Live \/ \A r \in DOMAIN active[w] : active[w][r].left # 0)
        /\ []<>(part # "worker" \/ w \notin Live \/ hb[w] # None)
        /\ SF_vars(part = "worker" /\ Answered(w))
        /\ []<>(part # "worker" \/ hb[w].st \notin {"sent", "replied"})
        /\ []<>(part # "worker" \/ al[w].st \notin {"list", "claim", "list2", "renew", "replied"})
    /\ \A r \in LlmIds : WF_llmRunVars(part = "llm" /\ TaskStep(r))

WorkSpec == WorkInit /\ [][WorkNext]_workVars /\ WorkFairness

-----------------------------------------------------------------------------
\* A lease whose activation is over runs out although the worker goes on renewing, an
\* abort reaches the running harness, and a worker that was taken offline executes
\* nothing it has not given back (supervisor.rs of the worker, workers.rs of the runtime).
WorkersLetGo ==
    /\ [](part = "worker" => OfflineIsIdle)
    /\ \A w \in Workers, l \in Leases :
         (part = "worker" /\ l \in Listing(w) /\ begun[l] > 0 /\ l \notin ActiveLeases(w))
             ~> (part = "worker" /\ l \notin Listing(w))
    /\ \A w \in Workers, r \in Runs :
         (part = "worker" /\ r \in DOMAIN active[w] /\ lease[r].abort)
             ~> (part = "worker" /\ (r \notin DOMAIN active[w] \/ active[w][r].abort))

\* The first end of an LLM run stays, and an aborted run stops (runs.rs).
LlmRunsEndOnce ==
    /\ [][\A r \in LlmIds : part = "llm" /\ Present(r) /\ row[r].status # "running" =>
             row'[r] = NoRow \/ row'[r].status \in {row[r].status, "expired"}]_llmRunVars
    /\ \A r \in LlmIds : (part = "llm" /\ Present(r) /\ row[r].status = "aborted")
                           ~> (part = "llm" /\ task[r] \in {"done", "lost"})
=============================================================================
