--------------------------- MODULE MCRunSessions ---------------------------
(***************************************************************************)
(* Sessions for TLC: the runs of RunLifecycle, and the code-mode journal   *)
(* that a run keeps in its session.  A behaviour runs one of three parts:  *)
(* "takeover", a run that two workers take from each other; "sessions",    *)
(* one worker and three runs, two of which contest a session; "code".  No  *)
(* cell is admitted in the other parts, and no run is created in this one. *)
(***************************************************************************)
EXTENDS RunLifecycle, CodeJournal, TLC

CONSTANTS w1, w2, r1, r2, r3, s1, s2

VARIABLE part

EveryHarness == [w \in Workers |-> Runs]

\* r1 and r2 contest a session, r3 has one of its own.
SharedSession == [r \in Runs |-> IF r = r3 THEN s2 ELSE s1]

\* Both parts of RunLifecycle treat the workers alike.
WorkerSymmetry == Permutations(Workers)

-----------------------------------------------------------------------------
\* The bounds of the two parts of RunLifecycle.
Narrow ==
    /\ s2 \notin archived'
    /\ part = "takeover" => /\ status'[r2] = "absent" /\ status'[r3] = "absent"
                            /\ archived' = {}
                            /\ \A w \in Workers : capacity'[w] <= 1 /\ workerStatus'[w] # "draining"
    /\ part = "sessions" => /\ \E w \in Workers : workerStatus'[w] = "absent"
                            /\ checkpoint' = checkpoint /\ \A r \in Runs : epoch'[r] <= 2

SessionsInit ==
    /\ part \in {"takeover", "sessions", "code"}
    /\ Init
    /\ CodeInit

SessionsNext ==
    \/ /\ part \in {"takeover", "sessions"} /\ Next /\ Narrow
       /\ UNCHANGED <<codeVars, part>>
    \/ part = "code" /\ CodeNext /\ UNCHANGED <<vars, part>>

recordVars == <<vars, codeVars, part>>

SessionsSpec == SessionsInit /\ [][SessionsNext]_recordVars

=============================================================================
