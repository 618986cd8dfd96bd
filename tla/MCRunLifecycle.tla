--------------------------- MODULE MCRunLifecycle ---------------------------
(***************************************************************************)
(* One run for TLC, and the numbers of the commands it started.  A         *)
(* behaviour has one of two parts: "inbox", a run with its waits and its   *)
(* messages, in a session that is not archived; and "aliases", the numbers *)
(* of a session and a fork of it.  No command is started in the first, and *)
(* no run is created in the second.                                        *)
(***************************************************************************)
EXTENDS RunLifecycle, ExecAliases, TLC

CONSTANTS w1, r1, k1, k2, m1, s1, b1, b2

VARIABLE part

EveryHarness == [w \in Workers |-> Runs]
OneSession == [r \in Runs |-> s1]

\* ExecAliases: a session and a fork of it under another harness.
TheHarness == [b \in Branches |-> IF b = b1 THEN "codex" ELSE "unified"]

-----------------------------------------------------------------------------
LifecycleInit ==
    /\ part \in {"inbox", "aliases"}
    /\ Init
    /\ AliasesInit

LifecycleNext ==
    \/ part = "inbox" /\ Next /\ archived' = {} /\ UNCHANGED <<aliasVars, part>>
    \/ part = "aliases" /\ AliasesNext /\ UNCHANGED <<vars, part>>

LifecycleSpec == LifecycleInit /\ [][LifecycleNext]_<<vars, aliasVars, part>> /\ Fairness
=============================================================================
