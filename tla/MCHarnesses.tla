---------------------------- MODULE MCHarnesses ----------------------------
(* The five harnesses for TLC: two inputs, small batches of tool calls. *)
EXTENDS Harnesses

CONSTANTS i1, i2

\* Every tool alone, and the pairs in which the second call finds something
\* the first one left: a process, a session, a plan, a cell.
SomeBatches ==
    {<< >>, <<"process">>, <<"stdin">>, <<"mutation">>, <<"query">>, <<"script">>,
     <<"process", "process">>, <<"process", "stdin">>, <<"mutation", "process">>,
     <<"script", "script">>, <<"script", "query">>}

\* Bound: a second message is met in the behaviours without an outage and without
\* a batch of two, and not by the harnesses whose steps are another one's.
Narrow ==
    input'[i2] # "none" =>
        /\ down' = "none" /\ harness \notin {"unified", "environments"}
        /\ \A m \in DOMAIN history' :
              history'[m].role = "assistant" => Len(history'[m].calls) <= 1

\* DriverFairSpec within these bounds.
HarnessSpec ==
    /\ DriverInit /\ [][DriverNext /\ Narrow]_driverVars
    /\ WF_driverVars(DriverStep /\ Narrow)
    /\ WF_driverVars(SeeAbort)
    /\ \A e \in 0..MaxEffects : WF_driverVars(HostStarts(e))
=============================================================================
