--------------------------- MODULE ProcessContract ---------------------------
(***************************************************************************)
(* What an execution runtime promises about the processes it starts, as    *)
(* the conformance suite (execution-conformance) asks it of every runtime: *)
(* each operation takes effect at one instant, whoever else is busy with   *)
(* the same execution.  ProcessManager implements it.                      *)
(***************************************************************************)
EXTENDS Integers

CONSTANTS
    Execs,      \* execution ids
    TermOps,    \* operation ids of terminate requests
    Writes      \* write ids of input requests

VARIABLES
    status,     \* the ExecutionState a read returns
    process,    \* the process: none yet, running or gone
    cause,      \* what ended it, if not the process itself
    killed,     \* executions whose process was sent a kill
    answered,   \* the result each terminate request has and repeats
    taken,      \* write ids that are accepted
    applied     \* how often each input reached the process

contractVars == <<status, process, cause, killed, answered, taken, applied>>

Over(e) == status[e] \in {"exited", "cancelled", "failed"}
NoAnswer == [o \in TermOps |-> "none"]
NoInput == [w \in Writes |-> 0]

Init ==
    /\ status = [e \in Execs |-> "starting"] /\ process = [e \in Execs |-> "none"]
    /\ cause = [e \in Execs |-> "normal"] /\ killed = {}
    /\ answered = [e \in Execs |-> NoAnswer]
    /\ taken = [e \in Execs |-> {}] /\ applied = [e \in Execs |-> NoInput]

\* A start is idempotent: an execution id has one process, ever.
Start(e) ==
    /\ process[e] = "none"
    /\ process' = [process EXCEPT ![e] = "running"]
    /\ UNCHANGED <<status, cause, killed, answered, taken, applied>>

\* A start that fails before it is reported leaves nothing behind.
StartFails(e) ==
    /\ status[e] = "starting"
    /\ process' = [process EXCEPT ![e] = "none"]
    /\ cause' = [cause EXCEPT ![e] = "normal"]
    /\ killed' = killed \ {e}
    /\ answered' = [answered EXCEPT ![e] = NoAnswer]
    /\ taken' = [taken EXCEPT ![e] = {}]
    /\ applied' = [applied EXCEPT ![e] = NoInput]
    /\ UNCHANGED status

Started(e) ==
    /\ status[e] = "starting" /\ process[e] # "none"
    /\ status' = [status EXCEPT ![e] = "running"]
    /\ UNCHANGED <<process, cause, killed, answered, taken, applied>>

\* A timeout or a terminate: the first one counts.
Decide(e, why) ==
    /\ process[e] # "none" /\ cause[e] = "normal"
    /\ cause' = [cause EXCEPT ![e] = why]
    /\ UNCHANGED <<status, process, killed, answered, taken, applied>>

\* A signal that a process cannot ignore.
Kill(e) ==
    /\ process[e] # "none" /\ ~Over(e)
    /\ killed' = killed \union {e}
    /\ UNCHANGED <<status, process, cause, answered, taken, applied>>

Exit(e) ==
    /\ process[e] = "running"
    /\ process' = [process EXCEPT ![e] = "gone"]
    /\ UNCHANGED <<status, cause, killed, answered, taken, applied>>

\* A terminated process is cancelled, a timed process failed, another one exited.
Result(why) ==
    CASE why = "terminated" -> "cancelled"
      [] why = "timed_out"  -> "failed"
      [] OTHER              -> "exited"

\* A reader sees one outcome, once the process is gone.
Publish(e) ==
    /\ status[e] = "running" /\ process[e] = "gone"
    /\ status' = [status EXCEPT ![e] = Result(cause[e])]
    /\ UNCHANGED <<process, cause, killed, answered, taken, applied>>

\* The rest of the output is lost.
Lose(e) ==
    /\ status[e] # "starting" /\ process[e] = "gone"
    /\ status' = [status EXCEPT ![e] = "failed"]
    /\ UNCHANGED <<process, cause, killed, answered, taken, applied>>

\* A terminate request is answered once it cannot fail to end the process, and
\* its answer tells whether it was this request, or the timeout, that did.
Answer(e, o, result) ==
    /\ answered[e][o] = "none"
    /\ result = "was_not" => Over(e)
    /\ result = "was_running" => cause[e] # "normal" /\ (Over(e) \/ e \in killed)
    /\ answered' = [answered EXCEPT ![e][o] = result]
    /\ UNCHANGED <<status, process, cause, killed, taken, applied>>

\* Input with a new write id reaches the process once, or finds its input closed.
Input(e, w) ==
    /\ process[e] # "none" /\ w \notin taken[e]
    /\ taken' = [taken EXCEPT ![e] = @ \union {w}]
    /\ applied' \in {applied, [applied EXCEPT ![e][w] = @ + 1]}
    /\ UNCHANGED <<status, process, cause, killed, answered>>

Next ==
    \E e \in Execs :
        \/ Start(e) \/ StartFails(e) \/ Started(e) \/ Kill(e) \/ Exit(e) \/ Publish(e) \/ Lose(e)
        \/ \E why \in {"terminated", "timed_out"} : Decide(e, why)
        \/ \E o \in TermOps, result \in {"was_running", "was_not"} : Answer(e, o, result)
        \/ \E w \in Writes : Input(e, w)

Spec == Init /\ [][Next]_contractVars
=============================================================================
