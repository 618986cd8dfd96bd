------------------------------ MODULE MCTools ------------------------------
(***************************************************************************)
(* The tools of an agent that act on a machine or run a script, for TLC:   *)
(* commands, files and code-mode cells.  They share no state: a behaviour  *)
(* runs one of them.  The variables of the commands are Off when they do   *)
(* not run; those of files and cells keep their initial values, over which *)
(* the contract of the files stutters.                                     *)
(***************************************************************************)
EXTENDS ExecTools, FileTools, CodeCells

CONSTANTS p1, p2, e1

VARIABLE part

SomeHunks == << [does |-> "update", from |-> p1, to |-> NoPath],
                [does |-> "move", from |-> p2, to |-> p1] >>
EditF == [c \in Editors |-> p1]

Off == "off"

ExecOff ==
    /\ kind = Off /\ events = Off /\ pstate = Off /\ written = Off /\ applied = Off
    /\ plan = Off /\ draft = Off /\ due = Off /\ session = Off /\ answers = Off /\ asked = Off
    /\ losses = Off

ToolsInit ==
    /\ part \in {"exec", "files", "cells"}
    /\ IF part = "exec" THEN ExecInit ELSE ExecOff
    /\ CellsInit
    /\ FilesInit

\* Bound: a restart and an outside write both happen only where no patch is begun.
Narrow == generation > 0 /\ outside > 0 => client[Patcher].at = "begin"

ToolsNext ==
    \/ part = "exec" /\ ExecNext /\ UNCHANGED <<fileVars, cellVars, part>>
    \/ part = "files" /\ FilesNext /\ Narrow' /\ UNCHANGED <<execVars, cellVars, part>>
    \/ part = "cells" /\ CellsNext /\ UNCHANGED <<execVars, fileVars, part>>

toolVars == <<execVars, fileVars, cellVars, part>>

\* ExecFairness and CellsFairness, of the part that runs.
ToolsFairness ==
    /\ WF_execVars(part = "exec" /\ Respond)
    /\ WF_execVars(part = "exec" /\ Close)
    /\ WF_execVars(part = "exec" /\ Deadline)
    /\ WF_execVars(part = "exec" /\ kind = "bash" /\ Exit)
    /\ WF_cellVars(part = "cells" /\ Join)
    /\ WF_cellVars(part = "cells" /\ Observe)
    /\ \A c \in Cells : WF_cellVars(part = "cells" /\ Terminated(c))

ToolsSpec == ToolsInit /\ [][ToolsNext]_toolVars /\ ToolsFairness

-----------------------------------------------------------------------------
\* The results of the calls about one command partition its output, input is applied
\* once, and what is kept of a long output is its longest end that fits, although a
\* page may be lost with the worker and read again (unified-exec, bash-minimal).
CommandResultsAreExact ==
    part = "exec" => ResultsPartitionOutput /\ StdinAppliedOnce /\ TailIsTheLongest

\* A call about a command is answered, at the latest by its deadline (poll of
\* unified-exec and bash-minimal).
CommandsAreAnswered ==
    (part = "exec" /\ plan.at # "idle") ~> (part = "exec" /\ plan.at = "idle")

\* A script that is told to stop does, whatever its task waits for (live/process.rs of
\* code-mode).
ScriptsStop == (part = "cells" /\ outer.at = "join") ~> (part = "cells" /\ outer.at = "idle")
=============================================================================
