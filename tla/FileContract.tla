----------------------------- MODULE FileContract -----------------------------
(***************************************************************************)
(* What an execution runtime promises about mutations of files, as the     *)
(* conformance suite (execution-conformance, run_filesystem) asks it of    *)
(* every runtime: a mutation takes effect at one instant and under its     *)
(* condition, and a fenced one once, however often it is sent.  One that   *)
(* is not fenced may be repeated to a host that has forgotten it, and then *)
(* its condition is all that stands before a second effect.  The           *)
(* supervisor's filesystem of FileTools implements this.                   *)
(***************************************************************************)
EXTENDS Integers, Sequences

CONSTANTS
    Paths,
    Absent,     \* the content of a path that does not exist
    Anything    \* the condition that always holds

VARIABLES
    content,    \* the content of every path
    effects,    \* the mutations that took effect
    told,       \* operations that were answered with success
    disturbed   \* writes of other processes and ends of the host, so far

contractVars == <<content, effects, told, disturbed>>

Done == {effects[k].op : k \in 1..Len(effects)}

Init == /\ content \in [Paths -> [of : {"original"}, path : Paths]]
        /\ effects = <<>> /\ told = {}
        /\ disturbed = 0

\* The mutation that takes effect in this step; a fenced one is a new operation.
Takes(m) ==
    /\ Len(effects') = Len(effects) + 1
    /\ m = effects'[Len(effects')]
    /\ effects' = Append(effects, m)
    /\ m.fenced => m.op \notin Done

\* A condition: no file there yet, the revision that was seen, or none at all.
Holds(m) == m.expects = Anything \/ content[m.path] = m.expects

\* write: the complete content replaces what the condition allows.
Write ==
    LET m == effects'[Len(effects')] IN
    /\ Takes(m) /\ m.does = "write"
    /\ Holds(m)
    /\ content' = [content EXCEPT ![m.path] = m.data]
    /\ UNCHANGED <<told, disturbed>>

\* remove: of something that exists.
Remove ==
    LET m == effects'[Len(effects')] IN
    /\ Takes(m) /\ m.does = "remove"
    /\ content[m.path] # Absent
    /\ content' = [content EXCEPT ![m.path] = Absent]
    /\ UNCHANGED <<told, disturbed>>

\* An answer of success follows the effect, and is repeated to every repeat.
Answer ==
    /\ told' \subseteq Done
    /\ UNCHANGED <<content, effects, disturbed>>

\* Another process of the host changes a file in any way, or the end of the host
\* interrupts a write in place.  Nothing else changes a file without a mutation.
Outside(p) ==
    /\ disturbed' = disturbed + 1
    /\ content' = [content EXCEPT ![p] = content'[p]]
    /\ UNCHANGED <<effects, told>>

\* The host ends with no write under way.
End == disturbed' = disturbed + 1 /\ UNCHANGED <<content, effects, told>>

Next ==
    \/ Len(effects') > Len(effects) /\ (Write \/ Remove)
    \/ Answer \/ End
    \/ \E p \in Paths : Outside(p)

Spec == Init /\ [][Next]_contractVars
=============================================================================
