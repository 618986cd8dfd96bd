----------------------------- MODULE ExecAliases -----------------------------
(***************************************************************************)
(* The numbers by which a model addresses the processes of its session     *)
(* (sessions.rs of the basic-codex and unified-exec harnesses).  A number  *)
(* is allocated when a command is prepared, saved with the plan of the     *)
(* call, and shown to the model in the result.  The harness keeps the      *)
(* session's entries in memory between its commits; a driver may be cut    *)
(* off at any time, and loses them.  A fork inherits messages, and with    *)
(* them the numbers they show, but none of the private state.              *)
(***************************************************************************)
EXTENDS Integers, Sequences, FiniteSets, FiniteSetsExt

CONSTANTS
    Branches,       \* a session and its forks
    Trunk,          \* the session that is not a fork
    BranchHarness,  \* the harness of each of them
    MaxSessions,    \* the 32 process sessions that may be retained
    MaxAlias,       \* i32::MAX: numbers are exhausted
    MaxCommands     \* bound: commands

ASSUME AliasAssumption ==
    /\ Trunk \in Branches /\ BranchHarness \in [Branches -> {"codex", "unified"}]
    /\ MaxSessions \in Nat /\ MaxAlias \in Nat /\ MaxCommands \in Nat

VARIABLES
    shown,     \* the messages of a branch: which number each result shows for which command
    saved,     \* its committed session state: allocator, entries, and the plan of the call
    memory,    \* its driver's copy
    used,      \* commands so far
    answers    \* history: the command a number stood for when the model used it

aliasVars == <<shown, saved, memory, used, answers>>

Entries == [1..MaxAlias -> 0..MaxCommands]
NoEntries == [a \in 1..MaxAlias |-> 0]
NoState == [last |-> 0, entries |-> NoEntries, plan |-> 0, command |-> 0]
Unloaded == [at |-> "unloaded"]

AliasesInit ==
    /\ shown = [b \in Branches |-> <<>>]
    /\ saved = [b \in Branches |-> NoState]
    /\ memory = [b \in Branches |-> Unloaded]
    /\ used = 0 /\ answers = {}

LiveCommands(b) == b = Trunk \/ shown[b] # <<>>
Retained(state) == Cardinality({a \in 1..MaxAlias : state.entries[a] # 0})

\* The largest number that a message of the branch shows.
InheritedMax(b) == Max({0} \union {shown[b][k].alias : k \in 1..Len(shown[b])})

\* Faulty variant: the numbers of inherited messages are not looked at.
LoadPrivate(b) ==
    /\ LiveCommands(b) /\ memory[b] = Unloaded
    /\ memory' = [memory EXCEPT ![b] = [at |-> "loaded", state |-> saved[b], inherited |-> 0]]
    /\ UNCHANGED <<shown, saved, used, answers>>

\* Sessions::load: the committed state, and the messages.
Load(b) ==
    /\ LiveCommands(b) /\ memory[b] = Unloaded
    /\ memory' = [memory EXCEPT ![b] =
                    [at |-> "loaded", state |-> saved[b], inherited |-> InheritedMax(b)]]
    /\ UNCHANGED <<shown, saved, used, answers>>

\* save and Sessions::accept: the writes and the messages are committed together, or the
\* driver ends without knowing.
CommitAliases(b, state, message) ==
    /\ saved' = [saved EXCEPT ![b] = state]
    /\ shown' = [shown EXCEPT ![b] = @ \o message]
    /\ \/ memory' = [memory EXCEPT ![b].state = state]
       \/ memory' = [memory EXCEPT ![b] = Unloaded]

At(b) == memory[b].at = "loaded"
State(b) == memory[b].state

\* Sessions::allocate
NextAlias(b) == Max({State(b).last, memory[b].inherited}) + 1
MayAllocate(b) == Retained(State(b)) < MaxSessions /\ NextAlias(b) <= MaxAlias

\* A command is prepared: its plan is saved with its number and the allocator.  If it
\* cannot be prepared, the number is spent all the same.
PrepareCommand(b) ==
    /\ At(b) /\ State(b).plan = 0 /\ MayAllocate(b) /\ used < MaxCommands
    /\ used' = used + 1
    /\ \/ CommitAliases(b, [last |-> NextAlias(b), entries |-> State(b).entries,
                             plan |-> NextAlias(b), command |-> used'], <<>>)
       \/ CommitAliases(b, [State(b) EXCEPT !.last = NextAlias(b)], <<>>)
    /\ UNCHANGED answers

\* The result of the call shows the number; a process that is still running is kept.
FinishCommand(b) ==
    LET s == State(b)
        message == [alias |-> s.plan, command |-> s.command]
    IN  /\ At(b) /\ s.plan # 0
        /\ \E running \in BOOLEAN :
             CommitAliases(b, [last |-> s.last, entries |-> [s.entries EXCEPT ![s.plan] = IF running THEN s.command ELSE 0],
                                 plan |-> 0, command |-> 0], <<message>>)
        /\ UNCHANGED <<used, answers>>

\* The model uses a number it was shown: Sessions::get finds its process or none.  The
\* process may have ended, or be lost with its host.
UseAlias(b, k) ==
    LET a == shown[b][k].alias  s == State(b) IN
    /\ At(b) /\ s.plan = 0
    /\ answers' = answers \union {<<b, k, s.entries[a]>>}
    /\ \E ended \in BOOLEAN :
         CommitAliases(b, IF ended THEN [s EXCEPT !.entries[a] = 0] ELSE s, <<>>)
    /\ UNCHANGED used

\* The worker stops, or loses its lease.
CutOff(b) ==
    /\ At(b)
    /\ memory' = [memory EXCEPT ![b] = Unloaded]
    /\ UNCHANGED <<shown, saved, used, answers>>

\* fork_session: the messages up to a revision, and no state.
Fork(from, to, n) ==
    /\ ~LiveCommands(to) /\ LiveCommands(from) /\ n \in 1..Len(shown[from])
    /\ shown' = [shown EXCEPT ![to] = SubSeq(shown[from], 1, n)]
    /\ UNCHANGED <<saved, memory, used, answers>>

AliasStep(b) ==
    \/ Load(b) \/ PrepareCommand(b) \/ FinishCommand(b) \/ CutOff(b)
    \/ \E k \in 1..Len(shown[b]) : UseAlias(b, k)
CodexSessions(b) == BranchHarness[b] = "codex" /\ AliasStep(b)
UnifiedSessions(b) == BranchHarness[b] = "unified" /\ AliasStep(b)

AliasesNext ==
    \/ \E b \in Branches : CodexSessions(b) \/ UnifiedSessions(b)
    \/ \E from, to \in Branches : \E n \in 1..Len(shown[from]) : Fork(from, to, n)

AliasesSpec == AliasesInit /\ [][AliasesNext]_aliasVars

-----------------------------------------------------------------------------
\* Types.
AliasState == [last : 0..MaxAlias, entries : Entries, plan : 0..MaxAlias, command : 0..MaxCommands]
AliasMessages == [alias : 1..MaxAlias, command : 1..MaxCommands]

AliasTypeOK ==
    /\ shown \in [Branches -> Seq(AliasMessages)]
    /\ saved \in [Branches -> AliasState]
    /\ memory \in [Branches -> {Unloaded} \cup [at : {"loaded"}, state : AliasState, inherited : 0..MaxAlias]]
    /\ used \in 0..MaxCommands
    /\ answers \subseteq Branches \X Nat \X (0..MaxCommands)

\* A number a model has seen stands for the command whose result showed it, or for
\* nothing: never for another command, in its session or in a fork of it, although
\* drivers are cut off between preparing a command and showing its number ("Fork
\* history retains exposed aliases but private state starts empty", sessions.rs:43).
NumbersNameOneCommand ==
    /\ \A b \in Branches : \A i, j \in 1..Len(shown[b]) :
         shown[b][i].alias = shown[b][j].alias => i = j
    /\ \A x \in answers : x[3] \in {0, shown[x[1]][x[2]].command}
    /\ \A b \in Branches : Retained(saved[b]) <= MaxSessions
=============================================================================
