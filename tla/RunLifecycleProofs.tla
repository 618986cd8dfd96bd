------------------------- MODULE RunLifecycleProofs -------------------------
(***************************************************************************)
(* Theorems about the runs of the runtime (RunLifecycle), for every number *)
(* of workers, sessions, runs, messages and waits and for every value of   *)
(* the bounds; and before them, about two users of a session's state: the  *)
(* numbers of commands (ExecAliases) and the journal of code mode          *)
(* (CodeJournal).                                                          *)
(***************************************************************************)
EXTENDS RunLifecycle, ExecAliases, CodeJournal, FiniteSetTheorems, WellFoundedInduction, TLAPS

-----------------------------------------------------------------------------
(* The numbers of commands (ExecAliases). *)

\* A driver's copy is the committed state, and it knows of every number shown.
CopyOf(b) ==
    At(b) => /\ LiveCommands(b) /\ State(b) = saved[b]
             /\ \A k \in 1..Len(shown[b]) :
                  shown[b][k].alias <= saved[b].last \/ shown[b][k].alias <= memory[b].inherited

\* The plan of a call has a number above all that are shown, and its entry has room.
PlanOf(b) ==
    /\ saved[b].plan <= saved[b].last
    /\ saved[b].plan # 0 =>
          /\ saved[b].command # 0 /\ Retained(saved[b]) < MaxSessions
          /\ \A k \in 1..Len(shown[b]) : shown[b][k].alias < saved[b].plan

\* The entries are of messages the branch shows.
EntriesOf(b) ==
    /\ Retained(saved[b]) <= MaxSessions
    /\ \A a \in 1..MaxAlias : saved[b].entries[a] # 0 =>
          \E k \in 1..Len(shown[b]) : shown[b][k].alias = a /\ shown[b][k].command = saved[b].entries[a]

DistinctIn(b) ==
    \A i, j \in 1..Len(shown[b]) : shown[b][i].alias = shown[b][j].alias => i = j

UnbornIs(b) == ~LiveCommands(b) => saved[b] = NoState /\ memory[b] = Unloaded

BranchOK(b) == CopyOf(b) /\ PlanOf(b) /\ EntriesOf(b) /\ DistinctIn(b) /\ UnbornIs(b)

AnswersOK ==
    \A x \in answers : x[2] \in 1..Len(shown[x[1]]) /\ x[3] \in {0, shown[x[1]][x[2]].command}

AliasInv == AliasTypeOK /\ (\A b \in Branches : BranchOK(b)) /\ AnswersOK

-----------------------------------------------------------------------------
\* Every set of naturals with a member has a least one.
LEMMA NatMinimum ==
    ASSUME NEW T, T \subseteq Nat, T # {}
    PROVE  \E x \in T : \A y \in T : x <= y
<1> DEFINE R == OpToRel(<, Nat)
<1>1. IsWellFoundedOn(R, Nat)
  BY NatLessThanWellFounded
<1>2. \A x, y \in Nat : <<y, x>> \in R <=> y < x
  BY DEF OpToRel
<1> HIDE DEF R
<1>3. PICK x \in T : \A y \in T : ~ (<<y, x>> \in R)
  BY <1>1, WFMin
<1>4. ASSUME NEW y \in T PROVE x <= y
  <2>1. x \in Nat /\ y \in Nat
    OBVIOUS
  <2>2. ~(y < x)
    BY <2>1, <1>2, <1>3
  <2> QED BY <2>1, <2>2
<1> QED BY <1>4

\* The maximum of a bounded set of naturals.
LEMMA MaxBounded ==
    ASSUME NEW m \in Nat, NEW S, S \subseteq 0..m, S # {}
    PROVE  Max(S) \in S /\ \A y \in S : Max(S) >= y
<1> DEFINE T == {z \in 0..m : m - z \in S}
<1>1. T \subseteq Nat /\ T # {}
  <2>1. PICK s \in S : TRUE
    OBVIOUS
  <2>2. m - s \in 0..m /\ m - (m - s) = s
    OBVIOUS
  <2>3. m - s \in T
    BY <2>1, <2>2
  <2> QED BY <2>3
<1>2. PICK t \in T : \A u \in T : t <= u
  <2> HIDE DEF T
  <2> QED BY <1>1, NatMinimum
<1>3. m - t \in S
  BY <1>2
<1>4. ASSUME NEW y \in S PROVE m - t >= y
  <2>1. m - y \in 0..m /\ m - (m - y) = y
    OBVIOUS
  <2>2. m - y \in T
    BY <2>1
  <2>3. t <= m - y
    BY <1>2, <2>2
  <2>4. t \in 0..m /\ y \in 0..m
    OBVIOUS
  <2> QED BY <2>3, <2>4
<1> HIDE DEF T
<1>5. \E x \in S : \A y \in S : x >= y
  BY <1>3, <1>4
<1> QED BY <1>5 DEF Max

LEMMA AliasBounds == MaxSessions \in Nat /\ MaxAlias \in Nat /\ MaxCommands \in Nat /\ Trunk \in Branches
  BY AliasAssumption

\* How many entries there are.
LEMMA RetainedFacts ==
    ASSUME NEW s \in AliasState
    PROVE  /\ Retained(s) \in Nat
           /\ \A t \in AliasState, a \in 1..MaxAlias, v \in 0..MaxCommands :
                /\ t.entries = s.entries => Retained(t) = Retained(s)
                /\ t.entries = [s.entries EXCEPT ![a] = v] => Retained(t) <= Retained(s) + 1
                /\ t.entries = [s.entries EXCEPT ![a] = 0] => Retained(t) <= Retained(s)
<1> DEFINE E(t) == {a \in 1..MaxAlias : t.entries[a] # 0}
<1>1. ASSUME NEW t PROVE IsFiniteSet(E(t)) /\ Cardinality(E(t)) \in Nat
  <2>1. IsFiniteSet(1..MaxAlias)
    BY AliasBounds, FS_Interval
  <2>2. IsFiniteSet(E(t))
    BY <2>1, FS_Subset
  <2> QED BY <2>2, FS_CardinalityType
<1>2. ASSUME NEW t \in AliasState, NEW a \in 1..MaxAlias, NEW v \in 0..MaxCommands
      PROVE  /\ t.entries = s.entries => Retained(t) = Retained(s)
             /\ t.entries = [s.entries EXCEPT ![a] = v] => Retained(t) <= Retained(s) + 1
             /\ t.entries = [s.entries EXCEPT ![a] = 0] => Retained(t) <= Retained(s)
  <2>1. t.entries = s.entries => Retained(t) = Retained(s)
    BY DEF Retained
  <2>2. s.entries \in [1..MaxAlias -> 0..MaxCommands]
    BY DEF AliasState, Entries
  <2>3. ASSUME t.entries = [s.entries EXCEPT ![a] = v] PROVE Retained(t) <= Retained(s) + 1
    <3>1. E(t) \subseteq E(s) \cup {a}
      BY <2>2, <2>3
    <3>2. IsFiniteSet(E(s) \cup {a}) /\ Cardinality(E(s) \cup {a}) <= Cardinality(E(s)) + 1
      <4> HIDE DEF E
      <4>1. /\ IsFiniteSet(E(s) \cup {a})
            /\ Cardinality(E(s) \cup {a}) = IF a \in E(s) THEN Cardinality(E(s)) ELSE Cardinality(E(s)) + 1
        BY <1>1, FS_AddElement
      <4> QED BY <1>1, <4>1
    <3>3. Cardinality(E(t)) <= Cardinality(E(s) \cup {a})
      <4> HIDE DEF E
      <4> QED BY <3>1, <3>2, FS_Subset
    <3>4. Cardinality(E(s) \cup {a}) \in Nat
      BY <3>2, FS_CardinalityType
    <3>5. Cardinality(E(t)) <= Cardinality(E(s)) + 1
      <4> HIDE DEF E
      <4> QED BY <1>1, <3>2, <3>3, <3>4
    <3> QED BY <3>5 DEF Retained
  <2>4. ASSUME t.entries = [s.entries EXCEPT ![a] = 0] PROVE Retained(t) <= Retained(s)
    <3>1. E(t) \subseteq E(s)
      BY <2>2, <2>4
    <3>2. Cardinality(E(t)) <= Cardinality(E(s))
      <4> HIDE DEF E
      <4> QED BY <1>1, <3>1, FS_Subset
    <3> QED BY <3>2 DEF Retained
  <2> QED BY <2>1, <2>3, <2>4
<1>3. Retained(s) \in Nat
  BY <1>1 DEF Retained
<1> QED BY <1>2, <1>3

LEMMA NoEntryRetained == Retained(NoState) = 0 /\ NoState \in AliasState
<1>1. {a \in 1..MaxAlias : NoState.entries[a] # 0} = {}
  BY DEF NoState, NoEntries
<1>2. NoState \in AliasState
  BY AliasBounds DEF NoState, NoEntries, AliasState, Entries
<1> QED BY <1>1, <1>2, FS_EmptySet DEF Retained

LEMMA AliasInitially == AliasesInit => AliasInv
<1> SUFFICES ASSUME AliasesInit PROVE AliasInv
  OBVIOUS
<1>1. AliasTypeOK
  BY NoEntryRetained, AliasBounds DEF AliasesInit, AliasTypeOK
<1>2. ASSUME NEW b \in Branches PROVE BranchOK(b)
  <2>1. shown[b] = <<>> /\ saved[b] = NoState /\ memory[b] = Unloaded /\ Len(shown[b]) = 0
    BY DEF AliasesInit
  <2>2. CopyOf(b) /\ UnbornIs(b)
    BY <2>1 DEF CopyOf, At, Unloaded, UnbornIs
  <2>3. PlanOf(b) /\ DistinctIn(b)
    BY <2>1 DEF PlanOf, DistinctIn, NoState
  <2>4. EntriesOf(b)
    BY <2>1, NoEntryRetained, AliasBounds DEF EntriesOf, NoState, NoEntries
  <2> QED BY <2>2, <2>3, <2>4 DEF BranchOK
<1>3. AnswersOK
  BY DEF AliasesInit, AnswersOK
<1> QED BY <1>1, <1>2, <1>3 DEF AliasInv

\* What the committed state of a branch must be with the messages it shows.
Fits(s, messages, inherited) ==
    /\ \A k \in 1..Len(messages) : messages[k].alias <= s.last \/ messages[k].alias <= inherited
    /\ s.plan <= s.last
    /\ s.plan # 0 => /\ s.command # 0 /\ Retained(s) < MaxSessions
                     /\ \A k \in 1..Len(messages) : messages[k].alias < s.plan
    /\ Retained(s) <= MaxSessions
    /\ \A a \in 1..MaxAlias : s.entries[a] # 0 =>
          \E k \in 1..Len(messages) : messages[k].alias = a /\ messages[k].command = s.entries[a]
    /\ \A i, j \in 1..Len(messages) : messages[i].alias = messages[j].alias => i = j

\* The copy that a driver has loaded.
LEMMA LoadedFacts ==
    ASSUME AliasInv, NEW b \in Branches, At(b)
    PROVE  /\ State(b) = saved[b] /\ State(b) \in AliasState /\ LiveCommands(b)
           /\ memory[b] \in [at : {"loaded"}, state : AliasState, inherited : 0..MaxAlias]
           /\ shown[b] \in Seq(AliasMessages) /\ Fits(State(b), shown[b], memory[b].inherited)
<1>1. CopyOf(b) /\ PlanOf(b) /\ EntriesOf(b) /\ DistinctIn(b)
  BY DEF AliasInv, BranchOK
<1>2. State(b) = saved[b] /\ LiveCommands(b) /\ saved[b] \in AliasState /\ shown[b] \in Seq(AliasMessages)
  BY <1>1 DEF CopyOf, AliasInv, AliasTypeOK
<1>3. memory[b] \in [at : {"loaded"}, state : AliasState, inherited : 0..MaxAlias]
  <2>1. memory[b] # Unloaded
    BY DEF At, Unloaded
  <2> QED BY <2>1 DEF AliasInv, AliasTypeOK
<1>4. Fits(State(b), shown[b], memory[b].inherited)
  BY <1>1, <1>2 DEF Fits, CopyOf, PlanOf, EntriesOf, DistinctIn
<1> QED BY <1>2, <1>3, <1>4

\* A commit of a fitting state keeps everything.
LEMMA CommitKeeps ==
    ASSUME AliasInv, NEW b \in Branches, At(b), NEW s \in AliasState, NEW message \in Seq(AliasMessages),
           CommitAliases(b, s, message), used' \in 0..MaxCommands,
           Fits(s, shown[b] \o message, memory[b].inherited),
           answers' \subseteq Branches \X Nat \X (0..MaxCommands),
           \A x \in answers' : x[2] \in 1..Len(shown[x[1]]) /\ x[3] \in {0, shown[x[1]][x[2]].command}
    PROVE  AliasInv'
<1> DEFINE sh == shown[b] \o message
<1>1. /\ shown[b] \in Seq(AliasMessages) /\ LiveCommands(b)
      /\ memory[b] \in [at : {"loaded"}, state : AliasState, inherited : 0..MaxAlias]
  BY LoadedFacts
<1>2. /\ sh \in Seq(AliasMessages) /\ Len(sh) = Len(shown[b]) + Len(message)
      /\ \A k \in 1..Len(shown[b]) : sh[k] = shown[b][k]
      /\ Len(shown[b]) \in Nat /\ Len(message) \in Nat
  BY <1>1
<1>3. /\ shown' \in [Branches -> Seq(AliasMessages)] /\ shown'[b] = sh
      /\ \A c \in Branches \ {b} : shown'[c] = shown[c]
  <2> HIDE DEF sh
  <2>1. shown' = [shown EXCEPT ![b] = sh]
    BY DEF CommitAliases, sh, AliasInv, AliasTypeOK
  <2> QED BY <1>2, <2>1 DEF AliasInv, AliasTypeOK
<1>4. /\ saved' \in [Branches -> AliasState] /\ saved'[b] = s
      /\ \A c \in Branches \ {b} : saved'[c] = saved[c]
  BY DEF CommitAliases, AliasInv, AliasTypeOK
<1>5. /\ memory' \in [Branches -> {Unloaded} \cup [at : {"loaded"}, state : AliasState, inherited : 0..MaxAlias]]
      /\ \/ memory'[b] = Unloaded
         \/ memory'[b].state = s /\ memory'[b].inherited = memory[b].inherited
      /\ \A c \in Branches \ {b} : memory'[c] = memory[c]
  <2>1. CASE memory' = [memory EXCEPT ![b] = Unloaded]
    BY <2>1 DEF AliasInv, AliasTypeOK
  <2>2. CASE memory' = [memory EXCEPT ![b].state = s]
    <3> DEFINE m == [memory[b] EXCEPT !.state = s]
    <3>1. m \in [at : {"loaded"}, state : AliasState, inherited : 0..MaxAlias]
          /\ m.state = s /\ m.inherited = memory[b].inherited
      BY <1>1
    <3>2. memory' = [memory EXCEPT ![b] = m]
      BY <2>2 DEF AliasInv, AliasTypeOK
    <3> HIDE DEF m
    <3> QED BY <3>1, <3>2 DEF AliasInv, AliasTypeOK
  <2> QED BY <2>1, <2>2 DEF CommitAliases
<1>6. AliasTypeOK'
  BY <1>3, <1>4, <1>5 DEF AliasInv, AliasTypeOK
<1>7. \A x \in answers' : /\ x[2] \in 1..Len(shown'[x[1]])
                          /\ shown'[x[1]][x[2]] = shown[x[1]][x[2]]
  <2> HIDE DEF sh
  <2> SUFFICES ASSUME NEW x \in answers'
               PROVE x[2] \in 1..Len(shown'[x[1]]) /\ shown'[x[1]][x[2]] = shown[x[1]][x[2]]
    OBVIOUS
  <2>1. x[1] \in Branches /\ x[2] \in 1..Len(shown[x[1]])
    OBVIOUS
  <2>2. CASE x[1] = b
    BY <2>1, <2>2, <1>2, <1>3
  <2>3. CASE x[1] # b
    BY <2>1, <2>3, <1>3
  <2> QED BY <2>2, <2>3
<1>8. AnswersOK'
  BY <1>7 DEF AnswersOK
<1>9. ASSUME NEW c \in Branches PROVE BranchOK(c)'
  <2>1. CASE c = b
    <3>1. LiveCommands(c)'
      BY <2>1, <1>1, <1>2, <1>3 DEF LiveCommands
    <3>2. UnbornIs(c)'
      BY <3>1 DEF UnbornIs
    <3>0. Fits(s, sh, memory[b].inherited)
      OBVIOUS
    <3> HIDE DEF sh
    <3>a. shown'[c] = sh /\ saved'[c] = s
      BY <2>1, <1>3, <1>4
    <3>3. PlanOf(c)'
      BY <3>0, <3>a DEF Fits, PlanOf, Retained
    <3>4. EntriesOf(c)'
      BY <3>0, <3>a DEF Fits, EntriesOf, Retained
    <3>5. DistinctIn(c)'
      BY <3>0, <3>a DEF Fits, DistinctIn
    <3>6. CopyOf(c)'
      BY <2>1, <3>0, <3>1, <3>a, <1>5 DEF Fits, CopyOf, At, State, Unloaded
    <3> QED BY <3>2, <3>3, <3>4, <3>5, <3>6 DEF BranchOK
  <2>2. CASE c # b
    <3>1. shown'[c] = shown[c] /\ saved'[c] = saved[c] /\ memory'[c] = memory[c]
      BY <2>2, <1>3, <1>4, <1>5
    <3>2. BranchOK(c)
      BY DEF AliasInv
    <3> QED BY <3>1, <3>2 DEF BranchOK, CopyOf, PlanOf, EntriesOf, DistinctIn, UnbornIs, At, State,
                              LiveCommands, Retained
  <2> QED BY <2>1, <2>2
<1> QED BY <1>6, <1>8, <1>9 DEF AliasInv

LEMMA NoMessage ==
    ASSUME NEW q \in Seq(AliasMessages) PROVE q \o <<>> = q /\ <<>> \in Seq(AliasMessages)
  OBVIOUS

LEMMA OldAnswers ==
    ASSUME AliasInv, answers' = answers
    PROVE  /\ answers' \subseteq Branches \X Nat \X (0..MaxCommands)
           /\ \A x \in answers' : x[2] \in 1..Len(shown[x[1]]) /\ x[3] \in {0, shown[x[1]][x[2]].command}
  BY DEF AliasInv, AliasTypeOK, AnswersOK

LEMMA NextAliasFacts ==
    ASSUME AliasInv, NEW b \in Branches, At(b), MayAllocate(b)
    PROVE  /\ NextAlias(b) \in 1..MaxAlias /\ NextAlias(b) > State(b).last
           /\ \A k \in 1..Len(shown[b]) : shown[b][k].alias < NextAlias(b)
<1> DEFINE l == State(b).last
           h == memory[b].inherited
<1>1. l \in 0..MaxAlias /\ h \in 0..MaxAlias
  BY LoadedFacts DEF AliasState
<1>2. Max({l, h}) \in {l, h} /\ \A y \in {l, h} : Max({l, h}) >= y
  <2> HIDE DEF l, h
  <2>1. {l, h} \subseteq 0..MaxAlias /\ {l, h} # {}
    BY <1>1
  <2> QED BY <2>1, MaxBounded, AliasBounds
<1>3. NextAlias(b) = Max({l, h}) + 1 /\ NextAlias(b) <= MaxAlias
  BY DEF NextAlias, MayAllocate
<1>4. \A k \in 1..Len(shown[b]) : shown[b][k].alias \in Nat /\ (shown[b][k].alias <= l \/ shown[b][k].alias <= h)
  <2>1. shown[b] \in Seq(AliasMessages) /\ Fits(State(b), shown[b], h)
    BY LoadedFacts
  <2>2. \A k \in 1..Len(shown[b]) : shown[b][k] \in AliasMessages
    BY <2>1
  <2>3. \A k \in 1..Len(shown[b]) : shown[b][k].alias \in Nat
    BY <2>2 DEF AliasMessages
  <2> QED BY <2>1, <2>3 DEF Fits
<1> HIDE DEF l, h
<1>5. Max({l, h}) \in Nat /\ Max({l, h}) >= l /\ Max({l, h}) >= h
  BY <1>1, <1>2
<1>6. NextAlias(b) \in 1..MaxAlias /\ NextAlias(b) > l
  BY <1>1, <1>3, <1>5, AliasBounds
<1>7. ASSUME NEW k \in 1..Len(shown[b]) PROVE shown[b][k].alias < NextAlias(b)
  BY <1>1, <1>3, <1>4, <1>5
<1> QED BY <1>6, <1>7 DEF l


LEMMA PrepareKeeps == ASSUME AliasInv, NEW b \in Branches, PrepareCommand(b) PROVE AliasInv'
<1> DEFINE s == State(b)
           n == NextAlias(b)
           s1 == [last |-> n, entries |-> s.entries, plan |-> n, command |-> used']
           s2 == [s EXCEPT !.last = n]
<1>1. At(b) /\ MayAllocate(b) /\ s.plan = 0 /\ used < MaxCommands /\ used' = used + 1 /\ answers' = answers
  BY DEF PrepareCommand
<1>2. /\ s \in AliasState /\ shown[b] \in Seq(AliasMessages) /\ Fits(s, shown[b], memory[b].inherited)
  BY <1>1, LoadedFacts
<1>3. n \in 1..MaxAlias /\ n > s.last /\ \A k \in 1..Len(shown[b]) : shown[b][k].alias < n
  BY <1>1, NextAliasFacts
<1>4. used' \in 1..MaxCommands
  BY <1>1, AliasBounds DEF AliasInv, AliasTypeOK
<1>5. CommitAliases(b, s1, <<>>) \/ CommitAliases(b, s2, <<>>)
  BY DEF PrepareCommand
<1>6. Retained(s) < MaxSessions
  BY <1>1 DEF MayAllocate
<1> HIDE DEF s, n
<1>7. s1 \in AliasState /\ s1.last = n /\ s1.plan = n /\ s1.command = used' /\ s1.entries = s.entries
  BY <1>2, <1>3, <1>4 DEF AliasState
<1>8. s2 \in AliasState /\ s2.last = n /\ s2.plan = s.plan /\ s2.command = s.command /\ s2.entries = s.entries
  BY <1>2, <1>3 DEF AliasState
<1> HIDE DEF s1, s2
<1>9. Retained(s1) = Retained(s) /\ Retained(s2) = Retained(s) /\ Retained(s) \in Nat
  BY <1>2, <1>3, <1>4, <1>7, <1>8, RetainedFacts DEF Retained
<1>10. s.last \in Nat /\ n \in Nat /\ \A k \in 1..Len(shown[b]) : shown[b][k].alias \in Nat
  <2>1. \A k \in 1..Len(shown[b]) : shown[b][k] \in AliasMessages
    BY <1>2
  <2> QED BY <2>1, <1>2, <1>3 DEF AliasMessages, AliasState
<1>11. Fits(s1, shown[b], memory[b].inherited)
  BY <1>2, <1>3, <1>4, <1>6, <1>7, <1>9, <1>10, AliasBounds DEF Fits
<1>12. Fits(s2, shown[b], memory[b].inherited)
  BY <1>1, <1>2, <1>3, <1>6, <1>8, <1>9, <1>10, AliasBounds DEF Fits, s
<1>13. shown[b] \o <<>> = shown[b] /\ <<>> \in Seq(AliasMessages) /\ used' \in 0..MaxCommands
  BY <1>2, <1>4, NoMessage
<1>14. /\ answers' \subseteq Branches \X Nat \X (0..MaxCommands)
       /\ \A x \in answers' : x[2] \in 1..Len(shown[x[1]]) /\ x[3] \in {0, shown[x[1]][x[2]].command}
  BY <1>1, OldAnswers
<1>15. CASE CommitAliases(b, s1, <<>>)
  BY <1>1, <1>7, <1>11, <1>13, <1>14, <1>15, CommitKeeps
<1>16. CASE CommitAliases(b, s2, <<>>)
  BY <1>1, <1>8, <1>12, <1>13, <1>14, <1>16, CommitKeeps
<1> QED BY <1>5, <1>15, <1>16

LEMMA FinishKeeps == ASSUME AliasInv, NEW b \in Branches, FinishCommand(b) PROVE AliasInv'
<1> DEFINE s == State(b)
           message == [alias |-> s.plan, command |-> s.command]
<1>1. /\ At(b) /\ s.plan # 0 /\ used' = used /\ answers' = answers
      /\ \E running \in BOOLEAN :
             CommitAliases(b, [last |-> s.last, entries |-> [s.entries EXCEPT ![s.plan] = IF running THEN s.command ELSE 0],
                                 plan |-> 0, command |-> 0], <<message>>)
  BY DEF FinishCommand
<1>2. /\ s \in AliasState /\ shown[b] \in Seq(AliasMessages) /\ Fits(s, shown[b], memory[b].inherited)
  BY <1>1, LoadedFacts
<1> HIDE DEF s
<1>3. s.plan \in 1..MaxAlias /\ s.command \in 1..MaxCommands
  BY <1>1, <1>2, AliasBounds DEF AliasState, Fits
<1>4. message \in AliasMessages /\ message.alias = s.plan /\ message.command = s.command
  BY <1>3 DEF AliasMessages
<1> HIDE DEF message
<1>5. PICK v \in {0, s.command} :
        CommitAliases(b, [last |-> s.last, entries |-> [s.entries EXCEPT ![s.plan] = v], plan |-> 0, command |-> 0],
                      <<message>>)
  BY <1>1
<1> DEFINE t == [last |-> s.last, entries |-> [s.entries EXCEPT ![s.plan] = v], plan |-> 0, command |-> 0]
           sh == shown[b] \o <<message>>
<1>6. /\ t \in AliasState /\ t.last = s.last /\ t.plan = 0
      /\ t.entries = [s.entries EXCEPT ![s.plan] = v]
  <2>1. [s.entries EXCEPT ![s.plan] = v] \in Entries
    BY <1>2, <1>3, <1>5, AliasBounds DEF AliasState, Entries
  <2> QED BY <1>2, <2>1, AliasBounds DEF AliasState
<1>7. /\ <<message>> \in Seq(AliasMessages) /\ sh \in Seq(AliasMessages) /\ Len(sh) = Len(shown[b]) + 1
      /\ sh[Len(shown[b]) + 1] = message /\ Len(shown[b]) \in Nat
      /\ \A k \in 1..Len(shown[b]) : sh[k] = shown[b][k]
  BY <1>2, <1>4
<1>8. Retained(t) <= MaxSessions
  <2>1. Retained(s) \in Nat /\ Retained(t) \in Nat /\ Retained(t) <= Retained(s) + 1
    <3> HIDE DEF t
    <3>1. v \in 0..MaxCommands
      BY <1>3, AliasBounds
    <3> QED BY <1>2, <1>3, <1>6, <3>1, RetainedFacts
  <2> QED BY <2>1, <1>1, <1>2, AliasBounds DEF Fits
<1> HIDE DEF t
<1>9. Fits(t, sh, memory[b].inherited)
  <2> HIDE DEF sh
  <2>0. \A k \in 1..Len(sh) : k \in 1..Len(shown[b]) \/ k = Len(shown[b]) + 1
    BY <1>7
  <2>a. \A k \in 1..Len(shown[b]) : shown[b][k].alias < s.plan /\ shown[b][k].alias \in Nat
    <3>1. \A k \in 1..Len(shown[b]) : shown[b][k] \in AliasMessages
      BY <1>2
    <3> QED BY <1>1, <1>2, <3>1 DEF Fits, AliasMessages
  <2>b. s.plan <= s.last /\ s.last \in 0..MaxAlias
    BY <1>2 DEF Fits, AliasState
  <2>1. \A k \in 1..Len(sh) : sh[k].alias <= t.last \/ sh[k].alias <= memory[b].inherited
    BY <1>2, <1>4, <1>6, <1>7, <2>0, <2>b DEF Fits
  <2>2. t.plan <= t.last
    BY <1>6, <2>b, AliasBounds
  <2>3. ASSUME NEW a \in 1..MaxAlias, t.entries[a] # 0
        PROVE \E k \in 1..Len(sh) : sh[k].alias = a /\ sh[k].command = t.entries[a]
    <3>1. CASE a = s.plan
      <4>1. t.entries[a] = s.command
        BY <1>2, <1>5, <1>6, <2>3, <3>1 DEF AliasState, Entries
      <4>2. Len(shown[b]) + 1 \in 1..Len(sh)
        BY <1>7
      <4> QED BY <4>1, <4>2, <1>4, <1>7, <3>1
    <3>2. CASE a # s.plan
      <4>1. t.entries[a] = s.entries[a]
        BY <1>2, <1>6, <3>2 DEF AliasState, Entries
      <4>2. PICK k \in 1..Len(shown[b]) : shown[b][k].alias = a /\ shown[b][k].command = s.entries[a]
        BY <4>1, <2>3, <1>2 DEF Fits
      <4>3. k \in 1..Len(sh) /\ sh[k] = shown[b][k]
        BY <4>2, <1>7
      <4> QED BY <4>1, <4>2, <4>3
    <3> QED BY <3>1, <3>2
  <2>4. ASSUME NEW i \in 1..Len(sh), NEW j \in 1..Len(sh), sh[i].alias = sh[j].alias PROVE i = j
    <3>1. CASE i \in 1..Len(shown[b]) /\ j \in 1..Len(shown[b])
      BY <3>1, <2>4, <1>2, <1>7 DEF Fits
    <3>2. CASE i \in 1..Len(shown[b]) /\ j = Len(shown[b]) + 1
      BY <3>2, <2>4, <2>a, <1>3, <1>4, <1>7
    <3>3. CASE j \in 1..Len(shown[b]) /\ i = Len(shown[b]) + 1
      BY <3>3, <2>4, <2>a, <1>3, <1>4, <1>7
    <3> QED BY <3>1, <3>2, <3>3, <2>0
  <2> QED BY <1>6, <1>8, <2>1, <2>2, <2>3, <2>4 DEF Fits
<1>10. used' \in 0..MaxCommands
  BY <1>1 DEF AliasInv, AliasTypeOK
<1>11. CommitAliases(b, t, <<message>>)
  BY <1>5 DEF t
<1> QED BY <1>1, <1>6, <1>7, <1>9, <1>10, <1>11, OldAnswers, CommitKeeps

LEMMA UseKeeps == ASSUME AliasInv, NEW b \in Branches, NEW k \in 1..Len(shown[b]), UseAlias(b, k) PROVE AliasInv'
<1> DEFINE s == State(b)
           a == shown[b][k].alias
<1>1. /\ At(b) /\ s.plan = 0 /\ used' = used /\ answers' = answers \union {<<b, k, s.entries[a]>>}
      /\ \E ended \in BOOLEAN :
             CommitAliases(b, IF ended THEN [s EXCEPT !.entries[a] = 0] ELSE s, <<>>)
  BY DEF UseAlias
<1>2. /\ s \in AliasState /\ shown[b] \in Seq(AliasMessages) /\ Fits(s, shown[b], memory[b].inherited)
  BY <1>1, LoadedFacts
<1>3. a \in 1..MaxAlias
  <2>1. shown[b][k] \in AliasMessages
    BY <1>2
  <2> QED BY <2>1 DEF AliasMessages
<1> HIDE DEF s
<1>4. s.entries[a] \in 0..MaxCommands /\ s.entries[a] \in {0, shown[b][k].command}
  <2>1. s.entries[a] \in 0..MaxCommands
    BY <1>2, <1>3 DEF AliasState, Entries
  <2>2. CASE s.entries[a] # 0
    <3>1. PICK j \in 1..Len(shown[b]) : shown[b][j].alias = a /\ shown[b][j].command = s.entries[a]
      BY <2>2, <1>2, <1>3 DEF Fits
    <3>2. j = k
      BY <3>1, <1>2 DEF Fits
    <3> QED BY <2>1, <3>1, <3>2
  <2> QED BY <2>1, <2>2
<1> HIDE DEF a
<1>5. /\ answers' \subseteq Branches \X Nat \X (0..MaxCommands)
      /\ \A x \in answers' : x[2] \in 1..Len(shown[x[1]]) /\ x[3] \in {0, shown[x[1]][x[2]].command}
  <2>1. k \in Nat
    BY <1>2
  <2> QED BY <1>1, <1>4, <2>1 DEF AliasInv, AliasTypeOK, AnswersOK
<1> DEFINE t == [s EXCEPT !.entries[a] = 0]
<1>6. t \in AliasState /\ t.last = s.last /\ t.plan = s.plan /\ t.entries = [s.entries EXCEPT ![a] = 0]
  <2>1. [s.entries EXCEPT ![a] = 0] \in Entries
    BY <1>2, <1>3, AliasBounds DEF AliasState, Entries
  <2> QED BY <1>2, <2>1, AliasBounds DEF AliasState
<1>7. Retained(t) \in Nat /\ Retained(s) \in Nat /\ Retained(t) <= Retained(s)
  <2> HIDE DEF t
  <2>1. 0 \in 0..MaxCommands
    BY AliasBounds
  <2> QED BY <1>2, <1>3, <1>6, <2>1, RetainedFacts
<1>8. CommitAliases(b, t, <<>>) \/ CommitAliases(b, s, <<>>)
  BY <1>1
<1> HIDE DEF t
<1>9. Fits(t, shown[b], memory[b].inherited)
  <2>1. \A c \in 1..MaxAlias : t.entries[c] # 0 => t.entries[c] = s.entries[c]
    BY <1>2, <1>6 DEF AliasState, Entries
  <2>2. Retained(t) <= MaxSessions
    BY <1>2, <1>7, AliasBounds DEF Fits
  <2>3. t.plan = 0
    BY <1>1, <1>6 DEF s
  <2> QED BY <1>2, <1>6, <2>1, <2>2, <2>3 DEF Fits
<1>10. shown[b] \o <<>> = shown[b] /\ <<>> \in Seq(AliasMessages) /\ used' \in 0..MaxCommands
  BY <1>1, <1>2, NoMessage DEF AliasInv, AliasTypeOK
<1>11. CASE CommitAliases(b, t, <<>>)
  BY <1>1, <1>5, <1>6, <1>9, <1>10, <1>11, CommitKeeps
<1>12. CASE CommitAliases(b, s, <<>>)
  BY <1>1, <1>2, <1>5, <1>10, <1>12, CommitKeeps
<1> QED BY <1>8, <1>11, <1>12


LEMMA LoadKeeps == ASSUME AliasInv, NEW b \in Branches, Load(b) PROVE AliasInv'
<1> DEFINE h == InheritedMax(b)
           S == {0} \cup {shown[b][k].alias : k \in 1..Len(shown[b])}
           m == [at |-> "loaded", state |-> saved[b], inherited |-> h]
<1>1. /\ LiveCommands(b) /\ memory' = [memory EXCEPT ![b] = m] /\ UNCHANGED <<shown, saved, used, answers>>
  BY DEF Load
<1>2. shown[b] \in Seq(AliasMessages) /\ saved[b] \in AliasState
  BY DEF AliasInv, AliasTypeOK
<1>3. \A k \in 1..Len(shown[b]) : shown[b][k].alias \in 1..MaxAlias
  <2>1. \A k \in 1..Len(shown[b]) : shown[b][k] \in AliasMessages
    BY <1>2
  <2> QED BY <2>1 DEF AliasMessages
<1>4. S \subseteq 0..MaxAlias /\ S # {}
  BY <1>3, AliasBounds
<1>5. Max(S) \in S /\ \A y \in S : Max(S) >= y
  <2> HIDE DEF S
  <2> QED BY <1>4, AliasBounds, MaxBounded
<1>6. h = Max(S)
  BY DEF InheritedMax
<1>7. h \in 0..MaxAlias
  BY <1>4, <1>5, <1>6
<1>8. \A k \in 1..Len(shown[b]) : shown[b][k].alias <= h
  <2> SUFFICES ASSUME NEW k \in 1..Len(shown[b]) PROVE shown[b][k].alias <= h
    OBVIOUS
  <2>1. shown[b][k].alias \in S
    OBVIOUS
  <2> HIDE DEF S, h
  <2> QED BY <2>1, <1>3, <1>5, <1>6, <1>7
<1>9. m \in [at : {"loaded"}, state : AliasState, inherited : 0..MaxAlias] /\ m.state = saved[b] /\ m.inherited = h
  BY <1>2, <1>7
<1> HIDE DEF m, h, S
<1>10. /\ memory' \in [Branches -> {Unloaded} \cup [at : {"loaded"}, state : AliasState, inherited : 0..MaxAlias]]
       /\ memory'[b] = m /\ \A c \in Branches \ {b} : memory'[c] = memory[c]
  BY <1>1, <1>9 DEF AliasInv, AliasTypeOK
<1>11. AliasTypeOK' /\ AnswersOK'
  BY <1>1, <1>10 DEF AliasInv, AliasTypeOK, AnswersOK
<1>12. ASSUME NEW c \in Branches PROVE BranchOK(c)'
  <2>1. BranchOK(c)
    BY DEF AliasInv
  <2>2. PlanOf(c)' /\ EntriesOf(c)' /\ DistinctIn(c)'
    BY <2>1, <1>1 DEF BranchOK, PlanOf, EntriesOf, DistinctIn, Retained
  <2>3. CASE c = b
    BY <2>2, <2>3, <1>1, <1>8, <1>9, <1>10 DEF BranchOK, CopyOf, UnbornIs, LiveCommands, At, State
  <2>4. CASE c # b
    BY <2>1, <2>2, <2>4, <1>1, <1>10 DEF BranchOK, CopyOf, UnbornIs, LiveCommands, At, State
  <2> QED BY <2>3, <2>4
<1> QED BY <1>11, <1>12 DEF AliasInv

LEMMA CutOffKeeps == ASSUME AliasInv, NEW b \in Branches, CutOff(b) PROVE AliasInv'
<1>1. At(b) /\ memory' = [memory EXCEPT ![b] = Unloaded] /\ UNCHANGED <<shown, saved, used, answers>>
  BY DEF CutOff
<1>2. /\ memory' \in [Branches -> {Unloaded} \cup [at : {"loaded"}, state : AliasState, inherited : 0..MaxAlias]]
      /\ memory'[b] = Unloaded /\ \A c \in Branches \ {b} : memory'[c] = memory[c]
  BY <1>1 DEF AliasInv, AliasTypeOK
<1>3. AliasTypeOK' /\ AnswersOK'
  BY <1>1, <1>2 DEF AliasInv, AliasTypeOK, AnswersOK
<1>4. ASSUME NEW c \in Branches PROVE BranchOK(c)'
  <2>1. BranchOK(c)
    BY DEF AliasInv
  <2>2. PlanOf(c)' /\ EntriesOf(c)' /\ DistinctIn(c)'
    BY <2>1, <1>1 DEF BranchOK, PlanOf, EntriesOf, DistinctIn, Retained
  <2>3. CASE c = b
    BY <2>1, <2>2, <2>3, <1>1, <1>2 DEF BranchOK, CopyOf, UnbornIs, LiveCommands, At, State, Unloaded
  <2>4. CASE c # b
    BY <2>1, <2>2, <2>4, <1>1, <1>2 DEF BranchOK, CopyOf, UnbornIs, LiveCommands, At, State
  <2> QED BY <2>3, <2>4
<1> QED BY <1>3, <1>4 DEF AliasInv

LEMMA ForkKeeps ==
    ASSUME AliasInv, NEW from \in Branches, NEW to \in Branches, NEW n \in 1..Len(shown[from]), Fork(from, to, n)
    PROVE  AliasInv'
<1> DEFINE q == SubSeq(shown[from], 1, n)
<1>1. /\ ~LiveCommands(to) /\ shown' = [shown EXCEPT ![to] = q] /\ UNCHANGED <<saved, memory, used, answers>>
  BY DEF Fork
<1>2. shown[from] \in Seq(AliasMessages) /\ shown[to] = <<>> /\ to # Trunk
  BY <1>1 DEF AliasInv, AliasTypeOK, LiveCommands
<1>3. q \in Seq(AliasMessages) /\ Len(q) = n /\ n > 0 /\ \A k \in 1..n : q[k] = shown[from][k]
  BY <1>2
<1> HIDE DEF q
<1>4. /\ shown' \in [Branches -> Seq(AliasMessages)] /\ shown'[to] = q
      /\ \A c \in Branches \ {to} : shown'[c] = shown[c]
  BY <1>1, <1>3 DEF AliasInv, AliasTypeOK
<1>5. AliasTypeOK'
  BY <1>1, <1>4 DEF AliasInv, AliasTypeOK
<1>6. AnswersOK'
  <2> SUFFICES ASSUME NEW x \in answers
               PROVE  x[2] \in 1..Len(shown'[x[1]]) /\ x[3] \in {0, shown'[x[1]][x[2]].command}
    BY <1>1 DEF AnswersOK
  <2>1. x[1] \in Branches /\ x[2] \in 1..Len(shown[x[1]]) /\ x[3] \in {0, shown[x[1]][x[2]].command}
    BY DEF AliasInv, AliasTypeOK, AnswersOK
  <2>2. x[1] # to
    BY <2>1, <1>2
  <2> QED BY <2>1, <2>2, <1>4
<1>7. ASSUME NEW c \in Branches PROVE BranchOK(c)'
  <2>1. BranchOK(c)
    BY DEF AliasInv
  <2>2. CASE c = to
    <3>1. saved'[c] = NoState /\ memory'[c] = Unloaded
      BY <2>1, <2>2, <1>1 DEF BranchOK, UnbornIs
    <3>2. CopyOf(c)' /\ UnbornIs(c)'
      BY <3>1 DEF CopyOf, At, Unloaded, UnbornIs
    <3>3. PlanOf(c)'
      BY <3>1 DEF PlanOf, NoState
    <3>4. EntriesOf(c)'
      BY <3>1, NoEntryRetained, AliasBounds DEF EntriesOf, NoState, NoEntries, Retained
    <3>5. DistinctIn(c)'
      <4>1. DistinctIn(from)
        BY DEF AliasInv, BranchOK
      <4>2. ASSUME NEW i \in 1..n, NEW j \in 1..n, q[i].alias = q[j].alias PROVE i = j
        <5>1. i \in 1..Len(shown[from]) /\ j \in 1..Len(shown[from])
          BY <1>2
        <5> QED BY <4>1, <4>2, <5>1, <1>3 DEF DistinctIn
      <4> QED BY <2>2, <4>2, <1>3, <1>4 DEF DistinctIn
    <3> QED BY <3>2, <3>3, <3>4, <3>5 DEF BranchOK
  <2>3. CASE c # to
    <3>1. shown'[c] = shown[c]
      BY <2>3, <1>4
    <3> QED BY <2>1, <3>1, <1>1 DEF BranchOK, CopyOf, PlanOf, EntriesOf, DistinctIn, UnbornIs, At, State,
                                    LiveCommands, Retained
  <2> QED BY <2>2, <2>3
<1> QED BY <1>5, <1>6, <1>7 DEF AliasInv

LEMMA AliasStutters == ASSUME AliasInv, UNCHANGED aliasVars PROVE AliasInv'
<1>1. AliasTypeOK' /\ AnswersOK'
  BY DEF aliasVars, AliasInv, AliasTypeOK, AnswersOK
<1>2. ASSUME NEW c \in Branches PROVE BranchOK(c)'
  <2>1. BranchOK(c)
    BY DEF AliasInv
  <2> QED BY <2>1 DEF aliasVars, BranchOK, CopyOf, PlanOf, EntriesOf, DistinctIn, UnbornIs, At, State,
                      LiveCommands, Retained
<1> QED BY <1>1, <1>2 DEF AliasInv

LEMMA AliasStepKeeps == AliasInv /\ [AliasesNext]_aliasVars => AliasInv'
<1> SUFFICES ASSUME AliasInv, [AliasesNext]_aliasVars PROVE AliasInv'
  OBVIOUS
<1>1. CASE UNCHANGED aliasVars
  BY <1>1, AliasStutters
<1>2. CASE AliasesNext
  BY <1>2, LoadKeeps, PrepareKeeps, FinishKeeps, CutOffKeeps, UseKeeps, ForkKeeps
  DEF AliasesNext, CodexSessions, UnifiedSessions, AliasStep
<1> QED BY <1>1, <1>2

LEMMA AliasInvNames == AliasInv => NumbersNameOneCommand
<1> SUFFICES ASSUME AliasInv PROVE NumbersNameOneCommand
  OBVIOUS
<1>1. \A b \in Branches : DistinctIn(b) /\ Retained(saved[b]) <= MaxSessions
  BY DEF AliasInv, BranchOK, EntriesOf
<1> QED BY <1>1 DEF AliasInv, AnswersOK, NumbersNameOneCommand, DistinctIn

\* For every number of branches, commands, aliases and retained sessions: a number a
\* model has seen stands for the command whose result showed it, or for nothing
\* (sessions.rs of the harnesses: allocation over the inherited and the private numbers).
THEOREM NumbersAlwaysNameOneCommand == AliasesSpec => []NumbersNameOneCommand
  BY AliasInitially, AliasStepKeeps, AliasInvNames, PTL DEF AliasesSpec

-----------------------------------------------------------------------------
(* The journal of a script (CodeJournal). *)

\* Who may still write the cell: its version is not newer than the cell's, and with the
\* cell's version the cell is running.
Writers == {"seal", "launch", "run", "text", "prepare", "dispatch", "invoke", "record", "final"}
OfCell(x) ==
    x.at \in Writers =>
        /\ x.version <= cell.version
        /\ x.version = cell.version => cell.status = "running"

\* What an engine knows of its nested call.
OfCall(x) ==
    /\ x.at \in {"dispatch", "redispatch", "invoke", "reinvoke", "record", "rerecord"} =>
          nested[x.count].version > 0
    /\ x.at \in {"invoke", "reinvoke"} =>
          x.request <= Len(requests) /\ requests[x.request].call = x.count
    /\ x.at \in {"record", "rerecord"} /\ x.result = "succeeded" => x.count \in performed

Engines == \A e \in Owners : OfCell(engine[e]) /\ OfCall(engine[e])

\* The script is started by the execution that admitted the cell, if at all.
Launches ==
    /\ cell.version = 0 <=> cell.status = "absent"
    /\ launched <= 1
    /\ launched > 0 => cell.version > 0
    /\ \A e \in Owners : engine[e].at = "launch" => launched = 0 /\ cell.version > 0
    /\ \A e, f \in Owners : engine[e].at = "launch" /\ engine[f].at = "launch" => e = f

\* The platform has seen no call before its record.
Calls ==
    /\ \A n \in Nested : nested[n].version = 0 <=> nested[n].status = "absent"
    /\ \A i \in 1..Len(requests) :
          /\ nested[requests[i].call].version > 0
          /\ requests[i].answer = "ok" => requests[i].call \in performed

CodeInv == CodeTypeOK /\ Engines /\ Launches /\ Calls /\ JournalIsTrue

LEMMA JournalBounds ==
    /\ MaxNested \in Nat \ {0} /\ MaxOwners \in Nat \ {0} /\ MaxTexts \in Nat \ {0}
    /\ MaxRequests \in Nat \ {0} /\ MaxLosses \in Nat \ {0}
  BY JournalAssumption

\* The fields of the states of an engine.
LEMMA EngineFields ==
    ASSUME NEW x \in EngineStates
    PROVE  /\ x.at \in Writers => x.version \in Nat
           /\ x.at \in {"dispatch", "redispatch", "invoke", "reinvoke", "record", "rerecord"} =>
                x.version \in Nat /\ x.from \in Nat
           /\ x.at \in {"prepare", "dispatch", "redispatch", "invoke", "reinvoke", "record", "rerecord"} =>
                x.count \in Nested
           /\ x.at \in {"launch", "run", "text", "final", "reread"} => x.count \in 0..MaxNested
           /\ x.at = "admit" => x.source \in Sources
           /\ x.at = "final" => x.status \in Over
           /\ x.at \in {"invoke", "reinvoke"} => x.request \in 1..MaxRequests
           /\ x.at \in {"record", "rerecord"} => x.result \in {"succeeded", "rejected", "uncertain"}
           /\ x.at = "idle" => x = Resting
<1>1. \/ x = Resting \/ x \in [at : {"admit"}, source : Sources] \/ x \in [at : {"seal"}, version : Nat]
      \/ x \in [at : {"launch", "run", "text"}, version : Nat, count : 0..MaxNested]
      \/ x \in [at : {"prepare"}, version : Nat, count : Nested]
      \/ x \in [at : {"dispatch", "redispatch"}, version : Nat, count : Nested, from : Nat]
      \/ x \in [at : {"invoke", "reinvoke"}, version : Nat, count : Nested, from : Nat,
                request : 1..MaxRequests]
      \/ x \in [at : {"record", "rerecord"}, version : Nat, count : Nested, from : Nat,
                result : {"succeeded", "rejected", "uncertain"}]
      \/ x \in [at : {"final"}, version : Nat, count : 0..MaxNested, status : Over]
      \/ x \in [at : {"reread"}, count : 0..MaxNested]
  BY Zenon DEF EngineStates
<1> QED BY <1>1 DEF Writers, Resting

LEMMA CodeInitially == CodeInit => CodeInv
<1> SUFFICES ASSUME CodeInit PROVE CodeInv
  OBVIOUS
<1>1. CodeTypeOK
  <2>1. engine \in [Owners -> EngineStates]
    BY DEF CodeInit, EngineStates
  <2>2. nested \in [Nested -> [version : Nat, status : CallStatuses]]
    BY DEF CodeInit, CallStatuses
  <2>3. requests \in Seq(PlatformRequests) /\ Len(requests) <= MaxRequests
    BY JournalBounds DEF CodeInit
  <2> QED BY <2>1, <2>2, <2>3, JournalBounds DEF CodeInit, CodeTypeOK, Owners
<1>2. Engines
  BY DEF CodeInit, Engines, OfCell, OfCall, Writers, Resting
<1>3. Launches /\ Calls /\ JournalIsTrue
  BY DEF CodeInit, Launches, Calls, JournalIsTrue, Resting, Nested
<1> QED BY <1>1, <1>2, <1>3 DEF CodeInv

\* A step of one engine that leaves journal and platform alone.
Quiet == UNCHANGED <<cell, nested, cellOwner, Platform>>

LEMMA EngineMoves ==
    ASSUME CodeInv, NEW e \in Owners, NEW x \in EngineStates, Go(e, x), Quiet,
           OfCell(x), OfCall(x), losses' \in 0..MaxLosses,
           told' \subseteq {cell.status} \cap Over,
           \/ x.at # "launch" /\ launched' = launched
           \/ x.at # "launch" /\ engine[e].at = "launch" /\ launched' = launched + 1
    PROVE  CodeInv'
<1>1. engine' \in [Owners -> EngineStates] /\ engine'[e] = x /\ \A f \in Owners \ {e} : engine'[f] = engine[f]
  BY DEF CodeInv, CodeTypeOK, Go
<1>2. CodeTypeOK'
  <2>1. launched' \in Nat /\ told' \subseteq Over
    BY DEF CodeInv, CodeTypeOK
  <2> QED BY <1>1, <2>1 DEF CodeInv, CodeTypeOK, Quiet, Platform
<1>3. Engines'
  BY <1>1 DEF CodeInv, Engines, OfCell, OfCall, Quiet, Platform
<1>4. Launches'
  BY <1>1 DEF CodeInv, CodeTypeOK, Launches, Quiet
<1>5. Calls'
  BY DEF CodeInv, Calls, Quiet, Platform
<1>6. JournalIsTrue'
  BY <1>4 DEF CodeInv, Launches, JournalIsTrue, Quiet, Platform
<1> QED BY <1>2, <1>3, <1>4, <1>5, <1>6 DEF CodeInv


\* A step of one engine that writes the cell, which only a running or an absent one is.
LEMMA CellMoves ==
    ASSUME CodeInv, NEW e \in Owners, NEW x \in EngineStates, Go(e, x),
           UNCHANGED <<nested, cellOwner, Platform, launched>>, losses' \in 0..MaxLosses,
           cell.status \in {"running", "absent"},
           cell' \in [version : Nat, owner : 0..MaxOwners, source : Sources \cup {"none"},
                      status : Over \cup {"running"}],
           cell'.version = cell.version + 1,
           told' \subseteq told \cup ({cell'.status} \cap Over),
           x.at \in Writers => /\ x.version <= cell'.version
                               /\ x.version = cell'.version => cell'.status = "running",
           OfCall(x), x.at = "launch" => cell.version = 0
    PROVE  CodeInv'
<1>1. engine' \in [Owners -> EngineStates] /\ engine'[e] = x /\ \A f \in Owners \ {e} : engine'[f] = engine[f]
  BY DEF CodeInv, CodeTypeOK, Go
<1>2. told = {} /\ cell.version \in Nat
  BY DEF CodeInv, CodeTypeOK, JournalIsTrue, Over
<1>3. CodeTypeOK'
  <2>1. told' \subseteq Over
    BY <1>2
  <2>2. cell' \in [version : Nat, owner : 0..MaxOwners, source : Sources \cup {"none"},
                 status : Over \cup {"absent", "running"}]
    OBVIOUS
  <2> QED BY <1>1, <2>1, <2>2 DEF CodeInv, CodeTypeOK, Platform
<1>4. Engines'
  <2> SUFFICES ASSUME NEW f \in Owners PROVE OfCell(engine[f])' /\ OfCall(engine[f])'
    BY DEF Engines
  <2>1. CASE f = e
    BY <2>1, <1>1 DEF OfCell, OfCall, Platform
  <2>2. CASE f # e
    <3>1. OfCall(engine[f])'
      BY <2>2, <1>1 DEF CodeInv, Engines, OfCall, Platform
    <3>2. engine[f].at \in Writers => engine[f].version \in Nat
      BY DEF CodeInv, CodeTypeOK, EngineStates, Writers, Resting
    <3>3. OfCell(engine[f])'
      BY <2>2, <1>1, <1>2, <3>2 DEF CodeInv, Engines, OfCell
    <3> QED BY <3>1, <3>3
  <2> QED BY <2>1, <2>2
<1>5. Launches'
  <2>1. cell'.version > 0 /\ cell'.status # "absent"
    BY <1>2 DEF Over
  <2>2. \A f \in Owners : engine'[f].at = "launch" => launched = 0
    BY <1>1 DEF CodeInv, CodeTypeOK, Launches
  <2>3. \A f, g \in Owners : engine'[f].at = "launch" /\ engine'[g].at = "launch" => f = g
    BY <1>1, <1>2 DEF CodeInv, Launches
  <2> QED BY <2>1, <2>2, <2>3 DEF CodeInv, Launches
<1>6. Calls'
  BY DEF CodeInv, Calls, Platform
<1>7. JournalIsTrue'
  BY <1>2, <1>5 DEF CodeInv, JournalIsTrue, Launches, Platform
<1> QED BY <1>3, <1>4, <1>5, <1>6, <1>7 DEF CodeInv

\* A step of one engine that writes the record of a call.
LEMMA CallMoves ==
    ASSUME CodeInv, NEW e \in Owners, NEW x \in EngineStates, Go(e, x), NEW n \in Nested,
           NEW verdict \in CallStatuses \ {"absent"},
           nested' = [nested EXCEPT ![n] = [version |-> nested[n].version + 1, status |-> verdict]],
           verdict = "succeeded" => n \in performed,
           UNCHANGED <<cell, cellOwner, Platform, launched, told>>, losses' \in 0..MaxLosses,
           OfCell(x), x.at # "launch",
           x.at \notin {"invoke", "reinvoke"},
           x.at \in {"dispatch", "redispatch", "record", "rerecord"} => x.count = n,
           x.at \in {"record", "rerecord"} /\ x.result = "succeeded" => x.count \in performed
    PROVE  CodeInv'
<1>1. engine' \in [Owners -> EngineStates] /\ engine'[e] = x /\ \A f \in Owners \ {e} : engine'[f] = engine[f]
  BY DEF CodeInv, CodeTypeOK, Go
<1>2. /\ nested' \in [Nested -> [version : Nat, status : CallStatuses]]
      /\ nested'[n].version > 0 /\ nested'[n].status = verdict
      /\ \A m \in Nested \ {n} : nested'[m] = nested[m]
  <2>1. nested \in [Nested -> [version : Nat, status : CallStatuses]]
    BY DEF CodeInv, CodeTypeOK
  <2> QED BY <2>1
<1>3. \A m \in Nested : nested[m].version > 0 => nested'[m].version > 0
  BY <1>2
<1>4. CodeTypeOK'
  BY <1>1, <1>2 DEF CodeInv, CodeTypeOK, Platform
<1>5. Engines'
  <2> SUFFICES ASSUME NEW f \in Owners PROVE OfCell(engine[f])' /\ OfCall(engine[f])'
    BY DEF Engines
  <2>1. CASE f = e
    BY <2>1, <1>1, <1>2 DEF OfCell, OfCall, Platform
  <2>2. CASE f # e
    <3>1. OfCell(engine[f])'
      BY <2>2, <1>1 DEF CodeInv, Engines, OfCell
    <3>2. engine[f].at \in {"dispatch", "redispatch", "invoke", "reinvoke", "record", "rerecord"}
             => engine[f].count \in Nested
      <4>1. engine[f] \in EngineStates
        BY DEF CodeInv, CodeTypeOK
      <4> QED BY <4>1, EngineFields
    <3>3. OfCall(engine[f])'
      BY <2>2, <1>1, <1>3, <3>2 DEF CodeInv, Engines, OfCall, Platform
    <3> QED BY <3>1, <3>3
  <2> QED BY <2>1, <2>2
<1>6. Launches'
  BY <1>1 DEF CodeInv, Launches
<1>7. Calls'
  <2>1. \A i \in 1..Len(requests) : requests[i].call \in Nested
    <3>1. requests \in Seq(PlatformRequests)
      BY DEF CodeInv, CodeTypeOK
    <3>2. \A i \in 1..Len(requests) : requests[i] \in PlatformRequests
      BY <3>1
    <3> QED BY <3>2 DEF PlatformRequests
  <2> QED BY <1>2, <1>3, <2>1 DEF CodeInv, Calls, Platform
<1>8. JournalIsTrue'
  <2>1. performed \subseteq Nested
    BY DEF CodeInv, CodeTypeOK
  <2> QED BY <1>2, <1>3, <2>1 DEF CodeInv, JournalIsTrue, Platform
<1> QED BY <1>4, <1>5, <1>6, <1>7, <1>8 DEF CodeInv


LEMMA StatesOfEngines ==
    ASSUME CodeInv, NEW e \in Owners
    PROVE  engine[e] \in EngineStates /\ OfCell(engine[e]) /\ OfCall(engine[e])
  BY DEF CodeInv, CodeTypeOK, Engines

\* What a write of the journal may come to.
LEMMA OutcomesOfPut ==
    ASSUME NEW e, NEW stamp, NEW expected, NEW out \in Outcomes(e, stamp, expected)
    PROVE  /\ out[1] => Current(e, stamp, expected)
           /\ out[2] = "ok" => out[1]
           /\ out[2] = "lost" => losses < MaxLosses
<1>1. CASE Current(e, stamp, expected)
  <2>1. out \in {<<TRUE, "ok">>, <<TRUE, "lost">>, <<FALSE, "lost">>}
    BY <1>1 DEF Outcomes
  <2>2. losses < MaxLosses \/ out = <<TRUE, "ok">>
    BY <1>1 DEF Outcomes
  <2>3. CASE out = <<TRUE, "ok">>
    BY <1>1, <2>3
  <2>4. CASE out # <<TRUE, "ok">>
    <3>1. out = <<TRUE, "lost">> \/ out = <<FALSE, "lost">>
      BY <2>1, <2>4, Zenon
    <3>2. CASE out = <<TRUE, "lost">>
      BY <1>1, <2>2, <2>4, <3>2
    <3>3. CASE out = <<FALSE, "lost">>
      BY <1>1, <2>2, <2>4, <3>3
    <3> QED BY <3>1, <3>2, <3>3
  <2> QED BY <2>3, <2>4
<1>2. CASE ~Current(e, stamp, expected)
  <2>1. out = <<FALSE, "conflict">>
    BY <1>2 DEF Outcomes
  <2> QED BY <2>1
<1> QED BY <1>1, <1>2

LEMMA LossesBounded ==
    ASSUME CodeInv, NEW out, Losing(out), out[2] = "lost" => losses < MaxLosses
    PROVE  losses' \in 0..MaxLosses
  BY JournalBounds DEF CodeInv, CodeTypeOK, Losing

LEMMA ExecuteKeeps == ASSUME CodeInv, NEW e \in Owners, NEW s \in Sources, Execute(e, s) PROVE CodeInv'
<1>1. cell.version \in Nat /\ told \subseteq {cell.status} \cap Over /\ losses \in 0..MaxLosses
      /\ cell.status \in Over \cup {"absent", "running"}
  BY DEF CodeInv, CodeTypeOK, JournalIsTrue
<1>2. Quiet /\ UNCHANGED <<launched, losses>>
  BY DEF Execute, Quiet, Platform
<1>3. CASE cell.status = "absent"
  <2> DEFINE x == [at |-> "admit", source |-> s]
  <2>1. Go(e, x) /\ told' = told
    BY <1>3 DEF Execute
  <2>2. x \in EngineStates
    BY DEF EngineStates
  <2>3. OfCell(x) /\ OfCall(x) /\ x.at # "launch"
    BY DEF OfCell, OfCall, Writers
  <2> HIDE DEF x
  <2> QED BY <1>1, <1>2, <2>1, <2>2, <2>3, EngineMoves
<1>4. CASE cell.status = "running" /\ cell.owner # e /\ cell.source = s
  <2> DEFINE x == [at |-> "seal", version |-> cell.version]
  <2>1. Go(e, x) /\ told' = told
    BY <1>4 DEF Execute
  <2>2. x \in EngineStates
    BY <1>1 DEF EngineStates
  <2>3. OfCell(x) /\ OfCall(x) /\ x.at # "launch"
    BY <1>1, <1>4 DEF OfCell, OfCall, Writers
  <2> HIDE DEF x
  <2> QED BY <1>1, <1>2, <2>1, <2>2, <2>3, EngineMoves
<1>5. CASE cell.status # "absent" /\ ~(cell.status = "running" /\ cell.owner # e /\ cell.source = s)
  <2>1. engine' = engine /\ told' \subseteq {cell.status} \cap Over /\ told' \subseteq Over
    BY <1>1, <1>5 DEF Execute
  <2>2. engine' = [engine EXCEPT ![e] = Resting] /\ engine[e] = Resting
    BY <2>1 DEF Execute, CodeInv, CodeTypeOK
  <2>3. Resting \in EngineStates /\ OfCell(Resting) /\ OfCall(Resting) /\ Resting.at # "launch"
    BY DEF EngineStates, OfCell, OfCall, Writers, Resting
  <2>4. Go(e, Resting)
    BY <2>2 DEF Go
  <2> QED BY <1>1, <1>2, <2>1, <2>3, <2>4, EngineMoves
<1> QED BY <1>3, <1>4, <1>5

LEMMA RecoverKeeps == ASSUME CodeInv, NEW e \in Owners, RecoverAbandoned(e) PROVE CodeInv'
<1> DEFINE x == [at |-> "seal", version |-> cell.version]
<1>1. cell.version \in Nat /\ told \subseteq {cell.status} \cap Over /\ losses \in 0..MaxLosses
  BY DEF CodeInv, CodeTypeOK, JournalIsTrue
<1>2. Quiet /\ UNCHANGED <<launched, losses, told>> /\ Go(e, x) /\ cell.status = "running"
  BY DEF RecoverAbandoned, Quiet, Platform
<1>3. x \in EngineStates
  BY <1>1 DEF EngineStates
<1>4. OfCell(x) /\ OfCall(x) /\ x.at # "launch"
  BY <1>1, <1>2 DEF OfCell, OfCall, Writers
<1> HIDE DEF x
<1> QED BY <1>1, <1>2, <1>3, <1>4, EngineMoves

\* A resting engine.
LEMMA Rests == /\ Resting \in EngineStates /\ OfCell(Resting) /\ OfCall(Resting)
               /\ Resting.at \notin Writers /\ Resting.at = "idle"
  BY DEF EngineStates, OfCell, OfCall, Writers, Resting

LEMMA StopKeeps == ASSUME CodeInv, NEW e \in Owners, StopEngine(e) PROVE CodeInv'
<1>1. Quiet /\ UNCHANGED <<launched, losses, told>> /\ Go(e, Resting)
  BY DEF StopEngine, Quiet, Platform
<1>2. told \subseteq {cell.status} \cap Over /\ losses \in 0..MaxLosses
  BY DEF CodeInv, CodeTypeOK, JournalIsTrue
<1> QED BY <1>1, <1>2, Rests, EngineMoves

\* A write of the value the cell takes on.
LEMMA ValueFacts ==
    ASSUME CodeInv, NEW verdict \in Over \cup {"running"}
    PROVE  /\ Value(verdict) \in [version : Nat, owner : 0..MaxOwners, source : Sources \cup {"none"},
                                 status : Over \cup {"running"}]
           /\ Value(verdict).version = cell.version + 1 /\ Value(verdict).status = verdict
<1>1. cell \in [version : Nat, owner : 0..MaxOwners, source : Sources \cup {"none"},
                status : Over \cup {"absent", "running"}]
  BY DEF CodeInv, CodeTypeOK
<1> QED BY <1>1 DEF Value

LEMMA SealKeeps == ASSUME CodeInv, NEW e \in Owners, Seal(e) PROVE CodeInv'
<1>1. PICK out \in BOOLEAN \X {"ok", "lost", "conflict"} :
        /\ PutCell(e, engine[e].version, Value("interrupted"), out)
        /\ told' = told \union (IF out[2] = "ok" THEN {"interrupted"} ELSE {})
  BY DEF Seal
<1>2. /\ UNCHANGED <<nested, cellOwner, Platform, launched>> /\ Go(e, Resting) /\ engine[e].at = "seal"
  BY DEF Seal
<1>3. /\ out[1] => Current(e, cell.version, engine[e].version)
      /\ out[2] = "ok" => out[1]
      /\ losses' \in 0..MaxLosses
  <2>1. out \in Outcomes(e, cell.version, engine[e].version) /\ Losing(out)
    BY <1>1 DEF PutCell
  <2> QED BY <2>1, OutcomesOfPut, LossesBounded
<1>4. told \subseteq {cell.status} \cap Over
  BY DEF CodeInv, CodeTypeOK, JournalIsTrue
<1>5. CASE out[1]
  <2>1. cell' = Value("interrupted")
    BY <1>1, <1>5 DEF PutCell
  <2>2. cell.status = "running"
    BY <1>2, <1>3, <1>5, StatesOfEngines DEF OfCell, Writers, Current
  <2>3. told' \subseteq told \cup ({cell'.status} \cap Over)
    BY <1>1, <2>1, ValueFacts DEF Over
  <2>4. "interrupted" \in Over \cup {"running"}
    BY DEF Over
  <2> QED BY <1>2, <1>3, <2>1, <2>2, <2>3, <2>4, ValueFacts, Rests, CellMoves
<1>6. CASE ~out[1]
  <2>1. cell' = cell /\ told' = told
    BY <1>1, <1>3, <1>6 DEF PutCell
  <2>2. Quiet
    BY <2>1, <1>2 DEF Quiet, Platform
  <2> QED BY <1>2, <1>3, <1>4, <2>1, <2>2, Rests, EngineMoves
<1> QED BY <1>5, <1>6


LEMMA FinalKeeps == ASSUME CodeInv, NEW e \in Owners, Final(e) PROVE CodeInv'
<1> DEFINE verdict == engine[e].status
<1>1. PICK out \in BOOLEAN \X {"ok", "lost", "conflict"} :
        /\ PutCell(e, engine[e].version, Value(verdict), out)
        /\ told' = told \union (IF out[2] = "ok" THEN {verdict} ELSE {})
  BY DEF Final
<1>2. /\ UNCHANGED <<nested, cellOwner, Platform, launched>> /\ Go(e, Resting) /\ engine[e].at = "final"
  BY DEF Final
<1>3. /\ out[1] => Current(e, cell.version, engine[e].version)
      /\ out[2] = "ok" => out[1]
      /\ losses' \in 0..MaxLosses
  <2>1. out \in Outcomes(e, cell.version, engine[e].version) /\ Losing(out)
    BY <1>1 DEF PutCell
  <2> QED BY <2>1, OutcomesOfPut, LossesBounded
<1>4. told \subseteq {cell.status} \cap Over
  BY DEF CodeInv, CodeTypeOK, JournalIsTrue
<1>5. CASE out[1]
  <2>1. cell' = Value(verdict)
    BY <1>1, <1>5 DEF PutCell
  <2>2. cell.status = "running"
    BY <1>2, <1>3, <1>5, StatesOfEngines DEF OfCell, Writers, Current
  <2>3. verdict \in Over
    BY <1>2, StatesOfEngines, EngineFields
  <2> HIDE DEF verdict
  <2>4. cell'.status = verdict /\ cell'.version = cell.version + 1
        /\ cell' \in [version : Nat, owner : 0..MaxOwners, source : Sources \cup {"none"},
                      status : Over \cup {"running"}]
    BY <2>1, <2>3, ValueFacts
  <2>5. told' \subseteq told \cup ({cell'.status} \cap Over)
    BY <1>1, <2>3, <2>4
  <2> QED BY <1>2, <1>3, <2>2, <2>4, <2>5, Rests, CellMoves
<1>6. CASE ~out[1]
  <2>1. cell' = cell /\ told' = told
    BY <1>1, <1>3, <1>6 DEF PutCell
  <2>2. Quiet
    BY <2>1, <1>2 DEF Quiet, Platform
  <2> QED BY <1>2, <1>3, <1>4, <2>1, <2>2, Rests, EngineMoves
<1> QED BY <1>5, <1>6

LEMMA AdmitKeeps == ASSUME CodeInv, NEW e \in Owners, Admit(e) PROVE CodeInv'
<1> DEFINE value == [version |-> 1, owner |-> e, source |-> engine[e].source, status |-> "running"]
<1>1. PICK out \in BOOLEAN \X {"ok", "lost", "conflict"} :
        /\ PutCell(e, 0, value, out)
        /\ Go(e, IF out[2] = "ok" THEN Running("launch", 1, 0) ELSE Resting)
  BY DEF Admit
<1>2. /\ UNCHANGED <<nested, cellOwner, Platform, launched, told>> /\ engine[e].at = "admit"
  BY DEF Admit
<1>3. /\ out[1] => Current(e, cell.version, 0)
      /\ out[2] = "ok" => out[1]
      /\ losses' \in 0..MaxLosses
  <2>1. out \in Outcomes(e, cell.version, 0) /\ Losing(out)
    BY <1>1 DEF PutCell
  <2> QED BY <2>1, OutcomesOfPut, LossesBounded
<1>4. told \subseteq {cell.status} \cap Over
  BY DEF CodeInv, CodeTypeOK, JournalIsTrue
<1>5. CASE out[1]
  <2>1. cell' = value
    BY <1>1, <1>5 DEF PutCell
  <2>2. cell.version = 0 /\ cell.status = "absent"
    BY <1>3, <1>5 DEF Current, CodeInv, Launches
  <2>3. value \in [version : Nat, owner : 0..MaxOwners, source : Sources \cup {"none"},
                   status : Over \cup {"running"}]
    <3>1. engine[e].source \in Sources
      BY <1>2, StatesOfEngines, EngineFields
    <3> QED BY <3>1, JournalBounds DEF Owners
  <2>4. value.version = 1 /\ value.status = "running"
    OBVIOUS
  <2> HIDE DEF value
  <2>5. CASE out[2] = "ok"
    <3> DEFINE x == Running("launch", 1, 0)
    <3>1. x \in EngineStates /\ x.at = "launch" /\ x.version = 1
      BY JournalBounds DEF EngineStates, Running
    <3>2. OfCall(x)
      BY <3>1 DEF OfCall
    <3>3. Go(e, x)
      BY <1>1, <2>5
    <3> HIDE DEF x
    <3> QED BY <1>2, <1>3, <2>1, <2>2, <2>3, <2>4, <3>1, <3>2, <3>3, CellMoves
  <2>6. CASE out[2] # "ok"
    <3>1. Go(e, Resting)
      BY <1>1, <2>6
    <3> QED BY <1>2, <1>3, <2>1, <2>2, <2>3, <2>4, <3>1, Rests, CellMoves
  <2> QED BY <2>5, <2>6
<1>6. CASE ~out[1]
  <2>1. cell' = cell /\ Go(e, Resting)
    BY <1>1, <1>3, <1>6 DEF PutCell
  <2>2. Quiet
    BY <2>1, <1>2 DEF Quiet, Platform
  <2> QED BY <1>2, <1>3, <1>4, <2>1, <2>2, Rests, EngineMoves
<1> QED BY <1>5, <1>6

\* The states an execution goes on to.
LEMMA NextStates ==
    ASSUME NEW v \in Nat, NEW n \in 0..MaxNested
    PROVE  /\ \A at \in {"launch", "run", "text"} : Running(at, v, n) \in EngineStates
           /\ n \in Nested => Running("prepare", v, n) \in EngineStates
           /\ \A verdict \in Over : Ending(v, n, verdict) \in EngineStates
           /\ Rereading(n) \in EngineStates
  BY DEF EngineStates, Running, Ending, Rereading

LEMMA LaunchKeeps == ASSUME CodeInv, NEW e \in Owners, Launch(e) PROVE CodeInv'
<1> DEFINE x == engine[e]
<1>1. x.at = "launch" /\ x.version \in Nat /\ x.count \in 0..MaxNested /\ OfCell(x)
  BY StatesOfEngines, EngineFields DEF Launch, Writers
<1>2. Quiet /\ UNCHANGED <<told, losses>>
  BY DEF Launch, Quiet, Platform
<1>3. told \subseteq {cell.status} \cap Over /\ losses \in 0..MaxLosses
  BY DEF CodeInv, CodeTypeOK, JournalIsTrue
<1>4. \/ \E verdict \in {"interrupted", "failed"} : Go(e, Ending(x.version, x.count, verdict)) /\ launched' = launched
      \/ Go(e, Running("run", x.version, x.count)) /\ launched' = launched + 1
  BY DEF Launch
<1>5. CASE \E verdict \in {"interrupted", "failed"} : Go(e, Ending(x.version, x.count, verdict)) /\ launched' = launched
  <2>1. PICK verdict \in {"interrupted", "failed"} : Go(e, Ending(x.version, x.count, verdict)) /\ launched' = launched
    BY <1>5
  <2> DEFINE y == Ending(x.version, x.count, verdict)
  <2>2. y \in EngineStates
    BY <1>1, NextStates DEF Over
  <2>3. y.at = "final" /\ y.version = x.version
    BY DEF Ending
  <2>4. OfCell(y) /\ OfCall(y)
    BY <2>3, <1>1 DEF OfCell, OfCall, Writers
  <2>5. Go(e, y) /\ launched' = launched
    BY <2>1
  <2> HIDE DEF y
  <2> QED BY <1>2, <1>3, <2>2, <2>3, <2>4, <2>5, EngineMoves
<1>6. CASE Go(e, Running("run", x.version, x.count)) /\ launched' = launched + 1
  <2> DEFINE y == Running("run", x.version, x.count)
  <2>2. y \in EngineStates
    BY <1>1, NextStates
  <2>3. y.at = "run" /\ y.version = x.version
    BY DEF Running
  <2>4. OfCell(y) /\ OfCall(y)
    BY <2>3, <1>1 DEF OfCell, OfCall, Writers
  <2>5. Go(e, y)
    BY <1>6
  <2> HIDE DEF y
  <2> QED BY <1>1, <1>2, <1>3, <1>6, <2>2, <2>3, <2>4, <2>5, EngineMoves
<1> QED BY <1>4, <1>5, <1>6

LEMMA FrameKeeps == ASSUME CodeInv, NEW e \in Owners, Frame(e) PROVE CodeInv'
<1> DEFINE x == engine[e]
<1>1. x.at = "run" /\ x.version \in Nat /\ x.count \in 0..MaxNested /\ OfCell(x)
  BY StatesOfEngines, EngineFields DEF Frame, Writers
<1>2. Quiet /\ UNCHANGED <<told, losses, launched>>
  BY DEF Frame, Quiet, Platform
<1>3. told \subseteq {cell.status} \cap Over /\ losses \in 0..MaxLosses
  BY DEF CodeInv, CodeTypeOK, JournalIsTrue
<1>4. PICK y \in EngineStates : Go(e, y) /\ y.at \in {"text", "prepare", "final"} /\ y.version = x.version
  <2>1. CASE Go(e, Running("text", x.version, x.count))
    BY <2>1, <1>1, NextStates DEF Running
  <2>2. CASE x.count < MaxNested /\ Go(e, Running("prepare", x.version, x.count + 1))
    <3>1. x.count + 1 \in Nested /\ x.count + 1 \in 0..MaxNested
      BY <2>2, <1>1, JournalBounds DEF Nested
    <3> QED BY <2>2, <3>1, <1>1, NextStates DEF Running
  <2>3. CASE \E verdict \in Over : Go(e, Ending(x.version, x.count, verdict))
    BY <2>3, <1>1, NextStates DEF Ending
  <2> QED BY <2>1, <2>2, <2>3 DEF Frame
<1>5. OfCell(y) /\ OfCall(y)
  BY <1>4, <1>1 DEF OfCell, OfCall, Writers
<1> QED BY <1>2, <1>3, <1>4, <1>5, EngineMoves


LEMMA TextKeeps == ASSUME CodeInv, NEW e \in Owners, Text(e) PROVE CodeInv'
<1> DEFINE x == engine[e]
<1>1. x.at = "text" /\ x.version \in Nat /\ x.count \in 0..MaxNested /\ OfCell(x)
  BY StatesOfEngines, EngineFields DEF Text, Writers
<1>2. PICK out \in BOOLEAN \X {"ok", "lost", "conflict"} :
        /\ PutCell(e, x.version, Value("running"), out)
        /\ Go(e, IF out[2] = "ok" THEN Running("run", x.version + 1, x.count) ELSE Rereading(x.count))
  BY DEF Text
<1>3. UNCHANGED <<nested, cellOwner, Platform, launched, told>>
  BY DEF Text
<1>4. /\ out[1] => Current(e, cell.version, x.version)
      /\ out[2] = "ok" => out[1]
      /\ losses' \in 0..MaxLosses
  <2>1. out \in Outcomes(e, cell.version, x.version) /\ Losing(out)
    BY <1>2 DEF PutCell
  <2> QED BY <2>1, OutcomesOfPut, LossesBounded
<1>5. told \subseteq {cell.status} \cap Over
  BY DEF CodeInv, CodeTypeOK, JournalIsTrue
<1>6. /\ Rereading(x.count) \in EngineStates /\ Rereading(x.count).at = "reread"
      /\ OfCell(Rereading(x.count)) /\ OfCall(Rereading(x.count))
  <2>1. Rereading(x.count) \in EngineStates
    BY <1>1, NextStates
  <2>2. Rereading(x.count).at = "reread"
    BY DEF Rereading
  <2> QED BY <2>1, <2>2 DEF OfCell, OfCall, Writers
<1>7. CASE out[1]
  <2>1. cell' = Value("running")
    BY <1>2, <1>7 DEF PutCell
  <2>2. cell.status = "running" /\ cell.version = x.version
    BY <1>1, <1>4, <1>7 DEF OfCell, Writers, Current
  <2>3. cell'.status = "running" /\ cell'.version = cell.version + 1
        /\ cell' \in [version : Nat, owner : 0..MaxOwners, source : Sources \cup {"none"},
                      status : Over \cup {"running"}]
    BY <2>1, ValueFacts
  <2>4. PICK y \in EngineStates : /\ Go(e, y) /\ y.at # "launch" /\ OfCall(y)
                                  /\ y.at \in Writers => y.version = cell'.version
    <3>1. CASE out[2] = "ok"
      <4> DEFINE y == Running("run", x.version + 1, x.count)
      <4>1. y \in EngineStates
        BY <1>1, NextStates
      <4>2. y.at = "run" /\ y.version = x.version + 1
        BY DEF Running
      <4>3. OfCall(y)
        BY <4>2 DEF OfCall
      <4>4. Go(e, y)
        BY <1>2, <3>1
      <4> HIDE DEF y
      <4> QED BY <2>2, <2>3, <4>1, <4>2, <4>3, <4>4
    <3>2. CASE out[2] # "ok"
      <4>1. Go(e, Rereading(x.count))
        BY <1>2, <3>2
      <4> QED BY <1>6, <4>1 DEF Writers
    <3> QED BY <3>1, <3>2
  <2>5. cell'.version \in Nat
    BY <2>3
  <2> QED BY <1>3, <1>4, <2>2, <2>3, <2>4, <2>5, CellMoves
<1>8. CASE ~out[1]
  <2>1. cell' = cell /\ Go(e, Rereading(x.count))
    BY <1>2, <1>4, <1>8 DEF PutCell
  <2>2. Quiet
    BY <2>1, <1>3 DEF Quiet, Platform
  <2> QED BY <1>3, <1>4, <1>5, <1>6, <2>1, <2>2, EngineMoves
<1> QED BY <1>7, <1>8

LEMMA RereadKeeps == ASSUME CodeInv, NEW e \in Owners, RereadCell(e) PROVE CodeInv'
<1> DEFINE x == engine[e]
<1>1. x.at = "reread" /\ x.count \in 0..MaxNested
  BY StatesOfEngines, EngineFields DEF RereadCell
<1>2. Quiet /\ UNCHANGED <<losses, launched>>
  BY DEF RereadCell, Quiet, Platform
<1>3. told \subseteq {cell.status} \cap Over /\ losses \in 0..MaxLosses /\ cell.version \in Nat
  BY DEF CodeInv, CodeTypeOK, JournalIsTrue
<1>4. told' \subseteq {cell.status} \cap Over
  BY <1>3 DEF RereadCell
<1>5. CASE Go(e, Resting)
  BY <1>2, <1>3, <1>4, <1>5, Rests, EngineMoves
<1>6. CASE cell.status = "running" /\ Go(e, Ending(cell.version, x.count, "interrupted"))
  <2> DEFINE y == Ending(cell.version, x.count, "interrupted")
  <2>1. y \in EngineStates
    BY <1>1, <1>3, NextStates DEF Over
  <2>2. y.at = "final" /\ y.version = cell.version
    BY DEF Ending
  <2>3. OfCell(y) /\ OfCall(y)
    BY <2>2, <1>3, <1>6 DEF OfCell, OfCall
  <2>4. Go(e, y)
    BY <1>6
  <2> HIDE DEF y
  <2> QED BY <1>2, <1>3, <1>4, <2>1, <2>2, <2>3, <2>4, EngineMoves
<1> QED BY <1>5, <1>6 DEF RereadCell

LEMMA ReconcileKeeps == ASSUME CodeInv, NEW e \in Owners, NEW n \in Nested, ReconcileCall(e, n) PROVE CodeInv'
<1> DEFINE y == Calling("redispatch", cell.version, n, nested[n].version)
<1>1. Quiet /\ UNCHANGED <<told, losses, launched>> /\ Go(e, y)
  BY DEF ReconcileCall, Quiet, Platform
<1>2. told \subseteq {cell.status} \cap Over /\ losses \in 0..MaxLosses /\ cell.version \in Nat
      /\ nested[n].version \in Nat
  BY DEF CodeInv, CodeTypeOK, JournalIsTrue
<1>3. y \in EngineStates
  BY <1>2 DEF EngineStates, Calling
<1>4. y.at = "redispatch" /\ y.count = n
  BY DEF Calling
<1>5. nested[n].version > 0
  BY <1>2 DEF ReconcileCall, CodeInv, Calls
<1>6. OfCell(y) /\ OfCall(y)
  BY <1>4, <1>5 DEF OfCell, OfCall, Writers
<1> HIDE DEF y
<1> QED BY <1>1, <1>2, <1>3, <1>4, <1>6, EngineMoves

\* What the platform's requests are.
LEMMA RequestFacts ==
    ASSUME CodeInv, NEW i \in 1..Len(requests)
    PROVE  requests[i] \in PlatformRequests /\ requests[i].call \in Nested
<1>1. requests \in Seq(PlatformRequests)
  BY DEF CodeInv, CodeTypeOK
<1>2. requests[i] \in PlatformRequests
  BY <1>1
<1> QED BY <1>2 DEF PlatformRequests

LEMMA InvokeKeeps == ASSUME CodeInv, NEW e \in Owners, Invoke(e) PROVE CodeInv'
<1> DEFINE x == engine[e]
<1>1. x.at \in {"invoke", "reinvoke"} /\ x.version \in Nat /\ x.count \in Nested /\ x.from \in Nat
      /\ OfCell(x) /\ OfCall(x) /\ x.request \in 1..MaxRequests
  BY StatesOfEngines, EngineFields DEF Invoke
<1>2. PICK r \in {"succeeded", "rejected", "uncertain"} :
         /\ AnswerCall(e, r)
         /\ Go(e, Recording(IF x.at = "invoke" THEN "record" ELSE "rerecord",
                            x.version, x.count, x.from, r))
  BY DEF Invoke
<1> DEFINE y == Recording(IF x.at = "invoke" THEN "record" ELSE "rerecord", x.version, x.count, x.from, r)
<1>3. Quiet /\ UNCHANGED <<told, losses, launched>> /\ Go(e, y)
  BY <1>2 DEF Invoke, Quiet, Platform
<1>4. told \subseteq {cell.status} \cap Over /\ losses \in 0..MaxLosses
  BY DEF CodeInv, CodeTypeOK, JournalIsTrue
<1>5. y \in EngineStates
  BY <1>1 DEF EngineStates, Recording
<1>6. /\ y.at \in {"record", "rerecord"} /\ y.version = x.version /\ y.count = x.count /\ y.result = r
      /\ y.at = "record" => x.at = "invoke"
  BY DEF Recording
<1>7. r = "succeeded" => x.count \in performed
  <2>1. x.request \in 1..Len(requests) /\ requests[x.request].call = x.count
    BY <1>1 DEF OfCall, CodeInv, CodeTypeOK
  <2>2. r = "succeeded" => requests[x.request].answer = "ok"
    BY <1>2 DEF AnswerCall
  <2> QED BY <2>1, <2>2 DEF CodeInv, Calls
<1>8. OfCell(y) /\ OfCall(y)
  BY <1>1, <1>6, <1>7 DEF OfCell, OfCall, Writers
<1> HIDE DEF y
<1> QED BY <1>3, <1>4, <1>5, <1>6, <1>8, EngineMoves

LEMMA TakeLeaseKeeps == ASSUME CodeInv, TakeLease PROVE CodeInv'
<1>1. cellOwner' \in Owners
  BY JournalBounds DEF TakeLease, CodeInv, CodeTypeOK, Owners
<1>2. UNCHANGED <<cell, nested, engine, requests, performed, launched, told, losses>>
  BY DEF TakeLease, Platform
<1> QED BY <1>1, <1>2 DEF CodeInv, CodeTypeOK, Engines, OfCell, OfCall, Launches, Calls, JournalIsTrue


\* A step of one engine that may write the record of a call: it is applied or it is not.
LEMMA CallStep ==
    ASSUME CodeInv, NEW e \in Owners, NEW y \in EngineStates, Go(e, y), NEW n \in Nested,
           NEW verdict \in CallStatuses \ {"absent"}, NEW applied \in BOOLEAN,
           nested' = IF applied THEN [nested EXCEPT ![n] = [version |-> nested[n].version + 1, status |-> verdict]]
                     ELSE nested,
           verdict = "succeeded" => n \in performed,
           UNCHANGED <<cell, cellOwner, Platform, launched, told>>, losses' \in 0..MaxLosses,
           OfCell(y), y.at \in {"reread", "run", "idle", "final", "dispatch", "record"},
           y.at \in {"dispatch", "record"} => applied /\ y.count = n,
           y.at = "record" => y.result # "succeeded"
    PROVE  CodeInv'
<1>1. CASE applied
  <2>1. nested' = [nested EXCEPT ![n] = [version |-> nested[n].version + 1, status |-> verdict]]
    BY <1>1
  <2>2. y.at \in {"record", "rerecord"} /\ y.result = "succeeded" => y.count \in performed
    OBVIOUS
  <2>3. y.at # "launch" /\ y.at \notin {"invoke", "reinvoke"}
    OBVIOUS
  <2>4. y.at \in {"dispatch", "redispatch", "record", "rerecord"} => y.count = n
    OBVIOUS
  <2> QED BY <2>1, <2>2, <2>3, <2>4, CallMoves
<1>2. CASE ~applied
  <2>1. Quiet
    BY <1>2 DEF Quiet, Platform
  <2>2. OfCall(y)
    BY <1>2 DEF OfCall
  <2>3. told' \subseteq {cell.status} \cap Over
    BY DEF CodeInv, CodeTypeOK, JournalIsTrue
  <2>4. y.at # "launch" /\ launched' = launched
    OBVIOUS
  <2> QED BY <2>1, <2>2, <2>3, <2>4, EngineMoves
<1> QED BY <1>1, <1>2

LEMMA PrepareCallKeeps == ASSUME CodeInv, NEW e \in Owners, Prepare(e) PROVE CodeInv'
<1> DEFINE x == engine[e]
<1>1. x.at = "prepare" /\ x.version \in Nat /\ x.count \in Nested /\ OfCell(x)
  BY StatesOfEngines, EngineFields DEF Prepare, Writers
<1>2. PICK out \in BOOLEAN \X {"ok", "lost", "conflict"} :
         /\ PutNested(e, x.count, 0, "prepared", out)
         /\ \/ ~Prepared(out) /\ Go(e, Rereading(x.count))
            \/ Prepared(out) /\ Go(e, Calling("dispatch", x.version, x.count, 1))
            \/ Prepared(out) /\ Go(e, Recording("record", x.version, x.count, 1, "rejected"))
  BY DEF Prepare
<1>3. UNCHANGED <<cell, cellOwner, Platform, launched, told>>
  BY DEF Prepare
<1>4. /\ out[2] = "ok" => out[1]
      /\ losses' \in 0..MaxLosses
  <2>1. out \in Outcomes(e, nested[x.count].version, 0) /\ Losing(out)
    BY <1>2 DEF PutNested
  <2> QED BY <2>1, OutcomesOfPut, LossesBounded
<1>5. PICK y \in EngineStates : /\ Go(e, y) /\ OfCell(y) /\ y.at \in {"reread", "dispatch", "record"}
                                /\ y.at \in {"dispatch", "record"} => out[1] /\ y.count = x.count
                                /\ y.at = "record" => y.result = "rejected"
  <2>1. CASE Go(e, Rereading(x.count))
    <3>1. Rereading(x.count) \in EngineStates
      BY <1>1 DEF EngineStates, Rereading, Nested
    <3>2. Rereading(x.count).at = "reread"
      BY DEF Rereading
    <3> QED BY <2>1, <3>1, <3>2 DEF OfCell, Writers
  <2>2. CASE out[1] /\ Go(e, Calling("dispatch", x.version, x.count, 1))
    <3> DEFINE y == Calling("dispatch", x.version, x.count, 1)
    <3>1. y \in EngineStates
      BY <1>1 DEF EngineStates, Calling
    <3>2. y.at = "dispatch" /\ y.version = x.version /\ y.count = x.count
      BY DEF Calling
    <3>3. OfCell(y)
      BY <1>1, <3>2 DEF OfCell, Writers
    <3> HIDE DEF y
    <3> QED BY <2>2, <3>1, <3>2, <3>3 DEF y
  <2>3. CASE out[1] /\ Go(e, Recording("record", x.version, x.count, 1, "rejected"))
    <3> DEFINE y == Recording("record", x.version, x.count, 1, "rejected")
    <3>1. y \in EngineStates
      BY <1>1 DEF EngineStates, Recording
    <3>2. y.at = "record" /\ y.version = x.version /\ y.count = x.count /\ y.result = "rejected"
      BY DEF Recording
    <3>3. OfCell(y)
      BY <1>1, <3>2 DEF OfCell, Writers
    <3>4. Go(e, y)
      BY <2>3
    <3> HIDE DEF y
    <3> QED BY <2>3, <3>1, <3>2, <3>3, <3>4
  <2> QED BY <1>2, <1>4, <2>1, <2>2, <2>3 DEF Prepared
<1>6. nested' = IF out[1] THEN [nested EXCEPT ![x.count] = [version |-> nested[x.count].version + 1, status |-> "prepared"]]
                ELSE nested
  BY <1>1, <1>2 DEF PutNested, CodeInv, CodeTypeOK
<1>7. out[1] \in BOOLEAN
  OBVIOUS
<1>8. "prepared" \in CallStatuses \ {"absent"}
  BY DEF CallStatuses
<1> QED BY <1>1, <1>3, <1>4, <1>5, <1>6, <1>7, <1>8, CallStep

LEMMA RecordKeeps == ASSUME CodeInv, NEW e \in Owners, Record(e) PROVE CodeInv'
<1> DEFINE x == engine[e]
<1>1. /\ x.at \in {"record", "rerecord"} /\ x.version \in Nat /\ x.count \in Nested /\ OfCell(x) /\ OfCall(x)
      /\ x.result \in {"succeeded", "rejected", "uncertain"}
  BY StatesOfEngines, EngineFields DEF Record
<1>2. PICK out \in BOOLEAN \X {"ok", "lost", "conflict"} :
         /\ PutNested(e, x.count, x.from, x.result, out)
         /\ Go(e, CASE x.at = "rerecord" -> Resting
                    [] x.at = "record" /\ out[2] = "ok" -> Running("run", x.version, x.count)
                    [] OTHER -> Rereading(x.count))
  BY DEF Record
<1>3. UNCHANGED <<cell, cellOwner, Platform, launched, told>>
  BY DEF Record
<1>4. losses' \in 0..MaxLosses
  <2>1. out \in Outcomes(e, nested[x.count].version, x.from) /\ Losing(out)
    BY <1>2 DEF PutNested
  <2> QED BY <2>1, OutcomesOfPut, LossesBounded
<1>5. PICK y \in EngineStates : Go(e, y) /\ OfCell(y) /\ y.at \in {"reread", "run", "idle"}
  <2>1. CASE Go(e, Resting)
    BY <2>1, Rests
  <2>2. CASE x.at = "record" /\ Go(e, Running("run", x.version, x.count))
    <3> DEFINE y == Running("run", x.version, x.count)
    <3>1. y \in EngineStates
      BY <1>1, NextStates DEF Nested
    <3>2. y.at = "run" /\ y.version = x.version
      BY DEF Running
    <3>3. OfCell(y) /\ Go(e, y)
      BY <2>2, <1>1, <3>2 DEF OfCell, Writers
    <3> HIDE DEF y
    <3> QED BY <3>1, <3>2, <3>3
  <2>3. CASE Go(e, Rereading(x.count))
    <3>1. Rereading(x.count) \in EngineStates
      BY <1>1 DEF EngineStates, Rereading, Nested
    <3>2. Rereading(x.count).at = "reread"
      BY DEF Rereading
    <3> QED BY <2>3, <3>1, <3>2 DEF OfCell, Writers
  <2> QED BY <1>1, <1>2, <2>1, <2>2, <2>3
<1>6. nested' = IF out[1] THEN [nested EXCEPT ![x.count] = [version |-> nested[x.count].version + 1, status |-> x.result]]
                ELSE nested
  BY <1>1, <1>2 DEF PutNested, CodeInv, CodeTypeOK
<1>7. out[1] \in BOOLEAN
  OBVIOUS
<1>8. x.result \in CallStatuses \ {"absent"} /\ (x.result = "succeeded" => x.count \in performed)
  BY <1>1 DEF CallStatuses, OfCall
<1> QED BY <1>1, <1>3, <1>4, <1>5, <1>6, <1>7, <1>8, CallStep

LEMMA CancelKeeps == ASSUME CodeInv, NEW e \in Owners, Cancel(e) PROVE CodeInv'
<1> DEFINE x == engine[e]
           y == Ending(x.version, x.count, "interrupted")
<1>1. /\ x.at \in {"run", "text", "prepare", "dispatch", "invoke", "record"}
      /\ x.version \in Nat /\ x.count \in 0..MaxNested /\ OfCell(x) /\ OfCall(x)
      /\ x.at \in {"prepare", "record"} => x.count \in Nested
      /\ x.at = "record" => x.result \in {"succeeded", "rejected", "uncertain"}
  <2>1. x.at \in {"run", "text", "prepare", "dispatch", "invoke", "record"}
    BY DEF Cancel
  <2>2. x \in EngineStates /\ OfCell(x) /\ OfCall(x)
    BY StatesOfEngines
  <2> HIDE DEF x
  <2> QED BY <2>1, <2>2, EngineFields DEF Writers, Nested
<1>2. UNCHANGED <<cellOwner, Platform, launched, told>> /\ Go(e, y)
  BY DEF Cancel
<1>3. losses' \in 0..MaxLosses
  BY JournalBounds DEF Cancel, CodeInv, CodeTypeOK
<1>4. y \in EngineStates /\ y.at = "final" /\ y.version = x.version
  <2>1. y \in EngineStates
    BY <1>1, NextStates DEF Over
  <2> QED BY <2>1 DEF Ending
<1>5. OfCell(y) /\ OfCall(y)
  BY <1>1, <1>4 DEF OfCell, OfCall, Writers
<1>6. told \subseteq {cell.status} \cap Over
  BY DEF CodeInv, CodeTypeOK, JournalIsTrue
<1> HIDE DEF y
<1>7. CASE UNCHANGED <<cell, nested>>
  <2>1. Quiet
    BY <1>2, <1>7 DEF Quiet, Platform
  <2> QED BY <1>2, <1>3, <1>4, <1>5, <1>6, <2>1, EngineMoves
<1>8. CASE x.at = "text" /\ Current(e, cell.version, x.version) /\ cell' = Value("running") /\ nested' = nested
  <2>1. cell.status = "running"
    BY <1>1, <1>8 DEF OfCell, Current, Writers
  <2>2. /\ cell'.status = "running" /\ cell'.version = cell.version + 1
        /\ cell' \in [version : Nat, owner : 0..MaxOwners, source : Sources \cup {"none"},
                      status : Over \cup {"running"}]
    BY <1>8, ValueFacts
  <2>3. y.version <= cell'.version
    BY <1>1, <1>4, <1>8, <2>2 DEF Current
  <2> QED BY <1>2, <1>3, <1>4, <1>5, <1>8, <2>1, <2>2, <2>3, CellMoves
<1>9. CASE x.at = "prepare" /\ Current(e, nested[x.count].version, 0) /\ cell' = cell
           /\ nested' = [nested EXCEPT ![x.count] = [version |-> 1, status |-> "prepared"]]
  <2>1. nested' = [nested EXCEPT ![x.count] = [version |-> nested[x.count].version + 1, status |-> "prepared"]]
    BY <1>9 DEF Current
  <2>2. "prepared" \in CallStatuses \ {"absent"} /\ x.count \in Nested
    BY <1>1, <1>9 DEF CallStatuses
  <2> QED BY <1>2, <1>3, <1>4, <1>5, <1>9, <2>1, <2>2, CallMoves
<1>10. CASE x.at = "record" /\ cell' = cell
            /\ nested' = [nested EXCEPT ![x.count] = [version |-> @.version + 1, status |-> x.result]]
  <2>1. nested' = [nested EXCEPT ![x.count] = [version |-> nested[x.count].version + 1, status |-> x.result]]
    BY <1>1, <1>10 DEF CodeInv, CodeTypeOK
  <2>2. x.result \in CallStatuses \ {"absent"} /\ x.count \in Nested /\ (x.result = "succeeded" => x.count \in performed)
    BY <1>1, <1>10 DEF CallStatuses, OfCall
  <2> QED BY <1>2, <1>3, <1>4, <1>5, <1>10, <2>1, <2>2, CallMoves
<1> QED BY <1>7, <1>8, <1>9, <1>10 DEF Cancel


LEMMA DispatchKeeps == ASSUME CodeInv, NEW e \in Owners, Dispatch(e) PROVE CodeInv'
<1> DEFINE x == engine[e]
           y == [at |-> IF x.at = "dispatch" THEN "invoke" ELSE "reinvoke", version |-> x.version,
                 count |-> x.count, from |-> x.from, request |-> Len(requests) + 1]
           r == [call |-> x.count, owner |-> e, answer |-> "none"]
<1>1. /\ x.at \in {"dispatch", "redispatch"} /\ x.version \in Nat /\ x.count \in Nested /\ x.from \in Nat
      /\ OfCell(x) /\ OfCall(x)
  BY StatesOfEngines, EngineFields DEF Dispatch
<1>2. /\ requests' = Append(requests, r) /\ Go(e, y) /\ Len(requests) < MaxRequests
      /\ UNCHANGED <<cell, nested, cellOwner, performed, launched, told, losses>>
  BY DEF Dispatch
<1>3. requests \in Seq(PlatformRequests) /\ r \in PlatformRequests /\ Len(requests) \in Nat
  BY <1>1 DEF CodeInv, CodeTypeOK, PlatformRequests
<1>4. /\ requests' \in Seq(PlatformRequests) /\ Len(requests') = Len(requests) + 1
      /\ requests'[Len(requests) + 1] = r
      /\ \A i \in 1..Len(requests) : requests'[i] = requests[i]
  <2> HIDE DEF r
  <2> QED BY <1>2, <1>3
<1>5. y \in EngineStates
  <2>1. Len(requests) + 1 \in 1..MaxRequests
    BY <1>2, <1>3, JournalBounds
  <2> QED BY <1>1, <2>1 DEF EngineStates
<1>6. /\ y.at \in {"invoke", "reinvoke"} /\ y.version = x.version /\ y.count = x.count
      /\ y.request = Len(requests) + 1 /\ (y.at = "invoke" => x.at = "dispatch")
  OBVIOUS
<1>7. r.call = x.count /\ r.answer = "none"
  OBVIOUS
<1> HIDE DEF y, r
<1>8. engine' \in [Owners -> EngineStates] /\ engine'[e] = y /\ \A f \in Owners \ {e} : engine'[f] = engine[f]
  BY <1>2, <1>5 DEF CodeInv, CodeTypeOK, Go
<1>9. CodeTypeOK'
  BY <1>2, <1>3, <1>4, <1>8, JournalBounds DEF CodeInv, CodeTypeOK
<1>10. Engines'
  <2> SUFFICES ASSUME NEW f \in Owners PROVE OfCell(engine[f])' /\ OfCall(engine[f])'
    BY DEF Engines
  <2>1. CASE f = e
    <3>1. OfCell(engine[f])'
      BY <2>1, <1>1, <1>2, <1>6, <1>8 DEF OfCell, Writers
    <3>2. OfCall(engine[f])'
      BY <2>1, <1>1, <1>2, <1>3, <1>4, <1>6, <1>7, <1>8 DEF OfCall
    <3> QED BY <3>1, <3>2
  <2>2. CASE f # e
    <3>1. OfCell(engine[f])'
      BY <2>2, <1>2, <1>8 DEF CodeInv, Engines, OfCell
    <3>2. engine[f].at \in {"invoke", "reinvoke"} => engine[f].request \in 1..MaxRequests
      BY StatesOfEngines, EngineFields
    <3>3. OfCall(engine[f]) /\ engine'[f] = engine[f]
      BY <2>2, <1>8, StatesOfEngines
    <3>4. OfCall(engine[f])'
      BY <3>2, <3>3, <1>2, <1>3, <1>4 DEF OfCall
    <3> QED BY <3>1, <3>4
  <2> QED BY <2>1, <2>2
<1>11. Launches'
  BY <1>2, <1>6, <1>8 DEF CodeInv, Launches
<1>12. Calls'
  <2>1. nested[x.count].version > 0
    BY <1>1 DEF OfCall
  <2> SUFFICES ASSUME NEW i \in 1..Len(requests')
               PROVE  /\ nested[requests'[i].call].version > 0
                      /\ requests'[i].answer = "ok" => requests'[i].call \in performed
    BY <1>2 DEF CodeInv, Calls
  <2>2. CASE i \in 1..Len(requests)
    BY <2>2, <1>4 DEF CodeInv, Calls
  <2>3. CASE i = Len(requests) + 1
    BY <2>1, <2>3, <1>4, <1>7
  <2> QED BY <2>2, <2>3, <1>3, <1>4
<1>13. JournalIsTrue'
  BY <1>2 DEF CodeInv, JournalIsTrue
<1> QED BY <1>9, <1>10, <1>11, <1>12, <1>13 DEF CodeInv

LEMMA PerformKeeps == ASSUME CodeInv, NEW i \in 1..Len(requests), Perform(i) PROVE CodeInv'
<1>1. requests[i] \in PlatformRequests /\ requests[i].call \in Nested /\ nested[requests[i].call].version > 0
  BY RequestFacts DEF CodeInv, Calls
<1>2. UNCHANGED <<cell, nested, cellOwner, engine, launched, told, losses>>
  BY DEF Perform
<1>3. PICK a \in {"ok", "refused"} :
         /\ requests' = [requests EXCEPT ![i].answer = a]
         /\ a = "ok" => performed' = performed \cup {requests[i].call}
         /\ a = "refused" => performed' = performed
  BY DEF Perform
<1>4. performed \subseteq performed' /\ performed' \subseteq performed \cup {requests[i].call}
      /\ (a = "ok" => requests[i].call \in performed')
  BY <1>3
<1> DEFINE r == [requests[i] EXCEPT !.answer = a]
<1>5. r \in PlatformRequests /\ r.call = requests[i].call /\ r.answer = a
  BY <1>1 DEF PlatformRequests
<1>6. requests \in Seq(PlatformRequests)
  BY DEF CodeInv, CodeTypeOK
<1>7. requests' = [requests EXCEPT ![i] = r]
  BY <1>3, <1>6
<1> HIDE DEF r
<1>8. /\ requests' \in Seq(PlatformRequests) /\ Len(requests') = Len(requests)
      /\ requests'[i] = r /\ \A j \in 1..Len(requests) : j # i => requests'[j] = requests[j]
  BY <1>5, <1>6, <1>7
<1>9. \A j \in 1..Len(requests) : requests'[j].call = requests[j].call
  BY <1>5, <1>8
<1>10. CodeTypeOK'
  <2>1. performed' \subseteq Nested
    BY <1>1, <1>4 DEF CodeInv, CodeTypeOK
  <2> QED BY <1>2, <1>8, <2>1 DEF CodeInv, CodeTypeOK
<1>11. Engines'
  <2> SUFFICES ASSUME NEW f \in Owners PROVE OfCell(engine[f])' /\ OfCall(engine[f])'
    BY DEF Engines
  <2>1. OfCell(engine[f])'
    BY <1>2 DEF CodeInv, Engines, OfCell
  <2>2. engine[f].at \in {"invoke", "reinvoke"} => engine[f].request \in 1..MaxRequests
    BY StatesOfEngines, EngineFields
  <2>3. OfCall(engine[f])
    BY StatesOfEngines
  <2>4. Len(requests) \in Nat
    BY <1>6
  <2>5. OfCall(engine[f])'
    BY <1>2, <1>4, <1>8, <1>9, <2>2, <2>3, <2>4 DEF OfCall
  <2> QED BY <2>1, <2>5
<1>12. Launches'
  BY <1>2 DEF CodeInv, Launches
<1>13. Calls'
  <2> SUFFICES ASSUME NEW j \in 1..Len(requests)
               PROVE  /\ nested[requests'[j].call].version > 0
                      /\ requests'[j].answer = "ok" => requests'[j].call \in performed'
    BY <1>2, <1>8 DEF CodeInv, Calls
  <2>1. CASE j = i
    BY <2>1, <1>1, <1>4, <1>5, <1>8
  <2>2. CASE j # i
    BY <2>2, <1>4, <1>8 DEF CodeInv, Calls
  <2> QED BY <2>1, <2>2
<1>14. JournalIsTrue'
  BY <1>1, <1>2, <1>4 DEF CodeInv, JournalIsTrue
<1> QED BY <1>10, <1>11, <1>12, <1>13, <1>14 DEF CodeInv

LEMMA CodeStutters == ASSUME CodeInv, UNCHANGED codeVars PROVE CodeInv'
  BY DEF codeVars, CodeInv, CodeTypeOK, Engines, OfCell, OfCall, Launches, Calls, JournalIsTrue

LEMMA CodeStepKeeps == CodeInv /\ [CodeNext]_codeVars => CodeInv'
<1> SUFFICES ASSUME CodeInv, [CodeNext]_codeVars PROVE CodeInv'
  OBVIOUS
<1>1. CASE UNCHANGED codeVars
  BY <1>1, CodeStutters
<1>2. CASE CodeNext
  BY <1>2, ExecuteKeeps, RecoverKeeps, SealKeeps, AdmitKeeps, LaunchKeeps, FrameKeeps, TextKeeps,
     PrepareCallKeeps, DispatchKeeps, InvokeKeeps, RecordKeeps, CancelKeeps, RereadKeeps, FinalKeeps,
     ReconcileKeeps, StopKeeps, TakeLeaseKeeps, PerformKeeps
  DEF CodeNext
<1> QED BY <1>1, <1>2

\* The journal of a cell keeps its types, for every number of calls, of owners and of
\* losses (engine.rs).
THEOREM CodeTypesCorrect == CodeSpec => []CodeTypeOK
<1>1. CodeInv => CodeTypeOK
  BY DEF CodeInv
<1> QED BY <1>1, CodeInitially, CodeStepKeeps, PTL DEF CodeSpec

\* Whatever write is lost, cancelled or overtaken by a new owner, the script is started
\* once at most, no call is performed before it is recorded, none is recorded as
\* succeeded that was not performed, and a returned outcome of the cell stays
\* (engine.rs of code mode over session_state.rs).
THEOREM JournalStaysTrue == CodeSpec => []JournalIsTrue
<1>1. CodeInv => JournalIsTrue
  BY DEF CodeInv
<1> QED BY <1>1, CodeInitially, CodeStepKeeps, PTL DEF CodeSpec

-----------------------------------------------------------------------------
(* Runs (RunLifecycle): type correctness. *)

USE NoWorkerAssumption, SessionOfAssumption, CanRunAssumption, CapacitiesAssumption


\* Marking some runs, waits or inputs leaves a function of the same type.
LEMMA MarkedType ==
    ASSUME NEW D, NEW V, NEW f \in [D -> V], NEW S, NEW mark \in V
    PROVE  Marked(f, S, mark) \in [D -> V]
  BY DEF Marked

\* Marking inside one run's waits or inputs keeps the table's type.
LEMMA MarkedAtType ==
    ASSUME NEW D, NEW V, NEW f \in [Runs -> [D -> V]], NEW r \in Runs, NEW S, NEW mark \in V
    PROVE  [f EXCEPT ![r] = Marked(@, S, mark)] \in [Runs -> [D -> V]]
  <1>1. Marked(f[r], S, mark) \in [D -> V]
    BY MarkedType
  <1> QED BY <1>1

\* Initially every table is empty.
LEMMA InitTypeOK == Init => TypeOK
  BY DEF Init, TypeOK, RowValid, NoView, ViewType, LiveStatus, Terminal, Inputs

\* Start (mutations.rs start_with_parent) keeps the tables well typed.
LEMMA StartType ==
    ASSUME TypeOK, NEW r \in Runs, Start(r),
           UNCHANGED <<workerVars, sessionVars, leaseVars, delayed, aborting, wait, due,
                       checkpoint, view>>
    PROVE  TypeOK'
  <1>1. input' \in [Runs -> [Inputs -> {"none", "pending", "settled"}]]
    BY MarkedAtType DEF Start, TypeOK
  <1>2. /\ status' \in [Runs -> LiveStatus \union Terminal \union {"absent"}]
        /\ version' \in [Runs -> Nat]
    BY DEF Start, TypeOK, LiveStatus
  <1>3. \A q \in Runs : RowValid(q)'
    BY DEF Start, TypeOK, RowValid, leaseVars
  <1> QED BY <1>1, <1>2, <1>3 DEF TypeOK, workerVars, sessionVars, leaseVars

\* Waking a run (mutations.rs wake) keeps its row valid.
LEMMA WakeType ==
    ASSUME TypeOK, NEW r \in Runs, Wake(r), UNCHANGED leaseVars, aborting \subseteq aborting'
    PROVE  /\ status' \in [Runs -> LiveStatus \union Terminal \union {"absent"}]
           /\ delayed' \subseteq Runs
           /\ \A q \in Runs : RowValid(q)'
  <1>1. /\ status' \in [Runs -> LiveStatus \union Terminal \union {"absent"}]
        /\ delayed' \subseteq Runs
    BY DEF TypeOK, Wake, LiveStatus
  <1>2. \A q \in Runs : RowValid(q)'
    BY DEF TypeOK, Wake, Wakes, RowValid, leaseVars
  <1> QED BY <1>1, <1>2

\* Settling waits (waits.rs resolve) keeps waits, run row and due set well typed.
LEMMA ResolveType ==
    ASSUME TypeOK, NEW r \in Runs, NEW settled \in SUBSET Waits, Resolve(r, settled),
           version' = [version EXCEPT ![r] = VersionAfterResolve(r, settled)],
           UNCHANGED <<workerVars, sessionVars, leaseVars, aborting, checkpoint, view>>,
           input' \in [Runs -> [Inputs -> {"none", "pending", "settled"}]]
    PROVE  TypeOK'
  <1>1. wait' \in [Runs -> [Waits -> {"none", "pending", "resolved", "cancelled"}]]
    BY MarkedAtType DEF Resolve, TypeOK
  <1>2. due' \in [Runs -> SUBSET Waits]
    BY DEF Resolve, TypeOK
  <1>3. version' \in [Runs -> Nat]
    BY DEF VersionAfterResolve, TypeOK
  <1>4. /\ status' \in [Runs -> LiveStatus \union Terminal \union {"absent"}]
        /\ delayed' \subseteq Runs
        /\ \A q \in Runs : RowValid(q)'
    BY WakeType DEF Resolve
  <1> QED BY <1>1, <1>2, <1>3, <1>4 DEF TypeOK, workerVars, sessionVars, leaseVars

\* Delivering an input (mutations.rs submit_input, coordination.rs run_message).
LEMMA DeliverType ==
    ASSUME TypeOK, NEW r \in Runs, NEW i \in Inputs, NEW matched, Deliver(r, i, matched),
           UNCHANGED <<workerVars, sessionVars, leaseVars, checkpoint, view>>
    PROVE  TypeOK'
  <1>1. input' \in [Runs -> [Inputs -> {"none", "pending", "settled"}]]
    BY MarkedAtType DEF Deliver, TypeOK
  <1>2. Open(r) \intersect (due[r] \union matched) \in SUBSET Waits
    BY DEF Open
  <1> QED BY <1>1, <1>2, ResolveType DEF Deliver

\* Asking a run to abort (mutations.rs request_abort).
LEMMA RequestAbortType ==
    ASSUME TypeOK, NEW r \in Runs, RequestAbort(r),
           UNCHANGED <<workerVars, sessionVars, leaseVars, checkpoint, view>>
    PROVE  TypeOK'
  <1>1. aborting' \subseteq Runs /\ aborting \subseteq aborting' /\ r \in aborting'
    BY DEF RequestAbort, TypeOK
  <1>2. CASE AbortUnstarted(r)
    <2>1. input' \in [Runs -> [Inputs -> {"none", "pending", "settled"}]]
      BY <1>2, MarkedAtType DEF AbortUnstarted, TypeOK
    <2>2. wait' \in [Runs -> [Waits -> {"none", "pending", "resolved", "cancelled"}]]
      BY <1>2, MarkedAtType DEF AbortUnstarted, TypeOK
    <2>3. /\ status' \in [Runs -> LiveStatus \union Terminal \union {"absent"}]
          /\ version' \in [Runs -> Nat]
          /\ delayed' \subseteq Runs
          /\ due' \in [Runs -> SUBSET Waits]
      BY <1>2 DEF AbortUnstarted, TypeOK, Terminal
    <2>4. \A q \in Runs : RowValid(q)'
      BY <1>1, <1>2 DEF AbortUnstarted, TypeOK, RowValid, leaseVars
    <2> QED BY <1>1, <2>1, <2>2, <2>3, <2>4 DEF TypeOK, workerVars, sessionVars, leaseVars
  <1>3. CASE AbortStarted(r)
    <2>1. input' \in [Runs -> [Inputs -> {"none", "pending", "settled"}]]
      BY <1>3, MarkedAtType DEF AbortStarted, TypeOK
    <2>2. version' \in [Runs -> Nat]
      BY <1>3 DEF AbortStarted, TypeOK
    <2>3. /\ status' \in [Runs -> LiveStatus \union Terminal \union {"absent"}]
          /\ delayed' \subseteq Runs
          /\ \A q \in Runs : RowValid(q)'
      BY <1>1, <1>3, WakeType DEF AbortStarted
    <2> QED BY <1>1, <1>3, <2>1, <2>2, <2>3
            DEF AbortStarted, TypeOK, workerVars, sessionVars, leaseVars
  <1> QED BY <1>2, <1>3 DEF RequestAbort

\* A claim (workers.rs claim) installs an owner, a lease and a positive epoch.
LEMMA ClaimType ==
    ASSUME TypeOK, NEW w \in Workers, NEW taken \in SUBSET Claimable(w), Claim(w, taken)
    PROVE  TypeOK'
  <1>1. taken \subseteq Runs /\ \A r \in taken : r \notin delayed
    BY DEF Claimable, TypeOK, RowValid
  <1>2. /\ status' = [r \in Runs |-> IF r \in taken THEN "running" ELSE status[r]]
        /\ owner' = [r \in Runs |-> IF r \in taken THEN w ELSE owner[r]]
        /\ lease' = [r \in Runs |-> IF r \in taken THEN "live" ELSE lease[r]]
    BY DEF Claim, Marked, TypeOK
  <1>3. /\ status' \in [Runs -> LiveStatus \union Terminal \union {"absent"}]
        /\ owner' \in [Runs -> Workers \union {NoWorker}]
        /\ lease' \in [Runs -> {"none", "live", "expired"}]
    BY <1>2 DEF TypeOK, LiveStatus
  <1>4. epoch' \in [Runs -> Nat] /\ version' \in [Runs -> Nat] /\ silent' \subseteq Workers
    BY DEF Claim, TypeOK
  <1>5. view' \in [Workers -> [Runs -> ViewType]]
    <2> DEFINE mine == [r \in Runs |->
                    IF r \in taken
                    THEN [epoch |-> epoch[r] + 1, version |-> 0, revision |-> 0, seen |-> {}, own |-> {}]
                    ELSE view[w][r]]
    <2>1. mine \in [Runs -> ViewType]
      BY DEF TypeOK, ViewType
    <2>2. view' = [view EXCEPT ![w] = mine]
      BY DEF Claim
    <2> QED BY <2>1, <2>2 DEF TypeOK
  <1>6. \A q \in Runs : RowValid(q)'
    BY <1>1, <1>2 DEF Claim, TypeOK, RowValid
  <1> QED BY <1>3, <1>4, <1>5, <1>6 DEF Claim, TypeOK, sessionVars, inboxVars

\* Loading the context (workers.rs context) changes only what the worker knows.
LEMMA ContextType ==
    ASSUME TypeOK, NEW w \in Workers, NEW r \in Runs, Context(w, r)
    PROVE  TypeOK'
  <1> DEFINE known == [epoch |-> view[w][r].epoch, version |-> version[r],
                       revision |-> Len(history[SessionOf[r]]), seen |-> Resolved(r), own |-> {}]
  <1>1. known \in ViewType
    BY DEF TypeOK, ViewType, Resolved
  <1>2. view' = [view EXCEPT ![w] = [view[w] EXCEPT ![r] = known]]
    BY DEF Context
  <1>3. view' \in [Workers -> [Runs -> ViewType]]
    BY <1>1, <1>2 DEF TypeOK
  <1> QED BY <1>3 DEF Context, TypeOK, RowValid, workerVars, sessionVars, leaseVars, runVars, inboxVars

\* Appending keeps a sequence's type.
LEMMA AppendType ==
    ASSUME NEW S, NEW q \in Seq(S), NEW e \in S
    PROVE  Append(q, e) \in Seq(S)
  OBVIOUS

\* What an appended sequence holds.
LEMMA AppendAt ==
    ASSUME NEW S, NEW q \in Seq(S), NEW e, NEW m \in DOMAIN Append(q, e)
    PROVE  /\ DOMAIN q = 1 .. Len(q) /\ Len(q) \in Nat
           /\ DOMAIN Append(q, e) = 1 .. Len(q) + 1
           /\ (m \in DOMAIN q /\ Append(q, e)[m] = q[m]) \/ (m = Len(q) + 1 /\ Append(q, e)[m] = e)
  OBVIOUS

\* Every element of a sequence over S is in S.
LEMMA ElementType ==
    ASSUME NEW S, NEW q \in Seq(S), NEW m \in DOMAIN q
    PROVE  q[m] \in S
  OBVIOUS

\* The disposition a commit ends with is one the worker may ask for.
LEMMA OutcomeType ==
    ASSUME NEW goal \in LiveStatus \union {"later"} \union Terminal, NEW pending, NEW settled
    PROVE  /\ Outcome(goal, pending, settled) \in LiveStatus \union {"later"} \union Terminal
           /\ Outcome(goal, pending, settled) = "aborted" => goal = "aborted"
           /\ Outcome(goal, pending, settled) = "completed" => goal = "completed"
           /\ Outcome(goal, pending, settled) \in {"waiting", "later"} => ~pending /\ settled = {}
  BY DEF Outcome, LiveStatus, Terminal

\* A commit (commits.rs commit) keeps every table well typed and the run's row
\* valid: the lease goes exactly when the run stops running.
LEMMA CommitType ==
    ASSUME TypeOK, NEW w \in Workers, NEW r \in Runs, NEW appended \in BOOLEAN,
           NEW acked, NEW cancelled, NEW opened \in SUBSET Waits, NEW early,
           NEW goal \in LiveStatus \union {"later"} \union Terminal, NEW answered \in BOOLEAN,
           Commit(w, r, appended, acked, cancelled, opened, early, goal, answered)
    PROVE  TypeOK'
  <1> DEFINE s       == SessionOf[r]
             known   == view[w][r]
             log     == IF appended THEN Append(history[s], [run |-> r, epoch |-> known.epoch])
                        ELSE history[s]
             pending == Pending(r) \ acked # {}
             held    == (Open(r) \ cancelled) \union opened
             settled == held \intersect (due[r] \union early)
             outcome == Outcome(goal, pending, settled)
             ends    == outcome \in Terminal
             next    == IF settled = {} THEN version[r] + 1 ELSE version[r] + 2
  <1>1. /\ Owned(w, r)
        /\ Accepted(r, goal, pending, log)
        /\ history' = [history EXCEPT ![s] = log]
        /\ input' = [input EXCEPT ![r] = Marked(@, acked, "settled")]
        /\ checkpoint' = [checkpoint EXCEPT ![r] = known.epoch]
        /\ wait' = [wait EXCEPT ![r] =
                      [k \in Waits |-> IF k \in settled THEN "resolved"
                                       ELSE IF k \in cancelled \/ (k \in held /\ ends) THEN "cancelled"
                                       ELSE IF k \in opened THEN "pending" ELSE wait[r][k]]]
        /\ due' = [due EXCEPT ![r] = IF ends THEN {} ELSE due[r] \ (settled \union cancelled)]
        /\ status' = [status EXCEPT ![r] = IF outcome = "later" THEN "ready" ELSE outcome]
        /\ delayed' = IF outcome = "later" THEN delayed \union {r} ELSE delayed
        /\ version' = [version EXCEPT ![r] = next]
        /\ Release(r, outcome)
        /\ view' = IF answered
                   THEN [view EXCEPT ![w] = [view[w] EXCEPT ![r] =
                           [epoch |-> known.epoch, version |-> next, revision |-> Len(log),
                            seen |-> known.seen, own |-> known.own \union settled]]]
                   ELSE view
        /\ UNCHANGED <<workerVars, archived, epoch, aborting>>
    BY DEF Commit
  <1>2. known \in ViewType /\ s \in Sessions /\ settled \subseteq Waits /\ next \in Nat
    BY DEF TypeOK, Open
  <1>3. /\ outcome \in LiveStatus \union {"later"} \union Terminal
        /\ outcome = "aborted" => goal = "aborted"
    BY OutcomeType
  <1> HIDE DEF outcome, next, settled, held, ends, pending, known, s
  <1>4. log \in Seq([run : Runs, epoch : Nat])
    <2> DEFINE entry == [run |-> r, epoch |-> known.epoch]
    <2>1. entry \in [run : Runs, epoch : Nat]
      BY <1>2 DEF ViewType
    <2>2. history[s] \in Seq([run : Runs, epoch : Nat])
      BY <1>2 DEF TypeOK
    <2> HIDE DEF entry
    <2> QED BY <2>1, <2>2, AppendType DEF entry
  <1>5. history' \in [Sessions -> Seq([run : Runs, epoch : Nat])]
    <2> HIDE DEF log
    <2> QED BY <1>1, <1>2, <1>4 DEF TypeOK
  <1>6. input' \in [Runs -> [Inputs -> {"none", "pending", "settled"}]]
    BY <1>1, MarkedAtType DEF TypeOK
  <1>7. /\ checkpoint' \in [Runs -> Nat]
        /\ version' \in [Runs -> Nat]
        /\ due' \in [Runs -> SUBSET Waits]
    BY <1>1, <1>2 DEF TypeOK, ViewType
  <1>8. wait' \in [Runs -> [Waits -> {"none", "pending", "resolved", "cancelled"}]]
    BY <1>1 DEF TypeOK
  <1>9. /\ status' \in [Runs -> LiveStatus \union Terminal \union {"absent"}]
        /\ delayed' \subseteq Runs
    BY <1>1, <1>3 DEF TypeOK, LiveStatus
  <1>10. /\ owner' \in [Runs -> Workers \union {NoWorker}]
         /\ lease' \in [Runs -> {"none", "live", "expired"}]
    BY <1>1 DEF Release, TypeOK
  <1>11. view' \in [Workers -> [Runs -> ViewType]]
    <2> DEFINE new == [epoch |-> known.epoch, version |-> next, revision |-> Len(log),
                       seen |-> known.seen, own |-> known.own \union settled]
    <2>1. Len(log) \in Nat
      BY <1>4
    <2>2. new \in ViewType
      <3> HIDE DEF log
      <3> QED BY <1>2, <2>1 DEF ViewType
    <2>3. view' = IF answered THEN [view EXCEPT ![w] = [view[w] EXCEPT ![r] = new]] ELSE view
      BY <1>1
    <2> HIDE DEF new
    <2> QED BY <2>2, <2>3 DEF TypeOK
  <1>12. \A q \in Runs : RowValid(q)'
    <2>1. status[r] = "running" /\ r \notin delayed
      BY <1>1 DEF Owned, TypeOK, RowValid
    <2>2. outcome = "aborted" => r \in aborting
      BY <1>1, <1>3 DEF Accepted
    <2>3. \A q \in Runs \ {r} : /\ status'[q] = status[q]
                                /\ owner'[q] = owner[q]
                                /\ lease'[q] = lease[q]
                                /\ q \in delayed' <=> q \in delayed
      BY <1>1 DEF Release, TypeOK
    <2>4. /\ status'[r] = IF outcome = "later" THEN "ready" ELSE outcome
          /\ outcome = "running" => owner'[r] = owner[r] /\ lease'[r] = lease[r]
          /\ outcome # "running" => owner'[r] = NoWorker /\ lease'[r] = "none"
          /\ r \in delayed' <=> outcome = "later"
      BY <1>1, <2>1 DEF Release, TypeOK
    <2>5. RowValid(r)'
      BY <1>1, <2>1, <2>2, <2>4 DEF TypeOK, RowValid
    <2>6. ASSUME NEW q \in Runs \ {r} PROVE RowValid(q)'
      BY <1>1, <2>3, <2>6 DEF TypeOK, RowValid
    <2> QED BY <2>5, <2>6
  <1> QED BY <1>1, <1>5, <1>6, <1>7, <1>8, <1>9, <1>10, <1>11, <1>12 DEF TypeOK, workerVars

\* The handlers of the worker registry, and the workers that fall silent.
LEMMA RegistryType ==
    ASSUME TypeOK, NEW w \in Workers,
           \/ \E c \in Capacities : RegisterWorker(w, c)
           \/ \E goal \in {"accepting", "draining", "offline"}, c \in Capacities : PatchWorker(w, goal, c)
           \/ Heartbeat(w) \/ RetireWorker(w) \/ WorkerSilent(w)
    PROVE  TypeOK'
  <1>1. /\ workerStatus' \in [Workers -> {"absent", "accepting", "draining", "offline"}]
        /\ capacity' \in [Workers -> Nat]
        /\ silent' \subseteq Workers
    <2>1. ASSUME NEW c \in Capacities, RegisterWorker(w, c) PROVE <1>1!:
      BY <2>1 DEF TypeOK, RegisterWorker
    <2>2. ASSUME NEW goal \in {"accepting", "draining", "offline"}, NEW c \in Capacities,
                 PatchWorker(w, goal, c)
          PROVE  <1>1!:
      BY <2>2 DEF TypeOK, PatchWorker
    <2>3. CASE Heartbeat(w) \/ RetireWorker(w) \/ WorkerSilent(w)
      BY <2>3 DEF TypeOK, Heartbeat, RetireWorker, WorkerSilent
    <2> QED BY <2>1, <2>2, <2>3
  <1>2. UNCHANGED <<sessionVars, leaseVars, runVars, inboxVars, checkpoint, view>>
    BY DEF RegisterWorker, PatchWorker, Heartbeat, RetireWorker, WorkerSilent
  <1> QED BY <1>1, <1>2 DEF TypeOK, RowValid, sessionVars, leaseVars, runVars, inboxVars

\* Time, and the reconciler's release of a lease that ran out.
LEMMA TimeType ==
    ASSUME TypeOK, NEW r \in Runs,
           \/ LeaseExpires(r) \/ DelayElapses(r) \/ RequeueExpired(r)
           \/ \E k \in Waits : ConditionMet(r, k)
    PROVE  TypeOK'
  <1>1. CASE LeaseExpires(r)
    BY <1>1 DEF LeaseExpires, TypeOK, RowValid, workerVars, sessionVars, runVars, inboxVars
  <1>2. CASE DelayElapses(r)
    BY <1>2 DEF DelayElapses, TypeOK, RowValid, workerVars, sessionVars, leaseVars, inboxVars
  <1>3. CASE RequeueExpired(r)
    <2>1. /\ status' \in [Runs -> LiveStatus \union Terminal \union {"absent"}]
          /\ version' \in [Runs -> Nat]
          /\ owner' \in [Runs -> Workers \union {NoWorker}]
          /\ lease' \in [Runs -> {"none", "live", "expired"}]
      BY <1>3 DEF RequeueExpired, TypeOK, LiveStatus
    <2>2. \A q \in Runs : RowValid(q)'
      BY <1>3 DEF RequeueExpired, TypeOK, RowValid
    <2> QED BY <1>3, <2>1, <2>2 DEF RequeueExpired, TypeOK, workerVars, sessionVars, inboxVars
  <1>4. CASE \E k \in Waits : ConditionMet(r, k)
    BY <1>4 DEF ConditionMet, TypeOK, RowValid, workerVars, sessionVars, leaseVars, runVars
  <1> QED BY <1>1, <1>2, <1>3, <1>4

\* Every step keeps TypeOK.
LEMMA NextTypeOK == TypeOK /\ [Next]_vars => TypeOK'
  <1> SUFFICES ASSUME TypeOK, [Next]_vars PROVE TypeOK'
    OBVIOUS
  <1>1. CASE Application
    <2>1. ASSUME NEW r \in Runs, StartRun(r) PROVE TypeOK'
      BY <2>1, StartType DEF StartRun
    <2>2. ASSUME NEW r \in Runs, Abort(r) PROVE TypeOK'
      BY <2>2, RequestAbortType DEF Abort
    <2>3. ASSUME NEW s \in Sessions, PatchSession(s) PROVE TypeOK'
      BY <2>3 DEF PatchSession, TypeOK, RowValid, workerVars, leaseVars, runVars, inboxVars
    <2>4. ASSUME NEW r \in Runs, NEW i \in Messages, NEW matched, SubmitInput(r, i, matched)
          PROVE  TypeOK'
      BY <2>4, DeliverType DEF SubmitInput, Inputs
    <2> QED BY <1>1, <2>1, <2>2, <2>3, <2>4 DEF Application
  <1>2. CASE WorkerLifecycle
    BY <1>2, RegistryType, ClaimType DEF WorkerLifecycle
  <1>3. ASSUME NEW w \in Workers, NEW r \in Runs, RunRequest(w, r) PROVE TypeOK'
    <2>1. CASE Context(w, r)
      BY <2>1, ContextType
    <2>2. CASE CommitSome(w, r)
      BY <2>2, CommitType DEF CommitSome
    <2>3. ASSUME NEW q \in Runs, StartChild(w, r, q) PROVE TypeOK'
      BY <2>3, StartType DEF StartChild
    <2>4. ASSUME NEW q \in Runs, AbortRequest(w, r, q) PROVE TypeOK'
      BY <2>4, RequestAbortType DEF AbortRequest
    <2>5. ASSUME NEW q \in Runs, NEW i \in Messages, NEW matched, RunMessage(w, r, q, i, matched)
          PROVE  TypeOK'
      BY <2>5, DeliverType DEF RunMessage, Inputs
    <2> QED BY <1>3, <2>1, <2>2, <2>3, <2>4, <2>5 DEF RunRequest
  <1>4. CASE Reconciler
    <2>1. ASSUME NEW r \in Runs, ResolveDue(r) PROVE TypeOK'
      <3>1. Open(r) \intersect due[r] \in SUBSET Waits
        BY DEF Open
      <3>2. input' \in [Runs -> [Inputs -> {"none", "pending", "settled"}]]
        BY <2>1 DEF ResolveDue, TypeOK
      <3> QED BY <2>1, <3>1, <3>2, ResolveType DEF ResolveDue
    <2> QED BY <1>4, <2>1, TimeType, RegistryType DEF Reconciler
  <1>5. CASE Time
    BY <1>5, TimeType, RegistryType DEF Time
  <1>6. CASE UNCHANGED vars
    BY <1>6 DEF TypeOK, RowValid, vars, workerVars, sessionVars, leaseVars, runVars, inboxVars
  <1> QED BY <1>1, <1>2, <1>3, <1>4, <1>5, <1>6 DEF Next

\* In every behaviour of the runtime every table keeps its type and every row of
\* table runs satisfies the schema's CHECK constraints: exactly the running runs
\* have an owner, a lease and a positive epoch.
THEOREM TypeCorrect == Spec => []TypeOK
  <1>1. Init => TypeOK
    BY InitTypeOK
  <1>2. TypeOK /\ [Next]_vars => TypeOK'
    BY NextTypeOK
  <1> QED BY <1>1, <1>2, PTL DEF Spec

-----------------------------------------------------------------------------
(* Safety.  With TypeOK (which knows that a running run is neither parked    *)
(* nor put off, and has been claimed) the conjunction of the safety          *)
(* properties is inductive.  Most actions disturb one run and only some of   *)
(* the properties; the frame lemmas dispose of the others.                   *)

\* What the three inbox properties say of one run.
Inbox(r) ==
    /\ status[r] = "waiting" \/ r \in delayed => Pending(r) = {}
    /\ status[r] = "waiting" => Open(r) # {}
    /\ status[r] \in Terminal => Open(r) = {}
    /\ status[r] = "completed" \/ (status[r] = "aborted" /\ epoch[r] = 0) => Pending(r) = {}

Safe ==
    /\ \A r \in Runs : Inbox(r)
    /\ OfflineHoldsNoLease
    /\ OneLiveRunPerSession
    /\ FencedWrites

\* A run that a step leaves alone keeps its part of the invariant.
LEMMA InboxFrame ==
    ASSUME NEW q \in Runs, Inbox(q), status'[q] = status[q], q \in delayed' => q \in delayed,
           epoch'[q] = epoch[q], input'[q] = input[q], wait'[q] = wait[q]
    PROVE  Inbox(q)'
  BY DEF Inbox, Pending, Open

\* Leases that are only released or run out leave the offline workers without one.
LEMMA OfflineFrame ==
    ASSUME OfflineHoldsNoLease, workerStatus' = workerStatus,
           \A r \in Runs : lease'[r] = "live" =>
               \/ lease[r] = "live" /\ owner'[r] = owner[r]
               \/ workerStatus[owner'[r]] # "offline"
    PROVE  OfflineHoldsNoLease'
  BY DEF OfflineHoldsNoLease, Leases

\* A step that starts no run keeps the sessions exclusive.
LEMMA OneLiveFrame ==
    ASSUME OneLiveRunPerSession, \A r \in Runs : Live(r)' => Live(r)
    PROVE  OneLiveRunPerSession'
  BY DEF OneLiveRunPerSession

\* A step that writes neither history nor checkpoint, and lowers no epoch.
LEMMA FencedFrame ==
    ASSUME TypeOK, FencedWrites, UNCHANGED <<history, checkpoint>>,
           epoch' \in [Runs -> Nat], \A r \in Runs : epoch[r] <= epoch'[r]
    PROVE  FencedWrites'
  <1>1. ASSUME NEW r \in Runs PROVE checkpoint'[r] <= epoch'[r]
    BY DEF FencedWrites, TypeOK
  <1> QED BY <1>1 DEF FencedWrites

\* The inputs and waits a step marks.
LEMMA MarkedAt ==
    ASSUME NEW D, NEW V, NEW f \in [Runs -> [D -> V]], NEW r \in Runs, NEW S, NEW mark
    PROVE  /\ \A x \in D : [f EXCEPT ![r] = Marked(@, S, mark)][r][x] = IF x \in S THEN mark ELSE f[r][x]
           /\ \A q \in Runs \ {r} : [f EXCEPT ![r] = Marked(@, S, mark)][q] = f[q]
  BY DEF Marked

\* Starting a run: it is queued with its first input, in a session without a live run.
LEMMA StartSafe ==
    ASSUME TypeOK, Safe, NEW r \in Runs, Start(r),
           UNCHANGED <<workerVars, sessionVars, leaseVars, delayed, aborting, wait, due,
                       checkpoint, view>>
    PROVE  Safe'
  <1>1. \A q \in Runs \ {r} : status'[q] = status[q] /\ input'[q] = input[q]
    BY MarkedAt DEF Start, TypeOK
  <1>2. status[r] = "absent" /\ status'[r] = "ready" /\ r \notin delayed'
    BY DEF Start, TypeOK, RowValid
  <1>3. ASSUME NEW q \in Runs PROVE Inbox(q)'
    <2>1. CASE q = r
      BY <1>2, <2>1 DEF Inbox, Terminal
    <2>2. CASE q # r
      BY <1>1, <2>2, InboxFrame DEF Safe, leaseVars
    <2> QED BY <2>1, <2>2
  <1>4. OneLiveRunPerSession'
    BY <1>1, <1>2 DEF Start, Safe, OneLiveRunPerSession, Live, LiveStatus
  <1>5. OfflineHoldsNoLease' /\ FencedWrites'
    BY DEF Safe, OfflineHoldsNoLease, Leases, FencedWrites, workerVars, sessionVars, leaseVars
  <1> QED BY <1>3, <1>4, <1>5 DEF Safe

\* Settling waits and waking: what was parked or put off is queued.
LEMMA ResolveSafe ==
    ASSUME TypeOK, Safe, NEW r \in Runs, NEW settled, Resolve(r, settled), Live(r),
           UNCHANGED <<workerVars, sessionVars, leaseVars, checkpoint>>,
           \A q \in Runs \ {r} : input'[q] = input[q]
    PROVE  Safe'
  <1>1. \A q \in Runs \ {r} : status'[q] = status[q] /\ wait'[q] = wait[q]
    BY MarkedAt DEF Resolve, Wake, TypeOK
  <1>2. delayed' \subseteq delayed
    BY DEF Resolve, Wake
  <1>3. status'[r] \in {"ready", "running"} /\ r \notin delayed'
    BY DEF Resolve, Wake, Wakes, Live, LiveStatus, TypeOK, RowValid
  <1>4. ASSUME NEW q \in Runs PROVE Inbox(q)'
    <2>1. CASE q = r
      BY <1>3, <2>1 DEF Inbox, Terminal
    <2>2. CASE q # r
      BY <1>1, <1>2, <2>2, InboxFrame DEF Safe, leaseVars
    <2> QED BY <2>1, <2>2
  <1>5. OneLiveRunPerSession'
    BY <1>1, OneLiveFrame DEF Safe, Live
  <1>6. OfflineHoldsNoLease' /\ FencedWrites'
    BY DEF Safe, OfflineHoldsNoLease, Leases, FencedWrites, workerVars, sessionVars, leaseVars
  <1> QED BY <1>4, <1>5, <1>6 DEF Safe

\* Asking a run to abort either wakes it or ends it with its inbox settled.
LEMMA RequestAbortSafe ==
    ASSUME TypeOK, Safe, NEW r \in Runs, RequestAbort(r),
           UNCHANGED <<workerVars, sessionVars, leaseVars, checkpoint, view>>
    PROVE  Safe'
  <1>1. CASE AbortUnstarted(r)
    <2>1. \A q \in Runs \ {r} : status'[q] = status[q] /\ input'[q] = input[q] /\ wait'[q] = wait[q]
      BY <1>1, MarkedAt DEF AbortUnstarted, TypeOK
    <2>2. Live(r) /\ status'[r] = "aborted" /\ delayed' = delayed \ {r}
      BY <1>1 DEF AbortUnstarted, Live, LiveStatus, TypeOK
    <2>3. Pending(r)' = {}
      <3>1. \A i \in Inputs : input'[r][i] = IF i \in Pending(r) \union {"abort"} THEN "settled"
                                             ELSE input[r][i]
        BY <1>1 DEF AbortUnstarted, Marked, TypeOK
      <3> QED BY <3>1 DEF Pending
    <2>4. Open(r)' = {}
      <3>1. \A k \in Waits : wait'[r][k] = IF k \in Open(r) THEN "cancelled" ELSE wait[r][k]
        BY <1>1 DEF AbortUnstarted, Marked, TypeOK
      <3> QED BY <3>1 DEF Open
    <2>5. ASSUME NEW q \in Runs PROVE Inbox(q)'
      <3>1. CASE q = r
        BY <2>2, <2>3, <2>4, <3>1 DEF Inbox
      <3>2. CASE q # r
        BY <2>1, <2>2, <3>2, InboxFrame DEF Safe, leaseVars
      <3> QED BY <3>1, <3>2
    <2>6. OneLiveRunPerSession'
      BY <2>1, <2>2, OneLiveFrame DEF Safe, Live
    <2>7. OfflineHoldsNoLease' /\ FencedWrites'
      BY DEF Safe, OfflineHoldsNoLease, Leases, FencedWrites, workerVars, sessionVars, leaseVars
    <2> QED BY <2>5, <2>6, <2>7 DEF Safe
  <1>2. CASE AbortStarted(r)
    <2>1. \A q \in Runs \ {r} : status'[q] = status[q] /\ input'[q] = input[q] /\ wait'[q] = wait[q]
      BY <1>2, MarkedAt DEF AbortStarted, Wake, TypeOK
    <2>2. Live(r) /\ status'[r] \in {"ready", "running"} /\ r \notin delayed' /\ delayed' \subseteq delayed
      BY <1>2 DEF AbortStarted, Wake, Wakes, Live, LiveStatus, TypeOK, RowValid
    <2>3. ASSUME NEW q \in Runs PROVE Inbox(q)'
      <3>1. CASE q = r
        BY <2>2, <3>1 DEF Inbox, Terminal
      <3>2. CASE q # r
        BY <2>1, <2>2, <3>2, InboxFrame DEF Safe, leaseVars
      <3> QED BY <3>1, <3>2
    <2>4. OneLiveRunPerSession'
      BY <2>1, <2>2, OneLiveFrame DEF Safe, Live
    <2>5. OfflineHoldsNoLease' /\ FencedWrites'
      BY DEF Safe, OfflineHoldsNoLease, Leases, FencedWrites, workerVars, sessionVars, leaseVars
    <2> QED BY <2>3, <2>4, <2>5 DEF Safe
  <1> QED BY <1>1, <1>2 DEF RequestAbort

\* A commit: parking needs an open wait and no unread input, ending closes the
\* waits, completing needs an empty inbox, and every write carries the run's own
\* epoch, which is at least that of every earlier write.
LEMMA CommitSafe ==
    ASSUME TypeOK, Safe, NEW w \in Workers, NEW r \in Runs, NEW appended \in BOOLEAN,
           NEW acked, NEW cancelled, NEW opened \in SUBSET Waits, NEW early,
           NEW goal \in LiveStatus \union {"later"} \union Terminal, NEW answered \in BOOLEAN,
           Commit(w, r, appended, acked, cancelled, opened, early, goal, answered)
    PROVE  Safe'
  <1> DEFINE s       == SessionOf[r]
             entry   == [run |-> r, epoch |-> epoch[r]]
             pending == Pending(r) \ acked # {}
             held    == (Open(r) \ cancelled) \union opened
             settled == held \intersect (due[r] \union early)
             outcome == Outcome(goal, pending, settled)
             ends    == outcome \in Terminal
  <1>1. /\ status[r] = "running" /\ owner[r] = w /\ lease[r] = "live" /\ view[w][r].epoch = epoch[r]
        /\ epoch[r] > 0 /\ r \notin delayed
    BY DEF Commit, Owned, TypeOK, RowValid
  <1>2. /\ cancelled \subseteq Open(r)
        /\ \A k \in opened : wait[r][k] = "none"
        /\ goal = "completed" => ~pending
        /\ outcome = "waiting" => held # {}
        /\ input' = [input EXCEPT ![r] = Marked(@, acked, "settled")]
        /\ checkpoint' = [checkpoint EXCEPT ![r] = epoch[r]]
        /\ wait' = [wait EXCEPT ![r] =
                      [k \in Waits |-> IF k \in settled THEN "resolved"
                                       ELSE IF k \in cancelled \/ (k \in held /\ ends) THEN "cancelled"
                                       ELSE IF k \in opened THEN "pending" ELSE wait[r][k]]]
        /\ status' = [status EXCEPT ![r] = IF outcome = "later" THEN "ready" ELSE outcome]
        /\ delayed' = IF outcome = "later" THEN delayed \union {r} ELSE delayed
        /\ Release(r, outcome)
        /\ UNCHANGED <<workerVars, archived, epoch, aborting>>
    BY <1>1 DEF Commit, Accepted
  <1>3. history' = [history EXCEPT ![s] = IF appended THEN Append(history[s], entry) ELSE history[s]]
    BY <1>1 DEF Commit
  <1>4. /\ outcome \in LiveStatus \union {"later"} \union Terminal
        /\ outcome = "completed" => goal = "completed"
        /\ outcome \in {"waiting", "later"} => ~pending /\ settled = {}
    BY OutcomeType
  <1>5. /\ \A i \in Inputs : input'[r][i] = IF i \in acked THEN "settled" ELSE input[r][i]
        /\ \A q \in Runs \ {r} : input'[q] = input[q]
    BY <1>2 DEF Marked, TypeOK
  <1>6. ~pending => Pending(r)' = {}
    BY <1>5 DEF Pending
  <1>7. \A k \in Waits :
           wait'[r][k] = IF k \in settled THEN "resolved"
                         ELSE IF k \in cancelled \/ (k \in held /\ ends) THEN "cancelled"
                         ELSE IF k \in opened THEN "pending" ELSE wait[r][k]
    BY <1>2 DEF TypeOK
  <1>8. held \subseteq Waits
    BY DEF Open
  <1>9. settled = {} /\ ~ends /\ held # {} => Open(r)' # {}
    BY <1>2, <1>7, <1>8 DEF Open
  <1>10. ends => Open(r)' = {}
    BY <1>7 DEF Open
  <1> HIDE DEF pending, held, settled, outcome, ends
  <1>11. ASSUME NEW q \in Runs PROVE Inbox(q)'
    <2>1. CASE q = r
      <3>1. status'[r] = IF outcome = "later" THEN "ready" ELSE outcome
        BY <1>2 DEF TypeOK
      <3>2. (r \in delayed' <=> outcome = "later") /\ epoch'[r] = epoch[r]
        BY <1>1, <1>2
      <3>3. (outcome \in Terminal <=> ends) /\ (outcome = "waiting" => ~ends)
        BY DEF ends, Terminal
      <3> QED BY <1>1, <1>2, <1>4, <1>6, <1>9, <1>10, <2>1, <3>1, <3>2, <3>3
              DEF Inbox, Terminal, TypeOK
    <2>2. CASE q # r
      BY <1>2, <1>5, <2>2, InboxFrame DEF Safe, TypeOK
    <2> QED BY <2>1, <2>2
  <1>12. OfflineHoldsNoLease'
    <2>1. \A q \in Runs : lease'[q] = "live" => lease[q] = "live" /\ owner'[q] = owner[q]
      BY <1>2 DEF Release, TypeOK
    <2> QED BY <1>2, <2>1, OfflineFrame DEF Safe, workerVars
  <1>13. OneLiveRunPerSession'
    <2>1. \A q \in Runs : Live(q)' => Live(q)
      BY <1>1, <1>2 DEF Live, LiveStatus, TypeOK
    <2> QED BY <2>1, OneLiveFrame DEF Safe
  <1>14. FencedWrites'
    <2>1. ASSUME NEW q \in Runs
          PROVE  /\ checkpoint[q] <= checkpoint'[q]
                 /\ checkpoint'[q] <= epoch'[q]
                 /\ checkpoint[q] \in Nat /\ checkpoint'[q] \in Nat
      BY <1>2 DEF Safe, FencedWrites, TypeOK
    <2>2. checkpoint'[r] = epoch[r] /\ epoch[r] \in Nat
      BY <1>2 DEF TypeOK
    <2>3. ASSUME NEW t \in Sessions, NEW m \in DOMAIN history'[t]
          PROVE  \/ /\ m \in DOMAIN history[t]
                    /\ history'[t][m] = history[t][m]
                    /\ history[t][m].run \in Runs /\ history[t][m].epoch \in Nat
                 \/ /\ m = Len(history[t]) + 1 /\ DOMAIN history'[t] = 1 .. m
                    /\ history'[t][m] = entry
      <3>1. history[t] \in Seq([run : Runs, epoch : Nat])
        BY DEF TypeOK
      <3>2. history'[t] = history[t] \/ history'[t] = Append(history[t], entry)
        BY <1>3 DEF TypeOK
      <3>3. CASE history'[t] = history[t]
        <4>1. history[t][m] \in [run : Runs, epoch : Nat]
          BY <3>1, <3>3, <2>3, ElementType
        <4> QED BY <3>3, <2>3, <4>1
      <3>4. CASE history'[t] = Append(history[t], entry)
        <4>1. /\ DOMAIN history'[t] = 1 .. Len(history[t]) + 1
              /\ \/ m \in DOMAIN history[t] /\ history'[t][m] = history[t][m]
                 \/ m = Len(history[t]) + 1 /\ history'[t][m] = entry
          BY <3>1, <3>4, <2>3, AppendAt
        <4>2. m \in DOMAIN history[t] => history[t][m] \in [run : Runs, epoch : Nat]
          BY <3>1, ElementType
        <4> QED BY <4>1, <4>2
      <3> QED BY <3>2, <3>3, <3>4
    <2>4. ASSUME NEW t \in Sessions, NEW m \in DOMAIN history'[t]
          PROVE  history'[t][m].epoch <= checkpoint'[history'[t][m].run]
      <3>1. CASE m \in DOMAIN history[t] /\ history'[t][m] = history[t][m]
        <4>1. history[t][m] \in [run : Runs, epoch : Nat]
          <5>1. history[t] \in Seq([run : Runs, epoch : Nat])
            BY DEF TypeOK
          <5> QED BY <3>1, <5>1, ElementType
        <4>2. history[t][m].epoch <= checkpoint[history[t][m].run]
          BY <3>1 DEF Safe, FencedWrites
        <4>3. /\ checkpoint[history[t][m].run] <= checkpoint'[history[t][m].run]
              /\ checkpoint[history[t][m].run] \in Nat /\ checkpoint'[history[t][m].run] \in Nat
          BY <2>1, <4>1
        <4> QED BY <3>1, <4>1, <4>2, <4>3
      <3>2. CASE history'[t][m] = entry
        BY <2>2, <3>2
      <3> QED BY <2>3, <2>4, <3>1, <3>2
    <2>5. ASSUME NEW t \in Sessions, NEW m \in DOMAIN history'[t], NEW n \in DOMAIN history'[t],
                 m < n, history'[t][m].run = history'[t][n].run
          PROVE  history'[t][m].epoch <= history'[t][n].epoch
      <3>1. DOMAIN history[t] = 1 .. Len(history[t]) /\ Len(history[t]) \in Nat
        BY DEF TypeOK
      <3>2. CASE n \in DOMAIN history[t] /\ history'[t][n] = history[t][n]
        <4>1. m \in DOMAIN history[t] /\ history'[t][m] = history[t][m]
          BY <2>3, <2>5, <3>1, <3>2
        <4> QED BY <2>5, <3>2, <4>1 DEF Safe, FencedWrites
      <3>3. CASE n = Len(history[t]) + 1 /\ DOMAIN history'[t] = 1 .. n /\ history'[t][n] = entry
        <4>1. history'[t][m].run = r
          BY <2>5, <3>3
        <4>2. history'[t][m].epoch <= checkpoint'[r]
          BY <2>4, <4>1, <2>5
        <4> QED BY <2>2, <3>3, <4>2
      <3> QED BY <2>3, <2>5, <3>2, <3>3
    <2> QED BY <2>1, <2>4, <2>5 DEF FencedWrites
  <1> QED BY <1>11, <1>12, <1>13, <1>14 DEF Safe

\* A claim: what is taken was queued, or running under a lease that ran out.
LEMMA ClaimSafe ==
    ASSUME TypeOK, Safe, NEW w \in Workers, NEW taken \in SUBSET Claimable(w), Claim(w, taken)
    PROVE  Safe'
  <1>1. /\ status' = [r \in Runs |-> IF r \in taken THEN "running" ELSE status[r]]
        /\ owner' = [r \in Runs |-> IF r \in taken THEN w ELSE owner[r]]
        /\ lease' = [r \in Runs |-> IF r \in taken THEN "live" ELSE lease[r]]
        /\ epoch' = [r \in Runs |-> IF r \in taken THEN epoch[r] + 1 ELSE epoch[r]]
    BY DEF Claim, Marked, TypeOK
  <1>2. UNCHANGED <<workerStatus, history, delayed, input, wait, checkpoint>>
    BY DEF Claim, sessionVars, inboxVars
  <1>3. \A r \in taken : r \in Runs /\ r \notin delayed /\ Live(r)
    BY DEF Claimable, Live, LiveStatus, TypeOK, RowValid
  <1>4. ASSUME NEW r \in Runs PROVE Inbox(r)'
    <2>1. CASE r \in taken
      BY <1>1, <1>2, <1>3, <2>1 DEF Inbox, Terminal
    <2>2. CASE r \notin taken
      BY <1>1, <1>2, <2>2, InboxFrame DEF Safe
    <2> QED BY <2>1, <2>2
  <1>5. OfflineHoldsNoLease'
    <2>1. workerStatus[w] # "offline"
      BY DEF Claim
    <2> QED BY <1>1, <1>2, <2>1, OfflineFrame DEF Safe
  <1>6. OneLiveRunPerSession'
    BY <1>1, <1>3, OneLiveFrame DEF Safe, Live
  <1>7. FencedWrites'
    <2>1. epoch' \in [Runs -> Nat] /\ \A r \in Runs : epoch[r] <= epoch'[r]
      BY <1>1 DEF TypeOK
    <2> QED BY <1>2, <2>1, FencedFrame DEF Safe
  <1> QED BY <1>4, <1>5, <1>6, <1>7 DEF Safe

\* The registry's handlers: only a worker without an unexpired lease goes offline.
LEMMA RegistrySafe ==
    ASSUME TypeOK, Safe, NEW w \in Workers,
           \/ \E c \in Capacities : RegisterWorker(w, c)
           \/ \E goal \in {"accepting", "draining", "offline"}, c \in Capacities : PatchWorker(w, goal, c)
           \/ Heartbeat(w) \/ RetireWorker(w) \/ WorkerSilent(w)
    PROVE  Safe'
  <1>1. UNCHANGED <<sessionVars, leaseVars, runVars, inboxVars, checkpoint>>
    BY DEF RegisterWorker, PatchWorker, Heartbeat, RetireWorker, WorkerSilent
  <1>2. OfflineHoldsNoLease'
    <2>1. \A v \in Workers : Leases(v)' = Leases(v)
      BY <1>1 DEF Leases, leaseVars
    <2>2. \A v \in Workers : workerStatus'[v] = "offline" => workerStatus[v] = "offline" \/ Leases(v) = {}
      BY DEF RegisterWorker, PatchWorker, Heartbeat, RetireWorker, WorkerSilent, TypeOK
    <2> QED BY <2>1, <2>2 DEF Safe, OfflineHoldsNoLease
  <1> QED BY <1>1, <1>2 DEF Safe, Inbox, Pending, Open, OneLiveRunPerSession, Live, FencedWrites,
                            sessionVars, leaseVars, runVars, inboxVars

\* Time, and the release of a lease that ran out.
LEMMA TimeSafe ==
    ASSUME TypeOK, Safe, NEW r \in Runs,
           \/ LeaseExpires(r) \/ DelayElapses(r) \/ RequeueExpired(r)
           \/ \E k \in Waits : ConditionMet(r, k)
    PROVE  Safe'
  <1>1. UNCHANGED <<workerStatus, history, checkpoint, epoch, input, wait>>
    BY DEF LeaseExpires, DelayElapses, RequeueExpired, ConditionMet, workerVars, sessionVars,
           leaseVars, inboxVars
  <1>2. /\ delayed' \subseteq delayed
        /\ \A q \in Runs : \/ status'[q] = status[q]
                           \/ q = r /\ status[q] = "running" /\ status'[q] = "ready"
        /\ \A q \in Runs : lease'[q] = "live" => lease[q] = "live" /\ owner'[q] = owner[q]
    BY DEF LeaseExpires, DelayElapses, RequeueExpired, ConditionMet, leaseVars, runVars, TypeOK
  <1>3. ASSUME NEW q \in Runs PROVE Inbox(q)'
    <2>1. CASE status'[q] = status[q]
      BY <1>1, <1>2, <2>1, InboxFrame DEF Safe
    <2>2. CASE status[q] = "running" /\ status'[q] = "ready"
      BY <1>2, <2>2 DEF Inbox, Terminal, TypeOK, RowValid
    <2> QED BY <1>2, <2>1, <2>2
  <1>4. OfflineHoldsNoLease'
    BY <1>1, <1>2, OfflineFrame DEF Safe
  <1>5. OneLiveRunPerSession'
    BY <1>2, OneLiveFrame DEF Safe, Live, LiveStatus
  <1>6. FencedWrites'
    BY <1>1 DEF Safe, FencedWrites
  <1> QED BY <1>3, <1>4, <1>5, <1>6 DEF Safe

\* A step that touches no row the invariant speaks of.
LEMMA QuietSafe ==
    ASSUME Safe,
           UNCHANGED <<workerStatus, history, status, epoch, owner, lease, delayed, checkpoint, input, wait>>
    PROVE  Safe'
  BY DEF Safe, Inbox, Pending, Open, OfflineHoldsNoLease, Leases, OneLiveRunPerSession, Live, FencedWrites

\* Every step keeps the safety invariant.
LEMMA NextSafe == TypeOK /\ Safe /\ [Next]_vars => Safe'
  <1> SUFFICES ASSUME TypeOK, Safe, [Next]_vars PROVE Safe'
    OBVIOUS
  <1>1. ASSUME NEW r \in Runs, NEW i, NEW matched, Deliver(r, i, matched),
               UNCHANGED <<workerVars, sessionVars, leaseVars, checkpoint, view>>
        PROVE  Safe'
    <2>1. \A q \in Runs \ {r} : input'[q] = input[q]
      BY <1>1 DEF Deliver, TypeOK
    <2> QED BY <1>1, <2>1, ResolveSafe DEF Deliver
  <1>2. CASE Application
    <2>1. ASSUME NEW r \in Runs, StartRun(r) PROVE Safe'
      BY <2>1, StartSafe DEF StartRun
    <2>2. ASSUME NEW r \in Runs, Abort(r) PROVE Safe'
      BY <2>2, RequestAbortSafe DEF Abort
    <2>3. ASSUME NEW s \in Sessions, PatchSession(s) PROVE Safe'
      BY <2>3, QuietSafe DEF PatchSession, workerVars, leaseVars, runVars, inboxVars
    <2>4. ASSUME NEW r \in Runs, NEW i \in Messages, NEW matched, SubmitInput(r, i, matched)
          PROVE  Safe'
      BY <1>1, <2>4 DEF SubmitInput
    <2> QED BY <1>2, <2>1, <2>2, <2>3, <2>4 DEF Application
  <1>3. CASE WorkerLifecycle
    BY <1>3, RegistrySafe, ClaimSafe DEF WorkerLifecycle
  <1>4. ASSUME NEW w \in Workers, NEW r \in Runs, RunRequest(w, r) PROVE Safe'
    <2>1. CASE Context(w, r)
      BY <2>1, QuietSafe DEF Context, workerVars, sessionVars, leaseVars, runVars, inboxVars
    <2>2. CASE CommitSome(w, r)
      BY <2>2, CommitSafe DEF CommitSome
    <2>3. ASSUME NEW q \in Runs, StartChild(w, r, q) PROVE Safe'
      BY <2>3, StartSafe DEF StartChild
    <2>4. ASSUME NEW q \in Runs, AbortRequest(w, r, q) PROVE Safe'
      BY <2>4, RequestAbortSafe DEF AbortRequest
    <2>5. ASSUME NEW q \in Runs, NEW i \in Messages, NEW matched, RunMessage(w, r, q, i, matched)
          PROVE  Safe'
      BY <1>1, <2>5 DEF RunMessage
    <2> QED BY <1>4, <2>1, <2>2, <2>3, <2>4, <2>5 DEF RunRequest
  <1>5. CASE Reconciler
    <2>1. ASSUME NEW r \in Runs, ResolveDue(r) PROVE Safe'
      BY <2>1, ResolveSafe DEF ResolveDue
    <2> QED BY <1>5, <2>1, TimeSafe, RegistrySafe DEF Reconciler
  <1>6. CASE Time
    BY <1>6, TimeSafe, RegistrySafe DEF Time
  <1>7. CASE UNCHANGED vars
    BY <1>7, QuietSafe DEF vars, workerVars, sessionVars, leaseVars, runVars, inboxVars
  <1> QED BY <1>2, <1>3, <1>4, <1>5, <1>6, <1>7 DEF Next

\* The invariant holds initially: there are no runs, workers or entries.
LEMMA InitSafe == Init => Safe
  BY DEF Init, Safe, Inbox, Pending, Open, Terminal, OfflineHoldsNoLease, Leases,
         OneLiveRunPerSession, Live, LiveStatus, FencedWrites

\* The safety invariant, from which the theorems below follow.
LEMMA SafeAlways == Spec => [](TypeOK /\ Safe)
  <1>1. Init => TypeOK /\ Safe
    BY InitTypeOK, InitSafe
  <1>2. TypeOK /\ Safe /\ [Next]_vars => (TypeOK /\ Safe)'
    BY NextTypeOK, NextSafe
  <1> QED BY <1>1, <1>2, PTL DEF Spec

\* No input is lost between a commit that parks or delays a run and a delivery,
\* whatever their order (commits.rs:229-261, mutations.rs:184-190).
THEOREM NoWakeUpIsLost == Spec => []NoLostWakeUp
  <1>1. Safe => NoLostWakeUp
    BY DEF Safe, Inbox, NoLostWakeUp
  <1> QED BY <1>1, SafeAlways, PTL

\* A parked run can always be woken by one of its own waits, and ending a run
\* closes all of them (commits.rs:247-265).
THEOREM ParkedRunsHaveAnOpenWait == Spec => []ParkedOnOpenWait
  <1>1. Safe => ParkedOnOpenWait
    BY DEF Safe, Inbox, ParkedOnOpenWait
  <1> QED BY <1>1, SafeAlways, PTL

\* A completed run, and one aborted before its first claim, has no unread input
\* (commits.rs:238-243, mutations.rs:111-118).
THEOREM EndedRunsHaveSettledInputs == Spec => []EndedRunsSettleInputs
  <1>1. Safe => EndedRunsSettleInputs
    BY DEF Safe, Inbox, EndedRunsSettleInputs
  <1> QED BY <1>1, SafeAlways, PTL

\* An offline worker holds no unexpired lease (workers.rs:192-200, waits.rs:154-161).
THEOREM OfflineWorkersHoldNoLease == Spec => []OfflineHoldsNoLease
  <1>1. Safe => OfflineHoldsNoLease
    BY DEF Safe
  <1> QED BY <1>1, SafeAlways, PTL

\* At most one live run per session: the handlers' own check under the session's
\* lock (mutations.rs:150-156) never relies on index runs_one_live_per_session.
THEOREM SessionsAreExclusive == Spec => []OneLiveRunPerSession
  <1>1. Safe => OneLiveRunPerSession
    BY DEF Safe
  <1> QED BY <1>1, SafeAlways, PTL

\* Fencing: a worker that lost its lease never writes after its successor, for
\* any number of workers, takeovers and lost replies (workers.rs:60-70).
THEOREM WritesAreFenced == Spec => []FencedWrites
  <1>1. Safe => FencedWrites
    BY DEF Safe
  <1> QED BY <1>1, SafeAlways, PTL

-----------------------------------------------------------------------------
(* What a step may never do. *)

\* Only a claim gives a run an owner, and it takes no run under a live lease.
LEMMA NextTakeOver ==
    ASSUME TypeOK, [Next]_vars, NEW r \in Runs
    PROVE  /\ epoch'[r] # epoch[r] =>
                lease[r] # "live" /\ lease'[r] = "live" /\ epoch'[r] = epoch[r] + 1
           /\ owner'[r] \notin {owner[r], NoWorker} => epoch'[r] # epoch[r]
  <1> DEFINE Kept == epoch'[r] = epoch[r] /\ owner'[r] \in {owner[r], NoWorker}
  <1>1. CASE Application
    BY <1>1 DEF Application, StartRun, Abort, PatchSession, SubmitInput, leaseVars
  <1>2. CASE WorkerLifecycle
    <2>1. ASSUME NEW w \in Workers, NEW taken \in SUBSET Claimable(w), Claim(w, taken)
          PROVE  /\ epoch'[r] # epoch[r] =>
                       lease[r] # "live" /\ lease'[r] = "live" /\ epoch'[r] = epoch[r] + 1
                 /\ owner'[r] \notin {owner[r], NoWorker} => epoch'[r] # epoch[r]
      <3>1. taken \subseteq Runs /\ \A q \in taken : lease[q] # "live"
        BY DEF Claimable, TypeOK, RowValid
      <3> QED BY <2>1, <3>1 DEF Claim, Marked, TypeOK
    <2>2. ASSUME NEW w \in Workers, NEW c, NEW goal,
                 RegisterWorker(w, c) \/ PatchWorker(w, goal, c) \/ Heartbeat(w)
          PROVE  Kept
      BY <2>2 DEF RegisterWorker, PatchWorker, Heartbeat, leaseVars
    <2> QED BY <1>2, <2>1, <2>2 DEF WorkerLifecycle
  <1>3. ASSUME NEW w \in Workers, NEW q \in Runs, RunRequest(w, q) PROVE Kept
    <2>1. CASE CommitSome(w, q)
      <3>1. PICK outcome : epoch' = epoch /\ Release(q, outcome)
        BY <2>1 DEF CommitSome, Commit
      <3> QED BY <3>1 DEF Release, TypeOK
    <2>2. CASE ~CommitSome(w, q)
      BY <1>3, <2>2 DEF RunRequest, Context, StartChild, AbortRequest, RunMessage, leaseVars
    <2> QED BY <2>1, <2>2
  <1>4. CASE Reconciler
    <2>1. ASSUME NEW q \in Runs, RequeueExpired(q) PROVE Kept
      BY <2>1 DEF RequeueExpired, TypeOK
    <2> QED BY <1>4, <2>1 DEF Reconciler, ResolveDue, RetireWorker, leaseVars
  <1>5. CASE Time
    BY <1>5 DEF Time, LeaseExpires, DelayElapses, ConditionMet, WorkerSilent, leaseVars
  <1>6. CASE UNCHANGED vars
    BY <1>6 DEF vars, leaseVars
  <1> QED BY <1>1, <1>2, <1>3, <1>4, <1>5, <1>6 DEF Next

\* A run changes hands only after its lease was released or ran out, and never
\* without a new epoch (workers.rs:306-313).
THEOREM LeasesAreTakenOverInTurn == Spec => TakeOver
  <1>1. TypeOK /\ [Next]_vars =>
          \A r \in Runs :
             /\ epoch'[r] # epoch[r] =>
                   lease[r] # "live" /\ lease'[r] = "live" /\ epoch'[r] = epoch[r] + 1
             /\ owner'[r] \notin {owner[r], NoWorker} => epoch'[r] # epoch[r]
    BY NextTakeOver
  <1> QED BY <1>1, TypeCorrect, PTL DEF Spec, TakeOver

\* No handler touches a run that has ended.
LEMMA NextFinal ==
    ASSUME TypeOK, [Next]_vars, NEW r \in Runs, status[r] \in Terminal
    PROVE  /\ status'[r] = status[r]
           /\ version'[r] = version[r]
           /\ input'[r] = input[r]
           /\ wait'[r] = wait[r]
           /\ checkpoint'[r] = checkpoint[r]
  <1> DEFINE Unmoved == /\ status'[r] = status[r]
                      /\ version'[r] = version[r]
                      /\ input'[r] = input[r]
                      /\ wait'[r] = wait[r]
                      /\ checkpoint'[r] = checkpoint[r]
  <1>0. ~Live(r) /\ status[r] \notin {"absent", "running", "ready"}
    BY DEF Live, LiveStatus, Terminal
  <1>1. ASSUME NEW q \in Runs, Start(q), UNCHANGED <<wait, checkpoint>> PROVE Unmoved
    BY <1>0, <1>1 DEF Start, TypeOK
  <1>2. ASSUME NEW q \in Runs, RequestAbort(q), UNCHANGED checkpoint PROVE Unmoved
    BY <1>0, <1>2 DEF RequestAbort, AbortUnstarted, AbortStarted, Wake, Live, TypeOK
  <1>3. ASSUME NEW q \in Runs, NEW i, NEW matched, Deliver(q, i, matched), UNCHANGED checkpoint
        PROVE  Unmoved
    BY <1>0, <1>3 DEF Deliver, Resolve, Wake, TypeOK
  <1>4. CASE Application
    BY <1>1, <1>2, <1>3, <1>4 DEF Application, StartRun, Abort, PatchSession, SubmitInput, runVars, inboxVars
  <1>5. CASE WorkerLifecycle
    <2>1. ASSUME NEW w \in Workers, NEW taken \in SUBSET Claimable(w), Claim(w, taken) PROVE Unmoved
      <3>1. r \notin taken
        BY <1>0 DEF Claimable
      <3> QED BY <2>1, <3>1 DEF Claim, Marked, TypeOK, inboxVars
    <2>2. ASSUME NEW w \in Workers, NEW c, NEW goal,
                 RegisterWorker(w, c) \/ PatchWorker(w, goal, c) \/ Heartbeat(w)
          PROVE  Unmoved
      BY <2>2 DEF RegisterWorker, PatchWorker, Heartbeat, runVars, inboxVars
    <2> QED BY <1>5, <2>1, <2>2 DEF WorkerLifecycle
  <1>6. ASSUME NEW w \in Workers, NEW q \in Runs, RunRequest(w, q) PROVE Unmoved
    <2>1. CASE CommitSome(w, q)
      <3>1. q # r
        BY <1>0, <2>1 DEF CommitSome, Commit, Owned
      <3>2. ASSUME NEW appended, NEW acked, NEW cancelled, NEW opened, NEW early, NEW goal, NEW answered,
                   Commit(w, q, appended, acked, cancelled, opened, early, goal, answered)
            PROVE  Unmoved
        BY <3>1, <3>2 DEF Commit, TypeOK
      <3> QED BY <2>1, <3>2 DEF CommitSome
    <2>2. CASE Context(w, q)
      BY <2>2 DEF Context, runVars, inboxVars
    <2>3. CASE ~CommitSome(w, q) /\ ~Context(w, q)
      BY <1>1, <1>2, <1>3, <1>6, <2>3 DEF RunRequest, StartChild, AbortRequest, RunMessage
    <2> QED BY <2>1, <2>2, <2>3
  <1>7. CASE Reconciler
    <2>1. ASSUME NEW q \in Runs, RequeueExpired(q) PROVE Unmoved
      BY <1>0, <2>1 DEF RequeueExpired, inboxVars, TypeOK
    <2>2. ASSUME NEW q \in Runs, ResolveDue(q) PROVE Unmoved
      BY <1>0, <2>2 DEF ResolveDue, Resolve, Wake, TypeOK
    <2>3. ASSUME NEW w \in Workers, RetireWorker(w) PROVE Unmoved
      BY <2>3 DEF RetireWorker, runVars, inboxVars
    <2> QED BY <1>7, <2>1, <2>2, <2>3 DEF Reconciler
  <1>8. CASE Time
    BY <1>8 DEF Time, LeaseExpires, DelayElapses, ConditionMet, WorkerSilent, runVars, inboxVars
  <1>9. CASE UNCHANGED vars
    BY <1>9 DEF vars, runVars, inboxVars
  <1> QED BY <1>4, <1>5, <1>6, <1>7, <1>8, <1>9 DEF Next

\* An ended run, its inputs, waits and checkpoint never change again.
THEOREM EndedRunsStayEnded == Spec => EndedRunsAreFinal
  <1>1. TypeOK /\ [Next]_vars =>
          \A r \in Runs : status[r] \in Terminal =>
             /\ status'[r] = status[r]
             /\ version'[r] = version[r]
             /\ input'[r] = input[r]
             /\ wait'[r] = wait[r]
             /\ checkpoint'[r] = checkpoint[r]
    BY NextFinal
  <1> QED BY <1>1, TypeCorrect, PTL DEF Spec, EndedRunsAreFinal

-----------------------------------------------------------------------------
(* Parking.  The version a worker read is never ahead of the run's, and as   *)
(* long as it is the run's, no wait was resolved that the worker does not    *)
(* know of.                                                                  *)

Views ==
    \A w \in Workers, r \in Runs :
        /\ view[w][r].version <= version[r]
        /\ status[r] = "absent" => version[r] = 0
        /\ status[r] = "running" /\ owner[r] = w /\ view[w][r].version = version[r]
              => Resolved(r) \subseteq view[w][r].seen \union view[w][r].own

\* A step that tells no worker anything keeps the views, if a run whose version it
\* leaves alone stays with its owner and resolves no wait.
LEMMA ViewsFrame ==
    ASSUME TypeOK, Views, view' = view, version' \in [Runs -> Nat],
           \A r \in Runs :
              /\ version[r] <= version'[r]
              /\ status'[r] = "absent" => status[r] = "absent" /\ version'[r] = version[r]
              /\ status'[r] = "running" /\ version'[r] = version[r] =>
                    status[r] = "running" /\ owner'[r] = owner[r] /\ wait'[r] = wait[r]
    PROVE  Views'
  <1> SUFFICES ASSUME NEW w \in Workers, NEW r \in Runs
               PROVE  /\ view[w][r].version <= version'[r]
                      /\ status'[r] = "absent" => version'[r] = 0
                      /\ status'[r] = "running" /\ owner'[r] = w /\ view[w][r].version = version'[r]
                            => Resolved(r)' \subseteq view[w][r].seen \union view[w][r].own
    BY DEF Views
  <1>1. version[r] \in Nat /\ version'[r] \in Nat /\ view[w][r].version \in Nat
    BY DEF TypeOK, ViewType
  <1>2. /\ view[w][r].version <= version[r]
        /\ status[r] = "absent" => version[r] = 0
        /\ status[r] = "running" /\ owner[r] = w /\ view[w][r].version = version[r]
              => Resolved(r) \subseteq view[w][r].seen \union view[w][r].own
    BY DEF Views
  <1>3. wait'[r] = wait[r] => Resolved(r)' = Resolved(r)
    BY DEF Resolved
  <1> QED BY <1>1, <1>2, <1>3

\* Starting a run.
LEMMA StartViews ==
    ASSUME TypeOK, Views, NEW r \in Runs, Start(r),
           UNCHANGED <<workerVars, sessionVars, leaseVars, delayed, aborting, wait, due,
                       checkpoint, view>>
    PROVE  Views'
  <1>1. \A q \in Runs \ {r} : status'[q] = status[q] /\ version'[q] = version[q]
    BY DEF Start, TypeOK
  <1>2. status'[r] = "ready" /\ version'[r] = 1 /\ version' \in [Runs -> Nat]
    BY DEF Start, TypeOK
  <1>3. ASSUME NEW q \in Runs, Workers # {} PROVE version[q] <= version'[q]
    <2>1. CASE q = r
      <3>1. PICK w \in Workers : TRUE
        BY <1>3
      <3>2. version[r] = 0
        BY <3>1 DEF Start, Views
      <3> QED BY <1>2, <2>1, <3>2
    <2>2. CASE q # r
      BY <1>1, <2>2 DEF TypeOK
    <2> QED BY <2>1, <2>2
  <1>4. CASE Workers = {}
    BY <1>4 DEF Views
  <1> QED BY <1>1, <1>2, <1>3, <1>4, ViewsFrame DEF leaseVars

\* Settling waits under a running run moves its version (waits.rs:74-80).
LEMMA ResolveViews ==
    ASSUME TypeOK, Views, NEW r \in Runs, NEW settled, Resolve(r, settled), Live(r),
           version' = [version EXCEPT ![r] = VersionAfterResolve(r, settled)],
           UNCHANGED <<leaseVars, view>>
    PROVE  Views'
  <1>1. \A q \in Runs \ {r} : status'[q] = status[q] /\ version'[q] = version[q] /\ wait'[q] = wait[q]
    BY MarkedAt DEF Resolve, Wake, TypeOK
  <1>2. version'[r] \in {version[r], version[r] + 1} /\ version' \in [Runs -> Nat]
    BY DEF VersionAfterResolve, TypeOK
  <1>3. status'[r] # "absent"
    BY DEF Resolve, Wake, Live, LiveStatus, TypeOK
  <1>4. status'[r] = "running" => status[r] = "running"
    BY DEF Resolve, Wake, TypeOK
  <1>5. status'[r] = "running" /\ version'[r] = version[r] => wait'[r] = wait[r]
    <2> SUFFICES ASSUME status'[r] = "running", version'[r] = version[r] PROVE wait'[r] = wait[r]
      OBVIOUS
    <2>1. settled = {}
      BY <1>4 DEF VersionAfterResolve, TypeOK
    <2> QED BY <2>1 DEF Resolve, Marked, TypeOK
  <1>6. \A q \in Runs : version[q] <= version'[q]
    BY <1>1, <1>2 DEF TypeOK
  <1> QED BY <1>1, <1>2, <1>3, <1>4, <1>5, <1>6, ViewsFrame DEF leaseVars

\* An abort request moves the version.
LEMMA RequestAbortViews ==
    ASSUME TypeOK, Views, NEW r \in Runs, RequestAbort(r), UNCHANGED <<leaseVars, view>>
    PROVE  Views'
  <1>1. \A q \in Runs \ {r} : status'[q] = status[q] /\ version'[q] = version[q] /\ wait'[q] = wait[q]
    BY MarkedAt DEF RequestAbort, AbortUnstarted, AbortStarted, Wake, TypeOK
  <1>2. /\ version'[r] \in {version[r] + 1, version[r] + 2}
        /\ version' \in [Runs -> Nat] /\ version[r] \in Nat
    <2>1. version \in [Runs -> Nat]
      BY DEF TypeOK
    <2> QED BY <2>1 DEF RequestAbort, AbortUnstarted, AbortStarted
  <1>3. status'[r] # "absent"
    BY DEF RequestAbort, AbortUnstarted, AbortStarted, Wake, Live, LiveStatus, TypeOK
  <1>4. ASSUME NEW q \in Runs PROVE version[q] <= version'[q]
    <2>1. version[q] \in Nat
      BY DEF TypeOK
    <2> QED BY <1>1, <1>2, <2>1
  <1>5. version'[r] # version[r]
    BY <1>2
  <1> QED BY <1>1, <1>2, <1>3, <1>4, <1>5, ViewsFrame DEF leaseVars

\* A claim tells its worker the epoch and nothing of the run.
LEMMA ClaimViews ==
    ASSUME TypeOK, Views, NEW w \in Workers, NEW taken \in SUBSET Claimable(w), Claim(w, taken)
    PROVE  Views'
  <1>1. taken \subseteq Runs /\ \A r \in taken : status[r] # "absent"
    BY DEF Claimable
  <1>2. /\ \A r \in Runs : status'[r] = IF r \in taken THEN "running" ELSE status[r]
        /\ \A r \in Runs : owner'[r] = IF r \in taken THEN w ELSE owner[r]
        /\ \A r \in Runs : version'[r] = IF r \in taken THEN version[r] + 1 ELSE version[r]
        /\ wait' = wait
    BY DEF Claim, Marked, TypeOK, inboxVars
  <1>3. \A v \in Workers, r \in Runs :
           IF v = w /\ r \in taken THEN view'[v][r].version = 0 ELSE view'[v][r] = view[v][r]
    BY DEF Claim, TypeOK
  <1>4. ASSUME NEW v \in Workers, NEW r \in Runs
        PROVE  /\ view'[v][r].version <= version'[r]
               /\ status'[r] = "absent" => version'[r] = 0
               /\ status'[r] = "running" /\ owner'[r] = v /\ view'[v][r].version = version'[r]
                     => Resolved(r)' \subseteq view'[v][r].seen \union view'[v][r].own
    <2>1. version[r] \in Nat /\ view[v][r].version \in Nat
      BY DEF TypeOK, ViewType
    <2>2. Resolved(r)' = Resolved(r)
      BY <1>2 DEF Resolved
    <2>3. /\ view[v][r].version <= version[r]
          /\ status[r] = "absent" => version[r] = 0
          /\ status[r] = "running" /\ owner[r] = v /\ view[v][r].version = version[r]
                => Resolved(r) \subseteq view[v][r].seen \union view[v][r].own
      BY DEF Views
    <2>4. CASE r \in taken
      BY <1>2, <1>3, <2>1, <2>3, <2>4
    <2>5. CASE r \notin taken
      BY <1>2, <1>3, <2>1, <2>2, <2>3, <2>5
    <2> QED BY <2>4, <2>5
  <1> QED BY <1>4 DEF Views

\* The context shows its owner every wait that is resolved.
LEMMA ContextViews ==
    ASSUME TypeOK, Views, NEW w \in Workers, NEW r \in Runs, Context(w, r)
    PROVE  Views'
  <1>1. UNCHANGED <<status, version, owner, wait>>
    BY DEF Context, runVars, leaseVars, inboxVars
  <1>2. /\ view'[w][r].version = version[r] /\ view'[w][r].seen = Resolved(r)
        /\ \A v \in Workers, q \in Runs : <<v, q>> # <<w, r>> => view'[v][q] = view[v][q]
    BY DEF Context, TypeOK
  <1>3. \A q \in Runs : Resolved(q)' = Resolved(q)
    BY <1>1 DEF Resolved
  <1>4. ASSUME NEW v \in Workers, NEW q \in Runs
        PROVE  /\ view'[v][q].version <= version'[q]
               /\ status'[q] = "absent" => version'[q] = 0
               /\ status'[q] = "running" /\ owner'[q] = v /\ view'[v][q].version = version'[q]
                     => Resolved(q)' \subseteq view'[v][q].seen \union view'[v][q].own
    <2>1. CASE v = w /\ q = r
      BY <1>1, <1>2, <1>3, <2>1 DEF TypeOK, Views
    <2>2. CASE <<v, q>> # <<w, r>>
      BY <1>1, <1>2, <1>3, <2>2 DEF Views
    <2> QED BY <2>1, <2>2
  <1> QED BY <1>4 DEF Views

\* A commit moves the version, and its reply names what it resolved itself.
LEMMA CommitViews ==
    ASSUME TypeOK, Views, NEW w \in Workers, NEW r \in Runs, NEW appended, NEW acked,
           NEW cancelled, NEW opened, NEW early,
           NEW goal \in LiveStatus \union {"later"} \union Terminal, NEW answered \in BOOLEAN,
           Commit(w, r, appended, acked, cancelled, opened, early, goal, answered)
    PROVE  Views'
  <1> DEFINE known   == view[w][r]
             pending == Pending(r) \ acked # {}
             held    == (Open(r) \ cancelled) \union opened
             settled == held \intersect (due[r] \union early)
             outcome == Outcome(goal, pending, settled)
             next    == IF settled = {} THEN version[r] + 1 ELSE version[r] + 2
  <1>1. status[r] = "running" /\ owner[r] = w /\ version[r] = known.version
    BY DEF Commit, Owned
  <1>2. Resolved(r) \subseteq known.seen \union known.own
    BY <1>1 DEF Views
  <1>3. Resolved(r)' \subseteq Resolved(r) \union settled
    <2>1. \A k \in Waits : wait'[r][k] = "resolved" => k \in settled \/ wait[r][k] = "resolved"
      BY DEF Commit, TypeOK
    <2> QED BY <2>1 DEF Resolved
  <1>4. /\ \A q \in Runs \ {r} : status'[q] = status[q] /\ version'[q] = version[q] /\ wait'[q] = wait[q]
        /\ version'[r] = next
    BY DEF Commit, TypeOK
  <1>5. \A q \in Runs \ {r} : owner'[q] = owner[q]
    <2>1. Release(r, outcome)
      BY DEF Commit
    <2> HIDE DEF outcome
    <2> QED BY <2>1 DEF Release, TypeOK
  <1>6. status'[r] # "absent"
    <2>1. outcome \in LiveStatus \union {"later"} \union Terminal
      BY DEF Outcome, LiveStatus
    <2>2. status'[r] = IF outcome = "later" THEN "ready" ELSE outcome
      BY DEF Commit, TypeOK
    <2> HIDE DEF outcome
    <2> QED BY <2>1, <2>2 DEF LiveStatus, Terminal
  <1>7. \/ view' = view
        \/ /\ view'[w][r].version = next
           /\ view'[w][r].seen = known.seen /\ view'[w][r].own = known.own \union settled
           /\ \A v \in Workers, q \in Runs : <<v, q>> # <<w, r>> => view'[v][q] = view[v][q]
    BY DEF Commit, TypeOK
  <1>8. next \in Nat /\ next > version[r] /\ version[r] \in Nat
    BY DEF TypeOK
  <1> HIDE DEF next, settled, held, pending, outcome
  <1>9. ASSUME NEW v \in Workers, NEW q \in Runs
        PROVE  /\ view'[v][q].version <= version'[q]
               /\ status'[q] = "absent" => version'[q] = 0
               /\ status'[q] = "running" /\ owner'[q] = v /\ view'[v][q].version = version'[q]
                     => Resolved(q)' \subseteq view'[v][q].seen \union view'[v][q].own
    <2>1. /\ view[v][q].version <= version[q] /\ view[v][q].version \in Nat
          /\ status[q] = "absent" => version[q] = 0
          /\ status[q] = "running" /\ owner[q] = v /\ view[v][q].version = version[q]
                => Resolved(q) \subseteq view[v][q].seen \union view[v][q].own
      <3>1. view[v][q].version \in Nat
        BY DEF TypeOK, ViewType
      <3> QED BY <3>1 DEF Views
    <2>2. CASE q # r
      <3>1. Resolved(q)' = Resolved(q) /\ view'[v][q] = view[v][q]
        BY <1>4, <1>7, <2>2 DEF Resolved
      <3> QED BY <1>4, <1>5, <2>1, <2>2, <3>1
    <2>3. CASE q = r /\ view'[v][q] = view[v][q]
      BY <1>4, <1>6, <1>8, <2>1, <2>3
    <2>4. CASE q = r /\ v = w /\ view' # view
      BY <1>2, <1>3, <1>4, <1>6, <1>7, <1>8, <2>4
    <2> QED BY <1>7, <2>2, <2>3, <2>4
  <1> QED BY <1>9 DEF Views

\* Every step keeps the views, and a run is parked only by a commit of its owner at
\* the version the owner has read.
LEMMA NextViews ==
    ASSUME TypeOK, Views, [Next]_vars
    PROVE  /\ Views'
           /\ \A r \in Runs : status[r] = "running" /\ status'[r] = "waiting" =>
                 Resolved(r) \subseteq view[owner[r]][r].seen \union view[owner[r]][r].own
  <1> DEFINE NotParked == \A r \in Runs : status'[r] = "waiting" => status[r] = "waiting"
  <1>1. ASSUME NEW r \in Runs, NEW i, NEW matched, Deliver(r, i, matched), UNCHANGED <<leaseVars, view>>
        PROVE  Views' /\ NotParked
    BY <1>1, ResolveViews DEF Deliver, Resolve, Wake, TypeOK
  <1>2. ASSUME NEW r \in Runs, RequestAbort(r), UNCHANGED <<leaseVars, view>> PROVE Views' /\ NotParked
    BY <1>2, RequestAbortViews DEF RequestAbort, AbortUnstarted, AbortStarted, Wake, TypeOK
  <1>3. ASSUME NEW r \in Runs, Start(r),
               UNCHANGED <<workerVars, sessionVars, leaseVars, delayed, aborting, wait, due,
                           checkpoint, view>>
        PROVE  Views' /\ NotParked
    BY <1>3, StartViews DEF Start, TypeOK
  <1>4. CASE UNCHANGED <<leaseVars, runVars, inboxVars, view>>
    BY <1>4 DEF Views, Resolved, leaseVars, runVars, inboxVars
  <1>5. CASE Application
    BY <1>1, <1>2, <1>3, <1>4, <1>5 DEF Application, StartRun, Abort, PatchSession, SubmitInput
  <1>6. CASE WorkerLifecycle
    <2>1. ASSUME NEW w \in Workers, NEW taken \in SUBSET Claimable(w), Claim(w, taken)
          PROVE  Views' /\ NotParked
      BY <2>1, ClaimViews DEF Claim, Marked, TypeOK
    <2> QED BY <1>4, <1>6, <2>1 DEF WorkerLifecycle, RegisterWorker, PatchWorker, Heartbeat
  <1>7. ASSUME NEW w \in Workers, NEW q \in Runs, RunRequest(w, q)
        PROVE  /\ Views'
               /\ \A r \in Runs : status[r] = "running" /\ status'[r] = "waiting" =>
                     Resolved(r) \subseteq view[owner[r]][r].seen \union view[owner[r]][r].own
    <2>1. CASE Context(w, q)
      BY <2>1, ContextViews DEF Context, runVars
    <2>2. ASSUME NEW appended, NEW acked, NEW cancelled, NEW opened, NEW early,
                 NEW goal \in LiveStatus \union {"later"} \union Terminal, NEW answered \in BOOLEAN,
                 Commit(w, q, appended, acked, cancelled, opened, early, goal, answered)
          PROVE  /\ Views'
                 /\ \A r \in Runs : status[r] = "running" /\ status'[r] = "waiting" =>
                       Resolved(r) \subseteq view[owner[r]][r].seen \union view[owner[r]][r].own
      <3>1. \A r \in Runs \ {q} : status'[r] = status[r]
        BY <2>2 DEF Commit, TypeOK
      <3>2. status[q] = "running" /\ owner[q] = w /\ view[w][q].version = version[q]
        BY <2>2 DEF Commit, Owned
      <3>3. Resolved(q) \subseteq view[w][q].seen \union view[w][q].own
        BY <3>2 DEF Views
      <3>4. Views'
        BY <2>2, CommitViews
      <3> QED BY <3>1, <3>2, <3>3, <3>4
    <2>3. CASE \E x \in Runs : StartChild(w, q, x) \/ AbortRequest(w, q, x)
      BY <1>2, <1>3, <2>3 DEF StartChild, AbortRequest
    <2>4. CASE \E x \in Runs, i \in Messages : \E matched \in SUBSET Open(x) : RunMessage(w, q, x, i, matched)
      BY <1>1, <2>4 DEF RunMessage
    <2> QED BY <1>7, <2>1, <2>2, <2>3, <2>4 DEF RunRequest, CommitSome
  <1>8. CASE Reconciler
    <2>1. ASSUME NEW r \in Runs, RequeueExpired(r) PROVE Views' /\ NotParked
      <3>1. /\ \A q \in Runs \ {r} : status'[q] = status[q] /\ version'[q] = version[q] /\ owner'[q] = owner[q]
            /\ status'[r] = "ready" /\ version'[r] = version[r] + 1 /\ version' \in [Runs -> Nat]
            /\ view' = view /\ wait' = wait
        BY <2>1 DEF RequeueExpired, TypeOK, inboxVars
      <3>2. ASSUME NEW q \in Runs PROVE version[q] <= version'[q]
        <4>1. version[q] \in Nat
          BY DEF TypeOK
        <4> QED BY <3>1, <4>1
      <3> QED BY <3>1, <3>2, ViewsFrame
    <2>2. ASSUME NEW r \in Runs, ResolveDue(r) PROVE Views' /\ NotParked
      BY <2>2, ResolveViews DEF ResolveDue, Resolve, Wake, TypeOK
    <2>3. ASSUME NEW w \in Workers, RetireWorker(w) PROVE Views' /\ NotParked
      BY <1>4, <2>3 DEF RetireWorker, runVars
    <2> QED BY <1>8, <2>1, <2>2, <2>3 DEF Reconciler
  <1>9. CASE Time
    BY <1>9 DEF Time, LeaseExpires, DelayElapses, ConditionMet, WorkerSilent, Views, Resolved,
               leaseVars, runVars, inboxVars
  <1>10. CASE UNCHANGED vars
    BY <1>4, <1>10 DEF vars
  <1> QED BY <1>5, <1>6, <1>7, <1>8, <1>9, <1>10 DEF Next

\* No worker parks a run on an outdated view: it has observed, or caused, every
\* resolution of the run's waits (waits.rs:74-80, commits.rs:229-265).
THEOREM NoRunIsParkedStale == Spec => NoStalePark
  <1>1. Init => Views
    BY DEF Init, Views, NoView, Resolved
  <1>2. TypeOK /\ Views /\ [Next]_vars => Views'
    BY NextViews
  <1>3. TypeOK /\ Views /\ [Next]_vars =>
          [\A r \in Runs : status[r] = "running" /\ status'[r] = "waiting" =>
              Resolved(r) \subseteq view[owner[r]][r].seen \union view[owner[r]][r].own]_vars
    BY NextViews
  <1> QED BY <1>1, <1>2, <1>3, TypeCorrect, PTL DEF Spec, NoStalePark

-----------------------------------------------------------------------------
(* Capacity. *)

\* Only a claim gives a worker leases, and it takes no more than are spare.
LEMMA NextCapacity ==
    ASSUME TypeOK, [Next]_vars, NEW v \in Workers
    PROVE  \/ Cardinality(Leases(v)') <= Cardinality(Leases(v))
           \/ Cardinality(Leases(v)') <= capacity[v]
  <1>1. IsFiniteSet(Leases(v)) /\ Cardinality(Leases(v)) \in Nat
    BY RunsAssumption, FS_Subset, FS_CardinalityType DEF Leases
  <1>2. CASE \A r \in Runs : lease'[r] = "live" => lease[r] = "live" /\ owner'[r] = owner[r]
    <2>1. Leases(v)' \subseteq Leases(v)
      BY <1>2 DEF Leases
    <2> QED BY <1>1, <2>1, FS_Subset
  <1>3. ASSUME NEW w \in Workers, NEW taken \in SUBSET Claimable(w), Claim(w, taken)
        PROVE  \/ Cardinality(Leases(v)') <= Cardinality(Leases(v))
               \/ Cardinality(Leases(v)') <= capacity[v]
    <2>1. taken \subseteq Runs /\ \A r \in taken : lease[r] # "live"
      BY DEF Claimable, TypeOK, RowValid
    <2>2. /\ \A r \in Runs : lease'[r] = IF r \in taken THEN "live" ELSE lease[r]
          /\ \A r \in Runs : owner'[r] = IF r \in taken THEN w ELSE owner[r]
      BY <1>3 DEF Claim, Marked, TypeOK
    <2>3. CASE v # w
      <3>1. Leases(v)' \subseteq Leases(v)
        BY <2>1, <2>2, <2>3 DEF Leases
      <3> QED BY <1>1, <3>1, FS_Subset
    <2>4. CASE v = w
      <3>1. Leases(v)' = Leases(v) \union taken /\ Leases(v) \intersect taken = {}
        BY <2>1, <2>2, <2>4 DEF Leases
      <3>2. IsFiniteSet(taken)
        BY <2>1, RunsAssumption, FS_Subset
      <3>3. Cardinality(Leases(v)') = Cardinality(Leases(v)) + Cardinality(taken)
        <4>1. /\ Cardinality(Leases(v) \union taken)
                   = Cardinality(Leases(v)) + Cardinality(taken) - Cardinality(Leases(v) \intersect taken)
              /\ Cardinality(taken) \in Nat
          BY <1>1, <3>2, FS_Union, FS_CardinalityType
        <4>2. Cardinality({}) = 0
          BY FS_EmptySet
        <4>3. /\ Cardinality(Leases(v)') = Cardinality(Leases(v) \union taken)
              /\ Cardinality(Leases(v) \intersect taken) = 0
          BY <3>1, <4>2, Zenon
        <4> QED BY <1>1, <4>1, <4>3
      <3>4. Cardinality(taken) \in Nat /\ capacity[v] \in Nat
        BY <3>2, FS_CardinalityType DEF TypeOK
      <3>5. CASE taken = {}
        BY <1>1, <3>3, <3>5, FS_EmptySet
      <3>6. CASE Cardinality(taken) <= Spare(v)
        BY <1>1, <3>3, <3>4, <3>6 DEF Spare
      <3> QED BY <1>3, <2>4, <3>5, <3>6 DEF Claim
    <2> QED BY <2>3, <2>4
  <1>4. CASE Application
    BY <1>2, <1>4 DEF Application, StartRun, Abort, PatchSession, SubmitInput, leaseVars
  <1>5. CASE WorkerLifecycle
    BY <1>2, <1>3, <1>5 DEF WorkerLifecycle, RegisterWorker, PatchWorker, Heartbeat, leaseVars
  <1>6. ASSUME NEW w \in Workers, NEW q \in Runs, RunRequest(w, q)
        PROVE  \A r \in Runs : lease'[r] = "live" => lease[r] = "live" /\ owner'[r] = owner[r]
    <2>1. CASE CommitSome(w, q)
      <3>1. PICK outcome : Release(q, outcome)
        BY <2>1 DEF CommitSome, Commit
      <3> QED BY <3>1 DEF Release, TypeOK
    <2>2. CASE ~CommitSome(w, q)
      BY <1>6, <2>2 DEF RunRequest, Context, StartChild, AbortRequest, RunMessage, leaseVars
    <2> QED BY <2>1, <2>2
  <1>7. CASE Reconciler
    <2>1. ASSUME NEW q \in Runs, RequeueExpired(q)
          PROVE  \A r \in Runs : lease'[r] = "live" => lease[r] = "live" /\ owner'[r] = owner[r]
      BY <2>1 DEF RequeueExpired, TypeOK
    <2> QED BY <1>2, <1>7, <2>1 DEF Reconciler, ResolveDue, RetireWorker, leaseVars
  <1>8. CASE Time
    <2>1. \A r \in Runs : lease'[r] = "live" => lease[r] = "live" /\ owner'[r] = owner[r]
      BY <1>8 DEF Time, LeaseExpires, DelayElapses, ConditionMet, WorkerSilent, leaseVars, TypeOK
    <2> QED BY <1>2, <2>1
  <1>9. CASE UNCHANGED vars
    BY <1>2, <1>9 DEF vars, leaseVars
  <1> QED BY <1>2, <1>4, <1>5, <1>6, <1>7, <1>8, <1>9 DEF Next

\* No step gives a worker more leases than its capacity (workers.rs:297-305).
THEOREM CapacityIsRespected == Spec => CapacityRespected
  <1>1. TypeOK /\ [Next]_vars =>
          [\A w \in Workers : Cardinality(Leases(w)') > Cardinality(Leases(w)) =>
              Cardinality(Leases(w)') <= capacity[w]]_vars
    <2> SUFFICES ASSUME TypeOK, [Next]_vars, NEW w \in Workers,
                        Cardinality(Leases(w)') > Cardinality(Leases(w))
                 PROVE  Cardinality(Leases(w)') <= capacity[w]
      OBVIOUS
    <2>1. Cardinality(Leases(w)) \in Nat /\ Cardinality(Leases(w)') \in Nat
      BY RunsAssumption, FS_Subset, FS_CardinalityType DEF Leases
    <2> QED BY <2>1, NextCapacity
  <1> QED BY <1>1, TypeCorrect, PTL DEF Spec, CapacityRespected

-----------------------------------------------------------------------------
(* The properties together, as the runs check them. *)

\* No interleaving of parking, waking, sending and ending loses a wake-up
\* (commits.rs:229-265, waits.rs:73-89).
THEOREM WakeUpsAreNeverLost == Spec => []WakeUpsAreKept
  <1>1. Safe => WakeUpsAreKept
    BY DEF Safe, Inbox, WakeUpsAreKept, ParkedOnOpenWait, NoLostWakeUp, EndedRunsSettleInputs
  <1> QED BY <1>1, SafeAlways, PTL

\* Leases, sessions and the writes under them are exclusive (workers.rs:60-70,
\* mutations.rs:150-156).
THEOREM LeasesStayExclusive == Spec => []LeasesAreExclusive
  <1>1. Safe => LeasesAreExclusive
    BY DEF Safe, LeasesAreExclusive
  <1> QED BY <1>1, SafeAlways, PTL

\* A run changes hands in turn, and not after it ended (workers.rs:306-313,
\* model.rs:179-189).
THEOREM RunsChangeHandsInTurn == Spec => HandOversAreInTurn
  BY LeasesAreTakenOverInTurn, EndedRunsStayEnded, PTL DEF HandOversAreInTurn
=============================================================================
