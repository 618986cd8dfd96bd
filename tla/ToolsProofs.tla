----------------------------- MODULE ToolsProofs -----------------------------
(***************************************************************************)
(* Theorems about the tools of an agent, for every value of the constants. *)
(* CodeCells: reports divide what a script writes.  FileTools: mutations   *)
(* of files keep the contract of a host, edits replace what they read and  *)
(* a patch reports what it did.                                            *)
(***************************************************************************)
EXTENDS CodeCells, FileTools, FiniteSetTheorems, TLAPS

-----------------------------------------------------------------------------
(***************************************************************************)
(* CodeCells                                                               *)
(*                                                                         *)
(* What is in a pipe continues what came out of it: a count along the pipe *)
(* starts at what its reader has and ends at what its writer has written.  *)
(***************************************************************************)
CountsAlong(f, s, k, b, t) ==
    /\ f[0] = b /\ f[Len(s)] = t
    /\ \A i \in 1..Len(s) : f[i] = IF s[i].kind = k THEN f[i - 1] + 1 ELSE f[i - 1]
    /\ \A i, j \in 0..Len(s) : i <= j => f[i] <= f[j]
NumbersItems(f, s, k) == \A i \in 1..Len(s) : s[i].kind = k => s[i].item = f[i]

\* s has t - b frames of kind k; they are numbered b + 1 to t.
Counts(s, k, b, t) == \E f \in [0..Len(s) -> Nat] : CountsAlong(f, s, k, b, t)
Numbers(s, k, b, t) == \E f \in [0..Len(s) -> Nat] : CountsAlong(f, s, k, b, t) /\ NumbersItems(f, s, k)

Said == Kinds \union {"done", "failure"}
Frames == [kind : Said, id : Nat, item : Nat]
Replies == Frames \union [kind : Said, id : Nat]
LiveStates == [status : {"new", "running", "completed", "failed", "terminated", "closed", "dropped"},
               output : Seq(Nat), yielded : BOOLEAN, permit : BOOLEAN, cancel : BOOLEAN, boundaries : Nat]
TaskStates == [at : {"none", "serve", "write", "notify", "ended"}, frame : Replies \union {0},
               pending : SUBSET [kind : Said, id : Nat]]
GuestStates == [at : {"none", "run", "emit", "sync", "exited"}, frame : Frames \union {0}, sent : Nat,
                items : Nat, notes : Nat, resumed : Nat]

CellsTypeOK ==
    /\ live \in [Cells -> LiveStates] /\ task \in [Cells -> TaskStates] /\ guest \in [Cells -> GuestStates]
    /\ toHost \in [Cells -> Seq(Frames)] /\ toGuest \in [Cells -> Seq(Replies)]
    /\ notes \in Seq(Cells \X Nat) /\ savedNotes \in Seq(Cells \X Nat)
    /\ collected \in [Cells -> [items : Seq(Nat), last : {"none", "running", "completed", "failed", "terminated"}]]
    /\ outer \in {NoCall} \union [at : {"observe", "join"}, cell : Cells]

\* Where cell, task and guest are together.
Working(c) == task[c].at \in {"serve", "write", "notify"}
Together(c) ==
    /\ live[c].status = "running" <=> Working(c)
    /\ live[c].status = "new" => task[c] = NoTask /\ guest[c] = NoGuest /\ toHost[c] = <<>> /\ toGuest[c] = <<>>
    /\ live[c].status \notin {"new", "running"} => guest[c].at = "exited" /\ toHost[c] = <<>> /\ task[c].at = "ended"
    /\ live[c].status = "new" <=> guest[c].at = "none"
    /\ collected[c].last = "completed" => live[c].status \in {"closed", "dropped"}
    /\ outer.at # "idle" /\ outer.cell = c => live[c].status \notin {"new", "closed", "dropped"}
    /\ task[c].at = "write" => task[c].frame \in Replies
    /\ task[c].at = "notify" => task[c].frame \in Frames
    /\ guest[c].at = "emit" => guest[c].frame \in Frames
    /\ \A i \in 1..Len(toHost[c]) : toHost[c][i].kind \in {"done", "failure"} =>
          i = Len(toHost[c]) /\ guest[c].at = "exited"

One(b) == IF b THEN 1 ELSE 0
Emits(c, kind) == guest[c].at = "emit" /\ guest[c].frame.kind = kind
IsDone(c) == \E i \in 1..Len(toHost[c]) : toHost[c][i].kind = "done"

\* What was reported, is kept and is in the pipe is what the script has written.
Out(c) == collected[c].items \o live[c].output
OutputFlows(c) ==
    /\ \A i \in 1..Len(Out(c)) : Out(c)[i] = i
    /\ Emits(c, "output") => guest[c].frame.item = guest[c].items
    /\ \E t \in Nat : /\ Numbers(toHost[c], "output", Len(Out(c)), t)
                      /\ t + One(Emits(c, "output")) <= guest[c].items
                      /\ Alive(c) \/ IsDone(c) => t + One(Emits(c, "output")) = guest[c].items
    /\ live[c].status = "completed" => Len(Out(c)) = guest[c].items
    /\ collected[c].last = "completed" => Len(collected[c].items) = guest[c].items

\* The same of its notifications.
NotesSoFar(c) == Cardinality(HeardOf(c, Len(Heard)))
NotesFlow(c) ==
    /\ \A i \in 1..Len(Heard) : Heard[i][1] = c => Heard[i][2] = Cardinality(HeardOf(c, i))
    /\ Emits(c, "note") => guest[c].frame.item = guest[c].notes
    /\ task[c].at = "notify" => task[c].frame.item = NotesSoFar(c) + 1
    /\ live[c].status = "new" => NotesSoFar(c) = 0
    /\ \E t \in Nat : /\ Numbers(toHost[c], "note", NotesSoFar(c) + One(task[c].at = "notify"), t)
                      /\ Alive(c) => t + One(Emits(c, "note")) = guest[c].notes

\* A yield goes on for a report of one.
YieldsFlow(c) ==
    \E t \in Nat : /\ Counts(toGuest[c], "yield", guest[c].resumed, t)
                   /\ t + One(task[c].at = "write" /\ task[c].frame.kind = "yield") + One(live[c].permit)
                         <= live[c].boundaries

CellsInv == CellsTypeOK /\ \A c \in Cells : Together(c) /\ OutputFlows(c) /\ NotesFlow(c) /\ YieldsFlow(c)

-----------------------------------------------------------------------------
\* Counts along a pipe.
LEMMA CountsEmpty ==
  ASSUME NEW k, NEW b \in Nat
  PROVE  Counts(<<>>, k, b, b) /\ Numbers(<<>>, k, b, b)
<1> DEFINE f == [i \in 0..0 |-> b]
<1>1. Len(<<>>) = 0
  OBVIOUS
<1>2. f \in [0..Len(<<>>) -> Nat] /\ CountsAlong(f, <<>>, k, b, b) /\ NumbersItems(f, <<>>, k)
  BY <1>1 DEF CountsAlong, NumbersItems
<1>. QED BY <1>2 DEF Counts, Numbers

LEMMA AlongAppend ==
  ASSUME NEW S, NEW s \in Seq(S), NEW e \in S, NEW k, NEW b \in Nat, NEW t \in Nat, NEW u \in Nat,
         NEW f \in [0..Len(s) -> Nat], CountsAlong(f, s, k, b, t),
         e.kind = k => u = t + 1, e.kind # k => u = t,
         NEW g, g = [i \in 0..(Len(s) + 1) |-> IF i <= Len(s) THEN f[i] ELSE u]
  PROVE  g \in [0..Len(Append(s, e)) -> Nat] /\ CountsAlong(g, Append(s, e), k, b, u)
<1>1. /\ Len(s) \in Nat /\ Len(Append(s, e)) = Len(s) + 1 /\ Append(s, e)[Len(s) + 1] = e
      /\ \A i \in 1..Len(s) : Append(s, e)[i] = s[i]
  OBVIOUS
<1>2. g \in [0..Len(Append(s, e)) -> Nat]
  BY <1>1
<1>3. g[Len(s) + 1] = u /\ \A i \in 0..Len(s) : g[i] = f[i]
  BY <1>1
<1>4. g[0] = b /\ g[Len(s)] = t /\ f[Len(s)] = t
  BY <1>1, <1>3 DEF CountsAlong
<1>6. ASSUME NEW i \in 1..(Len(s) + 1)
      PROVE  g[i] = IF Append(s, e)[i].kind = k THEN g[i - 1] + 1 ELSE g[i - 1]
  <2>1. CASE i = Len(s) + 1
    <3>1. i - 1 = Len(s) /\ g[i - 1] = t /\ g[i] = u /\ Append(s, e)[i] = e
      BY <2>1, <1>1, <1>3, <1>4
    <3>. QED BY <3>1
  <2>2. CASE i \in 1..Len(s)
    <3>1. g[i] = f[i] /\ g[i - 1] = f[i - 1] /\ Append(s, e)[i] = s[i]
      BY <2>2, <1>3, <1>1
    <3>. QED BY <3>1, <2>2, <1>1 DEF CountsAlong
  <2>. QED BY <2>1, <2>2, <1>1
<1>7. ASSUME NEW i \in 0..(Len(s) + 1), NEW j \in 0..(Len(s) + 1), i <= j
      PROVE  g[i] <= g[j]
  <2>1. \A m \in 0..Len(s) : f[m] <= t /\ f[m] \in Nat
    BY <1>1, <1>4 DEF CountsAlong
  <2>2. CASE j = Len(s) + 1 /\ i = j BY <2>2, <1>3
  <2>3. CASE j = Len(s) + 1 /\ i \in 0..Len(s) BY <2>3, <2>1, <1>3
  <2>4. CASE j \in 0..Len(s)
    <3>1. i \in 0..Len(s) /\ g[i] = f[i] /\ g[j] = f[j]
      BY <2>4, <1>3, <1>7, <1>1
    <3>. QED BY <3>1, <2>4, <1>7 DEF CountsAlong
  <2>. QED BY <2>2, <2>3, <2>4, <1>1
<1>8. g[Len(Append(s, e))] = u
  BY <1>1, <1>3
<1>. QED BY <1>1, <1>2, <1>4, <1>6, <1>7, <1>8 DEF CountsAlong

LEMMA CountsAppend ==
  ASSUME NEW S, NEW s \in Seq(S), NEW e \in S, NEW k, NEW b \in Nat, NEW t \in Nat, Counts(s, k, b, t)
  PROVE  /\ e.kind # k => Counts(Append(s, e), k, b, t)
         /\ e.kind = k => Counts(Append(s, e), k, b, t + 1)
<1>1. PICK f \in [0..Len(s) -> Nat] : CountsAlong(f, s, k, b, t)
  BY DEF Counts
<1>2. PICK u \in Nat : (e.kind = k => u = t + 1) /\ (e.kind # k => u = t)
  OBVIOUS
<1> DEFINE g == [i \in 0..(Len(s) + 1) |-> IF i <= Len(s) THEN f[i] ELSE u]
<1>3. g \in [0..Len(Append(s, e)) -> Nat] /\ CountsAlong(g, Append(s, e), k, b, u)
  BY <1>1, <1>2, AlongAppend
<1>4. Counts(Append(s, e), k, b, u)
  BY <1>3 DEF Counts
<1>. QED BY <1>2, <1>4

LEMMA NumbersAppend ==
  ASSUME NEW S, NEW s \in Seq(S), NEW e \in S, NEW k, NEW b \in Nat, NEW t \in Nat, Numbers(s, k, b, t)
  PROVE  /\ e.kind # k => Numbers(Append(s, e), k, b, t)
         /\ e.kind = k /\ e.item = t + 1 => Numbers(Append(s, e), k, b, t + 1)
<1>1. PICK f \in [0..Len(s) -> Nat] : CountsAlong(f, s, k, b, t) /\ NumbersItems(f, s, k)
  BY DEF Numbers
<1>2. PICK u \in Nat : (e.kind = k => u = t + 1) /\ (e.kind # k => u = t)
  OBVIOUS
<1> DEFINE g == [i \in 0..(Len(s) + 1) |-> IF i <= Len(s) THEN f[i] ELSE u]
<1>3. g \in [0..Len(Append(s, e)) -> Nat] /\ CountsAlong(g, Append(s, e), k, b, u)
  BY <1>1, <1>2, AlongAppend
<1>4. ASSUME e.kind = k => e.item = t + 1 PROVE NumbersItems(g, Append(s, e), k)
  <2> SUFFICES ASSUME NEW i \in 1..Len(Append(s, e)), Append(s, e)[i].kind = k
               PROVE  Append(s, e)[i].item = g[i]
    BY DEF NumbersItems
  <2>0. Len(s) \in Nat /\ Len(Append(s, e)) = Len(s) + 1
    OBVIOUS
  <2>1. CASE i = Len(s) + 1
    <3>1. Append(s, e)[i] = e /\ g[i] = u
      BY <2>1, <2>0
    <3>. QED BY <3>1, <1>2, <1>4
  <2>2. CASE i \in 1..Len(s)
    <3>1. Append(s, e)[i] = s[i] /\ g[i] = f[i]
      BY <2>2, <2>0
    <3>. QED BY <3>1, <2>2, <1>1 DEF NumbersItems
  <2>. QED BY <2>0, <2>1, <2>2
<1>5. (e.kind = k => e.item = t + 1) => Numbers(Append(s, e), k, b, u)
  BY <1>3, <1>4 DEF Numbers
<1>. QED BY <1>2, <1>5

LEMMA AlongTail ==
  ASSUME NEW S, NEW s \in Seq(S), s # <<>>, NEW k, NEW b \in Nat, NEW t \in Nat,
         NEW f \in [0..Len(s) -> Nat], CountsAlong(f, s, k, b, t),
         NEW g, g = [i \in 0..(Len(s) - 1) |-> f[i + 1]]
  PROVE  /\ g \in [0..Len(Tail(s)) -> Nat] /\ CountsAlong(g, Tail(s), k, f[1], t)
         /\ f[1] = IF Head(s).kind = k THEN b + 1 ELSE b
<1>1. /\ Len(s) \in Nat \ {0} /\ Len(Tail(s)) = Len(s) - 1 /\ Head(s) = s[1]
      /\ \A i \in 1..(Len(s) - 1) : Tail(s)[i] = s[i + 1]
  OBVIOUS
<1>2. \A i \in 0..(Len(s) - 1) : g[i] = f[i + 1] /\ f[i + 1] \in Nat
  BY <1>1
<1>3. g \in [0..Len(Tail(s)) -> Nat]
  BY <1>1, <1>2
<1>4. g[0] = f[1] /\ g[Len(Tail(s))] = t
  BY <1>1, <1>2 DEF CountsAlong
<1>5. ASSUME NEW i \in 1..(Len(s) - 1)
      PROVE  g[i] = IF Tail(s)[i].kind = k THEN g[i - 1] + 1 ELSE g[i - 1]
  <2>1. i + 1 \in 1..Len(s) /\ (i + 1) - 1 = i /\ i - 1 \in 0..(Len(s) - 1) /\ (i - 1) + 1 = i
    BY <1>1
  <2>2. g[i] = f[i + 1] /\ g[i - 1] = f[i] /\ Tail(s)[i] = s[i + 1]
    BY <2>1, <1>1, <1>2
  <2>3. f[i + 1] = IF s[i + 1].kind = k THEN f[(i + 1) - 1] + 1 ELSE f[(i + 1) - 1]
    BY <2>1 DEF CountsAlong
  <2>. QED BY <2>1, <2>2, <2>3
<1>6. ASSUME NEW i \in 0..(Len(s) - 1), NEW j \in 0..(Len(s) - 1), i <= j
      PROVE  g[i] <= g[j]
  <2>1. i + 1 \in 0..Len(s) /\ j + 1 \in 0..Len(s) /\ i + 1 <= j + 1
    BY <1>1, <1>6
  <2>2. f[i + 1] <= f[j + 1]
    BY <2>1 DEF CountsAlong
  <2>. QED BY <2>2, <1>2
<1>7. f[1] = IF Head(s).kind = k THEN b + 1 ELSE b
  <2>1. 1 \in 1..Len(s) /\ 1 - 1 = 0
    BY <1>1
  <2>2. f[1] = IF s[1].kind = k THEN f[1 - 1] + 1 ELSE f[1 - 1]
    BY <2>1 DEF CountsAlong
  <2>. QED BY <2>1, <2>2, <1>1 DEF CountsAlong
<1>. QED BY <1>1, <1>3, <1>4, <1>5, <1>6, <1>7 DEF CountsAlong

LEMMA CountsTail ==
  ASSUME NEW S, NEW s \in Seq(S), s # <<>>, NEW k, NEW b \in Nat, NEW t \in Nat, Counts(s, k, b, t)
  PROVE  /\ Head(s).kind # k => Counts(Tail(s), k, b, t)
         /\ Head(s).kind = k => Counts(Tail(s), k, b + 1, t)
<1>1. PICK f \in [0..Len(s) -> Nat] : CountsAlong(f, s, k, b, t)
  BY DEF Counts
<1> DEFINE g == [i \in 0..(Len(s) - 1) |-> f[i + 1]]
<1>2. /\ g \in [0..Len(Tail(s)) -> Nat] /\ CountsAlong(g, Tail(s), k, f[1], t)
      /\ f[1] = IF Head(s).kind = k THEN b + 1 ELSE b
  BY <1>1, AlongTail
<1>3. Counts(Tail(s), k, f[1], t)
  BY <1>2 DEF Counts
<1>. QED BY <1>2, <1>3

LEMMA NumbersTail ==
  ASSUME NEW S, NEW s \in Seq(S), s # <<>>, NEW k, NEW b \in Nat, NEW t \in Nat, Numbers(s, k, b, t)
  PROVE  /\ Head(s).kind # k => Numbers(Tail(s), k, b, t)
         /\ Head(s).kind = k => Head(s).item = b + 1 /\ Numbers(Tail(s), k, b + 1, t)
<1>1. PICK f \in [0..Len(s) -> Nat] : CountsAlong(f, s, k, b, t) /\ NumbersItems(f, s, k)
  BY DEF Numbers
<1> DEFINE g == [i \in 0..(Len(s) - 1) |-> f[i + 1]]
<1>2. /\ g \in [0..Len(Tail(s)) -> Nat] /\ CountsAlong(g, Tail(s), k, f[1], t)
      /\ f[1] = IF Head(s).kind = k THEN b + 1 ELSE b
  BY <1>1, AlongTail
<1>3. /\ Len(s) \in Nat \ {0} /\ Len(Tail(s)) = Len(s) - 1 /\ Head(s) = s[1]
      /\ \A i \in 1..(Len(s) - 1) : Tail(s)[i] = s[i + 1]
  OBVIOUS
<1>4. NumbersItems(g, Tail(s), k)
  <2> SUFFICES ASSUME NEW i \in 1..(Len(s) - 1), Tail(s)[i].kind = k PROVE Tail(s)[i].item = g[i]
    BY <1>3 DEF NumbersItems
  <2>1. i + 1 \in 1..Len(s) /\ g[i] = f[i + 1] /\ Tail(s)[i] = s[i + 1]
    BY <1>3
  <2>. QED BY <2>1, <1>1 DEF NumbersItems
<1>5. Numbers(Tail(s), k, f[1], t)
  BY <1>2, <1>4 DEF Numbers
<1>6. Head(s).kind = k => Head(s).item = f[1]
  BY <1>1, <1>3 DEF NumbersItems
<1>. QED BY <1>2, <1>5, <1>6

\* Counts do not fall, and stay where there is nothing to count.
LEMMA CountsRise ==
  ASSUME NEW S, NEW s \in Seq(S), NEW k, NEW b \in Nat, NEW t \in Nat, Counts(s, k, b, t) \/ Numbers(s, k, b, t)
  PROVE  b <= t /\ (Len(s) = 0 => t = b)
<1>1. PICK f \in [0..Len(s) -> Nat] : CountsAlong(f, s, k, b, t)
  BY DEF Counts, Numbers
<1>2. Len(s) \in Nat
  OBVIOUS
<1>3. 0 \in 0..Len(s) /\ Len(s) \in 0..Len(s) /\ 0 <= Len(s)
  BY <1>2
<1>4. f[0] <= f[Len(s)]
  BY <1>1, <1>3 DEF CountsAlong
<1>. QED BY <1>1, <1>2, <1>4 DEF CountsAlong

-----------------------------------------------------------------------------
\* Types.
SeedLive == [status |-> "new", output |-> <<>>, yielded |-> FALSE, permit |-> FALSE, cancel |-> FALSE, boundaries |-> 0]

LEMMA EmptySeqs == ASSUME NEW S PROVE <<>> \in Seq(S)
<1>. QED OBVIOUS

LEMMA StartTyped == CellsInit => CellsTypeOK
<1>1. SeedLive \in LiveStates
  BY EmptySeqs DEF SeedLive, LiveStates
<1>2. NoTask \in TaskStates /\ NoGuest \in GuestStates
  BY DEF NoTask, NoGuest, TaskStates, GuestStates
<1>. QED BY <1>1, <1>2 DEF CellsInit, CellsTypeOK, SeedLive

\* The states of a cell, one at a time.
LEMMA CellTypes ==
  ASSUME CellsTypeOK, NEW c \in Cells
  PROVE  /\ live[c] \in LiveStates /\ task[c] \in TaskStates /\ guest[c] \in GuestStates
         /\ toHost[c] \in Seq(Frames) /\ toGuest[c] \in Seq(Replies)
         /\ collected[c] \in [items : Seq(Nat), last : {"none", "running", "completed", "failed", "terminated"}]
         /\ collected[c].items \in Seq(Nat) /\ live[c].output \in Seq(Nat) /\ Out(c) \in Seq(Nat)
         /\ guest[c].items \in Nat /\ guest[c].notes \in Nat /\ guest[c].resumed \in Nat
         /\ live[c].boundaries \in Nat
<1>. QED BY DEF CellsTypeOK, LiveStates, TaskStates, GuestStates, Out

LEMMA SayTyped == ASSUME CellsTypeOK, NEW c \in Cells, NEW kind \in Said, Say(c, kind) PROVE CellsTypeOK'
<1> DEFINE fr == [kind |-> kind, id |-> guest[c].sent + 1,
                  item |-> IF kind = "note" THEN guest[c].notes + 1 ELSE guest[c].items + 1]
           new == [at |-> "emit", sent |-> guest[c].sent + 1, resumed |-> guest[c].resumed,
                   items |-> IF kind = "output" THEN guest[c].items + 1 ELSE guest[c].items,
                   notes |-> IF kind = "note" THEN guest[c].notes + 1 ELSE guest[c].notes, frame |-> fr]
<1>0. guest[c] \in GuestStates
  BY CellTypes
<1>2. fr \in Frames
  BY <1>0 DEF Frames, GuestStates
<1>3. new \in GuestStates
  BY <1>0, <1>2 DEF GuestStates
<1>4. guest' = [guest EXCEPT ![c] = new]
  BY DEF Say
<1>1. guest' \in [Cells -> GuestStates]
  BY <1>3, <1>4 DEF CellsTypeOK
<1>. QED BY <1>1 DEF Say, CellsTypeOK, sessionVars, modelVars

LEMMA EmitTyped == ASSUME CellsInv, NEW c \in Cells, Emit(c) PROVE CellsTypeOK'
<1>1. guest[c].frame \in Frames
  BY DEF Emit, CellsInv, Together
<1>2. AfterFrame(guest[c].frame.kind) \in {"sync", "exited", "run"}
  BY DEF AfterFrame
<1>3. guest[c] \in GuestStates /\ toHost[c] \in Seq(Frames) /\ CellsTypeOK
  BY CellTypes DEF CellsInv
<1>4. [guest[c] EXCEPT !.at = AfterFrame(guest[c].frame.kind)] \in GuestStates
  BY <1>2, <1>3 DEF GuestStates
<1>5. Append(toHost[c], guest[c].frame) \in Seq(Frames)
  BY <1>1, <1>3
<1>. QED BY <1>3, <1>4, <1>5 DEF Emit, CellsTypeOK, sessionVars, modelVars

LEMMA HearTyped == ASSUME CellsTypeOK, NEW c \in Cells, Hear(c) PROVE CellsTypeOK'
<1> DEFINE new == [guest[c] EXCEPT !.at = IF Head(toGuest[c]).kind = "sync" THEN "run" ELSE guest[c].at,
                    !.resumed = IF Head(toGuest[c]).kind = "yield" THEN guest[c].resumed + 1 ELSE guest[c].resumed]
<1>1. guest[c] \in GuestStates /\ toGuest[c] \in Seq(Replies)
  BY CellTypes
<1>2. new \in GuestStates
  <2>1. PICK a \in {"none", "run", "emit", "sync", "exited"} :
          a = IF Head(toGuest[c]).kind = "sync" THEN "run" ELSE guest[c].at
    BY <1>1 DEF GuestStates
  <2>2. PICK r \in Nat : r = IF Head(toGuest[c]).kind = "yield" THEN guest[c].resumed + 1 ELSE guest[c].resumed
    BY <1>1 DEF GuestStates
  <2>3. [guest[c] EXCEPT !.at = a, !.resumed = r] \in GuestStates
    BY <1>1 DEF GuestStates
  <2>. QED BY <2>1, <2>2, <2>3
<1>3. Tail(toGuest[c]) \in Seq(Replies)
  BY <1>1 DEF Hear
<1>. QED BY <1>2, <1>3 DEF Hear, CellsTypeOK, sessionVars, modelVars

LEMMA GoneTyped == ASSUME CellsTypeOK, NEW c \in Cells PROVE Gone(c) \in GuestStates /\ TaskEnded \in TaskStates
<1>. QED BY CellTypes DEF Gone, TaskEnded, GuestStates, TaskStates

LEMMA FinishTyped ==
  ASSUME CellsTypeOK, NEW c \in Cells, NEW st \in {"completed", "failed", "terminated"}, FinishCell(c, st),
         UNCHANGED <<notes, modelVars>>
  PROVE  CellsTypeOK'
<1>1. [live[c] EXCEPT !.status = st] \in LiveStates
  BY CellTypes DEF LiveStates
<1>. QED BY <1>1, GoneTyped, EmptySeqs DEF FinishCell, CellsTypeOK, modelVars

LEMMA ServeTyped ==
  ASSUME CellsTypeOK, NEW c \in Cells, toHost[c] # <<>>, NEW l \in LiveStates, NEW t \in TaskStates, Serve(c, l, t),
         UNCHANGED <<notes, modelVars>>
  PROVE  CellsTypeOK'
<1>1. Tail(toHost[c]) \in Seq(Frames)
  BY CellTypes
<1>. QED BY <1>1 DEF Serve, CellsTypeOK, modelVars

-----------------------------------------------------------------------------
\* What leaves a part of the invariant alone.
LEMMA OutputSame ==
  ASSUME NEW c \in Cells, OutputFlows(c), collected'[c] = collected[c], live'[c].output = live[c].output,
         live'[c].status = live[c].status \/ live'[c].status # "completed",
         toHost'[c] = toHost[c], guest'[c].at = guest[c].at, guest'[c].frame = guest[c].frame,
         guest'[c].items = guest[c].items
  PROVE  OutputFlows(c)'
<1>1. Out(c)' = Out(c)
  BY DEF Out
<1>2. Emits(c, "output")' = Emits(c, "output") /\ Alive(c)' = Alive(c) /\ IsDone(c)' = IsDone(c)
  BY DEF Emits, Alive, IsDone
<1>. QED BY <1>1, <1>2 DEF OutputFlows

LEMMA NotesSame ==
  ASSUME NEW c \in Cells, NotesFlow(c), Heard' = Heard, live'[c].status = "new" => live[c].status = "new",
         toHost'[c] = toHost[c], guest'[c].at = guest[c].at, guest'[c].frame = guest[c].frame,
         guest'[c].notes = guest[c].notes, task'[c].at = "notify" <=> task[c].at = "notify",
         task[c].at = "notify" => task'[c].frame = task[c].frame
  PROVE  NotesFlow(c)'
<1>1. NotesSoFar(c)' = NotesSoFar(c) /\ \A i : HeardOf(c, i)' = HeardOf(c, i)
  BY DEF NotesSoFar, HeardOf
<1>2. Emits(c, "note")' = Emits(c, "note") /\ Alive(c)' = Alive(c)
  BY DEF Emits, Alive
<1>. QED BY <1>1, <1>2 DEF NotesFlow

LEMMA YieldsSame ==
  ASSUME NEW c \in Cells, YieldsFlow(c), toGuest'[c] = toGuest[c], guest'[c].resumed = guest[c].resumed,
         live'[c].permit = live[c].permit, live'[c].boundaries = live[c].boundaries,
         (task'[c].at = "write" /\ task'[c].frame.kind = "yield") <=> (task[c].at = "write" /\ task[c].frame.kind = "yield")
  PROVE  YieldsFlow(c)'
<1>. QED BY DEF YieldsFlow

SameCell(d) ==
    /\ live'[d] = live[d] /\ task'[d] = task[d] /\ guest'[d] = guest[d] /\ toHost'[d] = toHost[d]
    /\ toGuest'[d] = toGuest[d] /\ collected'[d] = collected[d]

\* A step of one cell, that says nothing.
LEMMA OneCell ==
  ASSUME CellsInv, NEW c \in Cells, CellsTypeOK', \A d \in Cells \ {c} : SameCell(d), Heard' = Heard,
         \A d \in Cells \ {c} : outer'.at # "idle" /\ outer'.cell = d => outer.at # "idle" /\ outer.cell = d,
         Together(c)', OutputFlows(c)', NotesFlow(c)', YieldsFlow(c)'
  PROVE  CellsInv'
<1> SUFFICES ASSUME NEW d \in Cells, d # c
             PROVE  Together(d)' /\ OutputFlows(d)' /\ NotesFlow(d)' /\ YieldsFlow(d)'
  BY DEF CellsInv
<1>1. SameCell(d) /\ Together(d) /\ OutputFlows(d) /\ NotesFlow(d) /\ YieldsFlow(d)
  BY DEF CellsInv
<1>2. OutputFlows(d)' /\ NotesFlow(d)' /\ YieldsFlow(d)'
  BY <1>1, OutputSame, NotesSame, YieldsSame DEF SameCell
<1>3. Together(d)'
  BY <1>1 DEF SameCell, Together, Working
<1>. QED BY <1>2, <1>3

LEMMA HeardFinite ==
  ASSUME CellsTypeOK, NEW c \in Cells, NEW n \in Nat
  PROVE  IsFiniteSet(HeardOf(c, n)) /\ Cardinality(HeardOf(c, n)) \in Nat
<1>1. IsFiniteSet(1..n) /\ HeardOf(c, n) \subseteq 1..n
  BY FS_Interval DEF HeardOf
<1>. QED BY <1>1, FS_Subset, FS_CardinalityType

LEMMA NotesCount ==
  ASSUME CellsTypeOK, NEW c \in Cells PROVE NotesSoFar(c) \in Nat /\ Heard \in Seq(Cells \X Nat) /\ Len(Heard) \in Nat
<1>1. Heard \in Seq(Cells \X Nat)
  BY DEF CellsTypeOK, Heard
<1>2. Len(Heard) \in Nat
  BY <1>1
<1>. QED BY <1>1, <1>2, HeardFinite DEF NotesSoFar

-----------------------------------------------------------------------------
\* The guest.
LEMMA SayKeeps == ASSUME CellsInv, NEW c \in Cells, NEW kind \in Said, Say(c, kind) PROVE CellsInv'
<1>0. CellsTypeOK /\ Together(c) /\ OutputFlows(c) /\ NotesFlow(c) /\ YieldsFlow(c)
  BY DEF CellsInv
<1>1. CellsTypeOK'
  BY <1>0, SayTyped
<1>2. /\ guest[c].at = "run" /\ guest'[c].at = "emit" /\ guest'[c].resumed = guest[c].resumed
      /\ guest'[c].items = (IF kind = "output" THEN guest[c].items + 1 ELSE guest[c].items)
      /\ guest'[c].notes = (IF kind = "note" THEN guest[c].notes + 1 ELSE guest[c].notes)
      /\ guest'[c].frame.kind = kind
      /\ guest'[c].frame.item = (IF kind = "note" THEN guest[c].notes + 1 ELSE guest[c].items + 1)
      /\ guest'[c].frame = [kind |-> kind, id |-> guest[c].sent + 1,
                            item |-> IF kind = "note" THEN guest[c].notes + 1 ELSE guest[c].items + 1]
  BY <1>0 DEF Say, CellsTypeOK
<1>3. /\ live' = live /\ task' = task /\ toHost' = toHost /\ toGuest' = toGuest /\ collected' = collected
      /\ Heard' = Heard /\ outer' = outer
      /\ \A d \in Cells \ {c} : guest'[d] = guest[d]
  BY <1>0 DEF Say, sessionVars, modelVars, CellsTypeOK, Heard
<1>4. guest'[c].frame \in Frames
  BY <1>0, <1>2, CellTypes DEF Frames, GuestStates
<1>5. Together(c)'
  BY <1>0, <1>2, <1>3, <1>4 DEF Together, Working
<1>6. OutputFlows(c)'
  <2>1. PICK t \in Nat : Numbers(toHost[c], "output", Len(Out(c)), t) /\ t = guest[c].items
    BY <1>0, <1>2, CellTypes DEF OutputFlows, Emits, Alive, One
  <2>2. Out(c)' = Out(c)
    BY <1>3 DEF Out
  <2>3. Emits(c, "output")' <=> kind = "output"
    BY <1>2 DEF Emits
  <2>4. t + One(Emits(c, "output")') = guest'[c].items
    BY <2>1, <2>3, <1>2 DEF One
  <2>5. live'[c].status # "completed" /\ collected'[c].last # "completed"
    BY <1>0, <1>2, <1>3 DEF Together
  <2>6. t + One(Emits(c, "output")') <= guest'[c].items
    BY <2>4, <1>0, <1>2, CellTypes
  <2>7. Emits(c, "output")' => guest'[c].frame.item = guest'[c].items
    BY <2>3, <1>2
  <2>. QED BY <1>0, <1>3, <2>1, <2>2, <2>4, <2>5, <2>6, <2>7 DEF OutputFlows
<1>7. NotesFlow(c)'
  <2>1. PICK t \in Nat : /\ Numbers(toHost[c], "note", NotesSoFar(c) + One(task[c].at = "notify"), t)
                         /\ t = guest[c].notes
    BY <1>0, <1>2, CellTypes DEF NotesFlow, Emits, Alive, One
  <2>2. NotesSoFar(c)' = NotesSoFar(c) /\ \A i : HeardOf(c, i)' = HeardOf(c, i)
    BY <1>3 DEF NotesSoFar, HeardOf
  <2>3. Emits(c, "note")' <=> kind = "note"
    BY <1>2 DEF Emits
  <2>4. t + One(Emits(c, "note")') = guest'[c].notes
    BY <2>1, <2>3, <1>2 DEF One
  <2>. QED BY <1>0, <1>2, <1>3, <2>1, <2>2, <2>3, <2>4 DEF NotesFlow
<1>8. YieldsFlow(c)'
  BY <1>0, <1>2, <1>3, YieldsSame
<1>. QED BY <1>1, <1>3, <1>5, <1>6, <1>7, <1>8, OneCell DEF SameCell

LEMMA EmitKeeps == ASSUME CellsInv, NEW c \in Cells, Emit(c) PROVE CellsInv'
<1>0. CellsTypeOK /\ Together(c) /\ OutputFlows(c) /\ NotesFlow(c) /\ YieldsFlow(c)
  BY DEF CellsInv
<1>1. CellsTypeOK'
  BY EmitTyped
<1>a. PICK f \in Frames : f = guest[c].frame
  BY <1>0 DEF Emit, Together
<1>b. f.kind \in Said /\ toHost[c] \in Seq(Frames) /\ Out(c) \in Seq(Nat) /\ guest[c].items \in Nat /\ guest[c].notes \in Nat
  BY <1>0, CellTypes DEF Frames
<1>2. /\ guest[c].at = "emit" /\ guest'[c].at = AfterFrame(f.kind) /\ guest'[c].resumed = guest[c].resumed
      /\ guest'[c].items = guest[c].items /\ guest'[c].notes = guest[c].notes /\ guest'[c].frame = f
      /\ toHost'[c] = Append(toHost[c], f)
  BY <1>0, <1>a, CellTypes DEF Emit, CellsTypeOK, GuestStates
<1>3. /\ live' = live /\ task' = task /\ toGuest' = toGuest /\ collected' = collected
      /\ Heard' = Heard /\ outer' = outer
      /\ \A d \in Cells \ {c} : guest'[d] = guest[d] /\ toHost'[d] = toHost[d]
  BY <1>0 DEF Emit, sessionVars, modelVars, CellsTypeOK, Heard
<1>4. /\ AfterFrame(f.kind) \in {"run", "sync", "exited"}
      /\ f.kind \in {"done", "failure"} => AfterFrame(f.kind) = "exited"
  BY DEF AfterFrame
<1>c. /\ Len(toHost[c]) \in Nat /\ Len(Append(toHost[c], f)) = Len(toHost[c]) + 1
      /\ Append(toHost[c], f)[Len(toHost[c]) + 1] = f
      /\ \A i \in 1..Len(toHost[c]) : Append(toHost[c], f)[i] = toHost[c][i]
  BY <1>b
<1>d. \A i \in 1..Len(toHost[c]) : toHost[c][i].kind \notin {"done", "failure"}
  BY <1>0, <1>2 DEF Together
<1>5. Together(c)'
  <2>1. ASSUME NEW i \in 1..(Len(toHost[c]) + 1), Append(toHost[c], f)[i].kind \in {"done", "failure"}
        PROVE  i = Len(toHost[c]) + 1 /\ f.kind \in {"done", "failure"}
    BY <2>1, <1>c, <1>d
  <2>2. \A i \in 1..Len(toHost'[c]) : toHost'[c][i].kind \in {"done", "failure"} =>
          i = Len(toHost'[c]) /\ guest'[c].at = "exited"
    BY <2>1, <1>c, <1>2, <1>4
  <2>3. live[c].status = "running" /\ Working(c)
    BY <1>0, <1>2 DEF Together
  <2>. QED BY <1>0, <1>2, <1>3, <1>4, <2>2, <2>3 DEF Together, Working
<1>6. OutputFlows(c)'
  <2>1. PICK t \in Nat : /\ Numbers(toHost[c], "output", Len(Out(c)), t)
                         /\ t + (IF f.kind = "output" THEN 1 ELSE 0) = guest[c].items
    BY <1>0, <1>a, <1>2 DEF OutputFlows, Emits, Alive, One
  <2>2. Out(c)' = Out(c)
    BY <1>3 DEF Out
  <2>3. ~Emits(c, "output")'
    BY <1>2, <1>4 DEF Emits
  <2>4. f.kind = "output" => f.item = t + 1
    BY <2>1, <1>0, <1>a, <1>2 DEF OutputFlows, Emits
  <2>5. live'[c].status # "completed" /\ collected'[c].last # "completed"
    BY <1>0, <1>2, <1>3 DEF Together
  <2>6. Numbers(toHost[c], "output", Len(Out(c)), t) /\ Len(Out(c)) \in Nat
    BY <2>1, <1>b
  <2>7. Numbers(Append(toHost[c], f), "output", Len(Out(c)), guest[c].items)
    BY <2>1, <2>4, <2>6, <1>b, NumbersAppend
  <2>8. guest[c].items + One(Emits(c, "output")') = guest[c].items /\ guest[c].items <= guest[c].items
    BY <2>3, <1>b DEF One
  <2>. QED BY <1>0, <1>2, <1>3, <1>b, <2>2, <2>3, <2>5, <2>7, <2>8 DEF OutputFlows
<1>7. NotesFlow(c)'
  <2> DEFINE b == NotesSoFar(c) + One(task[c].at = "notify")
  <2>0. b \in Nat
    BY <1>0, NotesCount DEF One
  <2>1. PICK t \in Nat : /\ Numbers(toHost[c], "note", b, t)
                         /\ t + (IF f.kind = "note" THEN 1 ELSE 0) = guest[c].notes
    BY <1>0, <1>a, <1>2 DEF NotesFlow, Emits, Alive, One
  <2>2. NotesSoFar(c)' = NotesSoFar(c) /\ \A i : HeardOf(c, i)' = HeardOf(c, i)
    BY <1>3 DEF NotesSoFar, HeardOf
  <2>3. ~Emits(c, "note")'
    BY <1>2, <1>4 DEF Emits
  <2>4. f.kind = "note" => f.item = t + 1
    BY <2>1, <1>0, <1>a, <1>2 DEF NotesFlow, Emits
  <2>7. Numbers(Append(toHost[c], f), "note", b, guest[c].notes)
    BY <2>0, <2>1, <2>4, <1>b, NumbersAppend
  <2>8. guest[c].notes + One(Emits(c, "note")') = guest[c].notes
    BY <2>3, <1>b DEF One
  <2>. QED BY <1>0, <1>2, <1>3, <1>b, <2>2, <2>3, <2>7, <2>8 DEF NotesFlow
<1>8. YieldsFlow(c)'
  BY <1>0, <1>2, <1>3, YieldsSame
<1>. QED BY <1>1, <1>3, <1>5, <1>6, <1>7, <1>8, OneCell DEF SameCell

LEMMA HearKeeps == ASSUME CellsInv, NEW c \in Cells, Hear(c) PROVE CellsInv'
<1>0. CellsTypeOK /\ Together(c) /\ OutputFlows(c) /\ NotesFlow(c) /\ YieldsFlow(c)
  BY DEF CellsInv
<1>1. CellsTypeOK'
  BY <1>0, HearTyped
<1> DEFINE r == Head(toGuest[c])
<1>b. toGuest[c] \in Seq(Replies) /\ toGuest[c] # <<>> /\ guest[c].resumed \in Nat
  BY <1>0, CellTypes DEF Hear
<1>2. /\ guest[c].at \in {"run", "sync"} /\ guest'[c].at \in {"run", "sync"}
      /\ guest'[c].items = guest[c].items /\ guest'[c].notes = guest[c].notes /\ guest'[c].frame = guest[c].frame
      /\ guest'[c].resumed = (IF r.kind = "yield" THEN guest[c].resumed + 1 ELSE guest[c].resumed)
      /\ toGuest'[c] = Tail(toGuest[c])
  BY <1>0, CellTypes DEF Hear, CellsTypeOK, GuestStates
<1>3. /\ live' = live /\ task' = task /\ toHost' = toHost /\ collected' = collected
      /\ Heard' = Heard /\ outer' = outer
      /\ \A d \in Cells \ {c} : guest'[d] = guest[d] /\ toGuest'[d] = toGuest[d]
  BY <1>0 DEF Hear, sessionVars, modelVars, CellsTypeOK, Heard
<1>5. Together(c)'
  BY <1>0, <1>2, <1>3 DEF Together, Working
<1>6. OutputFlows(c)'
  <2>2. Out(c)' = Out(c)
    BY <1>3 DEF Out
  <2>3. Emits(c, "output")' = Emits(c, "output") /\ Alive(c)' = Alive(c) /\ IsDone(c)' = IsDone(c)
    BY <1>2, <1>3 DEF Emits, Alive, IsDone
  <2>. QED BY <1>0, <1>2, <1>3, <2>2, <2>3 DEF OutputFlows
<1>7. NotesFlow(c)'
  <2>2. NotesSoFar(c)' = NotesSoFar(c) /\ \A i : HeardOf(c, i)' = HeardOf(c, i)
    BY <1>3 DEF NotesSoFar, HeardOf
  <2>3. Emits(c, "note")' = Emits(c, "note") /\ Alive(c)' = Alive(c)
    BY <1>2, <1>3 DEF Emits, Alive
  <2>. QED BY <1>0, <1>2, <1>3, <2>2, <2>3 DEF NotesFlow
<1>8. YieldsFlow(c)'
  <2>1. PICK t \in Nat : /\ Counts(toGuest[c], "yield", guest[c].resumed, t)
                         /\ t + One(task[c].at = "write" /\ task[c].frame.kind = "yield") + One(live[c].permit)
                               <= live[c].boundaries
    BY <1>0 DEF YieldsFlow
  <2>2. Counts(Tail(toGuest[c]), "yield", guest'[c].resumed, t)
    BY <2>1, <1>2, <1>b, CountsTail
  <2>. QED BY <2>1, <2>2, <1>2, <1>3 DEF YieldsFlow
<1>. QED BY <1>1, <1>3, <1>5, <1>6, <1>7, <1>8, OneCell DEF SameCell

LEMMA GuestDiesKeeps == ASSUME CellsInv, NEW c \in Cells, GuestDies(c) PROVE CellsInv'
<1>0. CellsTypeOK /\ Together(c) /\ OutputFlows(c) /\ NotesFlow(c) /\ YieldsFlow(c)
  BY DEF CellsInv
<1>1. CellsTypeOK'
  BY <1>0, GoneTyped DEF GuestDies, CellsTypeOK, sessionVars, modelVars
<1>2. /\ guest[c].at \in {"run", "emit", "sync"} /\ guest'[c].at = "exited" /\ guest'[c].resumed = guest[c].resumed
      /\ guest'[c].items = guest[c].items /\ guest'[c].notes = guest[c].notes /\ guest'[c].frame = guest[c].frame
  BY <1>0, CellTypes DEF GuestDies, Alive, Gone, CellsTypeOK, GuestStates
<1>3. /\ live' = live /\ task' = task /\ toHost' = toHost /\ toGuest' = toGuest /\ collected' = collected
      /\ Heard' = Heard /\ outer' = outer
      /\ \A d \in Cells \ {c} : guest'[d] = guest[d]
  BY <1>0 DEF GuestDies, sessionVars, modelVars, CellsTypeOK, Heard
<1>5. Together(c)'
  BY <1>0, <1>2, <1>3 DEF Together, Working
<1>6. OutputFlows(c)'
  <2>1. PICK t \in Nat : /\ Numbers(toHost[c], "output", Len(Out(c)), t)
                         /\ t + One(Emits(c, "output")) <= guest[c].items
    BY <1>0 DEF OutputFlows
  <2>2. Out(c)' = Out(c)
    BY <1>3 DEF Out
  <2>3. ~Emits(c, "output")' /\ ~Alive(c)' /\ ~IsDone(c)'
    BY <1>0, <1>2, <1>3 DEF Emits, Alive, IsDone, Together
  <2>4. t + One(Emits(c, "output")') <= guest[c].items
    BY <2>1, <2>3, <1>0, CellTypes DEF One
  <2>5. live'[c].status # "completed" /\ collected'[c].last # "completed"
    BY <1>0, <1>2, <1>3 DEF Together
  <2>. QED BY <1>0, <1>2, <1>3, <2>1, <2>2, <2>3, <2>4, <2>5 DEF OutputFlows
<1>7. NotesFlow(c)'
  <2>2. NotesSoFar(c)' = NotesSoFar(c) /\ \A i : HeardOf(c, i)' = HeardOf(c, i)
    BY <1>3 DEF NotesSoFar, HeardOf
  <2>3. ~Emits(c, "note")' /\ ~Alive(c)'
    BY <1>2, <1>3 DEF Emits, Alive
  <2>. QED BY <1>0, <1>2, <1>3, <2>2, <2>3 DEF NotesFlow
<1>8. YieldsFlow(c)'
  BY <1>0, <1>2, <1>3, YieldsSame
<1>. QED BY <1>1, <1>3, <1>5, <1>6, <1>7, <1>8, OneCell DEF SameCell

-----------------------------------------------------------------------------
\* The task.
LEMMA FinishKeeps ==
  ASSUME CellsInv, NEW c \in Cells, NEW st \in {"completed", "failed", "terminated"}, FinishCell(c, st), Working(c),
         st = "completed" => Len(Out(c)) = guest[c].items, UNCHANGED <<notes, modelVars>>
  PROVE  CellsInv'
<1>0. CellsTypeOK /\ Together(c) /\ OutputFlows(c) /\ NotesFlow(c) /\ YieldsFlow(c)
  BY DEF CellsInv
<1>1. CellsTypeOK'
  BY <1>0, FinishTyped
<1>2. /\ live'[c].status = st /\ live'[c].output = live[c].output /\ live'[c].permit = live[c].permit
      /\ live'[c].boundaries = live[c].boundaries
      /\ task'[c] = TaskEnded /\ guest'[c].at = "exited" /\ toHost'[c] = <<>> /\ toGuest'[c] = <<>>
      /\ guest'[c].items = guest[c].items /\ guest'[c].notes = guest[c].notes /\ guest'[c].frame = guest[c].frame
      /\ guest'[c].resumed = guest[c].resumed
  BY <1>0, CellTypes DEF FinishCell, Gone, CellsTypeOK, GuestStates, LiveStates
<1>3. /\ collected' = collected /\ Heard' = Heard /\ outer' = outer
      /\ \A d \in Cells \ {c} : SameCell(d)
  BY <1>0 DEF FinishCell, modelVars, CellsTypeOK, Heard, SameCell
<1>4. task'[c].at = "ended" /\ live[c].status = "running" /\ Len(<<>>) = 0
  BY <1>0, <1>2 DEF TaskEnded, Together
<1>5. Together(c)'
  BY <1>0, <1>2, <1>3, <1>4 DEF Together, Working
<1>6. OutputFlows(c)'
  <2>1. PICK t \in Nat : /\ Numbers(toHost[c], "output", Len(Out(c)), t)
                         /\ t + One(Emits(c, "output")) <= guest[c].items
    BY <1>0 DEF OutputFlows
  <2>2. Out(c)' = Out(c)
    BY <1>2, <1>3 DEF Out
  <2>3. ~Emits(c, "output")' /\ ~Alive(c)' /\ ~IsDone(c)'
    BY <1>2, <1>4 DEF Emits, Alive, IsDone
  <2>4. toHost[c] \in Seq(Frames) /\ Len(Out(c)) \in Nat /\ guest[c].items \in Nat
    BY <1>0, CellTypes
  <2>5. Len(Out(c)) <= t
    BY <2>1, <2>4, CountsRise
  <2>6. Len(Out(c)) + One(Emits(c, "output")') <= guest[c].items
    BY <2>1, <2>3, <2>4, <2>5 DEF One
  <2>7. Numbers(<<>>, "output", Len(Out(c)), Len(Out(c)))
    BY <2>4, CountsEmpty
  <2>8. collected[c].last # "completed"
    BY <1>0, <1>4 DEF Together
  <2>. QED BY <1>0, <1>2, <1>3, <2>2, <2>3, <2>4, <2>6, <2>7, <2>8 DEF OutputFlows
<1>7. NotesFlow(c)'
  <2>1. NotesSoFar(c) \in Nat /\ NotesSoFar(c)' = NotesSoFar(c) /\ \A i : HeardOf(c, i)' = HeardOf(c, i)
    BY <1>0, <1>3, NotesCount DEF NotesSoFar, HeardOf
  <2>2. ~Emits(c, "note")' /\ ~Alive(c)'
    BY <1>2 DEF Emits, Alive
  <2>3. NotesSoFar(c) + One(task'[c].at = "notify") \in Nat
    BY <2>1 DEF One
  <2>4. Numbers(<<>>, "note", NotesSoFar(c) + One(task'[c].at = "notify"), NotesSoFar(c) + One(task'[c].at = "notify"))
    BY <2>3, CountsEmpty
  <2>. QED BY <1>0, <1>2, <1>3, <1>4, <2>1, <2>2, <2>3, <2>4 DEF NotesFlow
<1>8. YieldsFlow(c)'
  <2>1. PICK t \in Nat : /\ Counts(toGuest[c], "yield", guest[c].resumed, t)
                         /\ t + One(task[c].at = "write" /\ task[c].frame.kind = "yield") + One(live[c].permit)
                               <= live[c].boundaries
    BY <1>0 DEF YieldsFlow
  <2>2. toGuest[c] \in Seq(Replies) /\ guest[c].resumed \in Nat /\ live[c].boundaries \in Nat
    BY <1>0, CellTypes
  <2>3. guest[c].resumed <= t
    BY <2>1, <2>2, CountsRise
  <2>4. guest[c].resumed + One(task'[c].at = "write" /\ task'[c].frame.kind = "yield") + One(live[c].permit)
           <= live[c].boundaries
    BY <2>1, <2>2, <2>3, <1>4 DEF One
  <2>5. Counts(<<>>, "yield", guest[c].resumed, guest[c].resumed)
    BY <2>2, CountsEmpty
  <2>. QED BY <2>2, <2>4, <2>5, <1>2 DEF YieldsFlow
<1>. QED BY <1>1, <1>3, <1>5, <1>6, <1>7, <1>8, OneCell

LEMMA JoinAppend ==
  ASSUME NEW a \in Seq(Nat), NEW b \in Seq(Nat), NEW x \in Nat PROVE a \o Append(b, x) = Append(a \o b, x)
<1>. QED OBVIOUS

LEMMA CountOn ==
  ASSUME NEW a \in Seq(Nat), \A i \in 1..Len(a) : a[i] = i
  PROVE  \A i \in 1..Len(Append(a, Len(a) + 1)) : Append(a, Len(a) + 1)[i] = i
<1>1. Len(a) \in Nat /\ Len(Append(a, Len(a) + 1)) = Len(a) + 1
  OBVIOUS
<1>. QED BY <1>1

\* A frame that is taken from the pipe, and changes of cell and task that keep what is
\* known of yields and of the cell's state.
LEMMA ServeKeeps ==
  ASSUME CellsInv, NEW c \in Cells, Serving(c), toHost[c] # <<>>, NEW f, f = Head(toHost[c]),
         NEW l \in LiveStates, NEW t \in TaskStates, Serve(c, l, t), UNCHANGED <<notes, modelVars>>,
         f.kind \notin {"done", "failure"},
         l.status = live[c].status, l.permit = live[c].permit, l.boundaries = live[c].boundaries,
         f.kind # "output" => l.output = live[c].output,
         f.kind = "output" => l.output = Append(live[c].output, f.item),
         t.at = "notify" <=> f.kind = "note",
         t.at \in {"serve", "write", "notify"}, t.at # "serve" => t.frame = f,
         t.at = "write" => f.kind # "yield"
  PROVE  CellsInv'
<1>0. CellsTypeOK /\ Together(c) /\ OutputFlows(c) /\ NotesFlow(c) /\ YieldsFlow(c)
  BY DEF CellsInv
<1>1. CellsTypeOK'
  BY <1>0, ServeTyped
<1>2. live'[c] = l /\ task'[c] = t /\ toHost'[c] = Tail(toHost[c]) /\ guest' = guest /\ toGuest' = toGuest
  BY <1>0 DEF Serve, CellsTypeOK
<1>3. /\ collected' = collected /\ Heard' = Heard /\ outer' = outer
      /\ \A d \in Cells \ {c} : SameCell(d)
  BY <1>0 DEF Serve, modelVars, CellsTypeOK, Heard, SameCell
<1>4. task[c].at = "serve" /\ live[c].status = "running"
  BY <1>0 DEF Serving, Together, Working
<1>b. /\ toHost[c] \in Seq(Frames) /\ Out(c) \in Seq(Nat) /\ Len(Out(c)) \in Nat /\ guest[c].items \in Nat
      /\ collected[c].items \in Seq(Nat) /\ live[c].output \in Seq(Nat)
  BY <1>0, CellTypes
<1>c. /\ Len(toHost[c]) \in Nat \ {0} /\ Len(Tail(toHost[c])) = Len(toHost[c]) - 1 /\ f = toHost[c][1] /\ f \in Frames
      /\ \A i \in 1..(Len(toHost[c]) - 1) : Tail(toHost[c])[i] = toHost[c][i + 1]
  BY <1>b
<1>d. f.item \in Nat
  BY <1>c DEF Frames
<1>5. Together(c)'
  <2>1. \A i \in 1..Len(toHost'[c]) : toHost'[c][i].kind \in {"done", "failure"} =>
          i = Len(toHost'[c]) /\ guest'[c].at = "exited"
    <3> SUFFICES ASSUME NEW i \in 1..(Len(toHost[c]) - 1), toHost[c][i + 1].kind \in {"done", "failure"}
                 PROVE  i = Len(toHost[c]) - 1 /\ guest[c].at = "exited"
      BY <1>2, <1>c
    <3>1. i + 1 \in 1..Len(toHost[c])
      BY <1>c
    <3>2. i + 1 = Len(toHost[c]) /\ guest[c].at = "exited"
      BY <3>1, <1>0 DEF Together
    <3>. QED BY <3>2, <1>c
  <2>2. f \in Replies
    BY <1>c DEF Replies
  <2>. QED BY <1>0, <1>2, <1>3, <1>4, <1>c, <2>1, <2>2 DEF Together, Working
<1>6. OutputFlows(c)'
  <2>1. PICK n \in Nat : /\ Numbers(toHost[c], "output", Len(Out(c)), n)
                         /\ n + One(Emits(c, "output")) <= guest[c].items
                         /\ Alive(c) \/ IsDone(c) => n + One(Emits(c, "output")) = guest[c].items
    BY <1>0 DEF OutputFlows
  <2>2. Emits(c, "output")' = Emits(c, "output") /\ Alive(c)' = Alive(c)
    BY <1>2 DEF Emits, Alive
  <2>3. IsDone(c)' => IsDone(c)
    <3> SUFFICES ASSUME NEW i \in 1..(Len(toHost[c]) - 1), toHost[c][i + 1].kind = "done" PROVE IsDone(c)
      BY <1>2, <1>c DEF IsDone
    <3>1. i + 1 \in 1..Len(toHost[c])
      BY <1>c
    <3>. QED BY <3>1 DEF IsDone
  <2>4. live'[c].status # "completed" /\ collected'[c].last # "completed"
    BY <1>0, <1>2, <1>3, <1>4 DEF Together
  <2>5. Emits(c, "output")' => guest'[c].frame.item = guest'[c].items
    BY <2>2, <1>0, <1>2 DEF OutputFlows
  <2>6. CASE f.kind = "output"
    <3>1. f.item = Len(Out(c)) + 1 /\ Numbers(Tail(toHost[c]), "output", Len(Out(c)) + 1, n)
      BY <2>1, <2>6, <1>b, NumbersTail
    <3>2. Out(c)' = Append(Out(c), f.item)
      BY <2>6, <1>2, <1>3, <1>b, <1>d, JoinAppend DEF Out
    <3>3. Len(Out(c)') = Len(Out(c)) + 1
      BY <3>2, <1>b, <1>d
    <3>4. \A i \in 1..Len(Out(c)) : Out(c)[i] = i
      BY <1>0 DEF OutputFlows
    <3>5. \A i \in 1..Len(Out(c)') : Out(c)'[i] = i
      BY <3>1, <3>2, <3>4, <1>b, CountOn
    <3>. QED BY <2>1, <2>2, <2>3, <2>4, <2>5, <3>1, <3>3, <3>5, <1>2, <1>3 DEF OutputFlows
  <2>7. CASE f.kind # "output"
    <3>1. Numbers(Tail(toHost[c]), "output", Len(Out(c)), n)
      BY <2>1, <2>7, <1>b, NumbersTail
    <3>2. Out(c)' = Out(c)
      BY <2>7, <1>2, <1>3 DEF Out
    <3>. QED BY <2>1, <2>2, <2>3, <2>4, <2>5, <3>1, <3>2, <1>0, <1>2, <1>3 DEF OutputFlows
  <2>. QED BY <2>6, <2>7
<1>7. NotesFlow(c)'
  <2>0. NotesSoFar(c) \in Nat /\ NotesSoFar(c)' = NotesSoFar(c) /\ \A i : HeardOf(c, i)' = HeardOf(c, i)
    BY <1>0, <1>3, NotesCount DEF NotesSoFar, HeardOf
  <2>1. PICK n \in Nat : /\ Numbers(toHost[c], "note", NotesSoFar(c), n)
                         /\ Alive(c) => n + One(Emits(c, "note")) = guest[c].notes
    BY <1>0, <1>4, <2>0 DEF NotesFlow, One
  <2>2. Emits(c, "note")' = Emits(c, "note") /\ Alive(c)' = Alive(c)
    BY <1>2 DEF Emits, Alive
  <2>3. /\ f.kind = "note" => f.item = NotesSoFar(c) + 1
        /\ Numbers(Tail(toHost[c]), "note", NotesSoFar(c) + One(t.at = "notify"), n)
    BY <2>0, <2>1, <1>b, NumbersTail DEF One
  <2>4. t.at = "notify" => t.frame.item = NotesSoFar(c) + 1
    BY <2>3
  <2>5. Emits(c, "note")' => guest'[c].frame.item = guest'[c].notes
    BY <2>2, <1>0, <1>2 DEF NotesFlow
  <2>. QED BY <1>0, <1>2, <1>3, <1>4, <2>0, <2>1, <2>2, <2>3, <2>4, <2>5 DEF NotesFlow
<1>8. YieldsFlow(c)'
  BY <1>0, <1>2, <1>4, YieldsSame
<1>. QED BY <1>1, <1>3, <1>5, <1>6, <1>7, <1>8, OneCell

LEMMA TaskChanged ==
  ASSUME NEW c \in Cells, task[c] \in TaskStates, NEW f \in Replies \union {0}, NEW a \in {"serve", "write", "notify"}
  PROVE  TaskIs(c, a, f) \in TaskStates /\ TaskIs(c, a, f).at = a /\ TaskIs(c, a, f).frame = f
<1>. QED BY DEF TaskStates, TaskIs

LEMMA LastFrame ==
  ASSUME CellsInv, NEW c \in Cells, toHost[c] # <<>>, Head(toHost[c]).kind = "done"
  PROVE  Len(Out(c)) = guest[c].items
<1>0. CellsTypeOK /\ Together(c) /\ OutputFlows(c)
  BY DEF CellsInv
<1>b. toHost[c] \in Seq(Frames) /\ Len(Out(c)) \in Nat /\ guest[c].items \in Nat
  BY <1>0, CellTypes
<1>c. Len(toHost[c]) \in Nat \ {0} /\ 1 \in 1..Len(toHost[c]) /\ Head(toHost[c]) = toHost[c][1]
  BY <1>b
<1>1. Len(toHost[c]) = 1 /\ guest[c].at = "exited" /\ IsDone(c)
  BY <1>0, <1>c DEF Together, IsDone
<1>2. Len(Tail(toHost[c])) = 0 /\ Tail(toHost[c]) \in Seq(Frames)
  BY <1>1, <1>b
<1>3. PICK n \in Nat : /\ Numbers(toHost[c], "output", Len(Out(c)), n)
                       /\ n + One(Emits(c, "output")) = guest[c].items
  BY <1>0, <1>1 DEF OutputFlows
<1>4. Numbers(Tail(toHost[c]), "output", Len(Out(c)), n)
  BY <1>3, <1>b, NumbersTail
<1>5. n = Len(Out(c))
  BY <1>2, <1>4, <1>b, CountsRise
<1>. QED BY <1>1, <1>3, <1>5, <1>b DEF One, Emits

LEMMA ReceiveKeeps == ASSUME CellsInv, NEW c \in Cells, ReceiveFrame(c) PROVE CellsInv'
<1>0. CellsTypeOK /\ Serving(c) /\ toHost[c] # <<>> /\ Working(c) /\ UNCHANGED <<notes, modelVars>>
  BY DEF CellsInv, ReceiveFrame, Serving, Working
<1>b. toHost[c] \in Seq(Frames) /\ live[c] \in LiveStates /\ task[c] \in TaskStates
  BY <1>0, CellTypes
<1>a. PICK f \in Frames : f = Head(toHost[c])
  BY <1>0, <1>b
<1>c. f.kind \in Said /\ f.id \in Nat /\ f.item \in Nat /\ f \in Replies /\ [kind |-> f.kind, id |-> f.id] \in [kind : Said, id : Nat]
  BY DEF Frames, Replies
<1> DEFINE l == live[c]
           t == task[c]
           pend == [t EXCEPT !.pending = t.pending \union {[kind |-> f.kind, id |-> f.id]}]
<1>d. task[c].at = "serve"
  BY <1>0 DEF Serving
<1>e. pend \in TaskStates /\ pend.at = "serve"
  BY <1>b, <1>c, <1>d DEF TaskStates
<1>1. CASE f.kind = "done"
  <2>1. FinishCell(c, "completed") /\ Len(Out(c)) = guest[c].items
    BY <1>0, <1>1, <1>a, LastFrame DEF ReceiveFrame
  <2>. QED BY <2>1, <1>0, FinishKeeps
<1>2. CASE f.kind = "failure"
  <2>1. FinishCell(c, "failed")
    BY <1>2, <1>a DEF ReceiveFrame
  <2>. QED BY <2>1, <1>0, FinishKeeps
<1>3. CASE f.kind = "output"
  <2>1. FinishCell(c, "failed") \/ Serve(c, [l EXCEPT !.output = Append(l.output, f.item)], t)
    BY <1>3, <1>a DEF ReceiveFrame
  <2>2. CASE FinishCell(c, "failed") BY <2>2, <1>0, FinishKeeps
  <2>3. CASE Serve(c, [l EXCEPT !.output = Append(l.output, f.item)], t)
    <3>0. Append(l.output, f.item) \in Seq(Nat)
      BY <1>c, <1>0, CellTypes
    <3>1. PICK new \in LiveStates : /\ new = [l EXCEPT !.output = Append(l.output, f.item)]
                                    /\ new.status = l.status /\ new.permit = l.permit /\ new.boundaries = l.boundaries
                                    /\ new.output = Append(l.output, f.item)
      <4>1. PICK o \in Seq(Nat) : o = Append(l.output, f.item)
        BY <3>0
      <4>2. PICK x \in LiveStates : x = live[c]
        BY <1>b
      <4>3. /\ [x EXCEPT !.output = o] \in LiveStates /\ [x EXCEPT !.output = o].output = o
            /\ [x EXCEPT !.output = o].status = x.status /\ [x EXCEPT !.output = o].permit = x.permit
            /\ [x EXCEPT !.output = o].boundaries = x.boundaries
        BY DEF LiveStates
      <4>. QED BY <4>1, <4>2, <4>3
    <3>2. Serve(c, new, t)
      BY <2>3, <3>1
    <3>. QED BY <3>1, <3>2, <1>0, <1>3, <1>a, <1>b, <1>d, ServeKeeps
  <2>. QED BY <2>1, <2>2, <2>3
<1>4. CASE f.kind = "yield"
  <2>1. FinishCell(c, "failed") \/ Serve(c, [l EXCEPT !.yielded = TRUE], pend)
    BY <1>4, <1>a DEF ReceiveFrame
  <2>2. CASE FinishCell(c, "failed") BY <2>2, <1>0, FinishKeeps
  <2>3. CASE Serve(c, [l EXCEPT !.yielded = TRUE], pend)
    <3>1. PICK new \in LiveStates : /\ new = [l EXCEPT !.yielded = TRUE]
                                    /\ new.status = l.status /\ new.permit = l.permit /\ new.boundaries = l.boundaries
                                    /\ new.output = l.output
      <4>2. PICK x \in LiveStates : x = live[c]
        BY <1>b
      <4>3. /\ [x EXCEPT !.yielded = TRUE] \in LiveStates /\ [x EXCEPT !.yielded = TRUE].output = x.output
            /\ [x EXCEPT !.yielded = TRUE].status = x.status /\ [x EXCEPT !.yielded = TRUE].permit = x.permit
            /\ [x EXCEPT !.yielded = TRUE].boundaries = x.boundaries
        BY DEF LiveStates
      <4>. QED BY <4>2, <4>3
    <3>2. Serve(c, new, pend)
      BY <2>3, <3>1
    <3> HIDE DEF pend
    <3>. QED BY <3>1, <3>2, <1>0, <1>4, <1>a, <1>e, ServeKeeps
  <2>. QED BY <2>1, <2>2, <2>3
<1>5. CASE f.kind = "call"
  <2>1. FinishCell(c, "failed") \/ Serve(c, l, pend)
    BY <1>5, <1>a DEF ReceiveFrame
  <2>2. CASE FinishCell(c, "failed") BY <2>2, <1>0, FinishKeeps
  <2>3. CASE Serve(c, l, pend)
    <3> HIDE DEF pend
    <3>. QED BY <2>3, <1>0, <1>5, <1>a, <1>b, <1>e, ServeKeeps
  <2>. QED BY <2>1, <2>2, <2>3
<1>6. CASE f.kind = "clear"
  <2>1. Serve(c, l, [t EXCEPT !.pending = {p \in t.pending : p.kind # "call"}])
    BY <1>6, <1>a DEF ReceiveFrame
  <2>2. PICK new \in TaskStates : new = [t EXCEPT !.pending = {p \in t.pending : p.kind # "call"}] /\ new.at = "serve"
    <3>1. {p \in t.pending : p.kind # "call"} \in SUBSET [kind : Said, id : Nat]
      BY <1>b DEF TaskStates
    <3>2. PICK P \in SUBSET [kind : Said, id : Nat] : P = {p \in t.pending : p.kind # "call"}
      BY <3>1
    <3>3. [task[c] EXCEPT !.pending = P] \in TaskStates /\ [task[c] EXCEPT !.pending = P].at = task[c].at
      BY <1>b DEF TaskStates
    <3>. QED BY <3>2, <3>3, <1>d
  <2>3. Serve(c, l, new)
    BY <2>1, <2>2
  <2>. QED BY <2>2, <2>3, <1>0, <1>6, <1>a, <1>b, ServeKeeps
<1>7. CASE f.kind = "note"
  <2>1. Serve(c, l, TaskIs(c, "notify", f))
    BY <1>7, <1>a DEF ReceiveFrame
  <2>2. PICK new \in TaskStates : new = TaskIs(c, "notify", f) /\ new.at = "notify" /\ new.frame = f
    <3>1. TaskIs(c, "notify", f) \in TaskStates /\ TaskIs(c, "notify", f).at = "notify" /\ TaskIs(c, "notify", f).frame = f
      BY <1>b, <1>c, TaskChanged
    <3>. QED BY <3>1
  <2>3. Serve(c, l, new)
    BY <2>1, <2>2
  <2>. QED BY <2>2, <2>3, <1>0, <1>7, <1>a, <1>b, ServeKeeps
<1>8. CASE f.kind = "sync"
  <2>1. Serve(c, l, TaskIs(c, "write", f))
    BY <1>8, <1>a DEF ReceiveFrame
  <2>2. PICK new \in TaskStates : new = TaskIs(c, "write", f) /\ new.at = "write" /\ new.frame = f
    <3>1. TaskIs(c, "write", f) \in TaskStates /\ TaskIs(c, "write", f).at = "write" /\ TaskIs(c, "write", f).frame = f
      BY <1>b, <1>c, TaskChanged
    <3>. QED BY <3>1
  <2>3. Serve(c, l, new)
    BY <2>1, <2>2
  <2>. QED BY <2>2, <2>3, <1>0, <1>8, <1>a, <1>b, ServeKeeps
<1>. QED BY <1>1, <1>2, <1>3, <1>4, <1>5, <1>6, <1>7, <1>8, <1>c DEF Said, Kinds

LEMMA CompleteKeeps == ASSUME CellsInv, NEW c \in Cells, NEW p \in task[c].pending, CompleteCall(c, p) PROVE CellsInv'
<1>0. CellsTypeOK /\ Together(c) /\ OutputFlows(c) /\ NotesFlow(c) /\ YieldsFlow(c)
  BY DEF CellsInv
<1>b. live[c] \in LiveStates /\ task[c] \in TaskStates /\ live[c].boundaries \in Nat /\ live[c].permit \in BOOLEAN
  BY <1>0, CellTypes DEF LiveStates
<1>c. p \in Replies /\ task[c].pending \in SUBSET [kind : Said, id : Nat]
  BY <1>b DEF TaskStates, Replies
<1>2. /\ live'[c] = [live[c] EXCEPT !.permit = live[c].permit /\ p.kind # "yield"]
      /\ task'[c] = [at |-> "write", frame |-> p, pending |-> task[c].pending \ {p}]
      /\ guest' = guest /\ toHost' = toHost /\ toGuest' = toGuest /\ collected' = collected
      /\ Heard' = Heard /\ outer' = outer
      /\ \A d \in Cells \ {c} : live'[d] = live[d] /\ task'[d] = task[d]
  BY <1>0 DEF CompleteCall, CellsTypeOK, guestVars, modelVars, Heard
<1>d. PICK b \in BOOLEAN : b = (live[c].permit /\ p.kind # "yield")
  OBVIOUS
<1>3. live'[c] \in LiveStates /\ task'[c] \in TaskStates
  <2>1. live'[c] = [live[c] EXCEPT !.permit = b]
    BY <1>2, <1>d
  <2>2. task[c].pending \ {p} \in SUBSET [kind : Said, id : Nat]
    BY <1>c
  <2>3. [live[c] EXCEPT !.permit = b] \in LiveStates
    BY <1>b DEF LiveStates
  <2>4. [at |-> "write", frame |-> p, pending |-> task[c].pending \ {p}] \in TaskStates
    BY <2>2, <1>c DEF TaskStates
  <2>. QED BY <2>1, <2>3, <2>4, <1>2
<1>4. /\ live'[c].status = live[c].status /\ live'[c].output = live[c].output /\ live'[c].boundaries = live[c].boundaries
      /\ live'[c].permit = b
  <2>1. live'[c] = [live[c] EXCEPT !.permit = b]
    BY <1>2, <1>d
  <2>. QED BY <2>1, <1>b DEF LiveStates
<1>5. task[c].at = "serve" /\ task'[c].at = "write" /\ task'[c].frame = p /\ (p.kind = "yield" => live[c].permit)
  BY <1>2 DEF CompleteCall, Serving
<1>1. CellsTypeOK'
  BY <1>0, <1>3 DEF CompleteCall, CellsTypeOK, guestVars, modelVars
<1>6. Together(c)'
  BY <1>0, <1>2, <1>4, <1>5, <1>c DEF Together, Working
<1>7. OutputFlows(c)' /\ NotesFlow(c)'
  BY <1>0, <1>2, <1>4, <1>5, OutputSame, NotesSame
<1>8. YieldsFlow(c)'
  <2>1. PICK n \in Nat : /\ Counts(toGuest[c], "yield", guest[c].resumed, n)
                         /\ n + One(task[c].at = "write" /\ task[c].frame.kind = "yield") + One(live[c].permit)
                               <= live[c].boundaries
    BY <1>0 DEF YieldsFlow
  <2>2. n + One(task'[c].at = "write" /\ task'[c].frame.kind = "yield") + One(live'[c].permit)
           <= live[c].boundaries
    <3>1. One(task[c].at = "write" /\ task[c].frame.kind = "yield") = 0
      BY <1>5 DEF One
    <3>2. CASE p.kind = "yield"
      <4>1. live[c].permit /\ ~live'[c].permit
        BY <3>2, <1>4, <1>5, <1>d
      <4>2. One(live[c].permit) = 1 /\ One(live'[c].permit) = 0 /\ One(task'[c].at = "write" /\ task'[c].frame.kind = "yield") = 1
        BY <4>1, <1>5, <3>2 DEF One
      <4>. QED BY <4>2, <3>1, <2>1, <1>b
    <3>3. CASE p.kind # "yield"
      <4>1. live'[c].permit = live[c].permit
        BY <3>3, <1>4, <1>d, <1>b
      <4>2. One(live'[c].permit) = One(live[c].permit) /\ One(task'[c].at = "write" /\ task'[c].frame.kind = "yield") = 0
        BY <4>1, <1>5, <3>3 DEF One
      <4>. QED BY <4>2, <3>1, <2>1, <1>b
    <3>. QED BY <3>2, <3>3
  <2>. QED BY <2>1, <2>2, <1>2, <1>4 DEF YieldsFlow
<1>. QED BY <1>1, <1>2, <1>6, <1>7, <1>8, OneCell DEF SameCell

LEMMA WriteKeeps == ASSUME CellsInv, NEW c \in Cells, WriteReply(c) PROVE CellsInv'
<1>0. CellsTypeOK /\ Together(c) /\ OutputFlows(c) /\ NotesFlow(c) /\ YieldsFlow(c) /\ Working(c) /\ task[c].at = "write"
  BY DEF CellsInv, WriteReply, Working
<1>b. task[c] \in TaskStates /\ toGuest[c] \in Seq(Replies) /\ guest[c].resumed \in Nat /\ live[c].boundaries \in Nat
  BY <1>0, CellTypes
<1>a. PICK f \in Replies : f = task[c].frame
  BY <1>0 DEF Together
<1>1. CASE ~Alive(c) /\ FinishCell(c, "failed")
  <2>1. UNCHANGED <<notes, modelVars>>
    BY DEF WriteReply
  <2>. QED BY <1>0, <1>1, <2>1, FinishKeeps
<1>2. CASE /\ toGuest' = [toGuest EXCEPT ![c] = Append(@, task[c].frame)]
           /\ task' = [task EXCEPT ![c] = TaskIs(c, "serve", task[c].frame)]
           /\ UNCHANGED <<live, guest, toHost>>
  <2>1. /\ toGuest'[c] = Append(toGuest[c], f) /\ task'[c] = TaskIs(c, "serve", f)
        /\ live' = live /\ guest' = guest /\ toHost' = toHost /\ collected' = collected /\ Heard' = Heard /\ outer' = outer
        /\ \A d \in Cells \ {c} : task'[d] = task[d] /\ toGuest'[d] = toGuest[d]
    BY <1>0, <1>2, <1>a DEF WriteReply, CellsTypeOK, modelVars, Heard
  <2>2. TaskIs(c, "serve", f) \in TaskStates /\ TaskIs(c, "serve", f).at = "serve"
    BY <1>b, <1>a, TaskChanged
  <2>3. Append(toGuest[c], f) \in Seq(Replies)
    BY <1>b, <1>a
  <2>4. CellsTypeOK'
    BY <1>0, <1>2, <1>a, <2>1, <2>2, <2>3 DEF CellsTypeOK, WriteReply, modelVars
  <2>5. Together(c)'
    BY <1>0, <2>1, <2>2 DEF Together, Working
  <2>6. OutputFlows(c)' /\ NotesFlow(c)'
    BY <1>0, <2>1, <2>2, OutputSame, NotesSame
  <2>7. YieldsFlow(c)'
    <3>1. PICK n \in Nat : /\ Counts(toGuest[c], "yield", guest[c].resumed, n)
                           /\ n + One(f.kind = "yield") + One(live[c].permit) <= live[c].boundaries
      BY <1>0, <1>a DEF YieldsFlow, One
    <3>2. Counts(Append(toGuest[c], f), "yield", guest[c].resumed, n + One(f.kind = "yield")) /\ n + One(f.kind = "yield") \in Nat
      BY <3>1, <1>b, CountsAppend DEF One
    <3>3. n + One(f.kind = "yield") + One(task'[c].at = "write" /\ task'[c].frame.kind = "yield") + One(live[c].permit)
             <= live[c].boundaries
      BY <3>1, <2>1, <2>2, <1>b DEF One
    <3>. QED BY <3>2, <3>3, <2>1 DEF YieldsFlow
  <2>. QED BY <2>1, <2>4, <2>5, <2>6, <2>7, OneCell DEF SameCell
<1>. QED BY <1>1, <1>2 DEF WriteReply

\* One notification more.
LEMMA HeardMore ==
  ASSUME CellsTypeOK, NEW d \in Cells, NEW x \in Cells \X Nat, Heard' = Append(Heard, x), NEW n \in Nat, n = Len(Heard)
  PROVE  /\ Len(Heard') = Len(Heard) + 1 /\ Heard'[Len(Heard) + 1] = x
         /\ \A i \in 1..Len(Heard) : Heard'[i] = Heard[i] /\ HeardOf(d, i)' = HeardOf(d, i)
         /\ Cardinality(HeardOf(d, n + 1)') = NotesSoFar(d) + One(x[1] = d)
         /\ NotesSoFar(d)' = NotesSoFar(d) + One(x[1] = d)
<1>0. Heard \in Seq(Cells \X Nat) /\ Len(Heard) \in Nat /\ NotesSoFar(d) \in Nat
  BY NotesCount
<1>1. /\ Len(Heard') = Len(Heard) + 1 /\ Heard'[Len(Heard) + 1] = x
      /\ \A i \in 1..Len(Heard) : Heard'[i] = Heard[i]
  BY <1>0
<1>2. ASSUME NEW i \in 0..Len(Heard) PROVE {j \in 1..i : Heard'[j][1] = d} = HeardOf(d, i)
  BY <1>0, <1>1 DEF HeardOf
<1>3. {j \in 1..(Len(Heard) + 1) : Heard'[j][1] = d}
        = IF x[1] = d THEN HeardOf(d, Len(Heard)) \union {Len(Heard) + 1} ELSE HeardOf(d, Len(Heard))
  BY <1>0, <1>1 DEF HeardOf
<1>4. IsFiniteSet(HeardOf(d, Len(Heard))) /\ Len(Heard) + 1 \notin HeardOf(d, Len(Heard))
  <2>1. IsFiniteSet(HeardOf(d, n))
    BY HeardFinite
  <2>2. n + 1 \notin HeardOf(d, n)
    BY DEF HeardOf
  <2>. QED BY <2>1, <2>2
<1>5. Cardinality(HeardOf(d, Len(Heard)) \union {Len(Heard) + 1}) = NotesSoFar(d) + 1
  BY <1>4, FS_AddElement DEF NotesSoFar
<1>6. Cardinality({j \in 1..(Len(Heard) + 1) : Heard'[j][1] = d}) = NotesSoFar(d) + One(x[1] = d)
  <2>1. CASE x[1] = d
    <3>1. One(x[1] = d) = 1
      BY <2>1 DEF One
    <3>. QED BY <2>1, <3>1, <1>3, <1>5
  <2>2. CASE x[1] # d
    <3>1. One(x[1] = d) = 0
      BY <2>2 DEF One
    <3>2. Cardinality(HeardOf(d, Len(Heard))) = NotesSoFar(d)
      BY DEF NotesSoFar
    <3>3. {j \in 1..(Len(Heard) + 1) : Heard'[j][1] = d} = HeardOf(d, Len(Heard))
      BY <2>2, <1>3
    <3>4. NotesSoFar(d) + One(x[1] = d) = NotesSoFar(d)
      BY <3>1, <1>0
    <3>. QED BY <3>2, <3>3, <3>4
  <2>. QED BY <2>1, <2>2
<1>7. \A i \in 1..n : HeardOf(d, i)' = HeardOf(d, i)
  BY <1>2 DEF HeardOf
<1>8. HeardOf(d, n + 1)' = {j \in 1..(Len(Heard) + 1) : Heard'[j][1] = d}
  BY DEF HeardOf
<1>9. NotesSoFar(d)' = Cardinality({j \in 1..(Len(Heard) + 1) : Heard'[j][1] = d})
  BY <1>1 DEF HeardOf, NotesSoFar
<1>. QED BY <1>1, <1>6, <1>7, <1>8, <1>9

LEMMA HeardAppend ==
  ASSUME CellsTypeOK, NEW x \in Cells \X Nat, notes' = Append(notes, x), savedNotes' = savedNotes
  PROVE  Heard' = Append(Heard, x)
<1>1. notes \in Seq(Cells \X Nat) /\ savedNotes \in Seq(Cells \X Nat)
  BY DEF CellsTypeOK
<1>. QED BY <1>1 DEF Heard

LEMMA NotifyKeeps == ASSUME CellsInv, NEW c \in Cells, Notify(c) PROVE CellsInv'
<1>0. CellsTypeOK /\ Together(c) /\ OutputFlows(c) /\ NotesFlow(c) /\ YieldsFlow(c) /\ task[c].at = "notify"
  BY DEF CellsInv, Notify
<1>a. PICK f \in Frames : f = task[c].frame
  BY <1>0 DEF Together
<1>b. task[c] \in TaskStates /\ f.item \in Nat /\ f \in Replies
  BY <1>0, CellTypes DEF Frames, Replies
<1> DEFINE x == <<c, f.item>>
<1>c. x \in Cells \X Nat
  BY <1>b
<1>2. /\ task'[c] = TaskIs(c, "serve", f) /\ notes' = Append(notes, x) /\ savedNotes' = savedNotes
      /\ live' = live /\ guest' = guest /\ toHost' = toHost /\ toGuest' = toGuest /\ collected' = collected /\ outer' = outer
      /\ \A d \in Cells \ {c} : task'[d] = task[d]
  BY <1>0, <1>a DEF Notify, CellsTypeOK, modelVars, guestVars
<1>3. TaskIs(c, "serve", f) \in TaskStates /\ TaskIs(c, "serve", f).at = "serve"
  BY <1>b, TaskChanged
<1>4. Append(notes, x) \in Seq(Cells \X Nat)
  BY <1>0, <1>c DEF CellsTypeOK
<1>1. CellsTypeOK'
  BY <1>0, <1>2, <1>3, <1>4, <1>a DEF CellsTypeOK, Notify, modelVars, guestVars
<1>5. Heard' = Append(Heard, x)
  BY <1>0, <1>2, <1>c, HeardAppend
<1>6. ASSUME NEW d \in Cells PROVE Together(d)' /\ OutputFlows(d)' /\ YieldsFlow(d)'
  <2>0. Together(d) /\ OutputFlows(d) /\ YieldsFlow(d)
    BY DEF CellsInv
  <2>1. d = c => task'[d].at = "serve" /\ task[d].at = "notify"
    BY <1>0, <1>2, <1>3
  <2>2. d # c => task'[d] = task[d]
    BY <1>2
  <2>3. OutputFlows(d)' /\ YieldsFlow(d)'
    BY <2>0, <2>1, <2>2, <1>2, OutputSame, YieldsSame
  <2>4. Together(d)'
    BY <2>0, <2>1, <2>2, <1>2 DEF Together, Working
  <2>. QED BY <2>3, <2>4
<1>7. ASSUME NEW d \in Cells PROVE NotesFlow(d)'
  <2>0. NotesFlow(d) /\ NotesSoFar(d) \in Nat /\ Len(Heard) \in Nat
    BY <1>0, NotesCount DEF CellsInv
  <2>n. PICK n \in Nat : n = Len(Heard)
    BY <2>0
  <2>1. /\ Len(Heard') = Len(Heard) + 1 /\ Heard'[Len(Heard) + 1] = x
        /\ \A i \in 1..Len(Heard) : Heard'[i] = Heard[i] /\ HeardOf(d, i)' = HeardOf(d, i)
        /\ Cardinality(HeardOf(d, n + 1)') = NotesSoFar(d) + One(x[1] = d)
        /\ NotesSoFar(d)' = NotesSoFar(d) + One(x[1] = d)
    BY <1>0, <1>5, <1>c, <2>n, HeardMore
  <2>2. d = c => f.item = NotesSoFar(d) + 1 /\ x[1] = d /\ x[2] = f.item
    BY <1>0, <1>a DEF NotesFlow
  <2>3. x[1] = c
    OBVIOUS
  <2>4. ASSUME NEW i \in 1..Len(Heard'), Heard'[i][1] = d PROVE Heard'[i][2] = Cardinality(HeardOf(d, i)')
    <3>1. CASE i \in 1..Len(Heard)
      <4>1. Heard'[i] = Heard[i] /\ HeardOf(d, i)' = HeardOf(d, i)
        BY <2>1, <3>1
      <4>2. Heard[i][1] = d => Heard[i][2] = Cardinality(HeardOf(d, i))
        BY <2>0, <3>1 DEF NotesFlow
      <4>. QED BY <4>1, <4>2, <2>4
    <3>2. CASE i = Len(Heard) + 1
      <4>1. d = c
        BY <2>1, <2>3, <2>4, <3>2
      <4>2. Cardinality(HeardOf(d, i)') = NotesSoFar(d) + 1
        <5>1. i = n + 1 /\ x[1] = d
          BY <4>1, <2>2, <2>n, <3>2
        <5>. QED BY <5>1, <2>1 DEF One
      <4>. QED BY <4>1, <4>2, <2>1, <2>2, <3>2
    <3>. QED BY <2>0, <2>1, <3>1, <3>2
  <2>5. task'[d].at = "notify" => task'[d] = task[d] /\ d # c
    <3>0. task'[c].at = "serve"
      BY <1>2, <1>3
    <3>1. ASSUME task'[d].at = "notify" PROVE d # c
      BY <3>0, <3>1
    <3>. QED BY <3>1, <1>2
  <2>6. NotesSoFar(d)' + One(task'[d].at = "notify") = NotesSoFar(d) + One(task[d].at = "notify")
    <3>1. CASE d = c
      <4>1. task'[d].at = "serve" /\ task[d].at = "notify" /\ x[1] = d
        BY <3>1, <1>0, <1>2, <1>3
      <4>. QED BY <4>1, <2>0, <2>1 DEF One
    <3>2. CASE d # c
      <4>1. task'[d] = task[d] /\ NotesSoFar(d)' = NotesSoFar(d)
        BY <3>2, <1>2, <2>0, <2>1, <2>3 DEF One
      <4>. QED BY <4>1
    <3>. QED BY <3>1, <3>2
  <2>7. task'[d].at = "notify" => task'[d].frame.item = NotesSoFar(d)' + 1
    <3>1. d # c => NotesSoFar(d)' = NotesSoFar(d)
      BY <2>0, <2>1, <2>3 DEF One
    <3>. QED BY <3>1, <2>0, <2>5 DEF NotesFlow
  <2>8. live'[d].status = "new" => NotesSoFar(d)' = 0
    <3>1. d = c => live[d].status = "running"
      BY <1>0 DEF Together, Working
    <3>2. d # c => NotesSoFar(d)' = NotesSoFar(d)
      BY <2>0, <2>1, <2>3 DEF One
    <3>. QED BY <3>1, <3>2, <1>2, <2>0 DEF NotesFlow
  <2>9. Emits(d, "note")' = Emits(d, "note") /\ Alive(d)' = Alive(d)
    BY <1>2 DEF Emits, Alive
  <2>. QED BY <1>2, <2>0, <2>4, <2>6, <2>7, <2>8, <2>9 DEF NotesFlow
<1>. QED BY <1>1, <1>6, <1>7 DEF CellsInv

LEMMA StopKeeps == ASSUME CellsInv, NEW c \in Cells, GuestExited(c) \/ Terminated(c) PROVE CellsInv'
<1>1. Working(c) /\ UNCHANGED <<notes, modelVars>> /\ (FinishCell(c, "failed") \/ FinishCell(c, "terminated"))
  BY DEF GuestExited, Terminated, Serving, ObservesCancel, Working
<1>. QED BY <1>1, FinishKeeps

-----------------------------------------------------------------------------
\* The calls of the model.
LEMMA ExecKeeps == ASSUME CellsInv, NEW c \in Cells, Exec(c) PROVE CellsInv'
<1>0. CellsTypeOK /\ Together(c) /\ OutputFlows(c) /\ NotesFlow(c) /\ YieldsFlow(c) /\ live[c].status = "new"
  BY DEF CellsInv, Exec
<1>b. live[c] \in LiveStates /\ task[c] \in TaskStates /\ guest[c] \in GuestStates
  BY <1>0, CellTypes
<1>1. task[c] = NoTask /\ guest[c] = NoGuest /\ toHost[c] = <<>> /\ toGuest[c] = <<>> /\ collected[c].last # "completed"
  BY <1>0 DEF Together
<1>2. /\ live'[c] = [live[c] EXCEPT !.status = "running"] /\ task'[c] = TaskIs(c, "serve", 0)
      /\ guest'[c] = [guest[c] EXCEPT !.at = "run"] /\ outer' = [at |-> "observe", cell |-> c]
      /\ toHost' = toHost /\ toGuest' = toGuest /\ collected' = collected /\ Heard' = Heard
      /\ \A d \in Cells \ {c} : SameCell(d)
  BY <1>0 DEF Exec, CellsTypeOK, Heard, SameCell
<1>3. /\ live'[c] \in LiveStates /\ live'[c].status = "running" /\ live'[c].output = live[c].output
      /\ live'[c].permit = live[c].permit /\ live'[c].boundaries = live[c].boundaries
  BY <1>2, <1>b DEF LiveStates
<1>4. task'[c] \in TaskStates /\ task'[c].at = "serve"
  BY <1>2, <1>b, TaskChanged
<1>5. /\ guest'[c] \in GuestStates /\ guest'[c].at = "run" /\ guest'[c].items = guest[c].items
      /\ guest'[c].notes = guest[c].notes /\ guest'[c].resumed = guest[c].resumed /\ guest[c].items = 0 /\ guest[c].notes = 0
      /\ guest[c].at = "none"
  <2>1. guest[c].items = 0 /\ guest[c].notes = 0 /\ guest[c].at = "none"
    BY <1>1 DEF NoGuest
  <2>. QED BY <2>1, <1>2, <1>b DEF GuestStates
<1>6. CellsTypeOK'
  BY <1>0, <1>2, <1>3, <1>4, <1>5 DEF CellsTypeOK, Exec
<1>7. Together(c)'
  <2>1. Len(toHost'[c]) = 0
    BY <1>1, <1>2
  <2>. QED BY <1>0, <1>1, <1>2, <1>3, <1>4, <1>5, <2>1 DEF Together, Working
<1>8. OutputFlows(c)'
  <2>1. PICK n \in Nat : /\ Numbers(toHost[c], "output", Len(Out(c)), n) /\ n + One(Emits(c, "output")) <= guest[c].items
    BY <1>0 DEF OutputFlows
  <2>2. Out(c)' = Out(c) /\ Emits(c, "output")' = Emits(c, "output") /\ ~Emits(c, "output")
    BY <1>2, <1>3, <1>5 DEF Out, Emits
  <2>3. n = 0 /\ n + One(Emits(c, "output")') = guest'[c].items /\ n + One(Emits(c, "output")') <= guest'[c].items
    BY <2>1, <2>2, <1>5 DEF One
  <2>. QED BY <1>0, <1>1, <1>2, <1>3, <2>1, <2>2, <2>3 DEF OutputFlows
<1>9. NotesFlow(c)'
  <2>0. NotesSoFar(c) = 0 /\ NotesSoFar(c)' = NotesSoFar(c) /\ \A i : HeardOf(c, i)' = HeardOf(c, i)
    BY <1>0, <1>2 DEF NotesFlow, NotesSoFar, HeardOf
  <2>1. Numbers(<<>>, "note", 0, 0)
    BY CountsEmpty
  <2>2. ~Emits(c, "note")'
    BY <1>5 DEF Emits
  <2>3. NotesSoFar(c)' + One(task'[c].at = "notify") = 0 /\ 0 + One(Emits(c, "note")') = guest'[c].notes
    BY <2>0, <2>2, <1>4, <1>5 DEF One
  <2>. QED BY <1>0, <1>1, <1>2, <1>3, <1>4, <2>0, <2>1, <2>2, <2>3 DEF NotesFlow
<1>10. YieldsFlow(c)'
  <2>1. task[c].at = "none"
    BY <1>1 DEF NoTask
  <2>. QED BY <1>0, <1>2, <1>3, <1>4, <1>5, <2>1, YieldsSame
<1>. QED BY <1>2, <1>6, <1>7, <1>8, <1>9, <1>10, OneCell

LEMMA WaitKeeps == ASSUME CellsInv, NEW c \in Cells, NEW b \in BOOLEAN, Wait(c, b) PROVE CellsInv'
<1>0. CellsTypeOK /\ Together(c) /\ OutputFlows(c) /\ NotesFlow(c) /\ YieldsFlow(c)
  BY DEF CellsInv
<1>b. live[c] \in LiveStates /\ live[c].status \notin {"new", "closed", "dropped"}
  BY <1>0, CellTypes DEF Wait, Uncollected
<1>1. live' = live \/ live' = [live EXCEPT ![c] = [live[c] EXCEPT !.cancel = TRUE]]
  BY DEF Wait
<1>2. /\ live'[c] \in LiveStates /\ live'[c].status = live[c].status /\ live'[c].output = live[c].output
      /\ live'[c].permit = live[c].permit /\ live'[c].boundaries = live[c].boundaries
      /\ live' \in [Cells -> LiveStates] /\ \A d \in Cells \ {c} : live'[d] = live[d]
  <2>1. CASE live' = live BY <2>1, <1>0, <1>b DEF CellsTypeOK
  <2>2. CASE live' = [live EXCEPT ![c] = [live[c] EXCEPT !.cancel = TRUE]]
    <3>1. [live[c] EXCEPT !.cancel = TRUE] \in LiveStates
      BY <1>b DEF LiveStates
    <3>2. live'[c] = [live[c] EXCEPT !.cancel = TRUE]
      BY <2>2, <1>0 DEF CellsTypeOK
    <3>3. live' \in [Cells -> LiveStates] /\ \A d \in Cells \ {c} : live'[d] = live[d]
      BY <2>2, <3>1, <1>0 DEF CellsTypeOK
    <3>. QED BY <3>1, <3>2, <3>3, <1>b DEF LiveStates
  <2>. QED BY <1>1, <2>1, <2>2
<1>3. /\ task' = task /\ guest' = guest /\ toHost' = toHost /\ toGuest' = toGuest /\ collected' = collected /\ Heard' = Heard
      /\ outer'.cell = c /\ outer' \in [at : {"observe", "join"}, cell : Cells]
      /\ notes' = notes /\ savedNotes' = savedNotes
  BY DEF Wait, guestVars, Heard
<1>4. CellsTypeOK'
  BY <1>0, <1>2, <1>3 DEF CellsTypeOK
<1>5. Together(c)'
  BY <1>0, <1>b, <1>2, <1>3 DEF Together, Working
<1>6. OutputFlows(c)' /\ NotesFlow(c)' /\ YieldsFlow(c)'
  BY <1>0, <1>2, <1>3, OutputSame, NotesSame, YieldsSame
<1>. QED BY <1>2, <1>3, <1>4, <1>5, <1>6, OneCell DEF SameCell

LEMMA JoinKeeps == ASSUME CellsInv, Join PROVE CellsInv'
<1>0. CellsTypeOK /\ outer \in [at : {"observe", "join"}, cell : Cells]
  BY DEF CellsInv, CellsTypeOK, Join, NoCall
<1>1. PICK c \in Cells : c = outer.cell
  BY <1>0
<1>2. /\ live' = live /\ task' = task /\ guest' = guest /\ toHost' = toHost /\ toGuest' = toGuest /\ collected' = collected
      /\ Heard' = Heard /\ outer'.cell = outer.cell /\ outer' \in [at : {"observe", "join"}, cell : Cells]
      /\ notes' = notes /\ savedNotes' = savedNotes /\ outer.at # "idle"
  BY <1>0 DEF Join, sessionVars, guestVars, Heard
<1>3. CellsTypeOK'
  BY <1>0, <1>2 DEF CellsTypeOK
<1>4. Together(c) /\ OutputFlows(c) /\ NotesFlow(c) /\ YieldsFlow(c)
  BY DEF CellsInv
<1>5. Together(c)'
  BY <1>1, <1>2, <1>4 DEF Together, Working
<1>6. OutputFlows(c)' /\ NotesFlow(c)' /\ YieldsFlow(c)'
  BY <1>2, <1>4, OutputSame, NotesSame, YieldsSame
<1>. QED BY <1>1, <1>2, <1>3, <1>5, <1>6, OneCell DEF SameCell

LEMMA JoinNothing == ASSUME NEW a \in Seq(Nat) PROVE a \o <<>> = a
<1>. QED OBVIOUS

LEMMA ObserveKeeps == ASSUME CellsInv, Observe PROVE CellsInv'
<1>0. CellsTypeOK /\ outer \in [at : {"observe", "join"}, cell : Cells]
  BY DEF CellsInv, CellsTypeOK, Observe, NoCall
<1>1. PICK c \in Cells : c = outer.cell
  BY <1>0
<1>a. Together(c) /\ OutputFlows(c) /\ NotesFlow(c) /\ YieldsFlow(c)
  BY DEF CellsInv
<1>b. /\ live[c] \in LiveStates /\ collected[c].items \in Seq(Nat) /\ live[c].output \in Seq(Nat) /\ Out(c) \in Seq(Nat)
      /\ live[c].boundaries \in Nat /\ live[c].permit \in BOOLEAN /\ live[c].yielded \in BOOLEAN
  BY <1>0, CellTypes DEF LiveStates
<1>2. /\ live'[c] = Report(c) /\ collected'[c] = [items |-> Out(c), last |-> live[c].status]
      /\ task' = task /\ guest' = guest /\ toHost' = toHost /\ toGuest' = toGuest
      /\ Heard' = Heard /\ outer' = NoCall /\ notes' = notes /\ savedNotes' = savedNotes
      /\ \A d \in Cells \ {c} : live'[d] = live[d] /\ collected'[d] = collected[d]
      /\ live' = [live EXCEPT ![c] = Report(c)]
      /\ collected' = [collected EXCEPT ![c] = [items |-> Out(c), last |-> live[c].status]]
  BY <1>0, <1>1 DEF Observe, CellsTypeOK, guestVars, Heard, Out
<1>3. live[c].status \in {"running", "completed", "failed", "terminated"}
  <2>1. outer.at # "idle"
    BY <1>0
  <2>2. live[c].status \notin {"new", "closed", "dropped"}
    BY <2>1, <1>1, <1>a DEF Together
  <2>. QED BY <2>2, <1>b DEF LiveStates
<1>p. PICK p \in BOOLEAN : p = (live[c].permit \/ live[c].yielded)
  OBVIOUS
<1>n. PICK n \in Nat : n = live[c].boundaries + One(live[c].yielded)
  BY <1>b DEF One
<1>s. PICK st \in {"running", "closed"} : st = IF live[c].status = "running" THEN "running" ELSE "closed"
  OBVIOUS
<1>4. Report(c) = [status |-> st, output |-> <<>>, yielded |-> FALSE, permit |-> p, cancel |-> live[c].cancel, boundaries |-> n]
  BY <1>p, <1>n, <1>s DEF Report, One
<1>5. /\ Report(c) \in LiveStates /\ live'[c].output = <<>> /\ live'[c].permit = p /\ live'[c].boundaries = n
      /\ live'[c].status = st
  BY <1>2, <1>4, <1>b, EmptySeqs DEF LiveStates
<1>6. CellsTypeOK'
  <2>1. [items |-> Out(c), last |-> live[c].status]
          \in [items : Seq(Nat), last : {"none", "running", "completed", "failed", "terminated"}]
    BY <1>3, <1>b
  <2>. QED BY <2>1, <1>0, <1>2, <1>5 DEF CellsTypeOK
<1>7. Together(c)'
  <2>1. outer'.at = "idle"
    BY <1>2 DEF NoCall
  <2>2. live[c].status = "running" <=> st = "running"
    BY <1>s
  <2>3. st # "new" /\ st # "dropped" /\ collected'[c].last = live[c].status
    BY <1>2, <1>s
  <2>. QED BY <1>a, <1>2, <1>3, <1>5, <1>s, <2>1, <2>2, <2>3 DEF Together, Working
<1>8. OutputFlows(c)'
  <2>0. collected'[c].items = Out(c) /\ collected'[c].last = live[c].status /\ live'[c].status # "completed"
    BY <1>2, <1>5
  <2>3. Out(c) \o <<>> = Out(c)
    BY <1>b, JoinNothing
  <2>4. Out(c)' = collected'[c].items \o live'[c].output
    BY DEF Out
  <2>1. Out(c)' = Out(c) /\ collected'[c].items = Out(c) /\ collected'[c].last = live[c].status /\ live'[c].status # "completed"
    BY <2>0, <2>3, <2>4, <1>5
  <2>2. Emits(c, "output")' = Emits(c, "output") /\ Alive(c)' = Alive(c) /\ IsDone(c)' = IsDone(c)
    BY <1>2 DEF Emits, Alive, IsDone
  <2>. QED BY <1>a, <1>2, <2>1, <2>2 DEF OutputFlows
<1>9. NotesFlow(c)'
  <2>1. live'[c].status # "new"
    BY <1>5
  <2>. QED BY <1>a, <1>2, <2>1, NotesSame
<1>10. YieldsFlow(c)'
  <2>1. PICK t \in Nat : /\ Counts(toGuest[c], "yield", guest[c].resumed, t)
                         /\ t + One(task[c].at = "write" /\ task[c].frame.kind = "yield") + One(live[c].permit)
                               <= live[c].boundaries
    BY <1>a DEF YieldsFlow
  <2>2. One(p) <= One(live[c].permit) + One(live[c].yielded) /\ One(p) \in Nat
    BY <1>b, <1>p DEF One
  <2>3. t + One(task[c].at = "write" /\ task[c].frame.kind = "yield") + One(p) <= n
    <3>1. One(live[c].permit) \in Nat /\ One(live[c].yielded) \in Nat
          /\ One(task[c].at = "write" /\ task[c].frame.kind = "yield") \in Nat
      BY DEF One
    <3>2. PICK x \in Nat, y \in Nat, z \in Nat, w \in Nat :
             /\ x = One(live[c].permit) /\ y = One(live[c].yielded) /\ w = One(p)
             /\ z = One(task[c].at = "write" /\ task[c].frame.kind = "yield")
      BY <2>2, <3>1
    <3>3. t + z + x <= live[c].boundaries /\ w <= x + y /\ n = live[c].boundaries + y
      BY <2>1, <2>2, <3>2, <1>n
    <3>4. t + z + w <= n
      BY <3>3, <1>b
    <3>. QED BY <3>2, <3>4
  <2>. QED BY <2>1, <2>3, <1>2, <1>5 DEF YieldsFlow
<1>11. outer'.at = "idle"
  BY <1>2 DEF NoCall
<1>. QED BY <1>2, <1>6, <1>7, <1>8, <1>9, <1>10, <1>11, OneCell DEF SameCell

LEMMA MoveHead ==
  ASSUME NEW S, NEW a \in Seq(S), NEW b \in Seq(S), b # <<>>
  PROVE  Append(a, Head(b)) \o Tail(b) = a \o b /\ Append(a, Head(b)) \in Seq(S) /\ Tail(b) \in Seq(S)
<1>. QED OBVIOUS

LEMMA SaveKeeps == ASSUME CellsInv, SaveNotification PROVE CellsInv'
<1>0. CellsTypeOK /\ notes \in Seq(Cells \X Nat) /\ savedNotes \in Seq(Cells \X Nat) /\ notes # <<>>
  BY DEF CellsInv, CellsTypeOK, SaveNotification
<1>1. /\ Heard' = Heard /\ notes' \in Seq(Cells \X Nat) /\ savedNotes' \in Seq(Cells \X Nat)
      /\ live' = live /\ task' = task /\ guest' = guest /\ toHost' = toHost /\ toGuest' = toGuest /\ collected' = collected
      /\ outer' = outer
  <2>1. notes' = Tail(notes) /\ savedNotes' = Append(savedNotes, Head(notes))
    BY DEF SaveNotification
  <2>2. /\ Append(savedNotes, Head(notes)) \o Tail(notes) = savedNotes \o notes
        /\ Append(savedNotes, Head(notes)) \in Seq(Cells \X Nat) /\ Tail(notes) \in Seq(Cells \X Nat)
    BY <1>0, MoveHead
  <2>3. Heard' = savedNotes' \o notes' /\ Heard = savedNotes \o notes
    BY DEF Heard
  <2>. QED BY <2>1, <2>2, <2>3 DEF SaveNotification, guestVars
<1>2. CellsTypeOK'
  BY <1>0, <1>1 DEF CellsTypeOK
<1>3. ASSUME NEW d \in Cells PROVE Together(d)' /\ OutputFlows(d)' /\ NotesFlow(d)' /\ YieldsFlow(d)'
  <2>1. Together(d) /\ OutputFlows(d) /\ NotesFlow(d) /\ YieldsFlow(d)
    BY DEF CellsInv
  <2>2. Together(d)'
    BY <1>1, <2>1 DEF Together, Working
  <2>. QED BY <1>1, <2>1, <2>2, OutputSame, NotesSame, YieldsSame
<1>. QED BY <1>2, <1>3 DEF CellsInv

LEMMA DropKeeps == ASSUME CellsInv, DropSession PROVE CellsInv'
<1>0. CellsTypeOK
  BY DEF CellsInv
<1>1. /\ collected' = collected /\ Heard' = Heard /\ outer' = NoCall /\ notes' = notes /\ savedNotes' = savedNotes
      /\ live' = [c \in Cells |-> [live[c] EXCEPT !.status = "dropped"]]
      /\ task' = [c \in Cells |-> TaskEnded] /\ guest' = [c \in Cells |-> Gone(c)]
      /\ toHost' = [c \in Cells |-> <<>>] /\ toGuest' = [c \in Cells |-> <<>>]
  BY DEF DropSession, Heard
<1>2. \A c \in Cells : [live[c] EXCEPT !.status = "dropped"] \in LiveStates
  BY <1>0, CellTypes DEF LiveStates
<1>3. CellsTypeOK'
  BY <1>0, <1>1, <1>2, GoneTyped, EmptySeqs DEF CellsTypeOK
<1>4. ASSUME NEW d \in Cells PROVE Together(d)' /\ OutputFlows(d)' /\ NotesFlow(d)' /\ YieldsFlow(d)'
  <2>0. Together(d) /\ OutputFlows(d) /\ NotesFlow(d) /\ YieldsFlow(d)
    BY DEF CellsInv
  <2>b. /\ live[d] \in LiveStates /\ guest[d] \in GuestStates /\ toHost[d] \in Seq(Frames) /\ toGuest[d] \in Seq(Replies)
        /\ Len(Out(d)) \in Nat /\ guest[d].items \in Nat /\ guest[d].resumed \in Nat /\ live[d].boundaries \in Nat
        /\ NotesSoFar(d) \in Nat
    BY <1>0, CellTypes, NotesCount
  <2>1. /\ live'[d] = [live[d] EXCEPT !.status = "dropped"] /\ task'[d] = TaskEnded /\ guest'[d] = Gone(d)
        /\ toHost'[d] = <<>> /\ toGuest'[d] = <<>> /\ collected'[d] = collected[d]
    BY <1>1
  <2>2. /\ live'[d].status = "dropped" /\ live'[d].output = live[d].output /\ live'[d].permit = live[d].permit
        /\ live'[d].boundaries = live[d].boundaries
    BY <2>1, <2>b DEF LiveStates
  <2>3. /\ guest'[d].at = "exited" /\ guest'[d].items = guest[d].items /\ guest'[d].notes = guest[d].notes
        /\ guest'[d].resumed = guest[d].resumed
    BY <2>1, <2>b DEF GuestStates, Gone
  <2>4. task'[d].at = "ended" /\ outer'.at = "idle" /\ Len(<<>>) = 0
    BY <2>1, <1>1 DEF TaskEnded, NoCall
  <2>5. Together(d)'
    BY <2>0, <2>1, <2>2, <2>3, <2>4 DEF Together, Working
  <2>6. OutputFlows(d)'
    <3>1. PICK t \in Nat : /\ Numbers(toHost[d], "output", Len(Out(d)), t)
                           /\ t + One(Emits(d, "output")) <= guest[d].items
      BY <2>0 DEF OutputFlows
    <3>2. Out(d)' = Out(d)
      BY <2>1, <2>2 DEF Out
    <3>3. ~Emits(d, "output")' /\ ~Alive(d)' /\ ~IsDone(d)'
      BY <2>1, <2>3, <2>4 DEF Emits, Alive, IsDone
    <3>4. Len(Out(d)) <= t
      BY <3>1, <2>b, CountsRise
    <3>5. Len(Out(d)) + One(Emits(d, "output")') <= guest[d].items
      BY <3>1, <3>3, <3>4, <2>b DEF One
    <3>6. Numbers(<<>>, "output", Len(Out(d)), Len(Out(d)))
      BY <2>b, CountsEmpty
    <3>. QED BY <2>0, <2>b, <2>1, <2>2, <2>3, <3>2, <3>3, <3>5, <3>6 DEF OutputFlows
  <2>7. NotesFlow(d)'
    <3>1. NotesSoFar(d)' = NotesSoFar(d) /\ \A i : HeardOf(d, i)' = HeardOf(d, i)
      BY <1>1 DEF NotesSoFar, HeardOf
    <3>2. ~Emits(d, "note")' /\ ~Alive(d)'
      BY <2>3 DEF Emits, Alive
    <3>3. NotesSoFar(d) + One(task'[d].at = "notify") \in Nat
      BY <2>b DEF One
    <3>4. Numbers(<<>>, "note", NotesSoFar(d) + One(task'[d].at = "notify"), NotesSoFar(d) + One(task'[d].at = "notify"))
      BY <3>3, CountsEmpty
    <3>. QED BY <1>1, <2>0, <2>1, <2>2, <2>4, <3>1, <3>2, <3>3, <3>4 DEF NotesFlow
  <2>8. YieldsFlow(d)'
    <3>1. PICK t \in Nat : /\ Counts(toGuest[d], "yield", guest[d].resumed, t)
                           /\ t + One(task[d].at = "write" /\ task[d].frame.kind = "yield") + One(live[d].permit)
                                 <= live[d].boundaries
      BY <2>0 DEF YieldsFlow
    <3>2. guest[d].resumed <= t
      BY <3>1, <2>b, CountsRise
    <3>3. guest[d].resumed + One(task'[d].at = "write" /\ task'[d].frame.kind = "yield") + One(live[d].permit)
             <= live[d].boundaries
      BY <3>1, <3>2, <2>b, <2>4 DEF One
    <3>4. Counts(<<>>, "yield", guest[d].resumed, guest[d].resumed)
      BY <2>b, CountsEmpty
    <3>. QED BY <3>3, <3>4, <2>b, <2>1, <2>2, <2>3 DEF YieldsFlow
  <2>. QED BY <2>5, <2>6, <2>7, <2>8
<1>. QED BY <1>3, <1>4 DEF CellsInv

LEMMA CellsStart == CellsInit => CellsInv
<1> SUFFICES ASSUME CellsInit PROVE CellsInv
  OBVIOUS
<1>0. CellsTypeOK
  BY StartTyped
<1>1. ASSUME NEW c \in Cells PROVE Together(c) /\ OutputFlows(c) /\ NotesFlow(c) /\ YieldsFlow(c)
  <2>1. /\ live[c] = SeedLive /\ task[c] = NoTask /\ guest[c] = NoGuest /\ toHost[c] = <<>> /\ toGuest[c] = <<>>
        /\ collected[c] = [items |-> <<>>, last |-> "none"] /\ outer = NoCall /\ notes = <<>> /\ savedNotes = <<>>
    BY DEF CellsInit, SeedLive
  <2>2. /\ live[c].status = "new" /\ live[c].output = <<>> /\ live[c].permit = FALSE /\ live[c].boundaries = 0
        /\ task[c].at = "none" /\ guest[c].at = "none" /\ guest[c].items = 0 /\ guest[c].notes = 0 /\ guest[c].resumed = 0
        /\ collected[c].items = <<>> /\ collected[c].last = "none" /\ outer.at = "idle" /\ Len(<<>>) = 0
    BY <2>1 DEF SeedLive, NoTask, NoGuest, NoCall
  <2>3. Together(c)
    BY <2>1, <2>2 DEF Together, Working
  <2>4. Out(c) = <<>> /\ Heard = <<>>
    <3>1. <<>> \o <<>> = <<>>
      OBVIOUS
    <3>. QED BY <2>1, <2>2, <3>1 DEF Out, Heard
  <2>5. HeardOf(c, 0) = {} /\ NotesSoFar(c) = 0
    <3>1. HeardOf(c, 0) = {}
      BY DEF HeardOf
    <3>2. Cardinality({}) = 0
      BY FS_EmptySet
    <3>. QED BY <3>1, <3>2, <2>2, <2>4 DEF NotesSoFar
  <2>6. Numbers(<<>>, "output", 0, 0) /\ Numbers(<<>>, "note", 0, 0) /\ Counts(<<>>, "yield", 0, 0)
    BY CountsEmpty
  <2>7. OutputFlows(c)
    BY <2>1, <2>2, <2>4, <2>6 DEF OutputFlows, Emits, Alive, IsDone, One
  <2>8. NotesFlow(c)
    <3>1. NotesSoFar(c) + One(task[c].at = "notify") = 0 /\ ~Alive(c) /\ ~Emits(c, "note")
      BY <2>2, <2>5 DEF One, Alive, Emits
    <3>. QED BY <2>1, <2>2, <2>4, <2>5, <2>6, <3>1 DEF NotesFlow
  <2>9. YieldsFlow(c)
    BY <2>1, <2>2, <2>6 DEF YieldsFlow, One
  <2>. QED BY <2>3, <2>7, <2>8, <2>9
<1>. QED BY <1>0, <1>1 DEF CellsInv

LEMMA CellsStep == CellsInv /\ [CellsNext]_cellVars => CellsInv'
<1> SUFFICES ASSUME CellsInv, [CellsNext]_cellVars PROVE CellsInv'
  OBVIOUS
<1>1. ASSUME NEW c \in Cells, GuestStep(c) PROVE CellsInv'
  BY <1>1, SayKeeps, EmitKeeps, HearKeeps, GuestDiesKeeps DEF GuestStep, Said
<1>2. ASSUME NEW c \in Cells, TaskStep(c) PROVE CellsInv'
  BY <1>2, ReceiveKeeps, CompleteKeeps, WriteKeeps, NotifyKeeps, StopKeeps DEF TaskStep
<1>3. ASSUME NEW c \in Cells, Exec(c) \/ \E b \in BOOLEAN : Wait(c, b) PROVE CellsInv'
  BY <1>3, ExecKeeps, WaitKeeps
<1>4. CASE Join \/ Observe \/ SaveNotification \/ DropSession
  BY <1>4, JoinKeeps, ObserveKeeps, SaveKeeps, DropKeeps
<1>5. CASE UNCHANGED cellVars
  <2>1. /\ Heard' = Heard /\ notes' = notes /\ savedNotes' = savedNotes
        /\ live' = live /\ task' = task /\ guest' = guest /\ toHost' = toHost /\ toGuest' = toGuest /\ collected' = collected
        /\ outer' = outer
    BY <1>5 DEF cellVars, sessionVars, guestVars, modelVars, Heard
  <2>2. CellsTypeOK'
    BY <2>1 DEF CellsInv, CellsTypeOK
  <2>3. ASSUME NEW d \in Cells PROVE Together(d)' /\ OutputFlows(d)' /\ NotesFlow(d)' /\ YieldsFlow(d)'
    <3>1. Together(d) /\ OutputFlows(d) /\ NotesFlow(d) /\ YieldsFlow(d)
      BY DEF CellsInv
    <3>2. Together(d)'
      BY <2>1, <3>1 DEF Together, Working
    <3>. QED BY <2>1, <3>1, <3>2, OutputSame, NotesSame, YieldsSame
  <2>. QED BY <2>2, <2>3 DEF CellsInv
<1>. QED BY <1>1, <1>2, <1>3, <1>4, <1>5 DEF CellsNext

LEMMA CellsInvMeans == CellsInv => ScriptReportsAreExact
<1> SUFFICES ASSUME CellsInv, NEW c \in Cells
             PROVE  LET got == collected[c].items  all == got \o live[c].output IN
                    /\ all = [i \in 1..Len(all) |-> i] /\ Len(all) <= guest[c].items
                    /\ collected[c].last = "completed" => Len(got) = guest[c].items
                    /\ \A i \in 1..Len(Heard) : Heard[i][1] = c => Heard[i][2] = Cardinality(HeardOf(c, i))
                    /\ guest[c].resumed <= live[c].boundaries
  BY DEF ScriptReportsAreExact
<1>0. CellsTypeOK /\ OutputFlows(c) /\ NotesFlow(c) /\ YieldsFlow(c)
  BY DEF CellsInv
<1>b. /\ Out(c) \in Seq(Nat) /\ Len(Out(c)) \in Nat /\ toHost[c] \in Seq(Frames) /\ toGuest[c] \in Seq(Replies)
      /\ guest[c].items \in Nat /\ guest[c].resumed \in Nat /\ live[c].boundaries \in Nat
  BY <1>0, CellTypes
<1>1. Out(c) = [i \in 1..Len(Out(c)) |-> i]
  <2>1. \A i \in 1..Len(Out(c)) : Out(c)[i] = i
    BY <1>0 DEF OutputFlows
  <2>2. Out(c) = [i \in 1..Len(Out(c)) |-> Out(c)[i]]
    BY <1>b
  <2>. QED BY <2>1, <2>2
<1>2. Len(Out(c)) <= guest[c].items
  <2>1. PICK t \in Nat : Numbers(toHost[c], "output", Len(Out(c)), t) /\ t + One(Emits(c, "output")) <= guest[c].items
    BY <1>0 DEF OutputFlows
  <2>2. Len(Out(c)) <= t
    BY <2>1, <1>b, CountsRise
  <2>. QED BY <2>1, <2>2, <1>b DEF One
<1>3. guest[c].resumed <= live[c].boundaries
  <2>1. PICK t \in Nat : /\ Counts(toGuest[c], "yield", guest[c].resumed, t)
                         /\ t + One(task[c].at = "write" /\ task[c].frame.kind = "yield") + One(live[c].permit)
                               <= live[c].boundaries
    BY <1>0 DEF YieldsFlow
  <2>2. guest[c].resumed <= t
    BY <2>1, <1>b, CountsRise
  <2>. QED BY <2>1, <2>2, <1>b DEF One
<1>. QED BY <1>0, <1>1, <1>2, <1>3 DEF OutputFlows, NotesFlow, Out

\* The state of cells, tasks, guests and their pipes keeps its types, for any number of
\* cells and any limits (live.rs and live/process.rs of code-mode).
THEOREM CellsTypesCorrect == CellsSpec => []CellsTypeOK
<1>1. CellsInv => CellsTypeOK
  BY DEF CellsInv
<1>. QED BY <1>1, CellsStart, CellsStep, PTL DEF CellsSpec

\* The reports of a script divide its output, the report of a completed script has the
\* rest, notifications arrive in order, and a script goes on from a yield only for a report
\* of one, for any number of cells and any capacity of pipes and channels (live.rs and
\* live/process.rs of code-mode).
THEOREM ScriptReportsStayExact == CellsSpec => []ScriptReportsAreExact
<1>. QED BY CellsStart, CellsStep, CellsInvMeans, PTL DEF CellsSpec

-----------------------------------------------------------------------------
(***************************************************************************)
(* FileTools                                                               *)
(*                                                                         *)
(* A mutation of the patch takes effect once, because it leaves a record   *)
(* before it has an effect and is refused by a supervisor that lost its    *)
(* records.  One of an editor takes effect whenever the content it is made *)
(* for is there, because its condition is part of it.                      *)
(***************************************************************************)
Applied == {mutations[k].op : k \in 1..Len(mutations)}

\* What a file may hold, as opposed to a condition that always holds.
Real(e) == e # Anything

\* The i-th mutation of the k-th hunk.
Size(k) == IF Hunks[k].does = "move" THEN 2 ELSE 1
Number(k, i) == OpsBefore(k) + i - 1
Effect(k, i) == IF Hunks[k].does = "delete" \/ i = 2 THEN "remove" ELSE "write"
Target(k, i) == IF Hunks[k].does = "move" /\ i = 1 THEN Hunks[k].to ELSE Hunks[k].from

IsPart(r, k, i) ==
    /\ r.op = DerivedId(Number(k, i)) /\ r.does = Effect(k, i) /\ r.path = Target(k, i)
    /\ r.expects = Anything
    /\ r.data = IF r.does = "remove" THEN Absent ELSE Derived(r.op, r.data.base)
OfPatch(r) == \E k \in 1..Len(Hunks) : \E i \in 1..Size(k) : IsPart(r, k, i)

\* An edit is conditioned on what it was derived from.
OfEdit(c, r) == r = EditRequest(c, r.expects, r.expects) /\ Real(r.expects)

Recorded(op) == \E r \in records : r.req.op = op
PatchRecorded == \A n \in Nat : DerivedId(n) \in Applied => Recorded(DerivedId(n))
Current(g) == g \in 0..generation /\ (g = generation => PatchRecorded)

\* How many mutations of the patch were acknowledged, and how many may have been sent.
Planned == client[Patcher].at \in {"saved", "sent", "stepped"}
Acked == IF client[Patcher].at = "begin" THEN 0
         ELSE IF Planned THEN Progress.applied ELSE client[Patcher].applied
Asked == IF client[Patcher].at = "begin" THEN 0
         ELSE IF Planned THEN (IF Progress.pending = <<>> THEN Acked ELSE Acked + 1)
         ELSE IF client[Patcher].result = "ok" THEN Acked ELSE Acked + 1

RequestOK(r) == \/ \E c \in Editors : OfEdit(c, r)
                \/ OfPatch(r) /\ r.op[2] < Asked /\ Current(r.generation)

InFlight == {call.req : call \in net} \cup (IF serving.stage = "none" THEN {} ELSE {serving.req})
AskedBy(c) == {r \in InFlight : r.op = EditOp(c)}
              \cup (IF client[c].at \in {"saved", "sent"} THEN {client[c].plan} ELSE {})

FilesOK ==
    /\ file = [p \in Paths |-> file[p]]
    /\ client = [c \in Editors \cup {Patcher} |-> client[c]]
    /\ \A p \in Paths : Real(file[p])
    /\ generation \in Nat /\ outside \in Nat

MutationOK(m) ==
    /\ Real(m.replaced)
    /\ \/ \E c \in Editors : m.op = EditOp(c) /\ m.does = "write" /\ m.replaced = m.data.base
       \/ \E k \in 1..Len(Hunks) : \E i \in 1..Size(k) :
             m.op = DerivedId(Number(k, i)) /\ m.does = Effect(k, i) /\ m.path = Target(k, i)
HistoryOK ==
    /\ mutations \in Seq(Range(mutations))
    /\ \A k \in 1..Len(mutations) : MutationOK(mutations[k])

RecordsOK ==
    /\ \A r \in records : r.result \in {"lost", "failed", "ok"} /\ (r.result = "ok" => r.req.op \in Applied)
    /\ \A r \in replies : r.result = "ok" => r.op \in Applied

Served ==
    /\ serving = [stage |-> serving.stage, req |-> serving.req, try |-> serving.try]
    /\ serving.stage \in {"locked", "checked", "half", "applied"}
    /\ Fenced(serving.req) => Recorded(serving.req.op)
    /\ Fenced(serving.req) /\ serving.stage \in {"locked", "checked"} => serving.req.op \notin Applied
    /\ serving.stage = "checked" /\ serving.req.does # "remove" => MayWrite(serving.req)
    /\ serving.stage \in {"half", "applied"} => serving.req.op \in Applied
    /\ serving.stage = "half" => InPlace(serving.req)
ServingOK == serving = Nobody \/ Served

EditorOK(c) ==
    /\ client[c].at \in {"begin", "reading", "saved", "sent", "answered"}
    /\ client[c].at = "reading" => Real(client[c].seen)
    /\ \A r \in AskedBy(c) : OfEdit(c, r)

\* The plan of the patch: the hunk it is at, and its mutations once they are staged.
Staged(p) ==
    /\ p.hunk <= Len(Hunks) /\ p.next <= Size(p.hunk)
    /\ p.pending = IF Size(p.hunk) = 1 THEN <<p.pending[1]>> ELSE <<p.pending[1], p.pending[2]>>
    /\ \A i \in 1..Size(p.hunk) : IsPart(p.pending[i], p.hunk, i) /\ p.pending[i].generation = p.generation
PlanOK(p) ==
    /\ p = [hunk |-> p.hunk, applied |-> p.applied, pending |-> p.pending, next |-> p.next,
            generation |-> p.generation]
    /\ p.hunk \in 1..Len(Hunks) + 1 /\ p.next \in {1, 2}
    /\ p.applied = Number(p.hunk, p.next)
    /\ IF p.pending = <<>> THEN p.next = 1 ELSE Staged(p)
WorkOK(p, w) ==
    /\ PlanOK(w) /\ w.generation = p.generation
    /\ \/ w.applied = p.applied /\ p.pending = <<>>
       \/ w.applied = p.applied + 1 /\ p.pending # <<>> /\ DerivedId(p.applied) \in Applied

PatcherOK ==
    LET p == client[Patcher] IN
    /\ p.at \in {"begin", "saved", "sent", "stepped", "answered"}
    /\ Planned => PlanOK(p.plan) /\ Current(p.plan.generation)
    /\ p.at = "sent" => p.plan.pending # <<>>
    /\ p.at = "stepped" => WorkOK(p.plan, p.work)
    /\ p.at = "answered" => /\ p.applied \in Nat /\ p.result \in {"ok", "failed"}
                            /\ p.result = "ok" => p.applied = AllOps
PatchOrder ==
    /\ Cardinality(PatchDone) \in Acked..Asked
    /\ \A k \in PatchDone : mutations[k].op = DerivedId(Cardinality({j \in PatchDone : j < k}))
    /\ \A i \in Nat : DerivedId(i) \in Applied <=> i < Cardinality(PatchDone)

\* The inductive invariant.
FilesInv ==
    /\ FilesOK /\ HistoryOK /\ RecordsOK /\ ServingOK /\ PatcherOK /\ PatchOrder
    /\ \A r \in InFlight : RequestOK(r)
    /\ \A c \in Editors : EditorOK(c)

-----------------------------------------------------------------------------
\* Numbers of mutations, and the history.
LEMMA OpsBeforeType == ASSUME NEW h \in Nat \ {0} PROVE OpsBefore(h) \in Nat
<1>1. IsFiniteSet(1..h - 1)
  BY FS_Interval
<1>2. IsFiniteSet(MovesBefore(h))
  BY <1>1, FS_Subset DEF MovesBefore
<1> QED BY <1>2, FS_CardinalityType DEF OpsBefore

LEMMA OpsBeforeFirst == OpsBefore(1) = 0
<1>1. MovesBefore(1) = {}
  BY DEF MovesBefore
<1> QED BY <1>1, FS_EmptySet DEF OpsBefore

LEMMA OpsBeforeNext ==
  ASSUME NEW h \in Nat \ {0} PROVE OpsBefore(h + 1) = OpsBefore(h) + Size(h)
<1>1. IsFiniteSet(1..h - 1)
  BY FS_Interval
<1>2. IsFiniteSet(MovesBefore(h)) /\ h \notin MovesBefore(h)
  BY <1>1, FS_Subset DEF MovesBefore
<1>3. Cardinality(MovesBefore(h)) \in Nat
  BY <1>2, FS_CardinalityType
<1>4. CASE Hunks[h].does = "move"
  <2>1. MovesBefore(h + 1) = MovesBefore(h) \cup {h}
    BY <1>4 DEF MovesBefore
  <2>2. Cardinality(MovesBefore(h + 1)) = Cardinality(MovesBefore(h)) + 1
    BY <2>1, <1>2, FS_AddElement
  <2> QED BY <2>2, <1>3, <1>4 DEF OpsBefore, Size
<1>5. CASE Hunks[h].does # "move"
  <2>1. MovesBefore(h + 1) = MovesBefore(h)
    BY <1>5 DEF MovesBefore
  <2> QED BY <2>1, <1>3, <1>5 DEF OpsBefore, Size
<1> QED BY <1>4, <1>5

LEMMA AppendToHistory ==
  ASSUME NEW s, NEW e, s \in Seq(Range(s))
  PROVE  /\ Append(s, e) \in Seq(Range(Append(s, e)))
         /\ Len(s) \in Nat /\ Len(Append(s, e)) = Len(s) + 1
         /\ \A k \in 1..Len(s) : Append(s, e)[k] = s[k]
         /\ Append(s, e)[Len(s) + 1] = e
<1> DEFINE S == Range(s) \cup {e}
           t == Append(s, e)
<1>1. s \in Seq(S) /\ e \in S
  OBVIOUS
<1>2. t \in Seq(S) /\ Len(s) \in Nat /\ Len(t) = Len(s) + 1 /\ DOMAIN t = 1..Len(t)
  BY <1>1
<1>3. \A k \in 1..Len(s) : t[k] = s[k]
  BY <1>1
<1>4. t[Len(s) + 1] = e
  BY <1>1
<1>5. \A k \in 1..Len(t) : t[k] \in Range(t)
  BY <1>2 DEF Range
<1>6. t \in Seq(Range(t))
  BY <1>2, <1>5
<1> QED BY <1>2, <1>3, <1>4, <1>6

\* Everything that gets into a file is a content.
LEMMA Contents ==
  /\ Real(Absent)
  /\ \A p : Real(Original(p))
  /\ \A n : Real(Foreign(n))
  /\ \A op : Real(Torn(op))
  /\ \A op, b : Real(Derived(op, b))
<1> QED BY DEF Real, Anything, Absent, Original, Foreign, Derived, Torn

\* How much of the patch was asked for.
LEMMA PatchCounts ==
  ASSUME FilesInv PROVE Acked \in Nat /\ Asked \in {Acked, Acked + 1}
<1> USE DEF FilesInv, PatcherOK, Acked, Asked
<1>1. CASE Planned
  <2>1. PlanOK(Progress)
    BY <1>1 DEF Progress
  <2>2. OpsBefore(Progress.hunk) \in Nat
    BY <2>1, OpsBeforeType, FileAssumption DEF PlanOK
  <2>3. Progress.applied \in Nat
    BY <2>1, <2>2 DEF PlanOK, Number
  <2> QED BY <1>1, <2>3 DEF Planned
<1>2. CASE ~Planned
  BY <1>2 DEF Planned
<1> QED BY <1>1, <1>2

LEMMA InitFiles == ASSUME FilesInit PROVE FilesInv
<1> USE DEF FilesInit
<1>1. Applied = {} /\ PatchDone = {} /\ InFlight = {}
  BY DEF Applied, PatchDone, InFlight, Nobody
<1>2. FilesOK
  BY FileAssumption, Contents DEF FilesOK
<1>3. HistoryOK /\ RecordsOK /\ ServingOK
  BY DEF HistoryOK, RecordsOK, ServingOK
<1>4. client[Patcher].at = "begin"
  OBVIOUS
<1>5. PatcherOK
  BY <1>4 DEF PatcherOK, Planned
<1>6. PatchOrder
  BY <1>1, <1>4, FS_EmptySet DEF PatchOrder, Acked, Asked
<1>7. \A c \in Editors : EditorOK(c)
  BY <1>1 DEF EditorOK, AskedBy
<1> QED BY <1>1, <1>2, <1>3, <1>5, <1>6, <1>7 DEF FilesInv

\* A step of the supervisor or of another process that applies no mutation: what was
\* recorded stays so in its generation.
Rewrites == \E p \in Paths : \E w : file' = [file EXCEPT ![p] = w] /\ Real(w)
Quiet ==
    /\ UNCHANGED <<mutations, client>>
    /\ outside' \in Nat
    /\ InFlight' \subseteq InFlight
    /\ \/ generation' = generation /\ \A op : Recorded(op) => Recorded(op)'
       \/ generation' = generation + 1
    /\ UNCHANGED file \/ Rewrites

\* An edit is one in every state.
LEMMA EditsStay ==
  ASSUME NEW c, NEW r PROVE OfEdit(c, r)' <=> OfEdit(c, r)
<1> QED BY DEF OfEdit, EditRequest, Real

LEMMA QuietRequests ==
  ASSUME FilesInv, Quiet
  PROVE  /\ \A g : Current(g) => Current(g)'
         /\ \A r \in InFlight' : RequestOK(r)'
<1>1. Applied' = Applied /\ Asked' = Asked
  BY DEF Quiet, Applied, Asked, Acked, Planned, Progress
<1>2. ASSUME NEW g, Current(g) PROVE Current(g)'
  BY <1>1, <1>2 DEF Quiet, Current, PatchRecorded, FilesInv, FilesOK
<1>3. ASSUME NEW r \in InFlight' PROVE RequestOK(r)'
  <2>1. RequestOK(r)
    BY <1>3 DEF Quiet, FilesInv
  <2>2. CASE \E c \in Editors : OfEdit(c, r)
    BY <2>2, EditsStay DEF RequestOK
  <2>3. CASE OfPatch(r) /\ r.op[2] < Asked /\ Current(r.generation)
    BY <2>3, <1>1, <1>2 DEF RequestOK, OfPatch, IsPart
  <2> QED BY <2>1, <2>2, <2>3 DEF RequestOK
<1> QED BY <1>2, <1>3

LEMMA QuietFrame ==
  ASSUME FilesInv, Quiet
  PROVE  /\ FilesOK' /\ HistoryOK' /\ PatcherOK' /\ PatchOrder'
         /\ \A r \in InFlight' : RequestOK(r)'
         /\ \A c \in Editors : EditorOK(c)'
<1>1. Applied' = Applied /\ PatchDone' = PatchDone /\ Acked' = Acked /\ Asked' = Asked
  BY DEF Quiet, Applied, PatchDone, Asked, Acked, Planned, Progress
<1>2. FilesOK'
  <2>1. \A p \in Paths : Real(file'[p])
    <3>1. CASE UNCHANGED file
      BY <3>1 DEF FilesInv, FilesOK
    <3>2. CASE Rewrites
      BY <3>2 DEF Rewrites, FilesInv, FilesOK
    <3> QED BY <3>1, <3>2 DEF Quiet
  <2>2. file' = [p \in Paths |-> file'[p]]
    BY DEF Quiet, Rewrites, FilesInv, FilesOK
  <2> QED BY <2>1, <2>2 DEF Quiet, FilesInv, FilesOK, Real
<1>3. HistoryOK'
  BY DEF Quiet, FilesInv, HistoryOK, MutationOK, Real
<1>4. PatcherOK'
  BY <1>1, QuietRequests DEF Quiet, FilesInv, PatcherOK, Planned, PlanOK, Staged, WorkOK, IsPart, Progress
<1>5. PatchOrder'
  BY <1>1 DEF Quiet, FilesInv, PatchOrder
<1>6. ASSUME NEW c \in Editors PROVE EditorOK(c)'
  <2>1. EditorOK(c) /\ client' = client
    BY DEF FilesInv, Quiet
  <2>2. AskedBy(c)' \subseteq AskedBy(c)
    BY <2>1 DEF AskedBy, Quiet
  <2>3. \A r \in AskedBy(c)' : OfEdit(c, r)'
    BY <2>1, <2>2, EditsStay DEF EditorOK
  <2> QED BY <2>1, <2>2, <2>3 DEF EditorOK, Real
<1> QED BY <1>2, <1>3, <1>4, <1>5, <1>6, QuietRequests

\* The steps of the supervisor.
LEMMA RecordFound ==
  ASSUME NEW op
  PROVE  /\ Recorded(op) => Record(op) \in records /\ Record(op).req.op = op
         /\ ~Recorded(op) => Record(op).result = "none"
<1>1. CASE Recorded(op)
  <2> DEFINE P(r) == r \in records /\ r.req.op = op
  <2>1. \E r : P(r)
    BY <1>1 DEF Recorded
  <2>2. P(CHOOSE r \in records : r.req.op = op)
    BY <2>1, Zenon
  <2> QED BY <1>1, <2>2 DEF Record, Recorded
<1>2. CASE ~Recorded(op)
  BY <1>2 DEF Record, Recorded
<1> QED BY <1>1, <1>2

LEMMA KeepRecords ==
  ASSUME NEW req, NEW what, FilesKeep(req, what)
  PROVE  /\ \A op : Recorded(op) => Recorded(op)'
         /\ Recorded(req.op)'
         /\ \A r \in records' : r \in records \/ r = [req |-> req, result |-> what]
<1>1. records' = {r \in records : r.req.op # req.op} \cup {[req |-> req, result |-> what]}
  BY DEF FilesKeep
<1>2. [req |-> req, result |-> what] \in records' /\ [req |-> req, result |-> what].req.op = req.op
  BY <1>1
<1>3. Recorded(req.op)'
  BY <1>2 DEF Recorded
<1>4. ASSUME NEW op, Recorded(op) PROVE Recorded(op)'
  <2>1. CASE op = req.op
    BY <2>1, <1>3
  <2>2. CASE op # req.op
    BY <1>1, <1>4, <2>2 DEF Recorded
  <2> QED BY <2>1, <2>2
<1> QED BY <1>1, <1>3, <1>4

LEMMA EditsAreNotFenced ==
  ASSUME NEW c \in Editors, NEW r, OfEdit(c, r)
  PROVE  /\ ~Fenced(r) /\ r.op = EditOp(c) /\ r.path = EditPath[c] /\ r.does = "write"
         /\ r.data = Derived(EditOp(c), r.expects) /\ r.expects # Anything
<1> QED BY DEF OfEdit, EditRequest, Fenced, Real

LEMMA PartsAreFenced ==
  ASSUME NEW r, OfPatch(r), NEW g \in Nat, r.generation \in 0..g
  PROVE  /\ Fenced(r)
         /\ \E n \in Nat : r.op = DerivedId(n) /\ r.op[2] = n
<1>0. PICK k \in 1..Len(Hunks) : \E i \in 1..Size(k) : IsPart(r, k, i)
  BY DEF OfPatch
<1>1. PICK i \in 1..Size(k) : IsPart(r, k, i)
  BY <1>0
<1>2. OpsBefore(k) \in Nat
  BY OpsBeforeType, FileAssumption
<1>3. Number(k, i) \in Nat
  BY <1>2 DEF Number, Size
<1> QED BY <1>1, <1>3 DEF IsPart, Fenced, AnyGeneration, DerivedId

LEMMA AcceptFiles == ASSUME FilesInv, NEW call \in net, Accept(call) PROVE FilesInv'
<1>1. serving = Nobody /\ net' = net \ {call} /\ UNCHANGED <<file, generation, client, mutations, outside>>
  BY DEF Accept
<1>2. RequestOK(call.req)
  BY DEF FilesInv, InFlight
<1>3. CASE Settled(call.req) # "open"
  <2>1. Answer(call, Settled(call.req)) /\ UNCHANGED <<records, serving>>
    BY <1>3 DEF Accept
  <2>2. Quiet
    BY <1>1, <2>1 DEF Quiet, InFlight, Recorded, FilesInv, FilesOK
  <2>3. Settled(call.req) = "ok" => call.req.op \in Applied
    BY RecordFound DEF Settled, FilesInv, RecordsOK
  <2>4. RecordsOK'
    <3>1. Applied' = Applied
      BY <1>1 DEF Applied
    <3> QED BY <2>1, <2>3, <3>1 DEF FilesInv, RecordsOK, Answer
  <2>5. ServingOK'
    BY <1>1, <2>1 DEF ServingOK
  <2> QED BY <2>2, <2>4, <2>5, QuietFrame DEF FilesInv
<1>4. CASE Settled(call.req) = "open"
  <2>1. /\ serving' = [stage |-> "locked", req |-> call.req, try |-> call.try]
        /\ UNCHANGED replies
        /\ IF Fenced(call.req) THEN FilesKeep(call.req, "lost") ELSE UNCHANGED records
    BY <1>4 DEF Accept
  <2>2. /\ \A op : Recorded(op) => Recorded(op)'
        /\ Fenced(call.req) => Recorded(call.req.op)'
        /\ \A r \in records' : r \in records \/ r.result = "lost"
    BY <2>1, KeepRecords DEF Recorded
  <2>3. Quiet
    BY <1>1, <2>1, <2>2 DEF Quiet, InFlight, Nobody, FilesInv, FilesOK
  <2>4. Applied' = Applied
    BY <1>1 DEF Applied
  <2>5. RecordsOK'
    BY <2>1, <2>2, <2>4 DEF FilesInv, RecordsOK
  <2>6. Fenced(call.req) => call.req.op \notin Applied
    <3>1. CASE \E c \in Editors : OfEdit(c, call.req)
      BY <3>1, EditsAreNotFenced
    <3>2. CASE OfPatch(call.req) /\ Current(call.req.generation)
      <4>1. PICK n \in Nat : call.req.op = DerivedId(n)
        BY <3>2, PartsAreFenced DEF Current, FilesInv, FilesOK
      <4>2. ASSUME Fenced(call.req), call.req.op \in Applied PROVE FALSE
        <5>1. call.req.generation = generation /\ Record(call.req.op).result = "none"
          BY <1>4, <4>2, RecordFound DEF Settled, FilesInv, RecordsOK
        <5>2. Recorded(call.req.op)
          BY <3>2, <4>1, <4>2, <5>1 DEF Current, PatchRecorded
        <5> QED BY <5>1, <5>2, RecordFound DEF FilesInv, RecordsOK
      <4> QED BY <4>2
    <3> QED BY <1>2, <3>1, <3>2 DEF RequestOK
  <2>7. ServingOK'
    BY <2>1, <2>2, <2>4, <2>6 DEF ServingOK, Served, Fenced, Recorded
  <2> QED BY <2>3, <2>5, <2>7, QuietFrame DEF FilesInv
<1> QED BY <1>3, <1>4

LEMMA RefuseFiles == ASSUME FilesInv, Refuse PROVE FilesInv'
<1>1. /\ serving' = Nobody /\ Answer(serving, "failed")
      /\ UNCHANGED <<file, generation, net, client, mutations, outside>>
      /\ IF Fenced(serving.req) THEN FilesKeep(serving.req, "failed") ELSE UNCHANGED records
  BY DEF Refuse
<1>2. /\ \A op : Recorded(op) => Recorded(op)'
      /\ \A r \in records' : r \in records \/ r.result = "failed"
  BY <1>1, KeepRecords DEF Recorded
<1>3. Quiet
  BY <1>1, <1>2 DEF Quiet, InFlight, Nobody, FilesInv, FilesOK
<1>4. Applied' = Applied
  BY <1>1 DEF Applied
<1>5. RecordsOK' /\ ServingOK'
  BY <1>1, <1>2, <1>4 DEF FilesInv, RecordsOK, ServingOK, Answer
<1> QED BY <1>3, <1>5, QuietFrame DEF FilesInv

LEMMA CheckConditionFiles == ASSUME FilesInv, CheckCondition PROVE FilesInv'
<1>1. /\ serving.stage = "locked" /\ Allowed(serving.req) /\ serving' = [serving EXCEPT !.stage = "checked"]
      /\ UNCHANGED <<file, records, generation, net, replies, client, mutations, outside>>
  BY DEF CheckCondition
<1>2. Served
  BY <1>1 DEF FilesInv, ServingOK, Nobody
<1>3. serving' = [stage |-> "checked", req |-> serving.req, try |-> serving.try]
  BY <1>1, <1>2 DEF Served
<1>4. Quiet
  BY <1>1, <1>3 DEF Quiet, InFlight, Recorded, FilesInv, FilesOK
<1>5. Applied' = Applied
  BY <1>1 DEF Applied
<1>6. RecordsOK' /\ ServingOK'
  BY <1>1, <1>2, <1>3, <1>5 DEF FilesInv, RecordsOK, ServingOK, Served, Fenced, Recorded, Allowed, MayWrite
<1> QED BY <1>4, <1>6, QuietFrame DEF FilesInv

LEMMA AcknowledgeFiles == ASSUME FilesInv, Acknowledge PROVE FilesInv'
<1>1. /\ serving.stage = "applied" /\ serving' = Nobody /\ Answer(serving, "ok")
      /\ UNCHANGED <<file, generation, net, client, mutations, outside>>
      /\ FilesKeep(serving.req, "ok")
  BY DEF Acknowledge
<1>2. serving.req.op \in Applied
  BY <1>1 DEF FilesInv, ServingOK, Served, Nobody
<1>3. /\ \A op : Recorded(op) => Recorded(op)'
      /\ \A r \in records' : r \in records \/ (r.result = "ok" /\ r.req = serving.req)
  BY <1>1, KeepRecords
<1>4. Quiet
  BY <1>1, <1>3 DEF Quiet, InFlight, Nobody, FilesInv, FilesOK
<1>5. Applied' = Applied
  BY <1>1 DEF Applied
<1>6. RecordsOK' /\ ServingOK'
  BY <1>1, <1>2, <1>3, <1>5 DEF FilesInv, RecordsOK, ServingOK, Answer
<1> QED BY <1>4, <1>6, QuietFrame DEF FilesInv

LEMMA HunkPaths ==
  ASSUME NEW k \in 1..Len(Hunks)
  PROVE  /\ Hunks[k].does \in HunkKinds /\ Hunks[k].from \in Paths
         /\ Hunks[k].does = "move" => Hunks[k].to \in Paths
<1> DEFINE S == [does : HunkKinds, from : Paths, to : Paths \cup {NoPath}]
<1>1. Hunks \in Seq(S)
  BY FileAssumption
<1>2. Hunks[k] \in S
  <2> HIDE DEF S
  <2> QED BY <1>1
<1>3. Hunks[k].does \in HunkKinds /\ Hunks[k].from \in Paths
  BY <1>2
<1> QED BY <1>3, FileAssumption

LEMMA RequestedPath == ASSUME FilesInv, Served PROVE serving.req.path \in Paths
<1>1. RequestOK(serving.req)
  BY DEF FilesInv, InFlight, Served
<1>2. CASE \E c \in Editors : OfEdit(c, serving.req)
  BY <1>2, EditsAreNotFenced, FileAssumption
<1>3. CASE OfPatch(serving.req)
  <2>1. PICK k \in 1..Len(Hunks) : \E i \in 1..Size(k) : IsPart(serving.req, k, i)
    BY <1>3 DEF OfPatch
  <2> QED BY <2>1, HunkPaths DEF IsPart, Target
<1> QED BY <1>1, <1>2, <1>3 DEF RequestOK

\* What a request writes.
LEMMA RequestedData ==
  ASSUME FilesInv, Served
  PROVE  /\ serving.req.path \in Paths /\ Real(serving.req.data)
         /\ serving.req.does = "write" \/ (serving.req.does = "remove" /\ serving.req.data = Absent)
<1>1. RequestOK(serving.req)
  BY DEF FilesInv, InFlight, Served
<1>2. CASE \E c \in Editors : OfEdit(c, serving.req)
  BY <1>2, EditsAreNotFenced, RequestedPath, Contents
<1>3. CASE OfPatch(serving.req)
  BY <1>3, RequestedPath, Contents DEF OfPatch, IsPart, Effect
<1> QED BY <1>1, <1>2, <1>3 DEF RequestOK

LEMMA FillInPlaceFiles == ASSUME FilesInv, FillInPlace PROVE FilesInv'
<1>1. /\ serving.stage = "half" /\ serving' = [serving EXCEPT !.stage = "applied"]
      /\ file' = [file EXCEPT ![serving.req.path] = serving.req.data]
      /\ UNCHANGED <<records, generation, net, replies, client, mutations, outside>>
  BY DEF FillInPlace
<1>2. Served
  BY <1>1 DEF FilesInv, ServingOK, Nobody
<1>3. serving' = [stage |-> "applied", req |-> serving.req, try |-> serving.try]
  BY <1>1, <1>2 DEF Served
<1>4. Applied' = Applied
  BY <1>1, <1>3 DEF Applied
<1>5. Rewrites
  BY <1>1, <1>2, RequestedData DEF Rewrites
<1>6. Quiet
  BY <1>1, <1>3, <1>4, <1>5 DEF Quiet, InFlight, Recorded, FilesInv, FilesOK
<1>7. RecordsOK' /\ ServingOK'
  BY <1>1, <1>2, <1>3, <1>4 DEF FilesInv, RecordsOK, ServingOK, Served, Fenced, Recorded
<1> QED BY <1>6, <1>7, QuietFrame DEF FilesInv

LEMMA DropRequestFiles == ASSUME FilesInv, DropRequest PROVE FilesInv'
<1>1. /\ serving # Nobody /\ serving' = Nobody
      /\ file' = IF serving.stage = "half" THEN [file EXCEPT ![serving.req.path] = serving.req.data] ELSE file
      /\ UNCHANGED <<records, generation, net, replies, client, mutations, outside>>
  BY DEF DropRequest
<1>2. Applied' = Applied
  BY <1>1 DEF Applied
<1>3. UNCHANGED file \/ Rewrites
  <2>1. Served
    BY <1>1 DEF FilesInv, ServingOK
  <2> QED BY <1>1, <2>1, RequestedData DEF Rewrites
<1>4. Quiet
  BY <1>1, <1>2, <1>3 DEF Quiet, InFlight, Nobody, Recorded, FilesInv, FilesOK
<1>5. RecordsOK' /\ ServingOK'
  BY <1>1, <1>2 DEF FilesInv, RecordsOK, ServingOK
<1> QED BY <1>4, <1>5, QuietFrame DEF FilesInv

LEMMA RestartHostFiles == ASSUME FilesInv, RestartHost PROVE FilesInv'
<1>1. /\ serving' = Nobody /\ records' = {} /\ generation' = generation + 1
      /\ UNCHANGED <<file, net, replies, client, mutations, outside>>
  BY DEF RestartHost
<1>2. Applied' = Applied
  BY <1>1 DEF Applied
<1>3. Quiet
  BY <1>1, <1>2 DEF Quiet, InFlight, Nobody, FilesInv, FilesOK
<1>4. RecordsOK' /\ ServingOK'
  BY <1>1, <1>2 DEF FilesInv, RecordsOK, ServingOK
<1> QED BY <1>3, <1>4, QuietFrame DEF FilesInv

LEMMA OutsideWriteFiles == ASSUME FilesInv, NEW p \in Paths, OutsideWrite(p) PROVE FilesInv'
<1>0. PICK w \in FromOutside(p) : file' = [file EXCEPT ![p] = w]
  BY DEF OutsideWrite
<1>1. /\ ~(serving.stage = "checked" /\ serving.req.path = p /\ serving.req.expects # Anything)
      /\ outside' = outside + 1
      /\ UNCHANGED <<records, generation, serving, net, replies, client, mutations>>
  BY DEF OutsideWrite, supervisor
<1>2. Applied' = Applied /\ outside \in Nat
  BY <1>1 DEF Applied, FilesInv, FilesOK
<1>3. Real(w)
  BY Contents DEF FromOutside, FilesInv, HistoryOK, MutationOK
<1>4. Quiet
  <2>1. Rewrites
    BY <1>0, <1>3 DEF Rewrites
  <2> QED BY <1>1, <1>2, <2>1 DEF Quiet, InFlight, Recorded
<1>5. RecordsOK'
  BY <1>1, <1>2 DEF FilesInv, RecordsOK
<1>6. ServingOK'
  <2>1. CASE serving = Nobody
    BY <1>1, <2>1 DEF ServingOK
  <2>2. CASE Served
    <3>1. \A q \in Paths : q # p => file'[q] = file[q]
      BY <1>0 DEF FilesInv, FilesOK
    <3>2. serving.req.path \in Paths
      BY <2>2, RequestedPath
    <3>3. serving.stage = "checked" /\ serving.req.does # "remove" => MayWrite(serving.req)'
      BY <1>1, <2>2, <3>1, <3>2 DEF Served, MayWrite
    <3>4. Served'
      BY <1>1, <1>2, <2>2, <3>3 DEF Served, Fenced, Recorded, InPlace
    <3> QED BY <3>4 DEF ServingOK
  <2> QED BY <2>1, <2>2 DEF FilesInv, ServingOK
<1> QED BY <1>4, <1>5, <1>6, QuietFrame DEF FilesInv

-----------------------------------------------------------------------------
\* A mutation takes effect.
Written == IF InPlace(serving.req) THEN Torn(serving.req.op) ELSE serving.req.data

LEMMA ServedOnce ==
  ASSUME FilesInv, serving.stage = "checked"
  PROVE  /\ Served /\ RequestOK(serving.req) /\ serving.req \in InFlight
         /\ Fenced(serving.req) => serving.req.op \notin Applied
         /\ \A c \in Editors : OfEdit(c, serving.req) => file[EditPath[c]] = serving.req.expects
<1>1. Served /\ serving.req \in InFlight
  BY DEF FilesInv, ServingOK, Nobody, InFlight
<1>2. RequestOK(serving.req)
  BY <1>1 DEF FilesInv
<1>3. ASSUME NEW c \in Editors, OfEdit(c, serving.req) PROVE file[EditPath[c]] = serving.req.expects
  BY <1>1, <1>3, EditsAreNotFenced DEF Served, MayWrite
<1>4. Fenced(serving.req) => serving.req.op \notin Applied
  BY <1>1 DEF Served
<1> QED BY <1>1, <1>2, <1>3, <1>4

LEMMA MutateStep ==
  ASSUME FilesInv, Mutate
  PROVE  /\ serving.stage = "checked" /\ serving.req.path \in Paths
         /\ serving' = [stage |-> IF InPlace(serving.req) THEN "half" ELSE "applied",
                        req |-> serving.req, try |-> serving.try]
         /\ InFlight' = InFlight
         /\ UNCHANGED <<records, generation, net, replies, client, outside>>
         /\ file' = [file EXCEPT ![serving.req.path] = Written]
         /\ \A p \in Paths : file'[p] = IF p = serving.req.path THEN Written ELSE file[p]
<1>1. /\ serving.stage = "checked"
      /\ serving' = [serving EXCEPT !.stage = IF InPlace(serving.req) THEN "half" ELSE "applied"]
      /\ file' = [file EXCEPT ![serving.req.path] = Written]
      /\ UNCHANGED <<records, generation, net, replies, client, outside>>
  BY DEF Mutate, Written
<1>2. Served
  BY <1>1, ServedOnce
<1>3. serving' = [stage |-> IF InPlace(serving.req) THEN "half" ELSE "applied",
                  req |-> serving.req, try |-> serving.try]
  BY <1>1, <1>2 DEF Served
<1>4. serving'.stage # "none" /\ serving'.req = serving.req
  BY <1>3
<1>5. InFlight' = InFlight
  BY <1>1, <1>4 DEF InFlight
<1>7. serving.req.path \in Paths
  BY <1>2, RequestedPath
<1>8. \A p \in Paths : file'[p] = IF p = serving.req.path THEN Written ELSE file[p]
  BY <1>1 DEF FilesInv, FilesOK
<1> QED BY <1>1, <1>3, <1>5, <1>7, <1>8

LEMMA MutateHistory ==
  ASSUME FilesInv, Mutate
  PROVE  /\ Len(mutations) \in Nat /\ Len(mutations') = Len(mutations) + 1
         /\ \A k \in 1..Len(mutations) : mutations'[k] = mutations[k]
         /\ mutations'[Len(mutations) + 1] =
                [op |-> serving.req.op, does |-> serving.req.does, path |-> serving.req.path,
                 expects |-> serving.req.expects, data |-> serving.req.data,
                 fenced |-> Fenced(serving.req), replaced |-> file[serving.req.path]]
         /\ mutations' \in Seq(Range(mutations'))
         /\ Applied' = Applied \cup {serving.req.op}
<1> DEFINE m == [op |-> serving.req.op, does |-> serving.req.does, path |-> serving.req.path,
                 expects |-> serving.req.expects, data |-> serving.req.data,
                 fenced |-> Fenced(serving.req), replaced |-> file[serving.req.path]]
<1>1. mutations' = Append(mutations, m) /\ mutations \in Seq(Range(mutations))
  BY DEF Mutate, FilesInv, HistoryOK
<1>2. m.op = serving.req.op /\ m.does = serving.req.does /\ m.path = serving.req.path
  OBVIOUS
<1> HIDE DEF m
<1>3. /\ Len(mutations) \in Nat /\ Len(mutations') = Len(mutations) + 1
      /\ \A k \in 1..Len(mutations) : mutations'[k] = mutations[k]
      /\ mutations'[Len(mutations) + 1] = m
      /\ mutations' \in Seq(Range(mutations'))
  BY <1>1, AppendToHistory
<1>4. 1..Len(mutations') = 1..Len(mutations) \cup {Len(mutations) + 1}
  BY <1>3
<1>5. Applied' = Applied \cup {serving.req.op}
  BY <1>2, <1>3, <1>4 DEF Applied
<1> QED BY <1>3, <1>5 DEF m

\* The patch goes on by the one mutation that was asked for and not acknowledged.
LEMMA MutatePatch ==
  ASSUME FilesInv, Mutate
  PROVE  /\ PatchOrder'
         /\ \A g : Current(g) => Current(g)'
         /\ Acked' = Acked /\ Asked' = Asked
<1> DEFINE r == serving.req
           L == Len(mutations)
           n == Cardinality(PatchDone)
<1>1. Acked' = Acked /\ Asked' = Asked /\ Acked \in Nat /\ Asked \in {Acked, Acked + 1}
  BY MutateStep, PatchCounts DEF Acked, Asked, Planned, Progress
<1>2. IsFiniteSet(PatchDone) /\ n \in Nat
  <2>0. L \in Int
    BY MutateHistory
  <2>1. IsFiniteSet(1..L)
    BY <2>0, FS_Interval
  <2>2. IsFiniteSet(PatchDone)
    BY <2>1, FS_Subset DEF PatchDone
  <2> QED BY <2>2, FS_CardinalityType
<1>3. Served /\ RequestOK(r) /\ (Fenced(r) => r.op \notin Applied)
  BY MutateStep, ServedOnce
<1>4. L \in Nat /\ L + 1 \notin PatchDone /\ \A k \in PatchDone : k \in 1..L /\ mutations'[k] = mutations[k]
  BY MutateHistory DEF PatchDone
<1>5. PatchOrder
  BY DEF FilesInv
<1>6. CASE \E c \in Editors : OfEdit(c, r)
  <2>1. PICK c \in Editors : r.op = EditOp(c)
    BY <1>6, EditsAreNotFenced
  <2>2. r.op[1] # Patcher /\ \A i : r.op # DerivedId(i)
    BY <2>1, FileAssumption DEF EditOp, DerivedId
  <2>3. PatchDone' = PatchDone
    BY <2>2, MutateHistory DEF PatchDone
  <2>4. \A i : DerivedId(i) \in Applied' <=> DerivedId(i) \in Applied
    BY <2>2, MutateHistory
  <2>5. PatchOrder'
    BY <1>1, <1>4, <1>5, <2>3, <2>4 DEF PatchOrder
  <2>6. ASSUME NEW g, Current(g) PROVE Current(g)'
    BY <2>4, <2>6, MutateStep DEF Current, PatchRecorded, Recorded
  <2> QED BY <1>1, <2>5, <2>6
<1>7. CASE OfPatch(r) /\ r.op[2] < Asked /\ Current(r.generation)
  <2>1. PICK i \in Nat : r.op = DerivedId(i) /\ r.op[2] = i /\ Fenced(r)
    BY <1>7, PartsAreFenced DEF Current, FilesInv, FilesOK
  <2>2. i = n /\ n + 1 = Asked
    <3>1. ~(i < n) /\ n \in Acked..Asked
      BY <1>3, <1>5, <2>1 DEF PatchOrder
    <3> QED BY <1>1, <1>2, <1>7, <2>1, <3>1
  <2>3. PatchDone' = PatchDone \cup {L + 1}
    BY <2>1, MutateHistory DEF PatchDone, DerivedId
  <2>4. Cardinality(PatchDone') = n + 1
    BY <1>2, <1>4, <2>3, FS_AddElement
  <2>5. Cardinality(PatchDone') \in Acked'..Asked'
    BY <1>1, <1>2, <2>2, <2>4
  <2>6. ASSUME NEW k \in PatchDone' PROVE mutations'[k].op = DerivedId(Cardinality({j \in PatchDone' : j < k}))
    <3>1. CASE k \in PatchDone
      <4>1. {j \in PatchDone' : j < k} = {j \in PatchDone : j < k}
        BY <1>4, <2>3, <3>1
      <4> QED BY <1>4, <1>5, <3>1, <4>1 DEF PatchOrder
    <3>2. CASE k = L + 1
      <4>1. \A j \in PatchDone : j < L + 1
        BY <1>4
      <4>2. {j \in PatchDone' : j < k} = PatchDone
        <5>1. ~(L + 1 < L + 1)
          BY <1>4
        <5>2. \A j : j \in PatchDone' <=> (j \in PatchDone \/ j = L + 1)
          BY <2>3
        <5> HIDE DEF L
        <5> QED BY <3>2, <4>1, <5>1, <5>2, Zenon
      <4>3. mutations'[L + 1].op = r.op
        BY MutateHistory
      <4> QED BY <2>1, <2>2, <3>2, <4>2, <4>3
    <3> QED BY <2>3, <3>1, <3>2
  <2>7. ASSUME NEW j \in Nat PROVE DerivedId(j) \in Applied' <=> j < Cardinality(PatchDone')
    <3>1. DerivedId(j) \in Applied' <=> (DerivedId(j) \in Applied \/ j = i)
      BY <2>1, MutateHistory DEF DerivedId
    <3>2. DerivedId(j) \in Applied <=> j < n
      BY <1>5 DEF PatchOrder
    <3> QED BY <1>2, <2>2, <2>4, <3>1, <3>2
  <2>8. ASSUME NEW g, Current(g) PROVE Current(g)'
    <3>1. Recorded(r.op)
      BY <1>3, <2>1 DEF Served
    <3>2. UNCHANGED <<records, generation>> /\ Applied' = Applied \cup {r.op}
      BY MutateStep, MutateHistory
    <3> QED BY <2>8, <3>1, <3>2 DEF Current, PatchRecorded, Recorded
  <2> QED BY <1>1, <2>5, <2>6, <2>7, <2>8 DEF PatchOrder
<1> QED BY <1>3, <1>6, <1>7 DEF RequestOK

LEMMA MutateFiles == ASSUME FilesInv, Mutate PROVE FilesInv'
<1>1. FilesOK'
  <2>1. file' = [p \in Paths |-> file'[p]]
    BY MutateStep DEF FilesInv, FilesOK
  <2>2. Real(Written)
    BY MutateStep, ServedOnce, RequestedData, Contents DEF Written
  <2>3. \A p \in Paths : Real(file'[p])
    BY <2>2, MutateStep DEF FilesInv, FilesOK
  <2> QED BY <2>1, <2>3, MutateStep DEF FilesInv, FilesOK, Real
<1>2. HistoryOK'
  <2>1. MutationOK(mutations'[Len(mutations) + 1])
    <3>1. RequestOK(serving.req)
      BY MutateStep, ServedOnce
    <3>4. Real(mutations'[Len(mutations) + 1].replaced)
      BY MutateStep, MutateHistory DEF FilesInv, FilesOK
    <3>2. ASSUME NEW c \in Editors, OfEdit(c, serving.req) PROVE MutationOK(mutations'[Len(mutations) + 1])
      <4>1. /\ serving.req.op = EditOp(c) /\ serving.req.does = "write" /\ serving.req.path = EditPath[c]
            /\ serving.req.data = Derived(EditOp(c), serving.req.expects)
            /\ file[EditPath[c]] = serving.req.expects
        BY <3>2, EditsAreNotFenced, MutateStep, ServedOnce
      <4>2. serving.req.data.base = file[serving.req.path]
        BY <4>1 DEF Derived
      <4> QED BY <3>4, <4>1, <4>2, MutateHistory DEF MutationOK
    <3>3. CASE OfPatch(serving.req)
      BY <3>3, <3>4, MutateHistory DEF OfPatch, IsPart, MutationOK
    <3> QED BY <3>1, <3>2, <3>3 DEF RequestOK
  <2>2. \A k \in 1..Len(mutations') : MutationOK(mutations'[k])
    BY <2>1, MutateHistory DEF FilesInv, HistoryOK
  <2> QED BY <2>2, MutateHistory DEF HistoryOK, MutationOK, Real
<1>3. RecordsOK'
  BY MutateStep, MutateHistory DEF FilesInv, RecordsOK
<1>4. ServingOK'
  <2>1. Served
    BY MutateStep, ServedOnce
  <2>2. Served'
    BY <2>1, MutateStep, MutateHistory DEF Served, Fenced, Recorded, InPlace
  <2> QED BY <2>2 DEF ServingOK
<1>5. PatcherOK'
  <2>1. PatcherOK /\ client' = client /\ Applied \subseteq Applied'
    BY MutateStep, MutateHistory DEF FilesInv
  <2>2. Planned' = Planned /\ \A g : Current(g) => Current(g)'
    BY <2>1, MutatePatch DEF Planned
  <2> QED BY <2>1, <2>2 DEF PatcherOK, PlanOK, Staged, WorkOK, IsPart
<1>6. ASSUME NEW c \in Editors PROVE EditorOK(c)'
  <2>1. EditorOK(c) /\ client' = client /\ AskedBy(c)' = AskedBy(c)
    BY MutateStep DEF FilesInv, AskedBy
  <2> QED BY <2>1, EditsStay DEF EditorOK, Real
<1>7. ASSUME NEW r \in InFlight' PROVE RequestOK(r)'
  <2>1. RequestOK(r) /\ r \in InFlight
    BY <1>7, MutateStep DEF FilesInv
  <2>2. ASSUME NEW c \in Editors, OfEdit(c, r) PROVE OfEdit(c, r)'
    BY <2>2, EditsStay
  <2>3. CASE OfPatch(r) /\ r.op[2] < Asked /\ Current(r.generation)
    BY <2>3, MutatePatch DEF RequestOK, OfPatch, IsPart
  <2> QED BY <2>1, <2>2, <2>3 DEF RequestOK
<1> QED BY <1>1, <1>2, <1>3, <1>4, <1>5, <1>6, <1>7, MutatePatch DEF FilesInv

-----------------------------------------------------------------------------
\* The steps of the clients.
LEMMA MachineFrame ==
  ASSUME FilesInv, UNCHANGED Machine, replies' \subseteq replies
  PROVE  /\ Applied' = Applied /\ PatchDone' = PatchDone /\ outside' = outside
         /\ UNCHANGED <<file, mutations, records, generation, serving>>
         /\ \A g : Current(g)' <=> Current(g)
         /\ \A c, r : OfEdit(c, r)' <=> OfEdit(c, r)
         /\ HistoryOK' /\ RecordsOK' /\ ServingOK'
         /\ client' = [c \in Editors \cup {Patcher} |-> client'[c]] => FilesOK'
<1>1. UNCHANGED <<file, mutations, records, generation, serving, outside>>
  BY DEF Machine, supervisor
<1>2. /\ Applied' = Applied /\ PatchDone' = PatchDone
      /\ \A op : Recorded(op)' <=> Recorded(op)
  BY <1>1 DEF Applied, PatchDone, Recorded
<1>3. \A g : Current(g)' <=> Current(g)
  BY <1>1, <1>2 DEF Current, PatchRecorded
<1>4. \A c, r : OfEdit(c, r)' <=> OfEdit(c, r)
  BY EditsStay
<1>5. HistoryOK' /\ RecordsOK'
  BY <1>1, <1>2 DEF FilesInv, HistoryOK, MutationOK, RecordsOK, Real
<1>6. ServingOK'
  BY <1>1, <1>2 DEF FilesInv, ServingOK, Served, Fenced, Recorded, MayWrite, InPlace
<1>7. client' = [c \in Editors \cup {Patcher} |-> client'[c]] => FilesOK'
  BY <1>1, <1>2, <1>3 DEF FilesInv, FilesOK, Real
<1> QED BY <1>1, <1>2, <1>3, <1>4, <1>5, <1>6, <1>7

\* A plan of the patch stays one, whatever else a client does.
LEMMA PlanStays ==
  ASSUME FilesInv, UNCHANGED Machine, replies' \subseteq replies
  PROVE  /\ \A p : PlanOK(p)' <=> PlanOK(p)
         /\ \A p, w : WorkOK(p, w)' <=> WorkOK(p, w)
<1> QED BY MachineFrame DEF PlanOK, WorkOK, Staged, IsPart

\* An editor moves: it may send what it has planned.
LEMMA EditorFrame ==
  ASSUME FilesInv, NEW c \in Editors, NEW next, Move(c, next), UNCHANGED Machine,
         replies' \subseteq replies, InFlight' \subseteq InFlight \cup AskedBy(c), EditorOK(c)'
  PROVE  FilesInv'
<1>1. /\ client' = [d \in Editors \cup {Patcher} |-> client'[d]]
      /\ client'[Patcher] = client[Patcher] /\ \A d \in Editors : d # c => client'[d] = client[d]
  BY FileAssumption DEF Move, FilesInv, FilesOK
<1>2. FilesOK' /\ HistoryOK' /\ RecordsOK' /\ ServingOK'
  BY <1>1, MachineFrame
<1>3. Planned' = Planned /\ Acked' = Acked /\ Asked' = Asked
  BY <1>1 DEF Planned, Acked, Asked, Progress
<1>4. PatcherOK' /\ PatchOrder'
  <2>1. PatcherOK /\ PatchOrder /\ Applied' = Applied /\ PatchDone' = PatchDone /\ mutations' = mutations
    BY MachineFrame DEF FilesInv
  <2>2. \A g : Current(g)' <=> Current(g)
    BY MachineFrame
  <2>3. PatcherOK'
    <3>1. PatcherOK /\ client'[Patcher] = client[Patcher] /\ (Planned' <=> Planned)
      BY <1>1, <1>3, <2>1
    <3>2. /\ \A p : PlanOK(p)' <=> PlanOK(p)
          /\ \A p, w : WorkOK(p, w)' <=> WorkOK(p, w)
      BY PlanStays
    <3> QED BY <2>2, <3>1, <3>2 DEF PatcherOK
  <2>4. PatchOrder'
    BY <1>3, <2>1 DEF PatchOrder
  <2> QED BY <2>3, <2>4
<1>5. ASSUME NEW r \in InFlight' PROVE RequestOK(r)'
  <2>1. RequestOK(r)
    BY <1>5 DEF FilesInv, EditorOK, RequestOK
  <2>2. CASE \E d \in Editors : OfEdit(d, r)
    BY <2>2, MachineFrame DEF RequestOK
  <2>3. CASE OfPatch(r) /\ r.op[2] < Asked /\ Current(r.generation)
    BY <1>3, <2>3, MachineFrame DEF RequestOK, OfPatch, IsPart
  <2> QED BY <2>1, <2>2, <2>3 DEF RequestOK
<1>6. ASSUME NEW d \in Editors, d # c PROVE EditorOK(d)'
  <2>1. \A r \in AskedBy(c) : r.op # EditOp(d)
    <3>1. \A r \in AskedBy(c) : r.op = EditOp(c)
      BY EditsAreNotFenced DEF FilesInv, EditorOK
    <3>2. EditOp(c) # EditOp(d)
      BY <1>6 DEF EditOp
    <3> QED BY <3>1, <3>2
  <2>2. AskedBy(d)' \subseteq AskedBy(d)
    BY <1>1, <1>6, <2>1 DEF AskedBy
  <2>3. EditorOK(d) /\ client'[d] = client[d]
    BY <1>1, <1>6 DEF FilesInv
  <2>4. Applied' = Applied /\ (\A r : OfEdit(d, r)' <=> OfEdit(d, r))
    BY MachineFrame
  <2> QED BY <2>2, <2>3, <2>4 DEF EditorOK, Real
<1> QED BY <1>2, <1>4, <1>5, <1>6 DEF FilesInv

LEMMA EditorMoves ==
  ASSUME FilesInv, NEW c \in Editors \cup {Patcher}, NEW next, Move(c, next) PROVE client'[c] = next
<1> QED BY DEF Move, FilesInv, FilesOK

LEMMA StatFileFiles == ASSUME FilesInv, NEW c \in Editors, StatFile(c) PROVE FilesInv'
<1> DEFINE next == [at |-> "reading", seen |-> file[EditPath[c]]]
<1>1. client[c].at = "begin" /\ Move(c, next) /\ UNCHANGED <<Machine, net, replies>>
  BY DEF StatFile
<1>2. client'[c] = next /\ EditPath[c] \in Paths
  BY <1>1, EditorMoves, FileAssumption
<1>3. InFlight' = InFlight
  BY <1>1, MachineFrame DEF InFlight
<1>4. AskedBy(c)' = AskedBy(c)
  BY <1>1, <1>2, <1>3 DEF AskedBy
<1>5. Real(file[EditPath[c]]) /\ EditorOK(c)
  BY <1>2 DEF FilesInv, FilesOK
<1>6. EditorOK(c)'
  BY <1>1, <1>2, <1>4, <1>5, MachineFrame DEF EditorOK, Real
<1> QED BY <1>1, <1>3, <1>6, EditorFrame

\* An editor has its plan.
LEMMA EditorPlans ==
  ASSUME FilesInv, NEW c \in Editors, client[c].at \in {"begin", "reading"}, NEW e, Real(e),
         Move(c, HavePlan(EditRequest(c, e, e))), UNCHANGED <<Machine, net, replies>>
  PROVE  FilesInv'
<1> DEFINE r == EditRequest(c, e, e)
<1>1. client'[c] = HavePlan(r)
  BY EditorMoves
<1>2. r.expects = e /\ r.op = EditOp(c)
  BY DEF EditRequest
<1> HIDE DEF r
<1>3. client'[c].at = "saved" /\ client'[c].plan = r
  BY <1>1 DEF HavePlan
<1>4. InFlight' = InFlight
  BY MachineFrame DEF InFlight
<1>5. EditorOK(c)
  BY DEF FilesInv
<1>6. AskedBy(c)' \subseteq AskedBy(c) \union {r}
  BY <1>3, <1>4 DEF AskedBy
<1>7. OfEdit(c, r)
  BY <1>2 DEF OfEdit, r
<1>8. EditorOK(c)'
  BY <1>3, <1>5, <1>6, <1>7, MachineFrame DEF EditorOK
<1> QED BY <1>4, <1>8, EditorFrame

\* An editor ends, or repeats what it has saved.
LEMMA EditorSettles ==
  ASSUME FilesInv, NEW c \in Editors, NEW next, Move(c, next), UNCHANGED <<Machine, net>>, replies' \subseteq replies,
         \/ next.at = "answered"
         \/ next.at = "saved" /\ client[c].at \in {"saved", "sent"} /\ next.plan = client[c].plan
  PROVE  FilesInv'
<1>1. client'[c] = next
  BY EditorMoves
<1>2. InFlight' = InFlight
  BY MachineFrame DEF InFlight
<1>3. AskedBy(c)' \subseteq AskedBy(c)
  BY <1>1, <1>2 DEF AskedBy
<1>4. EditorOK(c)
  BY DEF FilesInv
<1>5. EditorOK(c)'
  BY <1>1, <1>3, <1>4, MachineFrame DEF EditorOK
<1> QED BY <1>2, <1>5, EditorFrame

LEMMA ReadPagesFiles == ASSUME FilesInv, NEW c \in Editors, ReadPages(c) PROVE FilesInv'
<1>1. client[c].at = "reading" /\ UNCHANGED <<Machine, net, replies>> /\ Real(client[c].seen)
  BY DEF ReadPages, FilesInv, EditorOK
<1>2. CASE ~SameRevision(c)
  BY <1>1, <1>2, EditorSettles DEF ReadPages, Ended
<1>3. CASE SameRevision(c)
  BY <1>1, <1>3, EditorPlans DEF ReadPages
<1> QED BY <1>2, <1>3

LEMMA PlanWriteFiles == ASSUME FilesInv, NEW c \in Editors, PlanWrite(c) PROVE FilesInv'
<1> QED BY Contents, EditorPlans DEF PlanWrite

LEMMA RequestSent ==
  ASSUME UNCHANGED Machine, NEW req, NEW n, net' = net \cup {[req |-> req, try |-> n]}
  PROVE  InFlight' = InFlight \cup {req}
<1>1. serving' = serving
  BY DEF Machine, supervisor
<1> DEFINE x == [req |-> req, try |-> n]
<1>2. x.req = req /\ net' = net \cup {x}
  OBVIOUS
<1> HIDE DEF x
<1>3. {call.req : call \in net'} = {call.req : call \in net} \cup {req}
  BY <1>2
<1> QED BY <1>1, <1>3 DEF InFlight

LEMMA SendEdit == ASSUME FilesInv, NEW c \in Editors, Send(c) PROVE FilesInv'
<1> DEFINE next == [at |-> "sent", plan |-> client[c].plan, try |-> trouble]
<1>1. /\ client[c].at = "saved" /\ UNCHANGED <<Machine, replies>> /\ Move(c, next)
      /\ net' = net \cup {[req |-> client[c].plan, try |-> trouble]}
  BY FileAssumption DEF Send, Due
<1>2. client'[c] = next
  BY <1>1, EditorMoves
<1>3. client'[c].at = "sent" /\ client'[c].plan = client[c].plan
  BY <1>2
<1>4. client[c].plan \in AskedBy(c)
  BY <1>1 DEF AskedBy
<1>5. InFlight' = InFlight \cup {client[c].plan}
  BY <1>1, RequestSent
<1>6. AskedBy(c)' = AskedBy(c)
  BY <1>1, <1>3, <1>4, <1>5 DEF AskedBy
<1>7. EditorOK(c)'
  BY <1>1, <1>3, <1>6, MachineFrame DEF FilesInv, EditorOK
<1> QED BY <1>1, <1>4, <1>5, <1>7, EditorFrame

LEMMA ReceiveEdit == ASSUME FilesInv, NEW c \in Editors, Receive(c) PROVE FilesInv'
<1>1. PICK r \in replies : /\ replies' = replies \ {r}
                           /\ CASE r.result = "ok" /\ c = Patcher -> Stepped(Advance(Progress))
                                [] r.result = "ok" /\ c # Patcher -> Move(c, Ended("ok", 1))
                                [] OTHER -> Move(c, Ended("failed", IF c = Patcher THEN Progress.applied ELSE 0))
  BY DEF Receive
<1>2. c # Patcher /\ UNCHANGED <<Machine, net>>
  BY FileAssumption DEF Receive
<1>3. Move(c, Ended("ok", 1)) \/ Move(c, Ended("failed", 0))
  BY <1>1, <1>2
<1> QED BY <1>1, <1>2, <1>3, EditorSettles DEF Ended

LEMMA RetryEdit == ASSUME FilesInv, NEW c \in Editors, Retry(c) PROVE FilesInv'
<1>1. client[c].at = "sent" /\ Move(c, HavePlan(client[c].plan)) /\ UNCHANGED <<Machine, net, replies>>
  BY DEF Retry, FilesInv, EditorOK
<1> QED BY <1>1, EditorSettles DEF HavePlan

\* The patch moves: it may send the mutation it is at.
LEMMA PatcherFrame ==
  ASSUME FilesInv, NEW next, Move(Patcher, next), UNCHANGED Machine, replies' \subseteq replies,
         InFlight \subseteq InFlight',
         \A r \in InFlight' \ InFlight : OfPatch(r) /\ r.op[2] < Asked' /\ Current(r.generation),
         PatcherOK', Asked' \in Int, Asked <= Asked', Cardinality(PatchDone) \in Acked'..Asked'
  PROVE  FilesInv'
<1>1. /\ client' = [d \in Editors \cup {Patcher} |-> client'[d]]
      /\ \A d \in Editors : client'[d] = client[d]
  BY FileAssumption DEF Move, FilesInv, FilesOK
<1>2. FilesOK' /\ HistoryOK' /\ RecordsOK' /\ ServingOK'
  BY <1>1, MachineFrame
<1>3. PatchOrder'
  <2>1. PatchOrder /\ Applied' = Applied /\ PatchDone' = PatchDone /\ mutations' = mutations
    BY MachineFrame DEF FilesInv
  <2> QED BY <2>1 DEF PatchOrder
<1>4. ASSUME NEW r \in InFlight' PROVE RequestOK(r)'
  <2>1. CASE \E d \in Editors : OfEdit(d, r)
    BY <2>1, MachineFrame DEF RequestOK
  <2>2. CASE OfPatch(r) /\ r.op[2] < Asked' /\ Current(r.generation)
    BY <2>2, MachineFrame DEF RequestOK, OfPatch, IsPart
  <2>3. ASSUME OfPatch(r), r.op[2] < Asked, Current(r.generation) PROVE r.op[2] < Asked'
    <3>1. r.op[2] \in Nat
      BY <2>3, PartsAreFenced DEF Current, FilesInv, FilesOK
    <3> QED BY <2>3, <3>1, PatchCounts
  <2>4. r \in InFlight => RequestOK(r)
    BY DEF FilesInv
  <2> QED BY <1>4, <2>1, <2>2, <2>3, <2>4 DEF RequestOK
<1>5. ASSUME NEW d \in Editors PROVE EditorOK(d)'
  <2>1. ASSUME NEW r \in InFlight' \ InFlight PROVE r.op # EditOp(d)
    <3>1. OfPatch(r) /\ Current(r.generation)
      BY <2>1
    <3>2. \E n \in Nat : r.op = DerivedId(n)
      BY <3>1, PartsAreFenced DEF Current, FilesInv, FilesOK
    <3> QED BY <3>2, FileAssumption DEF DerivedId, EditOp
  <2>2. AskedBy(d)' = AskedBy(d)
    BY <1>1, <2>1 DEF AskedBy
  <2>3. EditorOK(d) /\ client'[d] = client[d]
    BY <1>1 DEF FilesInv
  <2>4. Applied' = Applied /\ (\A r : OfEdit(d, r)' <=> OfEdit(d, r))
    BY MachineFrame
  <2> QED BY <2>2, <2>3, <2>4 DEF EditorOK, Real
<1> QED BY <1>2, <1>3, <1>4, <1>5 DEF FilesInv

LEMMA PlanNumbers ==
  ASSUME FilesInv, Planned
  PROVE  /\ PlanOK(Progress) /\ Current(Progress.generation)
         /\ Acked = Progress.applied /\ Progress.applied \in Nat
         /\ Asked = IF Progress.pending = <<>> THEN Acked ELSE Acked + 1
         /\ Cardinality(PatchDone) \in Nat /\ Cardinality(PatchDone) \in Acked..Asked
         /\ \A i \in Nat : DerivedId(i) \in Applied <=> i < Cardinality(PatchDone)
<1>1. client[Patcher].at # "begin"
  BY DEF Planned
<1>2. PlanOK(Progress) /\ Current(Progress.generation)
  BY DEF FilesInv, PatcherOK, Progress
<1>3. Acked = Progress.applied /\ Asked = IF Progress.pending = <<>> THEN Acked ELSE Acked + 1
  BY <1>1 DEF Acked, Asked
<1>4. Acked \in Nat /\ Asked \in Nat
  BY PatchCounts
<1>5. Cardinality(PatchDone) \in Acked..Asked /\ \A i \in Nat : DerivedId(i) \in Applied <=> i < Cardinality(PatchDone)
  BY DEF FilesInv, PatchOrder
<1>6. Cardinality(PatchDone) \in Nat
  BY <1>4, <1>5
<1> QED BY <1>2, <1>3, <1>4, <1>5, <1>6

\* It ends with a report.
LEMMA PatcherEnds ==
  ASSUME FilesInv, NEW result \in {"ok", "failed"}, NEW n \in Nat, Move(Patcher, Ended(result, n)),
         UNCHANGED <<Machine, net>>, replies' \subseteq replies,
         n = Acked, result = "ok" => n = AllOps /\ Asked = Acked
  PROVE  FilesInv'
<1>1. client'[Patcher] = Ended(result, n)
  BY EditorMoves
<1>2. client'[Patcher].at = "answered" /\ client'[Patcher].result = result /\ client'[Patcher].applied = n
  BY <1>1 DEF Ended
<1>3. Acked' = n /\ Asked' = IF result = "ok" THEN n ELSE n + 1
  BY <1>2 DEF Acked, Asked, Planned
<1>4. Acked \in Nat /\ Asked \in {Acked, Acked + 1} /\ Cardinality(PatchDone) \in Acked..Asked
  BY PatchCounts DEF FilesInv, PatchOrder
<1>5. PatcherOK'
  BY <1>2 DEF PatcherOK, Planned
<1>6. InFlight' = InFlight
  BY MachineFrame DEF InFlight
<1>7. Asked' \in Int /\ Asked <= Asked' /\ Cardinality(PatchDone) \in Acked'..Asked'
  BY <1>3, <1>4
<1> QED BY <1>5, <1>6, <1>7, PatcherFrame

LEMMA PreparePatchFiles == ASSUME FilesInv, PreparePatch PROVE FilesInv'
<1> DEFINE p == [hunk |-> 1, applied |-> 0, pending |-> <<>>, next |-> 1, generation |-> generation]
<1>1. /\ client[Patcher].at = "begin" /\ UNCHANGED <<Machine, net, replies>>
      /\ Move(Patcher, Ended("failed", 0)) \/ Move(Patcher, HavePlan(p))
  BY DEF PreparePatch
<1>2. Acked = 0 /\ Asked = 0
  BY <1>1 DEF Acked, Asked
<1>3. CASE Move(Patcher, Ended("failed", 0))
  BY <1>1, <1>2, <1>3, PatcherEnds
<1>4. CASE Move(Patcher, HavePlan(p))
  <2>1. client'[Patcher] = HavePlan(p)
    BY <1>4, EditorMoves
  <2>2. /\ p.hunk = 1 /\ p.applied = 0 /\ p.pending = <<>> /\ p.next = 1 /\ p.generation = generation
        /\ p = [hunk |-> p.hunk, applied |-> p.applied, pending |-> p.pending, next |-> p.next, generation |-> p.generation]
    OBVIOUS
  <2> HIDE DEF p
  <2>3. client'[Patcher].at = "saved" /\ client'[Patcher].plan = p
    BY <2>1 DEF HavePlan
  <2>4. Len(Hunks) \in Nat
    BY FileAssumption
  <2>5. PlanOK(p)
    BY <2>2, <2>4, OpsBeforeFirst DEF PlanOK, Number
  <2>6. Cardinality(PatchDone) = 0 /\ \A i \in Nat : DerivedId(i) \notin Applied
    BY <1>2 DEF FilesInv, PatchOrder
  <2>7. Current(p.generation)
    BY <2>2, <2>6 DEF Current, PatchRecorded, FilesInv, FilesOK
  <2>8. PatcherOK'
    BY <1>1, <2>3, <2>5, <2>7, PlanStays, MachineFrame DEF PatcherOK, Planned
  <2>9. Acked' = 0 /\ Asked' = 0
    BY <2>2, <2>3 DEF Acked, Asked, Planned, Progress
  <2>10. InFlight' = InFlight
    BY <1>1, MachineFrame DEF InFlight
  <2> QED BY <1>1, <1>2, <1>4, <2>6, <2>8, <2>9, <2>10, PatcherFrame
<1> QED BY <1>1, <1>3, <1>4

LEMMA PlanIsLostFiles == ASSUME FilesInv, PlanIsLost PROVE FilesInv'
<1>1. Planned /\ Move(Patcher, Ended("failed", Progress.applied)) /\ UNCHANGED <<Machine, net, replies>>
  BY DEF PlanIsLost, Planned
<1> QED BY <1>1, PlanNumbers, PatcherEnds

LEMMA CompletePatchFiles == ASSUME FilesInv, CompletePatch PROVE FilesInv'
<1>1. /\ Planned /\ Progress.hunk > Len(Hunks) /\ UNCHANGED <<Machine, net, replies>>
      /\ Move(Patcher, Ended("ok", Progress.applied))
  BY DEF CompletePatch, MayStep, Planned
<1>2. PlanOK(Progress) /\ Len(Hunks) \in Nat
  BY <1>1, PlanNumbers, FileAssumption
<1>3. Progress.pending = <<>> /\ Progress.next = 1 /\ Progress.hunk = Len(Hunks) + 1
  BY <1>1, <1>2 DEF PlanOK, Staged
<1>4. OpsBefore(Len(Hunks) + 1) \in Nat
  BY <1>2, OpsBeforeType
<1>5. Progress.applied = AllOps
  BY <1>2, <1>3, <1>4 DEF PlanOK, Number, AllOps
<1> QED BY <1>1, <1>3, <1>5, PlanNumbers, PatcherEnds

\* Its position stays while a step of it is not saved.
LEMMA PatcherSteps ==
  ASSUME FilesInv, Planned, NEW next, Move(Patcher, next), UNCHANGED Machine, replies' \subseteq replies,
         next.plan = Progress,
         \/ next.at = "saved"
         \/ next.at = "sent" /\ Progress.pending # <<>>
         \/ next.at = "stepped" /\ WorkOK(Progress, next.work),
         \/ UNCHANGED net
         \/ /\ Progress.pending # <<>>
            /\ net' = net \cup {[req |-> Progress.pending[Progress.next], try |-> trouble]}
  PROVE  FilesInv'
<1>1. client'[Patcher] = next
  BY EditorMoves
<1>2. Planned' /\ Progress' = Progress
  BY <1>1 DEF Planned, Progress
<1>3. PatcherOK'
  <2>1. PlanOK(Progress)' /\ Current(Progress.generation)'
    BY <1>2, PlanNumbers, PlanStays, MachineFrame
  <2>2. next.at = "stepped" => WorkOK(Progress, next.work)'
    <3>1. \A w : WorkOK(Progress, w)' <=> WorkOK(Progress, w)
      BY <1>2, MachineFrame DEF PlanOK, WorkOK, Staged, IsPart
    <3> QED BY <3>1
  <2> QED BY <1>1, <1>2, <2>1, <2>2 DEF PatcherOK, Planned, Progress
<1>4. Acked' = Acked /\ Asked' = Asked
  BY <1>2 DEF Acked, Asked, Planned
<1>5. Acked \in Nat /\ Asked \in {Acked, Acked + 1} /\ Cardinality(PatchDone) \in Acked..Asked
  BY PatchCounts, PlanNumbers
<1>6. /\ InFlight \subseteq InFlight'
      /\ \A r \in InFlight' \ InFlight : OfPatch(r) /\ r.op[2] < Asked' /\ Current(r.generation)
  <2>1. CASE UNCHANGED net
    BY <2>1, MachineFrame DEF InFlight
  <2>2. CASE /\ Progress.pending # <<>>
             /\ net' = net \cup {[req |-> Progress.pending[Progress.next], try |-> trouble]}
    <3> DEFINE r == Progress.pending[Progress.next]
    <3>1. InFlight' = InFlight \cup {r}
      BY <2>2, RequestSent
    <3>2. PlanOK(Progress) /\ Staged(Progress) /\ Progress.next \in 1..Size(Progress.hunk) /\ Progress.hunk \in 1..Len(Hunks)
      BY <2>2, PlanNumbers, FileAssumption DEF PlanOK, Staged, Size
    <3>3. IsPart(r, Progress.hunk, Progress.next) /\ r.generation = Progress.generation
      BY <3>2 DEF Staged
    <3>4. r.op = DerivedId(Progress.applied)
      BY <3>2, <3>3 DEF PlanOK, IsPart
    <3>5. r.op[2] < Asked
      BY <2>2, <3>4, PlanNumbers DEF DerivedId
    <3> HIDE DEF r
    <3>6. OfPatch(r) /\ Current(r.generation)
      BY <3>2, <3>3, PlanNumbers DEF OfPatch
    <3> QED BY <1>4, <3>1, <3>5, <3>6
  <2> QED BY <2>1, <2>2
<1> QED BY <1>3, <1>4, <1>5, <1>6, PatcherFrame

LEMMA SendPatch == ASSUME FilesInv, Send(Patcher) PROVE FilesInv'
<1> DEFINE next == [at |-> "sent", plan |-> Progress, try |-> trouble]
<1>1. /\ Planned /\ Progress.pending # <<>> /\ UNCHANGED <<Machine, replies>> /\ Move(Patcher, next)
      /\ net' = net \cup {[req |-> Progress.pending[Progress.next], try |-> trouble]}
  BY DEF Send, Due, Planned, Progress
<1>2. next.at = "sent" /\ next.plan = Progress
  OBVIOUS
<1> HIDE DEF next
<1> QED BY <1>1, <1>2, PatcherSteps

LEMMA RetryPatch == ASSUME FilesInv, Retry(Patcher) PROVE FilesInv'
<1>1. Planned /\ UNCHANGED <<Machine, net, replies>> /\ Move(Patcher, HavePlan(Progress))
  BY DEF Retry, Planned, Progress
<1>2. HavePlan(Progress).at = "saved" /\ HavePlan(Progress).plan = Progress
  BY DEF HavePlan
<1> QED BY <1>1, <1>2, PatcherSteps

LEMMA PatchSteps ==
  ASSUME FilesInv, Planned, NEW work, Stepped(work), WorkOK(Progress, work),
         UNCHANGED <<Machine, net>>, replies' \subseteq replies
  PROVE  FilesInv'
<1> DEFINE next == [at |-> "stepped", plan |-> Progress, work |-> work]
<1>1. Move(Patcher, next) /\ next.at = "stepped" /\ next.plan = Progress /\ next.work = work
  BY DEF Stepped
<1> HIDE DEF next
<1> QED BY <1>1, PatcherSteps

LEMMA StageHunkFiles == ASSUME FilesInv, StageHunk PROVE FilesInv'
<1> DEFINE p == Progress
           h == Hunks[p.hunk]
           ops == Operations(h, p.applied, p.generation)
           w == [p EXCEPT !.pending = ops]
<1>1. /\ Planned /\ p.hunk <= Len(Hunks) /\ p.pending = <<>> /\ UNCHANGED <<Machine, net, replies>>
      /\ Move(Patcher, Ended("failed", p.applied)) \/ Stepped(w)
  BY DEF StageHunk, MayStep, Planned
<1>2. PlanOK(p) /\ p.hunk \in 1..Len(Hunks)
  BY <1>1, PlanNumbers, FileAssumption DEF PlanOK
<1>3. CASE Move(Patcher, Ended("failed", p.applied))
  BY <1>1, <1>3, PlanNumbers, PatcherEnds
<1>4. CASE Stepped(w)
  <2>1. w = [hunk |-> p.hunk, applied |-> p.applied, pending |-> ops, next |-> 1, generation |-> p.generation]
    BY <1>1, <1>2 DEF PlanOK
  <2>2. p.applied = OpsBefore(p.hunk) /\ OpsBefore(p.hunk) \in Nat
    BY <1>1, <1>2, OpsBeforeType, FileAssumption DEF PlanOK, Number
  <2>3. Number(p.hunk, 1) = p.applied /\ Number(p.hunk, 2) = p.applied + 1
    BY <2>2 DEF Number
  <2>4. /\ ops # <<>>
        /\ ops = IF Size(p.hunk) = 1 THEN <<ops[1]>> ELSE <<ops[1], ops[2]>>
        /\ \A i \in 1..Size(p.hunk) : IsPart(ops[i], p.hunk, i) /\ ops[i].generation = p.generation
    <3>1. CASE h.does = "delete"
      <4> DEFINE a == [op |-> DerivedId(p.applied), does |-> "remove", path |-> h.from,
                       expects |-> Anything, data |-> Absent, generation |-> p.generation]
      <4>1. ops = <<a>> /\ Size(p.hunk) = 1
        BY <3>1 DEF Operations, Size
      <4>2. IsPart(a, p.hunk, 1) /\ a.generation = p.generation
        BY <2>3, <3>1 DEF IsPart, Effect, Target
      <4> QED BY <4>1, <4>2
    <3>2. CASE h.does = "move"
      <4> DEFINE d == Derived(DerivedId(p.applied), ReadText(h.from))
                 a == [op |-> DerivedId(p.applied), does |-> "write", path |-> h.to,
                       expects |-> Anything, data |-> d, generation |-> p.generation]
                 b == [op |-> DerivedId(p.applied + 1), does |-> "remove", path |-> h.from,
                       expects |-> Anything, data |-> Absent, generation |-> p.generation]
      <4>1. ops = <<a, b>> /\ Size(p.hunk) = 2
        BY <3>2 DEF Operations, Size
      <4>2. IsPart(b, p.hunk, 2) /\ b.generation = p.generation
        BY <2>3, <3>2 DEF IsPart, Effect, Target
      <4>3. d = Derived(DerivedId(p.applied), d.base)
        BY DEF Derived
      <4>4. IsPart(a, p.hunk, 1) /\ a.generation = p.generation
        <5> HIDE DEF d
        <5> QED BY <2>3, <3>2, <4>3 DEF IsPart, Effect, Target
      <4> QED BY <4>1, <4>2, <4>4
    <3>3. CASE h.does \notin {"delete", "move"}
      <4> DEFINE d == Derived(DerivedId(p.applied), IF h.does = "add" THEN Absent ELSE ReadText(h.from))
                 a == [op |-> DerivedId(p.applied), does |-> "write", path |-> h.from,
                       expects |-> Anything, data |-> d, generation |-> p.generation]
      <4>1. ops = <<a>> /\ Size(p.hunk) = 1
        BY <3>3 DEF Operations, Size
      <4>3. d = Derived(DerivedId(p.applied), d.base)
        BY DEF Derived
      <4>4. IsPart(a, p.hunk, 1) /\ a.generation = p.generation
        <5> HIDE DEF d
        <5> QED BY <2>3, <3>3, <4>3 DEF IsPart, Effect, Target
      <4> QED BY <4>1, <4>4
    <3> QED BY <3>1, <3>2, <3>3
  <2> HIDE DEF ops
  <2>5. /\ w.hunk = p.hunk /\ w.applied = p.applied /\ w.pending = ops /\ w.next = 1 /\ w.generation = p.generation
        /\ w = [hunk |-> w.hunk, applied |-> w.applied, pending |-> w.pending, next |-> w.next,
                generation |-> w.generation]
    BY <2>1
  <2> HIDE DEF w
  <2>6. PlanOK(w)
    BY <1>2, <2>3, <2>4, <2>5 DEF PlanOK, Staged, Size
  <2>7. WorkOK(Progress, w)
    BY <1>1, <2>5, <2>6 DEF WorkOK
  <2> QED BY <1>1, <1>4, <2>7, PatchSteps
<1> QED BY <1>1, <1>3, <1>4

LEMMA AdvancePlan ==
  ASSUME NEW p, PlanOK(p), p.pending # <<>>
  PROVE  PlanOK(Advance(p)) /\ Advance(p).generation = p.generation /\ Advance(p).applied = p.applied + 1
<1>1. p.hunk \in 1..Len(Hunks) /\ Staged(p) /\ p.next \in 1..Size(p.hunk) /\ Len(Hunks) \in Nat
  BY FileAssumption DEF PlanOK, Staged, Size
<1>2. Len(p.pending) = Size(p.hunk)
  BY <1>1 DEF Staged, Size
<1>0. p.hunk \in Nat \ {0}
  BY <1>1
<1>3. OpsBefore(p.hunk) \in Nat /\ OpsBefore(p.hunk + 1) = OpsBefore(p.hunk) + Size(p.hunk)
  BY <1>0, OpsBeforeType, OpsBeforeNext
<1>4. p.applied = OpsBefore(p.hunk) + p.next - 1
  BY DEF PlanOK, Number
<1>5. CASE p.next = Len(p.pending)
  <2> DEFINE w == [hunk |-> p.hunk + 1, applied |-> p.applied + 1, pending |-> <<>>, next |-> 1, generation |-> p.generation]
  <2>1. Advance(p) = w
    BY <1>5 DEF Advance, PlanOK
  <2>2. w.applied = Number(w.hunk, 1)
    BY <1>2, <1>3, <1>4, <1>5 DEF Number, Size
  <2>3. PlanOK(w)
    BY <1>1, <2>2 DEF PlanOK
  <2> QED BY <2>1, <2>3
<1>6. CASE p.next # Len(p.pending)
  <2> DEFINE w == [hunk |-> p.hunk, applied |-> p.applied + 1, pending |-> p.pending, next |-> p.next + 1, generation |-> p.generation]
  <2>1. Advance(p) = w
    BY <1>6 DEF Advance, PlanOK
  <2>2. p.next = 1 /\ Size(p.hunk) = 2
    BY <1>1, <1>2, <1>6 DEF Size
  <2>3. w.applied = Number(w.hunk, w.next)
    BY <1>3, <1>4, <2>2 DEF Number
  <2>4. /\ w.hunk = p.hunk /\ w.pending = p.pending /\ w.next = 2 /\ w.generation = p.generation /\ w.applied = p.applied + 1
        /\ w = [hunk |-> w.hunk, applied |-> w.applied, pending |-> w.pending, next |-> w.next, generation |-> w.generation]
    BY <2>2
  <2> HIDE DEF w
  <2>5. Staged(w)
    BY <1>1, <2>2, <2>4 DEF Staged
  <2>6. PlanOK(w)
    BY <1>1, <2>3, <2>4, <2>5 DEF PlanOK
  <2> QED BY <2>1, <2>4, <2>6
<1> QED BY <1>5, <1>6

LEMMA ReceivePatch == ASSUME FilesInv, Receive(Patcher) PROVE FilesInv'
<1>1. client[Patcher].at = "sent" /\ Planned /\ UNCHANGED <<Machine, net>>
  BY DEF Receive, Planned
<1>2. PICK r \in replies : /\ r.op = Due(Patcher).op /\ replies' = replies \ {r}
                           /\ \/ r.result = "ok" /\ Stepped(Advance(Progress))
                              \/ Move(Patcher, Ended("failed", Progress.applied))
  BY DEF Receive
<1>3. CASE Move(Patcher, Ended("failed", Progress.applied))
  BY <1>1, <1>2, <1>3, PlanNumbers, PatcherEnds
<1>4. CASE r.result = "ok" /\ Stepped(Advance(Progress))
  <2>1. Progress.pending # <<>> /\ PlanOK(Progress)
    BY <1>1, PlanNumbers DEF FilesInv, PatcherOK, Progress
  <2>2. Due(Patcher).op = DerivedId(Progress.applied)
    <3>1. Staged(Progress) /\ Progress.next \in 1..Size(Progress.hunk)
      BY <2>1 DEF PlanOK, Staged, Size
    <3> QED BY <2>1, <3>1 DEF Due, PlanOK, Staged, IsPart
  <2>3. DerivedId(Progress.applied) \in Applied
    BY <1>2, <1>4, <2>2 DEF FilesInv, RecordsOK
  <2>4. WorkOK(Progress, Advance(Progress))
    BY <2>1, <2>3, AdvancePlan DEF WorkOK
  <2> QED BY <1>1, <1>2, <1>4, <2>4, PatchSteps
<1> QED BY <1>2, <1>3, <1>4

LEMMA SavePlanFiles == ASSUME FilesInv, SavePlan PROVE FilesInv'
<1> DEFINE p == Progress
           w == client[Patcher].work
<1>1. /\ client[Patcher].at = "stepped" /\ Planned /\ UNCHANGED <<Machine, net, replies>>
      /\ Move(Patcher, HavePlan(w))
  BY DEF SavePlan, Planned
<1>2. WorkOK(p, w)
  BY <1>1 DEF FilesInv, PatcherOK, Progress
<1>3. client'[Patcher] = HavePlan(w)
  BY <1>1, EditorMoves
<1> HIDE DEF w
<1>4. client'[Patcher].at = "saved" /\ client'[Patcher].plan = w
  BY <1>3 DEF HavePlan
<1>5. Planned' /\ Progress' = w
  BY <1>4 DEF Planned, Progress
<1>6. PatcherOK'
  <2>1. PlanOK(w) /\ Current(w.generation)
    BY <1>1, <1>2, PlanNumbers DEF WorkOK
  <2>2. PlanOK(Progress)' /\ Current(Progress.generation)'
    BY <1>1, <1>5, <2>1, PlanStays, MachineFrame
  <2> QED BY <1>4, <1>5, <2>2 DEF PatcherOK, Planned, Progress
<1>7. Acked' = w.applied /\ Asked' = IF w.pending = <<>> THEN Acked' ELSE Acked' + 1
  BY <1>4, <1>5 DEF Acked, Asked, Planned
<1>8. Asked' \in Int /\ Asked <= Asked' /\ Cardinality(PatchDone) \in Acked'..Asked'
  BY <1>1, <1>2, <1>7, PlanNumbers DEF WorkOK
<1>9. InFlight' = InFlight
  BY <1>1, MachineFrame DEF InFlight
<1> QED BY <1>1, <1>6, <1>8, <1>9, PatcherFrame

\* Every step of the supervisor, the clients and the host keeps the invariant.
LEMMA FilesStep == ASSUME FilesInv, [FilesNext]_fileVars PROVE FilesInv'
<1>1. ASSUME NEW call \in net, Accept(call) PROVE FilesInv'
  BY <1>1, AcceptFiles
<1>2. CASE Refuse
  BY <1>2, RefuseFiles
<1>3. CASE CheckCondition
  BY <1>3, CheckConditionFiles
<1>4. CASE Mutate
  BY <1>4, MutateFiles
<1>5. CASE FillInPlace
  BY <1>5, FillInPlaceFiles
<1>6. CASE Acknowledge
  BY <1>6, AcknowledgeFiles
<1>7. CASE DropRequest
  BY <1>7, DropRequestFiles
<1>8. CASE RestartHost
  BY <1>8, RestartHostFiles
<1>9. ASSUME NEW p \in Paths, OutsideWrite(p) PROVE FilesInv'
  BY <1>9, OutsideWriteFiles
<1>10. ASSUME NEW c \in Editors, StatFile(c) \/ ReadPages(c) \/ PlanWrite(c) PROVE FilesInv'
  BY <1>10, StatFileFiles, ReadPagesFiles, PlanWriteFiles
<1>11. ASSUME NEW c \in Editors, Send(c) \/ Receive(c) \/ Retry(c) PROVE FilesInv'
  BY <1>11, SendEdit, ReceiveEdit, RetryEdit
<1>12. CASE Send(Patcher) \/ Receive(Patcher) \/ Retry(Patcher)
  BY <1>12, SendPatch, ReceivePatch, RetryPatch
<1>13. CASE PreparePatch \/ StageHunk \/ SavePlan \/ PlanIsLost \/ CompletePatch
  BY <1>13, PreparePatchFiles, StageHunkFiles, SavePlanFiles, PlanIsLostFiles, CompletePatchFiles
<1>14. CASE UNCHANGED fileVars
  <2>1. UNCHANGED <<file, records, generation, serving, net, replies, client, mutations, outside>>
    BY <1>14 DEF fileVars
  <2>2. Quiet
    BY <2>1 DEF Quiet, InFlight, Recorded, FilesInv, FilesOK
  <2>3. RecordsOK' /\ ServingOK'
    BY <2>1 DEF FilesInv, RecordsOK, ServingOK, Served, Applied, Fenced, Recorded, MayWrite,
                InPlace
  <2> QED BY <2>2, <2>3, QuietFrame DEF FilesInv
<1>15. ASSUME NEW c \in Editors \cup {Patcher}, Send(c) \/ Receive(c) \/ Retry(c) PROVE FilesInv'
  <2>1. c \in Editors \/ c = Patcher
    OBVIOUS
  <2>2. CASE c \in Editors
    BY <1>11, <1>15, <2>2
  <2>3. CASE c = Patcher
    BY <1>12, <1>15, <2>3
  <2> QED BY <2>1, <2>2, <2>3
<1> QED BY <1>1, <1>2, <1>3, <1>4, <1>5, <1>6, <1>7, <1>8, <1>9, <1>10, <1>13, <1>14, <1>15 DEF FilesNext

-----------------------------------------------------------------------------
\* The refinement of FileContract.
Content == [p \in Paths |-> Settles(p)]
Told == {r.op : r \in {r \in replies : r.result = "ok"}}
Disturbed == outside + generation

LEMMA ContractInit == ASSUME FilesInit PROVE Contract!Init
<1>1. \A p \in Paths : Settles(p) = Original(p)
  BY DEF FilesInit, Settles, Nobody
<1>2. Content \in [Paths -> [of : {"original"}, path : Paths]]
  BY <1>1 DEF Content, Original
<1>3. mutations = <<>> /\ Told = {} /\ Disturbed = 0
  BY DEF FilesInit, Told, Disturbed
<1> QED BY <1>2, <1>3 DEF Contract!Init, Content, Told, Disturbed

\* A step that changes no content answers, or does nothing the contract speaks of.
LEMMA ContractAnswers ==
  ASSUME FilesInv', UNCHANGED <<mutations, outside, generation>>, Content' = Content
  PROVE  Contract!Next
<1>1. Told' \subseteq Applied'
  BY DEF FilesInv, RecordsOK, Told
<1>2. Told' \subseteq Applied
  BY <1>1 DEF Applied
<1>3. Contract!Answer
  BY <1>2 DEF Contract!Answer, Contract!Done, Told, Applied, Content, Disturbed
<1> QED BY <1>3 DEF Contract!Next

LEMMA ContractOutside ==
  ASSUME UNCHANGED <<mutations, replies>>, NEW p \in Paths, Disturbed' = Disturbed + 1,
         \A q \in Paths : q # p => Content'[q] = Content[q]
  PROVE  Contract!Next
<1>1. Content' = [Content EXCEPT ![p] = Content'[p]]
  BY DEF Content
<1>2. Told' = Told
  BY DEF Told
<1>3. Contract!Outside(p)
  BY <1>1, <1>2 DEF Contract!Outside, Told, Content, Disturbed
<1> QED BY <1>3 DEF Contract!Next

\* The steps of the supervisor that leave the files alone, or complete a write.
LEMMA ContractQuiet ==
  ASSUME FilesInv, FilesInv',
         \/ \E call \in net : Accept(call)
         \/ Refuse \/ CheckCondition \/ FillInPlace \/ Acknowledge \/ DropRequest
  PROVE  Contract!Next
<1>1. UNCHANGED <<mutations, outside, generation>>
  BY DEF Accept, Refuse, CheckCondition, FillInPlace, Acknowledge, DropRequest
<1>2. ASSUME UNCHANGED file, serving.stage # "half", serving'.stage # "half" PROVE Content' = Content
  BY <1>2 DEF Content, Settles
<1>3. ASSUME serving.stage = "half", serving'.stage # "half",
             file' = [file EXCEPT ![serving.req.path] = serving.req.data]
      PROVE  Content' = Content
  <2>1. \A p \in Paths : file'[p] = IF p = serving.req.path THEN serving.req.data ELSE file[p]
    BY <1>3 DEF FilesInv, FilesOK
  <2> QED BY <1>3, <2>1 DEF Content, Settles
<1>4. CASE \E call \in net : Accept(call)
  <2>1. UNCHANGED file /\ serving.stage # "half" /\ serving'.stage # "half"
    BY <1>4 DEF Accept, Nobody
  <2> QED BY <1>1, <1>2, <2>1, ContractAnswers
<1>5. CASE Refuse \/ CheckCondition \/ Acknowledge
  <2>1. UNCHANGED file /\ serving.stage \in {"locked", "checked", "applied"}
    BY <1>5 DEF Refuse, CheckCondition, Acknowledge
  <2>2. serving = [stage |-> serving.stage, req |-> serving.req, try |-> serving.try]
    BY <2>1 DEF FilesInv, ServingOK, Served, Nobody
  <2>3. serving'.stage # "half"
    BY <1>5, <2>2 DEF Refuse, CheckCondition, Acknowledge, Nobody
  <2> QED BY <1>1, <1>2, <2>1, <2>3, ContractAnswers
<1>6. CASE FillInPlace
  <2>1. serving = [stage |-> serving.stage, req |-> serving.req, try |-> serving.try]
    BY <1>6 DEF FilesInv, ServingOK, Served, Nobody, FillInPlace
  <2>2. serving'.stage # "half"
    BY <1>6, <2>1 DEF FillInPlace
  <2> QED BY <1>1, <1>3, <1>6, <2>2, ContractAnswers DEF FillInPlace
<1>7. CASE DropRequest
  <2>1. serving'.stage # "half"
    BY <1>7 DEF DropRequest, Nobody
  <2> QED BY <1>1, <1>2, <1>3, <1>7, <2>1, ContractAnswers DEF DropRequest
<1> QED BY <1>4, <1>5, <1>6, <1>7

\* A restart interrupts a write in place; a process writes a file.
LEMMA ContractRestart == ASSUME FilesInv, FilesInv', RestartHost PROVE Contract!Next
<1>1. /\ UNCHANGED <<mutations, replies, file>> /\ serving'.stage # "half"
      /\ outside' = outside /\ generation' = generation + 1
  BY DEF RestartHost, Nobody
<1>2. Disturbed' = Disturbed + 1
  BY <1>1 DEF Disturbed, FilesInv, FilesOK
<1>3. CASE serving.stage # "half"
  <2>1. Content' = Content /\ Told' = Told
    BY <1>1, <1>3 DEF Content, Settles, Told
  <2>2. Contract!End
    BY <1>1, <1>2, <2>1 DEF Contract!End, Content, Told, Disturbed
  <2> QED BY <2>2 DEF Contract!Next
<1>4. CASE serving.stage = "half"
  <2>1. serving.req.path \in Paths
    BY <1>4, RequestedPath DEF FilesInv, ServingOK, Nobody
  <2> QED BY <1>1, <1>2, <1>4, <2>1, ContractOutside DEF Content, Settles
<1> QED BY <1>3, <1>4

LEMMA ContractWrites == ASSUME FilesInv, FilesInv', NEW p \in Paths, OutsideWrite(p) PROVE Contract!Next
<1>1. /\ UNCHANGED <<mutations, replies, serving>> /\ \E w : file' = [file EXCEPT ![p] = w]
      /\ outside' = outside + 1 /\ generation' = generation
  BY DEF OutsideWrite, supervisor
<1>2. \A q \in Paths : q # p => file'[q] = file[q]
  BY <1>1 DEF FilesInv, FilesOK
<1>3. Disturbed' = Disturbed + 1
  BY <1>1 DEF Disturbed, FilesInv, FilesOK
<1>4. \A q \in Paths : q # p => Content'[q] = Content[q]
  BY <1>1, <1>2 DEF Content, Settles
<1> QED BY <1>1, <1>3, <1>4, ContractOutside

\* A mutation takes effect under its condition, and a fenced one for the first time.
LEMMA ContractMutates == ASSUME FilesInv, Mutate PROVE Contract!Next
<1> DEFINE r == serving.req
           m == mutations'[Len(mutations')]
           L == Len(mutations)
<1>1. /\ m.op = r.op /\ m.does = r.does /\ m.path = r.path /\ m.expects = r.expects /\ m.data = r.data
      /\ m.fenced = Fenced(r)
      /\ Len(mutations') = L + 1 /\ L \in Nat
  BY MutateHistory
<1>2. mutations' = Append(mutations, m)
  <2>1. mutations' = Append(mutations, mutations'[L + 1])
    BY MutateHistory DEF Mutate
  <2> QED BY <1>1, <2>1
<1>3. /\ Fenced(r) => r.op \notin Applied
      /\ IF r.does = "remove" THEN MayRemove(r) ELSE MayWrite(r)
      /\ r.path \in Paths /\ serving.stage = "checked" /\ RequestOK(r) /\ Served
  BY MutateStep, ServedOnce DEF Served, Mutate
<1>4. Told' = Told /\ Disturbed' = Disturbed
  BY MutateStep DEF Told, Disturbed
<1>5. Content[r.path] = file[r.path]
  BY <1>3 DEF Content, Settles
<1>6. Content' = [Content EXCEPT ![r.path] = r.data]
  <2>1. \A p \in Paths : Settles(p) = file[p]
    BY <1>3 DEF Settles
  <2>2. \A p \in Paths : Settles(p)' = IF p = r.path THEN r.data ELSE file[p]
    <3>1. CASE InPlace(r)
      BY <3>1, MutateStep DEF Settles
    <3>2. CASE ~InPlace(r)
      BY <3>2, MutateStep DEF Settles, Written
    <3> QED BY <3>1, <3>2
  <2> QED BY <2>1, <2>2 DEF Content
<1>7. r.does = "write" \/ (r.does = "remove" /\ r.data = Absent)
  BY <1>3, RequestedData
<1> HIDE DEF m, r, L
<1>8. Contract!Takes(m)
  BY <1>1, <1>2, <1>3 DEF Contract!Takes, Contract!Done, Applied, m, L
<1>9. CASE r.does = "write"
  <2>1. r.expects = Anything \/ Content[r.path] = r.expects
    BY <1>3, <1>5, <1>9 DEF MayWrite
  <2>2. Contract!Write
    BY <1>1, <1>4, <1>6, <1>8, <1>9, <2>1 DEF Contract!Write, Contract!Holds, Content, Told, Disturbed, m
  <2> QED BY <1>1, <2>2 DEF Contract!Next, L
<1>10. CASE r.does = "remove" /\ r.data = Absent
  <2>1. Content[r.path] # Absent
    BY <1>3, <1>5, <1>10 DEF MayRemove
  <2>2. Contract!Remove
    BY <1>1, <1>4, <1>6, <1>8, <1>10, <2>1 DEF Contract!Remove, Content, Told, Disturbed, m
  <2> QED BY <1>1, <2>2 DEF Contract!Next, L
<1> QED BY <1>7, <1>9, <1>10

\* The clients change nothing on the host.
LEMMA ContractClients == ASSUME FilesInv', UNCHANGED Machine PROVE Contract!Next
<1>1. UNCHANGED <<mutations, file, serving, outside, generation>>
  BY DEF Machine, supervisor
<1>2. Content' = Content
  BY <1>1 DEF Content, Settles
<1> QED BY <1>1, <1>2, ContractAnswers

LEMMA ContractStep ==
  ASSUME FilesInv, FilesInv', [FilesNext]_fileVars PROVE [Contract!Next]_(Contract!contractVars)
<1>1. CASE UNCHANGED fileVars
  <2>1. UNCHANGED Machine
    BY <1>1 DEF fileVars, Machine, supervisor
  <2> QED BY <2>1, ContractClients
<1>2. CASE \/ \E call \in net : Accept(call)
           \/ Refuse \/ CheckCondition \/ FillInPlace \/ Acknowledge \/ DropRequest
  BY <1>2, ContractQuiet
<1>3. CASE Mutate
  BY <1>3, ContractMutates
<1>4. CASE RestartHost
  BY <1>4, ContractRestart
<1>5. CASE \E p \in Paths : OutsideWrite(p)
  BY <1>5, ContractWrites
<1>6. CASE \/ \E c \in Editors : StatFile(c) \/ ReadPages(c) \/ PlanWrite(c)
           \/ \E c \in Editors \cup {Patcher} : Send(c) \/ Receive(c) \/ Retry(c)
           \/ PreparePatch \/ StageHunk \/ SavePlan \/ PlanIsLost \/ CompletePatch
  <2>1. UNCHANGED Machine
    BY <1>6 DEF StatFile, ReadPages, PlanWrite, Send, Receive, Retry, PreparePatch, StageHunk, SavePlan,
                PlanIsLost, CompletePatch
  <2> QED BY <2>1, ContractClients
<1> QED BY <1>1, <1>2, <1>3, <1>4, <1>5, <1>6 DEF FilesNext

-----------------------------------------------------------------------------
LEMMA EditsReplaceWhatTheyRead == ASSUME FilesInv PROVE EditReplacesWhatItRead
<1> SUFFICES ASSUME NEW k \in 1..Len(mutations), mutations[k].op[1] \in Editors
             PROVE  mutations[k].replaced = mutations[k].data.base
  BY DEF EditReplacesWhatItRead
<1>1. MutationOK(mutations[k])
  BY DEF FilesInv, HistoryOK
<1>2. \A n : DerivedId(n)[1] = Patcher
  BY DEF DerivedId
<1> QED BY <1>1, <1>2, FileAssumption DEF MutationOK

LEMMA ReportsAreTrue == ASSUME FilesInv PROVE PatchReportIsTrue
<1>1. ASSUME client[Patcher].at = "answered"
      PROVE  /\ client[Patcher].result = "ok" => Cardinality(PatchDone) = AllOps /\ client[Patcher].applied = AllOps
             /\ client[Patcher].result = "failed" => Cardinality(PatchDone) \in {client[Patcher].applied, client[Patcher].applied + 1}
  <2>1. /\ client[Patcher].applied \in Nat
        /\ client[Patcher].result = "ok" => client[Patcher].applied = AllOps
    BY <1>1 DEF FilesInv, PatcherOK
  <2>2. Acked = client[Patcher].applied /\ Asked = IF client[Patcher].result = "ok" THEN Acked ELSE Acked + 1
    BY <1>1 DEF Acked, Asked, Planned
  <2>3. Cardinality(PatchDone) \in Acked..Asked
    BY DEF FilesInv, PatchOrder
  <2> QED BY <2>1, <2>2, <2>3
<1> QED BY <1>1 DEF PatchReportIsTrue, FilesInv, PatchOrder

\* Records, answers, plans and requests agree with what took effect, and a request of
\* the patch has had its effect only if it is on record or of an earlier generation: the
\* inductive invariant of the supervisor's filesystem and its clients (filesystem.rs of
\* the supervisor, edit and apply_patch).
THEOREM FilesAgree == FilesSpec => []FilesInv
<1>1. FilesInit => FilesInv
  BY InitFiles
<1>2. FilesInv /\ [FilesNext]_fileVars => FilesInv'
  BY FilesStep
<1> QED BY <1>1, <1>2, PTL DEF FilesSpec

\* Whatever the files, the editors, the hunks and the faults, and whatever other processes
\* write, restore or remove: a fenced mutation takes effect at most once, any mutation
\* takes effect under its condition and is answered only then; an edit, a repeated one
\* too, replaces what it was derived from; apply_patch reports what it did.
THEOREM FilesAlwaysKeepTheirContract == FilesSpec => FilesKeepTheirContract
<1>1. FilesInit => Contract!Init
  BY ContractInit
<1>2. FilesInv /\ FilesInv' /\ [FilesNext]_fileVars => [Contract!Next]_(Contract!contractVars)
  BY ContractStep
<1>3. FilesInv => EditReplacesWhatItRead /\ PatchReportIsTrue
  BY EditsReplaceWhatTheyRead, ReportsAreTrue
<1>4. FilesSpec => []FilesInv
  BY FilesAgree
<1> QED BY <1>1, <1>2, <1>3, <1>4, PTL DEF FilesSpec, FilesKeepTheirContract, FilesImplementContract, Contract!Spec
=============================================================================
