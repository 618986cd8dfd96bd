----------------------------- MODULE EventJournal -----------------------------
(***************************************************************************)
(* The event journal of one process (execution-supervisor-core,            *)
(* process/journal.rs): what the process does is appended under a lock,    *)
(* and clients page through it with a cursor, waiting for more if they     *)
(* like.                                                                   *)
(*                                                                         *)
(* Every output byte and every other event has a sequence number of its    *)
(* own, so what a client received is the sequence of those numbers.        *)
(*                                                                         *)
(* Definitions under "Faulty variant" are not part of the specification.   *)
(***************************************************************************)
EXTENDS Integers, Sequences, SequencesExt

CONSTANTS
    Readers,          \* clients, each with a cursor of its own
    MaxChunk,         \* bound: bytes of one output event
    MaxRead,          \* bound: max_bytes of one read
    MaxSequence,      \* bound: sequence numbers of output and the start event
    MaxJournalFaults, \* bound: appends that fail
    MaxLost           \* bound: replies that are lost

ASSUME SizesAssumption == MaxChunk \in Nat \ {0} /\ MaxRead \in Nat \ {0}
ASSUME BoundsAssumption == MaxSequence \in Nat /\ MaxJournalFaults \in Nat /\ MaxLost \in Nat

VARIABLES
    entries,       \* the index of the journal file
    journalState,  \* ExecutionState
    journalClosed, \* whether Closed was appended
    skew,          \* bytes in the file that no entry accounts for
    unsaid,        \* is a notify_waiters call still to come?
    journalFaults, \* appends that failed so far
    lost,          \* replies lost so far
    readerPc,      \* what a reader's request does next
    ask,           \* its request: cursor, max_bytes, whether it waits
    woken,         \* whether its notification has fired
    cursor,        \* the last sequence number a reader has
    got            \* the sequence numbers it received, in order

journalVars == <<entries, journalState, journalClosed, skew, unsaid, journalFaults>>
readerVars == <<readerPc, ask, woken, cursor, got, lost>>
journalAll == <<journalVars, readerVars>>

JournalStates == {"starting", "running", "exited", "cancelled", "failed"}
JournalTerminal(s) == s \in {"exited", "cancelled", "failed"}

\* The sequence number of the newest entry.
LastSequence == IF entries = <<>> THEN 0 ELSE Last(entries).last

Entry == [first : Nat, last : Nat, bytes : Nat, skew : Nat]
Asks == [after : Nat, max : 1..MaxRead, waits : BOOLEAN]

\* Types.
JournalTypeOK ==
    /\ entries \in Seq(Entry)
    /\ journalState \in JournalStates /\ journalClosed \in BOOLEAN /\ unsaid \in BOOLEAN
    /\ skew \in Nat /\ journalFaults \in 0..MaxJournalFaults /\ lost \in 0..MaxLost
    /\ readerPc \in [Readers -> {"idle", "first", "check", "wait", "second"}]
    /\ ask \in [Readers -> Asks]
    /\ woken \in [Readers -> BOOLEAN]
    /\ cursor \in [Readers -> Nat]
    /\ got \in [Readers -> Seq(Nat)]

JournalInit ==
    /\ entries = <<>> /\ journalState = "starting" /\ journalClosed = FALSE
    /\ skew = 0 /\ unsaid = FALSE /\ journalFaults = 0 /\ lost = 0
    /\ readerPc = [r \in Readers |-> "idle"]
    /\ ask = [r \in Readers |-> [after |-> 0, max |-> 1, waits |-> FALSE]]
    /\ woken = [r \in Readers |-> FALSE]
    /\ cursor = [r \in Readers |-> 0]
    /\ got = [r \in Readers |-> <<>>]

-----------------------------------------------------------------------------
(* Appending. *)

\* append_locked: output takes a sequence number per byte, anything else one.
EntryAfter(seq, bytes) ==
    LET last == IF seq = <<>> THEN 0 ELSE Last(seq).last
    IN  [first |-> last + 1, last |-> last + (IF bytes = 0 THEN 1 ELSE bytes), bytes |-> bytes, skew |-> skew]

\* The events of one call, each zero bytes or an output.
Append1(bytes) == Append(entries, EntryAfter(entries, bytes))
Append2 == Append(Append1(0), EntryAfter(Append1(0), 0))

\* A failed write may leave bytes in the file that file_length does not count.
JournalFault ==
    /\ journalFaults < MaxJournalFaults
    /\ journalFaults' = journalFaults + 1
    /\ skew' \in {skew, skew + 1}

NoFault == UNCHANGED <<journalFaults, skew>>

\* mark_started.
JournalMarkStarted ==
    /\ journalState = "starting" /\ entries = <<>>
    /\ journalState' = "running"
    /\ \/ entries' = Append1(0) /\ unsaid' = TRUE /\ NoFault
       \/ JournalFault /\ UNCHANGED <<entries, unsaid>>
    /\ UNCHANGED <<journalClosed, readerVars>>

\* append_output: nothing is appended to a closed journal.
AppendOutput(bytes) ==
    /\ entries # <<>>
    /\ ~journalClosed
    /\ LastSequence + bytes <= MaxSequence
    /\ \/ entries' = Append1(bytes) /\ unsaid' = TRUE /\ NoFault
       \/ JournalFault /\ UNCHANGED <<entries, unsaid>>
    /\ UNCHANGED <<journalState, journalClosed, readerVars>>

\* mark_exited: the child's exit, before the output is drained.
JournalMarkExited(final) ==
    /\ entries # <<>>
    /\ ~JournalTerminal(journalState)
    /\ journalState' = final
    /\ \/ entries' = Append1(0) /\ unsaid' = TRUE /\ NoFault
       \/ JournalFault /\ UNCHANGED <<entries, unsaid>>
    /\ UNCHANGED <<journalClosed, readerVars>>

\* finish_exited: the exit, if it was not marked before, and the end.
FinishExited(final) ==
    /\ entries # <<>>
    /\ ~journalClosed
    /\ journalState' = IF JournalTerminal(journalState) THEN journalState ELSE final
    /\ \/ /\ entries' = IF JournalTerminal(journalState) THEN Append1(0) ELSE Append2
          /\ journalClosed' = TRUE /\ unsaid' = TRUE /\ NoFault
       \/ /\ JournalFault
          /\ entries' \in (IF JournalTerminal(journalState) THEN {entries} ELSE {entries, Append1(0)})
          /\ UNCHANGED <<journalClosed, unsaid>>
    /\ UNCHANGED readerVars

\* finish_failed: also after an exit that was marked, if its output was not read.
FinishFailed ==
    /\ entries # <<>>
    /\ ~journalClosed
    /\ journalState' = "failed"
    /\ \/ entries' = Append2 /\ journalClosed' = TRUE /\ unsaid' = TRUE /\ NoFault
       \/ JournalFault /\ entries' \in {entries, Append1(0)} /\ UNCHANGED <<journalClosed, unsaid>>
    /\ UNCHANGED readerVars

\* close, after a finish that failed.
Close ==
    /\ entries # <<>>
    /\ JournalTerminal(journalState)
    /\ ~journalClosed
    /\ \/ entries' = Append1(0) /\ journalClosed' = TRUE /\ unsaid' = TRUE /\ NoFault
       \/ JournalFault /\ UNCHANGED <<entries, journalClosed, unsaid>>
    /\ UNCHANGED <<journalState, readerVars>>

\* notify_waiters, after the lock is released: wakes those that wait now.
Notify ==
    /\ unsaid
    /\ unsaid' = FALSE
    /\ woken' = [r \in Readers |-> woken[r] \/ readerPc[r] # "idle"]
    /\ UNCHANGED <<entries, journalState, journalClosed, skew, journalFaults, readerPc, ask, cursor, got, lost>>

-----------------------------------------------------------------------------
(* Reading. *)

Least(a, b) == IF a < b THEN a ELSE b

\* How much of an output entry the cursor is past.
AlreadyRead(e, after) == IF after < e.first THEN 0 ELSE Least(after - e.first + 1, e.bytes)

\* Faulty variant.
PickWhole(sel, e, after, max) ==
    IF sel.stop \/ sel.used + e.bytes > max THEN [sel EXCEPT !.stop = TRUE]
    ELSE [sel EXCEPT !.picks = Append(@, [entry |-> e, offset |-> 0, length |-> e.bytes, sequence |-> e.last]),
                     !.used = @ + e.bytes]

\* One entry of the loop in read_now.
Pick(sel, e, after, max) ==
    LET skip == AlreadyRead(e, after)
        left == max - sel.used
        take == Least(e.bytes - skip, left)
    IN  CASE sel.stop -> sel
          [] ~sel.stop /\ e.bytes = 0 ->
               [sel EXCEPT !.picks = Append(@, [entry |-> e, offset |-> 0, length |-> 0, sequence |-> e.last])]
          [] ~sel.stop /\ e.bytes # 0 /\ left = 0 -> [sel EXCEPT !.stop = TRUE]
          [] OTHER ->
               [picks |-> Append(sel.picks, [entry |-> e, offset |-> skip, length |-> take,
                                             sequence |-> e.first + skip + take - 1]),
                used  |-> sel.used + take,
                stop  |-> take < e.bytes - skip]

\* read_now: what is after the cursor, up to max bytes of output.
Selected(after, max) ==
    LET step(sel, e) == Pick(sel, e, after, max)
    IN  FoldLeft(step, [picks |-> <<>>, used |-> 0, stop |-> FALSE],
                 SelectSeq(entries, LAMBDA e : e.last > after)).picks

\* The sequence numbers that the data of a selected entry stands for.
Numbers(p) ==
    IF p.entry.bytes = 0 THEN <<p.entry.last>>
    ELSE [k \in 1..p.length |-> p.entry.first + p.offset + k - 1]

\* A record that does not start at its entry's offset cannot be decoded.
Readable(picks) == \A k \in 1..Len(picks) : picks[k].entry.skew = 0

\* A reply reaches the client, or is lost: then the client still has its cursor.
Reply(r, picks) ==
    LET received == IF Readable(picks) THEN picks ELSE <<>>
    IN  /\ readerPc' = [readerPc EXCEPT ![r] = "idle"]
        /\ \/ /\ got' = [got EXCEPT ![r] = @ \o FlattenSeq([k \in 1..Len(received) |-> Numbers(received[k])])]
              /\ cursor' = [cursor EXCEPT ![r] = IF received = <<>> THEN @ ELSE Last(received).sequence]
              /\ lost' = lost
           \/ /\ received # <<>> /\ lost < MaxLost
              /\ lost' = lost + 1
              /\ UNCHANGED <<got, cursor>>

\* read: the notification is registered before the journal is looked at.
BeginRead(r, max, waits) ==
    /\ readerPc[r] = "idle"
    /\ readerPc' = [readerPc EXCEPT ![r] = "first"]
    /\ ask' = [ask EXCEPT ![r] = [after |-> cursor[r], max |-> max, waits |-> waits]]
    /\ woken' = [woken EXCEPT ![r] = FALSE]
    /\ UNCHANGED <<journalVars, cursor, got, lost>>

FirstRead(r) ==
    LET picks == Selected(ask[r].after, ask[r].max) IN
    /\ readerPc[r] = "first"
    /\ IF picks # <<>> THEN Reply(r, picks)
       ELSE readerPc' = [readerPc EXCEPT ![r] = "check"] /\ UNCHANGED <<got, cursor, lost>>
    /\ UNCHANGED <<journalVars, ask, woken>>

\* Faulty variant.
CheckThenRegister(r) ==
    /\ readerPc[r] = "check"
    /\ IF journalClosed \/ ~ask[r].waits THEN Reply(r, <<>>) /\ UNCHANGED woken
       ELSE /\ readerPc' = [readerPc EXCEPT ![r] = "wait"] /\ woken' = [woken EXCEPT ![r] = FALSE]
            /\ UNCHANGED <<got, cursor, lost>>
    /\ UNCHANGED <<journalVars, ask>>

\* Nothing yet: a closed journal has no more to offer.
CheckClosed(r) ==
    /\ readerPc[r] = "check"
    /\ IF journalClosed \/ ~ask[r].waits THEN Reply(r, <<>>)
       ELSE readerPc' = [readerPc EXCEPT ![r] = "wait"] /\ UNCHANGED <<got, cursor, lost>>
    /\ UNCHANGED <<journalVars, ask, woken>>

\* The notification, or the end of the wait.
EndWait(r) ==
    /\ readerPc[r] = "wait"
    /\ readerPc' = [readerPc EXCEPT ![r] = "second"]
    /\ UNCHANGED <<journalVars, ask, woken, cursor, got, lost>>

SecondRead(r) ==
    /\ readerPc[r] = "second"
    /\ Reply(r, Selected(ask[r].after, ask[r].max))
    /\ UNCHANGED <<journalVars, ask, woken>>

Serve(r) == FirstRead(r) \/ CheckClosed(r) \/ EndWait(r) \/ SecondRead(r)

JournalWrite ==
    \/ JournalMarkStarted
    \/ \E n \in 1..MaxChunk : AppendOutput(n)
    \/ \E final \in {"exited", "cancelled", "failed"} : JournalMarkExited(final) \/ FinishExited(final)
    \/ FinishFailed
    \/ Close

JournalNext ==
    \/ JournalWrite
    \/ Notify
    \/ \E r \in Readers : Serve(r) \/ \E max \in 1..MaxRead, waits \in BOOLEAN : BeginRead(r, max, waits)

\* A client that has not seen the end asks again.
\* (Serve is enabled exactly while a request is under way, and BeginRead while
\* none is, so this is the weak fairness of both.)
JournalFairness ==
    \A r \in Readers : []<>(readerPc[r] = "idle") /\ []<>(readerPc[r] # "idle")

JournalSpec == JournalInit /\ [][JournalNext]_journalAll
JournalFairSpec == JournalSpec /\ JournalFairness

-----------------------------------------------------------------------------
(* Properties. *)

\* A client has exactly what its cursor says, every byte and every event once and
\* in order, although pages end inside an output event, replies are lost and the
\* journal grows meanwhile ("`process.read` can resume after a transport
\* interruption", execution-supervisor-core/README.md:17).
NothingLostOrRepeated ==
    \A r \in Readers : got[r] = [k \in 1..cursor[r] |-> k]

\* No wake-up is missed: a reader waits on a journal that has more for it only as
\* long as the notification is on its way or a failed append has kept it back
\* (journal.rs:219-231).
NoMissedWake ==
    \A r \in Readers : readerPc[r] = "wait" /\ ~woken[r] /\ journalFaults = 0 => LastSequence = ask[r].after \/ unsaid

\* "`Closed` marks the end of the journal" (execution-core/README.md:49): nothing
\* follows it, and the outcome that was published with it stays.
ClosedIsTheEnd == [][journalClosed => UNCHANGED <<entries, journalState, journalClosed>>]_journalAll

\* A client that keeps asking reaches the end of a closed journal, with pages as
\* small as one byte, unless a failed append left the file out of step.
ReadersReachTheEnd == \A r \in Readers : journalClosed ~> (cursor[r] = LastSequence \/ journalFaults > 0)
=============================================================================
