---------------------------- MODULE MCSupervisor ----------------------------
(***************************************************************************)
(* The supervisor's processes and the journal of one process, for TLC.  A  *)
(* behaviour runs one of three parts: "crowd", two executions that compete *)
(* for the last slot, one of which two different requests try to start;    *)
(* "race", one execution whose exit, timeout, terminate, input and         *)
(* shutdown race; and "journal", writers and readers of an event journal.  *)
(* The journal's variables are Off in the parts of the manager, and the    *)
(* manager, over which its contract stutters, does nothing in "journal".   *)
(***************************************************************************)
EXTENDS ProcessManager, EventJournal, TLC

CONSTANTS e1, e2, e3

VARIABLE part

Request(e, o) == [exec |-> e, op |-> o]
Racing == {Request(e1, "a")}
Crowding == {Request(e2, "b"), Request(e2, "c"), Request(e3, "d")}
SomeRequests == Racing \union Crowding

Off == "off"

JournalOff ==
    /\ entries = Off /\ journalState = Off /\ journalClosed = Off /\ skew = Off /\ unsaid = Off
    /\ journalFaults = Off /\ lost = Off /\ readerPc = Off /\ ask = Off /\ woken = Off
    /\ cursor = Off /\ got = Off

Narrow ==
    /\ part = "race" => /\ \A c \in Callers : job'[c].start \in Racing \union {NoRequest}
                        /\ shut' = "no" \/ (inputLock'[e1] = Nobody /\ accepted'[e1] = {})
    /\ part = "crowd" => /\ \A c \in Callers : job'[c].start \in Crowding \union {NoRequest}
                         /\ inputLock' = inputLock /\ control' = control /\ shut' = shut

SupervisorInit ==
    /\ part \in {"crowd", "race", "journal"}
    /\ Init
    /\ IF part = "journal" THEN JournalInit ELSE JournalOff

SupervisorNext ==
    \/ part # "journal" /\ Next /\ Narrow /\ UNCHANGED <<journalAll, part>>
    \/ part = "journal" /\ JournalNext /\ UNCHANGED <<vars, part>>

supervisorVars == <<vars, journalAll, part>>

\* Fairness and JournalFairness of the part that runs, for the executions the
\* properties are about.
Manages == part # "journal"
SupervisorFairness ==
    /\ \A e \in Timed \union Drained :
        /\ WF_vars(Manages /\ HostUp /\ ReaderStops(e)) /\ WF_vars(Manages /\ HostUp /\ Reap(e))
        /\ WF_vars(Manages /\ HostUp /\ DrainElapses(e)) /\ WF_vars(Manages /\ HostUp /\ Complete(e))
        /\ WF_vars(Manages /\ HostUp /\ Timeout(e))
        /\ WF_vars(Manages /\ e \in doomed /\ ChildExits(e))
    /\ \A c \in Callers : WF_vars(Manages /\ HostUp /\ TermStep(c))
    /\ \A r \in Readers : /\ []<>(Manages \/ readerPc[r] = "idle")
                          /\ []<>(Manages \/ readerPc[r] # "idle")

SupervisorSpec == SupervisorInit /\ [][SupervisorNext]_supervisorVars /\ SupervisorFairness

-----------------------------------------------------------------------------
\* A process that has a timeout ends, and one that ended gives its slot back, though it
\* ignores signals and its output stays open, as long as the host is up; what a host that goes
\* down has killed ends too (begin_output_drain, spawn_timeout and shutdown of manager.rs).
ProcessesEnd == DrainedSlotIsReleased /\ TimedProcessEnds

\* A client has every byte and event up to its cursor once and in order, and no reader
\* that has something to read sleeps through the notification (journal.rs).
ReadersMissNothing == part = "journal" => NothingLostOrRepeated /\ NoMissedWake

\* Nothing follows the end of a journal, and a client that keeps asking gets there
\* (close and read of journal.rs).
ReadersReachTheClosedEnd ==
    /\ [][part = "journal" /\ journalClosed => UNCHANGED <<entries, journalState, journalClosed>>]_journalAll
    /\ \A r \in Readers : (part = "journal" /\ journalClosed)
                            ~> (part = "journal" /\ (cursor[r] = LastSequence \/ journalFaults > 0))
=============================================================================
