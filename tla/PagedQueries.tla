---------------------------- MODULE PagedQueries ----------------------------
(***************************************************************************)
(* The paged lists of the platform server (runtime/queries.rs) and of the  *)
(* LLM gateway (db/requests.rs), as operators.  A table maps the ids of    *)
(* its rows to what they are sorted by, a time or a sequence number; an id *)
(* the query's filter leaves out is NoKey.  A client follows the cursor of *)
(* each page while the table changes between the pages.                    *)
(***************************************************************************)
EXTENDS Naturals, Sequences, FiniteSets, SequencesExt

NoKey == 0
NoCursor == [at |-> NoKey, id |-> 0]

Entries(table) == {[at |-> table[i], id |-> i] : i \in {j \in DOMAIN table : table[j] # NoKey}}
\* A query lists its rows in one of two orders.
Precedes(order, a, b) ==
    LET sooner == a.at < b.at \/ (a.at = b.at /\ a.id < b.id) IN
    IF order = "oldest first" THEN sooner ELSE a # b /\ ~sooner

\* One row more than the page holds is fetched; the cursor is the last row of the page,
\* and is given only when there was one more.
CutPage(rows, count) ==
    IF Len(rows) > count THEN [items |-> SubSeq(rows, 1, count), next |-> rows[count]]
    ELSE [items |-> rows, next |-> NoCursor]
Page(entries, count, order) ==
    CutPage(SetToSortSeq({e \in entries : Cardinality({d \in entries : Precedes(order, d, e)}) <= count},
                         LAMBDA a, b : Precedes(order, a, b)), count)

\* What is behind the cursor, in the order of the query.
Behind(table, cursor, order) ==
    {e \in Entries(table) : cursor = NoCursor \/ Precedes(order, cursor, e)}
KeysetPage(table, cursor, count, order) == Page(Behind(table, cursor, order), count, order)

\* Sessions of a project, the latest activity first.
SessionsOn(table, cursor, count) == KeysetPage(table, cursor, count, "newest first")
\* Runs of a session or children of a run, in the order of their creation.
RunsOn(table, cursor, count) == KeysetPage(table, cursor, count, "oldest first")
\* The inputs of all runs of a session, in the order of their creation.
SessionInputs(table, cursor, count) == KeysetPage(table, cursor, count, "oldest first")
\* The waits of a run, in the order of their creation.
WaitsOf(table, cursor, count) == KeysetPage(table, cursor, count, "oldest first")
\* Requests of the LLM gateway, the latest first.
RecentLlmRequests(table, cursor, count) == KeysetPage(table, cursor, count, "newest first")
\* What is numbered: one row more is fetched too, and the cursor is a number alone.
SequencePage(table, cursor, count) ==
    Page({e \in Entries(table) : e.at > cursor.at}, count, "oldest first")
\* The messages of a session by revision, and the inputs and the events of a run by sequence.
MessagesOn(table, cursor, count) == SequencePage(table, cursor, count)
InputsOf(table, cursor, count) == SequencePage(table, cursor, count)
EventsOf(table, cursor, count) == SequencePage(table, cursor, count)

PageOf(query, table, cursor, count) ==
    CASE query = "sessions" -> SessionsOn(table, cursor, count)
      [] query = "runs" -> RunsOn(table, cursor, count)
      [] query = "session_inputs" -> SessionInputs(table, cursor, count)
      [] query = "waits" -> WaitsOf(table, cursor, count)
      [] query = "requests" -> RecentLlmRequests(table, cursor, count)
      [] query = "messages" -> MessagesOn(table, cursor, count)
      [] query = "inputs" -> InputsOf(table, cursor, count)
      [] query = "events" -> EventsOf(table, cursor, count)

-----------------------------------------------------------------------------
\* The client's pages: the k-th is read from the k-th table, and later ones from the last.
Follow(acc, p) == [got |-> acc.got \o p.items, cursor |-> p.next, done |-> p.next = NoCursor]
Followed(query, tables, count, n) ==
    FoldLeft(LAMBDA acc, k : IF acc.done THEN acc
                             ELSE Follow(acc, PageOf(query, tables[IF k > Len(tables) THEN Len(tables) ELSE k],
                                                     acc.cursor, count)),
             [got |-> <<>>, cursor |-> NoCursor, done |-> FALSE], [k \in 1..n |-> k])

\* How a table of this query may change: what is sorted by a creation or a sequence number
\* keeps its key, an activity only moves forward, and a row may enter and leave the filter.
\* No two rows share a sequence number.
MayBecome(query, old, new) ==
    \A i \in DOMAIN old : old[i] # NoKey /\ new[i] # NoKey =>
        IF query = "sessions" THEN new[i] >= old[i] ELSE new[i] = old[i]
PossibleTables(query, tables) ==
    /\ \A k \in 1..Len(tables), l \in 1..Len(tables) : k < l => MayBecome(query, tables[k], tables[l])
    /\ query \in {"messages", "inputs", "events"} =>
         \A k, l \in DOMAIN tables : \A i, j \in DOMAIN tables[1] :
            i # j /\ tables[k][i] # NoKey => tables[k][i] # tables[l][j]

IsExact(l, tables) ==
    /\ l.done
    /\ \A a, b \in DOMAIN l.got : a # b => l.got[a].id # l.got[b].id
    /\ \A i \in DOMAIN tables[1] :
          tables[1][i] # NoKey /\ (\A k \in DOMAIN tables : tables[k][i] = tables[1][i]) =>
              \E a \in DOMAIN l.got : l.got[a].id = i

\* Following the cursors ends, lists a row at most once, and lists every row that was there,
\* with the same key, from the first page to the last (page, sequence_page and their queries).
ListIsExact(query, tables, count) ==
    IsExact(Followed(query, tables, count, Len(tables) + Cardinality(DOMAIN tables[1]) + 1), tables)
=============================================================================
