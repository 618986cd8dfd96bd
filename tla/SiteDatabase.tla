--------------------------- MODULE SiteDatabase ---------------------------
(***************************************************************************)
(* The SQLite database of one site: the SDK a backend runs against         *)
(* (sites-service/src/backend_sdk.js, database.rs, the database thread of  *)
(* runtime.rs) and the authoring statements (authoring_sql.rs,             *)
(* authoring_data.rs).  The site's gate lets one of them at a time hold    *)
(* the connection.                                                         *)
(*                                                                         *)
(* A write is one row, written at most once, so that a set of rows tells   *)
(* which statements took effect.  Refers gives the row a row has a         *)
(* deferred foreign key to: SQLite refuses to commit one without the       *)
(* other.  SQLite itself is external: a statement that is halted (the      *)
(* progress handler interrupts it, or the page limit is met) makes SQLite  *)
(* roll back the WHOLE transaction and return to autocommit, where any     *)
(* other error undoes the statement only.                                  *)
(***************************************************************************)
EXTENDS Integers, Sequences, FiniteSets

CONSTANTS Rows,         \* the writes
          NoRow,        \* a statement that only reads, and a row that refers to none
          Refers,       \* [Rows -> Rows \cup {NoRow}]
          Slips,        \* operation ids of authoring statements
          CatchesLoss   \* a callback goes on after an error that ended its transaction

ASSUME RefersAssumption ==
    /\ NoRow \notin Rows /\ Refers \in [Rows -> Rows \cup {NoRow}]
    /\ {"none", "read"} \cap Rows = {}
    /\ CatchesLoss \in BOOLEAN

VARIABLES
    sqlite,      \* the connection: in a transaction?, the rows it sees, the rows on disk
    handle,      \* Database: closed, or its `transaction`: none, young, old
    overdue,     \* the invocation's deadline has passed or it was cancelled
    script,      \* the backend: off, handler, callback of transaction(), or thrown out of it
    heard,       \* what the backend was told of each write
    sqlReceipts, \* __sites_authoring_receipts: the request of each operation id
    authored     \* how often the statement of each operation id took effect

siteDbVars == <<sqlite, handle, overdue, script, heard, sqlReceipts, authored>>

Verdicts == {"unused", "pending", "committed", "failed", "acknowledged"}

SiteDbTypeOK ==
    /\ sqlite \in [began : BOOLEAN, sees : SUBSET Rows, disk : SUBSET Rows]
    /\ handle \in {"closed", "none", "young", "old"}
    /\ overdue \in BOOLEAN
    /\ script \in {"off", "handler", "callback", "thrown"}
    /\ heard \in [Rows -> Verdicts]
    /\ sqlReceipts \in [Slips -> Rows \cup {"none", "read"}]
    /\ authored \in [Slips -> 0..2]

SiteDbInit ==
    /\ sqlite = [began |-> FALSE, sees |-> {}, disk |-> {}]
    /\ handle = "closed"
    /\ overdue = FALSE
    /\ script = "off"
    /\ heard = [r \in Rows |-> "unused"]
    /\ sqlReceipts = [s \in Slips |-> "none"]
    /\ authored = [s \in Slips |-> 0]

----------------------------------------------------------------------------
(* SQLite (external) *)

Consistent(rows) == \A r \in rows : Refers[r] \in rows \cup {NoRow}

RolledBack(c) == [began |-> FALSE, sees |-> c.disk, disk |-> c.disk]

Committed(c) == [began |-> FALSE, sees |-> c.sees, disk |-> c.sees]

\* A statement: what it asks of which table, and its text as lexical items.
Acts == {"read", "change", "schema", "other"}
Tables == {"application", "sqlite", "service"}
Texts == {<<"word">>, <<"comment", "word", "semi", "blank">>, <<"word", "semi", "word">>,
          <<"blank", "comment">>, <<"word", "unclosed">>}

\* single_statement: one statement, ended by at most one semicolon; blanks and
\* comments do not count, and a quote or comment that does not end is refused.
SingleStatement(text) ==
    LET code == SelectSeq(text, LAMBDA t : t \notin {"blank", "comment"})
        ends == {i \in DOMAIN code : code[i] = "semi"}
    IN  /\ \A i \in DOMAIN text : text[i] # "unclosed"
        /\ \A i \in ends : i = Len(code)
        /\ \E i \in DOMAIN code : code[i] = "word"

\* authorize: only authoring may change the schema or look at SQLite's own
\* tables, and nobody's statement reaches the service's tables.
Authorize(act, table, migrations) ==
    CASE act \in {"read", "change"} ->
            table = "application" \/ (migrations /\ table # "service")
      [] act = "schema" -> migrations /\ table = "application"
      [] OTHER -> FALSE

\* How a statement may end.
Ends(row, text, act, table, migrations) ==
    IF SingleStatement(text) /\ Authorize(act, table, migrations)
    THEN {"done", "fault"} \cup (IF row = NoRow THEN {} ELSE {"halted"})
    ELSE {"fault"}

----------------------------------------------------------------------------
(* database.rs *)

\* Faulty variant: a statement that fails keeps what it has written, for want
\* of the savepoint around it.
AfterStatementNoSavepoint(c, row, end) ==
    LET sees == c.sees \cup ({row} \ {NoRow})
    IN  IF end = "halted" THEN [conn |-> RolledBack(c), ok |-> FALSE]
        ELSE IF c.began THEN [conn |-> [c EXCEPT !.sees = sees], ok |-> end = "done"]
        ELSE [conn |-> [began |-> FALSE, sees |-> sees, disk |-> sees], ok |-> end = "done"]

\* statement: SAVEPOINT, the statement, then RELEASE, which commits when the
\* savepoint opened the transaction and which a deferred foreign key refuses; or
\* ROLLBACK TO and RELEASE.
AfterStatement(c, row, end) ==
    LET sees == c.sees \cup ({row} \ {NoRow})
    IN  IF end # "done" THEN [conn |-> IF end = "halted" THEN RolledBack(c) ELSE c, ok |-> FALSE]
        ELSE IF c.began THEN [conn |-> [c EXCEPT !.sees = sees], ok |-> TRUE]
        ELSE IF Consistent(sees)
             THEN [conn |-> [began |-> FALSE, sees |-> sees, disk |-> sees], ok |-> TRUE]
             ELSE [conn |-> [began |-> TRUE, sees |-> sees, disk |-> c.disk], ok |-> FALSE]

\* check: the invocation's deadline and cancellation, and two seconds of transaction.
CheckPasses == ~overdue /\ handle # "old"

\* open and Database::new.
OpenInvocation ==
    /\ handle = "closed"
    /\ handle' = "none"
    /\ script' = "handler"
    /\ overdue' = FALSE
    /\ sqlite' = RolledBack(sqlite)
    /\ UNCHANGED <<heard, sqlReceipts, authored>>

\* Time: the invocation runs out of it, or its transaction becomes two seconds old.
Deadline ==
    /\ handle # "closed" /\ ~overdue
    /\ overdue' = TRUE
    /\ UNCHANGED <<sqlite, handle, script, heard, sqlReceipts, authored>>

TransactionAges ==
    /\ handle = "young"
    /\ handle' = "old"
    /\ UNCHANGED <<sqlite, overdue, script, heard, sqlReceipts, authored>>

\* rollback, which the SDK calls whatever the time.
Rollback ==
    /\ sqlite' = RolledBack(sqlite)
    /\ handle' = "none"

\* begin.
BeginImmediate ==
    /\ handle' = "young"
    /\ sqlite' = [sqlite EXCEPT !.began = TRUE]

MayBegin == CheckPasses /\ handle = "none" /\ ~sqlite.began

\* call, for a statement: an error at the end of the time allowed rolls the
\* transaction back; `lapse` is the time, if any, that ran out during the statement.
CallStatement(row, end, lapse) ==
    LET ran == AfterStatement(sqlite, row, end)
    IN  /\ CheckPasses
        /\ lapse = "transaction" => handle = "young"
        /\ IF ~ran.ok /\ lapse # "none"
           THEN Rollback
           ELSE /\ sqlite' = ran.conn
                /\ handle' = IF lapse = "transaction" THEN "old" ELSE handle
        /\ overdue' = (overdue \/ lapse = "invocation")

----------------------------------------------------------------------------
(* backend_sdk.js, and the database thread of runtime.rs *)

\* What becomes of the writes of a transaction.
Settle(verdict) == [r \in Rows |-> IF heard[r] = "pending" THEN verdict ELSE heard[r]]

\* The error of a call ended the transaction the callback still believes in.
LostTransaction(conn, h) == ~conn.began \/ h = "none"

\* A statement of the handler: db.query, db.execute.
DbExecute(row, end, lapse) ==
    /\ script = "handler"
    /\ row # NoRow => heard[row] = "unused"
    /\ CallStatement(row, end, lapse)
    /\ heard' = IF row = NoRow THEN heard
               ELSE [heard EXCEPT ![row] = IF AfterStatement(sqlite, row, end).ok
                                          THEN "acknowledged" ELSE "failed"]
    /\ UNCHANGED <<script, sqlReceipts, authored>>

\* A statement of the callback: tx.query, tx.execute.  The callback catches
\* an error and goes on, or lets it out.
TxExecute(row, end, lapse) ==
    LET ok == AfterStatement(sqlite, row, end).ok
    IN  /\ script = "callback"
        /\ row # NoRow => heard[row] = "unused"
        /\ CallStatement(row, end, lapse)
        /\ heard' = IF row = NoRow THEN heard
                   ELSE [heard EXCEPT ![row] = IF ok THEN "pending" ELSE "failed"]
        /\ \/ /\ ok \/ CatchesLoss \/ ~LostTransaction(sqlite', handle')
              /\ script' = script
           \/ /\ ~ok
              /\ script' = "thrown"
        /\ UNCHANGED <<sqlReceipts, authored>>

\* A statement or a callback that comes too late is refused before it runs.
Refused ==
    /\ script = "callback" /\ ~CheckPasses
    /\ script' = "thrown"
    /\ UNCHANGED <<sqlite, handle, overdue, heard, sqlReceipts, authored>>

\* The callback throws of its own accord.
CallbackThrows ==
    /\ script = "callback"
    /\ script' = "thrown"
    /\ UNCHANGED <<sqlite, handle, overdue, heard, sqlReceipts, authored>>

\* db.transaction: BEGIN IMMEDIATE, then the callback.
TransactionBegins ==
    /\ script = "handler" /\ MayBegin
    /\ BeginImmediate
    /\ script' = "callback"
    /\ UNCHANGED <<overdue, heard, sqlReceipts, authored>>

\* The callback resolves: commit, and an error of it is thrown.
TransactionCommits ==
    /\ script = "callback"
    /\ IF CheckPasses /\ handle = "young" /\ sqlite.began /\ Consistent(sqlite.sees)
       THEN /\ sqlite' = Committed(sqlite)
            /\ handle' = "none"
            /\ script' = "handler"
            /\ heard' = Settle("committed")
       ELSE /\ script' = "thrown"
            /\ UNCHANGED <<sqlite, handle, heard>>
    /\ UNCHANGED <<overdue, sqlReceipts, authored>>

\* The catch of transaction(): rollback, and the caller's promise is rejected.
TransactionThrows ==
    /\ script = "thrown"
    /\ Rollback
    /\ script' = "handler"
    /\ heard' = Settle("failed")
    /\ UNCHANGED <<overdue, sqlReceipts, authored>>

\* batch: begin, `done` of its statements, then commit, or rollback after the one that fails.
BatchResult(list, done, end) ==
    LET rows == {list[i] : i \in 1..done}
    IN  IF done = Len(list) /\ Consistent(sqlite.sees \cup rows)
        THEN [rows |-> rows, ok |-> TRUE]
        ELSE [rows |-> {}, ok |-> FALSE]

DbBatch(list, done, end) ==
    /\ script = "handler" /\ MayBegin
    /\ \A i \in 1..Len(list) : heard[list[i]] = "unused"
    /\ done = Len(list) \/ end \in {"fault", "halted"}
    /\ LET result == BatchResult(list, done, end)
           disk == sqlite.disk \cup result.rows
       IN  /\ sqlite' = [began |-> FALSE, sees |-> disk, disk |-> disk]
           /\ heard' = [r \in Rows |-> IF \E i \in 1..Len(list) : list[i] = r
                                      THEN IF result.ok THEN "committed" ELSE "failed"
                                      ELSE heard[r]]
    /\ UNCHANGED <<handle, overdue, script, sqlReceipts, authored>>

\* The handler returns, or the guest is killed at its deadline, or the service
\* stops: the Database is dropped, and with it what was not committed.
InvocationEnds ==
    /\ handle # "closed"
    /\ handle' = "closed"
    /\ script' = "off"
    /\ overdue' = FALSE
    /\ sqlite' = RolledBack(sqlite)
    /\ heard' = Settle("failed")
    /\ UNCHANGED <<sqlReceipts, authored>>

----------------------------------------------------------------------------
(* Authoring statements *)

\* The statement and its receipt in one transaction; `reads` says whether a
\* statement that only reads leaves a receipt.
Receipted(id, row, end, reads) ==
    CASE row = NoRow ->
            /\ sqlReceipts' = IF end = "done" /\ reads THEN [sqlReceipts EXCEPT ![id] = "read"] ELSE sqlReceipts
            /\ UNCHANGED <<sqlite, authored>>
      [] row # NoRow /\ end = "done" /\ Consistent(sqlite.disk \cup {row}) ->
            /\ sqlReceipts' = [sqlReceipts EXCEPT ![id] = row]
            /\ sqlite' = [began |-> FALSE, sees |-> sqlite.disk \cup {row},
                          disk |-> sqlite.disk \cup {row}]
            /\ authored' = [authored EXCEPT ![id] = @ + 1]
      [] OTHER -> UNCHANGED <<sqlite, sqlReceipts, authored>>

\* An id seen before answers with its receipt, or conflicts with it.
Authors(id, row, end, reads) ==
    /\ handle = "closed"
    /\ IF sqlReceipts[id] = "none"
       THEN /\ row # NoRow => heard[row] = "unused"
            /\ Receipted(id, row, end, reads)
       ELSE UNCHANGED <<sqlite, sqlReceipts, authored>>
    /\ heard' = IF row # NoRow /\ row \in sqlite'.disk /\ row \notin sqlite.disk
               THEN [heard EXCEPT ![row] = "acknowledged"] ELSE heard
    /\ UNCHANGED <<handle, overdue, script>>

SqlStatement(id, row, end) == Authors(id, row, end, FALSE)

AuthoringSql(id, row, end) == Authors(id, row, end, TRUE)

----------------------------------------------------------------------------
Statements(migrations) ==
    {s \in (Rows \cup {NoRow}) \X {"done", "fault", "halted"} :
        \E text \in Texts, act \in Acts, table \in Tables :
            /\ s[1] # NoRow => act # "read"
            /\ s[2] \in Ends(s[1], text, act, table, migrations)}

Lapses == {"none", "transaction", "invocation"}

SiteDbNext ==
    \/ OpenInvocation
    \/ Deadline
    \/ TransactionAges
    \/ \E s \in Statements(FALSE), lapse \in Lapses :
          DbExecute(s[1], s[2], lapse) \/ TxExecute(s[1], s[2], lapse)
    \/ Refused
    \/ CallbackThrows
    \/ TransactionBegins
    \/ TransactionCommits
    \/ TransactionThrows
    \/ \E a, b \in Rows, done \in 0..2, end \in {"fault", "halted"} :
          a # b /\ DbBatch(<<a, b>>, done, end)
    \/ InvocationEnds
    \/ \E id \in Slips, s \in Statements(TRUE) :
          SqlStatement(id, s[1], s[2]) \/ AuthoringSql(id, s[1], s[2])

SiteDbSpec == SiteDbInit /\ [][SiteDbNext]_siteDbVars

----------------------------------------------------------------------------
(* Properties *)

\* A transaction() that resolves, and a batch that answers, has all its writes
\* on disk; one that is rejected has none of them there, and neither has a
\* statement that was refused.
TransactionsAreWhole ==
    \A r \in Rows :
        /\ heard[r] = "committed" => r \in sqlite.disk
        /\ heard[r] = "failed" => r \notin sqlite.disk

\* An authoring statement has a receipt exactly when it took effect, and took
\* effect once, however often it is sent.
ReceiptMeansApplied ==
    \A s \in Slips :
        /\ authored[s] <= 1
        /\ sqlReceipts[s] \in Rows => authored[s] = 1 /\ sqlReceipts[s] \in sqlite.disk
        /\ authored[s] = 1 => sqlReceipts[s] \in Rows

\* Transactions, batches and refused statements of a site's database are all or
\* nothing, and authoring statements are applied once (database.rs,
\* authoring_sql.rs of the sites service).
SiteWritesAreWhole == TransactionsAreWhole /\ ReceiptMeansApplied

\* What db.execute acknowledged outside a transaction is on disk.  The code does
\* not keep this: see "Refuted" in the README.
AcknowledgedIsDurable ==
    \A r \in Rows : heard[r] = "acknowledged" => r \in sqlite.disk
============================================================================
