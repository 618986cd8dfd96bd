--------------------------- MODULE GatewayAccounts ---------------------------
(***************************************************************************)
(* E2B accounts of the execution gateway and the idempotent creation of    *)
(* hosts in them (execution-gateway, http.rs and database.rs).             *)
(*                                                                         *)
(* A handler reads what it checks, calls the provider if it has to, and    *)
(* writes in one statement or transaction; other handlers run between any  *)
(* two of these steps.  The schema is part of the model: one default       *)
(* account, which is active, and a host's account cannot be deleted.       *)
(*                                                                         *)
(* The provider is external: it accepts an API key until it revokes it.    *)
(***************************************************************************)
EXTENDS Naturals, Sequences, FiniteSets

CONSTANTS
    HostAccounts,
    ApiKeys,
    Handlers,       \* concurrent requests of administrators
    Clients,        \* concurrent requests for a host
    CreateKeys,     \* Idempotency-Key of such a request
    NoValue,
    MaxAdmin,       \* bound: requests of administrators
    MaxExpiries     \* bound: idempotency records that expire

ASSUME AccountsAssumption ==
    /\ NoValue \notin HostAccounts \union ApiKeys \union CreateKeys \union Nat
    /\ Handlers \intersect Clients = {} /\ MaxAdmin \in Nat /\ MaxExpiries \in Nat

VARIABLES
    account,   \* e2b_accounts
    accepted,  \* the keys the provider accepts
    hostsOf,   \* hosts in the order of their creation: account and creation key
    receipt,   \* idempotency_records: the body and the host of a key
    snapshot,  \* the account of the source snapshot while it is ready
    snapshotsOf, \* the accounts with a row of e2b_snapshots, which is never deleted
    handler,   \* what an administrator's request has read
    creation,  \* what a request for a host has read, and its answer
    hostAdmin, \* requests of administrators so far
    expired    \* how often the record of a key expired

acctVars == <<account, accepted, handler, hostAdmin>>
hostVars == <<hostsOf, receipt, snapshot, snapshotsOf, creation, expired>>

NoAccount == [status |-> "none", isDefault |-> FALSE, key |-> NoValue]
Resting == [at |-> "idle"]
NoReceipt == [body |-> NoValue, host |-> 0]
HostExists(a) == account[a].status # "none"
Referenced(a) == a \in snapshotsOf \/ \E h \in 1..Len(hostsOf) : hostsOf[h].account = a

\* No account yet, or one, in which the snapshot was made.
HostAccountsInit ==
    /\ \/ account = [a \in HostAccounts |-> NoAccount] /\ snapshot = NoValue /\ snapshotsOf = {}
       \/ \E a \in HostAccounts, k \in ApiKeys :
            /\ account = [x \in HostAccounts |-> IF x # a THEN NoAccount
                            ELSE [status |-> "active", isDefault |-> TRUE, key |-> k]]
            /\ snapshot = a /\ snapshotsOf = {a}
    /\ accepted = ApiKeys
    /\ hostsOf = <<>> /\ receipt = [k \in CreateKeys |-> NoReceipt]
    /\ handler = [c \in Handlers |-> Resting] /\ creation = [c \in Clients |-> Resting]
    /\ hostAdmin = 0 /\ expired = [k \in CreateKeys |-> 0]

-----------------------------------------------------------------------------
(***************************************************************************)
(* Administrators                                                          *)
(***************************************************************************)
BeginRequest(c, next) ==
    /\ handler[c] = Resting /\ hostAdmin < MaxAdmin
    /\ hostAdmin' = hostAdmin + 1
    /\ handler' = [handler EXCEPT ![c] = next]
    /\ UNCHANGED <<account, accepted, hostVars>>

End(c) ==
    /\ handler' = [handler EXCEPT ![c] = Resting]
    /\ UNCHANGED <<accepted, hostAdmin, hostVars>>

\* `update e2b_accounts set is_default = false where is_default`
Cleared == [a \in HostAccounts |-> [account[a] EXCEPT !.isDefault = FALSE]]

\* create_account: the provider is asked about the key first.
NewHostAccount(c, a, k, d) ==
    /\ ~HostExists(a) /\ k \in accepted
    /\ ~\E x \in Handlers : handler[x].at = "insert" /\ handler[x].a = a
    /\ BeginRequest(c, [at |-> "insert", a |-> a, key |-> k, isDefault |-> d])

\* The first account is the default one.
InsertAccount(c) ==
    LET r == handler[c]
        d == r.isDefault \/ \A a \in HostAccounts : ~HostExists(a)
    IN  /\ r.at = "insert"
        /\ account' = [IF d THEN Cleared ELSE account EXCEPT
                          ![r.a] = [status |-> "active", isDefault |-> d, key |-> r.key]]
        /\ End(c)

\* update_account: what the handler refuses, by the row it read.
Refuses(row, d, on) ==
    \/ row.isDefault /\ on = FALSE /\ d # FALSE
    \/ row.status = "invalid" /\ on = TRUE
    \/ d = TRUE /\ row.status # "active" /\ on # TRUE

Options == {TRUE, FALSE, NoValue}
ReadForUpdate(c, a, d, on) ==
    /\ HostExists(a) /\ ~Refuses(account[a], d, on)
    /\ BeginRequest(c, [at |-> "update", a |-> a, isDefault |-> d, on |-> on])

\* The row the statement writes, if its condition holds and the schema accepts it.
Updated(row, d, on) ==
    [isDefault |-> IF d = NoValue THEN row.isDefault ELSE d, key |-> row.key,
     status |-> IF on = TRUE THEN "active" ELSE IF on = FALSE THEN "disabled" ELSE row.status]
DefaultActive(row) == row.isDefault => row.status = "active"

\* The transaction of update_account.  It is committed even if no row matched, with
\* the default status of the others cleared.
UpdateHostAccount(c) ==
    LET r    == handler[c]
        base == IF r.isDefault = TRUE THEN Cleared ELSE account
        row  == Updated(base[r.a], r.isDefault, r.on)
    IN  /\ r.at = "update"
        /\ account' =
             IF ~HostExists(r.a) \/ (r.on = FALSE /\ base[r.a].isDefault /\ r.isDefault # FALSE) THEN base
             ELSE IF DefaultActive(row) THEN [base EXCEPT ![r.a] = row] ELSE account
        /\ End(c)

\* replace_account_credential
AskAboutKey(c, a, k) ==
    /\ HostExists(a) /\ k \in accepted
    /\ BeginRequest(c, [at |-> "replace", a |-> a, key |-> k])

ReplaceKey(c) ==
    LET r == handler[c] IN
    /\ r.at = "replace"
    /\ account' = IF HostExists(r.a)
                  THEN [account EXCEPT ![r.a] = [status |-> "active", isDefault |-> @.isDefault, key |-> r.key]]
                  ELSE account
    /\ End(c)

\* verify_account: the stored key is read and the provider asked; only a rejection
\* counts, other errors change nothing.
ReadForVerify(c, a) ==
    /\ HostExists(a)
    /\ BeginRequest(c, [at |-> "verify", a |-> a, key |-> account[a].key])

Verified(c) ==
    LET r == handler[c] IN
    /\ r.at = "verify"
    /\ handler' = [handler EXCEPT ![c] = [at |-> "mark", a |-> r.a, valid |-> r.key \in accepted]]
    /\ UNCHANGED <<account, accepted, hostAdmin, hostVars>>

\* mark_account_verification
Mark(c) ==
    LET r == handler[c] IN
    /\ r.at = "mark"
    /\ account' =
         IF ~HostExists(r.a) THEN account
         ELSE [account EXCEPT ![r.a] =
                [isDefault |-> @.isDefault /\ r.valid, key |-> @.key,
                 status |-> IF ~r.valid THEN "invalid" ELSE IF @.status = "disabled" THEN "disabled" ELSE "active"]]
    /\ End(c)

\* delete_account: a look at the history of hosts and snapshots, then the deletion, which the
\* references restrict.
CheckReferences(c, a) ==
    /\ HostExists(a) /\ ~Referenced(a)
    /\ BeginRequest(c, [at |-> "delete", a |-> a])

DeleteAccount(c) ==
    LET r == handler[c] IN
    /\ r.at = "delete"
    /\ account' = IF Referenced(r.a) THEN account ELSE [account EXCEPT ![r.a] = NoAccount]
    /\ End(c)

\* The provider revokes a key.
RevokeKey(k) ==
    /\ k \in accepted /\ hostAdmin < MaxAdmin
    /\ hostAdmin' = hostAdmin + 1
    /\ accepted' = accepted \ {k}
    /\ UNCHANGED <<account, handler, hostVars>>

HostAdminStep ==
    \/ \E c \in Handlers, a \in HostAccounts :
         \/ \E k \in ApiKeys : AskAboutKey(c, a, k) \/ \E d \in BOOLEAN : NewHostAccount(c, a, k, d)
         \/ \E d, on \in Options : ReadForUpdate(c, a, d, on)
         \/ ReadForVerify(c, a) \/ CheckReferences(c, a)
    \/ \E c \in Handlers : \/ InsertAccount(c) \/ UpdateHostAccount(c) \/ ReplaceKey(c)
                            \/ Verified(c) \/ Mark(c) \/ DeleteAccount(c)
    \/ \E k \in ApiKeys : RevokeKey(k)

-----------------------------------------------------------------------------
(***************************************************************************)
(* Creation of a host                                                      *)
(***************************************************************************)
AnswerRequest(c, next) ==
    /\ creation' = [creation EXCEPT ![c] = next]
    /\ UNCHANGED <<acctVars, snapshot, snapshotsOf, expired>>

\* A body asks for a host from the base image, in an account or the default one, or
\* from the snapshot.
Ask(c, k, body) ==
    /\ creation[c] = Resting
    /\ AnswerRequest(c, [at |-> "pick", key |-> k, body |-> body])
    /\ UNCHANGED <<hostsOf, receipt>>

Picked(body) ==
    CASE body = "default"  -> {a \in HostAccounts : account[a].isDefault /\ account[a].status = "active"}
      [] body = "snapshot" -> {snapshot} \ {NoValue}
      [] OTHER             -> {body}

\* default_account_id, snapshot_source
PickAccount(c) ==
    LET r == creation[c] IN
    /\ r.at = "pick"
    /\ AnswerRequest(c, IF Picked(r.body) = {} THEN [at |-> "refused"]
                 ELSE [at |-> "require", key |-> r.key, body |-> r.body,
                       a |-> CHOOSE a \in Picked(r.body) : TRUE])
    /\ UNCHANGED <<hostsOf, receipt>>

\* require_active_account
RequireActive(c) ==
    LET r == creation[c] IN
    /\ r.at = "require"
    /\ AnswerRequest(c, IF account[r.a].status # "active" THEN [at |-> "refused"]
                 ELSE [at |-> "insert", key |-> r.key, body |-> r.body, a |-> r.a])
    /\ UNCHANGED <<hostsOf, receipt>>

\* Faulty variant: the record of the key is not looked up under its lock.
KnownNever(k) == FALSE

\* lock_idempotency: the record of the key, while it is valid.
Known(k) == receipt[k] # NoReceipt

\* The transaction of create_host: a known key is answered with its host, or is a
\* conflict if the body differs; otherwise host and record are inserted together.
InsertHost(c) ==
    LET r == creation[c] IN
    /\ r.at = "insert"
    /\ CASE Known(r.key) ->
               /\ AnswerRequest(c, IF receipt[r.key].body # r.body THEN [at |-> "refused"]
                            ELSE [at |-> "answered", host |-> receipt[r.key].host])
               /\ UNCHANGED <<hostsOf, receipt>>
         [] ~Known(r.key) /\ ~HostExists(r.a) -> AnswerRequest(c, [at |-> "refused"]) /\ UNCHANGED <<hostsOf, receipt>>
         [] OTHER ->
               /\ hostsOf' = Append(hostsOf, [account |-> r.a, key |-> r.key])
               /\ receipt' = [receipt EXCEPT ![r.key] = [body |-> r.body, host |-> Len(hostsOf) + 1]]
               /\ AnswerRequest(c, [at |-> "answered", host |-> Len(hostsOf) + 1])

\* 24 hours pass: lock_idempotency no longer finds the record, and deletes it.
ExpireReceipt(k) ==
    /\ Known(k) /\ expired[k] < MaxExpiries
    /\ receipt' = [receipt EXCEPT ![k] = NoReceipt]
    /\ expired' = [expired EXCEPT ![k] = @ + 1]
    /\ UNCHANGED <<acctVars, hostsOf, snapshot, snapshotsOf, creation>>

\* The source snapshot becomes ready in an account, or its deletion is requested.
SnapshotChanges(a) ==
    /\ hostAdmin < MaxAdmin
    /\ a \in ({NoValue} \union {x \in HostAccounts : HostExists(x)}) \ {snapshot}
    /\ snapshot' = a /\ snapshotsOf' = snapshotsOf \union ({a} \ {NoValue}) /\ hostAdmin' = hostAdmin + 1
    /\ UNCHANGED <<account, accepted, handler, hostsOf, receipt, creation, expired>>

CreationStep(c) == PickAccount(c) \/ RequireActive(c) \/ InsertHost(c)

-----------------------------------------------------------------------------
\* Types.
AccountRow == [status : {"none", "active", "disabled", "invalid"}, isDefault : BOOLEAN, key : ApiKeys \union {NoValue}]
HostRows == [account : HostAccounts, key : CreateKeys]
HandlerStates ==
    {Resting}
        \union [at : {"insert"}, a : HostAccounts, key : ApiKeys, isDefault : BOOLEAN]
        \union [at : {"update"}, a : HostAccounts, isDefault : Options, on : Options]
        \union [at : {"replace", "verify"}, a : HostAccounts, key : ApiKeys \union {NoValue}]
        \union [at : {"mark"}, a : HostAccounts, valid : BOOLEAN]
        \union [at : {"delete"}, a : HostAccounts]
Bodies == {"default", "snapshot"} \union HostAccounts
CreationStates ==
    {Resting, [at |-> "refused"]}
        \union [at : {"pick"}, key : CreateKeys, body : Bodies]
        \union [at : {"require", "insert"}, key : CreateKeys, body : Bodies, a : HostAccounts]
        \union [at : {"answered"}, host : Nat \ {0}]

HostAccountsTypeOK ==
    /\ account \in [HostAccounts -> AccountRow]
    /\ accepted \subseteq ApiKeys
    /\ hostsOf \in Seq(HostRows)
    /\ receipt \in [CreateKeys -> {NoReceipt} \union [body : Bodies, host : Nat \ {0}]]
    /\ snapshot \in HostAccounts \union {NoValue} /\ snapshotsOf \subseteq HostAccounts
    /\ handler \in [Handlers -> HandlerStates]
    /\ creation \in [Clients -> CreationStates]
    /\ hostAdmin \in 0..MaxAdmin
    /\ expired \in [CreateKeys -> 0..MaxExpiries]

\* Hosts and snapshots never lose their account: its deletion looks for them first, and
\* one that is created in between is refused or keeps it (database.rs:329-346; "Accounts
\* referenced by host or snapshot history cannot be deleted",
\* execution-gateway/README.md:169).  There is one default account at most, and it is
\* active, although verification and replacement write without the lock of the accounts.
AccountsAreKept ==
    /\ \A h \in 1..Len(hostsOf) : HostExists(hostsOf[h].account)
    /\ \A a \in snapshotsOf : HostExists(a)
    /\ Cardinality({a \in HostAccounts : account[a].isDefault}) <= 1
    /\ \A a \in HostAccounts : DefaultActive(account[a])
=============================================================================
