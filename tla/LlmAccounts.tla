---------------------------- MODULE LlmAccounts ----------------------------
(***************************************************************************)
(* Provider accounts of the LLM gateway: the rows administrators edit      *)
(* (db/accounts.rs, http/admin.rs), the refresh of ChatGPT credentials     *)
(* before and during a request (chatgpt_auth.rs), and the transports each  *)
(* replica caches (gateway.rs).                                            *)
(*                                                                         *)
(* A refresh token is spent by the refresh that presents it.  The refresh  *)
(* runs under a mutex of the replica and an advisory lock of PostgreSQL,   *)
(* held by a transaction that stays idle while the token endpoint answers. *)
(*                                                                         *)
(* A definition described as "without", "forgets" or the like is a faulty  *)
(* variant of its neighbour and not part of the specification; the README  *)
(* lists the property each of them violates.                               *)
(***************************************************************************)
EXTENDS Integers, FiniteSets

CONSTANTS
    Accounts,     \* accounts of one provider, created or not
    First,        \* the account that exists at the start
    Replicas,     \* gateway processes
    Reqs,         \* provider requests
    Home,         \* the replica each request arrived at
    Admins,       \* administrative transactions on the default account
    MaxToken,     \* bound: how many refresh tokens are ever issued
    MayRotate,    \* bound: accounts whose credentials an administrator replaces
    MayEdit,      \* bound: accounts an administrator edits or removes
    NoOne         \* nobody holds the lock

ASSUME LlmAccountsAssumption ==
    /\ MaxToken \in Nat
    /\ First \in Accounts
    /\ Home \in [Reqs -> Replicas]
    /\ NoOne \notin Reqs \cup Admins

VARIABLES
    acc,       \* provider_accounts joined with provider_credentials
    live,      \* the refresh token the provider still accepts, by account
    issued,    \* refresh tokens issued so far
    lost,      \* history: accounts whose live token nobody stored, whose
               \* refresh lost its lock, or that were given new credentials
               \* while a refresh was under way
    req,       \* requests
    mutex,     \* the refresher's per-account mutex, by replica
    advisory,  \* the advisory lock, by account
    cache,     \* the cached transport, by replica and account
    admin,     \* administrative transactions
    rowLock,   \* row locks held by administrative transactions
    provLock   \* lock_provider

accountVars == <<acc, live, issued, lost, req, mutex, advisory, cache, admin,
                 rowLock, provLock>>

requestSide == <<req, mutex, advisory, cache>>
adminSide == <<admin, rowLock, provLock>>

Absent == [status |-> "absent", default |-> FALSE]
Removed == [status |-> "removed", default |-> FALSE]
NoTransport == [rev |-> 0]
Exists(a) == acc[a] \notin {Absent, Removed}

NewAccount(t, d) ==
    [status |-> "active", default |-> d, rev |-> 1, ver |-> 1, token |-> t,
     stale |-> FALSE]

AccountsInit ==
    /\ acc = [a \in Accounts |-> IF a = First THEN NewAccount(1, TRUE) ELSE Absent]
    /\ live = [a \in Accounts |-> IF a = First THEN 1 ELSE 0]
    /\ issued = 1
    /\ lost = {}
    /\ req = [q \in Reqs |-> [pc |-> "new"]]
    /\ mutex = [h \in Replicas |-> [a \in Accounts |-> NoOne]]
    /\ advisory = [a \in Accounts |-> NoOne]
    /\ cache = [h \in Replicas |-> [a \in Accounts |-> NoTransport]]
    /\ admin = [t \in Admins |-> [pc |-> "new"]]
    /\ rowLock = [a \in Accounts |-> NoOne]
    /\ provLock = NoOne

-----------------------------------------------------------------------------
(***************************************************************************)
(* Requests                                                                *)
(***************************************************************************)

Refreshing == {"check", "present", "refused", "rotated", "reread"}

\* Leaving the refresh: both guards are dropped.
Leave(q, r) ==
    /\ req' = [req EXCEPT ![q] = r]
    /\ mutex' = [h \in Replicas |-> [a \in Accounts |->
                    IF mutex[h][a] = q THEN NoOne ELSE mutex[h][a]]]
    /\ advisory' = [a \in Accounts |-> IF advisory[a] = q THEN NoOne ELSE advisory[a]]

Failed == [pc |-> "done"]

\* A request for an account whose row it has read, before and after it has a token.
Asking(pc, a, s, forced) == [pc |-> pc, acct |-> a, snap |-> s, forced |-> forced]
Having(pc, a, s, forced, t) == [pc |-> pc, acct |-> a, snap |-> s, forced |-> forced, token |-> t]

\* resolve_account and validate_resolved_account: the requested account, or
\* the default one, if it is active.
ResolveCredential(q) ==
    /\ req[q].pc = "new"
    /\ \/ \E a \in Accounts :
             /\ acc[a].status = "active"
             /\ req' = [req EXCEPT ![q] = Asking("need", a, acc[a], FALSE)]
       \/ req' = [req EXCEPT ![q] = Failed]
    /\ UNCHANGED <<acc, live, issued, lost, mutex, advisory, cache, adminSide>>

\* credentials, up to the locks: needs_refresh, or a refresh that is forced.
NeedsRefresh(s) == s.stale

Credentials(q) ==
    LET x == req[q] IN
    /\ x.pc = "need"
    /\ req' = [req EXCEPT ![q] =
          IF ~x.forced /\ ~NeedsRefresh(x.snap)
          THEN Having("have", x.acct, x.snap, x.forced, x.snap.token)
          ELSE Asking("lock", x.acct, x.snap, x.forced)]
    /\ UNCHANGED <<acc, live, issued, lost, mutex, advisory, cache, adminSide>>

\* account_lock, then pg_advisory_xact_lock.  The second wait is cut short by
\* lock_timeout.
Lock(q) ==
    /\ req[q].pc = "lock"
    /\ LET a == req[q].acct IN
       \/ /\ mutex[Home[q]][a] = NoOne
          /\ mutex' = [mutex EXCEPT ![Home[q]][a] = q]
          /\ UNCHANGED <<req, advisory>>
       \/ /\ mutex[Home[q]][a] = q
          /\ advisory[a] = NoOne
          /\ advisory' = [advisory EXCEPT ![a] = q]
          /\ req' = [req EXCEPT ![q].pc = "check"]
          /\ UNCHANGED mutex
       \/ /\ mutex[Home[q]][a] = q
          /\ advisory[a] # NoOne
          /\ Leave(q, Failed)
    /\ UNCHANGED <<acc, live, issued, lost, cache, adminSide>>

\* Faulty variant: the credentials the request came with are presented,
\* although another request may have refreshed them meanwhile.
RecheckForgetsToRead(q) ==
    /\ req[q].pc = "check"
    /\ req' = [req EXCEPT ![q] = Having("present", @.acct, @.snap, @.forced, @.snap.token)]
    /\ UNCHANGED <<acc, live, issued, lost, mutex, advisory, cache, adminSide>>

\* Under the locks the account is read again: somebody else's refresh is used,
\* and only credentials that still need it are refreshed.
Recheck(q) ==
    /\ req[q].pc = "check"
    /\ LET a == req[q].acct
           cur == acc[a]
           read(pc) == Having(pc, a, cur, req[q].forced, cur.token)
       IN IF ~Exists(a) THEN Leave(q, Failed)
          ELSE IF \/ req[q].forced /\ cur.ver # req[q].snap.ver
                  \/ ~req[q].forced /\ ~NeedsRefresh(cur)
               THEN Leave(q, read("have"))
               ELSE /\ req' = [req EXCEPT ![q] = read("present")]
                    /\ UNCHANGED <<mutex, advisory>>
    /\ UNCHANGED <<acc, live, issued, lost, cache, adminSide>>

\* The token endpoint (external): the live token is exchanged for a new one,
\* and any other is refused for good.  A request or a reply may also be lost.
PresentToken(q) ==
    /\ req[q].pc = "present"
    /\ LET a == req[q].acct IN
       \/ /\ req[q].token = live[a]
          /\ issued < MaxToken
          /\ issued' = issued + 1
          /\ live' = [live EXCEPT ![a] = issued + 1]
          /\ \/ /\ req' = [req EXCEPT ![q] = Having("rotated", a, @.snap, @.forced, issued + 1)]
                /\ UNCHANGED <<mutex, advisory, lost>>
             \/ /\ Leave(q, Failed)
                /\ lost' = lost \cup {a}
       \/ /\ Leave(q, Failed)
          /\ UNCHANGED <<live, issued, lost>>
       \/ /\ req[q].token # live[a]
          /\ req' = [req EXCEPT ![q].pc = "refused"]
          /\ UNCHANGED <<live, issued, lost, mutex, advisory>>
    /\ UNCHANGED <<acc, cache, adminSide>>

\* mark_reauthentication_required.
MarkReauth(q) ==
    /\ req[q].pc = "refused"
    /\ LET a == req[q].acct IN
       /\ rowLock[a] = NoOne
       /\ acc' = IF Exists(a) THEN [acc EXCEPT ![a].status = "reauth_required"] ELSE acc
    /\ Leave(q, Failed)
    /\ UNCHANGED <<live, issued, lost, cache, adminSide>>

\* Database::rotate_credentials: both versions move on, and the account is active again.
Rotate(a, t) ==
    acc' = [acc EXCEPT ![a] = [status |-> "active", default |-> @.default, rev |-> @.rev + 1,
                               ver |-> @.ver + 1, token |-> t, stale |-> FALSE]]

\* find_account and rotate_credentials.
StoreRefreshed(q) ==
    /\ req[q].pc = "rotated"
    /\ LET a == req[q].acct IN
       /\ rowLock[a] = NoOne
       /\ IF Exists(a)
          THEN /\ Rotate(a, req[q].token)
               /\ req' = [req EXCEPT ![q].pc = "reread"]
               /\ UNCHANGED <<mutex, advisory>>
          ELSE /\ Leave(q, Failed)
               /\ UNCHANGED acc
    /\ UNCHANGED <<live, issued, lost, cache, adminSide>>

\* The account is read once more for its versions; the credentials returned
\* with it are the ones just refreshed.
Reread(q) ==
    /\ req[q].pc = "reread"
    /\ LET a == req[q].acct IN
       Leave(q, IF Exists(a) THEN Having("have", a, acc[a], req[q].forced, req[q].token)
                             ELSE Failed)
    /\ UNCHANGED <<acc, live, issued, lost, cache, adminSide>>

\* transport: the cached one for these versions, or a new one that replaces
\* whatever the replica had for the account.
Transport(q) ==
    /\ req[q].pc = "have"
    /\ LET a == req[q].acct
           s == req[q].snap
           hit == cache[Home[q]][a]
       IN IF hit # NoTransport /\ hit.rev = s.rev /\ hit.ver = s.ver
          THEN /\ req' = [req EXCEPT ![q] = Having("call", a, s, @.forced, hit.token)]
               /\ UNCHANGED cache
          ELSE /\ req' = [req EXCEPT ![q].pc = "call"]
               /\ cache' = [cache EXCEPT ![Home[q]][a] =
                               [rev |-> s.rev, ver |-> s.ver, token |-> req[q].token]]
    /\ UNCHANGED <<acc, live, issued, lost, mutex, advisory, adminSide>>

\* execute_completion: a 401 is answered once by a forced refresh and the same
\* request again; everything else ends the request.
Call(q) ==
    /\ req[q].pc = "call"
    /\ \/ req' = [req EXCEPT ![q] = Failed]
       \/ /\ ~req[q].forced
          /\ req' = [req EXCEPT ![q] = Asking("need", @.acct, @.snap, TRUE)]
    /\ UNCHANGED <<acc, live, issued, lost, mutex, advisory, cache, adminSide>>

\* A run is aborted, or the caller of a synchronous request hangs up: the
\* future is dropped wherever it is, a refresh under way included.
Drop(q) ==
    /\ req[q].pc \in Refreshing \cup {"lock", "have", "call"}
    /\ Leave(q, Failed)
    /\ lost' = IF req[q].pc = "rotated" THEN lost \cup {req[q].acct} ELSE lost
    /\ UNCHANGED <<acc, live, issued, cache, adminSide>>

\* idle_in_transaction_session_timeout: PostgreSQL ends the transaction that
\* holds the advisory lock while the token endpoint is still answering.
LoseAdvisoryLock(q) ==
    /\ req[q].pc = "present"
    /\ advisory[req[q].acct] = q
    /\ advisory' = [advisory EXCEPT ![req[q].acct] = NoOne]
    /\ lost' = lost \cup {req[q].acct}
    /\ UNCHANGED <<acc, live, issued, req, mutex, cache, adminSide>>

-----------------------------------------------------------------------------
(***************************************************************************)
(* Time and administrators                                                 *)
(***************************************************************************)

\* The access token comes within REFRESH_WINDOW of its expiry.
Expire(a) ==
    /\ Exists(a)
    /\ ~acc[a].stale
    /\ issued < MaxToken
    /\ acc' = [acc EXCEPT ![a].stale = TRUE]
    /\ UNCHANGED <<live, issued, lost, requestSide, adminSide>>

InFlight(a) == \E q \in Reqs : req[q].pc \in Refreshing \ {"reread"} /\ req[q].acct = a

\* invalidate_account, on the replica that served the administrator.
Evict(h, a) == cache' = [cache EXCEPT ![h][a] = NoTransport]

\* admin::rotate_credentials: the operator signed in again.
RotateCredentials(a, h) ==
    /\ a \in MayRotate
    /\ Exists(a)
    /\ rowLock[a] = NoOne
    /\ issued < MaxToken
    /\ issued' = issued + 1
    /\ live' = [live EXCEPT ![a] = issued + 1]
    /\ Rotate(a, issued + 1)
    /\ lost' = IF InFlight(a) THEN lost \cup {a} ELSE lost
    /\ Evict(h, a)
    /\ UNCHANGED <<req, mutex, advisory, adminSide>>

\* Database::update_account: under the row's lock, and never disabling the default account.
UpdateRow(a, s) ==
    /\ s = "disabled" => ~acc[a].default
    /\ acc' = [acc EXCEPT ![a].status = s]

\* admin::update_account with a status.
UpdateAccount(a, h) ==
    /\ a \in MayEdit
    /\ Exists(a)
    /\ rowLock[a] = NoOne
    /\ \E s \in {"active", "disabled"} \ {acc[a].status} : UpdateRow(a, s)
    /\ Evict(h, a)
    /\ UNCHANGED <<live, issued, lost, req, mutex, advisory, adminSide>>

\* admin::delete_account.
RemoveAccount(a, h) ==
    /\ a \in MayEdit
    /\ Exists(a)
    /\ rowLock[a] = NoOne
    /\ acc' = [acc EXCEPT ![a] = Removed]
    /\ Evict(h, a)
    /\ UNCHANGED <<live, issued, lost, req, mutex, advisory, adminSide>>

\* create_account takes the provider's lock first ...
CreateStart(t, a, d) ==
    /\ admin[t].pc = "new"
    /\ acc[a] = Absent
    /\ issued < MaxToken
    /\ provLock = NoOne
    /\ provLock' = t
    /\ admin' = [admin EXCEPT ![t] = [pc |-> "update", op |-> "create", acct |-> a,
                                      makeDefault |-> d]]
    /\ UNCHANGED <<acc, live, issued, lost, requestSide, rowLock>>

\* ... and set_default_account the account's row first, then the provider's.
SetDefaultStart(t, a) ==
    /\ admin[t].pc = "new"
    /\ Exists(a)
    /\ rowLock[a] = NoOne
    /\ acc[a].status = "active"
    /\ rowLock' = [rowLock EXCEPT ![a] = t]
    /\ admin' = [admin EXCEPT ![t] = [pc |-> "provider", op |-> "default", acct |-> a]]
    /\ UNCHANGED <<acc, live, issued, lost, requestSide, provLock>>

LockProvider(t) ==
    /\ admin[t].pc = "provider"
    /\ provLock = NoOne
    /\ provLock' = t
    /\ admin' = [admin EXCEPT ![t].pc = "update"]
    /\ UNCHANGED <<acc, live, issued, lost, requestSide, rowLock>>

EndAdmin(t) ==
    /\ admin' = [admin EXCEPT ![t] = [pc |-> "done"]]
    /\ rowLock' = [a \in Accounts |-> IF rowLock[a] = t THEN NoOne ELSE rowLock[a]]
    /\ provLock' = IF provLock = t THEN NoOne ELSE provLock

Defaults == {a \in Accounts : acc[a].default}

ClearDefault == [a \in Accounts |-> IF acc[a].default
                                    THEN [acc[a] EXCEPT !.default = FALSE] ELSE acc[a]]

\* The update of the rows that were default, and of the new default; it waits
\* for the rows other transactions hold.
CommitAdmin(t) ==
    /\ admin[t].pc = "update"
    /\ LET a == admin[t].acct
           makes == IF admin[t].op = "create"
                    THEN admin[t].makeDefault \/ Defaults = {}
                    ELSE TRUE
       IN /\ makes => \A b \in Defaults : rowLock[b] \in {NoOne, t}
          /\ IF admin[t].op = "create"
             THEN /\ acc' = [(IF makes THEN ClearDefault ELSE acc) EXCEPT
                                ![a] = NewAccount(issued + 1, makes)]
                  /\ issued' = issued + 1
                  /\ live' = [live EXCEPT ![a] = issued + 1]
             ELSE /\ acc' = [ClearDefault EXCEPT ![a] = [acc[a] EXCEPT !.default = TRUE]]
                  /\ UNCHANGED <<issued, live>>
    /\ EndAdmin(t)
    /\ UNCHANGED <<lost, requestSide>>

Waits(t) ==
    \/ admin[t].pc = "provider" /\ provLock # NoOne
    \/ admin[t].pc = "update" /\ \E b \in Defaults : rowLock[b] \notin {NoOne, t}

\* The deadlock detector, or lock_timeout after 5 s, ends a waiting
\* transaction with an error.
LockTimeout(t) ==
    /\ Waits(t)
    /\ EndAdmin(t)
    /\ UNCHANGED <<acc, live, issued, lost, requestSide>>

-----------------------------------------------------------------------------
ReqStep(q) ==
    \/ ResolveCredential(q)
    \/ Credentials(q)
    \/ Lock(q)
    \/ Recheck(q)
    \/ PresentToken(q)
    \/ MarkReauth(q)
    \/ StoreRefreshed(q)
    \/ Reread(q)
    \/ Transport(q)
    \/ Call(q)

AdminStep(t) == LockProvider(t) \/ CommitAdmin(t) \/ LockTimeout(t)

AccountsNext ==
    \/ \E q \in Reqs : ReqStep(q) \/ Drop(q) \/ LoseAdvisoryLock(q)
    \/ \E a \in Accounts : Expire(a)
    \/ \E a \in Accounts, h \in Replicas :
          RotateCredentials(a, h) \/ UpdateAccount(a, h) \/ RemoveAccount(a, h)
    \/ \E t \in Admins, a \in Accounts :
          SetDefaultStart(t, a) \/ \E d \in BOOLEAN : CreateStart(t, a, d)
    \/ \E t \in Admins : AdminStep(t)

AccountsSpec == AccountsInit /\ [][AccountsNext]_accountVars

-----------------------------------------------------------------------------
(***************************************************************************)
(* Properties                                                              *)
(***************************************************************************)

\* Types.
AccountRows == [status : {"active", "disabled", "reauth_required"}, default : BOOLEAN, rev : Nat,
         ver : Nat, token : Nat, stale : BOOLEAN]
RequestStates ==
    [pc : {"new", "done"}]
        \cup [pc : {"need", "lock", "check"}, acct : Accounts, snap : AccountRows, forced : BOOLEAN]
        \cup [pc : {"present", "refused", "rotated", "reread", "have", "call"}, acct : Accounts,
              snap : AccountRows, forced : BOOLEAN, token : Nat]
AdminStates ==
    [pc : {"new", "done"}]
        \cup [pc : {"update"}, op : {"create"}, acct : Accounts, makeDefault : BOOLEAN]
        \cup [pc : {"provider", "update"}, op : {"default"}, acct : Accounts]

AccountsTypeOK ==
    /\ acc \in [Accounts -> AccountRows \cup {Absent, Removed}]
    /\ live \in [Accounts -> Nat] /\ issued \in Nat /\ lost \subseteq Accounts
    /\ req \in [Reqs -> RequestStates]
    /\ mutex \in [Replicas -> [Accounts -> Reqs \cup {NoOne}]]
    /\ advisory \in [Accounts -> Reqs \cup {NoOne}]
    /\ cache \in [Replicas -> [Accounts -> {NoTransport} \cup [rev : Nat, ver : Nat, token : Nat]]]
    /\ admin \in [Admins -> AdminStates]
    /\ rowLock \in [Accounts -> Admins \cup {NoOne}]
    /\ provLock \in Admins \cup {NoOne}

\* An account without an explicit choice always means one account at most,
\* which exists and is not disabled, however the transactions of several
\* administrators interleave.
OneUsableDefault ==
    /\ Cardinality(Defaults) <= 1
    /\ \A a \in Defaults : Exists(a) /\ acc[a].status # "disabled"

\* Two requests have one account's token at the endpoint at once only after
\* PostgreSQL ended the transaction of one of them, and racing requests never
\* cost an account its login: it asks for a new one only when the token it
\* needed was really lost (a dropped or failed refresh, a lock that was taken
\* away), or an administrator signed in again while a refresh was under way.
ReauthOnlyWhenLost ==
    /\ \A a \in Accounts : acc[a].status = "reauth_required" => a \in lost
    /\ \A p, q \in Reqs : /\ req[p].pc = "present" /\ req[q].pc = "present"
                          /\ req[p].acct = req[q].acct /\ p # q
                          => req[p].acct \in lost

\* There is at most one default account and it can be used, and racing refreshes never
\* cost an account its login (accounts of db/mod.rs, chatgpt_auth.rs).
AccountsStayUsable == OneUsableDefault /\ ReauthOnlyWhenLost

\* "Refresh is serialized per account both inside a process and across gateway
\* replicas" (README.md): refuted by LoseAdvisoryLock, for the token request
\* has no time limit while the transaction that guards it has one.
RefreshIsSerialized ==
    \A p, q \in Reqs : /\ req[p].pc = "present" /\ req[q].pc = "present"
                       /\ req[p].acct = req[q].acct
                       => p = q

\* Stated but not checked: a cached transport speaks with the credentials of
\* the version it is filed under.  A rotation between StoreRefreshed and
\* Reread refutes it.
CachedUnderItsVersion ==
    \A h \in Replicas, a \in Accounts :
        /\ cache[h][a] # NoTransport /\ Exists(a)
        /\ cache[h][a].ver = acc[a].ver
        => cache[h][a].token = acc[a].token
=============================================================================
