--------------------------- MODULE ProviderLogin ---------------------------
(***************************************************************************)
(* The ChatGPT sign-in of the platform server (providers/login.rs).  The   *)
(* dashboard starts an attempt and polls it; the browser comes back with   *)
(* a visit to the callback, which a detached task exchanges for tokens and *)
(* turns into an account of the LLM gateway.  The attempts live in memory. *)
(* Visits may come late, twice, or be closed by the user, and the account  *)
(* may exist although nobody got the answer.                               *)
(***************************************************************************)
EXTENDS Naturals, FiniteSets

CONSTANTS
    Logins,         \* the ids of attempts, never used twice
    Visits,         \* the browser's requests to the callback
    MaxAttempts,    \* attempts kept at a time
    MaxRestarts     \* bound: how often the server is restarted

ASSUME ProviderLoginAssumption ==
    /\ MaxAttempts \in Nat
    /\ MaxRestarts \in Nat
    /\ "none" \notin Logins

VARIABLES
    attempts,       \* login -> its attempt in memory, or NoAttempt
    started,        \* the ids that were given out
    visit,          \* visit -> its login, what its popup sees, and its task
    posted,         \* visit -> its request that the gateway create the account
    told,           \* login -> what the dashboard was told for good, and which were withdrawn
    restarts

loginVars == <<attempts, started, visit, posted, told, restarts>>

NoAttempt == [status |-> "none", expired |-> FALSE]
NoVisit == [login |-> "none", popup |-> "none", task |-> "none"]

LoginsInit ==
    /\ attempts = [g \in Logins |-> NoAttempt]
    /\ started = {}
    /\ visit = [v \in Visits |-> NoVisit]
    /\ posted = [v \in Visits |-> "no"]
    /\ told = [g \in Logins |-> {}]
    /\ restarts = 0

Kept(as) == {g \in Logins : as[g] # NoAttempt}

\* Faulty variant: an expired attempt is dropped although its exchange is going on.
PrunedAll == [g \in Logins |-> IF attempts[g].expired THEN NoAttempt ELSE attempts[g]]

\* An attempt is dropped once it expired, unless its exchange is still going on.
Pruned == [g \in Logins |->
    IF attempts[g].expired /\ attempts[g].status # "exchanging" THEN NoAttempt ELSE attempts[g]]

-----------------------------------------------------------------------------
\* The dashboard.

\* Too many attempts refuse a start; the expired ones are dropped in any case.
StartLogin(g) ==
    /\ g \notin started
    /\ IF Cardinality(Kept(Pruned)) < MaxAttempts
       THEN /\ attempts' = [Pruned EXCEPT ![g] = [status |-> "pending", expired |-> FALSE]]
            /\ started' = started \cup {g}
       ELSE attempts' = Pruned /\ UNCHANGED started
    /\ UNCHANGED <<visit, posted, told, restarts>>

\* A poll. Only a success is final for the dashboard; a failure may have left an account.
PollLogin(g) ==
    /\ g \in started
    /\ attempts' = Pruned
    /\ told' = [told EXCEPT ![g] = @ \cup ({Pruned[g].status} \cap {"succeeded"})]
    /\ UNCHANGED <<started, visit, posted, restarts>>

\* An attempt that is being exchanged cannot be cancelled (the refusal changes nothing).  For
\* every other, also one that failed or that the server no longer knows, the dashboard is told
\* that it is cancelled; "withdrawn" remembers which were pending.
CancelLogin(g) ==
    /\ g \in started
    /\ attempts[g].status # "exchanging"
    /\ attempts' = [attempts EXCEPT ![g] = NoAttempt]
    /\ told' = [told EXCEPT ![g] =
          @ \cup {"cancelled"} \cup IF attempts[g].status = "pending" THEN {"withdrawn"} ELSE {}]
    /\ UNCHANGED <<started, visit, posted, restarts>>

ExpireLogin(g) ==
    /\ attempts[g] # NoAttempt
    /\ ~attempts[g].expired
    /\ attempts' = [attempts EXCEPT ![g].expired = TRUE]
    /\ UNCHANGED <<started, visit, posted, told, restarts>>

-----------------------------------------------------------------------------
\* The callback and the task it starts.

Answer(v, g, seen) == visit' = [visit EXCEPT ![v] = [login |-> g, popup |-> seen, task |-> "none"]]

\* The visit carries the state of attempt g: only a pending attempt is exchanged, and a
\* query without a usable code ends the attempt.
CompleteLogin(v, g) ==
    /\ visit[v] = NoVisit /\ g \in started
    /\ \/ /\ Pruned[g].status = "pending"
          /\ attempts' = [Pruned EXCEPT ![g].status = "exchanging"]
          /\ visit' = [visit EXCEPT ![v] = [login |-> g, popup |-> "waiting", task |-> "token"]]
       \/ /\ Pruned[g].status = "pending"
          /\ attempts' = [Pruned EXCEPT ![g].status = "failed"]
          /\ Answer(v, g, "failed")
       \/ /\ Pruned[g].status # "pending"
          /\ attempts' = Pruned
          /\ Answer(v, g, "failed")
    /\ UNCHANGED <<started, posted, told, restarts>>

TaskTo(v, t) == visit' = [visit EXCEPT ![v].task = t]

\* The token endpoint answers with tokens the claims of which can be read, and the account
\* is requested from the gateway; or it does not, or in time.
ExchangeTokens(v) ==
    /\ visit[v].task = "token"
    /\ \/ TaskTo(v, "create") /\ posted' = [posted EXCEPT ![v] = "sent"]
       \/ TaskTo(v, "err") /\ UNCHANGED posted
    /\ UNCHANGED <<attempts, started, told, restarts>>

\* The answer to the one request for the account: it exists, or the caller does not know.
CreateAnswered(v) ==
    /\ visit[v].task = "create"
    /\ \/ posted[v] = "created" /\ TaskTo(v, "ok")
       \/ TaskTo(v, "err")
    /\ UNCHANGED <<attempts, started, posted, told, restarts>>

\* The LLM gateway works a request off whether or not its caller still waits.
GatewayCreates(v) ==
    /\ posted[v] = "sent"
    /\ \E r \in {"created", "refused"} : posted' = [posted EXCEPT ![v] = r]
    /\ UNCHANGED <<attempts, started, visit, told, restarts>>

\* The task stores its result, if the attempt is still there, and its popup is answered.
StoreLogin(v) ==
    LET g == visit[v].login
        ok == visit[v].task = "ok" IN
    /\ visit[v].task \in {"ok", "err"}
    /\ attempts' = IF attempts[g] = NoAttempt THEN attempts
                   ELSE [attempts EXCEPT ![g] = [status |-> IF ok THEN "succeeded" ELSE "failed",
                                                 expired |-> FALSE]]
    /\ Answer(v, g, IF visit[v].popup # "waiting" THEN visit[v].popup ELSE IF ok THEN "ok" ELSE "failed")
    /\ UNCHANGED <<started, posted, told, restarts>>

\* The user closes the popup: the task does not belong to its connection.
ClosePopup(v) ==
    /\ visit[v].popup = "waiting"
    /\ visit' = [visit EXCEPT ![v].popup = "closed"]
    /\ UNCHANGED <<attempts, started, posted, told, restarts>>

\* The server is restarted: attempts and tasks are gone, requests that were sent are not.
RestartServer ==
    /\ restarts < MaxRestarts
    /\ restarts' = restarts + 1
    /\ attempts' = [g \in Logins |-> NoAttempt]
    /\ visit' = [v \in Visits |->
          [login |-> visit[v].login, task |-> "none",
           popup |-> IF visit[v].popup = "waiting" THEN "closed" ELSE visit[v].popup]]
    /\ UNCHANGED <<started, posted, told>>

LoginsNext ==
    \/ \E g \in Logins : StartLogin(g) \/ PollLogin(g) \/ CancelLogin(g) \/ ExpireLogin(g)
    \/ \E v \in Visits, g \in Logins : CompleteLogin(v, g)
    \/ \E v \in Visits :
         ExchangeTokens(v) \/ CreateAnswered(v) \/ GatewayCreates(v) \/ StoreLogin(v) \/ ClosePopup(v)
    \/ RestartServer

LoginsSpec == LoginsInit /\ [][LoginsNext]_loginVars

-----------------------------------------------------------------------------
\* Types.
LoginsTypeOK ==
    /\ attempts \in [Logins -> {NoAttempt} \cup
          [status : {"pending", "exchanging", "succeeded", "failed"}, expired : BOOLEAN]]
    /\ started \subseteq Logins
    /\ visit \in [Visits -> [login : Logins \cup {"none"},
                             popup : {"none", "waiting", "ok", "failed", "closed"},
                             task : {"none", "token", "create", "ok", "err"}]]
    /\ posted \in [Visits -> {"no", "sent", "created", "refused"}]
    /\ told \in [Logins -> SUBSET {"succeeded", "cancelled", "withdrawn"}]
    /\ restarts \in 0..MaxRestarts

Of(g) == {v \in Visits : visit[v].login = g}

\* A sign-in creates one account at the most, however often the browser comes back
\* (complete takes a pending attempt only, login.rs:163-171).
OneAccountPerLogin ==
    \A g \in Logins : Cardinality({v \in Of(g) : posted[v] # "no"}) <= 1

\* An account is never created for an attempt that was cancelled while it was pending; once a
\* cancellation of any attempt is confirmed, no task of the server works on it, so what may
\* still become of it was asked of the gateway before; and the dashboard and the popup see a
\* success only when the account exists (login.rs:146-158, 195-216).
LoginsAreTruthful ==
    /\ \A g \in Logins : "withdrawn" \in told[g] => \A v \in Of(g) : posted[v] = "no"
    /\ \A g \in Logins : "cancelled" \in told[g] => \A v \in Of(g) : visit[v].task = "none"
    /\ \A g \in Logins : "succeeded" \in told[g] => \E v \in Of(g) : posted[v] = "created"
    /\ \A v \in Visits : visit[v].popup = "ok" => posted[v] = "created"

\* Not true of the code: "Never claim it was canceled while that write is in flight"
\* (login.rs:152-153), "Once token exchange begins it is not reported as canceled" (the
\* server's README.md:207-208).
CancelledHasNoAccount == \A g \in Logins : "cancelled" \in told[g] => \A v \in Of(g) : posted[v] = "no"

\* An attempt says that it is exchanging exactly while a task works on it, so a popup that
\* is closed, an expiry or a cancellation strands none; the map stays within its limit.
NoneIsStranded ==
    /\ \A g \in Logins : attempts[g].status = "exchanging" <=> \E v \in Of(g) : visit[v].task # "none"
    /\ Cardinality(Kept(attempts)) <= MaxAttempts

\* A sign-in creates one account at the most, says so truthfully, and none is left behind
\* half done (providers/login.rs of the server).
SignInsAreTruthful == OneAccountPerLogin /\ LoginsAreTruthful /\ NoneIsStranded
=============================================================================
