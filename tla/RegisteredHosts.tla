-------------------------- MODULE RegisteredHosts --------------------------
(***************************************************************************)
(* One registered host of the execution gateway: its row in the database,  *)
(* the in-memory registry of daemon connections, the WebSocket sessions,   *)
(* the daemons that open them, and the operations routed through them.     *)
(*                                                                         *)
(* Credential k is the one the k-th claim issued; daemon k holds it.  The  *)
(* steps of a handler between two awaits are actions of their own:         *)
(* registering a connection, recording it, and taking it back, the claim   *)
(* and the disconnect behind it, the disconnect and the deletion, the      *)
(* check and the write of a refresh.                                       *)
(***************************************************************************)
EXTENDS Integers, Sequences, FiniteSets

CONSTANTS
    RegOps,      \* operations, each with its request ID, kept over its retries
    MaxLinks,    \* connections opened
    MaxCreds,    \* credentials issued
    MaxInFlight, \* operations in flight on a connection (max_in_flight)
    QueueSize,   \* outgoing messages of a connection (128)
    MaxRegTries, \* attempts of an operation
    MaxFaults    \* connections that break, failed writes of one, restarts of the gateway

ASSUME RegisteredAssumption ==
    /\ MaxLinks \in Nat \ {0} /\ MaxCreds \in Nat \ {0} /\ MaxInFlight \in Nat \ {0}
    /\ QueueSize \in Nat \ {0} /\ {MaxRegTries, MaxFaults} \subseteq Nat

VARIABLES row, registry, links, daemons, running, answers, calls, desk, spent
regVars == <<row, registry, links, daemons, running, answers, calls, desk, spent>>

LinkIds == 1..MaxLinks
Creds == 1..MaxCreds
NoLink == 0
Welcome == [type |-> "welcome"]
Disconnect(code) == [type |-> "disconnect", code |-> code]
RequestFor(o) == [type |-> "request", op |-> o]

\* A connection that was not opened yet.
Unopened == [phase |-> "none", cred |-> 0, out |-> <<>>, up |-> FALSE, pending |-> {}]

\* A connection whose session is over.
Over == [Unopened EXCEPT !.phase = "ended"]

RegInit ==
    /\ row = [observed |-> "provisioning", deleted |-> FALSE, token |-> TRUE, cred |-> 0,
              revoked |-> FALSE, link |-> NoLink]
    /\ registry = NoLink
    /\ links = [l \in LinkIds |-> Unopened]
    /\ daemons = [k \in Creds |-> [state |-> "none", link |-> NoLink]]
    /\ running = {} /\ answers = {}
    /\ calls = [o \in RegOps |-> [phase |-> "idle", link |-> NoLink, by |-> NoLink, tries |-> 0]]
    /\ desk = [claim |-> 0, answered |-> 0, delete |-> "no", refresh |-> FALSE]
    /\ spent = 0

-----------------------------------------------------------------------------
(***************************************************************************)
(* The registry (host_connections.rs)                                      *)
(***************************************************************************)
\* fail_pending: the waiting callers of a connection get Disconnected.
FailPending(cs, l) ==
    [o \in RegOps |-> IF cs[o].phase = "waiting" /\ cs[o].link = l /\ o \in links[l].pending
                   THEN [cs[o] EXCEPT !.phase = "failed"] ELSE cs[o]]

\* try_send: refused when the queue is full, or the session that drains it is gone.
Accepting(l) == links[l].phase \in {"registered", "open"} /\ Len(links[l].out) < QueueSize
TrySend(ls, l, m) == IF Accepting(l) THEN [ls EXCEPT ![l].out = Append(@, m)] ELSE ls

\* A connection that leaves the registry: its callers fail, its daemon is told why.
Dismissed(ls, l, code) ==
    IF l = NoLink THEN ls ELSE TrySend([ls EXCEPT ![l].pending = {}], l, Disconnect(code))

Unregistered(l) ==
    IF registry = l
    THEN /\ registry' = NoLink
         /\ calls' = FailPending(calls, l)
    ELSE UNCHANGED <<registry, calls>>

\* disconnect
CutOff(code) ==
    /\ registry' = NoLink
    /\ links' = Dismissed(links, registry, code)
    /\ calls' = IF registry = NoLink THEN calls ELSE FailPending(calls, registry)

-----------------------------------------------------------------------------
(***************************************************************************)
(* Enrolment, deletion, refresh (http.rs)                                  *)
(***************************************************************************)
\* renew_registered_host_token, and the replay of create_registered_host
RenewToken ==
    /\ ~row.deleted /\ row' = [row EXCEPT !.token = TRUE]
    /\ UNCHANGED <<registry, links, daemons, running, answers, calls, desk, spent>>

\* claim_registered_host, its statement: the token is used up and the credential replaced.
ClaimToken ==
    /\ row.token /\ ~row.deleted /\ desk.claim = 0 /\ row.cred < MaxCreds
    /\ row' = [row EXCEPT !.token = FALSE, !.cred = @ + 1, !.revoked = FALSE]
    /\ desk' = [desk EXCEPT !.claim = row.cred + 1]
    /\ UNCHANGED <<registry, links, daemons, running, answers, calls, spent>>

\* claim_registered_host, the rest: the older connection is cut, the credential returned.
AnswerClaim ==
    /\ desk.claim # 0
    /\ CutOff("HOST_CREDENTIAL_ROTATED")
    /\ desk' = [desk EXCEPT !.claim = 0, !.answered = desk.claim]
    /\ daemons' = [daemons EXCEPT ![desk.claim].state = "idle"]
    /\ UNCHANGED <<row, running, answers, spent>>

\* delete_host of a registered host: cut first, then delete_registered_host.
DeleteCuts ==
    /\ ~row.deleted /\ desk.delete = "no"
    /\ CutOff("HOST_REGISTRATION_DELETED")
    /\ desk' = [desk EXCEPT !.delete = "cut"]
    /\ UNCHANGED <<row, daemons, running, answers, spent>>

DeleteRegisteredHost ==
    /\ desk.delete = "cut"
    /\ desk' = [desk EXCEPT !.delete = "done"]
    /\ row' = [row EXCEPT !.deleted = TRUE, !.observed = "deleted", !.token = FALSE, !.revoked = TRUE]
    /\ UNCHANGED <<registry, links, daemons, running, answers, calls, spent>>

\* refresh_host: what the registry said may be old when it is written.
RefreshChecks ==
    /\ ~row.deleted /\ registry = NoLink /\ ~desk.refresh
    /\ desk' = [desk EXCEPT !.refresh = TRUE]
    /\ UNCHANGED <<row, registry, links, daemons, running, answers, calls, spent>>

MarkRegisteredUnavailable ==
    /\ desk.refresh /\ desk' = [desk EXCEPT !.refresh = FALSE]
    /\ row' = IF row.deleted THEN row ELSE [row EXCEPT !.observed = "unavailable"]
    /\ UNCHANGED <<registry, links, daemons, running, answers, calls, spent>>

-----------------------------------------------------------------------------
(***************************************************************************)
(* A session (run_registered_socket_inner)                                 *)
(***************************************************************************)
\* authenticate_registered_host
Authentic(cred) == row.cred = cred /\ ~row.revoked /\ ~row.deleted

\* The daemon connects with its credential; a refused one tries again after its delay.
DaemonConnects(k) ==
    /\ daemons[k].state = "idle" /\ Authentic(k)
    /\ \E l \in LinkIds :
         /\ links[l].phase = "none" /\ \A m \in 1..(l - 1) : links[m].phase # "none"
         /\ links' = [links EXCEPT ![l] = [Unopened EXCEPT !.phase = "hello", !.cred = k, !.up = TRUE]]
         /\ daemons' = [daemons EXCEPT ![k] = [state |-> "greeting", link |-> l]]
    /\ UNCHANGED <<row, registry, running, answers, calls, desk, spent>>

\* Hello was read and is valid: the connection takes the place of the one before.
Register(l) ==
    /\ links[l].phase = "hello" /\ links[l].up
    /\ registry' = l
    /\ links' = [Dismissed(links, registry, "CONNECTION_REPLACED") EXCEPT ![l].phase = "registered"]
    /\ calls' = IF registry = NoLink THEN calls ELSE FailPending(calls, registry)
    /\ UNCHANGED <<row, daemons, running, answers, desk, spent>>

\* Faulty variant: the credential is not looked at again.
CredentialHeldOnce(l) == TRUE

\* The credential a connection is recorded with is still the host's.
CredentialHolds(l) == row.cred = links[l].cred /\ ~row.revoked

\* mark_registered_connected, then welcome; or the connection is taken back.  Nothing drains
\* the queue yet: welcome waits for ever behind a full one.
MarkConnected(l) ==
    /\ links[l].phase = "registered"
    /\ \/ /\ CredentialHolds(l)
          /\ row' = [row EXCEPT !.link = l, !.observed = IF row.deleted THEN @ ELSE "ready"]
          /\ links' = [TrySend(links, l, Welcome) EXCEPT
                         ![l].phase = IF Accepting(l) THEN "open" ELSE "stuck"]
          /\ UNCHANGED <<registry, calls>>
       \/ /\ ~CredentialHolds(l)
          /\ Unregistered(l)
          /\ links' = [links EXCEPT ![l] = Over]
          /\ UNCHANGED row
    /\ UNCHANGED <<daemons, running, answers, desk, spent>>

\* The database fails: the session ends and stays in the registry.
MarkFails(l) ==
    /\ links[l].phase = "registered" /\ spent < MaxFaults
    /\ spent' = spent + 1
    /\ links' = [links EXCEPT ![l].phase = "ended", ![l].up = FALSE]
    /\ UNCHANGED <<row, registry, daemons, running, answers, calls, desk>>

\* HostConnections::complete: only the registered connection answers its callers.
Answers(l) == registry = l

\* A response is read from the socket.
ReceiveResponse(l, o) ==
    /\ <<l, o>> \in answers /\ links[l].phase = "open" /\ links[l].up
    /\ answers' = answers \ {<<l, o>>}
    /\ IF Answers(l) /\ o \in links[registry].pending
       THEN /\ links' = [links EXCEPT ![registry].pending = @ \ {o}]
            /\ calls' = IF calls[o].phase = "waiting" /\ calls[o].link = registry
                        THEN [calls EXCEPT ![o].phase = "answered", ![o].by = l] ELSE calls
       ELSE UNCHANGED <<links, calls>>
    /\ UNCHANGED <<row, registry, daemons, running, desk, spent>>

\* The socket ended, failed, or was silent for three heartbeats.
SessionEnds(l) ==
    /\ links[l].phase \in {"hello", "open"} /\ ~links[l].up
    /\ links' = [links EXCEPT ![l] = IF @.phase = "hello" THEN Over ELSE [@ EXCEPT !.phase = "closing", !.out = <<>>]]
    /\ answers' = {a \in answers : a[1] # l}
    /\ UNCHANGED <<row, registry, daemons, running, calls, desk, spent>>

\* unregister; only the connection that was still registered records that it ended.
Unregister(l) ==
    /\ links[l].phase = "closing"
    /\ Unregistered(l)
    /\ links' = [links EXCEPT ![l] = IF registry = l THEN [Over EXCEPT !.phase = "unmarking"] ELSE Over]
    /\ UNCHANGED <<row, daemons, running, answers, desk, spent>>

MarkDisconnected(l) ==
    /\ links[l].phase = "unmarking"
    /\ row' = IF row.link = l /\ ~row.deleted THEN [row EXCEPT !.observed = "unavailable"] ELSE row
    /\ links' = [links EXCEPT ![l] = Over]
    /\ UNCHANGED <<registry, daemons, running, answers, calls, desk, spent>>

-----------------------------------------------------------------------------
(***************************************************************************)
(* The daemon (connection.rs)                                              *)
(***************************************************************************)
\* The codes that tell a daemon not to come back.
StopCodes == {"HOST_REGISTRATION_DELETED", "HOST_CREDENTIAL_ROTATED", "CONNECTION_REPLACED"}

\* What the daemon does with a message: the next state of its session.
Heard(state, m) ==
    CASE m.type = "welcome" /\ state = "greeting" -> "open"
      [] m.type = "request" /\ state = "open" -> "open"
      [] m.type = "disconnect" /\ state = "open" /\ m.code \in StopCodes -> "stopped"
      [] OTHER -> "idle"

\* The session sends its next message and the daemon reads it.  A request before welcome,
\* or a disconnect, ends the daemon's side.
Deliver(l) ==
    /\ links[l].phase = "open" /\ links[l].up /\ links[l].out # <<>>
    /\ LET k == links[l].cred
           m == Head(links[l].out)
           next == Heard(daemons[k].state, m)
       IN /\ daemons[k].link = l
          /\ daemons' = [daemons EXCEPT ![k] = [state |-> next, link |-> IF next = "open" THEN l ELSE NoLink]]
          /\ links' = [links EXCEPT ![l].out = Tail(@), ![l].up = next = "open"]
          /\ running' = IF m.type = "request" /\ next = "open" THEN running \cup {<<l, m.op>>} ELSE running
    /\ UNCHANGED <<row, registry, answers, calls, desk, spent>>

\* dispatch_request answers; the answer is dropped with the connection it is for.
DispatchRequest(l, o) ==
    /\ <<l, o>> \in running
    /\ running' = running \ {<<l, o>>}
    /\ answers' = IF links[l].up THEN answers \cup {<<l, o>>} ELSE answers
    /\ UNCHANGED <<row, registry, links, daemons, calls, desk, spent>>

\* The connection breaks, or a side hears nothing and closes it.
Breaks(l) ==
    /\ links[l].up /\ spent < MaxFaults
    /\ spent' = spent + 1
    /\ links' = [links EXCEPT ![l].up = FALSE]
    /\ UNCHANGED <<row, registry, daemons, running, answers, calls, desk>>

\* run: the connection closed, or the gateway's heartbeat did not come: connect again.
DaemonNotices(k) ==
    /\ daemons[k].state \in {"greeting", "open"} /\ ~links[daemons[k].link].up
    /\ daemons' = [daemons EXCEPT ![k] = [state |-> "idle", link |-> NoLink]]
    /\ UNCHANGED <<row, registry, links, running, answers, calls, desk, spent>>

-----------------------------------------------------------------------------
(***************************************************************************)
(* Operations (execute_operation)                                          *)
(***************************************************************************)
Begin(o) ==
    /\ calls[o].phase \in {"idle", "failed", "dropped"} /\ calls[o].tries < MaxRegTries
    /\ calls' = [calls EXCEPT ![o].phase = IF row.observed = "ready" THEN "checked" ELSE "failed",
                              ![o].tries = @ + 1]
    /\ UNCHANGED <<row, registry, links, daemons, running, answers, desk, spent>>

InFlight(l) == {o \in RegOps : calls[o].phase = "waiting" /\ calls[o].link = l}

\* HostConnections::execute: offline, busy, a duplicate, or sent and waiting.
Route(o) ==
    /\ calls[o].phase = "checked"
    /\ IF /\ registry # NoLink /\ Cardinality(InFlight(registry)) < MaxInFlight
          /\ o \notin links[registry].pending /\ Accepting(registry)
       THEN /\ links' = [links EXCEPT ![registry].pending = @ \cup {o},
                                      ![registry].out = Append(@, RequestFor(o))]
            /\ calls' = [calls EXCEPT ![o].phase = "waiting", ![o].link = registry]
       ELSE calls' = [calls EXCEPT ![o].phase = "failed"] /\ UNCHANGED links
    /\ UNCHANGED <<row, registry, daemons, running, answers, desk, spent>>

OperationTimeout(o) ==
    /\ calls[o].phase = "waiting"
    /\ links' = [links EXCEPT ![calls[o].link].pending = @ \ {o}]
    /\ calls' = [calls EXCEPT ![o].phase = "failed"]
    /\ UNCHANGED <<row, registry, daemons, running, answers, desk, spent>>

\* The caller of the gateway goes away: its permit returns, its pending entry stays.
CallerLeaves(o) ==
    /\ calls[o].phase = "waiting"
    /\ calls' = [calls EXCEPT ![o].phase = "dropped"]
    /\ UNCHANGED <<row, registry, links, daemons, running, answers, desk, spent>>

-----------------------------------------------------------------------------
\* build: the registry is empty and no registered host is ready until it connects again.
GatewayRestarts ==
    /\ spent < MaxFaults
    /\ spent' = spent + 1
    /\ registry' = NoLink
    /\ links' = [l \in LinkIds |-> IF links[l].phase = "none" THEN Unopened ELSE Over]
    /\ answers' = {}
    /\ calls' = [o \in RegOps |-> IF calls[o].phase \in {"checked", "waiting"}
                               THEN [calls[o] EXCEPT !.phase = "failed"] ELSE calls[o]]
    /\ row' = IF row.observed = "ready" THEN [row EXCEPT !.observed = "unavailable"] ELSE row
    /\ desk' = [desk EXCEPT !.claim = 0, !.refresh = FALSE, !.delete = IF @ = "cut" THEN "no" ELSE @]
    /\ UNCHANGED <<daemons, running>>

LinkStep(l) ==
    \/ Register(l) \/ MarkConnected(l) \/ MarkFails(l) \/ SessionEnds(l) \/ Unregister(l)
    \/ MarkDisconnected(l) \/ Deliver(l) \/ Breaks(l)
    \/ \E o \in RegOps : ReceiveResponse(l, o) \/ DispatchRequest(l, o)
CallStep(o) == Begin(o) \/ Route(o) \/ OperationTimeout(o) \/ CallerLeaves(o)

RegNext ==
    \/ RenewToken \/ ClaimToken \/ AnswerClaim \/ DeleteCuts \/ DeleteRegisteredHost
    \/ RefreshChecks \/ MarkRegisteredUnavailable \/ GatewayRestarts
    \/ \E l \in LinkIds : LinkStep(l)
    \/ \E k \in Creds : DaemonConnects(k) \/ DaemonNotices(k)
    \/ \E o \in RegOps : CallStep(o)

RegSpec == RegInit /\ [][RegNext]_regVars

-----------------------------------------------------------------------------
Messages ==
    {Welcome} \cup {Disconnect(c) : c \in StopCodes} \cup {RequestFor(o) : o \in RegOps}
Queues == {q \in Seq(Messages) : Len(q) <= QueueSize}

Connections ==
    [phase : {"none", "hello", "registered", "open", "stuck", "closing", "unmarking", "ended"},
     cred : 0..MaxCreds, out : Queues, up : BOOLEAN, pending : SUBSET RegOps]

DaemonStates == [state : {"none", "idle", "greeting", "open", "stopped"}, link : 0..MaxLinks]

CallStates ==
    [phase : {"idle", "checked", "waiting", "answered", "failed", "dropped"},
     link : 0..MaxLinks, by : 0..MaxLinks, tries : 0..MaxRegTries]

RegTypeOK ==
    /\ row \in [observed : {"provisioning", "ready", "unavailable", "deleted"}, deleted : BOOLEAN,
                token : BOOLEAN, cred : 0..MaxCreds, revoked : BOOLEAN, link : 0..MaxLinks]
    /\ registry \in 0..MaxLinks
    /\ links \in [LinkIds -> Connections]
    /\ daemons \in [Creds -> DaemonStates]
    /\ running \subseteq LinkIds \X RegOps /\ answers \subseteq LinkIds \X RegOps
    /\ calls \in [RegOps -> CallStates]
    /\ desk \in [claim : 0..MaxCreds, answered : 0..MaxCreds, delete : {"no", "cut", "done"},
                 refresh : BOOLEAN]
    /\ spent \in 0..MaxFaults

\* Once a claim has returned its credential, no operation is routed to a daemon that holds an
\* older one: a connection authenticated before the claim, however slow its handshake, is
\* either cut by the claim or refused when it is recorded.  It rests on a connection being
\* registered before it is recorded, and on a claim cutting after it has written.
OldCredentialIsCut ==
    registry # NoLink /\ links[registry].phase = "open" => links[registry].cred >= desk.answered

\* An operation is answered by the connection its request went out on, never by a late
\* response on a connection that was replaced, although a retry keeps its request ID.
AnswersTheirOwnRequest ==
    \A o \in RegOps : calls[o].phase = "answered" => calls[o].by = calls[o].link

\* A link speaks for the daemon that the host's present credential names, and an
\* answer reaches the request it belongs to (http.rs, host_connections.rs of the
\* execution gateway).
LinksAreAuthentic == OldCredentialIsCut /\ AnswersTheirOwnRequest

\* "Deleting the host revokes its credential and closes the connection": a daemon whose
\* handshake was under way connects between the two and stays.  Refuted.
DeletedHostIsDisconnected ==
    desk.delete = "done" => registry = NoLink \/ links[registry].phase \notin {"open"}
=============================================================================
