-------------------------- MODULE HostLinksProofs --------------------------
(***************************************************************************)
(* Proofs about the two ways to an execution host, for any number of       *)
(* connections, credentials, operations, runtimes and supervisors and any  *)
(* bounds: the link of a registered host (RegisteredHosts) and the E2B     *)
(* client (E2bClient); and about the driver that works over them, for any  *)
(* inputs, batches of calls and bounds (Harnesses).                        *)
(***************************************************************************)
EXTENDS RegisteredHosts, E2bClient, Harnesses, FiniteSetTheorems, TLAPS

-----------------------------------------------------------------------------
(***************************************************************************)
(* RegisteredHosts                                                         *)
(***************************************************************************)

\* Credentials are issued in order, and a claim that has not answered holds the last one.
ClaimsAreInOrder ==
    /\ desk.answered <= row.cred
    /\ desk.claim # 0 => desk.claim = row.cred

\* The inductive invariant.
RegInv == RegTypeOK /\ ClaimsAreInOrder /\ LinksAreAuthentic

\* What a session may find in its queue.
LEMMA MessagesTyped ==
    /\ Welcome \in Messages
    /\ \A c \in StopCodes : Disconnect(c) \in Messages
    /\ \A o \in RegOps : RequestFor(o) \in Messages
    /\ \A m \in Messages : m.type = "request" => m.op \in RegOps
<1>1. Welcome \in Messages
  BY DEF Messages
<1>2. \A c \in StopCodes : Disconnect(c) \in Messages
  BY DEF Messages
<1>3. \A o \in RegOps : RequestFor(o) \in Messages
  BY DEF Messages
<1>4. ASSUME NEW m \in Messages, m.type = "request"
      PROVE  m.op \in RegOps
  <2>1. Welcome.type # "request"
    BY DEF Welcome
  <2>2. \A c : Disconnect(c).type # "request"
    BY DEF Disconnect
  <2>3. \A o : RequestFor(o).op = o
    BY DEF RequestFor
  <2> QED BY <1>4, <2>1, <2>2, <2>3 DEF Messages
<1> QED BY <1>1, <1>2, <1>3, <1>4

\* A queue takes a message while it has room, and gives its first one away.
LEMMA QueuesTyped ==
    /\ << >> \in Queues
    /\ \A q \in Queues, m \in Messages : Len(q) < QueueSize => Append(q, m) \in Queues
    /\ \A q \in Queues : q # << >> => Head(q) \in Messages /\ Tail(q) \in Queues
<1>1. << >> \in Queues
  BY RegisteredAssumption DEF Queues
<1>2. \A q \in Queues, m \in Messages : Len(q) < QueueSize => Append(q, m) \in Queues
  BY RegisteredAssumption DEF Queues
<1>3. \A q \in Queues : q # << >> => Head(q) \in Messages /\ Tail(q) \in Queues
  BY RegisteredAssumption DEF Queues
<1> QED BY <1>1, <1>2, <1>3

\* Sending disturbs nothing but the queue it sends to.
LEMMA TrySendTyped ==
    ASSUME RegTypeOK, NEW ls \in [LinkIds -> Connections], NEW l \in LinkIds,
           ls[l].out = links[l].out, NEW m \in Messages
    PROVE  /\ TrySend(ls, l, m) \in [LinkIds -> Connections]
           /\ \A x \in LinkIds : /\ TrySend(ls, l, m)[x].phase = ls[x].phase
                                 /\ TrySend(ls, l, m)[x].cred = ls[x].cred
<1> DEFINE q == Append(ls[l].out, m)
<1>1. Accepting(l) => q \in Queues
  BY QueuesTyped DEF Accepting, Connections
<1> HIDE DEF q
<1>2. TrySend(ls, l, m) = IF Accepting(l) THEN [ls EXCEPT ![l].out = q] ELSE ls
  BY DEF TrySend, q
<1>3. CASE ~Accepting(l)
  BY <1>2, <1>3
<1>4. CASE Accepting(l)
  BY <1>1, <1>2, <1>4 DEF Connections
<1> QED BY <1>3, <1>4

LEMMA DismissedTyped ==
    ASSUME RegTypeOK, NEW l \in 0..MaxLinks, NEW c \in StopCodes
    PROVE  /\ Dismissed(links, l, c) \in [LinkIds -> Connections]
           /\ \A x \in LinkIds : /\ Dismissed(links, l, c)[x].phase = links[x].phase
                                 /\ Dismissed(links, l, c)[x].cred = links[x].cred
<1>1. CASE l = NoLink
  BY <1>1 DEF Dismissed, RegTypeOK
<1>2. CASE l # NoLink
  <2> DEFINE ls == [links EXCEPT ![l].pending = {}]
  <2>1. l \in LinkIds
    BY <1>2, RegisteredAssumption DEF LinkIds, NoLink
  <2>2. /\ ls \in [LinkIds -> Connections]
        /\ ls[l].out = links[l].out
        /\ \A x \in LinkIds : ls[x].phase = links[x].phase /\ ls[x].cred = links[x].cred
    BY <2>1 DEF RegTypeOK, Connections
  <2>3. Dismissed(links, l, c) = TrySend(ls, l, Disconnect(c))
    BY <1>2 DEF Dismissed
  <2>4. Disconnect(c) \in Messages
    BY MessagesTyped
  <2> HIDE DEF ls
  <2> QED BY <2>1, <2>2, <2>3, <2>4, TrySendTyped
<1> QED BY <1>1, <1>2

\* Failing the callers of a connection changes no call that was answered.
LEMMA FailPendingTyped ==
    ASSUME RegTypeOK, AnswersTheirOwnRequest, NEW l \in LinkIds
    PROVE  /\ FailPending(calls, l) \in [RegOps -> CallStates]
           /\ \A o \in RegOps : FailPending(calls, l)[o].phase = "answered" =>
                 FailPending(calls, l)[o].by = FailPending(calls, l)[o].link
BY DEF FailPending, RegTypeOK, CallStates, AnswersTheirOwnRequest

LEMMA UnopenedTyped == Unopened \in Connections
BY QueuesTyped, RegisteredAssumption DEF Unopened, Connections

\* The first state.
LEMMA RegInitially == RegInit => RegInv
<1> SUFFICES ASSUME RegInit PROVE RegInv
  OBVIOUS
<1>1. Unopened \in Connections
  BY UnopenedTyped
<1>2. RegTypeOK
  BY <1>1, RegisteredAssumption DEF RegTypeOK, RegInit, NoLink, DaemonStates, CallStates
<1>3. ClaimsAreInOrder /\ LinksAreAuthentic
  BY DEF RegInit, ClaimsAreInOrder, LinksAreAuthentic, OldCredentialIsCut, AnswersTheirOwnRequest
<1> QED BY <1>2, <1>3 DEF RegInv

\* A step that leaves the claims alone and neither registers a connection nor opens one.
LinksFrame ==
    /\ desk'.answered = desk.answered
    /\ registry' \in {registry, NoLink}
    /\ \A l \in LinkIds : links'[l].phase = "open" =>
           links[l].phase = "open" /\ links'[l].cred = links[l].cred

LEMMA CutFrame ==
    ASSUME RegInv, RegTypeOK', LinksFrame
    PROVE  OldCredentialIsCut'
<1>1. registry' # NoLink => registry' = registry /\ registry \in LinkIds
  BY RegisteredAssumption DEF LinksFrame, RegTypeOK, RegInv, NoLink, LinkIds
<1> QED BY <1>1 DEF LinksFrame, RegInv, LinksAreAuthentic, OldCredentialIsCut

-----------------------------------------------------------------------------
(* Enrolment, deletion, refresh *)

LEMMA RowSteps ==
    ASSUME RegInv, RenewToken \/ RefreshChecks \/ MarkRegisteredUnavailable \/ DeleteRegisteredHost
    PROVE  RegInv'
<1>1. RegTypeOK'
  BY DEF RegInv, RegTypeOK, RenewToken, RefreshChecks, MarkRegisteredUnavailable,
         DeleteRegisteredHost
<1>2. ClaimsAreInOrder'
  BY DEF RegInv, RegTypeOK, ClaimsAreInOrder, RenewToken, RefreshChecks,
         MarkRegisteredUnavailable, DeleteRegisteredHost
<1>3. LinksAreAuthentic'
  BY DEF RegInv, RegTypeOK, LinksAreAuthentic, OldCredentialIsCut, AnswersTheirOwnRequest,
         RenewToken, RefreshChecks, MarkRegisteredUnavailable, DeleteRegisteredHost
<1> QED BY <1>1, <1>2, <1>3 DEF RegInv

LEMMA ClaimTokenStep ==
    ASSUME RegInv, ClaimToken PROVE RegInv'
<1>1. row.cred \in 0..MaxCreds /\ row.cred + 1 \in 0..MaxCreds
  BY RegisteredAssumption DEF RegInv, RegTypeOK, ClaimToken
<1>2. RegTypeOK'
  BY <1>1 DEF RegInv, RegTypeOK, ClaimToken
<1>3. row'.cred = row.cred + 1 /\ desk'.claim = row.cred + 1 /\ desk'.answered = desk.answered
  BY DEF RegInv, RegTypeOK, ClaimToken
<1>4. desk.answered \in Nat /\ desk.answered <= row.cred
  BY DEF RegInv, RegTypeOK, ClaimsAreInOrder
<1>5. ClaimsAreInOrder'
  BY <1>1, <1>3, <1>4 DEF ClaimsAreInOrder
<1>6. LinksAreAuthentic'
  BY <1>3 DEF RegInv, LinksAreAuthentic, OldCredentialIsCut, AnswersTheirOwnRequest, ClaimToken
<1> QED BY <1>2, <1>5, <1>6 DEF RegInv

\* disconnect, for either reason.
LEMMA CutOffTyped ==
    ASSUME RegInv, NEW c \in StopCodes, CutOff(c)
    PROVE  /\ registry' = NoLink
           /\ links' \in [LinkIds -> Connections]
           /\ calls' \in [RegOps -> CallStates]
           /\ AnswersTheirOwnRequest'
<1>1. registry \in 0..MaxLinks /\ RegTypeOK /\ AnswersTheirOwnRequest
  BY DEF RegInv, RegTypeOK, LinksAreAuthentic
<1>2. links' \in [LinkIds -> Connections]
  BY <1>1, DismissedTyped DEF CutOff
<1>3. CASE registry = NoLink
  BY <1>1, <1>2, <1>3 DEF CutOff, AnswersTheirOwnRequest, RegTypeOK
<1>4. CASE registry # NoLink
  <2>1. registry \in LinkIds
    BY <1>1, <1>4, RegisteredAssumption DEF LinkIds, NoLink
  <2>2. calls' = FailPending(calls, registry)
    BY <1>4 DEF CutOff
  <2> QED BY <1>1, <1>2, <2>1, <2>2, FailPendingTyped DEF CutOff, AnswersTheirOwnRequest
<1> QED BY <1>3, <1>4

LEMMA AnswerClaimStep ==
    ASSUME RegInv, AnswerClaim PROVE RegInv'
<1>1. "HOST_CREDENTIAL_ROTATED" \in StopCodes
  BY DEF StopCodes
<1>2. CutOff("HOST_CREDENTIAL_ROTATED")
  BY DEF AnswerClaim
<1>3. /\ registry' = NoLink
      /\ links' \in [LinkIds -> Connections]
      /\ calls' \in [RegOps -> CallStates]
      /\ AnswersTheirOwnRequest'
  BY <1>1, <1>2, CutOffTyped
<1>7. daemons' \in [Creds -> DaemonStates]
  BY DEF RegInv, RegTypeOK, AnswerClaim, DaemonStates
<1>8. desk' \in [claim : 0..MaxCreds, answered : 0..MaxCreds, delete : {"no", "cut", "done"},
                 refresh : BOOLEAN]
  <2>1. desk' = [claim |-> 0, answered |-> desk.claim, delete |-> desk.delete,
                 refresh |-> desk.refresh]
    BY DEF RegInv, RegTypeOK, AnswerClaim
  <2>2. desk.claim \in 0..MaxCreds /\ 0 \in 0..MaxCreds
    BY RegisteredAssumption DEF RegInv, RegTypeOK
  <2> QED BY <2>1, <2>2 DEF RegInv, RegTypeOK
<1>4. RegTypeOK'
  BY <1>3, <1>7, <1>8, RegisteredAssumption DEF RegInv, RegTypeOK, AnswerClaim, NoLink
<1>5. ClaimsAreInOrder'
  BY DEF RegInv, RegTypeOK, ClaimsAreInOrder, AnswerClaim
<1>6. LinksAreAuthentic'
  BY <1>3 DEF LinksAreAuthentic, OldCredentialIsCut
<1> QED BY <1>4, <1>5, <1>6 DEF RegInv

LEMMA DeleteCutsStep ==
    ASSUME RegInv, DeleteCuts PROVE RegInv'
<1>1. "HOST_REGISTRATION_DELETED" \in StopCodes
  BY DEF StopCodes
<1>2. CutOff("HOST_REGISTRATION_DELETED")
  BY DEF DeleteCuts
<1>3. /\ registry' = NoLink
      /\ links' \in [LinkIds -> Connections]
      /\ calls' \in [RegOps -> CallStates]
      /\ AnswersTheirOwnRequest'
  BY <1>1, <1>2, CutOffTyped
<1>4. RegTypeOK'
  BY <1>3, RegisteredAssumption DEF RegInv, RegTypeOK, DeleteCuts, NoLink
<1>5. ClaimsAreInOrder'
  BY DEF RegInv, RegTypeOK, ClaimsAreInOrder, DeleteCuts
<1>6. LinksAreAuthentic'
  BY <1>3 DEF LinksAreAuthentic, OldCredentialIsCut
<1> QED BY <1>4, <1>5, <1>6 DEF RegInv

-----------------------------------------------------------------------------
(* The session, the daemon, the operations *)

\* What the steps of sessions, daemons and operations leave alone: the claims.
LEMMA ClaimsFrame ==
    ASSUME RegInv, desk' = desk, row'.cred = row.cred
    PROVE  ClaimsAreInOrder'
BY DEF RegInv, ClaimsAreInOrder

LEMMA DaemonConnectsStep ==
    ASSUME RegInv, NEW k \in Creds, DaemonConnects(k) PROVE RegInv'
<1> PICK l \in LinkIds :
      /\ links[l].phase = "none"
      /\ links' = [links EXCEPT ![l] = [Unopened EXCEPT !.phase = "hello", !.cred = k, !.up = TRUE]]
      /\ daemons' = [daemons EXCEPT ![k] = [state |-> "greeting", link |-> l]]
  BY DEF DaemonConnects
<1> DEFINE c == [Unopened EXCEPT !.phase = "hello", !.cred = k, !.up = TRUE]
<1>1. c \in Connections /\ c.phase = "hello"
  <2> DEFINE c1 == [Unopened EXCEPT !.phase = "hello"]
             c2 == [c1 EXCEPT !.cred = k]
  <2>1. c1 \in Connections /\ c1.phase = "hello"
    BY UnopenedTyped DEF Connections
  <2>2. c = [c2 EXCEPT !.up = TRUE]
    OBVIOUS
  <2>3. k \in 0..MaxCreds
    BY RegisteredAssumption DEF Creds
  <2> HIDE DEF c1, c
  <2>4. c2 \in Connections /\ c2.phase = "hello"
    BY <2>1, <2>3 DEF Connections
  <2> HIDE DEF c2
  <2> QED BY <2>2, <2>4 DEF Connections
<1> HIDE DEF c
<1>3. links' = [links EXCEPT ![l] = c]
  BY DEF c
<1>4. links' \in [LinkIds -> Connections]
  BY <1>1, <1>3 DEF RegInv, RegTypeOK
<1>5. daemons' \in [Creds -> DaemonStates]
  BY RegisteredAssumption DEF RegInv, RegTypeOK, DaemonStates, LinkIds
<1>6. RegTypeOK'
  BY <1>4, <1>5 DEF RegInv, RegTypeOK, DaemonConnects
<1>7. LinksFrame
  BY <1>1, <1>3 DEF LinksFrame, DaemonConnects, RegInv, RegTypeOK
<1>8. OldCredentialIsCut'
  BY <1>6, <1>7, CutFrame
<1>9. AnswersTheirOwnRequest'
  BY DEF RegInv, LinksAreAuthentic, AnswersTheirOwnRequest, DaemonConnects
<1> QED BY <1>6, <1>8, <1>9, ClaimsFrame DEF RegInv, LinksAreAuthentic, DaemonConnects

LEMMA RegisterStep ==
    ASSUME RegInv, NEW l \in LinkIds, Register(l) PROVE RegInv'
<1> DEFINE ls == Dismissed(links, registry, "CONNECTION_REPLACED")
<1>1. RegTypeOK /\ AnswersTheirOwnRequest /\ registry \in 0..MaxLinks
  BY DEF RegInv, RegTypeOK, LinksAreAuthentic
<1>2. ls \in [LinkIds -> Connections]
  BY <1>1, DismissedTyped DEF StopCodes
<1>3. links' = [ls EXCEPT ![l].phase = "registered"]
  BY DEF Register
<1> HIDE DEF ls
<1>4. links' \in [LinkIds -> Connections] /\ links'[l].phase = "registered"
  BY <1>2, <1>3 DEF Connections
<1>5. calls' \in [RegOps -> CallStates] /\ AnswersTheirOwnRequest'
  <2>1. CASE registry = NoLink
    BY <1>1, <2>1 DEF Register, RegTypeOK, AnswersTheirOwnRequest
  <2>2. CASE registry # NoLink
    <3>1. registry \in LinkIds
      BY <1>1, <2>2, RegisteredAssumption DEF LinkIds, NoLink
    <3>2. calls' = FailPending(calls, registry)
      BY <2>2 DEF Register
    <3> QED BY <1>1, <3>1, <3>2, FailPendingTyped DEF AnswersTheirOwnRequest
  <2> QED BY <2>1, <2>2
<1>6. RegTypeOK'
  BY <1>4, <1>5, RegisteredAssumption DEF RegInv, RegTypeOK, Register, LinkIds
<1>7. OldCredentialIsCut'
  BY <1>4 DEF OldCredentialIsCut, Register
<1> QED BY <1>5, <1>6, <1>7, ClaimsFrame DEF RegInv, LinksAreAuthentic, Register

\* unregister: the registry forgets the connection, and only that one.
LEMMA UnregisteredTyped ==
    ASSUME RegInv, NEW l \in LinkIds, Unregistered(l)
    PROVE  /\ registry' \in {registry, NoLink}
           /\ calls' \in [RegOps -> CallStates]
           /\ AnswersTheirOwnRequest'
<1>1. RegTypeOK /\ AnswersTheirOwnRequest
  BY DEF RegInv, LinksAreAuthentic
<1>2. CASE registry = l
  BY <1>1, <1>2, FailPendingTyped DEF Unregistered, AnswersTheirOwnRequest
<1>3. CASE registry # l
  BY <1>1, <1>3 DEF Unregistered, AnswersTheirOwnRequest, RegTypeOK
<1> QED BY <1>2, <1>3

LEMMA OverTyped == Over \in Connections /\ Over.phase = "ended"
BY UnopenedTyped DEF Over, Connections

\* A connection that opens has the host's present credential, which is not older than the
\* last one a claim returned.
LEMMA MarkConnectedStep ==
    ASSUME RegInv, NEW l \in LinkIds, MarkConnected(l) PROVE RegInv'
<1>1. RegTypeOK /\ AnswersTheirOwnRequest
  BY DEF RegInv, LinksAreAuthentic
<1>2. CASE CredentialHolds(l)
  <2> DEFINE ls == TrySend(links, l, Welcome)
             p == IF Accepting(l) THEN "open" ELSE "stuck"
  <2>1. /\ ls \in [LinkIds -> Connections]
        /\ \A x \in LinkIds : ls[x].phase = links[x].phase /\ ls[x].cred = links[x].cred
    BY <1>1, TrySendTyped, MessagesTyped DEF RegTypeOK
  <2>2. links' = [ls EXCEPT ![l].phase = p] /\ UNCHANGED <<registry, calls>>
        /\ row' = [row EXCEPT !.link = l, !.observed = IF row.deleted THEN @ ELSE "ready"]
    BY <1>2 DEF MarkConnected
  <2>3. p \in {"open", "stuck"}
    OBVIOUS
  <2> HIDE DEF ls, p
  <2>4. /\ links' \in [LinkIds -> Connections]
        /\ \A x \in LinkIds : /\ links'[x].cred = links[x].cred
                              /\ x # l => links'[x].phase = links[x].phase
    BY <2>1, <2>2, <2>3 DEF Connections
  <2>5. row' \in [observed : {"provisioning", "ready", "unavailable", "deleted"}, deleted : BOOLEAN,
                  token : BOOLEAN, cred : 0..MaxCreds, revoked : BOOLEAN, link : 0..MaxLinks]
        /\ row'.cred = row.cred
    <3>1. l \in 0..MaxLinks
      BY RegisteredAssumption DEF LinkIds
    <3>2. row' = [observed |-> IF row.deleted THEN row.observed ELSE "ready",
                  deleted |-> row.deleted, token |-> row.token, cred |-> row.cred,
                  revoked |-> row.revoked, link |-> l]
      BY <1>1, <2>2 DEF RegTypeOK
    <3> QED BY <1>1, <3>1, <3>2 DEF RegTypeOK
  <2>6. RegTypeOK'
    BY <1>1, <2>2, <2>4, <2>5 DEF RegTypeOK, MarkConnected
  <2>7. links[l].cred = row.cred /\ desk.answered <= row.cred
    BY <1>2 DEF CredentialHolds, RegInv, ClaimsAreInOrder
  <2>8. OldCredentialIsCut'
    <3> SUFFICES ASSUME registry # NoLink, links'[registry].phase = "open"
                 PROVE  links'[registry].cred >= desk.answered
      BY <2>2 DEF OldCredentialIsCut, MarkConnected
    <3>1. registry \in LinkIds
      BY <1>1, RegisteredAssumption DEF RegTypeOK, LinkIds, NoLink
    <3>2. CASE registry = l
      BY <2>4, <2>7, <3>1, <3>2, <1>1 DEF RegTypeOK
    <3>3. CASE registry # l
      BY <2>4, <3>1, <3>3 DEF RegInv, LinksAreAuthentic, OldCredentialIsCut
    <3> QED BY <3>2, <3>3
  <2>9. AnswersTheirOwnRequest'
    BY <1>1, <2>2 DEF AnswersTheirOwnRequest
  <2> QED BY <2>5, <2>6, <2>8, <2>9, ClaimsFrame DEF RegInv, LinksAreAuthentic, MarkConnected
<1>3. CASE ~CredentialHolds(l)
  <2>1. Unregistered(l) /\ links' = [links EXCEPT ![l] = Over] /\ UNCHANGED row
    BY <1>3 DEF MarkConnected
  <2>2. links' \in [LinkIds -> Connections]
    BY <1>1, <2>1, OverTyped DEF RegTypeOK
  <2>3. /\ registry' \in {registry, NoLink}
        /\ calls' \in [RegOps -> CallStates]
        /\ AnswersTheirOwnRequest'
    BY <2>1, UnregisteredTyped
  <2>4. RegTypeOK'
    BY <1>1, <2>1, <2>2, <2>3, RegisteredAssumption DEF RegTypeOK, MarkConnected, NoLink
  <2>5. LinksFrame
    BY <1>1, <2>1, <2>3, OverTyped DEF LinksFrame, RegTypeOK, MarkConnected
  <2>6. OldCredentialIsCut'
    BY <2>4, <2>5, CutFrame
  <2> QED BY <2>1, <2>3, <2>4, <2>6, ClaimsFrame DEF RegInv, LinksAreAuthentic, MarkConnected
<1> QED BY <1>2, <1>3

\* The steps of a session that only end it, or break its connection.
LEMMA EndingSteps ==
    ASSUME RegInv, NEW l \in LinkIds, MarkFails(l) \/ SessionEnds(l) \/ MarkDisconnected(l) \/ Breaks(l)
    PROVE  RegInv'
<1>1. RegTypeOK /\ AnswersTheirOwnRequest
  BY DEF RegInv, LinksAreAuthentic
<1>2. /\ desk' = desk /\ row'.cred = row.cred /\ registry' = registry /\ calls' = calls
      /\ daemons' = daemons /\ running' = running /\ answers' \subseteq answers
      /\ spent' \in 0..MaxFaults
  BY <1>1, RegisteredAssumption
     DEF RegTypeOK, MarkFails, SessionEnds, MarkDisconnected, Breaks
<1>3. row' \in [observed : {"provisioning", "ready", "unavailable", "deleted"}, deleted : BOOLEAN,
                token : BOOLEAN, cred : 0..MaxCreds, revoked : BOOLEAN, link : 0..MaxLinks]
  BY <1>1 DEF RegTypeOK, MarkFails, SessionEnds, MarkDisconnected, Breaks
<1>4. PICK c \in Connections :
        /\ links' = [links EXCEPT ![l] = c]
        /\ c.phase = "open" => links[l].phase = "open" /\ c.cred = links[l].cred
  <2>1. CASE MarkFails(l)
    <3> DEFINE c == [[links[l] EXCEPT !.phase = "ended"] EXCEPT !.up = FALSE]
    <3>1. c \in Connections /\ c.phase = "ended"
      BY <1>1 DEF RegTypeOK, Connections
    <3>2. links' = [links EXCEPT ![l] = c]
      BY <2>1, <1>1 DEF MarkFails, RegTypeOK
    <3> QED BY <3>1, <3>2
  <2>2. CASE SessionEnds(l)
    <3> DEFINE d == [links[l] EXCEPT !.phase = "closing", !.out = << >>]
               c == IF links[l].phase = "hello" THEN Over ELSE d
    <3>1. d \in Connections /\ d.phase = "closing"
      <4> DEFINE e == << >>
      <4>1. e \in Queues
        BY QueuesTyped
      <4>2. d = [[links[l] EXCEPT !.phase = "closing"] EXCEPT !.out = e]
        OBVIOUS
      <4> HIDE DEF e, d
      <4> QED BY <1>1, <4>1, <4>2 DEF RegTypeOK, Connections
    <3>2. links' = [links EXCEPT ![l] = c]
      BY <2>2, <1>1 DEF SessionEnds, RegTypeOK
    <3> HIDE DEF d
    <3>3. c \in Connections /\ c.phase # "open"
      BY <3>1, OverTyped
    <3> QED BY <3>2, <3>3
  <2>3. CASE MarkDisconnected(l)
    BY <2>3, OverTyped DEF MarkDisconnected
  <2>4. CASE Breaks(l)
    <3> DEFINE c == [links[l] EXCEPT !.up = FALSE]
    <3>1. c \in Connections /\ c.phase = links[l].phase /\ c.cred = links[l].cred
      BY <1>1 DEF RegTypeOK, Connections
    <3>2. links' = [links EXCEPT ![l] = c]
      BY <2>4, <1>1 DEF Breaks, RegTypeOK
    <3> QED BY <3>1, <3>2
  <2> QED BY <2>1, <2>2, <2>3, <2>4
<1>5. RegTypeOK'
  BY <1>1, <1>2, <1>3, <1>4 DEF RegTypeOK
<1>6. LinksFrame
  BY <1>1, <1>2, <1>4 DEF LinksFrame, RegTypeOK
<1>7. OldCredentialIsCut'
  BY <1>5, <1>6, CutFrame
<1> QED BY <1>1, <1>2, <1>5, <1>7, ClaimsFrame DEF RegInv, LinksAreAuthentic, AnswersTheirOwnRequest

LEMMA UnregisterStep ==
    ASSUME RegInv, NEW l \in LinkIds, Unregister(l) PROVE RegInv'
<1>1. RegTypeOK
  BY DEF RegInv
<1>2. /\ registry' \in {registry, NoLink}
      /\ calls' \in [RegOps -> CallStates]
      /\ AnswersTheirOwnRequest'
  BY UnregisteredTyped DEF Unregister
<1> DEFINE d == [Over EXCEPT !.phase = "unmarking"]
           c == IF registry = l THEN d ELSE Over
<1>3. d \in Connections /\ d.phase = "unmarking"
  BY OverTyped DEF Connections
<1>4. links' = [links EXCEPT ![l] = c]
  BY DEF Unregister
<1> HIDE DEF d
<1>5. c \in Connections /\ c.phase # "open"
  BY <1>3, OverTyped
<1> HIDE DEF c
<1>6. RegTypeOK'
  BY <1>1, <1>2, <1>4, <1>5, RegisteredAssumption DEF RegTypeOK, Unregister, NoLink
<1>7. LinksFrame
  BY <1>1, <1>2, <1>4, <1>5 DEF LinksFrame, RegTypeOK, Unregister
<1>8. OldCredentialIsCut'
  BY <1>6, <1>7, CutFrame
<1> QED BY <1>2, <1>6, <1>8, ClaimsFrame DEF RegInv, LinksAreAuthentic, Unregister

\* A connection whose phase and credential stay.
LEMMA KeptFrame ==
    ASSUME RegInv, RegTypeOK', desk' = desk, row' = row, registry' = registry,
           \A l \in LinkIds : links'[l].phase = links[l].phase /\ links'[l].cred = links[l].cred,
           AnswersTheirOwnRequest'
    PROVE  RegInv'
<1>1. LinksFrame
  BY DEF LinksFrame
<1> QED BY <1>1, CutFrame, ClaimsFrame DEF RegInv, LinksAreAuthentic

LEMMA LinkKept ==
    ASSUME RegTypeOK, NEW l \in LinkIds, NEW c \in Connections,
           c.phase = links[l].phase, c.cred = links[l].cred, links' = [links EXCEPT ![l] = c]
    PROVE  /\ links' \in [LinkIds -> Connections]
           /\ \A x \in LinkIds : links'[x].phase = links[x].phase /\ links'[x].cred = links[x].cred
BY DEF RegTypeOK

LEMMA DeliverStep ==
    ASSUME RegInv, NEW l \in LinkIds, Deliver(l) PROVE RegInv'
<1> DEFINE k == links[l].cred
           m == Head(links[l].out)
           next == Heard(daemons[k].state, m)
           q == Tail(links[l].out)
           b == next = "open"
<1>1. RegTypeOK /\ AnswersTheirOwnRequest
  BY DEF RegInv, LinksAreAuthentic
<1>2. m \in Messages /\ q \in Queues /\ b \in BOOLEAN
  BY <1>1, QueuesTyped DEF RegTypeOK, Connections, Deliver
<1>3. next \in {"open", "stopped", "idle"}
  BY DEF Heard
<1>4. /\ daemons' = [daemons EXCEPT ![k] = [state |-> next, link |-> IF next = "open" THEN l ELSE NoLink]]
      /\ links' = [links EXCEPT ![l].out = q, ![l].up = b]
      /\ running' \in {running, running \cup {<<l, m.op>>}}
      /\ m.type # "request" => running' = running
  BY DEF Deliver
<1>5. l \in 0..MaxLinks /\ NoLink \in 0..MaxLinks
  BY RegisteredAssumption DEF LinkIds, NoLink
<1> HIDE DEF q, b, next, m
<1>6. daemons' \in [Creds -> DaemonStates]
  BY <1>1, <1>3, <1>4, <1>5 DEF RegTypeOK, DaemonStates
<1>7. /\ links' \in [LinkIds -> Connections]
      /\ \A x \in LinkIds : links'[x].phase = links[x].phase /\ links'[x].cred = links[x].cred
  <2> DEFINE c == [[links[l] EXCEPT !.out = q] EXCEPT !.up = b]
  <2>1. c \in Connections /\ c.phase = links[l].phase /\ c.cred = links[l].cred
    BY <1>1, <1>2 DEF RegTypeOK, Connections
  <2>2. links' = [links EXCEPT ![l] = c]
    BY <1>1, <1>4 DEF RegTypeOK
  <2> HIDE DEF c
  <2> QED BY <1>1, <2>1, <2>2, LinkKept
<1>8. running' \subseteq LinkIds \X RegOps
  BY <1>1, <1>2, <1>4, MessagesTyped DEF RegTypeOK
<1>9. RegTypeOK'
  BY <1>1, <1>6, <1>7, <1>8 DEF RegTypeOK, Deliver
<1> QED BY <1>1, <1>7, <1>9, KeptFrame DEF Deliver, AnswersTheirOwnRequest

LEMMA ReceiveResponseStep ==
    ASSUME RegInv, NEW l \in LinkIds, NEW o \in RegOps, ReceiveResponse(l, o) PROVE RegInv'
<1>1. RegTypeOK /\ AnswersTheirOwnRequest
  BY DEF RegInv, LinksAreAuthentic
<1>2. l \in 0..MaxLinks
  BY RegisteredAssumption DEF LinkIds
<1>3. /\ links' \in [LinkIds -> Connections]
      /\ \A x \in LinkIds : links'[x].phase = links[x].phase /\ links'[x].cred = links[x].cred
  BY <1>1 DEF RegTypeOK, Connections, ReceiveResponse
<1>4. calls' \in [RegOps -> CallStates] /\ AnswersTheirOwnRequest'
  BY <1>1, <1>2 DEF RegTypeOK, CallStates, AnswersTheirOwnRequest, ReceiveResponse, Answers
<1>5. RegTypeOK'
  BY <1>1, <1>3, <1>4 DEF RegTypeOK, ReceiveResponse
<1> QED BY <1>3, <1>4, <1>5, KeptFrame DEF ReceiveResponse

LEMMA DispatchRequestStep ==
    ASSUME RegInv, NEW l \in LinkIds, NEW o \in RegOps, DispatchRequest(l, o) PROVE RegInv'
<1>1. RegTypeOK'
  BY DEF RegInv, RegTypeOK, DispatchRequest
<1> QED BY <1>1, KeptFrame DEF RegInv, LinksAreAuthentic, AnswersTheirOwnRequest, DispatchRequest

LEMMA DaemonNoticesStep ==
    ASSUME RegInv, NEW k \in Creds, DaemonNotices(k) PROVE RegInv'
<1>1. RegTypeOK'
  BY RegisteredAssumption DEF RegInv, RegTypeOK, DaemonNotices, DaemonStates, NoLink
<1> QED BY <1>1, KeptFrame DEF RegInv, LinksAreAuthentic, AnswersTheirOwnRequest, DaemonNotices

LEMMA CallSteps ==
    ASSUME RegInv, NEW o \in RegOps, CallStep(o) PROVE RegInv'
<1>1. RegTypeOK /\ AnswersTheirOwnRequest
  BY DEF RegInv, LinksAreAuthentic
<1>2. CASE Begin(o) \/ CallerLeaves(o)
  <2>1. calls' \in [RegOps -> CallStates]
    BY <1>1, <1>2, RegisteredAssumption DEF RegTypeOK, CallStates, Begin, CallerLeaves
  <2>2. AnswersTheirOwnRequest'
    BY <1>1, <1>2 DEF RegTypeOK, CallStates, AnswersTheirOwnRequest, Begin, CallerLeaves
  <2>3. RegTypeOK'
    BY <1>1, <1>2, <2>1 DEF RegTypeOK, Begin, CallerLeaves
  <2> QED BY <1>2, <2>2, <2>3, KeptFrame DEF Begin, CallerLeaves
<1>3. CASE Route(o)
  <2>1. calls' \in [RegOps -> CallStates] /\ AnswersTheirOwnRequest'
    <3> DEFINE c == [calls[o] EXCEPT !.phase = "failed"]
               d == [[calls[o] EXCEPT !.phase = "waiting"] EXCEPT !.link = registry]
    <3>1. calls' = [calls EXCEPT ![o] = c] \/ calls' = [calls EXCEPT ![o] = d]
      BY <1>1, <1>3 DEF RegTypeOK, CallStates, Route
    <3>2. c \in CallStates /\ c.phase = "failed"
      BY <1>1 DEF RegTypeOK, CallStates
    <3>3. d \in CallStates /\ d.phase = "waiting"
      BY <1>1 DEF RegTypeOK, CallStates
    <3> HIDE DEF c, d
    <3> QED BY <1>1, <3>1, <3>2, <3>3 DEF RegTypeOK, AnswersTheirOwnRequest
  <2>2. /\ links' \in [LinkIds -> Connections]
        /\ \A x \in LinkIds : links'[x].phase = links[x].phase /\ links'[x].cred = links[x].cred
    <3> DEFINE q == Append(links[registry].out, RequestFor(o))
    <3>1. CASE links' = links
      BY <1>1, <3>1 DEF RegTypeOK
    <3>2. CASE links' # links
      <4>1. /\ links' = [links EXCEPT ![registry].pending = @ \cup {o}, ![registry].out = q]
            /\ registry # NoLink /\ Accepting(registry)
        BY <1>3, <3>2 DEF Route
      <4>2. registry \in LinkIds
        BY <1>1, <4>1, RegisteredAssumption DEF RegTypeOK, LinkIds, NoLink
      <4>3. q \in Queues
        BY <1>1, <4>1, <4>2, QueuesTyped, MessagesTyped DEF Accepting, RegTypeOK, Connections
      <4> HIDE DEF q
      <4> DEFINE c == [[links[registry] EXCEPT !.pending = @ \cup {o}] EXCEPT !.out = q]
      <4>4. c \in Connections /\ c.phase = links[registry].phase /\ c.cred = links[registry].cred
        BY <1>1, <4>2, <4>3 DEF RegTypeOK, Connections
      <4>5. links' = [links EXCEPT ![registry] = c]
        BY <1>1, <4>1, <4>2 DEF RegTypeOK
      <4> HIDE DEF c
      <4> QED BY <1>1, <4>2, <4>4, <4>5, LinkKept
    <3> QED BY <3>1, <3>2
  <2>3. RegTypeOK'
    BY <1>1, <1>3, <2>1, <2>2 DEF RegTypeOK, Route
  <2> QED BY <1>3, <2>1, <2>2, <2>3, KeptFrame DEF Route
<1>4. CASE OperationTimeout(o)
  <2>1. calls' \in [RegOps -> CallStates] /\ AnswersTheirOwnRequest'
    BY <1>1, <1>4 DEF RegTypeOK, CallStates, AnswersTheirOwnRequest, OperationTimeout
  <2>2. /\ links' \in [LinkIds -> Connections]
        /\ \A x \in LinkIds : links'[x].phase = links[x].phase /\ links'[x].cred = links[x].cred
    <3>1. CASE calls[o].link \in LinkIds
      <4> DEFINE l == calls[o].link
                 c == [links[l] EXCEPT !.pending = @ \ {o}]
      <4>1. c \in Connections /\ c.phase = links[l].phase /\ c.cred = links[l].cred
        BY <1>1, <3>1 DEF RegTypeOK, Connections
      <4>2. links' = [links EXCEPT ![l] = c]
        BY <1>4 DEF OperationTimeout
      <4> HIDE DEF c, l
      <4>3. l \in LinkIds
        BY <3>1 DEF l
      <4> QED BY <1>1, <4>1, <4>2, <4>3, LinkKept
    <3>2. CASE calls[o].link \notin LinkIds
      <4>1. links' = links
        BY <1>1, <1>4, <3>2 DEF RegTypeOK, OperationTimeout
      <4> QED BY <1>1, <4>1 DEF RegTypeOK
    <3> QED BY <3>1, <3>2
  <2>3. RegTypeOK'
    BY <1>1, <1>4, <2>1, <2>2 DEF RegTypeOK, OperationTimeout
  <2> QED BY <1>4, <2>1, <2>2, <2>3, KeptFrame DEF OperationTimeout
<1> QED BY <1>2, <1>3, <1>4 DEF CallStep

LEMMA GatewayRestartsStep ==
    ASSUME RegInv, GatewayRestarts PROVE RegInv'
<1>1. RegTypeOK /\ AnswersTheirOwnRequest
  BY DEF RegInv, LinksAreAuthentic
<1>2. links' \in [LinkIds -> Connections]
  BY OverTyped, UnopenedTyped DEF GatewayRestarts
<1>3. calls' \in [RegOps -> CallStates] /\ AnswersTheirOwnRequest'
  BY <1>1 DEF RegTypeOK, CallStates, AnswersTheirOwnRequest, GatewayRestarts
<1>4. row' \in [observed : {"provisioning", "ready", "unavailable", "deleted"}, deleted : BOOLEAN,
                token : BOOLEAN, cred : 0..MaxCreds, revoked : BOOLEAN, link : 0..MaxLinks]
      /\ row'.cred = row.cred
  BY <1>1 DEF RegTypeOK, GatewayRestarts
<1> DEFINE d == IF desk.delete = "cut" THEN "no" ELSE desk.delete
<1>5. desk' = [claim |-> 0, answered |-> desk.answered, delete |-> d, refresh |-> FALSE]
  BY <1>1 DEF RegTypeOK, GatewayRestarts
<1>6. d \in {"no", "cut", "done"}
  BY <1>1 DEF RegTypeOK
<1> HIDE DEF d
<1>7. desk' \in [claim : 0..MaxCreds, answered : 0..MaxCreds, delete : {"no", "cut", "done"},
                 refresh : BOOLEAN]
      /\ desk'.answered = desk.answered /\ desk'.claim = 0
  BY <1>1, <1>5, <1>6, RegisteredAssumption DEF RegTypeOK
<1>8. RegTypeOK'
  BY <1>1, <1>2, <1>3, <1>4, <1>7, RegisteredAssumption DEF RegTypeOK, GatewayRestarts, NoLink
<1>9. ClaimsAreInOrder'
  BY <1>4, <1>7 DEF RegInv, ClaimsAreInOrder
<1>10. OldCredentialIsCut'
  BY DEF OldCredentialIsCut, GatewayRestarts
<1> QED BY <1>3, <1>8, <1>9, <1>10 DEF RegInv, LinksAreAuthentic

\* The invariant is inductive.
THEOREM RegInvariance == RegSpec => []RegInv
<1>1. RegInv /\ [RegNext]_regVars => RegInv'
  <2> SUFFICES ASSUME RegInv, [RegNext]_regVars PROVE RegInv'
    OBVIOUS
  <2>1. CASE UNCHANGED regVars
    BY <2>1 DEF regVars, RegInv, RegTypeOK, ClaimsAreInOrder, LinksAreAuthentic,
                OldCredentialIsCut, AnswersTheirOwnRequest
  <2>2. CASE RenewToken \/ RefreshChecks \/ MarkRegisteredUnavailable \/ DeleteRegisteredHost
    BY <2>2, RowSteps
  <2>3. CASE ClaimToken
    BY <2>3, ClaimTokenStep
  <2>4. CASE AnswerClaim
    BY <2>4, AnswerClaimStep
  <2>5. CASE DeleteCuts
    BY <2>5, DeleteCutsStep
  <2>6. CASE GatewayRestarts
    BY <2>6, GatewayRestartsStep
  <2>7. ASSUME NEW l \in LinkIds, LinkStep(l) PROVE RegInv'
    BY <2>7, RegisterStep, MarkConnectedStep, EndingSteps, UnregisterStep, DeliverStep,
       ReceiveResponseStep, DispatchRequestStep DEF LinkStep
  <2>8. ASSUME NEW k \in Creds, DaemonConnects(k) \/ DaemonNotices(k) PROVE RegInv'
    BY <2>8, DaemonConnectsStep, DaemonNoticesStep
  <2>9. ASSUME NEW o \in RegOps, CallStep(o) PROVE RegInv'
    BY <2>9, CallSteps
  <2> QED BY <2>1, <2>2, <2>3, <2>4, <2>5, <2>6, <2>7, <2>8, <2>9 DEF RegNext
<1> QED BY RegInitially, <1>1, PTL DEF RegSpec

\* Every reachable state of the row, the registry, the connections, the daemons and the
\* operations is well typed; no connection's queue exceeds its size (host_connections.rs).
THEOREM RegTypesCorrect == RegSpec => []RegTypeOK
BY RegInvariance, PTL DEF RegInv

\* No operation goes out on a connection with an older credential than the last a claim
\* returned, and each is answered by the connection it went out on (http.rs,
\* host_connections.rs).
THEOREM LinksStayAuthentic == RegSpec => []LinksAreAuthentic
BY RegInvariance, PTL DEF RegInv

-----------------------------------------------------------------------------
(***************************************************************************)
(* E2bClient                                                               *)
(***************************************************************************)

\* The supervisor the sandbox came with is the only one of the old host and never starts
\* again; one process serves at a time; only the old host's is killed.
Processes ==
    /\ \A s \in Serves : serves[s].host = IF s = Inherited THEN "old" ELSE "own"
    /\ serves[Inherited].stage \in {"serving", "dead"}
    /\ \A s, t \in Serving : s = t
    /\ \A s \in Serves : serves[s].killed => s = Inherited

\* What a runtime in state c knows: it replaces no process but the old host's, and when it
\* has seen one of its own, the old host's is dead.
Knows(c) ==
    /\ c.pc = "list" => c.seen = Inherited
    /\ c.pc = "kill" => c.doomed \subseteq {Inherited}
    /\ c.pc = "check" =>
          c.seen \in Serves /\ (c.seen # Inherited => serves[Inherited].stage = "dead")
    /\ c.pc = "rpc" => serves[Inherited].stage = "dead"

Clients ==
    /\ \A r \in Runtimes : Knows(runtimes[r])
    /\ \A a \in applied : a[2] # Inherited

\* A request that is not repeated has had no effect before it is sent.
Controls ==
    \A q \in Requests : control[q].op \in NotReplayable =>
        /\ control[q].pc = "new" => control[q].effects = 0
        /\ control[q].effects <= 1
        /\ control[q].effects > 0 => control[q].pc \in {"done", "garbled"} \/ control[q].ambiguous

\* The inductive invariant.
E2bInv == E2bTypeOK /\ Processes /\ Clients /\ Controls

LEMMA InheritedServes == Inherited \in Serves
BY E2bAssumption DEF Inherited, Serves

LEMMA E2bInitially == E2bInit => E2bInv
<1> SUFFICES ASSUME E2bInit PROVE E2bInv
  OBVIOUS
<1> PICK alone \in BOOLEAN, first \in {"serving", "dead"} :
      \E mine \in [Requests -> IF alone THEN Replayable \cup NotReplayable ELSE {"verify"}] :
          E2bStart(alone, first, mine)
  BY DEF E2bInit
<1> PICK mine \in [Requests -> IF alone THEN Replayable \cup NotReplayable ELSE {"verify"}] :
      E2bStart(alone, first, mine)
  OBVIOUS
<1>1. \A q \in Requests : mine[q] \in Replayable \cup NotReplayable
  BY DEF Replayable
<1>2. serves \in [Serves -> ServeStates]
  BY DEF E2bStart, ServeStates
<1>3. runtimes \in [Runtimes -> RuntimeStates]
  BY E2bAssumption DEF E2bStart, RuntimeStates, NoServe
<1>4. control \in [Requests -> ControlStates]
  BY <1>1, E2bAssumption DEF E2bStart, ControlStates
<1>5. E2bTypeOK
  <2>1. sandbox \in {"paused", "running"} /\ applied \subseteq Runtimes \X Serves
    BY DEF E2bStart
  <2>2. lost \in 0..MaxLost /\ deaths \in 0..MaxDeaths
    BY E2bAssumption DEF E2bStart
  <2> QED BY <1>2, <1>3, <1>4, <2>1, <2>2 DEF E2bTypeOK
<1>6. Processes
  BY InheritedServes DEF Processes, E2bStart, Serving
<1>7. Clients
  BY DEF Clients, Knows, E2bStart
<1>8. Controls
  BY DEF Controls, E2bStart
<1> QED BY <1>5, <1>6, <1>7, <1>8 DEF E2bInv

\* A step of one runtime that changes no process.
LEMMA RuntimeMoves ==
    ASSUME E2bInv, NEW r \in Runtimes, NEW c \in RuntimeStates, Knows(c),
           runtimes' = [runtimes EXCEPT ![r] = c], serves' = serves, control' = control,
           sandbox' \in {"paused", "running"}, lost' \in 0..MaxLost, deaths' = deaths,
           applied' \subseteq Runtimes \X Serves, \A a \in applied' : a[2] # Inherited
    PROVE  E2bInv'
<1>1. E2bTypeOK'
  BY DEF E2bInv, E2bTypeOK
<1>2. Processes' /\ Controls'
  BY DEF E2bInv, Processes, Controls, Serving
<1>3. Clients'
  BY DEF E2bInv, E2bTypeOK, Clients, Knows
<1> QED BY <1>1, <1>2, <1>3 DEF E2bInv

\* A step of the processes: the old host's stays dead once it is.
LEMMA ProcessMoves ==
    ASSUME E2bInv, E2bTypeOK', Processes', applied' = applied, control' = control,
           serves[Inherited].stage = "dead" => serves'[Inherited].stage = "dead",
           \A r \in Runtimes : runtimes'[r].pc \in {"list", "kill", "check", "rpc"} =>
               /\ runtimes'[r].pc = runtimes[r].pc
               /\ runtimes'[r].seen = runtimes[r].seen
               /\ runtimes'[r].doomed \subseteq runtimes[r].doomed
    PROVE  E2bInv'
<1>1. Controls'
  BY DEF E2bInv, Controls
<1>2. Clients'
  <2>1. \A a \in applied' : a[2] # Inherited
    BY DEF E2bInv, Clients
  <2>2. ASSUME NEW r \in Runtimes PROVE Knows(runtimes[r])'
    <3>1. Knows(runtimes[r])
      BY DEF E2bInv, Clients
    <3> QED BY <3>1 DEF Knows
  <2> QED BY <2>1, <2>2 DEF Clients
<1> QED BY <1>1, <1>2 DEF E2bInv

\* A retryable error sends the call back to its beginning, or ends it.
LEMMA RetryMoves ==
    ASSUME E2bInv, NEW r \in Runtimes, Retry(r)
    PROVE  \E c \in RuntimeStates : /\ runtimes' = [runtimes EXCEPT ![r] = c]
                                    /\ c.pc \in {"connect", "failed"}
<1> DEFINE x == runtimes[r]
           n == CountAttempt(x.attempt)
           again == [x EXCEPT !.pc = "connect", !.attempt = n, !.tries = 1]
           over == [x EXCEPT !.pc = "failed"]
<1>1. x \in RuntimeStates
  BY DEF E2bInv, E2bTypeOK
<1>4. runtimes' = [runtimes EXCEPT ![r] = IF x.attempt < MaxTries THEN again ELSE over]
  BY DEF Retry
<1>2. CASE x.attempt < MaxTries
  <2>1. n \in 1..MaxTries /\ 1 \in 1..MaxTries
    BY <1>1, <1>2, E2bAssumption DEF RuntimeStates, CountAttempt
  <2> HIDE DEF n
  <2>2. runtimes' = [runtimes EXCEPT ![r] = again]
    BY <1>2, <1>4 DEF n
  <2> HIDE DEF x
  <2>3. again \in RuntimeStates /\ again.pc = "connect"
    <3> DEFINE a1 == [x EXCEPT !.pc = "connect"]
               a2 == [a1 EXCEPT !.attempt = n]
    <3>1. again = [a2 EXCEPT !.tries = 1]
      OBVIOUS
    <3>2. a1 \in RuntimeStates /\ a1.pc = "connect"
      BY <1>1 DEF RuntimeStates
    <3> HIDE DEF a1, again
    <3>3. a2 \in RuntimeStates /\ a2.pc = "connect"
      BY <2>1, <3>2 DEF RuntimeStates
    <3> HIDE DEF a2
    <3> QED BY <2>1, <3>1, <3>3 DEF RuntimeStates
  <2> QED BY <2>2, <2>3
<1>3. CASE ~(x.attempt < MaxTries)
  <2>1. runtimes' = [runtimes EXCEPT ![r] = over]
    BY <1>3, <1>4
  <2>2. over \in RuntimeStates /\ over.pc = "failed"
    BY <1>1 DEF RuntimeStates
  <2> QED BY <2>1, <2>2
<1> QED BY <1>2, <1>3

\* What a step that loses a message, or not, leaves of the count.
LEMMA LosesTyped ==
    ASSUME E2bInv, Lose \/ UNCHANGED lost PROVE lost' \in 0..MaxLost
BY E2bAssumption DEF Lose, E2bInv, E2bTypeOK

\* The old host's supervisor is not serving while another one does.
LEMMA OneServes ==
    ASSUME E2bInv, NEW s \in Serving, s # Inherited
    PROVE  serves[Inherited].stage = "dead"
BY InheritedServes DEF E2bInv, Processes, Serving

LEMMA ServeStartsStep ==
    ASSUME E2bInv, NEW s \in Serves, ServeStarts(s) PROVE E2bInv'
<1> DEFINE g == IF AcquireLocks THEN "serving" ELSE "dead"
<1>1. g \in {"serving", "dead"} /\ (Serving # {} => g = "dead")
  BY DEF AcquireLocks
<1>2. serves' = [serves EXCEPT ![s].stage = g]
  BY DEF ServeStarts
<1> HIDE DEF g
<1>3. serves' \in [Serves -> ServeStates]
  BY <1>1, <1>2 DEF E2bInv, E2bTypeOK, ServeStates
<1>4. /\ \A t \in Serves : serves'[t].host = serves[t].host /\ serves'[t].killed = serves[t].killed
      /\ \A t \in Serves : t # s => serves'[t].stage = serves[t].stage
      /\ serves'[s].stage = g
  BY <1>2 DEF E2bInv, E2bTypeOK, ServeStates
<1>5. s # Inherited
  BY DEF ServeStarts, E2bInv, Processes
<1>6. Processes'
  BY <1>1, <1>4, <1>5, InheritedServes DEF E2bInv, Processes, Serving
<1>7. E2bTypeOK'
  BY <1>3 DEF E2bInv, E2bTypeOK, ServeStarts
<1> QED BY <1>4, <1>5, <1>6, <1>7, ProcessMoves, InheritedServes DEF ServeStarts

LEMMA ServeDiesStep ==
    ASSUME E2bInv, NEW s \in Serves, ServeDies(s) PROVE E2bInv'
<1>1. serves' = [serves EXCEPT ![s].stage = "dead"]
  BY DEF ServeDies
<1>2. serves' \in [Serves -> ServeStates]
  BY <1>1 DEF E2bInv, E2bTypeOK, ServeStates
<1>3. /\ \A t \in Serves : serves'[t].host = serves[t].host /\ serves'[t].killed = serves[t].killed
      /\ \A t \in Serves : t # s => serves'[t].stage = serves[t].stage
      /\ serves'[s].stage = "dead"
  BY <1>1 DEF E2bInv, E2bTypeOK, ServeStates
<1>4. Processes'
  BY <1>3, InheritedServes DEF E2bInv, Processes, Serving
<1>5. deaths' \in 0..MaxDeaths
  BY E2bAssumption DEF E2bInv, E2bTypeOK, ServeDies
<1>6. E2bTypeOK'
  BY <1>2, <1>5 DEF E2bInv, E2bTypeOK, ServeDies
<1> QED BY <1>3, <1>4, <1>6, ProcessMoves, InheritedServes DEF ServeDies

LEMMA AutoPauseStep ==
    ASSUME E2bInv, AutoPause PROVE E2bInv'
<1>1. E2bTypeOK' /\ Processes'
  BY DEF E2bInv, E2bTypeOK, Processes, Serving, AutoPause
<1> QED BY <1>1, ProcessMoves DEF AutoPause

\* The steps of a runtime that change no process and go nowhere a runtime knows more.
Aimless == {"connect", "probe", "launch", "await", "done", "failed", "lost"}

LEMMA AimlessKnows ==
    ASSUME NEW c, c.pc \in Aimless PROVE Knows(c)
BY DEF Aimless, Knows

LEMMA MoveTyped ==
    ASSUME E2bInv, NEW r \in Runtimes, NEW p \in Aimless, Move(r, p)
    PROVE  \E c \in RuntimeStates : runtimes' = [runtimes EXCEPT ![r] = c] /\ Knows(c)
<1> DEFINE c == [runtimes[r] EXCEPT !.pc = p]
<1>1. runtimes' = [runtimes EXCEPT ![r] = c]
  BY DEF Move
<1>2. c \in RuntimeStates /\ c.pc = p
  BY DEF E2bInv, E2bTypeOK, RuntimeStates, Aimless
<1> HIDE DEF c
<1> QED BY <1>1, <1>2, AimlessKnows

LEMMA RetryTyped ==
    ASSUME E2bInv, NEW r \in Runtimes, Retry(r)
    PROVE  \E c \in RuntimeStates : runtimes' = [runtimes EXCEPT ![r] = c] /\ Knows(c)
BY RetryMoves, AimlessKnows DEF Aimless

\* The steps before a runtime has seen a supervisor.
LEMMA AimlessSteps ==
    ASSUME E2bInv, NEW r \in Runtimes,
           Connect(r) \/ ConnectedEnvd(r) \/ InheritedGone(r) \/ Cancel(r)
    PROVE  E2bInv'
<1>1. \E c \in RuntimeStates : runtimes' = [runtimes EXCEPT ![r] = c] /\ Knows(c)
  <2>1. CASE Connect(r)
    BY <2>1, MoveTyped DEF Connect, Aimless
  <2>2. CASE InheritedGone(r)
    BY <2>2, MoveTyped DEF InheritedGone, Aimless
  <2>3. CASE Cancel(r)
    BY <2>3, MoveTyped DEF Cancel, Aimless
  <2>4. CASE ConnectedEnvd(r)
    <3>1. CASE Move(r, "probe")
      BY <3>1, MoveTyped DEF Aimless
    <3>2. CASE Retry(r)
      BY <3>2, RetryTyped
    <3>3. CASE runtimes[r].tries < MaxTries /\ runtimes' = [runtimes EXCEPT ![r].tries = @ + 1]
      <4> DEFINE n == runtimes[r].tries + 1
                 c == [runtimes[r] EXCEPT !.tries = n]
      <4>1. runtimes[r] \in RuntimeStates /\ runtimes[r].pc = "connect"
        BY <2>4 DEF E2bInv, E2bTypeOK, ConnectedEnvd
      <4>2. n \in 1..MaxTries
        BY <3>3, <4>1, E2bAssumption DEF RuntimeStates
      <4>3. runtimes' = [runtimes EXCEPT ![r] = c]
        BY <3>3
      <4> HIDE DEF n
      <4>4. c \in RuntimeStates /\ c.pc = "connect"
        BY <4>1, <4>2 DEF RuntimeStates
      <4> HIDE DEF c
      <4>5. Knows(c)
        BY <4>4, AimlessKnows DEF Aimless
      <4> QED BY <4>3, <4>4, <4>5
    <3> QED BY <2>4, <3>1, <3>2, <3>3 DEF ConnectedEnvd
  <2> QED BY <2>1, <2>2, <2>3, <2>4
<1>2. lost' \in 0..MaxLost
  BY LosesTyped DEF Connect, ConnectedEnvd, InheritedGone, Cancel
<1>3. /\ serves' = serves /\ control' = control /\ deaths' = deaths /\ applied' = applied
      /\ sandbox' \in {"paused", "running"}
  BY DEF E2bInv, E2bTypeOK, Connect, ConnectedEnvd, InheritedGone, Cancel
<1>4. applied' \subseteq Runtimes \X Serves /\ \A a \in applied' : a[2] # Inherited
  BY <1>3 DEF E2bInv, E2bTypeOK, Clients
<1> QED BY <1>1, <1>2, <1>3, <1>4, RuntimeMoves

\* A runtime that finds a supervisor goes on to check its own and to replace the other.
LEMMA SeenTyped ==
    ASSUME E2bInv, NEW r \in Runtimes, NEW s \in Serving, NEW p \in {"list", "check"},
           p = "list" => s = Inherited,
           runtimes' = [runtimes EXCEPT ![r].seen = s, ![r].pc = p]
    PROVE  \E c \in RuntimeStates : runtimes' = [runtimes EXCEPT ![r] = c] /\ Knows(c)
<1> DEFINE c == [[runtimes[r] EXCEPT !.seen = s] EXCEPT !.pc = p]
<1>1. s \in Serves /\ s \in 0..MaxServes
  BY E2bAssumption DEF Serving, Serves
<1>2. runtimes' = [runtimes EXCEPT ![r] = c]
  BY DEF E2bInv, E2bTypeOK
<1>3. c \in RuntimeStates /\ c.pc = p /\ c.seen = s
  BY <1>1 DEF E2bInv, E2bTypeOK, RuntimeStates
<1> HIDE DEF c
<1>4. Knows(c)
  BY <1>1, <1>3, OneServes DEF Knows
<1> QED BY <1>2, <1>3, <1>4

LEMMA ProbeStep ==
    ASSUME E2bInv, NEW r \in Runtimes, Probe(r) PROVE E2bInv'
<1>1. \E c \in RuntimeStates : runtimes' = [runtimes EXCEPT ![r] = c] /\ Knows(c)
  <2>1. CASE Move(r, "launch")
    BY <2>1, MoveTyped DEF Aimless
  <2>2. ASSUME NEW s \in Serving,
               runtimes' = [runtimes EXCEPT ![r].seen = s,
                                            ![r].pc = IF serves[s].host = "own" THEN "check" ELSE "list"]
        PROVE  \E c \in RuntimeStates : runtimes' = [runtimes EXCEPT ![r] = c] /\ Knows(c)
    <3> DEFINE p == IF serves[s].host = "own" THEN "check" ELSE "list"
    <3>1. p \in {"list", "check"} /\ (p = "list" => s = Inherited)
      BY DEF E2bInv, Processes, Serving
    <3>2. runtimes' = [runtimes EXCEPT ![r].seen = s, ![r].pc = p]
      BY <2>2
    <3> HIDE DEF p
    <3> QED BY <3>1, <3>2, SeenTyped
  <2> QED BY <2>1, <2>2 DEF Probe
<1>2. lost' \in 0..MaxLost
  BY LosesTyped DEF Probe
<1>3. /\ serves' = serves /\ control' = control /\ deaths' = deaths /\ applied' = applied
      /\ sandbox' \in {"paused", "running"}
  BY DEF E2bInv, E2bTypeOK, Probe
<1>4. applied' \subseteq Runtimes \X Serves /\ \A a \in applied' : a[2] # Inherited
  BY <1>3 DEF E2bInv, E2bTypeOK, Clients
<1> QED BY <1>1, <1>2, <1>3, <1>4, RuntimeMoves

LEMMA AwaitHealthyStep ==
    ASSUME E2bInv, NEW r \in Runtimes, AwaitHealthy(r) PROVE E2bInv'
<1>1. \E c \in RuntimeStates : runtimes' = [runtimes EXCEPT ![r] = c] /\ Knows(c)
  <2>1. ASSUME NEW s \in Serving, runtimes' = [runtimes EXCEPT ![r].seen = s, ![r].pc = "check"]
        PROVE  \E c \in RuntimeStates : runtimes' = [runtimes EXCEPT ![r] = c] /\ Knows(c)
    BY <2>1, SeenTyped
  <2>2. CASE Retry(r)
    BY <2>2, RetryTyped
  <2> QED BY <2>1, <2>2, InheritedServes DEF AwaitHealthy
<1>2. lost' \in 0..MaxLost
  BY LosesTyped DEF AwaitHealthy
<1>3. /\ serves' = serves /\ control' = control /\ deaths' = deaths /\ applied' = applied
      /\ sandbox' \in {"paused", "running"}
  BY DEF E2bInv, E2bTypeOK, AwaitHealthy
<1>4. applied' \subseteq Runtimes \X Serves /\ \A a \in applied' : a[2] # Inherited
  BY <1>3 DEF E2bInv, E2bTypeOK, Clients
<1> QED BY <1>1, <1>2, <1>3, <1>4, RuntimeMoves

\* Of the processes listed, only the old host's has the identity the probe saw.
LEMMA ListProcessesStep ==
    ASSUME E2bInv, NEW r \in Runtimes, ListProcesses(r) PROVE E2bInv'
<1> DEFINE found == {s \in Serves : Matches(s, runtimes[r].seen)}
           p == IF found = {} THEN "failed" ELSE "kill"
           c == [[runtimes[r] EXCEPT !.doomed = found] EXCEPT !.pc = p]
<1>1. runtimes[r].seen = Inherited
  BY DEF E2bInv, Clients, Knows, ListProcesses
<1>2. found \subseteq {Inherited} /\ found \subseteq Serves
  BY <1>1, InheritedServes DEF Matches, E2bInv, Processes
<1>3. p \in {"failed", "kill"}
  OBVIOUS
<1>4. runtimes' = [runtimes EXCEPT ![r].doomed = found, ![r].pc = p]
  BY DEF ListProcesses
<1> HIDE DEF found, p
<1>5. runtimes' = [runtimes EXCEPT ![r] = c]
  BY <1>4 DEF E2bInv, E2bTypeOK
<1>6. c \in RuntimeStates /\ c.pc = p /\ c.doomed = found
  BY <1>2, <1>3 DEF E2bInv, E2bTypeOK, RuntimeStates
<1> HIDE DEF c
<1>7. Knows(c)
  BY <1>2, <1>3, <1>6 DEF Knows
<1>8. /\ serves' = serves /\ control' = control /\ deaths' = deaths /\ applied' = applied
      /\ sandbox' \in {"paused", "running"} /\ lost' \in 0..MaxLost
  BY DEF E2bInv, E2bTypeOK, ListProcesses
<1>9. applied' \subseteq Runtimes \X Serves /\ \A a \in applied' : a[2] # Inherited
  BY <1>8 DEF E2bInv, E2bTypeOK, Clients
<1> QED BY <1>5, <1>6, <1>7, <1>8, <1>9, RuntimeMoves

LEMMA KillProcessStep ==
    ASSUME E2bInv, NEW r \in Runtimes, NEW s \in Serves, KillProcess(r, s) PROVE E2bInv'
<1>1. s = Inherited
  BY DEF E2bInv, Clients, Knows, KillProcess
<1>2. CASE serves[s].stage = "dead"
  <2>1. Move(r, "lost") /\ serves' = serves
    BY <1>2 DEF KillProcess
  <2>2. \E c \in RuntimeStates : runtimes' = [runtimes EXCEPT ![r] = c] /\ Knows(c)
    BY <2>1, MoveTyped DEF Aimless
  <2>3. /\ control' = control /\ deaths' = deaths /\ applied' = applied
        /\ sandbox' \in {"paused", "running"} /\ lost' \in 0..MaxLost
    BY DEF E2bInv, E2bTypeOK, KillProcess
  <2>4. applied' \subseteq Runtimes \X Serves /\ \A a \in applied' : a[2] # Inherited
    BY <2>3 DEF E2bInv, E2bTypeOK, Clients
  <2> QED BY <2>1, <2>2, <2>3, <2>4, RuntimeMoves
<1>3. CASE serves[s].stage # "dead"
  <2> DEFINE d == [[serves[s] EXCEPT !.stage = "dead"] EXCEPT !.killed = TRUE]
             c == [runtimes[r] EXCEPT !.doomed = @ \ {s}]
  <2>1. serves' = [serves EXCEPT ![s] = d]
    BY <1>3 DEF KillProcess, E2bInv, E2bTypeOK
  <2>2. d \in ServeStates /\ d.stage = "dead" /\ d.host = serves[s].host
    BY DEF E2bInv, E2bTypeOK, ServeStates
  <2>3. runtimes' = [runtimes EXCEPT ![r] = c]
    BY <1>3 DEF KillProcess, E2bInv, E2bTypeOK
  <2>4. /\ c \in RuntimeStates /\ c.pc = runtimes[r].pc /\ c.seen = runtimes[r].seen
        /\ c.doomed \subseteq runtimes[r].doomed
    BY DEF E2bInv, E2bTypeOK, RuntimeStates
  <2> HIDE DEF c, d
  <2>5. E2bTypeOK'
    BY <2>1, <2>2, <2>3, <2>4 DEF E2bInv, E2bTypeOK, KillProcess
  <2>6. Processes'
    BY <1>1, <2>1, <2>2 DEF E2bInv, E2bTypeOK, Processes, Serving
  <2>7. serves'[Inherited].stage = "dead"
    BY <1>1, <2>1, <2>2 DEF E2bInv, E2bTypeOK
  <2>8. \A x \in Runtimes : /\ runtimes'[x].pc = runtimes[x].pc
                            /\ runtimes'[x].seen = runtimes[x].seen
                            /\ runtimes'[x].doomed \subseteq runtimes[x].doomed
    BY <2>3, <2>4 DEF E2bInv, E2bTypeOK
  <2> QED BY <2>5, <2>6, <2>7, <2>8, ProcessMoves DEF KillProcess
<1> QED BY <1>2, <1>3

LEMMA LaunchStep ==
    ASSUME E2bInv, NEW r \in Runtimes, Launch(r) PROVE E2bInv'
<1> PICK s \in Serves : serves[s].stage = "none" /\ serves' = [serves EXCEPT ![s].stage = "started"]
  BY DEF Launch
<1>1. serves' \in [Serves -> ServeStates]
  BY DEF E2bInv, E2bTypeOK, ServeStates
<1>2. /\ \A t \in Serves : serves'[t].host = serves[t].host /\ serves'[t].killed = serves[t].killed
      /\ \A t \in Serves : t # s => serves'[t].stage = serves[t].stage
      /\ serves'[s].stage = "started" /\ s # Inherited
  BY DEF E2bInv, E2bTypeOK, Processes, ServeStates
<1>3. Processes'
  BY <1>2, InheritedServes DEF E2bInv, Processes, Serving
<1>4. PICK c \in RuntimeStates : runtimes' = [runtimes EXCEPT ![r] = c] /\ c.pc \in Aimless
  <2>1. CASE Move(r, "await")
    <3> DEFINE c == [runtimes[r] EXCEPT !.pc = "await"]
    <3>1. runtimes' = [runtimes EXCEPT ![r] = c]
      BY <2>1 DEF Move
    <3>2. c \in RuntimeStates /\ c.pc = "await"
      BY DEF E2bInv, E2bTypeOK, RuntimeStates
    <3> QED BY <3>1, <3>2 DEF Aimless
  <2>2. CASE Retry(r)
    BY <2>2, RetryMoves DEF Aimless
  <2> QED BY <2>1, <2>2 DEF Launch
<1>5. lost' \in 0..MaxLost
  BY LosesTyped DEF Launch
<1>6. E2bTypeOK'
  BY <1>1, <1>4, <1>5 DEF E2bInv, E2bTypeOK, Launch
<1>7. \A x \in Runtimes : x # r => runtimes'[x] = runtimes[x]
  BY <1>4 DEF E2bInv, E2bTypeOK
<1>8. runtimes'[r].pc \in Aimless
  BY <1>4 DEF E2bInv, E2bTypeOK
<1> QED BY <1>2, <1>3, <1>6, <1>7, <1>8, ProcessMoves, InheritedServes DEF Launch, Aimless

\* A request goes out only after a supervisor of this host was seen.
LEMMA CheckSupervisorStep ==
    ASSUME E2bInv, NEW r \in Runtimes, CheckSupervisor(r) PROVE E2bInv'
<1> DEFINE s == runtimes[r].seen
           p == IF ~OwnHost(s) THEN "failed"
                ELSE IF runtimes[r].pinned \notin {NoServe, s} THEN "lost" ELSE "rpc"
           n == IF OwnHost(s) /\ runtimes[r].pinned = NoServe THEN s ELSE runtimes[r].pinned
           c == [[runtimes[r] EXCEPT !.pc = p] EXCEPT !.pinned = n]
<1>1. s \in Serves /\ (s # Inherited => serves[Inherited].stage = "dead")
  BY DEF E2bInv, Clients, Knows, CheckSupervisor
<1>2. p \in {"failed", "lost", "rpc"} /\ (p = "rpc" => s # Inherited)
  BY InheritedServes DEF OwnHost, E2bInv, Processes
<1>3. n \in 0..MaxServes
  BY DEF E2bInv, E2bTypeOK, RuntimeStates
<1>4. runtimes' = [runtimes EXCEPT ![r].pc = p, ![r].pinned = n]
  BY DEF CheckSupervisor
<1> HIDE DEF s, p, n
<1>5. runtimes' = [runtimes EXCEPT ![r] = c]
  BY <1>4 DEF E2bInv, E2bTypeOK
<1>6. c \in RuntimeStates /\ c.pc = p
  BY <1>2, <1>3 DEF E2bInv, E2bTypeOK, RuntimeStates
<1> HIDE DEF c
<1>7. Knows(c)
  BY <1>1, <1>2, <1>6 DEF Knows
<1>8. /\ serves' = serves /\ control' = control /\ deaths' = deaths /\ applied' = applied
      /\ sandbox' \in {"paused", "running"} /\ lost' \in 0..MaxLost
  BY DEF E2bInv, E2bTypeOK, CheckSupervisor
<1>9. applied' \subseteq Runtimes \X Serves /\ \A a \in applied' : a[2] # Inherited
  BY <1>8 DEF E2bInv, E2bTypeOK, Clients
<1> QED BY <1>5, <1>6, <1>7, <1>8, <1>9, RuntimeMoves

LEMMA InvokeRpcStep ==
    ASSUME E2bInv, NEW r \in Runtimes, InvokeRpc(r) PROVE E2bInv'
<1>1. serves[Inherited].stage = "dead"
  BY DEF E2bInv, Clients, Knows, InvokeRpc
<1>2. \A s \in Serving : s \in Serves /\ s # Inherited
  BY <1>1 DEF Serving
<1>3. applied' = applied \/ \E s \in Serving : applied' = applied \cup {<<r, s>>}
  BY DEF InvokeRpc
<1>4. applied' \subseteq Runtimes \X Serves /\ \A a \in applied' : a[2] # Inherited
  BY <1>2, <1>3 DEF E2bInv, E2bTypeOK, Clients
<1>5. \E c \in RuntimeStates : runtimes' = [runtimes EXCEPT ![r] = c] /\ Knows(c)
  <2>1. CASE Move(r, "failed")
    BY <2>1, MoveTyped DEF Aimless
  <2>2. CASE Retry(r)
    BY <2>2, RetryTyped
  <2> DEFINE x == runtimes[r]
             a1 == [x EXCEPT !.op = "operation"]
             a2 == [a1 EXCEPT !.pc = "connect"]
             a3 == [a2 EXCEPT !.attempt = 1]
             again == [a3 EXCEPT !.tries = 1]
             over == [x EXCEPT !.pc = "done"]
  <2>3. CASE runtimes' = [runtimes EXCEPT ![r] = IF x.op = "describe" THEN again ELSE over]
    <3>1. x \in RuntimeStates /\ 1 \in 1..MaxTries
      BY E2bAssumption DEF E2bInv, E2bTypeOK
    <3>2. over \in RuntimeStates /\ over.pc = "done"
      BY <3>1 DEF RuntimeStates
    <3>3. a1 \in RuntimeStates
      BY <3>1 DEF RuntimeStates
    <3> HIDE DEF a1, x, over
    <3>4. a2 \in RuntimeStates /\ a2.pc = "connect"
      BY <3>3 DEF RuntimeStates
    <3> HIDE DEF a2
    <3>5. a3 \in RuntimeStates /\ a3.pc = "connect"
      BY <3>1, <3>4 DEF RuntimeStates
    <3> HIDE DEF a3
    <3>6. again \in RuntimeStates /\ again.pc = "connect"
      BY <3>1, <3>5 DEF RuntimeStates
    <3> HIDE DEF again
    <3>7. Knows(again) /\ Knows(over)
      BY <3>2, <3>6, AimlessKnows DEF Aimless
    <3> QED BY <2>3, <3>2, <3>6, <3>7
  <2> QED BY <2>1, <2>2, <2>3 DEF InvokeRpc
<1>6. lost' \in 0..MaxLost
  BY LosesTyped DEF InvokeRpc
<1>7. serves' = serves /\ control' = control /\ deaths' = deaths /\ sandbox' \in {"paused", "running"}
  BY DEF E2bInv, E2bTypeOK, InvokeRpc
<1> QED BY <1>4, <1>5, <1>6, <1>7, RuntimeMoves

\* What the control plane makes of a call, or of its loss.
LEMMA ControlCallStep ==
    ASSUME E2bInv, NEW q \in Requests, ControlCall(q) PROVE E2bInv'
<1> DEFINE x == control[q]
           Good(c) == c.op \in NotReplayable =>
                        /\ c.pc = "new" => c.effects = 0
                        /\ c.effects <= 1
                        /\ c.effects > 0 => c.pc \in {"done", "garbled"} \/ c.ambiguous
<1>1. x \in ControlStates /\ x.pc = "new" /\ Good(x)
  BY DEF E2bInv, E2bTypeOK, Controls, ControlCall
<1>2. PICK c \in ControlStates : control' = [control EXCEPT ![q] = c] /\ Good(c)
  <2>1. ASSUME NEW p \in {"done", "garbled"},
               control' = [control EXCEPT ![q].pc = p, ![q].effects = @ + 1]
        PROVE  \E c \in ControlStates : control' = [control EXCEPT ![q] = c] /\ Good(c)
    <3> DEFINE n == x.effects + 1
               c1 == [x EXCEPT !.pc = p]
               c == [c1 EXCEPT !.effects = n]
    <3>1. n \in Nat /\ (x.op \in NotReplayable => n = 1)
      BY <1>1 DEF ControlStates
    <3>2. control' = [control EXCEPT ![q] = c]
      BY <2>1 DEF E2bInv, E2bTypeOK
    <3>3. c1 \in ControlStates /\ c1.pc = p /\ c1.op = x.op
      BY <1>1 DEF ControlStates
    <3> HIDE DEF n, c1
    <3>4. c \in ControlStates /\ c.pc = p /\ c.op = x.op /\ c.effects = n
      BY <3>1, <3>3 DEF ControlStates
    <3> HIDE DEF c
    <3>5. Good(c)
      BY <3>1, <3>4
    <3> QED BY <3>2, <3>4, <3>5
  <2>2. CASE control' = [control EXCEPT ![q].pc = "refused", ![q].ambiguous = FALSE]
    <3> DEFINE c1 == [x EXCEPT !.pc = "refused"]
               c == [c1 EXCEPT !.ambiguous = FALSE]
    <3>1. control' = [control EXCEPT ![q] = c]
      BY <2>2 DEF E2bInv, E2bTypeOK
    <3>2. c1 \in ControlStates /\ c1.pc = "refused" /\ c1.op = x.op /\ c1.effects = x.effects
      BY <1>1 DEF ControlStates
    <3> HIDE DEF c1
    <3>3. c \in ControlStates /\ c.pc = "refused" /\ c.op = x.op /\ c.effects = x.effects
      BY <3>2 DEF ControlStates
    <3> HIDE DEF c
    <3>4. Good(c)
      BY <1>1, <3>3
    <3> QED BY <3>1, <3>3, <3>4
  <2>3. ASSUME NEW n \in {x.effects, x.effects + 1}, NEW transient \in BOOLEAN,
               control' = [control EXCEPT ![q] =
                             Again([x EXCEPT !.effects = n, !.ambiguous = ~MayReplay(x.op)], transient)]
        PROVE  \E c \in ControlStates : control' = [control EXCEPT ![q] = c] /\ Good(c)
    <3> DEFINE a == ~MayReplay(x.op)
               y1 == [x EXCEPT !.effects = n]
               y == [y1 EXCEPT !.ambiguous = a]
               c == Again(y, transient)
    <3>1. n \in Nat /\ (x.op \in NotReplayable => n <= 1) /\ a \in BOOLEAN
      BY <1>1 DEF ControlStates
    <3>2. x.op \in NotReplayable => a = TRUE
      BY DEF MayReplay, Replayable, NotReplayable
    <3>3. control' = [control EXCEPT ![q] = c]
      BY <2>3
    <3> HIDE DEF a
    <3>4. y1 \in ControlStates /\ y1.op = x.op /\ y1.effects = n /\ y1.pc = "new"
      BY <1>1, <3>1 DEF ControlStates
    <3> HIDE DEF y1
    <3>5. y \in ControlStates /\ y.op = x.op /\ y.effects = n /\ y.ambiguous = a /\ y.pc = "new"
      BY <3>1, <3>4 DEF ControlStates
    <3> HIDE DEF y
    <3>6. CASE transient /\ MayReplay(y.op) /\ y.attempt < MaxTries
      <4> DEFINE t == y.attempt + 1
      <4>1. t \in 1..MaxTries
        BY <3>5, <3>6, E2bAssumption DEF ControlStates
      <4>2. c = [y EXCEPT !.attempt = t]
        BY <3>6 DEF Again
      <4>3. y.op \notin NotReplayable
        BY <3>6 DEF MayReplay, Replayable, NotReplayable
      <4> HIDE DEF t, c
      <4>4. c \in ControlStates /\ c.op = y.op
        BY <3>5, <4>1, <4>2 DEF ControlStates
      <4> QED BY <3>3, <4>3, <4>4
    <3>7. CASE ~(transient /\ MayReplay(y.op) /\ y.attempt < MaxTries)
      <4>1. c = [y EXCEPT !.pc = "failed"]
        BY <3>7 DEF Again
      <4> HIDE DEF c
      <4>2. /\ c \in ControlStates /\ c.op = y.op /\ c.pc = "failed" /\ c.effects = n
            /\ c.ambiguous = a
        BY <3>5, <4>1 DEF ControlStates
      <4>3. Good(c)
        BY <3>1, <3>2, <3>5, <4>2
      <4> QED BY <3>3, <4>2, <4>3
    <3> QED BY <3>6, <3>7
  <2> QED BY <2>1, <2>2, <2>3 DEF ControlCall
<1>3. Controls'
  BY <1>2 DEF E2bInv, E2bTypeOK, Controls
<1>4. lost' \in 0..MaxLost
  BY LosesTyped DEF ControlCall
<1>5. E2bTypeOK'
  BY <1>2, <1>4 DEF E2bInv, E2bTypeOK, ControlCall
<1>6. Processes' /\ Clients'
  BY DEF E2bInv, Processes, Clients, Knows, Serving, ControlCall
<1> QED BY <1>3, <1>5, <1>6 DEF E2bInv

\* The invariant is inductive.
THEOREM E2bInvariance == E2bSpec => []E2bInv
<1>1. E2bInv /\ [E2bNext]_e2bVars => E2bInv'
  <2> SUFFICES ASSUME E2bInv, [E2bNext]_e2bVars PROVE E2bInv'
    OBVIOUS
  <2>1. CASE UNCHANGED e2bVars
    BY <2>1 DEF e2bVars, E2bInv, E2bTypeOK, Processes, Clients, Controls, Knows, Serving
  <2>2. CASE AutoPause
    BY <2>2, AutoPauseStep
  <2>3. ASSUME NEW s \in Serves, ServeStarts(s) \/ ServeDies(s) PROVE E2bInv'
    BY <2>3, ServeStartsStep, ServeDiesStep
  <2>4. ASSUME NEW r \in Runtimes, RuntimeStep(r) \/ Cancel(r) PROVE E2bInv'
    BY <2>4, AimlessSteps, ProbeStep, ListProcessesStep, KillProcessStep, LaunchStep,
       AwaitHealthyStep, CheckSupervisorStep, InvokeRpcStep DEF RuntimeStep
  <2>5. ASSUME NEW q \in Requests, ControlCall(q) PROVE E2bInv'
    BY <2>5, ControlCallStep
  <2> QED BY <2>1, <2>2, <2>3, <2>4, <2>5 DEF E2bNext
<1> QED BY E2bInitially, <1>1, PTL DEF E2bSpec

\* Every reachable state of the sandbox, its supervisors, the runtimes and the control calls
\* is well typed (runtime.rs, control.rs of the provider).
THEOREM E2bTypesCorrect == E2bSpec => []E2bTypeOK
BY E2bInvariance, PTL DEF E2bInv

\* At most one supervisor serves a sandbox, operations reach and replacement kills only the
\* one they should, and a call that must not be repeated takes effect at most once and says
\* when it may have (runtime.rs, control.rs, error.rs of the provider).
THEOREM SandboxCallsStayExact == E2bSpec => []SandboxCallsAreExact
<1>1. E2bInv => SandboxCallsAreExact
  <2> SUFFICES ASSUME E2bInv PROVE SandboxCallsAreExact
    OBVIOUS
  <2>1. Cardinality(Serving) <= 1
    <3>1. CASE Serving = {}
      BY <3>1, FS_EmptySet
    <3>2. CASE Serving # {}
      <4>1. PICK s \in Serving : TRUE
        BY <3>2
      <4>2. Serving = {s}
        BY <4>1 DEF E2bInv, Processes
      <4>3. Cardinality({s}) = 1
        BY FS_Singleton
      <4> QED BY <4>2, <4>3
    <3> QED BY <3>1, <3>2
  <2>2. \A a \in applied : serves[a[2]].host = "own"
    BY DEF E2bInv, E2bTypeOK, Processes, Clients
  <2>3. \A s \in Serves : serves[s].killed => serves[s].host = "old"
    BY DEF E2bInv, Processes
  <2>4. ControlEffectsAreKnown
    BY DEF E2bInv, Controls, ControlEffectsAreKnown
  <2> QED BY <2>1, <2>2, <2>3, <2>4 DEF SandboxCallsAreExact, OwnSupervisorOnly
<1> QED BY E2bInvariance, <1>1, PTL

-----------------------------------------------------------------------------
(***************************************************************************)
(* Harnesses                                                               *)
(*                                                                         *)
(* The inductive invariant has seven parts: the shape of the state, and    *)
(* which steps of an activation belong to which phase of the checkpoint    *)
(* (DriverShape); answers are numbered and the batch under way is the      *)
(* newest (AnswersNumbered); what the call under way was dispatched under  *)
(* is what its saved plan names (CallsNamed); every call before it has its *)
(* result (BatchPaired); every submission repeats the saved revision       *)
(* (JobsAndPlan); a live process is the plan's or a session's              *)
(* (RunProcesses); inputs are heard once (InputsHeard).                    *)
(***************************************************************************)

ToolNames == {"process", "stdin", "mutation", "query", "script"}
Entries ==
    [role : {"user"}, input : Inputs]
      \union [role : {"assistant"}, id : Nat, calls : Seq(ToolNames), valid : BOOLEAN]
      \union [role : {"result"}, id : Nat, index : Nat, note : BOOLEAN]

\* The checkpoint.
CheckpointOK ==
    /\ {"phase", "failure"} \subseteq DOMAIN cp
    /\ phase.at \in {"none", "boundary", "model", "tools"}
    /\ phase.at = "none" => cp = NoCheckpoint /\ history = << >> /\ drawn = 0
    /\ phase.at = "model" => phase.op \in 1..ops /\ phase.rev \in 0..Len(history)
    /\ phase.at = "tools" =>
         /\ phase.id \in Nat /\ phase.index \in Nat \ {0}
         /\ phase.plan.tool = "none" => phase.plan = NoPlan
         /\ phase.plan.tool \in ToolNames \union {"none"}
         /\ phase.plan.tool # "none" => phase.plan.eid \in 0..drawn

\* The activation, and where in the checkpoint each of its steps is.
DriverPcs == {"none", "top", "abort", "failing", "inputs", "fail", "complete", "handle", "answer",
        "starting", "writing", "applied", "script", "cleanup", "abort_handle"}
ActivationOK ==
    /\ act.pc \in DriverPcs
    /\ act.pc = "none" => act = NoActivation
    /\ act.pc # "none" => {"pc", "seen", "done", "cells"} \subseteq DOMAIN act /\ Live /\ phase.at # "none"
    /\ act.pc # "none" => act.cells \subseteq Nat \X Nat /\ act.done \subseteq 0..MaxEffects
    /\ act.pc \notin {"none", "cleanup", "failing"} => act.done = {}
    /\ act.pc \in {"inputs", "complete"} => phase.at = "boundary"
    /\ act.pc = "inputs" => "batch" \in DOMAIN act /\ act.batch \subseteq Pending
    /\ act.pc \in {"handle", "answer", "abort_handle"} => phase.at = "model"
    /\ act.pc = "starting" => phase.at = "tools" /\ phase.plan.tool = "process"
    /\ act.pc = "writing" => phase.at = "tools" /\ phase.plan.tool = "stdin"
    /\ act.pc = "applied" => /\ phase.at = "tools" /\ phase.plan.tool \in {"mutation", "query", "script"}
                             /\ phase.plan.tool = "script" => phase.plan.stage = "admitted"
    /\ act.pc = "script" => phase.at = "tools" /\ phase.plan.tool = "script" /\ phase.plan.stage = "admitted"

RestOK ==
    /\ {"status", "abort"} \subseteq DOMAIN run /\ run.status \in Ended \union {"live"}
    /\ input \in [Inputs -> {"none", "pending", "handled", "rejected"}]
    /\ history \in Seq(Entries)
    /\ ops \in 0..MaxOps /\ drawn \in 0..MaxEffects /\ sess \subseteq 0..drawn /\ stops \in Nat
    /\ DOMAIN jobs = 1..MaxOps /\ DOMAIN proc = 0..MaxEffects
    /\ ~Live => phase.at # "tools"

DriverShape == CheckpointOK /\ ActivationOK /\ RestOK

\* Answers are numbered, and the batch under way is the newest.
AnswerAt(m) == m \in DOMAIN history /\ history[m].role = "assistant"
AnswersNumbered ==
    /\ \A m \in DOMAIN history : AnswerAt(m) => history[m].id \in 1..LastAnswer
    /\ \A m, n \in DOMAIN history : AnswerAt(m) /\ AnswerAt(n) /\ history[m].id = history[n].id => m = n
    /\ phase.at = "tools" => \E m \in DOMAIN history : AnswerAt(m) /\ history[m].id = phase.id
    /\ phase.at = "tools" => phase.id = LastAnswer
    /\ phase.at = "tools" /\ phase.plan.tool # "none" =>
          \E m \in DOMAIN history : /\ AnswerAt(m) /\ history[m].id = phase.id
                                   /\ phase.index \in DOMAIN history[m].calls

\* The identities the call under way was dispatched under.
ThisCall(x) == phase.at = "tools" /\ x[1] = phase.id /\ x[2] = phase.index
CallsNamed ==
    /\ \A x \in effects : x[1] \in 1..LastAnswer /\ x[2] \in Nat
    /\ phase.at = "tools" => \A x \in effects : x[1] = phase.id => x[2] <= phase.index
    /\ \A x \in effects : ThisCall(x) =>
          /\ phase.plan.tool # "none"
          /\ phase.plan.tool # "script" => x[3] = phase.plan.key
          /\ phase.plan.tool = "script" => phase.plan.stage = "admitted" /\ act.pc # "script"
    /\ OneIdentityPerCall

\* Call k of answer m is answered once, before anything else is said.
AnsweredIn(h, m, k) ==
    \E n \in DOMAIN h : /\ n > m
                        /\ h[n] = ToolResult(h[m].id, k)
                        /\ \A j \in (m + 1)..(n - 1) : h[j].role \notin Unusable
                        /\ \A j \in DOMAIN h : h[j] = h[n] => j = n

\* Every result is one of a call made before it.
CalledBefore(h, n, id, index) ==
    \E m \in DOMAIN h : /\ m < n /\ h[m].role = "assistant" /\ h[m].id = id
                       /\ index \in DOMAIN h[m].calls
ResultsCalled(h) ==
    \A n \in DOMAIN h : h[n].role = "result" => CalledBefore(h, n, h[n].id, h[n].index)

BatchPaired ==
    /\ \A m \in DOMAIN history : AnswerAt(m) =>
          \A k \in DOMAIN history[m].calls :
              \/ AnsweredIn(history, m, k)
              \/ phase.at = "tools" /\ history[m].id = phase.id /\ k >= phase.index
    /\ \A n \in DOMAIN history : history[n].role = "result" /\ ~history[n].note =>
          /\ history[n].id \in 1..LastAnswer
          /\ phase.at = "tools" /\ history[n].id = phase.id => history[n].index < phase.index
    /\ ResultsCalled(history)
    /\ phase.at = "tools" => \A m \in DOMAIN history : AnswerAt(m) /\ history[m].id = phase.id =>
          \A j \in (m + 1)..Len(history) : history[j].role \notin Unusable

SubmittedAs(o, n) == jobs[o].payloads = {n} /\ n \in 0..Len(history) /\ Paired(SubSeq(history, 1, n))
JobsAndPlan ==
    /\ \A o \in 1..MaxOps : /\ o > ops => jobs[o] = NoJob
                            /\ jobs[o].status = "none" => jobs[o] = NoJob
                            /\ jobs[o].status # "none" => {"status", "payloads"} \subseteq DOMAIN jobs[o]
                            /\ jobs[o].status # "none" => \E n \in 0..Len(history) : SubmittedAs(o, n)
    /\ phase.at = "model" => /\ Paired(SubSeq(history, 1, phase.rev))
                             /\ jobs[phase.op].status # "none" => jobs[phase.op].payloads = {phase.rev}

\* Processes.
StdinCalled == \E m \in DOMAIN history : AnswerAt(m) /\ \E k \in DOMAIN history[m].calls : history[m].calls[k] = "stdin"
OwnSessions == IF harness \in KeepsSessions THEN sess ELSE {}
RunProcesses ==
    /\ Live => \A e \in 1..MaxEffects : proc[e] = "alive" /\ e \notin strays => e \in PlannedProcess \union OwnSessions
    /\ run.status \in {"aborted", "failed"} => \A e \in 1..MaxEffects : proc[e] = "alive" => e \in strays
    /\ act.pc # "none" => \A e \in act.done : proc[e] = "alive" => e \in strays
    /\ 0 \notin starts
    /\ harness \notin KeepsSessions => sess = {}
    /\ phase.at = "tools" /\ phase.plan.tool # "none" =>
          /\ phase.plan.eid = 0 => phase.plan.tool = "stdin"
          /\ phase.plan.tool = "stdin" => StdinCalled
          /\ phase.plan.tool = "stdin" /\ proc[phase.plan.eid] = "alive" => phase.plan.eid \in sess \union strays
    /\ proc[0] = "killed" => StdinCalled

\* Inputs.
InputsHeard ==
    /\ \A i \in Inputs : input[i] # "handled" => \A m \in DOMAIN history : history[m] # User(i)
    /\ \A i \in Inputs : input[i] = "handled" => \E m \in DOMAIN history : history[m] = User(i)
    /\ \A i \in Inputs, m, n \in DOMAIN history : history[m] = User(i) /\ history[n] = User(i) => m = n
    /\ run.status = "completed" => Pending = {}


\* What a commit leaves of the checkpoint.
LEMMA SaveFacts ==
  ASSUME DriverShape, NEW p, NEW x \in Seq(Entries), Save(p, x)
  PROVE  /\ cp'.phase = p /\ cp'.failure = cp.failure /\ {"phase", "failure"} \subseteq DOMAIN cp'
         /\ history' = history \o x
<1>. QED BY DEF DriverShape, CheckpointOK, Save

LEMMA SaveSame ==
  ASSUME DriverShape, NEW p, Save(p, << >>)
  PROVE  /\ cp'.phase = p /\ cp'.failure = cp.failure /\ {"phase", "failure"} \subseteq DOMAIN cp'
         /\ history' = history
<1>1. << >> \in Seq(Entries) /\ history \in Seq(Entries)
  BY DEF DriverShape, RestOK
<1>2. history \o << >> = history
  BY <1>1
<1>. QED BY <1>1, <1>2, SaveFacts

\* A history that goes on.
LEMMA Extended ==
  ASSUME NEW h \in Seq(Entries), NEW x \in Seq(Entries), NEW g, g = h \o x
  PROVE  /\ g \in Seq(Entries) /\ Len(g) = Len(h) + Len(x)
         /\ DOMAIN h = 1..Len(h) /\ DOMAIN g = 1..Len(g)
         /\ \A n \in DOMAIN h : n \in DOMAIN g /\ g[n] = h[n]
         /\ \A n \in DOMAIN g : n \notin DOMAIN h =>
               n - Len(h) \in DOMAIN x /\ n - Len(h) \in 1..Len(x) /\ g[n] = x[n - Len(h)] /\ n > Len(h)
<1>. QED OBVIOUS

\* Results stay results of calls when the history goes on.
LEMMA CalledStays ==
  ASSUME NEW h \in Seq(Entries), NEW x \in Seq(Entries), NEW g, g = h \o x, ResultsCalled(h),
         \A k \in DOMAIN x : x[k].role = "result" => Called(h, x[k].id, x[k].index)
  PROVE  ResultsCalled(g)
<1>1. /\ g \in Seq(Entries) /\ Len(g) = Len(h) + Len(x)
      /\ DOMAIN h = 1..Len(h) /\ DOMAIN g = 1..Len(g)
      /\ \A n \in DOMAIN h : n \in DOMAIN g /\ g[n] = h[n]
      /\ \A n \in DOMAIN g : n \notin DOMAIN h =>
               n - Len(h) \in DOMAIN x /\ g[n] = x[n - Len(h)] /\ n > Len(h)
      /\ Len(h) \in Nat
  BY Extended
<1>. SUFFICES ASSUME NEW n \in DOMAIN g, g[n].role = "result" PROVE CalledBefore(g, n, g[n].id, g[n].index)
  BY DEF ResultsCalled
<1>2. CASE n \in DOMAIN h
  BY <1>1, <1>2 DEF ResultsCalled, CalledBefore
<1>3. CASE n \notin DOMAIN h
  <2>1. Called(h, g[n].id, g[n].index)
    BY <1>1, <1>3
  <2>2. \A m \in DOMAIN h : m < n
    BY <1>1, <1>3
  <2>. QED BY <1>1, <2>1, <2>2 DEF Called, CalledBefore
<1>. QED BY <1>2, <1>3

\* The same, as the property says it.
LEMMA CalledInPrefix ==
  ASSUME NEW h \in Seq(Entries), NEW n \in DOMAIN h, NEW id, NEW index
  PROVE  Called(SubSeq(h, 1, n - 1), id, index) <=> CalledBefore(h, n, id, index)
<1>1. /\ DOMAIN SubSeq(h, 1, n - 1) = 1..(n - 1) /\ DOMAIN h = 1..Len(h) /\ n \in Nat /\ Len(h) \in Nat
      /\ \A m \in 1..(n - 1) : SubSeq(h, 1, n - 1)[m] = h[m]
  OBVIOUS
<1>2. \A m : m \in 1..(n - 1) <=> m \in DOMAIN h /\ m < n
  BY <1>1
<1>. QED BY <1>1, <1>2 DEF Called, CalledBefore

LEMMA SamePrefix ==
  ASSUME NEW h \in Seq(Entries), NEW x \in Seq(Entries), NEW n \in 0..Len(h)
  PROVE  SubSeq(h \o x, 1, n) = SubSeq(h, 1, n)
<1>. QED OBVIOUS

LEMMA WholePrefix ==
  ASSUME NEW h \in Seq(Entries) PROVE SubSeq(h, 1, Len(h)) = h
<1>. QED OBVIOUS

AnswersIn(h) == {m \in DOMAIN h : h[m].role = "assistant"}

LEMMA AnswersFinite ==
  ASSUME NEW h \in Seq(Entries) PROVE IsFiniteSet(AnswersIn(h)) /\ Cardinality(AnswersIn(h)) \in Nat
<1>1. IsFiniteSet(1..Len(h)) /\ AnswersIn(h) \subseteq 1..Len(h)
  BY FS_Interval DEF AnswersIn
<1>. QED BY <1>1, FS_Subset, FS_CardinalityType

\* No answer among the new messages.
LEMMA SameAnswers ==
  ASSUME history \in Seq(Entries), NEW x \in Seq(Entries), history' = history \o x,
         \A k \in DOMAIN x : x[k].role # "assistant"
  PROVE  LastAnswer' = LastAnswer
<1>1. AnswersIn(history') = AnswersIn(history)
  BY Extended DEF AnswersIn
<1>. QED BY <1>1 DEF LastAnswer, AnswersIn

LEMMA NewAnswer ==
  ASSUME history \in Seq(Entries), NEW a \in Entries, history' = Append(history, a), a.role = "assistant"
  PROVE  LastAnswer' = LastAnswer + 1
<1>1. AnswersIn(history') = AnswersIn(history) \union {Len(history) + 1} /\ Len(history) + 1 \notin AnswersIn(history)
  BY DEF AnswersIn
<1>2. Cardinality(AnswersIn(history')) = Cardinality(AnswersIn(history)) + 1
  BY <1>1, AnswersFinite, FS_AddElement
<1>. QED BY <1>2 DEF LastAnswer, AnswersIn

LEMMA LastAnswerType ==
  ASSUME history \in Seq(Entries) PROVE LastAnswer \in Nat
<1>. QED BY AnswersFinite DEF LastAnswer, AnswersIn

-----------------------------------------------------------------------------
(* What a step makes of the activation. *)

ActFields == {"pc", "seen", "done", "cells"}

LEMMA ToPc ==
  ASSUME ActivationOK, act.pc # "none", NEW v, act' = [act EXCEPT !.pc = v]
  PROVE  act'.pc = v /\ act'.done = act.done /\ act'.cells = act.cells /\ ActFields \subseteq DOMAIN act'
<1>. QED BY DEF ActivationOK, ActFields

LEMMA ToPcSeen ==
  ASSUME ActivationOK, act.pc # "none", NEW v, NEW b, act' = [act EXCEPT !.pc = v, !.seen = b]
  PROVE  act'.pc = v /\ act'.done = act.done /\ act'.cells = act.cells /\ ActFields \subseteq DOMAIN act'
<1>. QED BY DEF ActivationOK, ActFields

LEMMA ToSeen ==
  ASSUME ActivationOK, act.pc # "none", act' = [act EXCEPT !.seen = TRUE]
  PROVE  /\ act'.pc = act.pc /\ act'.done = act.done /\ act'.cells = act.cells /\ ActFields \subseteq DOMAIN act'
         /\ act.pc = "inputs" => "batch" \in DOMAIN act' /\ act'.batch = act.batch
<1>. QED BY DEF ActivationOK, ActFields

LEMMA ToDone ==
  ASSUME ActivationOK, act.pc # "none", NEW e, act' = [act EXCEPT !.done = @ \cup {e}]
  PROVE  act'.pc = act.pc /\ act'.done = act.done \union {e} /\ act'.cells = act.cells /\ ActFields \subseteq DOMAIN act'
<1>. QED BY DEF ActivationOK, ActFields

LEMMA ToCell ==
  ASSUME ActivationOK, act.pc # "none", NEW v, NEW c, act' = [act EXCEPT !.pc = v, !.cells = c]
  PROVE  act'.pc = v /\ act'.done = act.done /\ act'.cells = c /\ ActFields \subseteq DOMAIN act'
<1>. QED BY DEF ActivationOK, ActFields

LEMMA ToNone ==
  ASSUME act' = NoActivation PROVE act'.pc = "none" /\ act' = NoActivation
<1>. QED BY DEF NoActivation

LEMMA FromNone ==
  ASSUME act = NoActivation PROVE act.pc = "none"
<1>. QED BY DEF NoActivation

LEMMA NotNone ==
  ASSUME ActivationOK, act # NoActivation PROVE act.pc # "none"
<1>. QED BY DEF ActivationOK

LEMMA ToFresh ==
  ASSUME act' = Fresh
  PROVE  act'.pc = "top" /\ act'.done = {} /\ act'.cells = {} /\ ActFields \subseteq DOMAIN act'
<1>. QED BY DEF Fresh, ActFields

\* Only the activation changes.
OnlyActivation ==
    /\ UNCHANGED <<harness, run, input, history, sess, ops, jobs, drawn, proc, starts, strays, effects>>
    /\ cp'.phase = cp.phase /\ {"phase", "failure"} \subseteq DOMAIN cp' /\ stops' \in Nat
    /\ phase.at = "none" => cp' = cp

ActivationMoved ==
    /\ OnlyActivation /\ ActivationOK'
    /\ act'.pc = "script" => act.pc = "script"
    /\ act'.pc # "none" => act'.done = {} \/ (act.pc # "none" /\ act'.done = act.done)

LEMMA StillAt ==
  ASSUME DriverShape, UNCHANGED <<harness, durable, ops, jobs, host>>, stops' \in Nat PROVE OnlyActivation
<1>. QED BY DEF DriverShape, CheckpointOK, OnlyActivation, durable, host, phase

\* A step from top, or from a wait, to another place.
LEMMA MovedTo ==
  ASSUME DriverShape, OnlyActivation, act.pc # "none", act'.pc \in {"top", "abort", "failing", "fail", "cleanup"},
         act'.done = act.done, act'.cells = act.cells, ActFields \subseteq DOMAIN act',
         act.pc \in {"cleanup", "failing"} => act'.pc \in {"cleanup", "failing"}
  PROVE  ActivationMoved
<1>. QED BY DEF DriverShape, ActivationMoved, OnlyActivation, ActivationOK, Live, phase, ActFields, DriverPcs, Pending

LEMMA MovedOff ==
  ASSUME DriverShape, OnlyActivation, act' = NoActivation PROVE ActivationMoved
<1>1. act'.pc = "none"
  BY DEF NoActivation
<1>. QED BY <1>1 DEF ActivationMoved, ActivationOK, DriverPcs

LEMMA ResumeMoves ==
  ASSUME DriverShape, Resume PROVE ActivationMoved
<1>1. OnlyActivation /\ act'.pc = "top" /\ act'.done = {} /\ act'.cells = {} /\ ActFields \subseteq DOMAIN act'
  BY StillAt, ToFresh DEF Resume, DriverShape, RestOK
<1>2. phase.at # "none"
  BY DEF Resume, DriverShape, CheckpointOK
<1>. QED BY <1>1, <1>2 DEF Resume, ActivationMoved, OnlyActivation, ActivationOK, Live, phase, ActFields, DriverPcs

LEMMA TurnsMove ==
  ASSUME DriverShape, TurnToAbort \/ TurnToFailure \/ AbortElsewhere \/ LeaveAnswer \/ LeaveStart PROVE ActivationMoved
<1>1. OnlyActivation /\ act.pc \in {"top", "abort", "answer", "starting", "writing"}
  BY StillAt DEF TurnToAbort, TurnToFailure, AbortElsewhere, LeaveAnswer, LeaveStart, DriverShape, RestOK
<1>2. PICK v \in {"abort", "failing", "cleanup", "top"} : act' = [act EXCEPT !.pc = v]
  BY DEF TurnToAbort, TurnToFailure, AbortElsewhere, LeaveAnswer, LeaveStart
<1>3. act'.pc = v /\ act'.done = act.done /\ act'.cells = act.cells /\ ActFields \subseteq DOMAIN act'
  BY <1>1, <1>2, ToPc DEF DriverShape
<1>. QED BY <1>1, <1>3, MovedTo

LEMMA StopMoves ==
  ASSUME DriverShape, Stop \/ Drain \/ Unreachable PROVE ActivationMoved
<1>1. OnlyActivation
  BY StillAt DEF Stop, Drain, Unreachable, DriverShape, RestOK
<1>. QED BY <1>1, MovedOff DEF Stop, Drain, Unreachable

LEMMA OutageMoves ==
  ASSUME DriverShape, Outage PROVE ActivationMoved
<1>1. OnlyActivation /\ act' = act /\ cp' = cp
  BY StillAt DEF Outage, DriverShape, RestOK, durable
<1>. QED BY <1>1 DEF ActivationMoved, OnlyActivation, DriverShape, ActivationOK, phase, Live, Pending

LEMMA SeeAbortMoves ==
  ASSUME DriverShape, SeeAbort PROVE ActivationMoved
<1>1. OnlyActivation /\ act.pc # "none"
  BY StillAt, NotNone DEF SeeAbort, DriverShape, RestOK
<1>2. /\ act'.pc = act.pc /\ act'.done = act.done /\ act'.cells = act.cells /\ ActFields \subseteq DOMAIN act'
      /\ act.pc = "inputs" => "batch" \in DOMAIN act' /\ act'.batch = act.batch
  BY <1>1, ToSeen DEF SeeAbort, DriverShape
<1>. QED BY <1>1, <1>2 DEF DriverShape, ActivationMoved, OnlyActivation, ActivationOK, Live, phase, ActFields, Pending

LEMMA FailMoves ==
  ASSUME DriverShape, Fail PROVE ActivationMoved
<1>1. cp'.phase = cp.phase /\ {"phase", "failure"} \subseteq DOMAIN cp'
  BY DEF Fail, DriverShape, CheckpointOK
<1>2. OnlyActivation /\ act.pc = "fail"
  BY <1>1 DEF Fail, OnlyActivation, host, DriverShape, RestOK, ActivationOK
<1>3. act'.pc = "failing" /\ act'.done = act.done /\ act'.cells = act.cells /\ ActFields \subseteq DOMAIN act'
  BY <1>2, ToPc DEF DriverShape, Fail
<1>. QED BY <1>2, <1>3, MovedTo

\* The boundary, but for the plan of a model call.
PlansModel ==
    /\ Pending = {} /\ history # << >> /\ phase.final = 0
    /\ ops < MaxOps
    /\ ops' = ops + 1
    /\ Save(AtModel(ops + 1, Len(history), FALSE, 0), << >>)
    /\ UNCHANGED act

LEMMA BoundaryMoves ==
  ASSUME DriverShape, Boundary, ~PlansModel PROVE ActivationMoved
<1>1. /\ OnlyActivation /\ act.pc = "top" /\ phase.at = "boundary"
      /\ UNCHANGED <<harness, run, input, history>>
  BY DEF Boundary, PlansModel, Top, OnlyActivation, host, DriverShape, RestOK, CheckpointOK, phase
<1>2. CASE act' = [pc |-> "inputs", seen |-> act.seen, done |-> {}, cells |-> act.cells, batch |-> Pending]
  <2>1. act'.pc = "inputs" /\ act'.done = {} /\ act'.cells = act.cells /\ act'.batch = Pending
        /\ ActFields \union {"batch"} \subseteq DOMAIN act'
    BY <1>2 DEF ActFields
  <2>. QED BY <1>1, <2>1 DEF DriverShape, ActivationMoved, OnlyActivation, ActivationOK, Live, phase, ActFields, DriverPcs, Pending
<1>3. CASE act' = [act EXCEPT !.pc = "fail"]
  <2>1. act'.pc = "fail" /\ act'.done = act.done /\ act'.cells = act.cells /\ ActFields \subseteq DOMAIN act'
    BY <1>1, <1>3, ToPc DEF DriverShape
  <2>. QED BY <1>1, <2>1, MovedTo
<1>4. CASE act' = [act EXCEPT !.pc = "complete"]
  <2>1. act'.pc = "complete" /\ act'.done = act.done /\ act'.cells = act.cells /\ ActFields \subseteq DOMAIN act'
    BY <1>1, <1>4, ToPc DEF DriverShape
  <2>. QED BY <1>1, <2>1 DEF DriverShape, ActivationMoved, OnlyActivation, ActivationOK, Live, phase, ActFields, DriverPcs, Pending
<1>. QED BY <1>2, <1>3, <1>4 DEF Boundary, PlansModel

Completes == act.pc = "complete" /\ Pending = {} /\ act' = NoActivation /\ run' = [run EXCEPT !.status = "completed"]

LEMMA CompleteMoves ==
  ASSUME DriverShape, Complete, ~Completes PROVE ActivationMoved
<1>1. act' = [act EXCEPT !.pc = "top", !.seen = run.abort] /\ act.pc = "complete" /\ UNCHANGED run
  BY DEF Complete, Completes
<1>2. OnlyActivation
  BY <1>1 DEF Complete, OnlyActivation, host, DriverShape, RestOK, CheckpointOK, phase
<1>3. act'.pc = "top" /\ act'.done = act.done /\ act'.cells = act.cells /\ ActFields \subseteq DOMAIN act'
  BY <1>1, ToPcSeen DEF DriverShape
<1>. QED BY <1>1, <1>2, <1>3, MovedTo

LEMMA AskedActivation ==
  ASSUME DriverShape, Ask
  PROVE  /\ act'.pc \in {"answer", "handle", "fail"} /\ act'.done = {} /\ act'.cells = act.cells /\ ActFields \subseteq DOMAIN act'
         /\ act.pc = "top" /\ phase.at = "model"
<1>. QED BY DEF Ask, Top, ActFields

\* The model call, but for the retry and the message.
AsksAgain ==
    /\ act.reply = "retryable" /\ phase.attempt < Retries
    /\ ops < MaxOps
    /\ ops' = ops + 1
    /\ Save(AtModel(ops + 1, phase.rev, FALSE, phase.attempt + 1), << >>)
    /\ act' = [act EXCEPT !.pc = "top"]

LEMMA AnswerMoves ==
  ASSUME DriverShape, (TakeAnswer /\ ~AsksAgain) \/ (TakeMessage /\ ~\E r \in ModelAnswers : SaveAnswer(r)) PROVE ActivationMoved
<1>1. act.pc = "answer" /\ \E v \in {"top", "fail"} : act' = [act EXCEPT !.pc = v]
  BY DEF TakeAnswer, TakeMessage, AsksAgain
<1>2. PICK v \in {"top", "fail"} : act' = [act EXCEPT !.pc = v]
  BY <1>1
<1>3. OnlyActivation
  BY DEF TakeAnswer, TakeMessage, AsksAgain, OnlyActivation, host, DriverShape, RestOK, CheckpointOK, phase
<1>4. act'.pc = v /\ act'.done = act.done /\ act'.cells = act.cells /\ ActFields \subseteq DOMAIN act'
  BY <1>1, <1>2, ToPc DEF DriverShape
<1>. QED BY <1>1, <1>3, <1>4, MovedTo

LEMMA MovedShape ==
  ASSUME DriverShape, ActivationMoved PROVE DriverShape'
<1>. QED BY DEF DriverShape, ActivationMoved, OnlyActivation, CheckpointOK, RestOK, phase, Live

DriverInv == DriverShape /\ AnswersNumbered /\ CallsNamed /\ BatchPaired /\ JobsAndPlan /\ RunProcesses /\ InputsHeard

LEMMA SameTalk ==
  ASSUME history' = history, phase' = phase
  PROVE  /\ AnswersNumbered => AnswersNumbered' 
         /\ BatchPaired => BatchPaired'
<1>1. LastAnswer' = LastAnswer
  BY DEF LastAnswer
<1>2. AnswersNumbered => AnswersNumbered'
  BY <1>1 DEF AnswersNumbered, AnswerAt
<1>3. BatchPaired => BatchPaired'
  <2>1. \A m, k : AnsweredIn(history', m, k) <=> AnsweredIn(history, m, k)
    OBVIOUS
  <2>2. \A m : AnswerAt(m)' <=> AnswerAt(m)
    BY DEF AnswerAt
  <2>. QED BY <1>1, <2>1, <2>2 DEF BatchPaired
<1>. QED BY <1>2, <1>3

LEMMA MovedInv ==
  ASSUME DriverInv, ActivationMoved PROVE DriverInv'
<1>. USE DEF DriverInv
<1>1. history' = history /\ phase' = phase /\ DriverShape'
  BY MovedShape DEF ActivationMoved, OnlyActivation, phase
<1>2. AnswersNumbered' /\ BatchPaired'
  BY <1>1, SameTalk
<1>3. CallsNamed'
  BY <1>1 DEF CallsNamed, ActivationMoved, OnlyActivation, ThisCall, LastAnswer, OneIdentityPerCall
<1>4. JobsAndPlan'
  BY <1>1 DEF JobsAndPlan, SubmittedAs, ActivationMoved, OnlyActivation
<1>5. RunProcesses'
  BY <1>1 DEF RunProcesses, ActivationMoved, OnlyActivation, Live, PlannedProcess, OwnSessions, StdinCalled, AnswerAt
<1>6. InputsHeard'
  BY <1>1 DEF InputsHeard, ActivationMoved, OnlyActivation, Pending
<1>. QED BY <1>1, <1>2, <1>3, <1>4, <1>5, <1>6

-----------------------------------------------------------------------------
(* Environment. *)

LEMMA ArriveInv ==
  ASSUME DriverInv, NEW i \in Inputs, Arrive(i) PROVE DriverInv'
<1>. USE DEF DriverInv
<1>0. /\ UNCHANGED <<harness, run, history, cp, sess, act, ops, jobs, drawn, proc, starts, strays, effects, stops>>
      /\ run.status = "live" /\ input[i] = "none" /\ input' = [input EXCEPT ![i] = "pending"]
  BY DEF Arrive, host, Live
<1>1. history' = history /\ phase' = phase
  BY <1>0 DEF phase
<1>2. AnswersNumbered' /\ BatchPaired'
  BY <1>1, SameTalk
<1>3. DriverShape'
  BY <1>0, <1>1 DEF DriverShape, CheckpointOK, ActivationOK, RestOK, Live, Pending
<1>4. CallsNamed'
  BY <1>0, <1>1 DEF CallsNamed, ThisCall, LastAnswer, OneIdentityPerCall
<1>5. JobsAndPlan'
  BY <1>0, <1>1 DEF JobsAndPlan, SubmittedAs
<1>6. RunProcesses'
  BY <1>0, <1>1 DEF RunProcesses, Live, PlannedProcess, OwnSessions, StdinCalled, AnswerAt
<1>7. InputsHeard'
  BY <1>0 DEF InputsHeard, DriverShape, RestOK
<1>. QED BY <1>2, <1>3, <1>4, <1>5, <1>6, <1>7

LEMMA RequestAbortInv ==
  ASSUME DriverInv, RequestAbort PROVE DriverInv'
<1>. USE DEF DriverInv
<1>0. /\ UNCHANGED <<harness, input, history, cp, sess, act, ops, jobs, drawn, proc, starts, strays, effects, stops>>
      /\ run'.status = run.status /\ {"status", "abort"} \subseteq DOMAIN run'
  BY DEF RequestAbort, host, DriverShape, RestOK
<1>1. history' = history /\ phase' = phase
  BY <1>0 DEF phase
<1>2. AnswersNumbered' /\ BatchPaired'
  BY <1>1, SameTalk
<1>3. DriverShape'
  BY <1>0, <1>1 DEF DriverShape, CheckpointOK, ActivationOK, RestOK, Live, Pending
<1>4. CallsNamed'
  BY <1>0, <1>1 DEF CallsNamed, ThisCall, LastAnswer, OneIdentityPerCall
<1>5. JobsAndPlan'
  BY <1>0, <1>1 DEF JobsAndPlan, SubmittedAs
<1>6. RunProcesses'
  BY <1>0, <1>1 DEF RunProcesses, Live, PlannedProcess, OwnSessions, StdinCalled, AnswerAt
<1>7. InputsHeard'
  BY <1>0 DEF InputsHeard, Pending
<1>. QED BY <1>2, <1>3, <1>4, <1>5, <1>6, <1>7

\* A process starts or ends by itself.
LEMMA HostInv ==
  ASSUME DriverInv, NEW e \in 0..MaxEffects, HostStarts(e) \/ HostEnds(e) PROVE DriverInv'
<1>. USE DEF DriverInv
<1>0. UNCHANGED <<harness, run, input, history, cp, sess, act, ops, jobs, drawn, effects, stops>>
  BY DEF HostStarts, HostEnds, durable
<1>1. history' = history /\ phase' = phase
  BY <1>0 DEF phase
<1>2. AnswersNumbered' /\ BatchPaired'
  BY <1>1, SameTalk
<1>3. DOMAIN proc' = DOMAIN proc /\ starts' \subseteq starts /\ strays \subseteq strays'
  BY DEF HostStarts, HostEnds
<1>4. DriverShape'
  BY <1>0, <1>1, <1>3 DEF DriverShape, CheckpointOK, ActivationOK, RestOK, Live, Pending
<1>5. CallsNamed'
  BY <1>0, <1>1 DEF CallsNamed, ThisCall, LastAnswer, OneIdentityPerCall
<1>6. JobsAndPlan'
  BY <1>0, <1>1 DEF JobsAndPlan, SubmittedAs
<1>7. RunProcesses'
  <2>1. \A d \in 0..MaxEffects : d # e => proc'[d] = proc[d]
    BY DEF HostStarts, HostEnds, DriverShape, RestOK
  <2>2. proc'[e] = "alive" /\ proc[e] # "alive" => e \in strays' \/ Waits(e)
    BY DEF HostStarts, HostEnds, DriverShape, RestOK
  <2>3. Waits(e) => e \in PlannedProcess /\ run.status = "live" /\ act.done = {}
    BY DEF Waits, PlannedProcess, DriverShape, ActivationOK, CheckpointOK, Live, NoPlan
  <2>4. proc'[0] = "killed" => proc[0] = "killed"
    <3>1. 0 \in 0..MaxEffects /\ 0 \notin starts
      BY HarnessAssumption DEF RunProcesses
    <3>2. CASE e # 0
      BY <2>1, <3>1, <3>2
    <3>3. CASE e = 0
      <4>1. HostEnds(e)
        BY <3>1, <3>3 DEF HostStarts
      <4>. QED BY <3>1, <3>3, <4>1 DEF HostEnds, DriverShape, RestOK
    <3>. QED BY <3>2, <3>3
  <2>5. UNCHANGED <<PlannedProcess, OwnSessions, StdinCalled>>
    BY <1>0, <1>1 DEF PlannedProcess, OwnSessions, StdinCalled, AnswerAt
  <2>6. Live => \A d \in 1..MaxEffects : proc'[d] = "alive" /\ d \notin strays' => d \in PlannedProcess \union OwnSessions
    BY <1>3, <2>1, <2>2, <2>3 DEF RunProcesses
  <2>7. run.status \in {"aborted", "failed"} => \A d \in 1..MaxEffects : proc'[d] = "alive" => d \in strays'
    BY <1>3, <2>1, <2>2, <2>3 DEF RunProcesses
  <2>8. act.pc # "none" => \A d \in act.done : proc'[d] = "alive" => d \in strays'
    <3>1. CASE Waits(e)
      BY <2>3, <3>1
    <3>2. CASE ~Waits(e)
      <4>1. act.pc # "none" => act.done \subseteq 0..MaxEffects
        BY DEF DriverShape, ActivationOK
      <4>. QED BY <1>3, <2>1, <2>2, <3>2, <4>1 DEF RunProcesses
    <3>. QED BY <3>1, <3>2
  <2>9. ASSUME phase.at = "tools", phase.plan.tool = "stdin", proc'[phase.plan.eid] = "alive"
        PROVE  phase.plan.eid \in sess \union strays'
    <3>1. PICK d \in 0..MaxEffects : d = phase.plan.eid
      BY <2>9, HarnessAssumption DEF DriverShape, CheckpointOK, RestOK
    <3>2. ~Waits(d)
      BY <2>9 DEF Waits, DriverShape, ActivationOK
    <3>3. proc[d] = "alive" \/ d \in strays'
      BY <2>1, <2>2, <2>9, <3>1, <3>2
    <3>. QED BY <1>3, <2>9, <3>1, <3>3 DEF RunProcesses
  <2>. QED BY <1>0, <1>1, <1>3, <2>4, <2>5, <2>6, <2>7, <2>8, <2>9 DEF RunProcesses, Live
<1>8. InputsHeard'
  BY <1>0 DEF InputsHeard, Pending
<1>. QED BY <1>2, <1>4, <1>5, <1>6, <1>7, <1>8

-----------------------------------------------------------------------------
(* What the parts of the invariant need of a step. *)

\* The messages of the history by their roles.
LEMMA MessageTypes ==
  ASSUME DriverShape, NEW m \in DOMAIN history, history[m].role = "assistant"
  PROVE  history[m].id \in Nat /\ history[m].calls \in Seq(ToolNames)
<1>1. history[m] \in Entries
  BY DEF DriverShape, RestOK
<1>. QED BY <1>1 DEF Entries

\* An answered call stays answered when nothing repeats its result.
LEMMA StillAnswered ==
  ASSUME history \in Seq(Entries), NEW x \in Seq(Entries), history' = history \o x,
         NEW m \in DOMAIN history, NEW k, AnsweredIn(history, m, k),
         \A j \in DOMAIN x : x[j] # ToolResult(history[m].id, k)
  PROVE  AnsweredIn(history', m, k)
<1>. DEFINE g == history'
<1>1. /\ DOMAIN history = 1..Len(history) /\ DOMAIN g = 1..Len(g)
      /\ \A n \in DOMAIN history : n \in DOMAIN g /\ g[n] = history[n]
      /\ \A n \in DOMAIN g : n \notin DOMAIN history =>
               n - Len(history) \in DOMAIN x /\ g[n] = x[n - Len(history)] /\ n > Len(history)
      /\ Len(history) \in Nat
  BY Extended
<1>2. PICK n \in DOMAIN history :
        /\ n > m /\ history[n] = ToolResult(history[m].id, k)
        /\ \A j \in (m + 1)..(n - 1) : history[j].role \notin Unusable
        /\ \A j \in DOMAIN history : history[j] = history[n] => j = n
  BY DEF AnsweredIn
<1>. HIDE DEF g
<1>3. n \in DOMAIN g /\ g[n] = ToolResult(g[m].id, k) /\ g[n] = history[n]
  BY <1>1, <1>2
<1>4. \A j \in (m + 1)..(n - 1) : g[j].role \notin Unusable
  <2>1. \A j \in (m + 1)..(n - 1) : j \in DOMAIN history
    BY <1>1, <1>2
  <2>. QED BY <1>1, <1>2, <2>1
<1>5. \A j \in DOMAIN g : g[j] = g[n] => j = n
  BY <1>1, <1>2, <1>3
<1>6. AnsweredIn(g, m, k)
  BY <1>2, <1>3, <1>4, <1>5 DEF AnsweredIn
<1>. QED BY <1>6 DEF g

\* Outside a batch every call is answered.
LEMMA PairedOutside ==
  ASSUME DriverShape, BatchPaired, phase.at # "tools" PROVE Paired(history)
<1>1. history \in Seq(Entries) /\ ResultsCalled(history)
  BY DEF DriverShape, RestOK, BatchPaired
<1>2. \A n \in DOMAIN history : history[n].role = "result" =>
          Called(SubSeq(history, 1, n - 1), history[n].id, history[n].index)
  BY <1>1, CalledInPrefix DEF ResultsCalled
<1>. QED BY <1>2 DEF BatchPaired, Paired, AnswerAt, AnsweredIn

\* Jobs stay what they are while the history goes on.
JobsKept ==
    \A o \in 1..MaxOps : /\ o > ops => jobs[o] = NoJob
                         /\ jobs[o].status = "none" => jobs[o] = NoJob
                         /\ jobs[o].status # "none" => {"status", "payloads"} \subseteq DOMAIN jobs[o]
                         /\ jobs[o].status # "none" => \E n \in 0..Len(history) : SubmittedAs(o, n)
Asking ==
    phase.at = "model" => /\ Paired(SubSeq(history, 1, phase.rev))
                          /\ jobs[phase.op].status # "none" => jobs[phase.op].payloads = {phase.rev}

LEMMA JobsAndPlanParts == JobsAndPlan <=> JobsKept /\ Asking
<1>. QED BY DEF JobsAndPlan, JobsKept, Asking

LEMMA JobsStay ==
  ASSUME DriverShape, JobsKept, NEW x \in Seq(Entries), history' = history \o x, jobs' = jobs, ops' \in Nat, ops' >= ops
  PROVE  JobsKept'
<1>1. history \in Seq(Entries) /\ ops \in Nat
  BY DEF DriverShape, RestOK
<1>2. Len(history') = Len(history) + Len(x) /\ Len(history) \in Nat /\ Len(x) \in Nat
  BY <1>1
<1>3. \A o \in 1..MaxOps, n \in 0..Len(history) : SubmittedAs(o, n) => n \in 0..Len(history') /\ SubmittedAs(o, n)'
  <2>. SUFFICES ASSUME NEW o \in 1..MaxOps, NEW n \in 0..Len(history), SubmittedAs(o, n)
                PROVE  n \in 0..Len(history') /\ SubmittedAs(o, n)'
    OBVIOUS
  <2>1. SubSeq(history', 1, n) = SubSeq(history, 1, n)
    BY <1>1, SamePrefix
  <2>2. n \in 0..Len(history')
    BY <1>2
  <2>3. jobs'[o].payloads = {n} /\ Paired(SubSeq(history', 1, n))
    BY <2>1 DEF SubmittedAs
  <2>. QED BY <2>2, <2>3 DEF SubmittedAs
<1>4. \A o \in 1..MaxOps : o > ops' => o > ops
  BY <1>1, HarnessAssumption
<1>. QED BY <1>3, <1>4 DEF JobsKept

\* A job that changes only its status.
LEMMA JobsChange ==
  ASSUME DriverShape, JobsKept, history' = history, ops' = ops,
         \A p \in 1..MaxOps : jobs'[p] = jobs[p] \/ (jobs[p].status # "none" /\ jobs'[p].payloads = jobs[p].payloads
                              /\ jobs'[p].status # "none" /\ {"status", "payloads"} \subseteq DOMAIN jobs'[p])
  PROVE  JobsKept'
<1>1. \A p \in 1..MaxOps, n \in 0..Len(history) : SubmittedAs(p, n) /\ jobs'[p].payloads = jobs[p].payloads => SubmittedAs(p, n)'
  BY DEF SubmittedAs
<1>2. \A p \in 1..MaxOps : p > ops => jobs'[p] = jobs[p]
  BY DEF JobsKept, NoJob
<1>. QED BY <1>1, <1>2 DEF JobsKept

\* The same without a new message.
LEMMA JobsStaySame ==
  ASSUME DriverShape, JobsKept, history' = history, jobs' = jobs, ops' \in Nat, ops' >= ops
  PROVE  JobsKept'
<1>1. << >> \in Seq(Entries) /\ history' = history \o << >>
  BY DEF DriverShape, RestOK
<1>. QED BY <1>1, JobsStay

LEMMA NextJobIsNew ==
  ASSUME DriverShape, JobsKept, ops < MaxOps PROVE ops + 1 \in 1..MaxOps /\ jobs[ops + 1].status = "none"
<1>1. ops + 1 \in 1..MaxOps /\ ops + 1 > ops
  BY HarnessAssumption DEF DriverShape, RestOK
<1>. QED BY <1>1 DEF JobsKept, NoJob

\* The rest of the invariant looks only at these.
LEMMA HeardStays ==
  ASSUME DriverShape, InputsHeard, NEW x \in Seq(Entries), history' = history \o x, input' = input,
         \A k \in DOMAIN x : x[k].role # "user", run'.status = "completed" => run.status = "completed"
  PROVE  InputsHeard'
<1>1. history \in Seq(Entries)
  BY DEF DriverShape, RestOK
<1>2. /\ \A n \in DOMAIN history : n \in DOMAIN history' /\ history'[n] = history[n]
      /\ \A n \in DOMAIN history' : n \notin DOMAIN history => history'[n].role # "user"
  BY <1>1, Extended
<1>3. \A i \in Inputs, n \in DOMAIN history' : history'[n] = User(i) => n \in DOMAIN history /\ history[n] = User(i)
  BY <1>2 DEF User
<1>. QED BY <1>2, <1>3 DEF InputsHeard, Pending

LEMMA HeardSame ==
  ASSUME DriverShape, InputsHeard, history' = history, input' = input, run'.status = "completed" => run.status = "completed"
  PROVE  InputsHeard'
<1>. QED BY DEF InputsHeard, Pending

LEMMA StdinCallStays ==
  ASSUME DriverShape, NEW x \in Seq(Entries), history' = history \o x, StdinCalled PROVE StdinCalled'
<1>1. history \in Seq(Entries)
  BY DEF DriverShape, RestOK
<1>2. \A n \in DOMAIN history : n \in DOMAIN history' /\ history'[n] = history[n]
  BY <1>1, Extended
<1>. QED BY <1>2 DEF StdinCalled, AnswerAt

\* Out of a batch, or with the history as it is.
LEMMA OutsideTalk ==
  ASSUME history' = history, phase'.at # "tools", Paired(history), AnswersNumbered, BatchPaired
  PROVE  AnswersNumbered' /\ BatchPaired'
<1>1. LastAnswer' = LastAnswer
  BY DEF LastAnswer
<1>2. AnswersNumbered'
  BY <1>1 DEF AnswersNumbered, AnswerAt
<1>3. \A m \in DOMAIN history' : AnswerAt(m)' => \A k \in DOMAIN history'[m].calls : AnsweredIn(history', m, k)
  BY DEF Paired, AnsweredIn, AnswerAt
<1>. QED BY <1>1, <1>2, <1>3 DEF BatchPaired

LEMMA OutsideNamed ==
  ASSUME CallsNamed, effects' = effects, phase'.at # "tools", LastAnswer \in Nat, LastAnswer' \in Nat, LastAnswer' >= LastAnswer
  PROVE  CallsNamed'
<1>. QED BY DEF CallsNamed, ThisCall, OneIdentityPerCall

\* Between calls of the model and of the tools: the history stays, no batch is under way.
BetweenCalls ==
    /\ UNCHANGED <<harness, run, input, history, sess, drawn, proc, starts, strays, effects>>
    /\ {"phase", "failure"} \subseteq DOMAIN cp' /\ stops' \in Nat /\ DOMAIN jobs' = 1..MaxOps
    /\ phase'.at \in {"boundary", "model"}
    /\ ops' \in 0..MaxOps /\ ops' >= ops
    /\ phase'.at = "model" => phase'.op \in 1..ops' /\ phase'.rev \in 0..Len(history)
    /\ Live
    /\ \/ act' = NoActivation /\ act'.pc = "none"
       \/ /\ act'.pc \in {"top", "abort", "answer", "handle", "fail", "cleanup", "abort_handle"}
          /\ act'.done = {} /\ act'.cells \subseteq Nat \X Nat /\ ActFields \subseteq DOMAIN act'
          /\ act'.pc \in {"answer", "handle", "abort_handle"} => phase'.at = "model"

LEMMA BetweenInv ==
  ASSUME DriverInv, BetweenCalls, Paired(history), PlannedProcess \subseteq OwnSessions \union {e \in 0..MaxEffects : proc[e] # "alive"},
         JobsKept', Asking'
  PROVE  DriverInv'
<1>. USE DEF DriverInv
<1>1. AnswersNumbered' /\ BatchPaired'
  BY OutsideTalk DEF BetweenCalls
<1>2. LastAnswer' = LastAnswer /\ LastAnswer \in Nat
  BY LastAnswerType DEF LastAnswer, BetweenCalls, DriverShape, RestOK
<1>3. CallsNamed'
  BY <1>2, OutsideNamed DEF BetweenCalls
<1>4. JobsAndPlan'
  BY DEF JobsAndPlan, JobsKept, Asking
<1>5. InputsHeard'
  BY HeardSame DEF BetweenCalls
<1>6. RunProcesses'
  <2>1. UNCHANGED <<OwnSessions, StdinCalled>> /\ PlannedProcess' = {}
    BY DEF BetweenCalls, OwnSessions, StdinCalled, AnswerAt, PlannedProcess
  <2>. QED BY <2>1 DEF RunProcesses, BetweenCalls, Live
<1>7. DriverShape'
  <2>1. CheckpointOK'
    BY DEF BetweenCalls, CheckpointOK, phase
  <2>2. ActivationOK'
    BY DEF BetweenCalls, ActivationOK, phase, DriverPcs, ActFields, Live
  <2>3. RestOK'
    BY DEF BetweenCalls, RestOK, phase, Live, DriverShape
  <2>. QED BY <2>1, <2>2, <2>3 DEF DriverShape
<1>. QED BY <1>1, <1>3, <1>4, <1>5, <1>6, <1>7

LEMMA BeginRunInv ==
  ASSUME DriverInv, BeginRun PROVE DriverInv'
<1>. USE DEF DriverInv
<1>1. phase.at = "none" /\ history = << >> /\ PlannedProcess = {}
  BY DEF BeginRun, NoCheckpoint, phase, DriverShape, CheckpointOK, PlannedProcess
<1>2. cp'.phase = AtBoundary(0) /\ {"phase", "failure"} \subseteq DOMAIN cp' /\ history' = history
  BY SaveSame DEF BeginRun
<1>3. act'.pc = "top" /\ act'.done = {} /\ act'.cells = {} /\ ActFields \subseteq DOMAIN act'
  BY ToFresh DEF BeginRun
<1>4. BetweenCalls
  BY <1>2, <1>3 DEF BetweenCalls, BeginRun, host, phase, AtBoundary, DriverShape, RestOK
<1>5. JobsKept'
  BY <1>2, JobsStaySame, JobsAndPlanParts DEF BeginRun, DriverShape, RestOK
<1>6. Asking'
  BY <1>2 DEF Asking, phase, AtBoundary
<1>. QED BY <1>1, <1>4, <1>5, <1>6, PairedOutside, BetweenInv

\* The calls of the batch under way.
LEMMA BatchCalls ==
  ASSUME DriverInv, phase.at = "tools", NEW m \in DOMAIN history, AnswerAt(m), history[m].id = phase.id
  PROVE  Calls(phase.id) = history[m].calls /\ history[m].calls \in Seq(ToolNames)
<1>. USE DEF DriverInv
<1>. DEFINE c == CHOOSE c \in 1..Len(history) : history[c].role = "assistant" /\ history[c].id = phase.id
<1>1. DOMAIN history = 1..Len(history)
  BY DEF DriverShape, RestOK
<1>2. c \in 1..Len(history) /\ history[c].role = "assistant" /\ history[c].id = phase.id
  BY <1>1 DEF AnswerAt
<1>3. c = m
  BY <1>1, <1>2 DEF AnswersNumbered, AnswerAt
<1>4. Calls(phase.id) = history[c].calls
  BY DEF Calls
<1>. QED BY <1>3, <1>4, MessageTypes DEF AnswerAt

LEMMA ThisBatch ==
  ASSUME DriverInv, phase.at = "tools"
  PROVE  \E m \in DOMAIN history : AnswerAt(m) /\ history[m].id = phase.id /\ Calls(phase.id) = history[m].calls
                                  /\ history[m].calls \in Seq(ToolNames)
<1>1. PICK m \in DOMAIN history : AnswerAt(m) /\ history[m].id = phase.id
  BY DEF DriverInv, AnswersNumbered
<1>. QED BY <1>1, BatchCalls

\* A plan belongs to a call of the batch.
LEMMA PlanHasCall ==
  ASSUME DriverInv, phase.at = "tools", phase.plan.tool # "none" PROVE More
<1>1. PICK m \in DOMAIN history : AnswerAt(m) /\ history[m].id = phase.id /\ phase.index \in DOMAIN history[m].calls
  BY DEF DriverInv, AnswersNumbered
<1>2. Calls(phase.id) = history[m].calls /\ history[m].calls \in Seq(ToolNames)
  BY <1>1, BatchCalls
<1>3. DOMAIN history[m].calls = 1..Len(history[m].calls)
  BY <1>2
<1>. QED BY <1>1, <1>2, <1>3 DEF More

LEMMA EndBatchInv ==
  ASSUME DriverInv, EndBatch PROVE DriverInv'
<1>. USE DEF DriverInv
<1>1. act.pc = "top" /\ phase.at = "tools" /\ ~More
  BY DEF EndBatch, InBatch, Top
<1>2. cp'.phase = AtBoundary(0) /\ {"phase", "failure"} \subseteq DOMAIN cp' /\ history' = history
  BY SaveSame DEF EndBatch
<1>3. act' = act /\ act.done = {} /\ act.cells \subseteq Nat \X Nat /\ ActFields \subseteq DOMAIN act /\ Live
  BY <1>1 DEF EndBatch, DriverShape, ActivationOK, ActFields
<1>4. BetweenCalls
  BY <1>1, <1>2, <1>3 DEF BetweenCalls, EndBatch, host, phase, AtBoundary, DriverShape, RestOK
<1>5. JobsKept'
  BY <1>2, JobsStaySame, JobsAndPlanParts DEF EndBatch, DriverShape, RestOK
<1>6. Asking'
  BY <1>2 DEF Asking, phase, AtBoundary
<1>7. PlannedProcess = {}
  BY <1>1, PlanHasCall DEF PlannedProcess, DriverShape, CheckpointOK
<1>8. Paired(history)
  <2>1. PICK m \in DOMAIN history : AnswerAt(m) /\ history[m].id = phase.id /\ Calls(phase.id) = history[m].calls
                                  /\ history[m].calls \in Seq(ToolNames)
    BY <1>1, ThisBatch
  <2>2. \A k \in DOMAIN history[m].calls : ~(k >= phase.index)
    BY <1>1, <2>1 DEF More, DriverShape, CheckpointOK
  <2>3. \A n \in DOMAIN history : AnswerAt(n) =>
          \A k \in DOMAIN history[n].calls : AnsweredIn(history, n, k)
    BY <1>1, <2>1, <2>2 DEF BatchPaired, AnswersNumbered
  <2>4. history \in Seq(Entries) /\ ResultsCalled(history)
    BY DEF DriverShape, RestOK, BatchPaired
  <2>5. \A n \in DOMAIN history : history[n].role = "result" =>
          Called(SubSeq(history, 1, n - 1), history[n].id, history[n].index)
    BY <2>4, CalledInPrefix DEF ResultsCalled
  <2>. QED BY <2>3, <2>5 DEF Paired, AnswerAt, AnsweredIn
<1>. QED BY <1>4, <1>5, <1>6, <1>7, <1>8, BetweenInv

LEMMA PlansModelInv ==
  ASSUME DriverInv, Boundary, PlansModel PROVE DriverInv'
<1>. USE DEF DriverInv
<1>1. act.pc = "top" /\ phase.at = "boundary" /\ PlannedProcess = {}
  BY DEF Boundary, Top, PlannedProcess
<1>2. cp'.phase = AtModel(ops + 1, Len(history), FALSE, 0) /\ {"phase", "failure"} \subseteq DOMAIN cp' /\ history' = history
  BY SaveSame DEF PlansModel
<1>3. act' = act /\ act.done = {} /\ act.cells \subseteq Nat \X Nat /\ ActFields \subseteq DOMAIN act /\ Live
  BY <1>1 DEF PlansModel, DriverShape, ActivationOK, ActFields
<1>4. ops + 1 \in 1..MaxOps /\ jobs[ops + 1].status = "none" /\ ops' = ops + 1 /\ jobs' = jobs /\ ops \in Nat
  BY NextJobIsNew, JobsAndPlanParts DEF PlansModel, Boundary, DriverShape, RestOK
<1>5. history \in Seq(Entries) /\ Len(history) \in Nat
  BY DEF DriverShape, RestOK
<1>6. /\ phase'.at = "model" /\ phase'.op = ops + 1 /\ phase'.rev = Len(history)
  BY <1>2 DEF phase, AtModel
<1>7. BetweenCalls
  BY <1>1, <1>2, <1>3, <1>4, <1>5, <1>6, HarnessAssumption DEF BetweenCalls, Boundary, host, DriverShape, RestOK
<1>8. JobsKept'
  BY <1>2, <1>4, JobsStaySame, JobsAndPlanParts
<1>9. Paired(history) /\ SubSeq(history, 1, Len(history)) = history
  BY <1>1, <1>5, PairedOutside, WholePrefix
<1>10. Asking'
  BY <1>2, <1>4, <1>6, <1>9 DEF Asking
<1>. QED BY <1>1, <1>7, <1>8, <1>9, <1>10, BetweenInv

LEMMA RetriesInv ==
  ASSUME DriverInv, TakeAnswer, AsksAgain PROVE DriverInv'
<1>. USE DEF DriverInv
<1>1. act.pc = "answer" /\ phase.at = "model" /\ PlannedProcess = {}
  BY DEF TakeAnswer, PlannedProcess, DriverShape, ActivationOK
<1>2. cp'.phase = AtModel(ops + 1, phase.rev, FALSE, phase.attempt + 1) /\ {"phase", "failure"} \subseteq DOMAIN cp' /\ history' = history
  BY SaveSame DEF AsksAgain
<1>3. act'.pc = "top" /\ act'.done = act.done /\ act'.cells = act.cells /\ ActFields \subseteq DOMAIN act'
  BY <1>1, ToPc DEF AsksAgain, DriverShape
<1>4. act.done = {} /\ act.cells \subseteq Nat \X Nat /\ Live
  BY <1>1 DEF DriverShape, ActivationOK
<1>5. ops + 1 \in 1..MaxOps /\ jobs[ops + 1].status = "none" /\ ops' = ops + 1 /\ jobs' = jobs /\ ops \in Nat
  BY NextJobIsNew, JobsAndPlanParts DEF AsksAgain, TakeAnswer, DriverShape, RestOK
<1>6. phase'.at = "model" /\ phase'.op = ops + 1 /\ phase'.rev = phase.rev /\ phase.rev \in 0..Len(history)
  BY <1>1, <1>2 DEF phase, AtModel, DriverShape, CheckpointOK
<1>7. BetweenCalls
  BY <1>1, <1>2, <1>3, <1>4, <1>5, <1>6, HarnessAssumption DEF BetweenCalls, TakeAnswer, host, DriverShape, RestOK
<1>8. JobsKept'
  BY <1>2, <1>5, JobsStaySame, JobsAndPlanParts
<1>9. Asking'
  BY <1>1, <1>2, <1>5, <1>6 DEF Asking, JobsAndPlan
<1>. QED BY <1>1, <1>7, <1>8, <1>9, PairedOutside, BetweenInv

LEMMA SaveJobInv ==
  ASSUME DriverInv, SaveJob PROVE DriverInv'
<1>. USE DEF DriverInv
<1>1. act.pc = "handle" /\ phase.at = "model" /\ PlannedProcess = {}
  BY DEF SaveJob, PlannedProcess, DriverShape, ActivationOK
<1>2. cp'.phase = Submission /\ {"phase", "failure"} \subseteq DOMAIN cp' /\ history' = history
  BY SaveSame DEF SaveJob
<1>3. PICK v \in {"top", "answer"} : act' = [act EXCEPT !.pc = v]
  BY DEF SaveJob
<1>4. act'.pc = v /\ act'.done = act.done /\ act'.cells = act.cells /\ ActFields \subseteq DOMAIN act'
  BY <1>1, <1>3, ToPc DEF DriverShape
<1>5. act.done = {} /\ act.cells \subseteq Nat \X Nat /\ Live
  BY <1>1 DEF DriverShape, ActivationOK
<1>6. /\ phase'.at = "model" /\ phase'.op = phase.op /\ phase'.rev = phase.rev
      /\ phase.rev \in 0..Len(history) /\ phase.op \in 1..ops /\ ops' = ops /\ jobs' = jobs
  BY <1>1, <1>2 DEF phase, AtModel, Submission, DriverShape, CheckpointOK, SaveJob
<1>7. BetweenCalls
  BY <1>1, <1>2, <1>4, <1>5, <1>6 DEF BetweenCalls, SaveJob, host, DriverShape, RestOK
<1>8. JobsKept'
  BY <1>2, <1>6, JobsStaySame, JobsAndPlanParts DEF DriverShape, RestOK
<1>9. Asking'
  BY <1>1, <1>2, <1>6 DEF Asking, JobsAndPlan
<1>. QED BY <1>1, <1>7, <1>8, <1>9, PairedOutside, BetweenInv

\* The gateway's side of a submission: the same payload, whoever submits.
LEMMA SubmittedJobs ==
  ASSUME DriverInv, phase.at = "model", NEW outcome \in {"running", "refused"},
         Submitted(phase.op, phase.rev, outcome), history' = history, ops' = ops
  PROVE  JobsKept' /\ DOMAIN jobs' = 1..MaxOps /\ jobs'[phase.op].payloads = {phase.rev}
<1>. USE DEF DriverInv
<1>1. PICK o, n : o = phase.op /\ n = phase.rev
  OBVIOUS
<1>2. o \in 1..ops /\ o \in 1..MaxOps /\ n \in 0..Len(history) /\ ops \in Nat /\ ~(o > ops) /\ DOMAIN jobs = 1..MaxOps
  BY <1>1, HarnessAssumption DEF DriverShape, CheckpointOK, RestOK
<1>3. /\ \A p \in 1..MaxOps : p # o => jobs'[p] = jobs[p]
      /\ DOMAIN jobs' = 1..MaxOps
  BY <1>1, <1>2 DEF Submitted
<1>4. /\ jobs'[o].payloads = {n} /\ jobs'[o].status # "none" /\ {"status", "payloads"} \subseteq DOMAIN jobs'[o]
  <2>1. jobs'[o] = [status   |-> IF jobs[o].status \in {"none", "refused"} THEN outcome ELSE jobs[o].status,
                    payloads |-> IF jobs[o].status = "none" THEN {n} ELSE jobs[o].payloads \cup {n}]
    BY <1>1, <1>2 DEF Submitted, Request
  <2>2. jobs[o].status # "none" => jobs[o].payloads = {n}
    BY <1>1 DEF JobsAndPlan
  <2>3. jobs'[o].payloads = {n} /\ {"status", "payloads"} \subseteq DOMAIN jobs'[o]
    BY <2>1, <2>2
  <2>. QED BY <2>1, <2>3
<1>5. Paired(SubSeq(history, 1, n))
  BY <1>1 DEF JobsAndPlan
<1>6. SubmittedAs(o, n)'
  BY <1>2, <1>4, <1>5 DEF SubmittedAs
<1>7. \A p \in 1..MaxOps : p # o => \A k \in 0..Len(history) : SubmittedAs(p, k) => SubmittedAs(p, k)'
  BY <1>3 DEF SubmittedAs
<1>8. JobsKept'
  BY <1>2, <1>3, <1>4, <1>6, <1>7 DEF JobsKept, JobsAndPlan
<1>. QED BY <1>1, <1>3, <1>4, <1>8

LEMMA AskInv ==
  ASSUME DriverInv, Ask PROVE DriverInv'
<1>. USE DEF DriverInv
<1>1. /\ act'.pc \in {"answer", "handle", "fail"} /\ act'.done = {} /\ act'.cells = act.cells /\ ActFields \subseteq DOMAIN act'
      /\ act.pc = "top" /\ phase.at = "model"
  BY AskedActivation
<1>2. act.cells \subseteq Nat \X Nat /\ Live
  BY <1>1 DEF DriverShape, ActivationOK
<1>3. history' = history /\ cp' = cp /\ ops' = ops /\ phase' = phase
  BY DEF Ask, durable, phase
<1>4. JobsKept' /\ DOMAIN jobs' = 1..MaxOps /\ (jobs'[phase.op].status # "none" => jobs'[phase.op].payloads = {phase.rev})
  <2>1. CASE phase.job
    BY <1>1, <1>3, <2>1, JobsStaySame, JobsAndPlanParts DEF Ask, JobsAndPlan, DriverShape, RestOK
  <2>2. CASE ~phase.job
    BY <1>1, <1>3, <2>2, SubmittedJobs DEF Ask
  <2>. QED BY <2>1, <2>2
<1>5. BetweenCalls
  BY <1>1, <1>2, <1>3, <1>4 DEF BetweenCalls, Ask, durable, host, DriverShape, RestOK, CheckpointOK
<1>6. Asking'
  BY <1>1, <1>3, <1>4 DEF Asking, JobsAndPlan
<1>7. PlannedProcess = {}
  BY <1>1 DEF PlannedProcess
<1>. QED BY <1>1, <1>4, <1>5, <1>6, <1>7, PairedOutside, BetweenInv

LEMMA AbortJobInv ==
  ASSUME DriverInv, AbortJob PROVE DriverInv'
<1>. USE DEF DriverInv
<1>1. act.pc = "abort" /\ phase.at = "model" /\ PlannedProcess = {}
  BY DEF AbortJob, PlannedProcess
<1>2. act.done = {} /\ act.cells \subseteq Nat \X Nat /\ Live /\ ActFields \subseteq DOMAIN act
  BY <1>1 DEF DriverShape, ActivationOK, ActFields
<1>3. phase.op \in 1..ops /\ phase.rev \in 0..Len(history) /\ ops' = ops /\ DOMAIN jobs = 1..MaxOps /\ ops \in 0..MaxOps
  BY <1>1 DEF DriverShape, CheckpointOK, RestOK, AbortJob
<1>4. DriverInv'
  <2>1. act'.pc = "cleanup" /\ act'.done = act.done /\ act'.cells = act.cells /\ ActFields \subseteq DOMAIN act'
    BY <1>1, ToPc DEF AbortJob, DriverShape
  <2>2. cp' = cp /\ history' = history /\ phase' = phase
    BY DEF AbortJob, durable, phase
  <2>3. PICK o : o = phase.op /\ o \in 1..MaxOps
    BY <1>3, HarnessAssumption
  <2>4. \A p \in 1..MaxOps : p # o => jobs'[p] = jobs[p]
    BY <1>3, <2>3 DEF AbortJob
  <2>5. DOMAIN jobs' = 1..MaxOps
    BY <1>3, <2>3 DEF AbortJob
  <2>6. jobs'[o] = [jobs[o] EXCEPT !.status = IF jobs[o].status = "running" THEN "aborted" ELSE jobs[o].status]
    BY <1>3, <2>3 DEF AbortJob, AbortedJob
  <2>7. /\ jobs[o].status = "none" => jobs'[o] = NoJob
        /\ jobs[o].status # "none" => /\ {"status", "payloads"} \subseteq DOMAIN jobs'[o]
                                      /\ jobs'[o].status # "none" /\ jobs'[o].payloads = jobs[o].payloads
    <3>1. CASE jobs[o].status = "none"
      <4>1. jobs[o] = NoJob
        BY <2>3, <3>1 DEF JobsAndPlan
      <4>. QED BY <2>6, <3>1, <4>1 DEF NoJob
    <3>2. CASE jobs[o].status # "none"
      <4>1. {"status", "payloads"} \subseteq DOMAIN jobs[o]
        BY <2>3, <3>2 DEF JobsAndPlan
      <4>. QED BY <2>6, <3>2, <4>1
    <3>. QED BY <3>1, <3>2
  <2>8. \A p \in 1..MaxOps : jobs'[p] = jobs[p] \/ (jobs[p].status # "none" /\ jobs'[p].payloads = jobs[p].payloads
                              /\ jobs'[p].status # "none" /\ {"status", "payloads"} \subseteq DOMAIN jobs'[p])
    BY <2>3, <2>4, <2>7 DEF JobsAndPlan
  <2>9. JobsKept'
    BY <2>2, <2>8, <1>3, JobsChange, JobsAndPlanParts
  <2>10. Asking'
    BY <1>1, <2>2, <2>3, <2>7 DEF Asking, JobsAndPlan, NoJob
  <2>11. BetweenCalls
    BY <1>1, <1>2, <1>3, <2>1, <2>2, <2>5 DEF BetweenCalls, AbortJob, durable, host, DriverShape, RestOK, CheckpointOK
  <2>. QED BY <1>1, <2>9, <2>10, <2>11, PairedOutside, BetweenInv
<1>. QED BY <1>4

LEMMA SubmitForAbortInv ==
  ASSUME DriverInv, SubmitForAbort PROVE DriverInv'
<1>. USE DEF DriverInv
<1>1. act.pc = "abort" /\ phase.at = "model" /\ PlannedProcess = {}
  BY DEF SubmitForAbort, PlannedProcess
<1>2. act.done = {} /\ act.cells \subseteq Nat \X Nat /\ Live /\ ActFields \subseteq DOMAIN act
  BY <1>1 DEF DriverShape, ActivationOK, ActFields
<1>3. history' = history /\ cp' = cp /\ ops' = ops /\ phase' = phase
  BY DEF SubmitForAbort, durable, phase
<1>4. \/ act' = NoActivation /\ act'.pc = "none"
      \/ act'.pc = "abort_handle" /\ act'.done = act.done /\ act'.cells = act.cells /\ ActFields \subseteq DOMAIN act'
  <2>1. CASE act' = NoActivation
    BY <2>1, ToNone
  <2>2. CASE act' = [act EXCEPT !.pc = "abort_handle"]
    BY <1>1, <2>2, ToPc DEF DriverShape
  <2>. QED BY <2>1, <2>2 DEF SubmitForAbort
<1>5. JobsKept' /\ DOMAIN jobs' = 1..MaxOps /\ jobs'[phase.op].payloads = {phase.rev}
  BY <1>1, <1>3, SubmittedJobs DEF SubmitForAbort
<1>6. BetweenCalls
  BY <1>1, <1>2, <1>3, <1>4, <1>5 DEF BetweenCalls, SubmitForAbort, durable, host, DriverShape, RestOK, CheckpointOK
<1>7. Asking'
  BY <1>1, <1>3, <1>5 DEF Asking, JobsAndPlan
<1>. QED BY <1>1, <1>5, <1>6, <1>7, PairedOutside, BetweenInv

LEMMA SaveAbortJobInv ==
  ASSUME DriverInv, SaveAbortJob PROVE DriverInv'
<1>. USE DEF DriverInv
<1>1. act.pc = "abort_handle" /\ phase.at = "model" /\ PlannedProcess = {}
  BY DEF SaveAbortJob, PlannedProcess, DriverShape, ActivationOK
<1>2. cp'.phase = Submission /\ {"phase", "failure"} \subseteq DOMAIN cp' /\ history' = history
  BY SaveSame DEF SaveAbortJob
<1>3. act'.pc = "abort" /\ act'.done = act.done /\ act'.cells = act.cells /\ ActFields \subseteq DOMAIN act'
  BY <1>1, ToPc DEF SaveAbortJob, DriverShape
<1>4. act.done = {} /\ act.cells \subseteq Nat \X Nat /\ Live
  BY <1>1 DEF DriverShape, ActivationOK
<1>5. /\ phase'.at = "model" /\ phase'.op = phase.op /\ phase'.rev = phase.rev
      /\ phase.rev \in 0..Len(history) /\ phase.op \in 1..ops /\ ops' = ops /\ jobs' = jobs
  BY <1>1, <1>2 DEF phase, AtModel, Submission, DriverShape, CheckpointOK, SaveAbortJob
<1>6. BetweenCalls
  BY <1>1, <1>2, <1>3, <1>4, <1>5 DEF BetweenCalls, SaveAbortJob, host, DriverShape, RestOK
<1>7. JobsKept'
  BY <1>2, <1>5, JobsStaySame, JobsAndPlanParts DEF DriverShape, RestOK
<1>8. Asking'
  BY <1>1, <1>2, <1>5 DEF Asking, JobsAndPlan
<1>. QED BY <1>1, <1>6, <1>7, <1>8, PairedOutside, BetweenInv

-----------------------------------------------------------------------------
(* A batch of tools. *)

LEMMA JobEndsInv ==
  ASSUME DriverInv, NEW o \in 1..MaxOps, JobEnds(o) PROVE DriverInv'
<1>. USE DEF DriverInv
<1>0. UNCHANGED <<harness, run, input, history, cp, sess, act, ops, drawn, proc, starts, strays, effects, stops>>
  BY DEF JobEnds, durable, host
<1>1. history' = history /\ phase' = phase
  BY <1>0 DEF phase
<1>2. PICK s \in {"succeeded", "failed", "retryable"} : jobs' = [jobs EXCEPT ![o] = [@ EXCEPT !.status = s]]
  BY DEF JobEnds
<1>3. jobs[o].status = "running" /\ {"status", "payloads"} \subseteq DOMAIN jobs[o] /\ DOMAIN jobs = 1..MaxOps
  BY DEF JobEnds, JobsAndPlan, DriverShape, RestOK
<1>4. jobs'[o] = [jobs[o] EXCEPT !.status = s]
  BY <1>2, <1>3
<1>5. jobs'[o].status # "none" /\ jobs'[o].payloads = jobs[o].payloads /\ {"status", "payloads"} \subseteq DOMAIN jobs'[o]
  BY <1>3, <1>4
<1>6. \A p \in 1..MaxOps : p # o => jobs'[p] = jobs[p]
  BY <1>2, <1>3
<1>7. DOMAIN jobs' = 1..MaxOps
  BY <1>2, <1>3
<1>8. JobsKept'
  <2>1. \A p \in 1..MaxOps : jobs'[p] = jobs[p] \/ (jobs[p].status # "none" /\ jobs'[p].payloads = jobs[p].payloads
                              /\ jobs'[p].status # "none" /\ {"status", "payloads"} \subseteq DOMAIN jobs'[p])
    BY <1>3, <1>5, <1>6
  <2>. QED BY <1>0, <2>1, JobsChange, JobsAndPlanParts
<1>9. Asking'
  <2>1. CASE phase.at = "model"
    <3>1. PICK q : q = phase.op /\ q \in 1..MaxOps
      BY <2>1, HarnessAssumption DEF DriverShape, CheckpointOK, RestOK
    <3>2. jobs'[q].status # "none" => jobs[q].status # "none" /\ jobs'[q].payloads = jobs[q].payloads
      BY <1>3, <1>5, <1>6, <3>1
    <3>. QED BY <1>1, <2>1, <3>1, <3>2 DEF Asking, JobsAndPlan
  <2>2. CASE phase.at # "model"
    BY <1>1, <2>2 DEF Asking
  <2>. QED BY <2>1, <2>2
<1>10. JobsAndPlan'
  BY <1>8, <1>9 DEF JobsAndPlan, JobsKept, Asking
<1>11. AnswersNumbered' /\ BatchPaired'
  BY <1>1, SameTalk
<1>12. DriverShape'
  BY <1>0, <1>1, <1>7 DEF DriverShape, CheckpointOK, ActivationOK, RestOK, Live, Pending
<1>13. CallsNamed'
  BY <1>0, <1>1 DEF CallsNamed, ThisCall, LastAnswer, OneIdentityPerCall
<1>14. RunProcesses'
  BY <1>0, <1>1 DEF RunProcesses, Live, PlannedProcess, OwnSessions, StdinCalled, AnswerAt
<1>15. InputsHeard'
  BY <1>0 DEF InputsHeard, Pending
<1>. QED BY <1>10, <1>11, <1>12, <1>13, <1>14, <1>15

\* What a commit in a batch leaves alone.
InTheBatch ==
    /\ UNCHANGED <<harness, run, input, ops, jobs, proc, effects, stops>>
    /\ starts' \subseteq starts /\ strays \subseteq strays'
    /\ phase.at = "tools" /\ Live
    /\ drawn' \in 0..MaxEffects /\ drawn' >= drawn
    /\ sess' \subseteq 0..drawn
    /\ act.pc # "none" /\ act'.done = {} /\ act'.cells \subseteq Nat \X Nat /\ ActFields \subseteq DOMAIN act'

\* The result of the call under way is saved.
LEMMA ResultInv ==
  ASSUME DriverInv, InTheBatch, NEW s, SaveResult(s), act'.pc = "top", drawn' = drawn, More,
         harness \notin KeepsSessions => s = {},
         \A e \in 1..MaxEffects : proc[e] = "alive" /\ e \notin strays' /\ e \in PlannedProcess \union OwnSessions =>
             harness \in KeepsSessions /\ e \in s
  PROVE  DriverInv'
<1>. USE DEF DriverInv
<1>0. phase.at = "tools" /\ phase.id \in Nat /\ phase.index \in Nat \ {0} /\ history \in Seq(Entries)
  BY DEF InTheBatch, DriverShape, CheckpointOK, RestOK
<1>. DEFINE r == ToolResult(phase.id, phase.index)
            x == <<r>>
<1>1. PICK d, i : d = phase.id /\ i = phase.index
  OBVIOUS
<1>2. r \in Entries /\ x \in Seq(Entries) /\ r = ToolResult(d, i)
  BY <1>0, <1>1 DEF ToolResult, Entries
<1>3. /\ cp'.phase = AtTools(d, i + 1, NoPlan) /\ {"phase", "failure"} \subseteq DOMAIN cp'
      /\ history' = history \o x /\ sess' = s
  BY <1>1, <1>2, SaveFacts DEF SaveResult
<1>4. phase'.at = "tools" /\ phase'.id = d /\ phase'.index = i + 1 /\ phase'.plan = NoPlan /\ NoPlan.tool = "none"
  BY <1>3 DEF phase, AtTools, NoPlan
<1>5. /\ r.role = "result" /\ r.id = d /\ r.index = i /\ ~r.note
      /\ DOMAIN x = {1} /\ x[1] = r
  BY <1>1 DEF ToolResult
<1>. HIDE DEF r, x
<1>6. LastAnswer' = LastAnswer /\ LastAnswer \in Nat
  BY <1>0, <1>2, <1>3, <1>5, SameAnswers, LastAnswerType
<1>7. /\ history' \in Seq(Entries) /\ Len(history') = Len(history) + 1
      /\ DOMAIN history = 1..Len(history) /\ DOMAIN history' = 1..Len(history')
      /\ \A n \in DOMAIN history : n \in DOMAIN history' /\ history'[n] = history[n]
      /\ \A n \in DOMAIN history' : n \notin DOMAIN history => n = Len(history) + 1 /\ history'[n] = r
      /\ Len(history) \in Nat
  <2>1. Len(x) = 1
    BY <1>2, <1>5
  <2>2. /\ history' \in Seq(Entries) /\ Len(history') = Len(history) + Len(x)
        /\ DOMAIN history = 1..Len(history) /\ DOMAIN history' = 1..Len(history')
        /\ \A n \in DOMAIN history : n \in DOMAIN history' /\ history'[n] = history[n]
        /\ \A n \in DOMAIN history' : n \notin DOMAIN history =>
               n - Len(history) \in DOMAIN x /\ history'[n] = x[n - Len(history)]
    BY <1>0, <1>2, <1>3, Extended
  <2>3. Len(history) \in Nat
    BY <1>0
  <2>4. \A n \in DOMAIN history' : n \notin DOMAIN history => n = Len(history) + 1 /\ history'[n] = r
    <3>1. ASSUME NEW n \in DOMAIN history', n \notin DOMAIN history PROVE n = Len(history) + 1 /\ history'[n] = r
      <4>1. n - Len(history) = 1 /\ n \in Nat
        BY <1>5, <2>2, <2>3, <3>1
      <4>2. history'[n] = x[1]
        BY <2>2, <3>1, <4>1
      <4>. QED BY <1>5, <2>3, <4>1, <4>2
    <3>. QED BY <3>1
  <2>. QED BY <2>1, <2>2, <2>3, <2>4
<1>8. \A n \in DOMAIN history' : AnswerAt(n)' <=> AnswerAt(n)
  BY <1>5, <1>7 DEF AnswerAt
<1>9. AnswersNumbered'
  <2>1. \A n : AnswerAt(n)' => AnswerAt(n) /\ history'[n] = history[n]
    BY <1>7, <1>8 DEF AnswerAt
  <2>2. \A n \in DOMAIN history : AnswerAt(n) => AnswerAt(n)' /\ n \in DOMAIN history' /\ history'[n] = history[n]
    BY <1>7, <1>8
  <2>3. /\ \A m \in DOMAIN history' : AnswerAt(m)' => history'[m].id \in 1..LastAnswer
        /\ \A m, n \in DOMAIN history' : AnswerAt(m)' /\ AnswerAt(n)' /\ history'[m].id = history'[n].id => m = n
    BY <2>1 DEF AnswersNumbered, AnswerAt
  <2>4. \E m \in DOMAIN history' : AnswerAt(m)' /\ history'[m].id = d
    BY <1>0, <1>1, <2>2 DEF AnswersNumbered
  <2>5. d = LastAnswer
    BY <1>0, <1>1 DEF AnswersNumbered
  <2>. QED BY <1>4, <1>6, <2>3, <2>4, <2>5 DEF AnswersNumbered
<1>10. CallsNamed'
  <2>1. \A y \in effects : y[1] = d => y[2] <= i /\ y[2] \in Nat
    BY <1>0, <1>1 DEF CallsNamed
  <2>2. effects' = effects
    BY DEF InTheBatch
  <2>3. \A y \in effects : ~ThisCall(y)'
    BY <1>0, <1>1, <1>4, <2>1 DEF ThisCall
  <2>4. \A y \in effects : y[1] = d => y[2] <= i + 1
    BY <1>0, <1>1, <2>1
  <2>. QED BY <1>4, <1>6, <2>2, <2>3, <2>4 DEF CallsNamed, OneIdentityPerCall
<1>11. JobsAndPlan'
  <2>1. JobsKept'
    <3>1. JobsKept /\ jobs' = jobs /\ ops' \in Nat /\ ops' >= ops
      BY JobsAndPlanParts DEF InTheBatch, DriverShape, RestOK
    <3>. QED BY <1>2, <1>3, <3>1, JobsStay
  <2>. QED BY <1>4, <2>1 DEF JobsAndPlan, JobsKept
<1>12. InputsHeard'
  BY <1>2, <1>3, <1>5, HeardStays DEF InTheBatch
<1>13. RunProcesses'
  <2>1. StdinCalled => StdinCalled'
    BY <1>2, <1>3, StdinCallStays
  <2>2. PlannedProcess' = {}
    BY <1>4 DEF PlannedProcess
  <2>3. harness \in KeepsSessions => OwnSessions' = s
    BY <1>3 DEF OwnSessions, InTheBatch
  <2>. QED BY <1>3, <1>4, <2>1, <2>2, <2>3 DEF RunProcesses, InTheBatch, Live
<1>14. DriverShape'
  <2>1. CheckpointOK'
    BY <1>0, <1>1, <1>3, <1>4 DEF CheckpointOK, phase
  <2>2. ActivationOK'
    BY <1>4 DEF InTheBatch, ActivationOK, DriverPcs, ActFields, Live
  <2>3. RestOK'
    BY <1>4, <1>7 DEF InTheBatch, RestOK, Live, DriverShape
  <2>. QED BY <2>1, <2>2, <2>3 DEF DriverShape
<1>15. BatchPaired'
  <2>1. \A n \in DOMAIN history : history[n] # r
    BY <1>0, <1>1, <1>5 DEF BatchPaired
  <2>2. ASSUME NEW m \in DOMAIN history', AnswerAt(m)', NEW k \in DOMAIN history'[m].calls
        PROVE  AnsweredIn(history', m, k) \/ (history'[m].id = d /\ k >= i + 1)
    <3>1. m \in DOMAIN history /\ AnswerAt(m) /\ history'[m] = history[m] /\ k \in DOMAIN history[m].calls
      BY <1>7, <1>8, <2>2 DEF AnswerAt
    <3>2. k \in Nat
      BY <3>1, MessageTypes DEF AnswerAt
    <3>3. CASE AnsweredIn(history, m, k)
      <4>1. PICK n \in DOMAIN history : history[n] = ToolResult(history[m].id, k)
        BY <3>3 DEF AnsweredIn
      <4>2. \A j \in DOMAIN x : x[j] # ToolResult(history[m].id, k)
        BY <1>5, <2>1, <4>1
      <4>. QED BY <1>0, <1>2, <1>3, <3>1, <3>3, <4>2, StillAnswered
    <3>4. CASE ~AnsweredIn(history, m, k)
      <4>1. history[m].id = d /\ k >= i
        BY <1>1, <3>1, <3>4 DEF BatchPaired
      <4>2. CASE k = i
        <5>. DEFINE n == Len(history) + 1
        <5>1. n \in DOMAIN history' /\ n > m /\ history'[n] = ToolResult(history'[m].id, k)
          BY <1>2, <1>7, <3>1, <4>1, <4>2
        <5>2. \A j \in (m + 1)..(n - 1) : history'[j].role \notin Unusable
          <6>1. \A j \in (m + 1)..Len(history) : history[j].role \notin Unusable
            BY <1>0, <1>1, <3>1, <4>1 DEF BatchPaired
          <6>. QED BY <1>7, <3>1, <6>1
        <5>3. \A j \in DOMAIN history' : history'[j] = history'[n] => j = n
          BY <1>7, <2>1
        <5>. QED BY <5>1, <5>2, <5>3 DEF AnsweredIn
      <4>3. CASE k # i
        BY <1>0, <1>1, <3>1, <3>2, <4>1, <4>3
      <4>. QED BY <4>2, <4>3
    <3>. QED BY <3>3, <3>4
  <2>3. ASSUME NEW n \in DOMAIN history', history'[n].role = "result", ~history'[n].note
        PROVE  history'[n].id \in 1..LastAnswer /\ (history'[n].id = d => history'[n].index < i + 1)
    <3>1. d = LastAnswer /\ d \in 1..LastAnswer
      BY <1>0, <1>1, <1>6 DEF AnswersNumbered
    <3>2. CASE n \in DOMAIN history
      <4>1. history'[n] = history[n] /\ history[n] \in Entries
        BY <1>0, <1>7, <3>2
      <4>2. history[n].index \in Nat
        BY <2>3, <4>1 DEF Entries
      <4>. QED BY <1>0, <1>1, <2>3, <3>2, <4>1, <4>2 DEF BatchPaired
    <3>3. CASE n \notin DOMAIN history
      BY <1>0, <1>1, <1>5, <1>7, <3>1, <3>3
    <3>. QED BY <3>2, <3>3
  <2>4. ASSUME NEW m \in DOMAIN history', AnswerAt(m)', history'[m].id = d, NEW j \in (m + 1)..Len(history')
        PROVE  history'[j].role \notin Unusable
    <3>1. m \in DOMAIN history /\ AnswerAt(m) /\ history'[m] = history[m]
      BY <1>7, <1>8, <2>4 DEF AnswerAt
    <3>2. CASE j \in DOMAIN history
      BY <1>0, <1>1, <1>7, <2>4, <3>1, <3>2 DEF BatchPaired
    <3>3. CASE j \notin DOMAIN history
      BY <1>5, <1>7, <3>1, <3>3 DEF Unusable
    <3>. QED BY <3>2, <3>3
  <2>5. ResultsCalled(history')
    <3>1. Called(history, d, i)
      <4>1. PICK m \in DOMAIN history : AnswerAt(m) /\ history[m].id = phase.id /\ Calls(phase.id) = history[m].calls
                                  /\ history[m].calls \in Seq(ToolNames)
        BY <1>0, ThisBatch
      <4>2. i \in DOMAIN history[m].calls
        BY <1>0, <1>1, <4>1 DEF More
      <4>. QED BY <1>1, <4>1, <4>2 DEF Called, AnswerAt
    <3>2. ResultsCalled(history)
      BY DEF BatchPaired
    <3>3. \A k \in DOMAIN x : x[k].role = "result" => Called(history, x[k].id, x[k].index)
      BY <1>5, <3>1
    <3>. QED BY <1>0, <1>2, <1>3, <3>2, <3>3, CalledStays
  <2>. QED BY <1>4, <1>6, <2>2, <2>3, <2>4, <2>5 DEF BatchPaired
<1>. QED BY <1>9, <1>10, <1>11, <1>12, <1>13, <1>14, <1>15

\* What an action in a batch starts from.
LEMMA BatchFacts ==
  ASSUME DriverInv, act.pc \in {"top", "starting", "writing", "applied"}, phase.at = "tools"
  PROVE  /\ Live /\ act.done = {} /\ act.cells \subseteq Nat \X Nat /\ ActFields \subseteq DOMAIN act
         /\ drawn \in 0..MaxEffects /\ drawn \in Nat /\ sess \subseteq 0..drawn
<1>. QED BY HarnessAssumption DEF DriverInv, DriverShape, ActivationOK, RestOK, ActFields

LEMMA PrepareRefusedInv ==
  ASSUME DriverInv, Prepare, SaveResult(sess), drawn' = drawn PROVE DriverInv'
<1>1. act.pc = "top" /\ phase.at = "tools" /\ More /\ phase.plan = NoPlan /\ act' = act /\ sess' = sess
  BY DEF Prepare, InBatch, Top, SaveResult
<1>2. InTheBatch
  BY <1>1, BatchFacts DEF InTheBatch, Prepare
<1>3. PlannedProcess = {} /\ (harness \notin KeepsSessions => sess = {})
  BY <1>1 DEF PlannedProcess, DriverInv, RunProcesses
<1>. QED BY <1>1, <1>2, <1>3, ResultInv DEF OwnSessions

LEMMA StartRefusedInv ==
  ASSUME DriverInv, SaveStarted, phase.plan.eid \in starts, proc[phase.plan.eid] = "none",
         starts' = starts \ {phase.plan.eid}, SaveResult(sess)
  PROVE  DriverInv'
<1>1. act.pc = "starting" /\ phase.at = "tools" /\ phase.plan.tool # "none" /\ sess' = sess
  BY DEF SaveStarted, SaveResult, DriverInv, DriverShape, ActivationOK
<1>2. act'.pc = "top" /\ act'.done = act.done /\ act'.cells = act.cells /\ ActFields \subseteq DOMAIN act'
  BY <1>1, ToPc DEF SaveStarted, DriverInv, DriverShape
<1>3. InTheBatch
  BY <1>1, <1>2, BatchFacts DEF InTheBatch, SaveStarted
<1>4. \A e \in PlannedProcess : e = phase.plan.eid /\ proc[e] # "alive"
  BY DEF PlannedProcess
<1>5. harness \notin KeepsSessions => sess = {}
  BY DEF DriverInv, RunProcesses
<1>. QED BY <1>1, <1>2, <1>3, <1>4, <1>5, PlanHasCall, ResultInv DEF OwnSessions, SaveStarted

\* A step of a command or of an input ends its call; what it leaves without a session is a stray.
LEMMA StepEndsCall ==
  ASSUME DriverInv, InTheBatch, phase.plan.tool # "none", NEW s, SaveResult(s), act'.pc = "top", drawn' = drawn,
         \/ s = sess \ {phase.plan.eid} /\ proc[phase.plan.eid] # "alive"
         \/ s = sess \union {phase.plan.eid} /\ harness \in KeepsSessions
         \/ /\ s = sess
            /\ proc[phase.plan.eid] = "alive" /\ phase.plan.eid \notin sess => phase.plan.eid \in strays',
         phase.plan.eid \in sess => harness \in KeepsSessions
  PROVE  DriverInv'
<1>1. PICK e : e = phase.plan.eid
  OBVIOUS
<1>2. \A d \in PlannedProcess : d = e
  BY <1>1 DEF PlannedProcess
<1>3. \A d \in 1..MaxEffects : proc[d] = "alive" /\ d \notin strays' /\ d \in PlannedProcess \union OwnSessions =>
             harness \in KeepsSessions /\ d \in s
  BY <1>1, <1>2 DEF OwnSessions
<1>4. More
  BY PlanHasCall DEF InTheBatch
<1>5. harness \notin KeepsSessions => s = {}
  BY DEF DriverInv, RunProcesses
<1>. QED BY <1>3, <1>4, <1>5, ResultInv

LEMMA PollInv ==
  ASSUME DriverInv, Poll PROVE DriverInv'
<1>1. act.pc = "top" /\ phase.at = "tools" /\ phase.plan # NoPlan /\ act' = act
  BY DEF Poll, InBatch, Top
<1>2. PICK e : e = phase.plan.eid
  OBVIOUS
<1>3. e \in 0..drawn /\ phase.plan.tool # "none" /\ (e \in sess => harness \in KeepsSessions)
  BY <1>1, <1>2 DEF DriverInv, DriverShape, CheckpointOK, RunProcesses
<1>4. PICK s : /\ SaveResult(s) /\ s \in {sess \ {e}, sess \union {e}, sess}
               /\ \/ s = sess \ {e} /\ proc[e] # "alive" /\ strays' = strays
                  \/ s = sess \union {e} /\ harness \in KeepsSessions /\ strays' = strays
                  \/ s = sess /\ strays' = IF proc[e] = "alive" /\ e \notin sess THEN strays \cup {e} ELSE strays
  BY <1>2 DEF Poll
<1>5. InTheBatch /\ drawn' = drawn
  BY <1>1, <1>3, <1>4, BatchFacts DEF InTheBatch, Poll, SaveResult
<1>. QED BY <1>1, <1>2, <1>3, <1>4, <1>5, StepEndsCall

LEMMA SaveAppliedInv ==
  ASSUME DriverInv, SaveApplied PROVE DriverInv'
<1>1. /\ act.pc = "applied" /\ phase.at = "tools" /\ phase.plan.tool \in {"mutation", "query", "script"}
      /\ SaveResult(sess) /\ sess' = sess
  BY DEF SaveApplied, SaveResult, DriverInv, DriverShape, ActivationOK
<1>2. act'.pc = "top" /\ act'.done = act.done /\ act'.cells = act.cells /\ ActFields \subseteq DOMAIN act'
  BY <1>1, ToPc DEF SaveApplied, DriverInv, DriverShape
<1>3. InTheBatch /\ drawn' = drawn
  BY <1>1, <1>2, BatchFacts DEF InTheBatch, SaveApplied, host
<1>4. PlannedProcess = {} /\ More /\ (harness \notin KeepsSessions => sess = {})
  BY <1>1, PlanHasCall DEF PlannedProcess, DriverInv, RunProcesses
<1>. QED BY <1>1, <1>2, <1>3, <1>4, ResultInv DEF OwnSessions

LEMMA ScriptLostInv ==
  ASSUME DriverInv, ScriptLost PROVE DriverInv'
<1>1. /\ act.pc = "top" /\ phase.at = "tools" /\ phase.plan.tool = "script"
      /\ SaveResult(sess) /\ sess' = sess /\ act' = act
  BY DEF ScriptLost, ScriptAt, InBatch, Top, SaveResult
<1>2. InTheBatch /\ drawn' = drawn
  BY <1>1, BatchFacts DEF InTheBatch, ScriptLost, host
<1>3. PlannedProcess = {} /\ More /\ (harness \notin KeepsSessions => sess = {})
  BY <1>1, PlanHasCall DEF PlannedProcess, DriverInv, RunProcesses
<1>. QED BY <1>1, <1>2, <1>3, ResultInv DEF OwnSessions

\* The plan of the call under way is saved.
LEMMA PlanInv ==
  ASSUME DriverInv, InTheBatch, sess' = sess, More,
         NEW t \in ToolNames, NEW e \in 0..drawn', NEW k, NEW g,
         Save(AtTools(phase.id, phase.index, Planned(t, e, k, g)), << >>),
         act'.pc \in {"top", "script"}, act'.pc = "script" => t = "script" /\ g = "admitted",
         e = 0 => t = "stdin", t = "stdin" => StdinCalled,
         t = "stdin" /\ proc[e] = "alive" => e \in sess \union strays,
         PlannedProcess \subseteq (IF t \in {"process", "stdin"} THEN {e} ELSE {}),
         \A x \in effects : ThisCall(x) => /\ t # "script" => x[3] = k
                                           /\ t = "script" => g = "admitted" /\ act'.pc # "script"
  PROVE  DriverInv'
<1>. USE DEF DriverInv
<1>0. phase.at = "tools" /\ phase.id \in Nat /\ phase.index \in Nat \ {0} /\ history \in Seq(Entries)
  BY DEF InTheBatch, DriverShape, CheckpointOK, RestOK
<1>1. PICK d, i : d = phase.id /\ i = phase.index
  OBVIOUS
<1>2. /\ cp'.phase = AtTools(d, i, Planned(t, e, k, g)) /\ {"phase", "failure"} \subseteq DOMAIN cp'
      /\ history' = history
  BY <1>1, SaveSame
<1>3. /\ phase'.at = "tools" /\ phase'.id = d /\ phase'.index = i /\ phase'.plan = Planned(t, e, k, g)
      /\ phase'.plan.tool = t /\ phase'.plan.eid = e /\ phase'.plan.key = k /\ phase'.plan.stage = g
  BY <1>2 DEF phase, AtTools, Planned
<1>4. t # "none" /\ phase'.plan # NoPlan
  BY <1>3 DEF ToolNames, NoPlan
<1>5. LastAnswer' = LastAnswer
  BY <1>2 DEF LastAnswer
<1>6. PICK m \in DOMAIN history : AnswerAt(m) /\ history[m].id = d /\ i \in DOMAIN history[m].calls
  <2>1. PICK m \in DOMAIN history : AnswerAt(m) /\ history[m].id = phase.id /\ Calls(phase.id) = history[m].calls
                                  /\ history[m].calls \in Seq(ToolNames)
    BY <1>0, ThisBatch
  <2>. QED BY <1>0, <1>1, <2>1 DEF More
<1>7. AnswersNumbered'
  <2>1. \A n : AnswerAt(n)' <=> AnswerAt(n)
    BY <1>2 DEF AnswerAt
  <2>. QED BY <1>0, <1>1, <1>2, <1>3, <1>5, <1>6, <2>1 DEF AnswersNumbered
<1>8. CallsNamed'
  <2>1. effects' = effects /\ \A x \in effects : ThisCall(x)' <=> ThisCall(x)
    BY <1>0, <1>1, <1>3 DEF ThisCall, InTheBatch
  <2>. QED BY <1>0, <1>1, <1>3, <1>4, <1>5, <2>1 DEF CallsNamed, OneIdentityPerCall
<1>9. BatchPaired'
  <2>1. \A n : AnswerAt(n)' <=> AnswerAt(n)
    BY <1>2 DEF AnswerAt
  <2>. QED BY <1>0, <1>1, <1>2, <1>3, <1>5, <2>1 DEF BatchPaired
<1>10. JobsAndPlan'
  <2>1. JobsKept'
    BY <1>2, JobsStaySame, JobsAndPlanParts DEF InTheBatch, DriverShape, RestOK
  <2>. QED BY <1>3, <2>1 DEF JobsAndPlan, JobsKept
<1>11. InputsHeard'
  BY <1>2, HeardSame DEF InTheBatch
<1>12. RunProcesses'
  <2>1. PlannedProcess' = (IF t \in {"process", "stdin"} THEN {e} ELSE {})
    BY <1>3, <1>4 DEF PlannedProcess
  <2>2. UNCHANGED <<OwnSessions, StdinCalled>>
    BY <1>2 DEF OwnSessions, StdinCalled, AnswerAt, InTheBatch
  <2>. QED BY <1>3, <2>1, <2>2 DEF RunProcesses, InTheBatch, Live
<1>13. DriverShape'
  <2>1. CheckpointOK'
    BY <1>0, <1>1, <1>2, <1>3, <1>4 DEF CheckpointOK, phase
  <2>2. ActivationOK'
    BY <1>3 DEF InTheBatch, ActivationOK, DriverPcs, ActFields, Live
  <2>3. RestOK'
    BY <1>2, <1>3 DEF InTheBatch, RestOK, Live, DriverShape
  <2>. QED BY <2>1, <2>2, <2>3 DEF DriverShape
<1>. QED BY <1>7, <1>8, <1>9, <1>10, <1>11, <1>12, <1>13

\* The call under way is a call of the batch.
LEMMA CallFacts ==
  ASSUME DriverInv, phase.at = "tools", More
  PROVE  Call \in ToolNames /\ (Call = "stdin" => StdinCalled)
<1>1. PICK m \in DOMAIN history : AnswerAt(m) /\ history[m].id = phase.id /\ Calls(phase.id) = history[m].calls
                                  /\ history[m].calls \in Seq(ToolNames)
  BY ThisBatch
<1>2. phase.index \in DOMAIN history[m].calls
  BY <1>1 DEF More, DriverInv, DriverShape, CheckpointOK
<1>. QED BY <1>1, <1>2 DEF Call, StdinCalled

LEMMA PrepareInv ==
  ASSUME DriverInv, Prepare PROVE DriverInv'
<1>1. act.pc = "top" /\ phase.at = "tools" /\ More /\ phase.plan = NoPlan /\ act' = act
  BY DEF Prepare, InBatch, Top
<1>2. PlannedProcess = {} /\ \A x \in effects : ~ThisCall(x)
  BY <1>1 DEF PlannedProcess, DriverInv, CallsNamed, NoPlan, ThisCall
<1>3. Call \in ToolNames /\ (Call = "stdin" => StdinCalled)
  BY <1>1, CallFacts
<1>4. /\ Live /\ act.done = {} /\ act.cells \subseteq Nat \X Nat /\ ActFields \subseteq DOMAIN act
      /\ drawn \in 0..MaxEffects /\ drawn \in Nat /\ sess \subseteq 0..drawn
  BY <1>1, BatchFacts
<1>5. CASE /\ drawn < MaxEffects /\ drawn' = drawn + 1 /\ UNCHANGED sess
           /\ \E e \in IF Call = "stdin" THEN sess ELSE {drawn + 1} :
                 Save(AtTools(phase.id, phase.index, Planned(Call, e, drawn + 1, "prepared")), << >>)
  <2>1. drawn' \in 0..MaxEffects /\ drawn' >= drawn /\ sess \subseteq 0..drawn' /\ drawn + 1 \in 0..drawn'
    BY <1>4, <1>5, HarnessAssumption
  <2>2. InTheBatch
    BY <1>1, <1>4, <1>5, <2>1 DEF InTheBatch, Prepare
  <2>3. PICK e \in IF Call = "stdin" THEN sess ELSE {drawn + 1} :
                 Save(AtTools(phase.id, phase.index, Planned(Call, e, drawn + 1, "prepared")), << >>)
    BY <1>5
  <2>4. PICK t \in ToolNames : t = Call
    BY <1>3
  <2>5. e \in 0..drawn' /\ (e = 0 => t = "stdin")
    BY <1>4, <2>1, <2>3, <2>4
  <2>6. PICK k : k = drawn + 1
    OBVIOUS
  <2>7. Save(AtTools(phase.id, phase.index, Planned(t, e, k, "prepared")), << >>)
    BY <2>3, <2>4, <2>6
  <2>8. t = "stdin" => e \in sess
    BY <2>3, <2>4
  <2>. QED BY <1>1, <1>2, <1>3, <1>5, <2>2, <2>4, <2>5, <2>7, <2>8, PlanInv
<1>7. CASE SaveResult(sess) /\ UNCHANGED drawn
  BY <1>7, PrepareRefusedInv
<1>. QED BY <1>5, <1>7 DEF Prepare

LEMMA SaveStartedInv ==
  ASSUME DriverInv, SaveStarted PROVE DriverInv'
<1>1. act.pc = "starting" /\ phase.at = "tools" /\ phase.plan.tool = "process"
  BY DEF SaveStarted, DriverInv, DriverShape, ActivationOK
<1>2. act'.pc = "top" /\ act'.done = act.done /\ act'.cells = act.cells /\ ActFields \subseteq DOMAIN act'
  BY <1>1, ToPc DEF SaveStarted, DriverInv, DriverShape
<1>3. CASE Save(PlanAt("running"), << >>) /\ UNCHANGED <<sess, starts>>
  <2>1. InTheBatch /\ drawn' = drawn
    BY <1>1, <1>2, <1>3, BatchFacts DEF InTheBatch, SaveStarted
  <2>2. PICK t \in ToolNames, e \in 0..drawn : t = phase.plan.tool /\ t = "process" /\ e = phase.plan.eid
    BY <1>1 DEF DriverInv, DriverShape, CheckpointOK, ToolNames
  <2>a. PICK k : k = phase.plan.key
    OBVIOUS
  <2>3. e # 0
    BY <1>1, <2>2 DEF DriverInv, RunProcesses
  <2>4. Save(AtTools(phase.id, phase.index, Planned(t, e, k, "running")), << >>)
    BY <1>3, <2>2, <2>a DEF PlanAt
  <2>5. PlannedProcess = {e}
    BY <1>1, <2>2 DEF PlannedProcess, NoPlan
  <2>6. \A x \in effects : ThisCall(x) => x[3] = k
    BY <1>1, <2>2, <2>a DEF DriverInv, CallsNamed
  <2>7. More
    BY <1>1, PlanHasCall
  <2>8. /\ e \in 0..drawn' /\ act'.pc \in {"top", "script"} /\ act'.pc # "script" /\ t # "stdin" /\ t # "script"
        /\ PlannedProcess \subseteq (IF t \in {"process", "stdin"} THEN {e} ELSE {})
    BY <1>2, <2>1, <2>2, <2>5
  <2>. QED BY <1>3, <2>1, <2>3, <2>4, <2>6, <2>7, <2>8, PlanInv
<1>4. CASE /\ phase.plan.eid \in starts /\ proc[phase.plan.eid] = "none"
           /\ starts' = starts \ {phase.plan.eid} /\ SaveResult(sess)
  BY <1>4, StartRefusedInv
<1>. QED BY <1>3, <1>4 DEF SaveStarted

LEMMA SaveWrittenInv ==
  ASSUME DriverInv, SaveWritten PROVE DriverInv'
<1>1. act.pc = "writing" /\ phase.at = "tools" /\ phase.plan.tool = "stdin"
  BY DEF SaveWritten, DriverInv, DriverShape, ActivationOK
<1>2. act'.pc = "top" /\ act'.done = act.done /\ act'.cells = act.cells /\ ActFields \subseteq DOMAIN act'
  BY <1>1, ToPc DEF SaveWritten, DriverInv, DriverShape
<1>3. CASE Save(PlanAt("running"), << >>) /\ UNCHANGED sess
  <2>1. InTheBatch /\ drawn' = drawn
    BY <1>1, <1>2, <1>3, BatchFacts DEF InTheBatch, SaveWritten, host
  <2>2. PICK t \in ToolNames, e \in 0..drawn : t = phase.plan.tool /\ t = "stdin" /\ e = phase.plan.eid
    BY <1>1 DEF DriverInv, DriverShape, CheckpointOK, ToolNames
  <2>3. PICK k : k = phase.plan.key
    OBVIOUS
  <2>4. Save(AtTools(phase.id, phase.index, Planned(t, e, k, "running")), << >>)
    BY <1>3, <2>2, <2>3 DEF PlanAt
  <2>5. PlannedProcess = {e} /\ StdinCalled
    BY <1>1, <2>2 DEF PlannedProcess, NoPlan, DriverInv, RunProcesses
  <2>6. \A x \in effects : ThisCall(x) => x[3] = k
    BY <1>1, <2>2, <2>3 DEF DriverInv, CallsNamed
  <2>7. More
    BY <1>1, PlanHasCall
  <2>8. proc[e] = "alive" => e \in sess \union strays
    BY <1>1, <2>2 DEF DriverInv, RunProcesses
  <2>9. /\ e \in 0..drawn' /\ act'.pc \in {"top", "script"} /\ act'.pc # "script" /\ t = "stdin" /\ t # "script"
        /\ PlannedProcess \subseteq (IF t \in {"process", "stdin"} THEN {e} ELSE {})
    BY <1>2, <2>1, <2>2, <2>5
  <2>. QED BY <1>3, <2>1, <2>4, <2>5, <2>6, <2>7, <2>8, <2>9, PlanInv
<1>4. CASE \E s : SaveResult(s) /\ (s = sess \/ (s = sess \ {phase.plan.eid} /\ proc[phase.plan.eid] # "alive"))
  <2>1. PICK s : SaveResult(s) /\ (s = sess \/ (s = sess \ {phase.plan.eid} /\ proc[phase.plan.eid] # "alive"))
    BY <1>4
  <2>2. InTheBatch /\ drawn' = drawn
    BY <1>1, <1>2, <2>1, BatchFacts DEF InTheBatch, SaveWritten, SaveResult, host
  <2>3. PICK e : e = phase.plan.eid
    OBVIOUS
  <2>4. /\ e \in sess => harness \in KeepsSessions
        /\ proc[e] = "alive" /\ e \notin sess => e \in strays'
    BY <1>1, <2>2, <2>3 DEF DriverInv, RunProcesses, InTheBatch
  <2>5. phase.plan.tool # "none"
    BY <1>1
  <2>. QED BY <1>2, <2>1, <2>2, <2>3, <2>4, <2>5, StepEndsCall
<1>. QED BY <1>3, <1>4 DEF SaveWritten

LEMMA AdmitInv ==
  ASSUME DriverInv, Admit PROVE DriverInv'
<1>1. /\ act.pc = "top" /\ phase.at = "tools" /\ phase.plan.tool = "script" /\ phase.plan.stage = "prepared"
      /\ phase.plan # NoPlan
  BY DEF Admit, ScriptAt, InBatch, Top
<1>2. act'.pc = "script" /\ act'.done = act.done /\ act'.cells = act.cells \union {<<phase.id, phase.index>>} /\ ActFields \subseteq DOMAIN act'
  BY <1>1, ToCell DEF Admit, DriverInv, DriverShape
<1>3. phase.id \in Nat /\ phase.index \in Nat
  BY <1>1 DEF DriverInv, DriverShape, CheckpointOK
<1>4. InTheBatch /\ drawn' = drawn /\ sess' = sess
  BY <1>1, <1>2, <1>3, BatchFacts DEF InTheBatch, Admit, host
<1>5. PICK t \in ToolNames, e \in 0..drawn : t = phase.plan.tool /\ t = "script" /\ e = phase.plan.eid
  BY <1>1 DEF DriverInv, DriverShape, CheckpointOK, ToolNames
<1>6. e # 0
  BY <1>1, <1>5 DEF DriverInv, RunProcesses
<1>7. Save(AtTools(phase.id, phase.index, Planned(t, e, phase.plan.key, "admitted")), << >>)
  BY <1>5 DEF Admit, PlanAt
<1>8. PlannedProcess = {}
  BY <1>1 DEF PlannedProcess
<1>9. \A x \in effects : ~ThisCall(x)
  BY <1>1 DEF DriverInv, CallsNamed
<1>10. More
  BY <1>1, PlanHasCall
<1>. QED BY <1>2, <1>4, <1>5, <1>6, <1>7, <1>8, <1>9, <1>10, PlanInv

\* Something leaves for the host.
LEMMA DispatchInv ==
  ASSUME DriverInv, phase.at = "tools", Live, phase.plan.tool # "none",
         UNCHANGED <<harness, durable, ops, jobs, drawn, proc, strays, stops>>,
         starts' = starts \/ starts' = starts \union {phase.plan.eid},
         starts' # starts => phase.plan.eid # 0,
         act.pc # "none", act'.done = {}, act'.cells \subseteq Nat \X Nat, ActFields \subseteq DOMAIN act',
         act'.pc \in {"starting", "writing", "applied"},
         act'.pc = "writing" => phase.plan.tool = "stdin",
         act'.pc = "starting" => phase.plan.tool = "process",
         act'.pc = "applied" => /\ phase.plan.tool \in {"mutation", "query", "script"}
                                /\ phase.plan.tool = "script" => phase.plan.stage = "admitted",
         NEW v, effects' = effects \/ effects' = effects \union {<<phase.id, phase.index, v>>},
         effects' # effects => /\ phase.plan.tool # "script" => v = phase.plan.key
                               /\ phase.plan.tool = "script" => act.pc = "script"
  PROVE  DriverInv'
<1>. USE DEF DriverInv
<1>0. UNCHANGED <<harness, run, input, history, cp, sess, ops, jobs, drawn, proc, strays, stops>>
  BY DEF durable
<1>1. history' = history /\ phase' = phase
  BY <1>0 DEF phase
<1>2. AnswersNumbered' /\ BatchPaired'
  BY <1>1, SameTalk
<1>3. DriverShape'
  <2>1. CheckpointOK'
    BY <1>0, <1>1 DEF CheckpointOK, DriverShape
  <2>2. ActivationOK'
    BY <1>0, <1>1 DEF ActivationOK, DriverPcs, ActFields, Live
  <2>3. RestOK'
    BY <1>0, <1>1 DEF RestOK, Live, DriverShape
  <2>. QED BY <2>1, <2>2, <2>3 DEF DriverShape
<1>4. CallsNamed'
  <2>1. LastAnswer' = LastAnswer /\ LastAnswer \in Nat
    BY <1>1, LastAnswerType DEF LastAnswer, DriverShape, RestOK
  <2>2. PICK d, i : d = phase.id /\ i = phase.index /\ i \in Nat /\ d \in 1..LastAnswer
    BY <2>1 DEF DriverShape, CheckpointOK, AnswersNumbered
  <2>3. \A x : ThisCall(x)' <=> ThisCall(x)
    BY <1>1 DEF ThisCall
  <2>4. CASE effects' = effects
    BY <1>1, <2>1, <2>3, <2>4 DEF CallsNamed, OneIdentityPerCall
  <2>5. CASE effects' # effects
    <3>. DEFINE y == <<d, i, v>>
    <3>1. effects' = effects \union {y} /\ y[1] = d /\ y[2] = i /\ y[3] = v
      BY <2>2, <2>5
    <3>. HIDE DEF y
    <3>2. \A x \in effects : x[1] \in 1..LastAnswer /\ x[2] \in Nat /\ (x[1] = d => x[2] <= i)
      BY <2>2 DEF CallsNamed
    <3>3. \A x \in effects : x[1] = d /\ x[2] = i => phase.plan.tool # "script" /\ x[3] = v
      BY <2>2, <2>5 DEF CallsNamed, ThisCall
    <3>4. OneIdentityPerCall'
      BY <3>1, <3>3 DEF CallsNamed, OneIdentityPerCall
    <3>5. \A x \in effects' : x[1] \in 1..LastAnswer /\ x[2] \in Nat /\ (x[1] = d => x[2] <= i)
      BY <2>2, <3>1, <3>2
    <3>6. \A x \in effects' : ThisCall(x) =>
             /\ phase.plan.tool # "script" => x[3] = phase.plan.key
             /\ phase.plan.tool = "script" => phase.plan.stage = "admitted"
      BY <2>5, <3>1 DEF CallsNamed
    <3>. QED BY <1>1, <2>1, <2>2, <2>3, <3>4, <3>5, <3>6 DEF CallsNamed
  <2>. QED BY <2>4, <2>5
<1>5. JobsAndPlan'
  BY <1>0, <1>1 DEF JobsAndPlan, SubmittedAs
<1>6. RunProcesses'
  BY <1>0, <1>1 DEF RunProcesses, Live, PlannedProcess, OwnSessions, StdinCalled, AnswerAt
<1>7. InputsHeard'
  BY <1>0 DEF InputsHeard, Pending
<1>. QED BY <1>2, <1>3, <1>4, <1>5, <1>6, <1>7

LEMMA SendStartInv ==
  ASSUME DriverInv, SendStart PROVE DriverInv'
<1>1. act.pc = "top" /\ phase.at = "tools" /\ phase.plan.tool = "process"
  BY DEF SendStart, InBatch, Top
<1>2. act'.pc = "starting" /\ act'.done = act.done /\ act'.cells = act.cells /\ ActFields \subseteq DOMAIN act'
  BY <1>1, ToPc DEF SendStart, DriverInv, DriverShape
<1>3. Live /\ act.done = {} /\ act.cells \subseteq Nat \X Nat
  BY <1>1, BatchFacts
<1>4. phase.plan.eid # 0
  BY <1>1 DEF DriverInv, RunProcesses
<1>. QED BY <1>1, <1>2, <1>3, <1>4, DispatchInv DEF SendStart, Dispatch

LEMMA SendInputInv ==
  ASSUME DriverInv, SendInput PROVE DriverInv'
<1>1. act.pc = "top" /\ phase.at = "tools" /\ phase.plan.tool = "stdin"
  BY DEF SendInput, InBatch, Top
<1>2. act'.pc = "writing" /\ act'.done = act.done /\ act'.cells = act.cells /\ ActFields \subseteq DOMAIN act'
  BY <1>1, ToPc DEF SendInput, DriverInv, DriverShape
<1>3. Live /\ act.done = {} /\ act.cells \subseteq Nat \X Nat
  BY <1>1, BatchFacts
<1>. QED BY <1>1, <1>2, <1>3, DispatchInv DEF SendInput, Dispatch

LEMMA ApplyInv ==
  ASSUME DriverInv, Apply PROVE DriverInv'
<1>1. act.pc = "top" /\ phase.at = "tools" /\ phase.plan.tool \in {"mutation", "query"}
  BY DEF Apply, InBatch, Top
<1>2. act'.pc = "applied" /\ act'.done = act.done /\ act'.cells = act.cells /\ ActFields \subseteq DOMAIN act'
  BY <1>1, ToPc DEF Apply, DriverInv, DriverShape
<1>3. Live /\ act.done = {} /\ act.cells \subseteq Nat \X Nat
  BY <1>1, BatchFacts
<1>4. effects' = effects \/ effects' = effects \union {<<phase.id, phase.index, phase.plan.key>>}
  BY DEF Apply, Dispatch
<1>. QED BY <1>1, <1>2, <1>3, <1>4, DispatchInv DEF Apply

LEMMA RunScriptInv ==
  ASSUME DriverInv, RunScript PROVE DriverInv'
<1>1. act.pc = "script" /\ phase.at = "tools" /\ phase.plan.tool = "script" /\ phase.plan.stage = "admitted"
  BY DEF RunScript, DriverInv, DriverShape, ActivationOK
<1>2. act'.pc = "applied" /\ act'.done = act.done /\ act'.cells = act.cells /\ ActFields \subseteq DOMAIN act'
  BY <1>1, ToPc DEF RunScript, DriverInv, DriverShape
<1>3. Live /\ act.done = {} /\ act.cells \subseteq Nat \X Nat
  BY <1>1 DEF DriverInv, DriverShape, ActivationOK
<1>. QED BY <1>1, <1>2, <1>3, DispatchInv DEF RunScript

-----------------------------------------------------------------------------
(* The end of a run, and of an answer. *)

\* A note is appended while a batch goes on, or between two.
LEMMA NotifyInv ==
  ASSUME DriverInv, Notify PROVE DriverInv'
<1>. USE DEF DriverInv
<1>a. PICK c \in act.cells : Called(history, c[1], c[2]) /\ Save(phase, <<Note(c)>>)
  BY DEF Notify
<1>0. act.pc \in {"top", "applied"} /\ c \in Nat \X Nat /\ phase.at # "none" /\ history \in Seq(Entries)
  BY DEF Notify, DriverShape, ActivationOK, RestOK
<1>. DEFINE r == Note(c)
            x == <<r>>
<1>1. r \in Entries /\ x \in Seq(Entries)
  BY <1>0 DEF Note, Entries
<1>2. cp'.phase = phase /\ {"phase", "failure"} \subseteq DOMAIN cp' /\ history' = history \o x
  BY <1>1, <1>a, SaveFacts
<1>3. r.role = "result" /\ r.note /\ r.id = c[1] /\ r.index = c[2] /\ DOMAIN x = {1} /\ x[1] = r
  BY DEF Note
<1>. HIDE DEF r, x
<1>4. phase' = phase /\ UNCHANGED <<harness, run, input, sess, act, ops, jobs, drawn, proc, starts, strays, effects, stops>>
  BY <1>2 DEF phase, Notify, host
<1>5. LastAnswer' = LastAnswer /\ LastAnswer \in Nat
  BY <1>0, <1>1, <1>2, <1>3, SameAnswers, LastAnswerType
<1>6. /\ history' \in Seq(Entries) /\ Len(history') \in Nat /\ Len(history') >= Len(history)
      /\ DOMAIN history = 1..Len(history) /\ DOMAIN history' = 1..Len(history')
      /\ \A n \in DOMAIN history : n \in DOMAIN history' /\ history'[n] = history[n]
      /\ \A n \in DOMAIN history' : n \notin DOMAIN history => history'[n] = r
      /\ Len(history) \in Nat
  <2>1. /\ history' \in Seq(Entries) /\ Len(history') = Len(history) + Len(x)
        /\ DOMAIN history = 1..Len(history) /\ DOMAIN history' = 1..Len(history')
        /\ \A n \in DOMAIN history : n \in DOMAIN history' /\ history'[n] = history[n]
        /\ \A n \in DOMAIN history' : n \notin DOMAIN history =>
               n - Len(history) \in DOMAIN x /\ history'[n] = x[n - Len(history)]
    BY <1>0, <1>1, <1>2, Extended
  <2>2. Len(history) \in Nat /\ Len(x) \in Nat
    BY <1>0, <1>1
  <2>. QED BY <1>3, <2>1, <2>2
<1>7. \A n : AnswerAt(n)' <=> AnswerAt(n)
  BY <1>3, <1>6 DEF AnswerAt
<1>8. AnswersNumbered'
  <2>1. \A n \in DOMAIN history : AnswerAt(n) => AnswerAt(n)' /\ n \in DOMAIN history' /\ history'[n] = history[n]
    BY <1>6, <1>7
  <2>2. \A n : AnswerAt(n)' => AnswerAt(n) /\ n \in DOMAIN history /\ history'[n] = history[n]
    BY <1>6, <1>7 DEF AnswerAt
  <2>3. /\ \A m \in DOMAIN history' : AnswerAt(m)' => history'[m].id \in 1..LastAnswer
        /\ \A m, n \in DOMAIN history' : AnswerAt(m)' /\ AnswerAt(n)' /\ history'[m].id = history'[n].id => m = n
    BY <2>2 DEF AnswersNumbered
  <2>4. /\ phase.at = "tools" => \E m \in DOMAIN history' : AnswerAt(m)' /\ history'[m].id = phase.id
        /\ phase.at = "tools" => phase.id = LastAnswer
        /\ phase.at = "tools" /\ phase.plan.tool # "none" =>
              \E m \in DOMAIN history' : /\ AnswerAt(m)' /\ history'[m].id = phase.id
                                         /\ phase.index \in DOMAIN history'[m].calls
    BY <2>1 DEF AnswersNumbered
  <2>. QED BY <1>4, <1>5, <2>3, <2>4 DEF AnswersNumbered
<1>9. CallsNamed'
  BY <1>4, <1>5 DEF CallsNamed, ThisCall, OneIdentityPerCall
<1>10. JobsAndPlan'
  <2>1. JobsKept'
    <3>1. JobsKept /\ jobs' = jobs /\ ops' \in Nat /\ ops' >= ops
      BY <1>4, JobsAndPlanParts DEF DriverShape, RestOK
    <3>. QED BY <1>1, <1>2, <3>1, JobsStay
  <2>2. phase.at = "model" => SubSeq(history', 1, phase.rev) = SubSeq(history, 1, phase.rev)
    BY <1>0, <1>1, <1>2, SamePrefix DEF DriverShape, CheckpointOK
  <2>3. Asking'
    BY <1>4, <2>2 DEF Asking, JobsAndPlan
  <2>. QED BY <2>1, <2>3 DEF JobsAndPlan, JobsKept, Asking
<1>11. InputsHeard'
  BY <1>1, <1>2, <1>3, <1>4, HeardStays
<1>12. RunProcesses'
  <2>1. StdinCalled => StdinCalled'
    BY <1>1, <1>2, StdinCallStays
  <2>. QED BY <1>4, <2>1 DEF RunProcesses, Live, PlannedProcess, OwnSessions
<1>13. DriverShape'
  <2>1. CheckpointOK'
    BY <1>0, <1>2, <1>4, <1>6 DEF CheckpointOK, DriverShape
  <2>2. ActivationOK'
    BY <1>4 DEF ActivationOK, DriverShape, Live, Pending
  <2>3. RestOK'
    BY <1>4, <1>6 DEF RestOK, DriverShape, Live
  <2>. QED BY <2>1, <2>2, <2>3 DEF DriverShape
<1>14. BatchPaired'
  <2>1. ASSUME NEW m \in DOMAIN history', AnswerAt(m)', NEW k \in DOMAIN history'[m].calls
        PROVE  AnsweredIn(history', m, k) \/ (phase.at = "tools" /\ history'[m].id = phase.id /\ k >= phase.index)
    <3>1. m \in DOMAIN history /\ AnswerAt(m) /\ history'[m] = history[m] /\ k \in DOMAIN history[m].calls
      BY <1>6, <1>7, <2>1 DEF AnswerAt
    <3>2. CASE AnsweredIn(history, m, k)
      <4>1. \A j \in DOMAIN x : x[j] # ToolResult(history[m].id, k)
        BY <1>3 DEF ToolResult
      <4>. QED BY <1>0, <1>1, <1>2, <3>1, <3>2, <4>1, StillAnswered
    <3>3. CASE ~AnsweredIn(history, m, k)
      BY <3>1, <3>3 DEF BatchPaired
    <3>. QED BY <3>2, <3>3
  <2>2. ASSUME NEW n \in DOMAIN history', history'[n].role = "result", ~history'[n].note
        PROVE  /\ history'[n].id \in 1..LastAnswer
               /\ phase.at = "tools" /\ history'[n].id = phase.id => history'[n].index < phase.index
    <3>1. n \in DOMAIN history /\ history'[n] = history[n]
      BY <1>3, <1>6, <2>2
    <3>. QED BY <2>2, <3>1 DEF BatchPaired
  <2>3. ASSUME phase.at = "tools", NEW m \in DOMAIN history', AnswerAt(m)', history'[m].id = phase.id,
               NEW j \in (m + 1)..Len(history')
        PROVE  history'[j].role \notin Unusable
    <3>1. m \in DOMAIN history /\ AnswerAt(m) /\ history'[m] = history[m]
      BY <1>6, <1>7, <2>3 DEF AnswerAt
    <3>2. j \in DOMAIN history'
      BY <1>6, <3>1
    <3>3. CASE j \in DOMAIN history
      BY <1>6, <2>3, <3>1, <3>3 DEF BatchPaired
    <3>4. CASE j \notin DOMAIN history
      BY <1>3, <1>6, <3>2, <3>4 DEF Unusable
    <3>. QED BY <3>3, <3>4
  <2>4. ResultsCalled(history')
    <3>1. ResultsCalled(history)
      BY DEF BatchPaired
    <3>2. \A k \in DOMAIN x : x[k].role = "result" => Called(history, x[k].id, x[k].index)
      BY <1>a, <1>3
    <3>. QED BY <1>0, <1>1, <1>2, <3>1, <3>2, CalledStays
  <2>. QED BY <1>4, <1>5, <2>1, <2>2, <2>3, <2>4 DEF BatchPaired
<1>. QED BY <1>8, <1>9, <1>10, <1>11, <1>12, <1>13, <1>14

LEMMA TerminateInv ==
  ASSUME DriverInv, NEW e \in 0..MaxEffects, Terminate(e) PROVE DriverInv'
<1>. USE DEF DriverInv
<1>0. /\ UNCHANGED <<harness, run, input, history, cp, ops, jobs, drawn, starts, strays, effects, stops>>
      /\ act.pc \in {"cleanup", "failing"} /\ sess' = sess \ {e}
  BY DEF Terminate, Ending
<1>1. history' = history /\ phase' = phase
  BY <1>0 DEF phase
<1>2. AnswersNumbered' /\ BatchPaired'
  BY <1>1, SameTalk
<1>3. act'.pc = act.pc /\ act'.done = act.done \union {e} /\ act'.cells = act.cells /\ ActFields \subseteq DOMAIN act'
  BY <1>0, ToDone DEF Terminate, DriverShape
<1>4. DriverShape'
  <2>1. CheckpointOK'
    BY <1>0, <1>1 DEF CheckpointOK, DriverShape
  <2>2. ActivationOK'
    BY <1>0, <1>1, <1>3 DEF ActivationOK, DriverShape, Live, ActFields
  <2>3. RestOK'
    BY <1>0, <1>1 DEF RestOK, DriverShape, Live, Terminate
  <2>. QED BY <2>1, <2>2, <2>3 DEF DriverShape
<1>5. CallsNamed'
  BY <1>0, <1>1, <1>3 DEF CallsNamed, ThisCall, LastAnswer, OneIdentityPerCall
<1>6. JobsAndPlan'
  BY <1>0, <1>1 DEF JobsAndPlan, SubmittedAs
<1>7. InputsHeard'
  BY <1>0 DEF InputsHeard, Pending
<1>8. RunProcesses'
  <2>1. /\ \A d \in 0..MaxEffects : d # e => proc'[d] = proc[d]
        /\ proc'[e] # "alive" /\ 0 \in 0..MaxEffects
        /\ \A d \in 0..MaxEffects : proc'[d] = "alive" => proc[d] = "alive" /\ d # e
    BY HarnessAssumption DEF Terminate, DriverShape, RestOK
  <2>2. UNCHANGED <<PlannedProcess, StdinCalled>> /\ \A d \in OwnSessions : d = e \/ d \in OwnSessions'
    BY <1>0, <1>1 DEF PlannedProcess, OwnSessions, StdinCalled, AnswerAt
  <2>3. proc'[0] = "killed" => StdinCalled
    <3>1. CASE e # 0
      BY <2>1, <3>1 DEF RunProcesses
    <3>2. CASE e = 0
      <4>1. 0 \in PlannedProcess
        BY <3>2 DEF Terminate, ToClean, Earlier
      <4>. QED BY <4>1 DEF PlannedProcess, RunProcesses, DriverShape, CheckpointOK
    <3>. QED BY <3>1, <3>2
  <2>4. Live => \A d \in 1..MaxEffects : proc'[d] = "alive" /\ d \notin strays => d \in PlannedProcess \union OwnSessions'
    BY <2>1, <2>2 DEF RunProcesses
  <2>5. run.status \in {"aborted", "failed"} => \A d \in 1..MaxEffects : proc'[d] = "alive" => d \in strays
    BY <2>1 DEF RunProcesses
  <2>6. \A d \in act'.done : proc'[d] = "alive" => d \in strays
    <3>1. act.done \subseteq 0..MaxEffects
      BY <1>0 DEF DriverShape, ActivationOK
    <3>. QED BY <1>0, <1>3, <2>1, <3>1 DEF RunProcesses
  <2>7. ASSUME phase.at = "tools", phase.plan.tool = "stdin", proc'[phase.plan.eid] = "alive"
        PROVE  phase.plan.eid \in sess' \union strays
    <3>1. PICK d \in 0..MaxEffects : d = phase.plan.eid
      BY <2>7, HarnessAssumption DEF DriverShape, CheckpointOK, RestOK
    <3>2. proc[d] = "alive" /\ d # e
      BY <2>1, <2>7, <3>1
    <3>. QED BY <1>0, <2>7, <3>1, <3>2 DEF RunProcesses
  <2>. QED BY <1>0, <1>1, <2>2, <2>3, <2>4, <2>5, <2>6, <2>7 DEF RunProcesses, Live
<1>. QED BY <1>2, <1>4, <1>5, <1>6, <1>7, <1>8

LEMMA EndAtOnceInv ==
  ASSUME DriverInv, EndAtOnce PROVE DriverInv'
<1>. USE DEF DriverInv
<1>0. /\ UNCHANGED <<harness, input, history, cp, sess, act, ops, jobs, drawn, proc, starts, strays, effects, stops>>
      /\ act = NoActivation /\ act.pc = "none" /\ Live /\ cp = NoCheckpoint
      /\ run'.status \in {"aborted", "failed"} /\ {"status", "abort"} \subseteq DOMAIN run'
  BY FromNone DEF EndAtOnce, host, DriverShape, RestOK
<1>1. history' = history /\ phase' = phase /\ phase.at = "none"
  BY <1>0 DEF phase, NoCheckpoint
<1>2. AnswersNumbered' /\ BatchPaired'
  BY <1>1, SameTalk
<1>3. DriverShape'
  <2>1. CheckpointOK'
    BY <1>0, <1>1 DEF CheckpointOK, DriverShape
  <2>2. ActivationOK'
    BY <1>0 DEF ActivationOK, DriverPcs
  <2>3. RestOK'
    BY <1>0, <1>1 DEF RestOK, DriverShape, Live, Ended
  <2>. QED BY <2>1, <2>2, <2>3 DEF DriverShape
<1>4. CallsNamed'
  BY <1>0, <1>1 DEF CallsNamed, ThisCall, LastAnswer, OneIdentityPerCall
<1>5. JobsAndPlan'
  BY <1>0, <1>1 DEF JobsAndPlan, SubmittedAs
<1>6. InputsHeard'
  BY <1>0 DEF InputsHeard, Pending
<1>7. RunProcesses'
  <2>1. drawn = 0 /\ sess \subseteq 0..0 /\ PlannedProcess = {}
    BY <1>1 DEF DriverShape, CheckpointOK, RestOK, PlannedProcess
  <2>2. \A e \in 1..MaxEffects : e \notin OwnSessions
    BY <2>1 DEF OwnSessions
  <2>3. \A e \in 1..MaxEffects : proc[e] = "alive" => e \in strays
    BY <1>0, <2>1, <2>2 DEF RunProcesses
  <2>. QED BY <1>0, <1>1, <2>3 DEF RunProcesses, Live, StdinCalled, AnswerAt
<1>. QED BY <1>2, <1>3, <1>4, <1>5, <1>6, <1>7

LEMMA CompletesInv ==
  ASSUME DriverInv, Complete, Completes PROVE DriverInv'
<1>. USE DEF DriverInv
<1>0. /\ UNCHANGED <<harness, input, history, cp, sess, ops, jobs, drawn, proc, starts, strays, effects, stops>>
      /\ act' = NoActivation /\ act'.pc = "none" /\ Live /\ phase.at = "boundary" /\ Pending = {}
      /\ run'.status = "completed" /\ {"status", "abort"} \subseteq DOMAIN run'
  BY ToNone DEF Complete, Completes, host, DriverShape, RestOK, ActivationOK
<1>1. history' = history /\ phase' = phase
  BY <1>0 DEF phase
<1>2. AnswersNumbered' /\ BatchPaired'
  BY <1>1, SameTalk
<1>3. DriverShape'
  <2>1. CheckpointOK'
    BY <1>0, <1>1 DEF CheckpointOK, DriverShape
  <2>2. ActivationOK'
    BY <1>0 DEF ActivationOK, DriverPcs
  <2>3. RestOK'
    BY <1>0, <1>1 DEF RestOK, DriverShape, Live, Ended
  <2>. QED BY <2>1, <2>2, <2>3 DEF DriverShape
<1>4. CallsNamed'
  BY <1>0, <1>1 DEF CallsNamed, ThisCall, LastAnswer, OneIdentityPerCall
<1>5. JobsAndPlan'
  BY <1>0, <1>1 DEF JobsAndPlan, SubmittedAs
<1>6. InputsHeard'
  BY <1>0 DEF InputsHeard, Pending
<1>7. RunProcesses'
  BY <1>0, <1>1 DEF RunProcesses, Live, StdinCalled, AnswerAt
<1>. QED BY <1>2, <1>3, <1>4, <1>5, <1>6, <1>7

\* The order in which inputs are appended leaves none out and repeats none.
LEMMA InOrderFacts ==
  ASSUME NEW S, IsFiniteSet(S)
  PROVE  /\ Cardinality(S) \in Nat
         /\ InOrder(S) \in [1..Cardinality(S) -> S]
         /\ \A i \in S : \E k \in 1..Cardinality(S) : InOrder(S)[k] = i
         /\ \A j, k \in 1..Cardinality(S) : InOrder(S)[j] = InOrder(S)[k] => j = k
<1>. DEFINE N == 1..Cardinality(S)
            b == InOrder(S)
<1>1. Cardinality(S) \in Nat /\ ExistsBijection(N, S)
  BY FS_CardinalityType
<1>2. \E s \in [N -> S] : \A i \in S : \E k \in DOMAIN s : s[k] = i
  BY <1>1 DEF ExistsBijection, Bijection, Surjection
<1>3. b \in [N -> S] /\ \A i \in S : \E k \in DOMAIN b : b[k] = i
  BY <1>2 DEF InOrder
<1>4. b \in Surjection(N, S)
  BY <1>3 DEF Surjection
<1>5. IsFiniteSet(N) /\ Cardinality(N) = Cardinality(S)
  BY <1>1, FS_Interval
<1>. HIDE DEF N, b
<1>6. b \in Injection(N, S)
  BY <1>4, <1>5, FS_SurjSameCardinalityImpliesInj
<1>7. DOMAIN b = N
  BY <1>3
<1>8. \A i \in S : \E k \in N : b[k] = i
  BY <1>3, <1>7
<1>9. \A j, k \in N : b[j] = b[k] => j = k
  BY <1>6, <1>7 DEF Injection, IsInjective
<1>. QED BY <1>1, <1>3, <1>8, <1>9 DEF N, b

LEMMA CommitInputsInv ==
  ASSUME DriverInv, CommitInputs PROVE DriverInv'
<1>. USE DEF DriverInv
<1>0. act.pc = "inputs" /\ phase.at = "boundary" /\ Live /\ act.batch \subseteq Pending /\ act.cells \subseteq Nat \X Nat
      /\ history \in Seq(Entries) /\ input \in [Inputs -> {"none", "pending", "handled", "rejected"}]
  BY DEF CommitInputs, DriverShape, ActivationOK, RestOK
<1>. DEFINE Commits(taken, good) ==
          /\ Save(AtBoundary(IF good = {} THEN phase.final ELSE 0),
                  [k \in DOMAIN InOrder(good) |-> User(InOrder(good)[k])])
          /\ input' = [i \in Inputs |-> IF i \in good THEN "handled"
                                        ELSE IF i \in taken THEN "rejected"
                                        ELSE input[i]]
<1>a. PICK taken \in (SUBSET act.batch) \ {{}} : \E good \in SUBSET taken : Commits(taken, good)
  BY DEF CommitInputs
<1>1. PICK good \in SUBSET taken : Commits(taken, good)
  BY <1>a
<1>2. taken \subseteq Pending /\ good \subseteq Pending /\ good \subseteq Inputs /\ IsFiniteSet(good)
  <2>1. good \subseteq Inputs /\ taken \subseteq Pending /\ good \subseteq Pending
    BY <1>0 DEF Pending
  <2>. QED BY <2>1, FS_Subset, HarnessAssumption
<1>. DEFINE b == InOrder(good)
            c == Cardinality(good)
            x == [k \in DOMAIN b |-> User(b[k])]
<1>3. /\ c \in Nat /\ b \in [1..c -> good]
      /\ \A i \in good : \E k \in 1..c : b[k] = i
      /\ \A j, k \in 1..c : b[j] = b[k] => j = k
  BY <1>2, InOrderFacts
<1>4. \A k \in 1..c : User(b[k]) \in Entries
  BY <1>2, <1>3 DEF User, Entries
<1>5. x \in Seq(Entries) /\ Len(x) = c /\ DOMAIN x = 1..c /\ \A k \in 1..c : x[k] = User(b[k])
  <2>. HIDE DEF b, c
  <2>1. x = [k \in 1..c |-> User(b[k])]
    BY <1>3
  <2>. HIDE DEF x
  <2>2. x \in [1..c -> Entries]
    BY <1>4, <2>1
  <2>. QED BY <1>3, <2>1, <2>2
<1>6. \A k \in 1..c : x[k].role = "user" /\ x[k].input = b[k]
  BY <1>5 DEF User
<1>7. PICK f : Save(AtBoundary(f), x)
  BY <1>1
<1>. HIDE DEF b, c, x
<1>8. cp'.phase = AtBoundary(f) /\ {"phase", "failure"} \subseteq DOMAIN cp' /\ history' = history \o x
  BY <1>5, <1>7, SaveFacts
<1>9. phase'.at = "boundary"
  BY <1>8 DEF phase, AtBoundary
<1>10. /\ history' \in Seq(Entries) /\ Len(history') \in Nat /\ Len(history') >= Len(history)
       /\ DOMAIN history = 1..Len(history) /\ DOMAIN history' = 1..Len(history')
       /\ \A n \in DOMAIN history : n \in DOMAIN history' /\ history'[n] = history[n]
       /\ \A n \in DOMAIN history' : n \notin DOMAIN history => n - Len(history) \in 1..c /\ history'[n] = x[n - Len(history)]
       /\ \A k \in 1..c : Len(history) + k \in DOMAIN history' /\ history'[Len(history) + k] = x[k]
       /\ Len(history) \in Nat
  <2>1. /\ history' \in Seq(Entries) /\ Len(history') = Len(history) + Len(x)
        /\ DOMAIN history = 1..Len(history) /\ DOMAIN history' = 1..Len(history')
        /\ \A n \in DOMAIN history : n \in DOMAIN history' /\ history'[n] = history[n]
        /\ \A n \in DOMAIN history' : n \notin DOMAIN history =>
               n - Len(history) \in DOMAIN x /\ history'[n] = x[n - Len(history)]
    <3>1. x \in Seq(Entries)
      BY <1>5
    <3>. QED BY <1>0, <1>8, <3>1, Extended
  <2>2. Len(history) \in Nat
    BY <1>0
  <2>3. \A k \in 1..c : Len(history) + k \in DOMAIN history' /\ Len(history) + k \notin DOMAIN history
                        /\ (Len(history) + k) - Len(history) = k
    BY <1>3, <1>5, <2>1, <2>2
  <2>4. \A k \in 1..c : history'[Len(history) + k] = x[k]
    BY <2>1, <2>3
  <2>. QED BY <1>3, <1>5, <2>1, <2>2, <2>3, <2>4
<1>11. UNCHANGED <<harness, run, sess, ops, jobs, drawn, proc, starts, strays, effects, stops>>
  BY DEF CommitInputs, host
<1>12. act'.pc = "top" /\ act'.done = {} /\ act'.cells = act.cells /\ ActFields \subseteq DOMAIN act'
  BY DEF CommitInputs, ActFields
<1>13. LastAnswer' = LastAnswer /\ LastAnswer \in Nat
  BY <1>0, <1>5, <1>6, <1>8, SameAnswers, LastAnswerType
<1>14. \A n : AnswerAt(n)' => AnswerAt(n) /\ n \in DOMAIN history /\ history'[n] = history[n]
  BY <1>6, <1>10 DEF AnswerAt
<1>15. AnswersNumbered'
  BY <1>9, <1>13, <1>14 DEF AnswersNumbered
<1>16. CallsNamed'
  BY <1>9, <1>11, <1>13, OutsideNamed
<1>17. JobsAndPlan'
  <2>1. JobsKept'
    <3>1. JobsKept /\ jobs' = jobs /\ ops' \in Nat /\ ops' >= ops
      BY <1>11, JobsAndPlanParts DEF DriverShape, RestOK
    <3>. QED BY <1>5, <1>8, <3>1, JobsStay
  <2>. QED BY <1>9, <2>1 DEF JobsAndPlan, JobsKept
<1>18. RunProcesses'
  <2>1. StdinCalled => StdinCalled'
    BY <1>5, <1>8, StdinCallStays
  <2>2. PlannedProcess = {} /\ PlannedProcess' = {} /\ OwnSessions' = OwnSessions
    BY <1>0, <1>9, <1>11 DEF PlannedProcess, OwnSessions
  <2>. QED BY <1>9, <1>11, <1>12, <2>1, <2>2 DEF RunProcesses, Live
<1>19. BatchPaired'
  <2>1. ASSUME NEW m \in DOMAIN history', AnswerAt(m)', NEW k \in DOMAIN history'[m].calls
        PROVE  AnsweredIn(history', m, k)
    <3>1. m \in DOMAIN history /\ AnswerAt(m) /\ history'[m] = history[m] /\ k \in DOMAIN history[m].calls
      BY <1>14, <2>1
    <3>2. AnsweredIn(history, m, k)
      BY <1>0, <3>1 DEF BatchPaired
    <3>3. \A j \in DOMAIN x : x[j] # ToolResult(history[m].id, k)
      BY <1>5, <1>6 DEF ToolResult
    <3>. QED BY <1>0, <1>5, <1>8, <3>1, <3>2, <3>3, StillAnswered
  <2>3. ResultsCalled(history')
    <3>1. x \in Seq(Entries) /\ \A k \in DOMAIN x : x[k].role # "result"
      BY <1>5, <1>6
    <3>2. ResultsCalled(history)
      BY DEF BatchPaired
    <3>. QED BY <1>0, <1>8, <3>1, <3>2, CalledStays
  <2>2. ASSUME NEW n \in DOMAIN history', history'[n].role = "result", ~history'[n].note PROVE history'[n].id \in 1..LastAnswer
    <3>1. n \in DOMAIN history /\ history'[n] = history[n]
      BY <1>6, <1>10, <2>2
    <3>. QED BY <2>2, <3>1 DEF BatchPaired
  <2>. QED BY <1>9, <1>13, <2>1, <2>2, <2>3 DEF BatchPaired
<1>20. DriverShape'
  <2>1. CheckpointOK'
    BY <1>8, <1>9 DEF CheckpointOK
  <2>2. ActivationOK'
    BY <1>0, <1>9, <1>11, <1>12 DEF ActivationOK, DriverPcs, ActFields, Live
  <2>3. RestOK'
    <3>1. input' \in [Inputs -> {"none", "pending", "handled", "rejected"}]
      BY <1>0, <1>1
    <3>. QED BY <1>9, <1>10, <1>11, <3>1 DEF RestOK, DriverShape, Live
  <2>. QED BY <2>1, <2>2, <2>3 DEF DriverShape
<1>21. InputsHeard'
  <2>1. /\ \A i \in good : input'[i] = "handled" /\ input[i] = "pending"
        /\ \A i \in Inputs : i \notin good => (input'[i] = "handled" <=> input[i] = "handled")
    BY <1>0, <1>1, <1>2 DEF Pending
  <2>2. \A i \in Inputs, n \in DOMAIN history' : n \in DOMAIN history =>
          (history'[n] = User(i) <=> history[n] = User(i))
    BY <1>10
  <2>3. \A i \in Inputs, n \in DOMAIN history' : n \notin DOMAIN history /\ history'[n] = User(i) =>
          n - Len(history) \in 1..c /\ b[n - Len(history)] = i /\ i \in good
    <3>. SUFFICES ASSUME NEW i \in Inputs, NEW n \in DOMAIN history', n \notin DOMAIN history, history'[n] = User(i)
                  PROVE  n - Len(history) \in 1..c /\ b[n - Len(history)] = i /\ i \in good
      OBVIOUS
    <3>1. PICK k \in 1..c : k = n - Len(history) /\ history'[n] = x[k]
      BY <1>10
    <3>2. x[k].input = b[k] /\ User(i).input = i
      BY <1>6 DEF User
    <3>. QED BY <1>3, <3>1, <3>2
  <2>4. ASSUME NEW i \in Inputs, input'[i] # "handled", NEW m \in DOMAIN history' PROVE history'[m] # User(i)
    <3>1. i \notin good /\ input[i] # "handled"
      BY <2>1, <2>4
    <3>. QED BY <2>2, <2>3, <3>1 DEF InputsHeard
  <2>5. ASSUME NEW i \in Inputs, input'[i] = "handled" PROVE \E m \in DOMAIN history' : history'[m] = User(i)
    <3>1. CASE i \in good
      <4>1. PICK k \in 1..c : b[k] = i
        BY <1>3, <3>1
      <4>2. Len(history) + k \in DOMAIN history' /\ history'[Len(history) + k] = User(i)
        BY <1>5, <1>10, <4>1
      <4>. QED BY <4>2
    <3>2. CASE i \notin good
      <4>1. PICK m \in DOMAIN history : history[m] = User(i)
        BY <2>1, <2>5, <3>2 DEF InputsHeard
      <4>. QED BY <1>10, <4>1
    <3>. QED BY <3>1, <3>2
  <2>6. ASSUME NEW i \in Inputs, NEW m \in DOMAIN history', NEW n \in DOMAIN history',
               history'[m] = User(i), history'[n] = User(i)
        PROVE  m = n
    <3>1. CASE i \in good
      <4>1. m \notin DOMAIN history /\ n \notin DOMAIN history
        BY <2>1, <2>2, <2>6, <3>1 DEF InputsHeard
      <4>2. /\ m - Len(history) \in 1..c /\ b[m - Len(history)] = i
            /\ n - Len(history) \in 1..c /\ b[n - Len(history)] = i
        BY <2>3, <2>6, <4>1
      <4>3. m - Len(history) = n - Len(history) /\ m \in Nat /\ n \in Nat
        BY <1>3, <1>10, <4>2
      <4>. QED BY <1>10, <4>3
    <3>2. CASE i \notin good
      BY <2>2, <2>3, <2>6, <3>2 DEF InputsHeard
    <3>. QED BY <3>1, <3>2
  <2>7. run'.status # "completed"
    BY <1>0, <1>11 DEF Live
  <2>. QED BY <2>4, <2>5, <2>6, <2>7 DEF InputsHeard
<1>. QED BY <1>15, <1>16, <1>17, <1>18, <1>19, <1>20, <1>21

\* The model's message, with the batch it opens or as the final one.
LEMMA SaveAnswerInv ==
  ASSUME DriverInv, TakeMessage, NEW r \in ModelAnswers, SaveAnswer(r) PROVE DriverInv'
<1>. USE DEF DriverInv
<1>0. act.pc = "answer" /\ phase.at = "model" /\ Live /\ act.done = {} /\ act.cells \subseteq Nat \X Nat /\ history \in Seq(Entries)
  BY DEF TakeMessage, DriverShape, ActivationOK, RestOK
<1>1. r.calls \in Seq(ToolNames) /\ r.valid \in BOOLEAN
  <2>1. r.calls \in Batches /\ r.valid \in BOOLEAN
    BY DEF ModelAnswers
  <2>. QED BY <2>1, HarnessAssumption DEF ToolNames
<1>2. LastAnswer \in Nat
  BY <1>0, LastAnswerType
<1>3. PICK d \in Nat : d = LastAnswer + 1
  BY <1>2
<1>. DEFINE a == Assistant(d, r.calls, r.valid)
            x == <<a>>
<1>4. a \in Entries /\ a.role = "assistant" /\ a.id = d /\ a.calls = r.calls
  BY <1>1 DEF Assistant, Entries
<1>5. history' = Append(history, a) /\ history' = history \o x /\ x \in Seq(Entries) /\ DOMAIN x = {1} /\ x[1] = a
  <2>1. history' = Append(history, a)
    BY <1>3 DEF SaveAnswer
  <2>. HIDE DEF a
  <2>. QED BY <1>0, <1>4, <2>1
<1>. HIDE DEF a, x
<1>6. /\ {"phase", "failure"} \subseteq DOMAIN cp'
      /\ cp'.phase = IF r.calls = << >> THEN AtBoundary(d) ELSE AtTools(d, 1, NoPlan)
  BY <1>3 DEF SaveAnswer
<1>7. /\ r.calls = << >> => phase'.at = "boundary"
      /\ r.calls # << >> => /\ phase'.at = "tools" /\ phase'.id = d /\ phase'.index = 1
                            /\ phase'.plan = NoPlan /\ phase'.plan.tool = "none"
  BY <1>6 DEF phase, AtBoundary, AtTools, NoPlan
<1>8. LastAnswer' = d
  BY <1>0, <1>3, <1>4, <1>5, NewAnswer
<1>9. /\ history' \in Seq(Entries) /\ Len(history') = Len(history) + 1 /\ Len(history) \in Nat
      /\ DOMAIN history = 1..Len(history) /\ DOMAIN history' = 1..Len(history')
      /\ \A n \in DOMAIN history : n \in DOMAIN history' /\ history'[n] = history[n]
      /\ \A n \in DOMAIN history' : n \notin DOMAIN history => n = Len(history) + 1 /\ history'[n] = a
      /\ Len(history) + 1 \in DOMAIN history' /\ history'[Len(history) + 1] = a
  <2>1. Len(x) = 1 /\ Len(history) \in Nat
    BY <1>0, <1>5
  <2>2. /\ history' \in Seq(Entries) /\ Len(history') = Len(history) + Len(x)
        /\ DOMAIN history = 1..Len(history) /\ DOMAIN history' = 1..Len(history')
        /\ \A n \in DOMAIN history : n \in DOMAIN history' /\ history'[n] = history[n]
        /\ \A n \in DOMAIN history' : n \notin DOMAIN history =>
               n - Len(history) \in DOMAIN x /\ history'[n] = x[n - Len(history)]
    <3>1. x \in Seq(Entries) /\ history' = history \o x
      BY <1>5
    <3>. QED BY <1>0, <3>1, Extended
  <2>3. \A n \in DOMAIN history' : n \notin DOMAIN history => n = Len(history) + 1 /\ history'[n] = a
    <3>1. ASSUME NEW n \in DOMAIN history', n \notin DOMAIN history PROVE n = Len(history) + 1 /\ history'[n] = a
      <4>1. n - Len(history) = 1 /\ n \in Nat
        BY <1>5, <2>1, <2>2, <3>1
      <4>2. history'[n] = x[1]
        BY <2>2, <3>1, <4>1
      <4>. QED BY <1>5, <2>1, <4>1, <4>2
    <3>. QED BY <3>1
  <2>4. Len(history) + 1 \in DOMAIN history' /\ Len(history) + 1 \notin DOMAIN history
    BY <2>1, <2>2
  <2>. QED BY <2>1, <2>2, <2>3, <2>4
<1>10. UNCHANGED <<harness, run, input, sess, ops, jobs, drawn, proc, starts, strays, effects, stops>>
  BY DEF TakeMessage, SaveAnswer, host
<1>11. PICK v \in {"top", "fail"} : act' = [act EXCEPT !.pc = v]
  BY DEF SaveAnswer
<1>12. act'.pc = v /\ act'.done = act.done /\ act'.cells = act.cells /\ ActFields \subseteq DOMAIN act'
  BY <1>0, <1>11, ToPc DEF DriverShape
<1>13. \A n \in DOMAIN history' : /\ n \in DOMAIN history => history'[n] = history[n] /\ (AnswerAt(n)' <=> AnswerAt(n))
                                  /\ n \notin DOMAIN history => n = Len(history) + 1 /\ history'[n] = a
  BY <1>9 DEF AnswerAt
<1>14. \A n \in DOMAIN history : AnswerAt(n) => history[n].id \in 1..LastAnswer /\ history[n].id # d
  BY <1>2, <1>3 DEF AnswersNumbered
<1>15. \A n \in DOMAIN history' : AnswerAt(n)' /\ history'[n].id = d => n = Len(history) + 1
  BY <1>13, <1>14
<1>16. \E m \in DOMAIN history' : AnswerAt(m)' /\ history'[m].id = d
  <2>1. PICK m : m = Len(history) + 1
    OBVIOUS
  <2>. QED BY <1>4, <1>9, <2>1 DEF AnswerAt
<1>17. AnswersNumbered'
  <2>1. \A m \in DOMAIN history' : AnswerAt(m)' => history'[m].id \in 1..d
    BY <1>2, <1>3, <1>4, <1>13, <1>14
  <2>2. \A m, n \in DOMAIN history' : AnswerAt(m)' /\ AnswerAt(n)' /\ history'[m].id = history'[n].id => m = n
    <3>. SUFFICES ASSUME NEW m \in DOMAIN history', NEW n \in DOMAIN history', AnswerAt(m)', AnswerAt(n)',
                         history'[m].id = history'[n].id
                  PROVE  m = n
      OBVIOUS
    <3>1. CASE history'[m].id = d
      BY <1>15, <3>1
    <3>2. CASE history'[m].id # d
      <4>1. m \in DOMAIN history /\ n \in DOMAIN history
        BY <1>4, <1>13, <3>2
      <4>. QED BY <1>13, <4>1 DEF AnswersNumbered
    <3>. QED BY <3>1, <3>2
  <2>. QED BY <1>7, <1>8, <1>16, <2>1, <2>2 DEF AnswersNumbered
<1>18. CallsNamed'
  <2>1. \A y \in effects : y[1] \in 1..LastAnswer /\ y[2] \in Nat
    BY DEF CallsNamed
  <2>2. \A y \in effects : y[1] \in 1..d /\ y[1] # d /\ y[2] \in Nat
    BY <1>2, <1>3, <2>1
  <2>3. \A y \in effects : ~ThisCall(y)'
    BY <1>7, <2>2 DEF ThisCall
  <2>. QED BY <1>7, <1>8, <1>10, <2>2, <2>3 DEF CallsNamed, OneIdentityPerCall
<1>19. JobsAndPlan'
  <2>1. JobsKept'
    <3>1. JobsKept /\ jobs' = jobs /\ ops' \in Nat /\ ops' >= ops
      BY <1>10, JobsAndPlanParts DEF DriverShape, RestOK
    <3>. QED BY <1>5, <3>1, JobsStay
  <2>. QED BY <1>7, <2>1 DEF JobsAndPlan, JobsKept
<1>20. RunProcesses'
  <2>1. StdinCalled => StdinCalled'
    BY <1>5, StdinCallStays
  <2>2. PlannedProcess = {} /\ PlannedProcess' = {} /\ OwnSessions' = OwnSessions
    BY <1>0, <1>7, <1>10 DEF PlannedProcess, OwnSessions
  <2>. QED BY <1>0, <1>7, <1>10, <1>12, <2>1, <2>2 DEF RunProcesses, Live
<1>21. InputsHeard'
  BY <1>4, <1>5, <1>10, HeardStays
<1>22. DriverShape'
  <2>1. CheckpointOK'
    BY <1>6, <1>7 DEF CheckpointOK, phase
  <2>2. ActivationOK'
    BY <1>0, <1>7, <1>10, <1>12 DEF ActivationOK, DriverPcs, ActFields, Live
  <2>3. RestOK'
    BY <1>0, <1>9, <1>10 DEF RestOK, DriverShape, Live
  <2>. QED BY <2>1, <2>2, <2>3 DEF DriverShape
<1>23. BatchPaired'
  <2>1. ASSUME NEW m \in DOMAIN history', AnswerAt(m)', NEW k \in DOMAIN history'[m].calls
        PROVE  AnsweredIn(history', m, k) \/ (phase'.at = "tools" /\ history'[m].id = d /\ k >= 1)
    <3>1. CASE m \in DOMAIN history
      <4>1. AnswerAt(m) /\ history'[m] = history[m] /\ k \in DOMAIN history[m].calls
        BY <1>13, <2>1, <3>1
      <4>2. AnsweredIn(history, m, k)
        BY <1>0, <3>1, <4>1 DEF BatchPaired
      <4>3. \A j \in DOMAIN x : x[j] # ToolResult(history[m].id, k)
        BY <1>4, <1>5 DEF ToolResult
      <4>. QED BY <1>0, <1>5, <3>1, <4>2, <4>3, StillAnswered
    <3>2. CASE m \notin DOMAIN history
      <4>1. history'[m] = a /\ k \in DOMAIN r.calls
        BY <1>4, <1>13, <3>2
      <4>2. k \in 1..Len(r.calls) /\ r.calls # << >>
        BY <1>1, <4>1
      <4>. QED BY <1>1, <1>4, <1>7, <4>1, <4>2
    <3>. QED BY <3>1, <3>2
  <2>4. ResultsCalled(history')
    <3>1. x \in Seq(Entries) /\ \A k \in DOMAIN x : x[k].role # "result"
      BY <1>4, <1>5
    <3>2. ResultsCalled(history)
      BY DEF BatchPaired
    <3>. QED BY <1>0, <1>5, <3>1, <3>2, CalledStays
  <2>2. ASSUME NEW n \in DOMAIN history', history'[n].role = "result", ~history'[n].note
        PROVE  history'[n].id \in 1..d /\ history'[n].id # d
    <3>1. n \in DOMAIN history /\ history'[n] = history[n]
      BY <1>4, <1>13, <2>2
    <3>2. history[n].id \in 1..LastAnswer
      BY <2>2, <3>1 DEF BatchPaired
    <3>. QED BY <1>2, <1>3, <3>1, <3>2
  <2>3. ASSUME NEW m \in DOMAIN history', AnswerAt(m)', history'[m].id = d, NEW j \in (m + 1)..Len(history')
        PROVE  FALSE
    BY <1>9, <1>15, <2>3
  <2>. QED BY <1>7, <1>8, <2>1, <2>2, <2>3, <2>4 DEF BatchPaired
<1>. QED BY <1>17, <1>18, <1>19, <1>20, <1>21, <1>22, <1>23

\* What the last commit appends: a result for each call of the batch that has none.
LEMMA UnfinishedFacts ==
  ASSUME DriverInv, phase.at = "tools", NEW m \in DOMAIN history, AnswerAt(m), history[m].id = phase.id
  PROVE  \E L \in Nat :
           /\ Unfinished \in Seq(Entries) /\ Len(Unfinished) = L /\ DOMAIN Unfinished = 1..L
           /\ \A k \in 1..L : Unfinished[k] = ToolResult(phase.id, phase.index + k - 1)
           /\ \A k \in DOMAIN history[m].calls : k >= phase.index => (k + 1) - phase.index \in 1..L
           /\ \A k \in 1..L : phase.index + k - 1 \in DOMAIN history[m].calls
<1>. USE DEF DriverInv
<1>1. Calls(phase.id) = history[m].calls /\ history[m].calls \in Seq(ToolNames)
  BY BatchCalls
<1>2. PICK d, i, c : d = phase.id /\ i = phase.index /\ c = Len(history[m].calls) /\ d \in Nat /\ i \in Nat \ {0} /\ c \in Nat
                     /\ DOMAIN history[m].calls = 1..c
  BY <1>1 DEF DriverShape, CheckpointOK
<1>. DEFINE L == IF c + 1 - i < 0 THEN 0 ELSE c + 1 - i
            u == [k \in 1..L |-> ToolResult(d, i + k - 1)]
<1>3. L \in Nat /\ 1..(c + 1 - i) = 1..L
  BY <1>2
<1>4. Unfinished = u
  BY <1>1, <1>2, <1>3 DEF Unfinished
<1>5. \A k \in 1..L : i + k - 1 \in Nat
  BY <1>2, <1>3
<1>6. \A k \in 1..L : ToolResult(d, i + k - 1) \in Entries
  BY <1>2, <1>5 DEF ToolResult, Entries
<1>7. \A k \in 1..c : k >= i => (k + 1) - i \in 1..L
  BY <1>2
<1>10. \A k \in 1..L : i + k - 1 \in 1..c
  BY <1>2
<1>. HIDE DEF L
<1>8. u \in [1..L -> Entries]
  BY <1>6
<1>9. u \in Seq(Entries) /\ Len(u) = L /\ DOMAIN u = 1..L
  BY <1>3, <1>8
<1>. QED BY <1>2, <1>3, <1>4, <1>7, <1>9, <1>10

LEMMA EndInv ==
  ASSUME DriverInv, End PROVE DriverInv'
<1>. USE DEF DriverInv
<1>0. act.pc \in {"cleanup", "failing"} /\ Live /\ history \in Seq(Entries) /\ ToClean \subseteq act.done
      /\ input \in [Inputs -> {"none", "pending", "handled", "rejected"}]
  BY DEF End, Ending, DriverShape, ActivationOK, RestOK
<1>1. /\ UNCHANGED <<harness, sess, ops, jobs, drawn, proc, starts, strays, effects, stops>>
      /\ act' = NoActivation /\ act'.pc = "none"
      /\ run'.status \in {"aborted", "failed"} /\ {"status", "abort"} \subseteq DOMAIN run'
  BY ToNone DEF End, host, DriverShape, RestOK
<1>2. PICK x : x = Unfinished
  OBVIOUS
<1>3. /\ x \in Seq(Entries) /\ \A k \in DOMAIN x : x[k].role = "result" /\ phase.at = "tools" /\ x[k].id = phase.id
                             /\ Called(history, x[k].id, x[k].index)
  <2>1. CASE phase.at = "tools"
    <3>1. PICK m \in DOMAIN history : AnswerAt(m) /\ history[m].id = phase.id
      BY <2>1 DEF AnswersNumbered
    <3>2. PICK L \in Nat :
           /\ x \in Seq(Entries) /\ Len(x) = L /\ DOMAIN x = 1..L
           /\ \A k \in 1..L : x[k] = ToolResult(phase.id, phase.index + k - 1)
           /\ \A k \in 1..L : phase.index + k - 1 \in DOMAIN history[m].calls
      BY <1>2, <2>1, <3>1, UnfinishedFacts
    <3>3. \A k \in 1..L : /\ x[k].role = "result" /\ x[k].id = phase.id
                          /\ x[k].index \in DOMAIN history[m].calls
      BY <3>2 DEF ToolResult
    <3>. QED BY <2>1, <3>1, <3>2, <3>3 DEF Called, AnswerAt
  <2>2. CASE phase.at # "tools"
    <3>1. x = << >>
      BY <1>2, <2>2 DEF Unfinished
    <3>. QED BY <3>1
  <2>. QED BY <2>1, <2>2
<1>4. cp'.phase = AtBoundary(0) /\ {"phase", "failure"} \subseteq DOMAIN cp' /\ history' = history \o x
  BY <1>2, <1>3, SaveFacts DEF End
<1>5. phase'.at = "boundary"
  BY <1>4 DEF phase, AtBoundary
<1>6. /\ history' \in Seq(Entries) /\ Len(history') = Len(history) + Len(x)
      /\ DOMAIN history = 1..Len(history) /\ DOMAIN history' = 1..Len(history')
      /\ \A n \in DOMAIN history : n \in DOMAIN history' /\ history'[n] = history[n]
      /\ \A n \in DOMAIN history' : n \notin DOMAIN history =>
               n - Len(history) \in DOMAIN x /\ history'[n] = x[n - Len(history)]
  <2>1. x \in Seq(Entries)
    BY <1>3
  <2>. QED BY <1>0, <1>4, <2>1, Extended
<1>7. Len(history) \in Nat /\ Len(x) \in Nat /\ DOMAIN x = 1..Len(x)
  BY <1>0, <1>3
<1>8. LastAnswer' = LastAnswer /\ LastAnswer \in Nat
  BY <1>0, <1>3, <1>4, SameAnswers, LastAnswerType
<1>9. \A n : AnswerAt(n)' => AnswerAt(n) /\ n \in DOMAIN history /\ history'[n] = history[n]
  BY <1>3, <1>6 DEF AnswerAt
<1>10. AnswersNumbered'
  BY <1>5, <1>8, <1>9 DEF AnswersNumbered
<1>11. CallsNamed'
  BY <1>1, <1>5, <1>8, OutsideNamed
<1>12. JobsAndPlan'
  <2>1. JobsKept'
    <3>1. JobsKept /\ jobs' = jobs /\ ops' \in Nat /\ ops' >= ops /\ x \in Seq(Entries)
      BY <1>1, <1>3, JobsAndPlanParts DEF DriverShape, RestOK
    <3>. QED BY <1>4, <3>1, JobsStay
  <2>. QED BY <1>5, <2>1 DEF JobsAndPlan, JobsKept
<1>13. RunProcesses'
  <2>1. StdinCalled => StdinCalled'
    BY <1>3, <1>4, StdinCallStays
  <2>2. \A e \in 1..MaxEffects : proc[e] = "alive" => e \in strays
    <3>. SUFFICES ASSUME NEW e \in 1..MaxEffects, proc[e] = "alive", e \notin strays PROVE FALSE
      OBVIOUS
    <3>1. e \in PlannedProcess \union OwnSessions
      BY <1>0 DEF RunProcesses
    <3>2. e \in ToClean
      BY <3>1 DEF ToClean, OwnSessions, Earlier
    <3>. QED BY <1>0, <3>2 DEF RunProcesses
  <2>. QED BY <1>1, <1>5, <2>1, <2>2 DEF RunProcesses, Live
<1>14. InputsHeard'
  <2>1. \A i \in Inputs : input'[i] = "handled" <=> input[i] = "handled"
    BY <1>0 DEF End
  <2>2. \A i \in Inputs, n \in DOMAIN history' : history'[n] = User(i) => n \in DOMAIN history /\ history[n] = User(i)
    BY <1>3, <1>6 DEF User
  <2>3. \A i \in Inputs, n \in DOMAIN history : history[n] = User(i) => n \in DOMAIN history' /\ history'[n] = User(i)
    BY <1>6
  <2>. QED BY <1>1, <2>1, <2>2, <2>3 DEF InputsHeard
<1>15. DriverShape'
  <2>1. CheckpointOK'
    BY <1>4, <1>5 DEF CheckpointOK
  <2>2. ActivationOK'
    BY <1>1 DEF ActivationOK, DriverPcs
  <2>3. RestOK'
    <3>1. input' \in [Inputs -> {"none", "pending", "handled", "rejected"}]
      BY <1>0 DEF End
    <3>. QED BY <1>1, <1>5, <1>6, <3>1 DEF RestOK, DriverShape, Live, Ended
  <2>. QED BY <2>1, <2>2, <2>3 DEF DriverShape
<1>16. BatchPaired'
  <2>1. ASSUME NEW m \in DOMAIN history', AnswerAt(m)', NEW k \in DOMAIN history'[m].calls
        PROVE  AnsweredIn(history', m, k)
    <3>1. m \in DOMAIN history /\ AnswerAt(m) /\ history'[m] = history[m] /\ k \in DOMAIN history[m].calls
      BY <1>9, <2>1
    <3>2. k \in Nat
      BY <3>1, MessageTypes DEF AnswerAt
    <3>3. CASE phase.at # "tools"
      <4>1. AnsweredIn(history, m, k)
        BY <3>1, <3>3 DEF BatchPaired
      <4>2. \A j \in DOMAIN x : x[j] # ToolResult(history[m].id, k)
        BY <1>3, <3>3
      <4>. QED BY <1>0, <1>3, <1>4, <3>1, <4>1, <4>2, StillAnswered
    <3>4. CASE phase.at = "tools"
      <4>1. PICK d, i : d = phase.id /\ i = phase.index /\ i \in Nat \ {0} /\ d \in Nat
        BY <3>4 DEF DriverShape, CheckpointOK
      <4>2. PICK mm \in DOMAIN history : AnswerAt(mm) /\ history[mm].id = d
        BY <3>4, <4>1 DEF AnswersNumbered
      <4>3. PICK L \in Nat :
             /\ Len(x) = L /\ DOMAIN x = 1..L
             /\ \A q \in 1..L : x[q] = ToolResult(d, i + q - 1)
             /\ \A q \in DOMAIN history[mm].calls : q >= i => (q + 1) - i \in 1..L
        BY <1>2, <3>4, <4>1, <4>2, UnfinishedFacts
      <4>4. \A q \in 1..L : x[q].role = "result" /\ x[q].id = d /\ x[q].index = i + q - 1 /\ ~x[q].note
        BY <4>3 DEF ToolResult
      <4>5. CASE AnsweredIn(history, m, k)
        <5>1. PICK n \in DOMAIN history : history[n] = ToolResult(history[m].id, k)
          BY <4>5 DEF AnsweredIn
        <5>2. history[n].role = "result" /\ history[n].id = history[m].id /\ history[n].index = k /\ ~history[n].note
          BY <5>1 DEF ToolResult
        <5>3. history[m].id = d => k < i
          BY <3>4, <4>1, <5>2 DEF BatchPaired
        <5>4. \A j \in 1..L : x[j] # ToolResult(history[m].id, k)
          <6>. SUFFICES ASSUME NEW j \in 1..L, x[j] = ToolResult(history[m].id, k) PROVE FALSE
            OBVIOUS
          <6>1. x[j].id = history[m].id /\ x[j].index = k
            BY DEF ToolResult
          <6>. QED BY <3>2, <4>1, <4>4, <5>3, <6>1
        <5>. QED BY <1>0, <1>3, <1>4, <3>1, <4>3, <4>5, <5>4, StillAnswered
      <4>6. CASE ~AnsweredIn(history, m, k)
        <5>1. history[m].id = d /\ k >= i /\ mm = m
          BY <3>1, <4>1, <4>2, <4>6 DEF BatchPaired, AnswersNumbered
        <5>2. PICK q \in 1..L : q = (k + 1) - i
          BY <3>1, <4>3, <5>1
        <5>3. i + q - 1 = k
          BY <3>2, <4>1, <5>2
        <5>4. PICK n : n = Len(history) + q
          OBVIOUS
        <5>5. n \in DOMAIN history' /\ n \notin DOMAIN history /\ n - Len(history) = q /\ n > m /\ n \in Nat
          BY <1>6, <1>7, <3>1, <4>3, <5>2, <5>4
        <5>6. history'[n] = x[q]
          BY <1>6, <5>5
        <5>7. history'[n] = ToolResult(history'[m].id, k)
          BY <3>1, <4>3, <5>1, <5>3, <5>6
        <5>8. \A j \in (m + 1)..(n - 1) : history'[j].role \notin Unusable
          <6>. SUFFICES ASSUME NEW j \in (m + 1)..(n - 1) PROVE history'[j].role \notin Unusable
            OBVIOUS
          <6>1. j \in DOMAIN history'
            BY <1>6, <1>7, <3>1, <5>5
          <6>2. CASE j \in DOMAIN history
            <7>1. j \in (m + 1)..Len(history)
              BY <1>6, <1>7, <3>1, <6>2
            <7>. QED BY <1>6, <3>1, <3>4, <4>1, <5>1, <6>2, <7>1 DEF BatchPaired
          <6>3. CASE j \notin DOMAIN history
            BY <1>3, <1>6, <6>1, <6>3 DEF Unusable
          <6>. QED BY <6>2, <6>3
        <5>9. \A j \in DOMAIN history' : history'[j] = history'[n] => j = n
          <6>. SUFFICES ASSUME NEW j \in DOMAIN history', history'[j] = x[q] PROVE j = n
            BY <5>6
          <6>1. CASE j \in DOMAIN history
            <7>1. history[j].role = "result" /\ history[j].id = d /\ history[j].index = k /\ ~history[j].note
              BY <1>6, <4>4, <5>3, <6>1
            <7>2. history[j].index < i
              BY <3>4, <4>1, <6>1, <7>1 DEF BatchPaired
            <7>. QED BY <3>2, <4>1, <5>1, <7>1, <7>2
          <6>2. CASE j \notin DOMAIN history
            <7>1. PICK p \in 1..L : p = j - Len(history) /\ history'[j] = x[p]
              BY <1>6, <4>3, <6>2
            <7>2. i + p - 1 = i + q - 1
              BY <4>4, <7>1
            <7>3. p = q
              BY <4>1, <7>2
            <7>. QED BY <1>6, <1>7, <5>4, <7>1, <7>3
          <6>. QED BY <6>1, <6>2
        <5>. QED BY <5>5, <5>7, <5>8, <5>9 DEF AnsweredIn
      <4>. QED BY <4>5, <4>6
    <3>. QED BY <3>3, <3>4
  <2>3. ResultsCalled(history')
    <3>1. x \in Seq(Entries) /\ \A k \in DOMAIN x : Called(history, x[k].id, x[k].index)
      BY <1>3
    <3>2. ResultsCalled(history)
      BY DEF BatchPaired
    <3>. QED BY <1>0, <1>4, <3>1, <3>2, CalledStays
  <2>2. ASSUME NEW n \in DOMAIN history', history'[n].role = "result", ~history'[n].note PROVE history'[n].id \in 1..LastAnswer
    <3>1. CASE n \in DOMAIN history
      BY <1>6, <2>2, <3>1 DEF BatchPaired
    <3>2. CASE n \notin DOMAIN history
      <4>1. phase.at = "tools" /\ history'[n].id = phase.id
        BY <1>3, <1>6, <3>2
      <4>2. phase.id \in 1..LastAnswer
        BY <4>1 DEF AnswersNumbered
      <4>. QED BY <4>1, <4>2
    <3>. QED BY <3>1, <3>2
  <2>. QED BY <1>5, <1>8, <2>1, <2>2, <2>3 DEF BatchPaired
<1>. QED BY <1>10, <1>11, <1>12, <1>13, <1>14, <1>15, <1>16

-----------------------------------------------------------------------------
(* All together. *)

\* The harnesses take the same steps.
AnyStep ==
    \/ Resume \/ BeginRun \/ EndAtOnce \/ TurnToAbort \/ Drain \/ TurnToFailure
    \/ Boundary \/ CommitInputs \/ Complete \/ Ask \/ SaveJob \/ TakeMessage \/ TakeAnswer \/ LeaveAnswer
    \/ EndBatch \/ Prepare \/ SendStart \/ SaveStarted \/ LeaveStart \/ Poll \/ Apply \/ SaveApplied
    \/ SendInput \/ SaveWritten \/ Unreachable
    \/ Fail \/ AbortModel \/ AbortElsewhere \/ End \/ (\E e \in 0..MaxEffects : Terminate(e))
    \/ Admit \/ RunScript \/ ScriptLost \/ Notify

LEMMA StepsAreShared ==
  ASSUME DriverStep PROVE AnyStep
<1>1. CodexStep => AnyStep
  BY DEF CodexStep, AnyStep
<1>2. UnifiedStep => AnyStep
  BY DEF UnifiedStep, UnifiedRun, UnifiedDrive, UnifiedAsk, UnifiedBoundary, UnifiedAssistant, UnifiedTool,
         UnifiedCleanup, UnifiedAbort, UnifiedFail, AnyStep
<1>3. CcStep => AnyStep
  BY DEF CcStep, CcRun, CcDrive, CcAsk, CcBoundary, CcAssistant, CcPrepare, CcExecute, CcTool, CcAbort, CcFail, AnyStep
<1>4. EnvStep => AnyStep
  BY DEF EnvStep, EnvRun, EnvDrive, EnvAsk, EnvBoundary, EnvAssistant, EnvPrepare, EnvExecute, EnvTool,
         EnvAbortPlan, EnvAbort, EnvFail, AnyStep
<1>5. SitesStep => AnyStep
  BY DEF SitesStep, SitesRun, SitesDrive, SitesAsk, SitesBoundary, SitesAssistant, SitesPlan, SitesAbort, SitesFail, AnyStep
<1>. QED BY <1>1, <1>2, <1>3, <1>4, <1>5 DEF DriverStep

LEMMA DriverKeepsInv ==
  ASSUME DriverInv, AnyStep PROVE DriverInv'
<1>0. DriverShape
  BY DEF DriverInv
<1>1. CASE Resume \/ TurnToAbort \/ TurnToFailure \/ AbortElsewhere \/ LeaveAnswer \/ LeaveStart \/ Drain \/ Fail
         \/ Unreachable
  BY <1>0, <1>1, ResumeMoves, TurnsMove, StopMoves, FailMoves, MovedInv
<1>2. CASE BeginRun \/ EndAtOnce \/ CommitInputs
  BY <1>2, BeginRunInv, EndAtOnceInv, CommitInputsInv
<1>3. CASE Boundary
  BY <1>0, <1>3, BoundaryMoves, MovedInv, PlansModelInv
<1>4. CASE Complete
  BY <1>0, <1>4, CompleteMoves, MovedInv, CompletesInv
<1>5. CASE Ask \/ SaveJob
  BY <1>5, AskInv, SaveJobInv
<1>6. CASE TakeMessage
  BY <1>0, <1>6, AnswerMoves, MovedInv, SaveAnswerInv
<1>7. CASE TakeAnswer
  BY <1>0, <1>7, AnswerMoves, MovedInv, RetriesInv
<1>8. CASE EndBatch \/ Prepare \/ SendStart \/ SaveStarted \/ Poll \/ Apply \/ SaveApplied
         \/ SendInput \/ SaveWritten
  BY <1>8, SendInputInv, SaveWrittenInv, EndBatchInv, PrepareInv, SendStartInv, SaveStartedInv, PollInv, ApplyInv, SaveAppliedInv
<1>9. CASE AbortModel \/ End \/ (\E e \in 0..MaxEffects : Terminate(e))
  BY <1>9, SubmitForAbortInv, SaveAbortJobInv, AbortJobInv, EndInv, TerminateInv DEF AbortModel
<1>10. CASE Admit \/ RunScript \/ ScriptLost \/ Notify
  BY <1>10, AdmitInv, RunScriptInv, ScriptLostInv, NotifyInv
<1>. QED BY <1>1, <1>2, <1>3, <1>4, <1>5, <1>6, <1>7, <1>8, <1>9, <1>10 DEF AnyStep

LEMMA DriverNextKeepsInv ==
  ASSUME DriverInv, [DriverNext]_driverVars PROVE DriverInv'
<1>0. DriverShape
  BY DEF DriverInv
<1>1. CASE DriverStep
  BY <1>1, StepsAreShared, DriverKeepsInv
<1>2. CASE \E i \in Inputs : Arrive(i)
  BY <1>2, ArriveInv
<1>3. CASE RequestAbort
  BY <1>3, RequestAbortInv
<1>4. CASE SeeAbort \/ Stop \/ Outage
  BY <1>0, <1>4, SeeAbortMoves, StopMoves, OutageMoves, MovedInv
<1>5. CASE \E o \in 1..MaxOps : JobEnds(o)
  BY <1>5, JobEndsInv
<1>6. CASE \E e \in 0..MaxEffects : HostStarts(e) \/ HostEnds(e)
  BY <1>6, HostInv
<1>7. CASE UNCHANGED driverVars
  <2>1. OnlyActivation /\ UNCHANGED <<act, cp, run, input>>
    BY <1>0, <1>7, StillAt DEF driverVars, durable, host, DriverShape, RestOK
  <2>2. ActivationMoved
    BY <1>0, <2>1 DEF ActivationMoved, DriverShape, ActivationOK, phase, Live, Pending
  <2>. QED BY <2>2, MovedInv
<1>. QED BY <1>1, <1>2, <1>3, <1>4, <1>5, <1>6, <1>7 DEF DriverNext

LEMMA DriverInitInv ==
  ASSUME DriverInit PROVE DriverInv
<1>0. /\ run.status = "live" /\ {"status", "abort"} \subseteq DOMAIN run
      /\ input \in [Inputs -> {"none", "pending", "handled", "rejected"}] /\ \A i \in Inputs : input[i] # "handled"
      /\ history = << >> /\ cp = NoCheckpoint /\ sess \subseteq {0} /\ act = NoActivation /\ act.pc = "none"
      /\ ops = 0 /\ jobs = [o \in 1..MaxOps |-> NoJob] /\ drawn = 0 /\ starts = {} /\ effects = {} /\ stops = 0
      /\ DOMAIN proc = 0..MaxEffects /\ \A e \in 1..MaxEffects : proc[e] # "alive"
      /\ proc[0] # "killed" /\ {"phase", "failure"} \subseteq DOMAIN cp /\ phase.at = "none"
      /\ harness \notin KeepsSessions => sess = {}
  BY HarnessAssumption DEF DriverInit, Earlier, NoActivation, NoCheckpoint, phase
<1>1. LastAnswer \in Nat /\ history \in Seq(Entries) /\ DOMAIN history = {} /\ Len(history) = 0
  BY <1>0, LastAnswerType
<1>2. DriverShape
  BY <1>0, <1>1, HarnessAssumption DEF DriverShape, CheckpointOK, ActivationOK, RestOK, DriverPcs, Live, Ended
<1>3. AnswersNumbered /\ CallsNamed /\ BatchPaired /\ InputsHeard
  BY <1>0, <1>1 DEF AnswersNumbered, CallsNamed, BatchPaired, ResultsCalled, InputsHeard, OneIdentityPerCall, ThisCall, Pending
<1>4. JobsAndPlan
  BY <1>0 DEF JobsAndPlan, NoJob
<1>5. RunProcesses
  BY <1>0, HarnessAssumption DEF RunProcesses
<1>. QED BY <1>2, <1>3, <1>4, <1>5 DEF DriverInv

\* The invariant the driver keeps.
LEMMA DriverKeepsItsInvariant == DriverSpec => []DriverInv
<1>. QED BY DriverInitInv, DriverNextKeepsInv, PTL DEF DriverSpec

LEMMA InvMeansOnce ==
  ASSUME DriverInv PROVE CallsAreCarriedOutOnce
<1>. USE DEF DriverInv
<1>1. OneIdentityPerCall
  BY DEF CallsNamed
<1>2. \A o \in 1..MaxOps : jobs[o] # NoJob =>
          \E n \in 0..Len(history) : jobs[o].payloads = {n} /\ Paired(SubSeq(history, 1, n))
  BY DEF JobsAndPlan, SubmittedAs
<1>3. ~Live => Paired(history)
  BY PairedOutside DEF DriverShape, RestOK
<1>. QED BY <1>1, <1>2, <1>3 DEF CallsAreCarriedOutOnce, SubmittedHistoryIsPaired

LEMMA InvMeansNothingLeft ==
  ASSUME DriverInv PROVE NothingIsLeftOver
<1>. USE DEF DriverInv
<1>1. CleanupIsExact
  <2>1. StdinCalled => \E m \in DOMAIN history :
              history[m].role = "assistant" /\ "stdin" \in {history[m].calls[k] : k \in DOMAIN history[m].calls}
    BY DEF StdinCalled, AnswerAt
  <2>. QED BY <2>1 DEF RunProcesses, CleanupIsExact, Earlier
<1>2. ASSUME NEW i \in Inputs
      PROVE  Cardinality({m \in DOMAIN history : history[m] = User(i)}) = IF input[i] = "handled" THEN 1 ELSE 0
  <2>1. CASE input[i] = "handled"
    <3>1. PICK m \in DOMAIN history : history[m] = User(i)
      BY <2>1 DEF InputsHeard
    <3>2. {n \in DOMAIN history : history[n] = User(i)} = {m}
      BY <3>1 DEF InputsHeard
    <3>. QED BY <2>1, <3>2, FS_Singleton
  <2>2. CASE input[i] # "handled"
    <3>1. {n \in DOMAIN history : history[n] = User(i)} = {}
      BY <2>2 DEF InputsHeard
    <3>. QED BY <2>2, <3>1, FS_EmptySet
  <2>. QED BY <2>1, <2>2
<1>3. InputsOnce
  BY <1>2 DEF InputsOnce, InputsHeard
<1>. QED BY <1>1, <1>3 DEF NothingIsLeftOver

\* The driver's variables keep their types for any inputs, batches and bounds: the
\* sessions on record and the identities drawn stay within what was drawn.
THEOREM DriverTypesCorrect == DriverSpec => []DriverTypeOK
<1>1. ASSUME DriverInv PROVE DriverTypeOK
  BY <1>1 DEF DriverInv, DriverShape, CheckpointOK, RestOK, DriverTypeOK, phase
<1>. QED BY <1>1, DriverKeepsItsInvariant, PTL

\* For any inputs, batches and bounds: whatever is saved, lost and repeated between
\* the steps of a turn, a call is dispatched under one identity, and what is sent to
\* the model, and what an ended run leaves, has one own result for each call and no
\* result, a script's notifications included, of a call that was not made before it.
THEOREM EveryCallIsCarriedOutOnce == DriverSpec => []CallsAreCarriedOutOnce
<1>. QED BY DriverKeepsItsInvariant, InvMeansOnce, PTL

\* A run that was aborted or has failed leaves no process behind but one whose start
\* request outlived its driver or whose first call ended in an error while it ran, it
\* kills no earlier run's process but the one its call was using, and every input enters the history once, when it is handled.
THEOREM NothingIsEverLeftOver == DriverSpec => []NothingIsLeftOver
<1>. QED BY DriverKeepsItsInvariant, InvMeansNothingLeft, PTL

=============================================================================
