---------------------------- MODULE PlatformCalls ----------------------------
(***************************************************************************)
(* Calls that change the platform's sessions and runs, with their receipts:*)
(* the application's (mutations.rs), an agent's (capabilities.rs, run      *)
(* outputs, environments), a site backend's (site_sdk.rs, capabilities.rs),*)
(* and the event stream of a run (stream.rs).                              *)
(*                                                                         *)
(* Every call names an idempotency key.  A reply may be lost and the call  *)
(* sent again, by the same caller, by the worker that took the run over,   *)
(* or at the same time through another replica.  A call that asks a        *)
(* provider or a gateway first does so between two transactions.           *)
(*                                                                         *)
(* The calls are about one session.  Its first run is there from the start *)
(* and is the one that is streamed; a second one may follow.  The agent    *)
(* that calls works for a run of another session, under a lease epoch.     *)
(***************************************************************************)
EXTENDS Integers, Sequences, FiniteSets

CONSTANTS
    Calls,       \* requests as they are sent
    CallKeys,    \* idempotency keys
    Workloads,   \* what is sent: each call's key, hash of its arguments, operation
    NoReply,     \* nothing recorded
    MaxEpoch,    \* lease epochs of the agent's run
    MaxResends,  \* calls sent again after a lost reply
    MaxSwitches, \* changes of the harness's or the site's admission
    BatchSize    \* events the stream reads at once

AllCallOps ==
    ({"agent", "site"} \X {"sessions.create", "runs.create", "runs.steer", "runs.abort"})
        \cup ({"site"} \X {"sessions.start", "sessions.send", "sessions.stop"})
        \cup ({"agent"} \X {"output", "environment"})
        \cup ({"app"} \X {"create_session", "fork", "start_run", "submit_input", "abort"})

ASSUME CallsAssumption ==
    /\ MaxEpoch \in Nat \ {0} /\ BatchSize \in Nat \ {0}
    /\ {MaxResends, MaxSwitches} \subseteq Nat
    /\ \A w \in Workloads :
          /\ \A q \in Calls : w[q].key \in CallKeys /\ w[q].op \in AllCallOps
          /\ \A p, q \in Calls : w[p].key = w[q].key => w[p].op = w[q].op
    /\ NoReply \notin [body : {w[q].body : w \in Workloads, q \in Calls}, epoch : Nat, result : Nat]

VARIABLES
    epoch,      \* lease epoch of the agent's run
    admission,  \* is the harness enabled, the site ready, the setter at work
    world,      \* the session, its runs, and other live sessions
    effects,    \* effects so far: key, epoch
    slips,      \* receipts by key
    reqs,       \* the calls
    holders,    \* calls whose writing transaction is open
    feed,       \* the reader of the first run's events
    resends, switches
callVars == <<epoch, admission, world, effects, slips, reqs, holders, feed, resends, switches>>

KeyOf(q) == reqs[q].key
BodyOf(q) == reqs[q].body
By(q) == reqs[q].op[1]
Method(q) == reqs[q].op[2]
LiveRun == IF world.first.live THEN "first" ELSE IF world.second = "live" THEN "second" ELSE "none"

CallBodies == {w[q].body : w \in Workloads, q \in Calls}
FirstRun == [live : BOOLEAN, claimed : BOOLEAN, abort : BOOLEAN]
Worlds == [first : FirstRun, second : {"none", "live", "ended"}, others : SUBSET Calls,
           output : CallBodies \cup {NoReply}, revision : Nat, events : Nat]
SlipRows == [body : CallBodies, epoch : Nat, result : Nat]
Requests == [key : CallKeys, body : CallBodies, op : AllCallOps,
             pc : {"unsent", "new", "discover", "ready", "writing", "done", "refused"}, epoch : Nat,
             answer : Nat \cup {NoReply}, saw : [revision : Nat, run : {"first", "second", "none"}]]
Feeds == [cursor : Nat, buffer : Seq(Nat), received : Seq(Nat), pc : {"read", "check", "ended"}]

CallsTypeOK ==
    /\ epoch \in Nat /\ admission \in [harness : BOOLEAN, site : BOOLEAN, changing : BOOLEAN]
    /\ world \in Worlds /\ effects \in Seq([key : CallKeys, epoch : Nat])
    /\ slips \in [CallKeys -> SlipRows \cup {NoReply}] /\ reqs \in [Calls -> Requests]
    /\ holders \subseteq Calls /\ feed \in Feeds
    /\ resends \in Nat /\ switches \in Nat

\* The operation is the key's scope: calls that share a key share their operation.
CallsInit ==
    /\ epoch = 1
    /\ admission = [harness |-> TRUE, site |-> TRUE, changing |-> FALSE]
    /\ \E claimed \in BOOLEAN :
          world = [first |-> [live |-> TRUE, claimed |-> claimed, abort |-> FALSE], second |-> "none",
                   others |-> {}, output |-> NoReply, revision |-> 0, events |-> 1]
    /\ effects = <<>>
    /\ slips = [k \in CallKeys |-> NoReply]
    /\ \E w \in Workloads :
          reqs = [q \in Calls |-> [key |-> w[q].key, body |-> w[q].body, op |-> w[q].op, pc |-> "unsent",
                                   epoch |-> 1, answer |-> NoReply, saw |-> [revision |-> 0, run |-> "none"]]]
    /\ holders = {}
    /\ feed = [cursor |-> 0, buffer |-> <<>>, received |-> <<>>, pc |-> "read"]
    /\ resends = 0
    /\ switches = 0

\* What changes of a call after it was made.
Becomes(q, pc, under, answer, saw) ==
    reqs' = [reqs EXCEPT ![q] = [key |-> KeyOf(q), body |-> BodyOf(q), op |-> reqs[q].op, pc |-> pc,
                                 epoch |-> under, answer |-> answer, saw |-> saw]]

\* The caller looks at the session and sends; the same arguments say the same again.
SendCall(q) ==
    /\ reqs[q].pc = "unsent"
    /\ LET same == {p \in Calls : reqs[p].pc # "unsent" /\ KeyOf(p) = KeyOf(q) /\ BodyOf(p) = BodyOf(q)}
       IN  Becomes(q, "new", epoch, reqs[q].answer,
                   IF same = {} THEN [revision |-> world.revision, run |-> LiveRun]
                   ELSE reqs[CHOOSE p \in same : TRUE].saw)
    /\ UNCHANGED <<epoch, admission, world, effects, slips, holders, feed, resends, switches>>

-----------------------------------------------------------------------------
(***************************************************************************)
(* Receipts (receipts.rs)                                                  *)
(***************************************************************************)
Slip(q) == slips[KeyOf(q)]
NoSlip(q) == Slip(q) = NoReply

\* replay: a key that was used with other arguments is a conflict.
SameRequest(q) == Slip(q).body = BodyOf(q)

\* authorize: the agent holds the lease, the site is ready and has access.
Authorized(q) ==
    /\ By(q) = "agent" => reqs[q].epoch = epoch
    /\ By(q) = "site" => admission.site

\* worker_replay and Caller::replay: who may read a receipt that is there.
MayReadSlip(q) ==
    /\ By(q) = "agent" => Slip(q).epoch = reqs[q].epoch \/ reqs[q].epoch = epoch
    /\ By(q) = "site" => admission.site

SetCall(q, pc, answer) == Becomes(q, pc, reqs[q].epoch, answer, reqs[q].saw)
Refuse(q) == SetCall(q, "refused", NoReply)

\* A receipt that is there answers the call, or refuses it.
AnswerFromSlip(q) ==
    /\ ~NoSlip(q)
    /\ IF SameRequest(q) /\ MayReadSlip(q) THEN SetCall(q, "done", Slip(q).result) ELSE Refuse(q)
    /\ UNCHANGED holders

-----------------------------------------------------------------------------
(***************************************************************************)
(* The transactions of a call                                              *)
(***************************************************************************)
TwoTransactions(q) ==
    Method(q) \in {"sessions.create", "runs.create", "runs.steer", "runs.abort", "sessions.start", "environment"}

\* The first of two transactions: the receipt, the authority, nothing written.
BeforeDiscovery(q) ==
    /\ reqs[q].pc = "new" /\ TwoTransactions(q)
    /\ \/ AnswerFromSlip(q)
       \/ /\ NoSlip(q) /\ UNCHANGED holders
          /\ IF Authorized(q) /\ (Method(q) = "sessions.start" => admission.harness)
             THEN SetCall(q, "discover", NoReply) ELSE Refuse(q)
    /\ UNCHANGED <<epoch, admission, world, effects, slips, feed, resends, switches>>

\* The provider's accounts, the gateway's machine or snapshot; or their failure.
DiscoverAccounts(q) ==
    /\ reqs[q].pc = "discover"
    /\ SetCall(q, "ready", NoReply) \/ (Method(q) \notin {"runs.steer", "runs.abort"} /\ Refuse(q))
    /\ UNCHANGED <<epoch, admission, world, effects, slips, holders, feed, resends, switches>>

\* Which operations go through require_enabled, and so hold the project's shared lock.
NeedsAdmission(q) ==
    \/ Method(q) \in {"sessions.create", "runs.create", "runs.steer", "sessions.start", "sessions.send",
                      "sessions.stop", "create_session", "fork", "start_run"}
    \/ reqs[q].op = <<"site", "runs.abort">>

\* Faulty variant: the second transaction does not look for a receipt again.
LooksForSlipOnce(q) == ~TwoTransactions(q)
LooksForSlip(q) == TRUE

\* The writing transaction: the advisory lock of the key, the receipt, the locks of the caller's
\* run and of the object, then authority and admission.
BeginWrite(q) ==
    /\ reqs[q].pc = "ready" \/ (reqs[q].pc = "new" /\ ~TwoTransactions(q))
    /\ \A p \in holders : KeyOf(p) # KeyOf(q)
    /\ NeedsAdmission(q) => ~admission.changing
    /\ \/ LooksForSlip(q) /\ AnswerFromSlip(q)
       \/ /\ NoSlip(q) \/ ~LooksForSlip(q)
          /\ IF Authorized(q) /\ (NeedsAdmission(q) => admission.harness)
             THEN SetCall(q, "writing", NoReply) /\ holders' = holders \cup {q}
             ELSE Refuse(q) /\ UNCHANGED holders
    /\ UNCHANGED <<epoch, admission, world, effects, slips, feed, resends, switches>>

-----------------------------------------------------------------------------
(***************************************************************************)
(* What each operation does to the session and its runs                    *)
(***************************************************************************)
\* start_with_parent on this session: no live run, and the history the caller saw.
StartSecond(q) ==
    /\ LiveRun = "none" /\ world.second = "none" /\ reqs[q].saw.revision = world.revision
    /\ world' = [world EXCEPT !.second = "live"]

\* The first run changes, and writes events.
FirstBecomes(first, more) == [[world EXCEPT !.first = first] EXCEPT !.events = @ + more]

\* input_from, satisfy_inputs, the event and the wake-up of a live run.
InputFor(run) ==
    /\ LiveRun = run
    /\ world' = [world EXCEPT !.events = IF run = "first" THEN @ + 1 ELSE @]

\* request_abort and abort_unstarted: a run nobody has claimed ends at once; a second request
\* finds the first one.
RequestAbortOf(run) ==
    /\ LiveRun = run
    /\ \/ run = "first" /\ ~world.first.abort
          /\ world' = FirstBecomes([live |-> world.first.claimed, claimed |-> world.first.claimed, abort |-> TRUE],
                                   IF world.first.claimed THEN 1 ELSE 2)
       \/ run = "first" /\ world.first.abort /\ UNCHANGED world
       \/ run = "second" /\ \E after \in {"live", "ended"} : world' = [world EXCEPT !.second = after]

\* A new session, with a first run or without.
NewSession(q) == \E live \in BOOLEAN : world' = [world EXCEPT !.others = IF live THEN @ \cup {q} ELSE @]

CreateSession(q) == reqs[q].op = <<"app", "create_session">> /\ NewSession(q)
ForkSession(q) == reqs[q].op = <<"app", "fork">> /\ NewSession(q)
StartRun(q) == reqs[q].op = <<"app", "start_run">> /\ StartSecond(q)
SubmitInput(q) == reqs[q].op = <<"app", "submit_input">> /\ InputFor(reqs[q].saw.run)
AbortRun(q) ==
    /\ reqs[q].op = <<"app", "abort">>
    /\ RequestAbortOf(reqs[q].saw.run) \/ (world.first.abort /\ ~world.first.live /\ UNCHANGED world)

CapabilitySession(q) == Method(q) = "sessions.create" /\ NewSession(q)
CapabilityRun(q) == Method(q) = "runs.create" /\ StartSecond(q)
CapabilitySteer(q) == Method(q) = "runs.steer" /\ InputFor(reqs[q].saw.run)
CapabilityAbort(q) == Method(q) = "runs.abort" /\ RequestAbortOf(reqs[q].saw.run)

SiteStart(q) == Method(q) = "sessions.start" /\ world' = [world EXCEPT !.others = @ \cup {q}]
\* site_send: to the run the site saw, or a new one when it saw none; never to another.
SiteSend(q) ==
    /\ Method(q) = "sessions.send" /\ reqs[q].saw.revision = world.revision /\ reqs[q].saw.run = LiveRun
    /\ IF LiveRun = "none" THEN StartSecond(q) ELSE InputFor(LiveRun)
SiteStop(q) == Method(q) = "sessions.stop" /\ RequestAbortOf(reqs[q].saw.run)

\* Faulty variant: an output that is there is replaced.
PublishOver(q) == Method(q) = "output" /\ world' = [world EXCEPT !.output = BodyOf(q)]

\* publish_run_output: a name keeps its first value.
PublishRunOutput(q) ==
    /\ Method(q) = "output" /\ world.output \in {NoReply, BodyOf(q)}
    /\ world' = [world EXCEPT !.output = BodyOf(q)]

\* worker_create_environment: one more environment of the project.
CreateEnvironment(q) == Method(q) = "environment" /\ UNCHANGED world

CallEffect(q) ==
    \/ CreateSession(q) \/ ForkSession(q) \/ StartRun(q) \/ SubmitInput(q) \/ AbortRun(q)
    \/ CapabilitySession(q) \/ CapabilityRun(q) \/ CapabilitySteer(q) \/ CapabilityAbort(q)
    \/ SiteStart(q) \/ SiteSend(q) \/ SiteStop(q)
    \/ PublishRunOutput(q) \/ CreateEnvironment(q)

\* The effect with its receipt, and the commit.
CommitCall(q) ==
    /\ reqs[q].pc = "writing" /\ holders' = holders \ {q}
    /\ CallEffect(q)
    /\ effects' = Append(effects, [key |-> KeyOf(q), epoch |-> reqs[q].epoch])
    /\ slips' = [slips EXCEPT ![KeyOf(q)] = [body |-> BodyOf(q), epoch |-> reqs[q].epoch,
                                             result |-> Len(effects) + 1]]
    /\ SetCall(q, "done", Len(effects) + 1)
    /\ UNCHANGED <<epoch, admission, feed, resends, switches>>

\* The arguments do not fit the session as it is, or a limit is met: rolled back.
RejectCall(q) ==
    /\ reqs[q].pc = "writing" /\ holders' = holders \ {q} /\ Refuse(q)
    /\ UNCHANGED <<epoch, admission, world, effects, slips, feed, resends, switches>>

\* The reply does not arrive, or the server ends between the transactions: the caller,
\* or the worker that holds the run now, sends the call again.
SendAgain(q) ==
    /\ reqs[q].pc \in {"discover", "ready", "done"} /\ resends < MaxResends
    /\ resends' = resends + 1
    /\ \E e \in {reqs[q].epoch, epoch} :
          Becomes(q, "new", e, NoReply, reqs[q].saw)
    /\ UNCHANGED <<epoch, admission, world, effects, slips, holders, feed, switches>>

-----------------------------------------------------------------------------
(***************************************************************************)
(* Others                                                                  *)
(***************************************************************************)
\* The agent's run is claimed by another worker, which waits for the row a call has locked.
CallerTakenOver ==
    /\ epoch < MaxEpoch /\ \A q \in holders : By(q) # "agent"
    /\ epoch' = epoch + 1
    /\ UNCHANGED <<admission, world, effects, slips, reqs, holders, feed, resends, switches>>

\* Workers claim runs, extend the history and end the runs.
RunsProceed ==
    /\ \/ /\ world.first.live /\ ~world.first.claimed
          /\ world' = FirstBecomes([world.first EXCEPT !.claimed = TRUE], 0)
       \/ /\ world.first.live /\ world.first.claimed
          /\ world' = [FirstBecomes([world.first EXCEPT !.live = FALSE], 1) EXCEPT !.revision = @ + 1]
       \/ world.second = "live" /\ world' = [world EXCEPT !.second = "ended"]
       \/ \E q \in world.others : world' = [world EXCEPT !.others = @ \ {q}]
    /\ UNCHANGED <<epoch, admission, effects, slips, reqs, holders, feed, resends, switches>>

ProjectLocked == ~admission.changing /\ \A q \in holders : ~NeedsAdmission(q)

\* set_project_harness: under the project's exclusive lock, never while runs are live.
LookForLiveRuns ==
    /\ admission.harness /\ ProjectLocked /\ switches < MaxSwitches
    /\ LiveRun = "none" /\ world.others = {}
    /\ admission' = [admission EXCEPT !.changing = TRUE] /\ switches' = switches + 1
    /\ UNCHANGED <<epoch, world, effects, slips, reqs, holders, feed, resends>>
DisableHarness ==
    /\ admission.changing /\ admission' = [[admission EXCEPT !.changing = FALSE] EXCEPT !.harness = FALSE]
    /\ UNCHANGED <<epoch, world, effects, slips, reqs, holders, feed, resends, switches>>

\* The site is suspended: its row is locked by calls that read it.
SuspendSite ==
    /\ admission.site /\ switches < MaxSwitches /\ \A q \in holders : By(q) # "site"
    /\ admission' = [admission EXCEPT !.site = FALSE] /\ switches' = switches + 1
    /\ UNCHANGED <<epoch, world, effects, slips, reqs, holders, feed, resends>>

-----------------------------------------------------------------------------
(***************************************************************************)
(* The event stream of the first run (stream.rs)                           *)
(***************************************************************************)
Reads(cursor, buffer, received, pc) ==
    feed' = [cursor |-> cursor, buffer |-> buffer, received |-> received, pc |-> pc]

\* event_batch: what is after the cursor.
ReadEvents ==
    /\ feed.pc = "read" /\ feed.buffer = <<>>
    /\ LET n == world.events - feed.cursor IN
       Reads(feed.cursor, [i \in 1..(IF n < BatchSize THEN n ELSE BatchSize) |-> feed.cursor + i], feed.received,
             IF n > 0 THEN "read" ELSE "check")
    /\ UNCHANGED <<epoch, admission, world, effects, slips, reqs, holders, resends, switches>>

EmitEvent ==
    /\ feed.buffer # <<>>
    /\ Reads(Head(feed.buffer), Tail(feed.buffer), Append(feed.received, Head(feed.buffer)), feed.pc)
    /\ UNCHANGED <<epoch, admission, world, effects, slips, reqs, holders, resends, switches>>

StreamDone == ~world.first.live /\ feed.cursor >= world.events

\* Status and last sequence are read after the batch; events may have come in between.
CheckEnd ==
    /\ feed.pc = "check"
    /\ feed' = [feed EXCEPT !.pc = IF StreamDone THEN "ended" ELSE "read"]
    /\ UNCHANGED <<epoch, admission, world, effects, slips, reqs, holders, resends, switches>>

\* The connection breaks or a read fails: the client reconnects with Last-Event-ID.
Reconnect ==
    /\ feed.pc # "ended" /\ feed.buffer # <<>>
    /\ Reads(feed.cursor, <<>>, feed.received, "read")
    /\ UNCHANGED <<epoch, admission, world, effects, slips, reqs, holders, resends, switches>>

CallsNext ==
    \/ CallerTakenOver \/ RunsProceed \/ LookForLiveRuns \/ DisableHarness \/ SuspendSite
    \/ ReadEvents \/ EmitEvent \/ CheckEnd \/ Reconnect
    \/ \E q \in Calls : \/ SendCall(q) \/ BeforeDiscovery(q) \/ DiscoverAccounts(q) \/ BeginWrite(q)
                        \/ CommitCall(q) \/ RejectCall(q) \/ SendAgain(q)

CallsSpec == CallsInit /\ [][CallsNext]_callVars

-----------------------------------------------------------------------------
\* A key has one effect, however often and by whomever its call is sent again: two answers that
\* report a result under one key report the same result of the same request, also after a
\* takeover, or when both were in discovery at once (receipts.rs, capabilities.rs).
OneEffectPerCallKey ==
    /\ \A i, j \in 1..Len(effects) : effects[i].key = effects[j].key => i = j
    /\ \A p, q \in Calls : /\ KeyOf(p) = KeyOf(q) /\ reqs[p].pc = "done" /\ reqs[q].pc = "done"
                           => reqs[p].answer = reqs[q].answer /\ BodyOf(p) = BodyOf(q)

\* A worker that lost its lease while it waited for a provider has no effect any more, and an
\* output that was published is never changed (capabilities.rs, run_outputs.rs).
StaleCallersChangeNothing ==
    /\ Len(effects') > Len(effects) =>
             \A q \in Calls : By(q) = "agent" /\ reqs[q].pc = "writing" /\ reqs'[q].pc = "done"
                                 => reqs[q].epoch = epoch
    /\ world.output # NoReply => world'.output = world.output

\* A harness that is disabled in the project has no live run there, although starts are
\* admitted while the setter looks for live runs (project_harnesses.rs).
DisabledHarnessIsIdle == ~admission.harness => LiveRun = "none" /\ world.others = {}

\* A reader of the stream gets every event of the run once and in order, over reconnects, and
\* is told of the end only after the last one (stream.rs).
StreamIsWhole ==
    /\ \A i \in 1..Len(feed.received) : feed.received[i] = i
    /\ feed.pc = "ended" => Len(feed.received) = world.events

\* A key has one effect however often its call is sent, a disabled harness has no
\* live run, and a stream delivers every event once (receipts.rs,
\* project_harnesses.rs, stream.rs of the runtime).
CallsTakeEffectOnce == OneEffectPerCallKey /\ DisabledHarnessIsIdle /\ StreamIsWhole
=============================================================================
