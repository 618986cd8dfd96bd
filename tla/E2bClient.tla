------------------------------ MODULE E2bClient ------------------------------
(***************************************************************************)
(* The E2B provider client: runtimes that reach the execution supervisor   *)
(* of one sandbox through envd, and single calls of the control plane.     *)
(*                                                                         *)
(* The sandbox may be a copy of another host's: then that host's           *)
(* supervisor is still running in it, and the first runtime to find it     *)
(* replaces it.  Several runtimes do all this at the same time, each       *)
(* request of the gateway connecting one of its own.  What is external:    *)
(* the sandbox, envd and the control plane, which may lose a request or    *)
(* its reply at any step (MaxLost times).                                  *)
(***************************************************************************)
EXTENDS Integers, FiniteSets

CONSTANTS
    Runtimes,    \* runtimes connected to the sandbox
    Requests,    \* calls of the control plane
    MaxTries,    \* retry.max_attempts
    MaxLost,     \* requests or replies that are lost
    MaxServes,   \* supervisors that are started
    MaxDeaths    \* supervisors that die by themselves

ASSUME E2bAssumption ==
    /\ MaxTries \in Nat \ {0} /\ MaxServes \in Nat \ {0} /\ {MaxLost, MaxDeaths} \subseteq Nat

VARIABLES sandbox, serves, runtimes, applied, control, lost, deaths
e2bVars == <<sandbox, serves, runtimes, applied, control, lost, deaths>>

NoServe == 0
Inherited == 1                    \* the supervisor the copied sandbox came with
Serves == 1..MaxServes            \* a supervisor process; its generation is its number

Replayable == {"verify", "get", "delete", "delete_snapshot", "connect"}
NotReplayable == {"create", "pause", "snapshot"}
Parsed == {"get", "connect", "create", "snapshot"}       \* the answers checked_json parses

\* Runtimes and control calls share nothing: a behaviour has the ones or the others.
E2bStart(alone, first, ops) ==
    /\ sandbox = "paused"
    /\ serves = [s \in Serves |-> [host |-> IF s = Inherited THEN "old" ELSE "own",
                                  stage |-> IF s = Inherited THEN first ELSE "none", killed |-> FALSE]]
    /\ runtimes = [r \in Runtimes |-> [pc |-> IF alone THEN "done" ELSE "idle", op |-> "describe",
                                       attempt |-> 1, tries |-> 1,
                                       pinned |-> NoServe, seen |-> NoServe, doomed |-> {}]]
    /\ applied = {}
    /\ control = [q \in Requests |-> [op |-> ops[q], pc |-> IF alone THEN "new" ELSE "done",
                                      attempt |-> 1, effects |-> 0, ambiguous |-> FALSE]]
    /\ lost = 0
    /\ deaths = 0

E2bInit ==
    \E alone \in BOOLEAN, first \in {"serving", "dead"} :
        \E ops \in [Requests -> IF alone THEN Replayable \cup NotReplayable ELSE {"verify"}] :
            E2bStart(alone, first, ops)

-----------------------------------------------------------------------------
(***************************************************************************)
(* The supervisor process (execution-supervisor, serve)                    *)
(***************************************************************************)
Serving == {s \in Serves : serves[s].stage = "serving"}

\* acquire_lock: the locks of a process that is gone are free.
AcquireLocks == Serving = {}

\* serve: bind the socket and answer, or exit because another process has the locks.
ServeStarts(s) ==
    /\ serves[s].stage = "started"
    /\ serves' = [serves EXCEPT ![s].stage = IF AcquireLocks THEN "serving" ELSE "dead"]
    /\ UNCHANGED <<sandbox, runtimes, applied, control, lost, deaths>>

ServeDies(s) ==
    /\ serves[s].stage = "serving" /\ deaths < MaxDeaths
    /\ serves' = [serves EXCEPT ![s].stage = "dead"]
    /\ deaths' = deaths + 1
    /\ UNCHANGED <<sandbox, runtimes, applied, control, lost>>

\* The sandbox pauses when it is idle; connecting resumes it.
AutoPause ==
    /\ sandbox = "running" /\ \A r \in Runtimes : runtimes[r].pc \in {"idle", "done", "failed", "lost"}
    /\ sandbox' = "paused"
    /\ UNCHANGED <<serves, runtimes, applied, control, lost, deaths>>

-----------------------------------------------------------------------------
(***************************************************************************)
(* One call of a runtime (runtime.rs)                                      *)
(***************************************************************************)
Move(r, pc) == runtimes' = [runtimes EXCEPT ![r].pc = pc]

CountAttempt(n) == n + 1

\* call_with_retry: what a retryable error makes of the call.
Retry(r) ==
    LET n == runtimes[r].attempt IN
    runtimes' = [runtimes EXCEPT ![r] =
        IF n < MaxTries THEN [@ EXCEPT !.pc = "connect", !.attempt = CountAttempt(n), !.tries = 1]
        ELSE [@ EXCEPT !.pc = "failed"]]

Lose == lost < MaxLost /\ lost' = lost + 1

\* connect: the handshake is the first call, and pins the generation.
Connect(r) ==
    /\ runtimes[r].pc = "idle" /\ Move(r, "connect")
    /\ UNCHANGED <<sandbox, serves, applied, control, lost, deaths>>

\* ensure_connected and envd.health, each tried again by control::retry.
ConnectedEnvd(r) ==
    /\ runtimes[r].pc = "connect"
    /\ \/ /\ sandbox' = "running" /\ Move(r, "probe") /\ UNCHANGED lost
       \/ /\ Lose /\ sandbox' \in {sandbox, "running"}
          /\ IF runtimes[r].tries < MaxTries
             THEN runtimes' = [runtimes EXCEPT ![r].tries = @ + 1]
             ELSE Retry(r)
    /\ UNCHANGED <<serves, applied, control, deaths>>

\* supervisor_health, the first thing ensure_supervisor does: any failure of the probe, one
\* on the way included, means there is no supervisor.
Probe(r) ==
    /\ runtimes[r].pc = "probe" /\ sandbox = "running"
    /\ \/ /\ \E s \in Serving :
                runtimes' = [runtimes EXCEPT ![r].seen = s,
                                             ![r].pc = IF serves[s].host = "own" THEN "check" ELSE "list"]
          /\ UNCHANGED lost
       \/ /\ Serving = {} /\ Move(r, "launch") /\ UNCHANGED lost
       \/ /\ Lose /\ Move(r, "launch")
    /\ UNCHANGED <<sandbox, serves, applied, control, deaths>>

\* inherited_supervisor_process: the identity the probe saw, at this socket.
Matches(s, seen) == serves[s].stage \in {"started", "serving"} /\ serves[s].host = serves[seen].host

\* replace_inherited_supervisor: find the processes ...
ListProcesses(r) ==
    /\ runtimes[r].pc = "list"
    /\ LET found == {s \in Serves : Matches(s, runtimes[r].seen)} IN
       runtimes' = [runtimes EXCEPT ![r].doomed = found, ![r].pc = IF found = {} THEN "failed" ELSE "kill"]
    /\ UNCHANGED <<sandbox, serves, applied, control, lost, deaths>>

\* ... kill each (one that is gone already is an error) ...
KillProcess(r, s) ==
    /\ runtimes[r].pc = "kill" /\ s \in runtimes[r].doomed
    /\ IF serves[s].stage = "dead" THEN Move(r, "lost") /\ UNCHANGED serves
       ELSE /\ serves' = [serves EXCEPT ![s].stage = "dead", ![s].killed = TRUE]
            /\ runtimes' = [runtimes EXCEPT ![r].doomed = @ \ {s}]
    /\ UNCHANGED <<sandbox, applied, control, lost, deaths>>

\* ... and wait until none of them is listed.
InheritedGone(r) ==
    /\ runtimes[r].pc = "kill" /\ runtimes[r].doomed = {}
    /\ ~ \E s \in Serves : Matches(s, runtimes[r].seen)
    /\ Move(r, "launch")
    /\ UNCHANGED <<sandbox, serves, applied, control, lost, deaths>>

\* verify_supervisor_binary and start_detached; the reply that it started may be lost.
Launch(r) ==
    /\ runtimes[r].pc = "launch"
    /\ \E s \in Serves :
          /\ serves[s].stage = "none" /\ \A t \in 1..(s - 1) : serves[t].stage # "none"
          /\ serves' = [serves EXCEPT ![s].stage = "started"]
    /\ \/ Move(r, "await") /\ UNCHANGED lost
       \/ Lose /\ Retry(r)
    /\ UNCHANGED <<sandbox, applied, control, deaths>>

\* The wait for a healthy supervisor, whoever started it, until startup_timeout.
AwaitHealthy(r) ==
    /\ runtimes[r].pc = "await"
    /\ \/ \E s \in Serving : runtimes' = [runtimes EXCEPT ![r].seen = s, ![r].pc = "check"]
       \/ Serving = {} /\ \A s \in Serves : serves[s].stage # "started" /\ Retry(r)
    /\ UNCHANGED <<sandbox, serves, applied, control, lost, deaths>>

OwnHost(s) == serves[s].host = "own"

\* call_once: the host must be this one, and the generation the pinned one.
CheckSupervisor(r) ==
    /\ runtimes[r].pc = "check"
    /\ LET s == runtimes[r].seen
           pinned == runtimes[r].pinned IN
       runtimes' = [runtimes EXCEPT
           ![r].pc = IF ~OwnHost(s) THEN "failed" ELSE IF pinned \notin {NoServe, s} THEN "lost" ELSE "rpc",
           ![r].pinned = IF OwnHost(s) /\ pinned = NoServe THEN s ELSE pinned]
    /\ UNCHANGED <<sandbox, serves, applied, control, lost, deaths>>

\* invoke_rpc: a relay in the sandbox hands the request to the supervisor that listens now.
\* Its answer ends the call; a lost one is asked for again under the same request ID.
InvokeRpc(r) ==
    /\ runtimes[r].pc = "rpc"
    /\ \/ Serving = {} /\ Move(r, "failed") /\ UNCHANGED <<applied, lost>>
       \/ \E s \in Serving :
             /\ applied' = IF runtimes[r].op = "describe" THEN applied ELSE applied \cup {<<r, s>>}
             /\ \/ /\ UNCHANGED lost
                   /\ runtimes' = [runtimes EXCEPT ![r] =
                         IF @.op = "describe" THEN [@ EXCEPT !.op = "operation", !.pc = "connect",
                                                             !.attempt = 1, !.tries = 1]
                         ELSE [@ EXCEPT !.pc = "done"]]
                \/ Lose /\ Retry(r)
    /\ UNCHANGED <<sandbox, serves, control, deaths>>

\* within_context: the deadline or a cancellation ends the call wherever it is.
Cancel(r) ==
    /\ runtimes[r].pc \notin {"idle", "done", "failed", "lost"} /\ Lose /\ Move(r, "failed")
    /\ UNCHANGED <<sandbox, serves, applied, control, deaths>>

-----------------------------------------------------------------------------
(***************************************************************************)
(* Control calls (control.rs, error.rs)                                    *)
(***************************************************************************)
\* Faulty variant: creation is replayed like any other request.
MayReplayAll(op) == TRUE
MayReplay(op) == op \in Replayable

\* retry: what a transient error makes of a call; every other error ends it.
Again(c, transient) ==
    IF transient /\ MayReplay(c.op) /\ c.attempt < MaxTries THEN [c EXCEPT !.attempt = @ + 1]
    ELSE [c EXCEPT !.pc = "failed"]

\* send_replayable, delete_replayable and the requests that are sent once.  A request takes
\* effect and is answered; is carried out, but its answer does not parse (checked_json: a
\* protocol error, neither retryable nor ambiguous); is lost before or after its effect, or
\* answered by a gateway that does not know (from_request, from_response); or is refused.
ControlCall(q) ==
    /\ control[q].pc = "new"
    /\ \/ /\ control' = [control EXCEPT ![q].pc = "done", ![q].effects = @ + 1] /\ UNCHANGED lost
       \/ /\ control[q].op \in Parsed
          /\ control' = [control EXCEPT ![q].pc = "garbled", ![q].effects = @ + 1] /\ UNCHANGED lost
       \/ /\ Lose
          /\ \E effects \in {control[q].effects, control[q].effects + 1}, transient \in BOOLEAN :
                control' = [control EXCEPT ![q] =
                    Again([@ EXCEPT !.effects = effects, !.ambiguous = ~MayReplay(control[q].op)], transient)]
       \/ control' = [control EXCEPT ![q].pc = "refused", ![q].ambiguous = FALSE] /\ UNCHANGED lost
    /\ UNCHANGED <<sandbox, serves, runtimes, applied, deaths>>

-----------------------------------------------------------------------------
RuntimeStep(r) ==
    \/ Connect(r) \/ ConnectedEnvd(r) \/ Probe(r) \/ ListProcesses(r) \/ InheritedGone(r) \/ Launch(r)
    \/ \E s \in Serves : KillProcess(r, s)
    \/ AwaitHealthy(r) \/ CheckSupervisor(r) \/ InvokeRpc(r)

E2bNext ==
    \/ AutoPause
    \/ \E s \in Serves : ServeStarts(s) \/ ServeDies(s)
    \/ \E r \in Runtimes : RuntimeStep(r) \/ Cancel(r)
    \/ \E q \in Requests : ControlCall(q)

E2bSpec == E2bInit /\ [][E2bNext]_e2bVars

-----------------------------------------------------------------------------
RuntimeStates ==
    [pc : {"idle", "connect", "probe", "list", "kill", "launch", "await", "check", "rpc", "done",
           "failed", "lost"},
     op : {"describe", "operation"}, attempt : 1..MaxTries, tries : 1..MaxTries,
     pinned : 0..MaxServes, seen : 0..MaxServes, doomed : SUBSET Serves]

ServeStates ==
    [host : {"old", "own"}, stage : {"none", "started", "serving", "dead"}, killed : BOOLEAN]

ControlStates ==
    [op : Replayable \cup NotReplayable, pc : {"new", "done", "garbled", "failed", "refused"},
     attempt : 1..MaxTries, effects : Nat, ambiguous : BOOLEAN]

E2bTypeOK ==
    /\ sandbox \in {"paused", "running"}
    /\ serves \in [Serves -> ServeStates]
    /\ runtimes \in [Runtimes -> RuntimeStates]
    /\ applied \subseteq Runtimes \X Serves
    /\ control \in [Requests -> ControlStates]
    /\ lost \in 0..MaxLost /\ deaths \in 0..MaxDeaths

\* The host's own supervisor is the only one that executes its operations: at most one
\* process serves the endpoint however many were launched by probes that failed on the way,
\* no operation reaches the supervisor of the host the sandbox was copied from, and replacing
\* that one never kills a supervisor of this host, whose executions would be lost.
OwnSupervisorOnly ==
    /\ Cardinality(Serving) <= 1
    /\ \A a \in applied : serves[a[2]].host = "own"
    /\ \A s \in Serves : serves[s].killed => serves[s].host = "old"

\* A request that must not be repeated takes effect at most once.  When it took effect, its
\* caller has the answer, or an error that says the outcome is ambiguous, or an answer that
\* could not be parsed; every other error means that nothing happened.
ControlEffectsAreKnown ==
    \A q \in Requests :
        control[q].op \in NotReplayable =>
            /\ control[q].effects <= 1
            /\ control[q].effects > 0 => control[q].pc \in {"done", "garbled"} \/ control[q].ambiguous

\* Not true of the code: whenever a request took effect and its caller has an error, the
\* error says that the outcome is ambiguous.  The error of an answer that does not parse
\* says that it is not (control.rs, checked_json).
ErrorsTellOfEffects ==
    \A q \in Requests :
        control[q].op \in NotReplayable /\ control[q].effects > 0 =>
            control[q].pc = "done" \/ control[q].ambiguous

\* What the E2B client does to a sandbox it does to a supervisor of its own; a control call
\* takes effect once, and its caller is told or is left with an error of one of two known
\* kinds (runtime.rs, control.rs of the provider).
SandboxCallsAreExact == OwnSupervisorOnly /\ ControlEffectsAreKnown
=============================================================================
