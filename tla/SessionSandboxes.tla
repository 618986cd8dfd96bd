-------------------------- MODULE SessionSandboxes --------------------------
(***************************************************************************)
(* The execution target of a session: a harness resolves it once, from the *)
(* session's immutable configuration, and every later run of the session   *)
(* uses it (environment.rs of the basic-codex, basic-cc and unified-exec   *)
(* harnesses).  Composed with the gateway's creation of hosts.             *)
(*                                                                         *)
(* A driver is one activation of a run of the session.  Only the driver    *)
(* that holds the lease can commit, but an earlier one may still be        *)
(* running, and its request may still be on its way to the gateway.        *)
(***************************************************************************)
EXTENDS GatewayAccounts

CONSTANTS
    Sessions,     \* sessions; the key of a session's request is made of its id
    Harness,      \* the harness of each session
    Environment   \* its configured environment: "machine", or the body of its request

ASSUME SessionsAssumption ==
    /\ Sessions \subseteq CreateKeys
    /\ Harness \in [Sessions -> {"codex", "cc", "unified"}]
    /\ Environment \in [Sessions -> {"machine", "default", "snapshot"} \union HostAccounts]
    /\ NoValue # "machine"

VARIABLES
    served,   \* the session whose drivers (clients of the gateway) are looked at
    target,   \* session state "execution-target"
    leases,   \* the driver that holds the lease of the session's run
    driver    \* what each driver has done

sandboxVars == <<served, target, leases, driver>>

Machine == "machine"

SandboxInit ==
    /\ HostAccountsInit
    /\ served \in Sessions
    /\ target = [s \in Sessions |-> NoValue] /\ leases = [s \in Sessions |-> NoValue]
    /\ driver = [d \in Clients |-> [at |-> "new"]]

Moves(d, next) == driver' = [driver EXCEPT ![d] = next]
Mine(d) == served

\* A driver is activated; another one may have been cut off anywhere.
Activate(d) ==
    /\ driver[d].at = "new"
    /\ leases' = [leases EXCEPT ![Mine(d)] = d]
    /\ Moves(d, [at |-> "resolve"])
    /\ UNCHANGED <<served, target, acctVars, hostVars>>

\* The saved target is final; a machine is known, a sandbox has to be created.
ReadTarget(d) ==
    LET s == Mine(d) IN
    /\ driver[d].at = "resolve"
    /\ Moves(d, IF target[s] # NoValue THEN [at |-> "ready", host |-> target[s]]
                ELSE IF Environment[s] = Machine THEN [at |-> "commit", host |-> Machine]
                ELSE [at |-> "create"])
    /\ UNCHANGED <<served, target, leases, acctVars, hostVars>>

\* The key is derived from the session alone, so that every run repeats it.
SessionKey(d) == Mine(d)

RequestHost(d) ==
    /\ driver[d].at = "create"
    /\ Ask(d, SessionKey(d), Environment[Mine(d)])
    /\ Moves(d, [at |-> "asked"])
    /\ UNCHANGED <<served, target, leases>>

\* The answer; a refusal fails the run, and without an answer the driver gives up and
\* the next activation repeats the request.
Reply(d) ==
    /\ driver[d].at = "asked"
    /\ \/ creation[d].at = "answered" /\ Moves(d, [at |-> "commit", host |-> creation[d].host])
       \/ creation[d].at = "refused" /\ Moves(d, [at |-> "failed"])
       \/ Moves(d, [at |-> "gone"])
    /\ UNCHANGED <<served, target, leases, acctVars, hostVars>>

\* The commit: of the run's lease, at the version of the entry that was read.
MaySave(d) == leases[Mine(d)] = d /\ target[Mine(d)] = NoValue

CommitTarget(d) ==
    /\ driver[d].at = "commit"
    /\ IF MaySave(d)
       THEN /\ target' = [target EXCEPT ![Mine(d)] = driver[d].host]
            /\ Moves(d, [at |-> "ready", host |-> driver[d].host])
       ELSE target' = target /\ Moves(d, [at |-> "gone"])
    /\ UNCHANGED <<served, leases, acctVars, hostVars>>

Resolve(d) == ReadTarget(d) \/ RequestHost(d) \/ Reply(d) \/ CommitTarget(d)
ResolveCodex(d) == Harness[Mine(d)] = "codex" /\ Resolve(d)
ResolveCc(d) == Harness[Mine(d)] = "cc" /\ Resolve(d)
ResolveUnified(d) == Harness[Mine(d)] = "unified" /\ Resolve(d)

SandboxNext ==
    \/ \E d \in Clients : Activate(d) \/ ResolveCodex(d) \/ ResolveCc(d) \/ ResolveUnified(d)
    \/ /\ \/ HostAdminStep
          \/ \E d \in Clients : CreationStep(d)
          \/ \E k \in CreateKeys : ExpireReceipt(k)
          \/ \E a \in HostAccounts \union {NoValue} : SnapshotChanges(a)
       /\ UNCHANGED sandboxVars

SandboxSpec == SandboxInit /\ [][SandboxNext]_<<sandboxVars, acctVars, hostVars>>

-----------------------------------------------------------------------------
\* A session has one sandbox, whatever is lost and whoever takes over: every driver
\* that goes on works on the host that was saved, and no second host is created while
\* the gateway remembers the first (environment.rs; "Prevent duplicate host and snapshot
\* creation with idempotency keys", execution-gateway/README.md:20).
OneSandboxPerSession ==
    \A s \in Sessions :
        /\ \A d \in Clients : Mine(d) = s /\ driver[d].at = "ready" => driver[d].host = target[s]
        /\ Cardinality({h \in 1..Len(hostsOf) : \E d \in Clients : Mine(d) = s /\ hostsOf[h].key = SessionKey(d)})
             <= 1 + expired[s]

\* A session has one sandbox, and the account of a host is never deleted under it
\* (environment.rs of the harnesses; database.rs and http.rs of the gateway).
SandboxesAreKept == OneSandboxPerSession /\ AccountsAreKept

\* "A lost acknowledgement or lease is recovered by reading state/replaying the same
\* gateway key" (basic-codex-tools-harness/src/environment.rs:84-85).
LostCreationIsRecovered ==
    \A d \in Clients : driver[d].at = "failed" =>
        ~\E h \in 1..Len(hostsOf) : hostsOf[h].key = Mine(d)
=============================================================================
