# Agent-pane in TLA+

Specifications, model-checking configurations and proofs for the stateful core of
agent-pane. Paths below are relative to the repository's root; `runtime/` is short for
`platform/apps/server/src/runtime/`, `gateway/` for `execution/apps/execution-gateway/src/`,
`process/` for `execution/packages/execution-supervisor-core/src/process/`.

Contents: 1 the system, 2 its hard parts, 3 the plan, 4 the modules, 5 the runs, 6 the proofs,
7 findings, 8 what is not modelled, 9 how to run everything.

## 1. The system

Agent-pane is three Rust systems and a dashboard.

**Platform** (`platform/`) stores projects, sessions, runs and their history, and schedules runs
on workers.

| part | state | operations | talks to |
|---|---|---|---|
| runtime server (`runtime/`) | PostgreSQL rows: sessions, runs (status, version, owner, lease epoch and expiry), inputs, waits, checkpoints, receipts, workers | start, follow up, fork, input, abort; register, claim, heartbeat, context, commit, child run; reconcile | workers over HTTP (every request one transaction), application clients, the execution gateway |
| remote operations (`runtime/remote_operations*`) | rows of sandboxes and shell executions, with a processing lease, a saved request, a cursor and output | create, adopt, bash, terminate, cancel; leased lanes that take, step and write back | execution gateway |
| worker (`platform/apps/worker`) | active runs with local deadlines, retired leases, requests in flight | heartbeat, allocate, activate, expire, drain, stop | runtime server; runs harness tasks |
| harnesses (`platform/packages/harnesses`) | a checkpoint: phase, model call, plan of a tool batch, command numbers | activate, call a model, run a batch, commit, wait, abort, clean up | runtime server, both gateways |
| tools (`platform/packages/tools`) | the saved plan of a call | exec, write stdin, bash, read, write, edit, apply patch | execution gateway |
| code mode (`tools/code-mode`) | live cells (a guest process, a task, two pipes, a channel of notifications); a journal of nested calls in the session state | exec, wait, stop; admit, record, dispatch, seal | the harness, the platform's capabilities |
| sites service (`platform/apps/sites-service`) | sites, bundles on disk, releases, one SQLite database per site, authoring receipts | publish, activate, reconcile, patch, snapshot, restore, migrate, invoke; statements, batches, transactions | site backends, the runtime server |
| provider logins (`platform/apps/server/src/providers/login.rs`) | sign-in attempts in memory | start, poll, cancel, callback | browser, OpenAI, LLM gateway |
| projects, machines, sites front | configuration rows | create, read, update, delete, forward | both gateways, sites service |
| dashboard | browser state | views | the server's HTTP API |

**Execution** (`execution/`) runs processes on machines.

| part | state | operations | talks to |
|---|---|---|---|
| gateway | accounts; hosts and snapshots with a desired and an observed state, reconcile leases; credentials and connections of registered hosts | create, pause, resume, refresh, delete, snapshot, execute; claim, connect, disconnect; verify, edit and delete accounts; reconcile tasks | E2B, host daemons |
| host daemon | one reconnecting connection | register, connect, answer requests | gateway, supervisor core |
| supervisor core | sessions of processes, counters, control and input records, one journal per process, filesystem receipts | start, write, signal, terminate, read, clean up, shut down; conditional writes, reads in pages, listings | the operating system |
| E2B client | the runtime of a sandbox | connect, bootstrap or replace the supervisor, call it, call the control plane | E2B |
| conformance suite | none | what it demands of every runtime | any runtime |
| wire, client, api | none | frame, encode, call | — |

**LLM** (`llm/`) is a gateway to model providers.

| part | state | operations | talks to |
|---|---|---|---|
| executions | durable runs, accounting rows, a gate of permits with a bounded queue | submit, wait, abort, complete, search; recover after a crash | providers, the polling client |
| accounts | credentials with a version, a default, cached transports per replica | create, edit, rotate, select, refresh | token endpoint, PostgreSQL's locks |

A request crosses them like this. A client starts a run; a worker claims it, loads its context and
executes a harness; the harness calls a model through the LLM gateway and asks for a shell command;
the platform stores the command as a remote operation; a lane starts it through the execution
gateway on a host; the host's supervisor runs the process and journals its output; lanes page the
output back into the row; the harness reads it, commits messages and parks the run on a durable
wait or ends it. Every arrow may be lost, repeated or late, and every box but the database may
restart.

## 2. What is hard, and what makes each part correct

* *Runs.* A run is owned by a lease that may expire under a worker that does not notice; inputs,
  aborts, wait resolutions and the reconciler change the run between the context a worker loaded and
  the commit it sends. Correct means: no wake-up is lost, no run is parked on nothing, nobody parks a
  run on a stale view, a superseded worker writes nothing, a session has one live run, ended runs
  stay ended, and expired or due things are eventually dealt with.
* *Remote operations.* A lane works on a copy of a row while requests change the row. Correct means:
  no cancel is lost, a confirmed cancel is true, finished rows stay, no output is lost or repeated, no
  sandbox outlives its termination.
* *Workers.* A worker must stop an execution before the server can give the run to somebody else,
  with nothing but its own clock and requests that fail. Correct means: what it executes it still
  holds, each lease is executed once, what it no longer executes expires.
* *Gateway hosts.* Several tasks may work on one host under wishes of different age. Correct means:
  observed never contradicts desired, pending work is never dropped, nothing at the provider is
  forgotten, everything pending settles.
* *Processes.* Start, write, terminate, timeout, exit, drain, cleanup and shutdown overlap. Correct
  means: one process per execution id, never more than the limit, slots neither lost nor released
  twice, input once, outcomes final, slots eventually free.
* *Journal.* Readers page through it while it grows. Correct means: every byte once and in order, no
  missed wake-up, an end that is the end and is reached.
* *Harnesses.* A driver is stopped between any two steps and its successor starts from the last
  commit, while requests of the first are still on their way. Correct means: a call is carried out
  under one identity, the history is one the model accepts, an input enters it once, what was started
  is stopped, an abort ends the run.
* *Command numbers.* Forks inherit the messages that show a number but not the state behind it.
  Correct means: a number never comes to mean another command.
* *Tools.* The plan of a call is saved after each step and the step is repeated from it. Correct means:
  the answers about a command partition its output, input is applied once, a file mutation takes
  effect at one instant, under its condition, and once.
* *Code mode.* Guest, task and model share bounded pipes. Correct means: output is reported once and
  in order, a cell that is told to stop stops, the journal knows every call that was performed.
* *Sites.* The process is killed between writing a bundle and activating it. Correct means: the active
  release is whole and fits the schema, a restore restores what it names, writes of a transaction go
  together, an authoring statement has a receipt exactly when it took effect.
* *Platform calls.* A reply is lost and the call repeated, at the same time, by another owner, or with
  another body. Correct means: one effect per key, replies that agree, nothing written by a superseded
  owner, a stream that shows each event once and ends.
* *Sandboxes of sessions and gateway accounts.* Checks, provider calls and writes of several handlers
  interleave. Correct means: one sandbox per session, hosts keep their account, one active default.
* *Registered hosts.* A daemon reconnects while its credential rotates. Correct means: a superseded
  credential has no connection, an answer belongs to its request.
* *E2B client.* A sandbox may be a copy with another host's supervisor in it. Correct means: nobody
  talks to a supervisor that is not its own, effects of the control plane are not guessed.
* *LLM executions.* Aborts, disconnects and crashes meet runs in the queue, in account resolution and
  at the provider. Correct means: permits are neither lost nor exceeded, a run ends once, accounting
  tells what happened, aborts stop work.
* *LLM accounts and logins.* A refresh token can be used once, and several replicas need it. Correct
  means: an account asks for a new sign-in only when its token is really lost, a sign-in creates one
  account and says so truthfully.
* *Text tools, frames and lists.* Windows, replacements, patches, paths, frames cut anywhere and pages
  over a changing table. Correct means: equal to their reference definitions for every bounded input.

`PROJECT.json` lists each hazard at its line with the properties that would catch it going wrong.

## 3. Plan

Done, in this order: `RunLifecycle` and its proofs; `RemoteOperations`; `GatewayHosts` and its
proofs; `EventJournal` and `ProcessManager`; `WorkerSupervisor`; the two contracts with their
refinements; the harness driver and its tools; code mode; the sites service and its database;
platform calls with receipts; accounts, sandboxes, registered hosts and the E2B client; the LLM
gateway; the sign-in; text tools, wire and lists.

Then the proofs: `RunLifecycle` with its action properties; `GatewayHosts`; `ProcessManager` and its
refinement of `ProcessContract`; `RemoteOperations`; `WorkerSupervisor`; `LlmRuns`; `RegisteredHosts`
and `E2bClient`; the users of session state (`ExecAliases`, `CodeJournal`); accounts and sign-ins
(`LlmAccounts`, `ProviderLogin`); the services (`SitesService`, `SiteDatabase`, `PlatformCalls`,
`SessionSandboxes` with `GatewayAccounts`); the drivers (`Harnesses`); live cells (`CodeCells`); the
files and their refinement of `FileContract` (`FileTools`).

Left:

1. `RunOwnership`: an abstract specification (a run is free, held under an epoch, or ended) that
   `RunLifecycle` refines, with the refinement proved.
2. `DurableWaits`: any/all conditions and the results a satisfied wait returns.
3. The resolution of symbolic links by the supervisor's filesystem, and the patch grammar.

## 4. Modules

Every module keeps the control of the code it models and abstracts its data: identities are model
values, payloads are left out, times are reduced to the comparisons the code makes. `PROJECT.json`
maps each definition to its lines. Definitions marked as faulty variants are no part of a
specification: each is a neighbouring definition with a plausible bug, and the table in section 5
names the property it violates.

**Suites.** Components that share no state are checked together, because one question is asked of all
of them: `MCRunLifecycle`, `MCRunSessions`, `MCHosts`, `MCSupervisor`, `MCWork`, `MCTools`, `MCServices`. A suite has a
variable `part` that its initial states choose and no step changes: a behaviour runs one component, and
the variables of the others are `Off` or keep their initial values (where a contract or a component's
own invariant is checked over them, which an idle component satisfies). A suite's property is a
component's own property (the one the proofs are about, where there are any) or the conjunction of a
component's properties guarded by its part. Where two parts share constants, or a part would be too large, `Narrow...` definitions and a
conjunct beside the part's next-state relation keep it to the subset its question needs. Components that do interact are composed: `SessionSandboxes` extends
`GatewayAccounts`, `Harnesses` extends `HarnessDriver`, `WorkerSupervisor` contains the server's lease
table, `FileTools` the tools and the filesystem they write to, `LlmRuns` its client.

**Refinements.** `ProcessContract` and `FileContract` state what the conformance suite demands of any
runtime: operations that take effect at one instant. `ProcessManager!Contract` instantiates the first
with a refinement mapping (the session's state as the status, the child as the process, the recorded
completion as the cause, the control records and accepted writes as what was answered), and
`ImplementsContract` checks that every step of the manager, through all its locks, is a step of the
contract or a stutter. `FileTools` does the same with `FileContract` (`FilesImplementContract`, part of
`FilesKeepTheirContract`); its mapping takes a path to the content it settles to: a write in
place counts from its beginning, because the supervisor completes it although its request is dropped.

### RunLifecycle

Every handler of the runtime is one transaction that locks the rows it decides on, so each is one
action: `StartRun`, `PatchSession`, `SubmitInput`, `Abort`, `RegisterWorker`, `PatchWorker`,
`Heartbeat`, `Claim`, `Context`, `Commit`, `StartChild`, `RunMessage`, `AbortRequest`, and the
reconciler's `RequeueExpired`, `ResolveDue`, `RetireWorker`. What stays concurrent is what crosses
transactions: `view`, the context a worker loaded and commits against; leases that expire; lost
replies (a worker whose view does not learn the new version). Time is four events: `LeaseExpires`,
`DelayElapses`, `ConditionMet`, `WorkerSilent`. A rejected request and a replayed receipt change
nothing and are stuttering steps.

### RemoteOperations

A row is `status`, `phase` (how much of its request is saved), `cursor`, the flags cancel, confirmed
and finished, `next` and the lane's lease with its epoch. A lane takes a row (`Take`), works on its
copy in steps that follow `sandbox_step` and `execution_step` call by call, and writes back
(`WriteBack`) if it `Holds` the row. Each gateway call may fail before or after its effect. Host and
process are external; a supervisor may restart and lose its processes.

### GatewayHosts

`want` and `seen` are the desired and the observed state, `due` and `leased` the reconcile columns,
`bound` the provider's id. A task claims (`Claim`), reads, calls the provider, records; requests write
`want` and clear the lease, so tasks overlap. `SlowTasks` lets a task outlive its lease, `Patient`
restricts clients to one unsettled request: two properties hold only then, and the README of the
gateway does not promise more.

### EventJournal

`entries` is the index of one journal file: an output event takes one sequence number per byte. `Append1`
is `append_locked`; a `Fault` may leave bytes in the file that no entry accounts for (`skew`), after
which reads fail. A reader's request goes through the code's steps one by one — register for the
notification, read, check closed, wait, read again — because the order is what `NoMissedWake` is about.

### ProcessManager

One action per stretch between awaits: the start path holds `start_gate` from `Enter` to `Install`,
the lock-free parts (timeout, output drain, completion, cleanup, shutdown) interleave with it. Of the
journal only its state and its end are kept. The operating system ends a process when it likes and
always after a kill.

### WorkerSupervisor

The server side is the lease table with assignments, claim (with its keys) and heartbeat. The worker
side is the supervisor's loop: each event is one action that ends in `Settle`, the loop's tail, which
expires local deadlines and announces a drain. Time is relative: server leases (`ttl`), local
deadlines (`left`) and the age of requests move together in `Tick`; `Until` is the code's `deadline`,
counted from the start of a request. A live supervisor never lets a deadline stand past its instant,
because its loop wakes every 100 ms while a lease lasts 30 s. Requests may be repeated by the
transport, fail, or reach the server after their sender gave up (`late`). Workers outside `Workers`
are rivals that claim, renew and release. A claim key is a number reused once nobody can present it
any more.

### ProcessContract, FileContract

The abstract specifications: an execution that is absent, running or ended, requests that take effect
once, outcomes that stay; contents of paths, mutations that happen at one instant under their condition.

### HarnessDriver, Harnesses

One run over any number of activations. What is committed (run, inputs, history, checkpoint, command
sessions) survives an activation; what it knows does not. `HarnessDriver` is the loop over boundary,
model call and tool batch that five packages carry a copy of, translated from the basic-codex harness;
`Harnesses` says where the others differ (`Kinds`): which tools may be repeated after a restart, how a
failing response is committed, how the sites harness runs scripts. The LLM gateway and the host keep
what reached them, and a request may reach the host after its driver gave up. A commit is one step,
fenced and repeated on a version conflict by `save`.

### SessionSandboxes, GatewayAccounts

`GatewayAccounts` has the handlers that create, verify, edit, default and delete E2B accounts and that
create hosts under idempotency keys; each handler is as many actions as it has separate statements or
provider calls, and the schema's constraints are guards. `SessionSandboxes` adds the drivers that
resolve the execution target of a session: from a snapshot, from a machine or by default, saved with
the session, by one lease holder while an earlier one is still running.

### ExecAliases

The numbers by which a model addresses its commands: allocated when a command is prepared, saved with
the plan, shown in results, inherited by forks through messages only.

### ExecTools

`exec_command`, `write_stdin` and `bash` as plans that are saved after every step. A step is lost with
its worker and repeated from the saved plan; the answer and the session it leaves are saved together.
The host is EventJournal and ProcessManager seen from outside.

### FileTools

The supervisor's filesystem with its mutation records, `edit` and `apply_patch`. Requests are repeated
while an earlier copy is under way, dropped, or meet a restarted supervisor without records. Content
stands for its revision, which is a digest.

### TextTools, PagedQueries

Pure algorithms as operators and recursive functions, each beside a reference definition: the line
window of read, the replacement of edit, the chunks of apply_patch, the mapping of paths to roots, the
pages of a directory, the frames of `codec.rs` read through buffers that are cut anywhere, and the
lists of `runtime/queries.rs` and of the LLM gateway followed page by page while rows come, go and
move. A behaviour picks one sample; the properties are invariants over the samples.

### CodeCells, CodeJournal

`CodeCells` has the guest, the task that serves its frames, the two pipes and the channel of
notifications between them, and the one outer call (exec or wait) the model makes at a time.
`CodeJournal` has the journaled engine: admission of a cell in the session state, a record before and
after each nested call, compare-and-set writes whose acknowledgement may be lost, owners that replace
each other.

### SitesService, SiteDatabase

`SitesService` is one site: its row, bundles on disk, the active release, the schema of its database,
invocations and the authoring operations; `mutations`, the site's gate and `authoring` are the locks of
the code, and `Kill` may come between any two steps. `SiteDatabase` is the SDK a backend runs against
with its savepoints, transactions, batches and time limits, and the authoring statements with their
receipts. A set of rows tells which statements took effect. SQLite is external; what matters of it is
that a halted statement rolls the whole transaction back and any other error only the statement.

### PlatformCalls

The calls that change sessions and runs (of the application, of an agent, of a site backend), each with
its idempotency key, receipt and the transactions it consists of, and the event stream of a run. Two
calls meet in one of `Workloads`: the same call twice, the same key with another body, or two
operations that touch the same rows.

### RegisteredHosts

One registered host: its row, the in-memory registry, WebSocket sessions, daemons with the credentials
of successive claims, and operations routed over the connection with their queue and their retries.

### E2bClient

Runtimes that find, bootstrap, replace and call the supervisor of one sandbox through envd, and single
calls of the control plane, which may be lost before or after their effect.

### LlmRuns, LlmAccounts, ProviderLogin

`LlmRuns` has the rows of durable runs, the tasks behind them, the gate with its FIFO queue, the
accounting rows, synchronous calls and searches, the client that submits, waits and aborts, and a crash
of the gateway with its recovery. `LlmAccounts` has account rows, the refresh under a replica's mutex
and an advisory lock, the transports each replica caches, and administrators that edit meanwhile. The
transaction that holds the advisory lock has an idle limit and the token request none, so the lock may
be lost under the request (`LoseAdvisoryLock`). `ProviderLogin` has the attempts, the visits to the
callback and the detached tasks that exchange a code and create the account; accounts may be created
though the answer is lost, and a restart forgets the attempts.

## 5. Runs

| run | configuration | expected | properties |
|---|---|---|---|
| run_lifecycle | `MCRunLifecycle`, `MCRunLifecycle.cfg` | pass | `WakeUpsAreKept`, `NumbersNameOneCommand`, `NoStalePark`, `RunsMoveOn` |
| run_sessions | `MCRunSessions`, `MCRunSessions.cfg` | pass | `LeasesAreExclusive`, `HandOversAreInTurn`, `CapacityRespected`, `JournalIsTrue` |
| hosts | `MCHosts`, `MCHosts.cfg` | pass | `HostsAreAsReported`, `RowsTellTheTruth`, `NothingIsTakenBack`, `LinksAreAuthentic`, `SandboxCallsAreExact` |
| gateway_patient | `MCGatewayHosts`, `MCGatewayPatient.cfg` | pass | `NothingIsForgotten`, `WorkEndsForGood` |
| supervisor | `MCSupervisor`, `MCSupervisor.cfg` | pass | `SlotsAreAccounted`, `ReadersMissNothing`, `ImplementsContract`, `ProcessesEnd`, `ReadersReachTheClosedEnd` |
| work | `MCWork`, `MCWork.cfg` | pass | `LlmWorkIsAccounted`, `AccountsStayUsable`, `SignInsAreTruthful`, `WorkersLetGo`, `LlmRunsEndOnce` |
| harnesses | `MCHarnesses`, `MCHarnesses.cfg` | pass | `CallsAreCarriedOutOnce`, `NothingIsLeftOver`, `AbortEnds` |
| tools | `MCTools`, `MCTools.cfg` | pass | `CommandResultsAreExact`, `ScriptReportsAreExact`, `CommandsAreAnswered`, `FilesKeepTheirContract`, `ScriptsStop` |
| services | `MCServices`, `MCServices.cfg` | pass | `SitesAreWhole`, `CallsTakeEffectOnce`, `SiteWritesAreWhole`, `SandboxesAreKept`, `TextsAreExact`, `LateRequestsAreHarmless`, `NothingStaleIsWritten` |
| remote_parked | `MCRemoteOperations`, `MCRemoteParked.cfg` | violation | `CancelledIsScheduled` |
| harness_failure | `MCHarnesses`, `MCHarnessFailure.cfg` | violation | `IncompleteResponseFails` |
| site_transaction | `MCSiteDatabase`, `MCSiteTransaction.cfg` | violation | `TransactionsAreWhole` |

What each shows:

* **run_lifecycle.** One run with two waits and one message, one worker, two claims: whatever order parking, waking, sending, resolving and ending take, no wake-up is lost, no run is parked on an outdated view, and expired leases and due waits move on. Apart from it, the numbers by which a session and its fork name their commands keep their meaning.
* **run_sessions.** Two workers that take one run from each other three times, three runs of which two contest a session, and the journal code mode keeps in a session: leases exclude each other, writes are fenced, capacity is respected, and the code-mode journal is true although its owner was replaced.
* **hosts.** Everything that creates, drives and reaches a host, each on its own: the gateway's reconciliation with overlapping clients and slow tasks, the runtime's remote operations with two lanes that may outlive their leases, registered hosts whose links break and credentials rotate, and the E2B client that shares a sandbox with another.
* **gateway_patient.** A host and a snapshot whose clients let a request settle before the next, with a crash: work is never dropped, comes to its end, and leaves nothing behind at the provider.
* **supervisor.** The supervisor of a host: starts that compete for the last slot, one process whose exit, timeout, terminate, input and shutdown race, and a journal that is appended to while a client reads it in small pages. The manager implements the atomic operations of ProcessContract.
* **work.** A worker that drains, crashes or is retired while it polls and renews, the LLM gateway's runs with aborts, disconnects and a crash, its accounts with two replicas that refresh one token, and the sign-in that creates one, with visits that come twice and answers that are lost.
* **harnesses.** The five compiled harnesses, each as a checkpointed driver that may be stopped between any two steps: calls are carried out under one identity, every submitted history is one the model accepts, inputs enter it once, what was started is stopped, and an abort ends the run.
* **tools.** The tools that act on a machine: a command read in pages by several calls whose worker may stop, an edit and a patch against a filesystem that another process writes to and that restarts, and a script whose pipes and channels are full. The filesystem implements FileContract.
* **services.** The sites service killed at any step of a publication, a site's database with failing statements and batches, repeated and overlapping calls of the platform, sandboxes of sessions with accounts that come and go, the text tools, the wire and the paged lists over every bounded input, and a worker whose abandoned requests arrive late.
* **remote_parked.** A termination that is requested while a lane parks the ready sandbox is never acted on.
* **harness_failure.** A worker that stops between the commit of an unusable response and the failure of the run lets its successor complete the run.
* **site_transaction.** A callback that catches the error of a statement that ended the transaction goes on outside it, and what it writes stays although the transaction is rejected.

**Bounds.** Epochs, versions, rows, requests, crashes, faults and output are bounded in the actions'
guards by the constants named so. They are chosen so that each hazard happens.

* `MCRunLifecycle`: two waits, so that a run can park behind one while the other is resolved, one
  message and two claims, so that a run is claimed, commits, is resolved, parks and is claimed again
  (part *inbox*; the session is not archived, which *sessions* of the next suite does). *aliases*: three
  commands over a trunk and a fork with two drivers.
* `MCRunSessions`: part *takeover* has two workers, three claims and a version bound of five, and
  neither of them drains (which *sessions* has), so that
  the first owner can return with a fresh context after its successor has written; *sessions* has two
  runs that contest a session and a third that starts them or is started by them, and competes for
  capacity. *code*: two owners, two
  nested calls, two lost acknowledgements.
* `MCHosts`: *gateway* two tasks that may outlive their leases and three requests; *remote* one row of
  either kind, since rows share nothing but lanes, and four takings, so that a start is lost, repeated,
  polled and overtaken; *registered* two credentials, two connections and a queue that fills; *e2b* two
  runtimes, two requests, up to three supervisors and one that dies. (What these four keep is proved for
  every number.)
* `MCGatewayPatient`: six requests, each after the last has settled, and one crash.
* `MCSupervisor`: *crowd* has one slot and two executions, one of which two different requests try to
  start; *race* one execution with every way to end; *journal* chunks of up to three bytes read in pages
  of two, which puts a cursor inside an event.
* `MCWork`: *worker* a lease of two ticks with a margin of one, so that a renewal is answered before, at
  and after the deadline; *llm* two runs and a search that compete for one permit and one place in the
  queue; *accounts* two replicas that present the same token and an administrator; *logins* two
  attempts, of which one may run at a time, and two visits.
* `MCHarnesses`: batches of up to two calls of every class, one model operation lost, one stop of an
  activation anywhere.
* `MCTools`: *exec* pages of two and three bytes, four bytes in all and three kept, so that head and tail are
  cut inside a page and at a line break; *files* an edit and a patch of two hunks (one moves a file) on
  the same paths, with a restart and an outside write; *cells* pipes of one frame, a channel of one
  notification.
* `MCServices`: *sites* two patches, a snapshot and a restore with two kills or failures; *database*
  three rows of which one refers to another, two authoring statements; *calls* two calls of `Workloads` with
  a resend or a switch of harness or site, one of them in a behaviour (`NarrowCalls`); *sandboxes* three sessions, one per way to a target, two drivers that begin in order; *text* all inputs up to the
  lengths `MCServices` lists; *worker* requests that arrive after their sender gave up, and a second
  lease, where nothing is released (`NarrowWorker`).

Symmetry is used only over identities no property names and never with liveness.

**Deadlock.** Most specifications stop when their bounds are used up, and the real systems may idle:
their configurations say CHECK_DEADLOCK FALSE. `MCSiteTransaction` checks for deadlock. That nothing
waits for ever where it should not is what the liveness properties say.

**Fairness.** Only what the code schedules by itself is fair. `RunLifecycle`: the reconciler's sweeps,
which `spawn_reconciler` repeats for ever, and the passing of leases; not workers, clients or commits.
`GatewayHosts`: the steps of a running task and the expiry of leases (weak), and claims of due items
(strong, because every pass claims all free due items, while requests may make one briefly
unavailable). `EventJournal`: a client that keeps asking and whose requests end, stated as "idle and
not idle infinitely often" because waits have a timeout. `ProcessManager`: the tokio tasks of a
session, a terminate that has begun, and the end of a killed process. `WorkerSupervisor`: the clock,
the loop, the end of every request after the transport's bounded attempts, and (strong) a heartbeat
that is answered now and then; harnesses and claims are not fair. `LlmRuns`: the tokio task of a
request, whose provider calls have a time limit (in the run only that of the durable runs the property is
about); not clients or aborts. `Harnesses`: the driver's own
steps, the poll that shows it an abort, and a request on its way to the host; stops of activations are
bounded. `ExecTools`: the host answers, closes a command's output after its exit, deadlines pass, and a
bash command is killed at its timeout. `CodeCells`: the outer call's own steps and the end of a
terminated guest; the guest itself is not fair. In a suite each condition holds for the part that
runs. `RemoteOperations` and the remaining modules have no liveness run: with a bounded number of
takings or retries their work cannot be shown to finish.

**What would break.** Each property is violated when one definition is replaced by its faulty variant:

| run / property | definition | variant |
|---|---|---|
| run_lifecycle / `WakeUpsAreKept` | `RunLifecycle.Wakes` | `WakesIfParked` |
| run_lifecycle / `NumbersNameOneCommand` | `ExecAliases.Load` | `LoadPrivate` |
| run_lifecycle / `NoStalePark` | `RunLifecycle.VersionAfterResolve` | `VersionAfterResolveUnbumped` |
| run_lifecycle / `RunsMoveOn` | `RunLifecycle.RequeueExpired` | `RequeueExpiredOfOffline` |
| run_sessions / `LeasesAreExclusive` | `RunLifecycle.Owned` | `OwnedByAnyone` |
| run_sessions / `HandOversAreInTurn` | `RunLifecycle.Claimable` | `ClaimableWhileLeased` |
| run_sessions / `CapacityRespected` | `RunLifecycle.Spare` | `SpareIgnoringLeases` |
| run_sessions / `JournalIsTrue` | `CodeJournal.Prepared` | `PreparedAnyway` |
| hosts / `HostsAreAsReported` | `GatewayHosts.StillWanted` | `RegardlessOfWish` |
| hosts / `RowsTellTheTruth` | `RemoteOperations.SubmitStart` | `SubmitStartAtOnce` |
| hosts / `NothingIsTakenBack` | `RemoteOperations.Holds` | `HoldsRegardless` |
| hosts / `LinksAreAuthentic` | `RegisteredHosts.CredentialHolds` | `CredentialHeldOnce` |
| hosts / `SandboxCallsAreExact` | `E2bClient.MayReplay` | `MayReplayAll` |
| gateway_patient / `NothingIsForgotten` | `GatewayHosts.Call` | `CallDeletesNothing` |
| gateway_patient / `WorkEndsForGood` | `GatewayHosts.LeaseExpires` | `LeaseKept` |
| supervisor / `SlotsAreAccounted` | `ProcessManager.Withdraw` | `WithdrawOccupied` |
| supervisor / `ReadersMissNothing` | `EventJournal.CheckClosed` | `CheckThenRegister` |
| supervisor / `ImplementsContract` | `ProcessManager.Write` | `WriteUnlocked` |
| supervisor / `ProcessesEnd` | `ProcessManager.DrainElapses` | `DrainForever` |
| supervisor / `ReadersReachTheClosedEnd` | `EventJournal.Pick` | `PickWhole` |
| work / `LlmWorkIsAccounted` | `LlmRuns.LlmRelease` | `ReleaseForgetsGranted` |
| work / `AccountsStayUsable` | `LlmAccounts.Recheck` | `RecheckForgetsToRead` |
| work / `SignInsAreTruthful` | `ProviderLogin.Pruned` | `PrunedAll` |
| work / `WorkersLetGo` | `WorkerSupervisor.AllocationStart` | `AllocationStartForgetful` |
| work / `LlmRunsEndOnce` | `LlmRuns.Save` | `SaveOverwrites` |
| harnesses / `CallsAreCarriedOutOnce` | `HarnessDriver.Dispatch` | `DispatchUnsaved` |
| harnesses / `NothingIsLeftOver` | `HarnessDriver.ToClean` | `ToCleanSessions` |
| harnesses / `AbortEnds` | `HarnessDriver.AbortElsewhere` | `AbortAtBoundary` |
| tools / `CommandResultsAreExact` | `ExecTools.PushTail` | `PushTailByEvent` |
| tools / `ScriptReportsAreExact` | `CodeCells.Report` | `ReportCopies` |
| tools / `CommandsAreAnswered` | `ExecTools.Ready` | `ReadyOnlyWhenClosed` |
| tools / `FilesKeepTheirContract` | `FileTools.ReadPages` | `ReadPagesUnchecked` |
| tools / `ScriptsStop` | `CodeCells.ObservesCancel` | `ObservesCancelBetween` |
| services / `SitesAreWhole` | `SitesService.MayRename` | `MayRenameEarly` |
| services / `CallsTakeEffectOnce` | `PlatformCalls.LooksForSlip` | `LooksForSlipOnce` |
| services / `SiteWritesAreWhole` | `SiteDatabase.AfterStatement` | `AfterStatementNoSavepoint` |
| services / `SandboxesAreKept` | `GatewayAccounts.Known` | `KnownNever` |
| services / `TextsAreExact` | `TextTools.Feed` | `FeedSkipsLine` |
| services / `LateRequestsAreHarmless` | `WorkerSupervisor.Until` | `UntilFromReply` |
| services / `NothingStaleIsWritten` | `PlatformCalls.PublishRunOutput` | `PublishOver` |

## 6. Proofs

TLAPS proves the following for all values of the constants that satisfy the modules' assumptions:
no bound of section 5 is used. The assumptions say that identities are disjoint (`NoWorker`, `NoLane`,
`Nobody`, hosts and snapshots, ...), that bounds are naturals, that a lease lasts longer than the margin a
worker keeps, that the same key is used by one kind of operation, and, where cardinalities are compared, that the runs
of a deployment or the requests of a gateway are finite in number (`RunsAssumption`, `OwnersAssumption`,
`RequestsAssumption`), as are a run's inputs (`HarnessAssumption`). TLC evaluates each on the runs.

| module | theorem | states |
|---|---|---|
| `RunLifecycleProofs` | `TypeCorrect` | Every reachable state is well typed and every run row satisfies the CHECK constraints of its table (status against owner, lease and available_at), for every number of workers, runs, waits and inputs and every bound. |
| `RunLifecycleProofs` | `WakeUpsAreNeverLost` (`WakeUpsAreKept`) | No parked or delayed run has an unsettled input, a parked run has an open wait and an ended run none, and a completed run left no input unread, in whatever order inputs, commits, resolutions and lease expiries interleave. |
| `RunLifecycleProofs` | `LeasesStayExclusive` (`LeasesAreExclusive`) | No session has two live runs, no offline worker an unexpired lease, and no write of a worker that lost its lease follows its successor's. |
| `RunLifecycleProofs` | `RunsChangeHandsInTurn` (`HandOversAreInTurn`) | A step that gives a run a new owner finds its lease released or expired and raises the epoch by one, and no step changes an ended run. |
| `RunLifecycleProofs` | `NoWakeUpIsLost` | No parked or delayed run ever has an unsettled input, an abort request included. |
| `RunLifecycleProofs` | `WritesAreFenced` | In every session's history the entries of a run are ordered by lease epoch and none is newer than its checkpoint and its own epoch. |
| `GatewayHostsProofs` | `HostTypesCorrect` | Every reachable state of hosts, snapshots and tasks is well typed, for every number of hosts, snapshots and tasks. |
| `GatewayHostsProofs` | `WishesAreAlwaysPursued` | What the gateway records as observed never contradicts what is wanted, however late the results of its tasks are, and an item in a transitional state is always due, so a gateway that stops anywhere finds it again (a part of HostsAreAsReported). |
| `RunLifecycleProofs` | `NoRunIsParkedStale` (`NoStalePark`) | A worker parks a run only after its context showed it every wait that something other than its own commits resolved, however resolutions, lost replies and changes of the owner interleave. |
| `RunLifecycleProofs` | `CapacityIsRespected` (`CapacityRespected`) | No step gives a worker more unexpired leases than its capacity at that moment, for any finite set of runs. |
| `GatewayHostsProofs` | `ReadySnapshotsExist` | A snapshot that is reported ready has its image at the provider, although creations, deletions and retries of it overlap in any number of tasks. |
| `GatewayHostsProofs` | `HostsStayAsReported` (`HostsAreAsReported`) | Hosts and snapshots are in no observed state their wish excludes, what is under way is due, and a ready snapshot exists, for every number of items, tasks, requests and crashes. |
| `ProcessManagerProofs` | `TypesCorrect` | Every reachable state of the process manager is well typed, for every set of executions, requests and callers. |
| `ProcessManagerProofs` | `SlotsStayAccounted` (`SlotsAreAccounted`) | The counter of active processes is the number of sessions that are not completed, after failed starts, cleanups and shutdowns too, and never more processes run than the limit allows. |
| `ProcessManagerProofs` | `ManagerImplementsContract` (`ImplementsContract`) | Every behaviour of the manager, with its locks and tasks interleaved in any way, is one of the atomic contract under the refinement mapping. |
| `GatewayHostsProofs` | `RemoteTypesCorrect` | Every reachable state of rows, lanes, hosts and processes is well typed, for every number of them. |
| `GatewayHostsProofs` | `RowsAlwaysTellTheTruth` (`RowsTellTheTruth`) | A confirmed cancellation means that nothing runs, a finished row of a process that was not lost has all its output, and a terminated sandbox has no host left, although a lane that lost its row goes on with its copy. |
| `GatewayHostsProofs` | `NothingIsEverTakenBack` (`NothingIsTakenBack`) | No step takes back a cancel request, moves a saved cursor back or changes the result of a finished row: a lane that was overtaken writes nothing over its successor's work. |
| `WorkerSupervisorProofs` | `WorkerTypesCorrect` | Every reachable state of the lease table and of the workers is well typed, for every number of workers and runs and every lease time and margin. |
| `WorkerSupervisorProofs` | `LateRequestsStayHarmless` (`LateRequestsAreHarmless`) | What a worker executes it holds at the server, and no lease is activated twice, whatever heartbeats and claims are lost, repeated or late and however long the lease and its margin are. |
| `WorkerSupervisorProofs` | `OfflineWorkersAreIdle` | A worker that the server has taken offline executes nothing it has not given back (the invariant among the parts of WorkersLetGo). |
| `LlmRunsProofs` | `LlmRunsTypesCorrect` | Every reachable state of runs, tasks, permits and accounting rows is well typed, for every finite set of requests. |
| `LlmRunsProofs` | `LlmWorkStaysAccounted` (`LlmWorkIsAccounted`) | A key is paid for once while its row lasts, permits in the gate and permits in use add up to the limit and none is idle while somebody waits, and what ran to its end has closed its accounting row, through aborts, disconnects and crashes. |
| `LlmRunsProofs` | `FirstTransitionStays` | The first terminal transition of a durable run wins: a late answer never replaces an abort nor an abort an answer (the safety half of LlmRunsEndOnce). |
| `HostLinksProofs` | `RegTypesCorrect` | Every reachable state of a registered host, its connections, queues, daemons and operations is well typed, for every number of them. |
| `HostLinksProofs` | `LinksStayAuthentic` (`LinksAreAuthentic`) | Once a claim has returned its credential no daemon with an older one is the host's open link, and an operation is answered by the connection its request went out on, for any number of daemons, credentials and connections. |
| `HostLinksProofs` | `E2bTypesCorrect` | Every reachable state of a sandbox, its supervisors, runtimes and control calls is well typed. |
| `HostLinksProofs` | `SandboxCallsStayExact` (`SandboxCallsAreExact`) | One process at the most serves a sandbox, operations reach only a supervisor of its own host and none of those is killed; a control call that is not repeated takes effect once at the most and is reported ambiguous when it may have. |
| `RunLifecycleProofs` | `NumbersAlwaysNameOneCommand` (`NumbersNameOneCommand`) | A number a model has seen stands for the command whose result showed it or for nothing, in its session and in a fork of it, although drivers are cut off between preparing a command and showing its number, for every number of branches, commands and retained sessions. |
| `RunLifecycleProofs` | `CodeTypesCorrect` | Every reachable state of a script's cell, its nested calls, the engines that claim them and the platform's requests is well typed, for every number of nested calls, requests and lost replies. |
| `RunLifecycleProofs` | `JournalStaysTrue` (`JournalIsTrue`) | A script is started once at the most, the platform performs no operation the journal does not know and every one it records as succeeded, and an outcome that was returned stays, although an engine that was replaced goes on and answers are lost. |
| `LlmRunsProofs` | `AccountsTypesCorrect` | Every reachable state of the accounts, the replicas' caches and the requests that refresh a token is well typed, for every finite set of accounts, replicas, requests and administrators. |
| `LlmRunsProofs` | `AccountsAlwaysUsable` (`AccountsStayUsable`) | One account at the most is the default and it can be used, two requests present one account's token at once only after a lock was taken away, and racing refreshes cost no account its login, with any number of replicas, requests and administrators. |
| `LlmRunsProofs` | `LoginsTypesCorrect` | Every reachable state of sign-in attempts, visits and requests to create an account is well typed. |
| `LlmRunsProofs` | `SignInsStayTruthful` (`SignInsAreTruthful`) | A sign-in creates one account at the most, none that was reported cancelled, reports a success only when the account exists, and leaves no attempt exchanging without a task, for every number of attempts, visits and restarts. |
| `ServicesProofs` | `SitesAlwaysWhole` (`SitesAreWhole`) | The active release and every snapshot were published whole, an invocation runs its guest once and over a schema its release supports, and an operation is answered with what it did, wherever the service is killed and however often it is restarted. |
| `ServicesProofs` | `EditsAreNeverLost` | A patch becomes active only over the release it was made from, also when a restarted service carries on with it or another release was activated and taken back (a part of NothingStaleIsWritten). |
| `ServicesProofs` | `CallsAlwaysTakeEffectOnce` (`CallsTakeEffectOnce`) | A key has one effect however often and by whomever its call is sent and its answers agree, a disabled harness has no live run although starts race the switch, and a reader of the stream gets every event once and in order over reconnects. |
| `ServicesProofs` | `StaleCallersNeverWrite` | No call of an agent whose lease was lost while it waited takes effect, and no step changes an output that was published (a part of NothingStaleIsWritten). |
| `ServicesProofs` | `SiteWritesStayWhole` (`SiteWritesAreWhole`) | A transaction or a batch that answers is on disk whole and one that is rejected not at all, and an authoring statement is applied once and has its receipt, for callbacks that do not catch the loss of their transaction (the excluded case is the finding of site_transaction). |
| `ServicesProofs` | `HostAccountsTypesCorrect` | Every reachable state of sessions, E2B accounts, creation records and hosts is well typed, for every number of them. |
| `ServicesProofs` | `SandboxesAreAlwaysKept` (`SandboxesAreKept`) | The drivers of a session work on the one sandbox that was saved, a second one is created only after the gateway forgot the key of the first, no host is on an account that was deleted, and at most one account is the default and active. |
| `GatewayHostsProofs` | `NothingIsEverForgotten` (`NothingIsForgotten`) | With clients that wait for an item to settle and tasks that end within their lease, every sandbox and image at the provider is the item's own, in the hands of a task, or one whose id never reached the gateway, and a deleted item has none, whatever calls fail or tasks are cut off, for every number of items and tasks. |
| `GatewayHostsProofs` | `DeletionsAreFinal` | Under the same assumptions no late failure, retry or snapshot is recorded over a finished deletion (the safety half of WorkEndsForGood). |
| `HostLinksProofs` | `DriverTypesCorrect` | The driver's run, inputs, checkpoint phase and counters keep their types, and the sessions on record are identities it drew, for every finite set of inputs, every set of batches and every bound. |
| `HostLinksProofs` | `EveryCallIsCarriedOutOnce` (`CallsAreCarriedOutOnce`) | In each of the five harnesses a call is dispatched under one identity however often its driver is stopped and resumed, a script once, every submission of a model operation carries the same history, and that history, and the one an ended run leaves, has one result for each call. |
| `HostLinksProofs` | `NothingIsEverLeftOver` (`NothingIsLeftOver`) | A run that was aborted or failed leaves no process but one whose start request outlived its driver, touches an earlier run's process only after a call that names it, and every input enters the history once, when it is handled, whatever is lost or repeated in between. |
| `ToolsProofs` | `CellsTypesCorrect` | Every reachable state of cells, their guests, tasks, pipes and notifications is well typed, for every number of cells and every capacity. |
| `ToolsProofs` | `ScriptReportsStayExact` (`ScriptReportsAreExact`) | The reports on a script divide what it wrote, in order and with nothing twice or lost, the last report of a completed one has the rest, notifications arrive in order, and a yield ends only for a report, for every number of cells, every size of the pipes and the channel and wherever a cell is stopped or its guest dies. |
| `ToolsProofs` | `FilesAlwaysKeepTheirContract` (`FilesKeepTheirContract`) | The supervisor's filesystem implements the file contract (a mutation takes effect once, under its condition, and is answered only then), an edit replaces what it was derived from, and apply_patch reports what it did, for any number of files, editors, hunks, restarts, dropped and repeated requests; no file an editor works on may be removed by two hunks of the patch. |

**RunLifecycle.** The inductive invariant is `TypeOK /\ Safe`. `TypeOK` contains the CHECK constraints
of the runs table (`RowValid`: exactly the running runs have an owner and a lease, a running run was
claimed, only queued runs are delayed), so the proof that each action preserves it is the proof that
no handler's update is ever refused by the database. `Safe` is the conjunction of the safety
invariants, the three about inputs and waits joined per run as `Inbox`. None of them is inductive
alone: that a commit may park a run without losing an input rests on `RowValid` (a running run is
neither parked nor delayed), that a stale worker cannot write rests on the epoch of the row and on
`OfflineHoldsNoLease`, and an action that ends a run must close its waits and settle its inputs in
the same step. Most actions disturb one run and a few of the properties; frame lemmas (`InboxFrame`,
`OfflineFrame`, ...) dispose of the rest. The action properties follow from the same invariant, one
step per action.

`NoStalePark` needs one invariant more, `Views`: a context that carries the row's present version has
seen every resolved wait that is not its owner's own, because every other resolution raises the version;
a commit under an older version is refused. `CapacityRespected` counts: a claim adds at most as many
leases as are free, and every other step keeps or removes leases.

**GatewayHosts.** The inductive invariant is `Rows /\ Created`: `Rows` is type correctness with
`ObservedAgreesWithDesired` and `PendingWorkIsScheduled`, `Created` says that what is due or being
worked on exists. `Created` is needed because a result recorded for an item that does not exist
would contradict the wish `absent`. Each recording action is split by its guard on the wish.

`ReadySnapshotExists` needs a third part, `Images`: a task that is about to record a creation holds an
image that is at the provider, a task that works on a deletion does so only after the deletion was
wished, and wishes of snapshots never go back, so no late result of an old task marks as ready what
another has deleted. `HostsStayAsReported` joins the two.

`NothingIsForgotten` and `DeletedIsFinal` are not true of every client: the theorems assume `Patient`
(a client waits for an item, and for the snapshots of a host, before its next request about it) and
`~SlowTasks` (no task outlives its lease), as the run does. Under them `Patience` is inductive: one task
at a time works on an item (a request needs a settled item, a claim one that is due and free), the wish
and the resource a task read stay so while it works (`Reading`), nobody touches the host of a snapshot
that is being taken (`HostUntouched`: recording the image pauses that host), and every resource at the
provider is bound, in a task's hands or unheard of (`Ledger`); what is gone has no task, is not due and is
observed as deleted, so no late failure can be recorded over it.

**ProcessManager.** The inductive invariant is `TypeOK /\ Locks /\ Starts /\ Answers /\ Lives /\ Counted`.
`Locks` ties a caller's step to the lock it holds, `Starts` and `Answers` say that what a caller found out
before an await still holds when it uses it (that the id is unknown, that a slot was free, that the
process was doomed), `Lives` ties a session to its child, its tasks and its retirement, and `Counted` is
the counter. Without `Starts` the limit could be passed between the check and the installation; it holds
because both happen under `start_gate`. The refinement uses the same invariant: each action is matched
with the contract's operation at the instant it takes effect (a start at the spawn, a terminate at its
record, an end at the published completion) and every other action leaves the mapped variables alone.

**RemoteOperations.** (In `GatewayHostsProofs`, beside the gateway it calls.) The inductive invariant is `RemoteTypeOK /\ Copies /\ Reports`. `Reports` is what rows
say of the world; it is kept only because the *copies* lanes work on are true already before they are
written (`Truthful`), also the copies of lanes that were overtaken, and because a copy with the row's
epoch is ahead of the row (`Ahead`). `NothingIsTakenBack` follows from `Ahead`: who may still write back
has seen everything that was written.

**WorkerSupervisor.** The inductive invariant is `Typed /\ DeadlinesAreEarly /\ Once /\ Listings`.
`DeadlinesAreEarly` says that every local deadline comes a margin before the lease's end at the server,
and says it also of replies under way: a renewal asked for `age` ago is worth the lease time less `age`
(`Worth`). `Once` says that an activated lease is active, retired or out of its worker's reach, which
needs `Listings`: a list of assignments that was read earlier names, for each run, one lease, and all
activated leases the worker still has. `OfflineWorkersAreIdle` adds that an offline worker holds no lease.

**LlmRuns.** The inductive invariant is `Typed /\ Line /\ PermitsAreConserved /\ KeysAreOwned /\ Accounted`.
`Line` says that whoever is in the queue waits there, in one place; with it a permit that comes back
either goes to the first in the queue or to the gate, and the sum stays. `KeysAreOwned` says that a task
has its row until it is over and that the row's key is the one it pays for.

**RegisteredHosts, E2bClient.** `RegInv` adds `ClaimsAreInOrder` to types and property: a claim that has not
answered holds the newest credential, so a connection that is recorded now cannot be older than an
answered claim. `E2bInv` is `E2bTypeOK /\ Processes /\ Clients /\ Controls`: the supervisor the sandbox came
with never starts again, a runtime decides to kill no other, and one that has passed its identity check
knows it dead, although the check and the call are separate requests.

**Harnesses.** The proof is in `HostLinksProofs`, over all five harnesses at once. `DriverInv` is `DriverShape`
(which steps of an activation belong to which phase of the checkpoint: whoever is about to dispatch has its
plan saved), `AnswersNumbered` (the batch under way is that of the newest answer), `CallsNamed` (what was
dispatched for the call under way has the identity its plan names, and an admitted script was dispatched only
if the activation is past it), `BatchPaired` (the calls before the one under way have one result each, and
nothing was said since), `JobsAndPlan` (an operation was submitted with the revision the checkpoint names,
and that revision is paired), `RunProcesses` (a live process is the plan's, a session's, or was started by a
request that outlived its driver) and `InputsHeard`. Neither property is inductive alone: that a
successor repeats no dispatch under a new identity rests on the plan it finds, and that cleanup misses no
process on the plan and the sessions naming all of them.

**ExecAliases.** The inductive invariant is `AliasInv`: per branch, a driver's copy is the saved state and
knows of every number its messages show (`CopyOf`), a planned number is above all that are shown (`PlanOf`),
and the retained entries are of messages that are shown, with the same command (`EntriesOf`). `CopyOf` is
where forks matter: an inherited number is known from the messages, not from the state, which starts empty.
That a bounded set of numbers has a maximum is proved first (`MaxBounded`), by a least counterexample.

**CodeJournal.** The inductive invariant is `CodeTypeOK /\ Engines /\ Launches /\ Calls /\ JournalIsTrue`.
`Engines` says what each execution, also one that was replaced, may still do: whoever would write the cell
has a version that is not newer than the cell's, and only the cell's own version can succeed; whoever is
about to record a success saw the call performed. `Launches` says that the one execution whose admission
was written is the only one at the launch.

**LlmAccounts, ProviderLogin.** `AccountsInv` says of each request that refreshes that it has the advisory lock
and holds the live token, unless the account's token is lost (`RequestOK`), of each account that its stored
token is the live one or a request is about to store that (`RowOK`), and of each administrator's
transaction that the row it read under its locks is unchanged (`AdminOK`). The disjunct `a \in lost` is
what the idle limit of the guarding transaction costs (section 7). `LoginsInv` says that of an attempt's
visits at most one ever left the state in which nothing was exchanged (`OneExchange`), which is why neither
a second visit nor a cancellation can meet an account.

**SitesService, SiteDatabase.** `SiteInv` adds to the property that every release an operation remembers is
whole (`EditOK`), that an unanswered operation's step agrees with its receipt (`AnswerOK`), that the
generation a patch was prepared against stands for the release it was made from as long as it is the
site's (`BasisOK`), and that a running guest holds the gate (`InvocationOK`). `EditsAreNeverLost` is
`BasisOK` read at the activation. `SiteDbInv` relates what was told of each row to what the connection sees
and what is on disk (`HeardOK`, `Sound`); a failed row of a transaction that is still open is not even seen,
which is what the savepoints are for. The theorem assumes `CatchesLoss = FALSE`: the callback does not swallow the error
that ended its transaction. For callbacks that do, the run `site_transaction` shows the opposite.

**PlatformCalls.** `CallInv` says that the effect of a key is the one its receipt names and that a caller
inside its second transaction holds the key, which still has no receipt, and, if it is an agent, its lease
(`CallOK`); that nobody who could start a run is in a transaction while the harness is being switched off
(`AdmissionOK`); and that cursor, buffer and delivered events of the stream fit together (`StreamOK`).

**SessionSandboxes.** `SandboxInv` counts: the hosts made for a key are as many as the records of it that
were forgotten, and one more if it is known (`Counted`). With `RowsOK` and `HostsHaveAccounts`, which hold for
the accounts and every handler between its statements, this gives both halves of `SandboxesAreKept`.

**CodeCells.** The proof is in `ToolsProofs`. `CellsInv` says where cell, task and guest can be together
(`Together`) and follows what a script writes along its way: what was reported, what the task keeps and
what is in the pipe are the numbers from one on without a gap, up to what the guest has written
(`OutputFlows`); the same of notifications, up to the channel and the saved ones (`NotesFlow`); and a
resumption that is in the pipe, being written or permitted stands for a report of its own (`YieldsFlow`).
How many frames of a kind a pipe holds is stated by a function that counts along it (`CountsAlong`), with
lemmas for appending to a pipe and taking from it, so no induction over its length is needed.

**FileTools.** The proof is in `ToolsProofs`. A mutation takes effect once for two different reasons. One of
the patch is fenced: its record is there before its effect, so it is answered from the record while the
supervisor lives and refused by its generation afterwards (`Current`, `RecordsOK`). One of an editor is not
fenced and has no record until it is answered; it is not applied again because the content it is made for
is gone and does not come back: every content a file ever had is `Spent`, and whatever is written is not
(`OfEdit`, `FilesOK`). `PatchOrder` says that the mutations of the patch took effect in the order of their
numbers, as many as were acknowledged or one more; with `PatcherOK` (plan, staged mutations and numbers fit
together) this is the report of the patch. The refinement reads the same invariant: `Mutate` is the
contract's write or removal, a restart in the middle of a write in place is an outside write, answers
follow effects, and everything else stutters.

Absence is the one content that can come back, when a file is removed again. The theorem therefore
assumes `RemovedOnce`: no file an editor works on is removed by two hunks of the patch (the run's hunks
satisfy it). Section 7 says what happens otherwise.

**Left to TLC.** Out of the prover's reach: liveness (fairness and ENABLED: the temporal parts of
`WorkersLetGo`, `LlmRunsEndOnce`, `RunsMoveOn`, `WorkEndsForGood`, `ProcessesEnd`, `ReadersReachTheClosedEnd`,
`AbortEnds`, `CommandsAreAnswered`, `ScriptsStop`); what recursive functions and folds compute for every
input (`TextsAreExact`; `ReadersMissNothing` and `CommandResultsAreExact`, whose pages, heads and tails are
folds over sequences). `NothingStaleIsWritten` is the
conjunction, in the suite, of the two action properties proved as `EditsAreNeverLost` and
`StaleCallersNeverWrite`.

## 7. Findings

Three disagreements have a run of their own:

1. **remote_parked / CancelledIsScheduled** (code bug, `src/platform/apps/server/src/runtime/remote_operations/runner.rs:82`). reconcile_remote_once decides to park a ready sandbox from the cancel_requested it read when it took the row (runner.rs:37, 82), while its update keeps a request that arrived since (cancel_requested=cancel_requested or $13, runner.rs:83) and sets next_attempt_at to infinity over the value the request had written (remote_operations.rs:513). A termination requested between the two leaves the row cancelled, unfinished and never due; src/platform/apps/server/migrations/20260910040000_persistent_sandboxes.sql:25-26 says: "Ready sandboxes need no periodic reconciliation. Explicit termination sets next_attempt_at back to the current time."
2. **harness_failure / IncompleteResponseFails** (code bug, `src/platform/packages/harnesses/basic-cc-tools-harness/src/driver.rs:536`). assistant saves a response that was cut short, filtered or empty together with the phase Boundary { final_message } in one commit (driver.rs:536-544) and calls fail only afterwards (545-551). A worker that stops between the two leaves a checkpoint from which the next activation completes the run with that response; src/platform/packages/harnesses/basic-cc-tools-harness/README.md:58-59 says: "Normal final answers/refusals finish the run; length/filter/empty/unsupported stops fail explicitly." The environments and sites harnesses share the order.
3. **site_transaction / TransactionsAreWhole** (code bug, `src/platform/apps/sites-service/src/database.rs:318`). The progress handler that halts a statement after one second (database.rs:311-322), like a full database, makes SQLite roll the whole transaction back, while self.transaction stays set unless the invocation or the transaction itself is over (297-299). A callback that catches the error goes on: each later statement opens and releases a savepoint of its own (327, 381) and so commits by itself, the commit at the end fails, and the rollback undoes nothing. src/platform/packages/harnesses/sites/src/system_prompt.md:335 says: "Resolving the callback commits and returns its value; throwing rolls back."

### Refuted

More were met while modelling. Each is stated as a property in its module and is no part of the
passing runs; TLC refutes it when it is checked, guarded by its part, in the configuration named here.

* `RunLifecycle!ParkObservesEveryResolution` (`MCRunLifecycle.cfg` with `MaxVersion = 5`). A commit
  resolves those of its new waits that are already satisfied (`runtime/commits.rs:207-211`), which bumps
  the run's version; the reply carries the bumped version but not the resolution (`commits.rs:297`), and
  the drivers go on from that version, so the worker's next commit may park the run behind another wait
  without having seen it. `runtime/waits.rs:74-75`: "An active worker must observe this resolution before
  it can park."
* `GatewayHosts!SameActionOnce` (`MCHosts.cfg`). `schedule_host_reconcile` and `request_host_state` clear
  the lease of a host whose task is still working (`gateway/database.rs:577, 605`), and a second task
  performs the same action; the second sandbox's id is dropped by `attach_provider_host`.
  `execution-gateway/README.md:242-244` promises leases "without performing the same lifecycle action
  concurrently".
* `GatewayHosts!DeleteIsNotOverridden` (`MCGatewayPatient.cfg` with `Patient = FALSE`).
  `complete_snapshot_ready` sets its source host to desired `paused` with nothing scheduled, whatever is
  desired of it (`gateway/database.rs:1275`): a host whose deletion was requested while its snapshot was
  being created is no longer due, and the next operation resumes it. `execution-gateway/README.md:206`:
  "Deleted hosts and pauses/snapshots in progress are not automatically overridden."
* `ProcessManager!ShutdownStopsProcesses` (`MCSupervisor.cfg`). `shutdown` kills the sessions of one
  snapshot of the table; a start that is between spawning and `install_session` leaves a process nobody
  kills. `execution-supervisor-core/src/runtime.rs:81`: "Stops every process still owned by this
  generation."
* `SiteDatabase!AcknowledgedIsDurable` (`MCServices.cfg`). A statement outside a transaction runs inside
  a savepoint. When its RELEASE fails on a deferred foreign key, the savepoint stays open and with it the
  transaction; statements after it are acknowledged and are rolled back with it at the end of the
  invocation.
* `SessionSandboxes!LostCreationIsRecovered` (`MCServices.cfg`). The gateway looks up the snapshot
  and the account before it looks at the key: when the snapshot was deleted in between, the repeated
  request is refused and the harness fails the run although the host exists. `basic-codex-tools-harness/src/environment.rs:84-85`: "A lost
  acknowledgement or lease is recovered by reading state/replaying the same gateway key."
* `RegisteredHosts!DeletedHostIsDisconnected` (`MCHosts.cfg`). The handler of a deletion disconnects the
  daemon and then deletes the row; a handshake that passed its check before the deletion registers
  afterwards and stays.
* `LlmAccounts!RefreshIsSerialized` (`MCWork.cfg`). The transaction that holds the advisory lock is ended
  by its idle limit (`llm-gateway/src/db/mod.rs:44-46`) while the token request may take longer
  (`chatgpt_auth.rs:39-41`). `llm-gateway/README.md:272-273`: "Refresh is serialized per account both
  inside a process and across gateway replicas". What does hold, and is checked, is
  `ReauthOnlyWhenLost`.
* `LlmAccounts!CachedUnderItsVersion` (`MCWork.cfg` with `MaxToken = 3`). A rotation between the write of refreshed
  credentials and the read that follows files the older transport under the newer version.
* `LlmRuns!EveryRequestIsFinalized` (`MCWork.cfg` with one synchronous completion, `Completes = {y1}`).
  The future of a synchronous request is dropped when its caller hangs up, and its accounting row stays
  `running` until the next start of the gateway.
* `CodeJournal!RejectedHadNoEffect`, `CodeJournal!CancelledIsSealed` (`MCRunSessions.cfg`). A nested call
  that was performed but whose answer was lost is sent again under its key, and a refusal of the
  repetition is recorded as a rejection; a cell whose last write fails stays `running` under an owner
  that no longer works on it (`engine.rs:25-26` expects a running execution to cancel).
* `FileTools!FilesImplementContract` (`MCTools.cfg` with two hunks that both delete the file that is
  edited, which `RemovedOnce` excludes; with `MaxFaults = 2` also without a restart). A write that must not
  find a file (`tools/write`) carries no generation, so it leaves no record while it is carried out
  (`supervisor-core/src/filesystem.rs:470-479`) and is not refused by a supervisor that lost its records. When its connection goes away after the
  effect and the file is removed before the repetition, the repetition is carried out again.
  `filesystem.rs:468-469`: "A dropped future may already have changed the filesystem. Retain a
  non-retryable tombstone until the operation has a known result."
* `CodeCells!BridgeMoves`, `CodeCells!YieldsResume` (`MCTools.cfg`). A guest that writes a frame into a
  full pipe and a task that writes an answer into the other wait for each other until the cell's deadline
  (`live/process.rs:157-162`); of two yields that are pending together a report resumes one, and the
  other goes on only after another boundary (`live.rs:174-194`). `StoppedCellIsReported` shows that both end when
  the cell is stopped.

Seen while reading, outside the models or below their resolution: a request that is dropped during a
refresh loses the rotated token; `update_account` of the execution gateway commits the cleared default
even when no row matched (`gateway/database.rs:238-276`); a verification records the result of the key it
read although the key was replaced meanwhile (`gateway/http.rs:360-392`); another process of the host may
write a file between the check of its revision and the rename; a mutation that is repeated after a restart
of the supervisor reports a conflict although it was applied; ascending `created_at` cursors can miss rows
that are committed late under an earlier timestamp.

## 8. What is not modelled

`PROJECT.json` lists every component with its status and reason. In short:

* **User interface and bindings.** The dashboard and the JavaScript SDK forward calls.
* **Single-row administration.** Projects, environments and settings are created, read, updated and
  deleted in one transaction each; machines and the sites front check an answer and forward it.
* **Request handling without protocol state.** HTTP parsing, authentication, tickets, metrics,
  encryption of stored keys, configuration files, data types.
* **Translations.** Requests and streamed events between the formats of model providers, prompts,
  images and web tools, envd's encoding, the grammar of a patch: conversions without shared state, for
  which the repository's unit tests are the better instrument.
* **Left for later.** Any/all conditions of waits, symbolic links, renaming of hosts and snapshots,
  the long poll of work notification.

Abstracted inside the modules: payloads, names, error texts; the order in which claims prefer runs;
backoff times; the 120 seconds after which a worker is silent; the reuse of process ids by the operating
system; database failures, which roll a transaction back and so change nothing; the JavaScript engine,
SQLite, E2B, the operating system, the token endpoint and the model providers, which are external and
modelled by what the code relies on.

## 9. Running

In this directory: `tlc -workers 2 -config <file>.cfg <module>` for a run of the table above,
`tlapm <module>.tla` for each module of the table in section 6.
