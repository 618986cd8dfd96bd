---------------------------- MODULE SitesService ----------------------------
(***************************************************************************)
(* One site of the sites service: its row, its immutable bundles on disk,  *)
(* the active release, the schema of its database, backend invocations,    *)
(* and the authoring operations that patch, snapshot and restore its code. *)
(*                                                                         *)
(* mutations serializes publication, activation and reconciliation; the    *)
(* site's gate serializes what uses its database; authoring serializes     *)
(* edits.  The process may be killed between any two steps; what is on     *)
(* disk and in service.sqlite survives.                                    *)
(***************************************************************************)
EXTENDS Integers, Sequences, FiniteSets

CONSTANTS
    Patches,        \* authoring operations that patch the two files
    Snapshots,      \* authoring operations that save the active release
    Restores,       \* authoring operations that activate a snapshot
    SnapshotOf,     \* the snapshot a restore names
    Invocations,    \* invocation IDs
    Versions,       \* schema versions a release may support: Patches -> SUBSET Nat
    Promoted,       \* the releases that are activated through the internal API too
    MaxVersion,     \* the version the migrations lead to
    MaxDisturbances,  \* process deaths, losses of the disk and changes of the desired status
    Free,           \* the holder of a lock nobody holds
    NoRelease       \* no release is active: the starter page

ASSUME SitesAssumption ==
    /\ SnapshotOf \in [Restores -> Snapshots]
    /\ {MaxVersion, MaxDisturbances} \subseteq Nat
    /\ Versions \in [Patches -> SUBSET Nat] /\ NoRelease \notin Patches
    /\ Patches \cap (Snapshots \cup Restores) = {} /\ Snapshots \cap Restores = {}
    /\ Free \notin Patches \cup Snapshots \cup Restores
    /\ Free \notin {"revision", "release", "migrate", "invoke"} \X (Patches \cup Invocations)

VARIABLES up, site, bundles, held, edits, snaps, receipts, calls, schema, spent, basis
siteVars == <<up, site, bundles, held, edits, snaps, receipts, calls, schema, spent, basis>>

Edits == Patches \cup Snapshots \cup Restores
Bundles == {"revision", "release"} \X Patches

Releases == Patches \cup {NoRelease}
SiteRow == [status : {"provisioning", "ready", "suspended", "failed"}, desired : {"ready", "suspended"},
            initialized : BOOLEAN, stored : BOOLEAN, active : Releases, generation : Nat]
BundleRow == [row : {"none", "staging", "ready", "failed"}, stage : {"none", "part", "whole"}, final : BOOLEAN]
EditSteps == {"idle", "reading", "prepared", "sourcing", "sourced", "releasing", "published", "succeeded",
              "conflict"}
EditRow == [step : EditSteps, row : BOOLEAN, generation : Nat, seen : Releases, release : Releases,
            response : {"none", "succeeded", "conflict"}]
CallRow == [row : {"none", "running", "succeeded", "failed", "interrupted"}, release : Releases, runs : Nat]
Gates == {Free} \cup ({"migrate"} \X Patches) \cup ({"invoke"} \X Invocations)

SiteTypeOK ==
    /\ up \in BOOLEAN /\ site \in SiteRow /\ bundles \in [Bundles -> BundleRow]
    /\ held \in [mutations : Bundles \cup {Free}, gate : Gates, authoring : Edits \cup {Free}]
    /\ edits \in [Edits -> EditRow] /\ snaps \in [Snapshots -> Releases]
    /\ receipts \subseteq {"api", "author"} \X Edits
    /\ calls \in [Invocations -> CallRow]
    /\ schema \in Nat /\ spent \in Nat /\ basis \in [Patches -> Releases]

SiteInit ==
    /\ up = TRUE
    /\ site = [status |-> "provisioning", desired |-> "ready", initialized |-> FALSE, stored |-> TRUE,
               active |-> NoRelease, generation |-> 0]
    /\ bundles = [b \in Bundles |-> [row |-> "none", stage |-> "none", final |-> FALSE]]
    /\ held = [mutations |-> Free, gate |-> Free, authoring |-> Free]
    /\ edits = [e \in Edits |-> [step |-> "idle", row |-> FALSE, generation |-> 0, seen |-> NoRelease,
                                 release |-> NoRelease, response |-> "none"]]
    /\ snaps = [s \in Snapshots |-> NoRelease]
    /\ receipts = {}
    /\ calls = [i \in Invocations |-> [row |-> "none", release |-> NoRelease, runs |-> 0]]
    /\ schema = 0
    /\ spent = 0
    /\ basis = [p \in Patches |-> NoRelease]

-----------------------------------------------------------------------------
(***************************************************************************)
(* The site (sites.rs, storage.rs)                                         *)
(***************************************************************************)
\* reconcile_site: initialized storage is checked, never created again.
Reconciled(s) ==
    IF s.stored THEN [[s EXCEPT !.initialized = TRUE] EXCEPT !.status = s.desired]
    ELSE [s EXCEPT !.status = "failed"]

\* reconcile_all, one site
Reconcile ==
    /\ up /\ held.mutations = Free
    /\ site' = Reconciled(site)
    /\ UNCHANGED <<up, bundles, held, edits, snaps, receipts, calls, schema, spent, basis>>

\* set_status: behind the gate, so never under an invocation or a migration.
SetStatus(d) ==
    /\ up /\ held.gate = Free /\ held.mutations = Free /\ spent < MaxDisturbances
    /\ site.desired # d
    /\ site' = Reconciled([site EXCEPT !.desired = d])
    /\ spent' = spent + 1
    /\ UNCHANGED <<up, bundles, held, edits, snaps, receipts, calls, schema, basis>>

\* The site's directory goes away, and comes back.
StorageLost ==
    /\ site.stored /\ site.initialized /\ spent < MaxDisturbances
    /\ spent' = spent + 1
    /\ site' = [site EXCEPT !.stored = FALSE]
    /\ UNCHANGED <<up, bundles, held, edits, snaps, receipts, calls, schema, basis>>

StorageBack ==
    /\ ~site.stored /\ site' = [site EXCEPT !.stored = TRUE]
    /\ UNCHANGED <<up, bundles, held, edits, snaps, receipts, calls, schema, spent, basis>>

SiteReady == site.status = "ready"

-----------------------------------------------------------------------------
(***************************************************************************)
(* Publication (bundles.rs, bundle_files.rs)                               *)
(***************************************************************************)
SetBundle(b, new) == bundles' = [bundles EXCEPT ![b] = new]

\* upload: the intent is recorded before the disk is touched.  A release needs its source.
StartUpload(b) ==
    /\ held.mutations = Free /\ SiteReady
    /\ b[1] = "release" => bundles[<<"revision", b[2]>>].row = "ready"
    /\ held' = [held EXCEPT !.mutations = b]
    /\ SetBundle(b, [bundles[b] EXCEPT !.row = IF @ = "ready" THEN "ready" ELSE "staging"])

\* publish: an incomplete staging directory is replaced, a final one only verified.
StageFiles(b) ==
    /\ held.mutations = b /\ bundles[b].row = "staging" /\ ~bundles[b].final
    /\ bundles[b].stage # "whole" /\ site.stored
    /\ SetBundle(b, [bundles[b] EXCEPT !.stage = IF @ = "none" THEN "part" ELSE "whole"])
    /\ UNCHANGED <<up, site, held, edits, snaps, receipts, calls, schema, spent, basis>>

\* Faulty variant: the directory is renamed before the marker is in it.
MayRenameEarly(b) == bundles[b].stage # "none"

\* What verify_at accepts.
MayRename(b) == bundles[b].stage = "whole"

RenameComplete(b) ==
    /\ held.mutations = b /\ ~bundles[b].final /\ MayRename(b) /\ site.stored
    /\ LET old == bundles[b] IN
       SetBundle(b, [row |-> old.row, stage |-> IF old.stage = "whole" THEN "none" ELSE old.stage,
                     final |-> TRUE])
    /\ UNCHANGED <<up, site, held, edits, snaps, receipts, calls, schema, spent, basis>>

\* finish_bundle: ready when the files are in place and verify, failed otherwise.
FinishUpload(b) ==
    /\ held.mutations = b
    /\ bundles[b].final \/ ~site.stored
    /\ SetBundle(b, [bundles[b] EXCEPT !.row = IF bundles[b].final /\ site.stored THEN "ready" ELSE "failed"])
    /\ held' = [held EXCEPT !.mutations = Free]
    /\ UNCHANGED <<up, site, edits, snaps, receipts, calls, schema, spent, basis>>

\* recover_bundles: what was published is verified, what was staged whole is published.
RecoverBundle(b) ==
    /\ ~up /\ bundles[b].row = "staging"
    /\ SetBundle(b, IF bundles[b].final /\ site.stored THEN [bundles[b] EXCEPT !.row = "ready"]
                    ELSE IF MayRename(b) /\ site.stored THEN [row |-> "ready", stage |-> "none", final |-> TRUE]
                    ELSE [bundles[b] EXCEPT !.row = "failed"])
    /\ UNCHANGED <<up, site, held, edits, snaps, receipts, calls, schema, spent, basis>>

-----------------------------------------------------------------------------
(***************************************************************************)
(* Activation, migration, invocation                                       *)
(***************************************************************************)
\* check_release_schema
Fits(release, version) == release # NoRelease /\ version \in Versions[release]

\* The generation an activation was prepared against is still the site's.
Expected(generation) == site.generation = generation

\* activate_release: what it did when it is repeated, and what it decides otherwise.
Activated(key) == key \in receipts
Activates(release, generation) ==
    /\ SiteReady /\ release # NoRelease /\ bundles[<<"release", release>>].row = "ready"
    /\ Fits(release, schema) /\ site.stored /\ Expected(generation)
MakeActive(release, key) ==
    /\ site' = [[site EXCEPT !.active = release] EXCEPT !.generation = @ + 1]
    /\ receipts' = receipts \cup {key}

\* An activation from the internal API, of any ready release.
ActivateRelease(p) ==
    /\ up /\ p \in Promoted /\ held.gate = Free /\ held.mutations = Free
    /\ ~Activated(<<"api", p>>) /\ Activates(p, site.generation)
    /\ MakeActive(p, <<"api", p>>)
    /\ UNCHANGED <<up, bundles, held, edits, snaps, calls, schema, spent, basis>>

\* apply_migrations: only while the site is suspended, behind the gate.
StartMigrations(p) ==
    /\ up /\ held.gate = Free /\ site.status = "suspended" /\ schema < MaxVersion
    /\ bundles[<<"release", p>>].row = "ready" /\ MaxVersion \in Versions[p]
    /\ held' = [held EXCEPT !.gate = <<"migrate", p>>]
    /\ UNCHANGED <<up, site, bundles, edits, snaps, receipts, calls, schema, spent, basis>>

\* The transaction commits, or a statement is refused and nothing is changed.
EndMigrations(p) ==
    /\ held.gate = <<"migrate", p>> /\ held' = [held EXCEPT !.gate = Free]
    /\ \/ site.stored /\ schema' = MaxVersion
       \/ UNCHANGED schema
    /\ UNCHANGED <<up, site, bundles, edits, snaps, receipts, calls, spent, basis>>

\* invoke: a known ID returns what is recorded of it.
Replays(i) == calls[i].row # "none"

\* invoke: behind the gate, on the active release or the one named.
StartInvocation(i, release) ==
    /\ up /\ held.gate = Free /\ ~Replays(i)
    /\ SiteReady /\ release \in Patches
    /\ release = site.active \/ bundles[<<"release", release>>].row = "ready"
    /\ bundles[<<"release", release>>].row = "ready" /\ Fits(release, schema) /\ site.stored
    /\ held' = [held EXCEPT !.gate = <<"invoke", i>>]
    /\ calls' = [calls EXCEPT ![i] = [row |-> "running", release |-> release, runs |-> calls[i].runs + 1]]
    /\ UNCHANGED <<up, site, bundles, edits, snaps, receipts, schema, spent, basis>>

\* The guest answered, failed or ran out of time.
EndInvocation(i, outcome) ==
    /\ held.gate = <<"invoke", i>> /\ calls[i].row = "running"
    /\ held' = [held EXCEPT !.gate = Free]
    /\ calls' = [calls EXCEPT ![i] = [calls[i] EXCEPT !.row = outcome]]
    /\ UNCHANGED <<up, site, bundles, edits, snaps, receipts, schema, spent, basis>>

-----------------------------------------------------------------------------
(***************************************************************************)
(* Authoring (authoring.rs)                                                *)
(***************************************************************************)
SetEdit(e, new) == edits' = [edits EXCEPT ![e] = new]
StepTo(e, step) == SetEdit(e, [edits[e] EXCEPT !.step = step])
\* The operation's plan is saved with the release it is about.
Prepared(e, release) ==
    SetEdit(e, [step |-> "prepared", row |-> TRUE, generation |-> edits[e].generation, seen |-> edits[e].seen,
                release |-> release, response |-> edits[e].response])

\* author: a finished operation is only repeated, a prepared one is carried on with.
StartEdit(e) ==
    /\ up /\ held.authoring = Free /\ edits[e].step = "idle" /\ edits[e].response = "none"
    /\ edits[e].row \/ SiteReady
    /\ held' = [held EXCEPT !.authoring = e]
    /\ IF edits[e].row THEN StepTo(e, "prepared")
       ELSE SetEdit(e, [step |-> "reading", row |-> FALSE, generation |-> site.generation, seen |-> site.active,
                        release |-> edits[e].release, response |-> "none"])
    /\ UNCHANGED <<up, site, bundles, snaps, receipts, calls, schema, spent, basis>>

Stopped(e) == /\ held' = [held EXCEPT !.authoring = Free]
              /\ StepTo(e, "idle")

\* The files are patched against the release that is active, the result is frozen; or the
\* operation is refused: the release changed, no code to save, no such snapshot.
PreparePatch(e) ==
    /\ e \in Patches /\ held.authoring = e /\ edits[e].step = "reading"
    /\ IF site.active = edits[e].seen
       THEN /\ Prepared(e, e)
            /\ basis' = [basis EXCEPT ![e] = site.active]
            /\ UNCHANGED held
       ELSE Stopped(e) /\ UNCHANGED basis
    /\ UNCHANGED <<up, site, bundles, snaps, receipts, calls, schema, spent>>

PrepareOther(e) ==
    /\ e \notin Patches /\ held.authoring = e /\ edits[e].step = "reading"
    /\ LET release == IF e \in Snapshots THEN edits[e].seen ELSE snaps[SnapshotOf[e]] IN
       IF release = NoRelease THEN Stopped(e)
       ELSE /\ Prepared(e, release)
            /\ UNCHANGED held
    /\ UNCHANGED <<up, site, bundles, snaps, receipts, calls, schema, spent, basis>>

\* upload_revision, then upload_release, of the prepared files.
NextBundle(e) == IF edits[e].step = "prepared" THEN <<"revision", e>> ELSE <<"release", e>>
UploadOfEdit(e) ==
    /\ e \in Patches /\ held.authoring = e /\ edits[e].step \in {"prepared", "sourced"}
    /\ StartUpload(NextBundle(e))
    /\ StepTo(e, IF edits[e].step = "prepared" THEN "sourcing" ELSE "releasing")
    /\ UNCHANGED <<up, site, snaps, receipts, calls, schema, spent, basis>>

UploadEnds(e) ==
    /\ e \in Patches /\ held.authoring = e /\ edits[e].step \in {"sourcing", "releasing"}
    /\ LET b == IF edits[e].step = "sourcing" THEN <<"revision", e>> ELSE <<"release", e>> IN
       /\ held.mutations # b
       /\ IF bundles[b].row = "ready"
          THEN /\ StepTo(e, IF edits[e].step = "sourcing" THEN "sourced" ELSE "published")
               /\ UNCHANGED held
          ELSE Stopped(e)
    /\ UNCHANGED <<up, site, bundles, snaps, receipts, calls, schema, spent, basis>>

\* The site is not ready for an upload: the operation stops and may be sent again.
UploadRefused(e) ==
    /\ e \in Patches /\ held.authoring = e /\ edits[e].step \in {"prepared", "sourced"} /\ ~SiteReady
    /\ Stopped(e)
    /\ UNCHANGED <<up, site, bundles, snaps, receipts, calls, schema, spent, basis>>

SaveSnapshot(e) ==
    /\ e \in Snapshots /\ held.authoring = e /\ edits[e].step = "prepared"
    /\ snaps' = [snaps EXCEPT ![e] = edits[e].release]
    /\ StepTo(e, "succeeded")
    /\ UNCHANGED <<up, site, bundles, held, receipts, calls, schema, spent, basis>>

\* activate_release refuses for good: the site, the release, or else its schema or the
\* generation is not as expected.  Any other error leaves the operation to be repeated.
Conflicts(release, generation) ==
    \/ ~SiteReady \/ release = NoRelease \/ bundles[<<"release", release>>].row # "ready"
    \/ site.stored /\ ~(Fits(release, schema) /\ Expected(generation))

\* activate_release under the operation's own key; a conflict is the operation's result.
ActivateEdit(e) ==
    /\ held.authoring = e /\ held.gate = Free /\ held.mutations = Free
    /\ \/ e \in Patches /\ edits[e].step = "published"
       \/ e \in Restores /\ edits[e].step = "prepared"
    /\ \/ /\ Activated(<<"author", e>>)
          /\ StepTo(e, "succeeded") /\ UNCHANGED <<site, receipts, held>>
       \/ /\ ~Activated(<<"author", e>>) /\ Activates(edits[e].release, edits[e].generation)
          /\ MakeActive(edits[e].release, <<"author", e>>)
          /\ StepTo(e, "succeeded") /\ UNCHANGED held
       \/ /\ ~Activated(<<"author", e>>) /\ Conflicts(edits[e].release, edits[e].generation)
          /\ StepTo(e, "conflict") /\ UNCHANGED <<site, receipts, held>>
       \/ /\ ~Activated(<<"author", e>>) /\ ~site.stored
          /\ ~Conflicts(edits[e].release, edits[e].generation)
          /\ Stopped(e) /\ UNCHANGED <<site, receipts>>
    /\ UNCHANGED <<up, bundles, snaps, calls, schema, spent, basis>>

SaveResponse(e) ==
    /\ held.authoring = e /\ edits[e].step \in {"succeeded", "conflict"}
    /\ SetEdit(e, [[edits[e] EXCEPT !.response = edits[e].step] EXCEPT !.step = "idle"])
    /\ held' = [held EXCEPT !.authoring = Free]
    /\ UNCHANGED <<up, site, bundles, snaps, receipts, calls, schema, spent, basis>>

-----------------------------------------------------------------------------
\* The process is killed: locks and running tasks are gone, unsaved steps with them.
Kill ==
    /\ spent < MaxDisturbances /\ spent' = spent + 1
    /\ up' = FALSE
    /\ held' = [mutations |-> Free, gate |-> Free, authoring |-> Free]
    /\ edits' = [e \in Edits |-> [edits[e] EXCEPT !.step = "idle"]]
    /\ UNCHANGED <<site, bundles, snaps, receipts, calls, schema, basis>>

\* open_with_platform: bundles recovered, running invocations interrupted, then served.
Serve ==
    /\ ~up /\ \A b \in Bundles : bundles[b].row # "staging"
    /\ up' = TRUE
    /\ site' = Reconciled(site)
    /\ calls' = [i \in Invocations |-> IF calls[i].row = "running"
                                       THEN [calls[i] EXCEPT !.row = "interrupted"] ELSE calls[i]]
    /\ UNCHANGED <<bundles, held, edits, snaps, receipts, schema, spent, basis>>

EditStep(e) ==
    \/ StartEdit(e) \/ PreparePatch(e) \/ PrepareOther(e) \/ UploadOfEdit(e) \/ UploadEnds(e)
    \/ UploadRefused(e) \/ SaveSnapshot(e) \/ ActivateEdit(e) \/ SaveResponse(e)

SiteNext ==
    \/ Reconcile \/ StorageLost \/ StorageBack \/ Kill \/ Serve
    \/ \E d \in {"ready", "suspended"} : SetStatus(d)
    \/ \E b \in Bundles : StageFiles(b) \/ RenameComplete(b) \/ FinishUpload(b) \/ RecoverBundle(b)
    \/ \E p \in Patches : ActivateRelease(p) \/ StartMigrations(p) \/ EndMigrations(p)
    \/ \E i \in Invocations : \/ \E p \in Patches : StartInvocation(i, p)
                              \/ \E o \in {"succeeded", "failed"} : EndInvocation(i, o)
    \/ \E e \in Edits : EditStep(e)

SiteSpec == SiteInit /\ [][SiteNext]_siteVars

-----------------------------------------------------------------------------
\* The active release, and every snapshot, is a release that was published whole, whatever
\* step of publication the process was killed at and however often it was retried.
ActiveReleaseIsWhole ==
    /\ site.active # NoRelease => bundles[<<"release", site.active>>].final
    /\ \A s \in Snapshots : snaps[s] # NoRelease => bundles[<<"release", snaps[s]>>].final
    /\ \A b \in Bundles : bundles[b].row = "ready" => bundles[b].final /\ bundles[b].stage = "none"

\* No edit is lost: a patch becomes active only over the release it was made from, also when
\* it is carried on with after a restart, or another release was activated and taken back.
NoLostEdit ==
    \A p \in Patches : <<"author", p>> \in receipts' \ receipts => site.active = basis[p]

\* An invocation ID runs its guest once, an interrupted one included, and while it runs the
\* schema of the database is one its release supports, so no migration overtakes it.
InvocationsAreIsolated ==
    \A i \in Invocations :
        /\ calls[i].runs <= 1
        /\ calls[i].row = "running" /\ up => Fits(calls[i].release, schema)

\* An operation that was answered has done what it said, although it was killed between the
\* activation and the answer: it succeeded exactly when it was activated, or is a snapshot.
AnswersMatchActivation ==
    \A e \in Patches \cup Restores :
        edits[e].response # "none" => (edits[e].response = "succeeded" <=> <<"author", e>> \in receipts)

\* The active release and every snapshot were published whole, an invocation runs
\* once and over a schema its release supports, and an operation is answered with
\* what it did, whatever step the service was killed at (bundles.rs, authoring.rs and
\* backend.rs of the sites service).
SitesAreWhole == ActiveReleaseIsWhole /\ InvocationsAreIsolated /\ AnswersMatchActivation
=============================================================================
