--------------------------- MODULE ServicesProofs ---------------------------
(***************************************************************************)
(* Proofs about the services of the platform: a site of the sites service, *)
(* its database, the calls of the platform, and the sandboxes of sessions. *)
(* Each part has its inductive invariant, a lemma for every action or kind *)
(* of actions, and its theorems.                                           *)
(***************************************************************************)
EXTENDS SitesService, PlatformCalls, SiteDatabase, SessionSandboxes, FiniteSetTheorems,
        SequenceTheorems, TLAPS

-----------------------------------------------------------------------------
(* A site: publication, activation, invocations and edits (SitesService). *)

\* The files of a release are in their final place.
Whole(p) == bundles[<<"release", p>>].final = TRUE

BundleOK(b) ==
    /\ b.final = TRUE => b.stage = "none"
    /\ b.row = "ready" => b.final = TRUE

\* What an operation remembers: the releases it saw or saves are whole, its plan is
\* saved before it goes on, and it has the answer that belongs to its receipt.
EditOK(e) ==
    /\ edits[e].seen # NoRelease => Whole(edits[e].seen)
    /\ e \in Snapshots /\ edits[e].release # NoRelease => Whole(edits[e].release)
    /\ edits[e].step \notin {"idle", "reading"} => edits[e].row = TRUE
    /\ edits[e].response # "none" => edits[e].step = "idle"

\* An operation that activates knows whether it did.
AnswerOK(e) ==
    /\ edits[e].step = "succeeded" \/ edits[e].response = "succeeded" => <<"author", e>> \in receipts
    /\ edits[e].step = "conflict" \/ edits[e].response = "conflict" => <<"author", e>> \notin receipts

\* The generation a patch was prepared against stands for the release it was made from.
BasisOK(p) ==
    /\ edits[p].generation <= site.generation
    /\ edits[p].row = TRUE => edits[p].release = p
    /\ edits[p].row = TRUE /\ edits[p].generation = site.generation => basis[p] = site.active

\* A guest that runs holds the gate.
InvocationOK(i) ==
    /\ calls[i].runs <= 1
    /\ calls[i].row = "none" => calls[i].runs = 0
    /\ calls[i].row = "running" /\ up = TRUE =>
          held.gate = <<"invoke", i>> /\ Fits(calls[i].release, schema)

SiteInv ==
    /\ SiteTypeOK
    /\ \A b \in Bundles : BundleOK(bundles[b])
    /\ site.active # NoRelease => Whole(site.active)
    /\ \A s \in Snapshots : snaps[s] # NoRelease => Whole(snaps[s])
    /\ \A e \in Edits : EditOK(e)
    /\ \A e \in Patches \cup Restores : AnswerOK(e)
    /\ \A p \in Patches : BasisOK(p)
    /\ \A i \in Invocations : InvocationOK(i)

-----------------------------------------------------------------------------
LEMMA SiteInitially == SiteInit => SiteInv
<1> SUFFICES ASSUME SiteInit PROVE SiteInv
  OBVIOUS
<1> USE SitesAssumption
<1>1. SiteTypeOK
  BY DEF SiteInit, SiteTypeOK, SiteRow, Releases, BundleRow, EditRow, EditSteps, CallRow, Gates
<1>2. /\ site.active = NoRelease /\ \A s \in Snapshots : snaps[s] = NoRelease
      /\ \A b \in Bundles : BundleOK(bundles[b])
  BY DEF SiteInit, BundleOK
<1>3. \A e \in Edits : /\ edits[e].seen = NoRelease /\ edits[e].release = NoRelease /\ edits[e].step = "idle"
                       /\ edits[e].row = FALSE /\ edits[e].response = "none" /\ edits[e].generation = 0
  BY DEF SiteInit
<1>4. /\ \A e \in Edits : EditOK(e)
      /\ \A e \in Patches \cup Restores : AnswerOK(e)
  BY <1>3 DEF EditOK, AnswerOK, Edits
<1>5. \A p \in Patches : BasisOK(p)
  BY <1>3 DEF BasisOK, Edits, SiteInit
<1>6. \A i \in Invocations : InvocationOK(i)
  BY DEF InvocationOK, SiteInit
<1>7. QED BY <1>1, <1>2, <1>4, <1>5, <1>6 DEF SiteInv

-----------------------------------------------------------------------------
(* What the parts of the invariant depend on. *)

\* Releases stay whole when no bundle loses its files.
Kept == \A b \in Bundles : bundles[b].final = TRUE => bundles'[b].final = TRUE

LEMMA WholeStays ==
    ASSUME Kept, NEW p \in Patches, Whole(p)
    PROVE  Whole(p)'
BY DEF Kept, Whole, Bundles

LEMMA SavedStays ==
    ASSUME SiteInv, Kept, UNCHANGED snaps
    PROVE  \A s \in Snapshots : snaps'[s] # NoRelease => (Whole(snaps[s]))'
<1> SUFFICES ASSUME NEW s \in Snapshots, snaps[s] # NoRelease PROVE (Whole(snaps[s]))'
  OBVIOUS
<1>1. snaps[s] \in Patches /\ Whole(snaps[s])
  BY DEF SiteInv, SiteTypeOK, Releases
<1>2. QED BY <1>1, WholeStays DEF Whole, Kept, Bundles

LEMMA ActiveStays ==
    ASSUME SiteInv, Kept, site'.active = site.active
    PROVE  site'.active # NoRelease => (Whole(site.active))'
<1> SUFFICES ASSUME site.active # NoRelease PROVE bundles'[<<"release", site.active>>].final = TRUE
  BY DEF Whole
<1>1. site.active \in Patches /\ Whole(site.active)
  BY DEF SiteInv, SiteTypeOK, SiteRow, Releases
<1>2. QED BY <1>1 DEF Whole, Kept, Bundles

\* The record of an operation that is not touched.
LEMMA EditStays ==
    ASSUME SiteInv, Kept, NEW e \in Edits, edits'[e] = edits[e]
    PROVE  EditOK(e)'
<1>1. edits[e].seen # NoRelease => bundles'[<<"release", edits[e].seen>>].final = TRUE
  BY DEF SiteInv, SiteTypeOK, EditRow, Releases, EditOK, Whole, Kept, Bundles
<1>2. e \in Snapshots /\ edits[e].release # NoRelease => bundles'[<<"release", edits[e].release>>].final = TRUE
  BY DEF SiteInv, SiteTypeOK, EditRow, Releases, EditOK, Whole, Kept, Bundles
<1>3. EditOK(e)
  BY DEF SiteInv
<1>4. QED BY <1>1, <1>2, <1>3 DEF EditOK, Whole

LEMMA EditsStay ==
    ASSUME SiteInv, Kept, UNCHANGED edits
    PROVE  \A e \in Edits : EditOK(e)'
BY EditStays

LEMMA AnswersStay ==
    ASSUME SiteInv, UNCHANGED edits, receipts \subseteq receipts',
           \A e \in Patches \cup Restores : <<"author", e>> \in receipts' => <<"author", e>> \in receipts
    PROVE  \A e \in Patches \cup Restores : AnswerOK(e)'
BY DEF SiteInv, AnswerOK

LEMMA BasesStay ==
    ASSUME SiteInv, UNCHANGED <<edits, basis>>, site'.generation = site.generation, site'.active = site.active
    PROVE  \A p \in Patches : BasisOK(p)'
BY DEF SiteInv, BasisOK

LEMMA CallsStay ==
    ASSUME SiteInv, UNCHANGED <<calls, schema, up>>, held'.gate = held.gate
    PROVE  \A i \in Invocations : InvocationOK(i)'
BY DEF SiteInv, InvocationOK, Fits

\* A step that changes neither operations nor the active release nor invocations: the site's
\* row and the bundles may change.
Quiet ==
    /\ Kept /\ UNCHANGED <<edits, snaps, receipts, basis, calls, schema, up>>
    /\ site'.active = site.active /\ site'.generation = site.generation /\ held'.gate = held.gate

LEMMA QuietKeeps ==
    ASSUME SiteInv, Quiet, SiteTypeOK', \A b \in Bundles : BundleOK(bundles'[b])
    PROVE  SiteInv'
<1>1. /\ Kept /\ UNCHANGED <<edits, snaps, receipts, basis, calls, schema, up>>
      /\ site'.active = site.active /\ site'.generation = site.generation /\ held'.gate = held.gate
  BY DEF Quiet
<1>2. \A s \in Snapshots : snaps'[s] # NoRelease => (Whole(snaps[s]))'
  BY <1>1, SavedStays
<1>3. site'.active # NoRelease => (Whole(site.active))'
  BY <1>1, ActiveStays
<1>4. \A e \in Edits : EditOK(e)'
  BY <1>1, EditsStay
<1>5. \A e \in Patches \cup Restores : AnswerOK(e)'
  BY <1>1, AnswersStay
<1>6. \A p \in Patches : BasisOK(p)'
  BY <1>1, BasesStay
<1>7. \A i \in Invocations : InvocationOK(i)'
  BY <1>1, CallsStay
<1>8. QED BY <1>2, <1>3, <1>4, <1>5, <1>6, <1>7 DEF SiteInv

\* Reconciliation changes the status only.
LEMMA ReconciledRow ==
    ASSUME NEW s \in SiteRow
    PROVE  /\ Reconciled(s) \in SiteRow
           /\ Reconciled(s).active = s.active /\ Reconciled(s).generation = s.generation
<1>1. CASE s.stored
  <2>1. [s EXCEPT !.initialized = TRUE] \in SiteRow
    BY DEF SiteRow
  <2>2. QED BY <1>1, <2>1 DEF Reconciled, SiteRow
<1>2. CASE ~s.stored
  BY <1>2 DEF Reconciled, SiteRow
<1>3. QED BY <1>1, <1>2

LEMMA SiteSteps ==
    ASSUME SiteInv, Reconcile \/ StorageLost \/ StorageBack \/ \E d \in {"ready", "suspended"} : SetStatus(d)
    PROVE  SiteInv'
<1>1. site \in SiteRow /\ SiteTypeOK /\ \A b \in Bundles : BundleOK(bundles[b])
  BY DEF SiteInv, SiteTypeOK
<1>2. /\ site' \in SiteRow /\ site'.active = site.active /\ site'.generation = site.generation
      /\ spent' \in Nat
      /\ UNCHANGED <<up, bundles, held, edits, snaps, receipts, calls, schema, basis>>
  <2>1. CASE Reconcile
    BY <1>1, <2>1, ReconciledRow DEF Reconcile, SiteTypeOK
  <2>2. CASE StorageLost
    <3>1. spent' \in Nat /\ site' = [site EXCEPT !.stored = FALSE]
      BY <1>1, <2>2 DEF StorageLost, SiteTypeOK
    <3>2. site' \in SiteRow /\ site'.active = site.active /\ site'.generation = site.generation
      BY <1>1, <3>1 DEF SiteRow
    <3>3. QED BY <2>2, <3>1, <3>2 DEF StorageLost
  <2>3. CASE StorageBack
    BY <1>1, <2>3 DEF StorageBack, SiteRow, SiteTypeOK
  <2>4. ASSUME NEW d \in {"ready", "suspended"}, SetStatus(d)
        PROVE  /\ site' \in SiteRow /\ site'.active = site.active /\ site'.generation = site.generation
               /\ spent' \in Nat
               /\ UNCHANGED <<up, bundles, held, edits, snaps, receipts, calls, schema, basis>>
    <3> DEFINE wish == [site EXCEPT !.desired = d]
    <3>1. wish \in SiteRow /\ wish.active = site.active /\ wish.generation = site.generation
      BY <1>1 DEF SiteRow
    <3>2. site' = Reconciled(wish)
      BY <2>4 DEF SetStatus
    <3> HIDE DEF wish
    <3>3. site' \in SiteRow /\ site'.active = site.active /\ site'.generation = site.generation
      BY <3>1, <3>2, ReconciledRow
    <3>4. QED BY <1>1, <2>4, <3>3 DEF SetStatus, SiteTypeOK
  <2>5. QED BY <2>1, <2>2, <2>3, <2>4
<1>3. SiteTypeOK'
  BY <1>1, <1>2 DEF SiteTypeOK
<1>4. Quiet
  BY <1>2 DEF Quiet, Kept
<1>5. QED BY <1>1, <1>2, <1>3, <1>4, QuietKeeps

-----------------------------------------------------------------------------
(* Publication *)

LEMMA BundleSteps ==
    ASSUME SiteInv, NEW b \in Bundles,
           StageFiles(b) \/ RenameComplete(b) \/ FinishUpload(b) \/ RecoverBundle(b)
    PROVE  SiteInv'
<1>1. bundles \in [Bundles -> BundleRow] /\ SiteTypeOK /\ \A c \in Bundles : BundleOK(bundles[c])
  BY DEF SiteInv, SiteTypeOK
<1>2. PICK new \in BundleRow : /\ bundles' = [bundles EXCEPT ![b] = new]
                               /\ BundleOK(new) /\ (bundles[b].final = TRUE => new.final = TRUE)
  <2> DEFINE old == bundles[b]
  <2>1. old \in BundleRow /\ BundleOK(old)
    BY <1>1
  <2>2. CASE StageFiles(b)
    <3> DEFINE x == [old EXCEPT !.stage = IF @ = "none" THEN "part" ELSE "whole"]
    <3>1. bundles' = [bundles EXCEPT ![b] = x] /\ old.row = "staging" /\ ~old.final
      BY <2>2 DEF StageFiles, SetBundle
    <3>2. x \in BundleRow /\ BundleOK(x)
      BY <2>1, <3>1 DEF BundleRow, BundleOK
    <3> HIDE DEF x
    <3>3. QED BY <3>1, <3>2
  <2>3. CASE RenameComplete(b)
    <3> DEFINE x == [row |-> old.row, stage |-> IF old.stage = "whole" THEN "none" ELSE old.stage, final |-> TRUE]
    <3>1. bundles' = [bundles EXCEPT ![b] = x] /\ old.stage = "whole"
      BY <2>3 DEF RenameComplete, SetBundle, MayRename
    <3>2. x \in BundleRow /\ BundleOK(x) /\ x.final = TRUE
      BY <2>1, <3>1 DEF BundleRow, BundleOK
    <3> HIDE DEF x
    <3>3. QED BY <3>1, <3>2
  <2>4. CASE FinishUpload(b)
    <3> DEFINE x == [old EXCEPT !.row = IF old.final /\ site.stored THEN "ready" ELSE "failed"]
    <3>1. bundles' = [bundles EXCEPT ![b] = x]
      BY <2>4 DEF FinishUpload, SetBundle
    <3>2. x \in BundleRow /\ BundleOK(x) /\ x.final = old.final
      BY <2>1 DEF BundleRow, BundleOK
    <3> HIDE DEF x
    <3>3. QED BY <3>1, <3>2
  <2>5. CASE RecoverBundle(b)
    <3> DEFINE x == IF old.final /\ site.stored THEN [old EXCEPT !.row = "ready"]
                    ELSE IF MayRename(b) /\ site.stored THEN [row |-> "ready", stage |-> "none", final |-> TRUE]
                    ELSE [old EXCEPT !.row = "failed"]
    <3>1. bundles' = [bundles EXCEPT ![b] = x]
      BY <2>5 DEF RecoverBundle, SetBundle
    <3>2. x \in BundleRow /\ BundleOK(x) /\ (old.final = TRUE => x.final = TRUE)
      BY <2>1 DEF BundleRow, BundleOK
    <3> HIDE DEF x
    <3>3. QED BY <3>1, <3>2
  <2>6. QED BY <2>2, <2>3, <2>4, <2>5
<1>3. bundles' \in [Bundles -> BundleRow] /\ Kept /\ \A c \in Bundles : BundleOK(bundles'[c])
  BY <1>1, <1>2 DEF Kept
<1>4. /\ held'.gate = held.gate
      /\ held' \in [mutations : Bundles \cup {Free}, gate : Gates, authoring : Edits \cup {Free}]
      /\ UNCHANGED <<up, site, edits, snaps, receipts, calls, schema, spent, basis>>
  BY <1>1 DEF StageFiles, RenameComplete, FinishUpload, RecoverBundle, SiteTypeOK
<1>5. SiteTypeOK'
  BY <1>1, <1>3, <1>4 DEF SiteTypeOK
<1>6. Quiet
  BY <1>3, <1>4 DEF Quiet
<1>7. QED BY <1>3, <1>5, <1>6, QuietKeeps

-----------------------------------------------------------------------------
(* Activation *)

LEMMA MakeActiveRow ==
    ASSUME SiteInv, NEW p \in Releases, NEW key \in {"api", "author"} \X Edits, NEW generation,
           Activates(p, generation), MakeActive(p, key)
    PROVE  /\ p \in Patches /\ Whole(p) /\ generation = site.generation
           /\ site' \in SiteRow /\ site'.active = p /\ site'.generation = site.generation + 1
           /\ receipts' = receipts \cup {key} /\ receipts' \subseteq {"api", "author"} \X Edits
<1>1. site \in SiteRow /\ receipts \subseteq {"api", "author"} \X Edits /\ bundles \in [Bundles -> BundleRow]
  BY DEF SiteInv, SiteTypeOK
<1>2. p \in Patches
  BY DEF Activates, Releases
<1>3. Whole(p)
  BY <1>2 DEF Activates, Whole, SiteInv, BundleOK, Bundles
<1>4. [site EXCEPT !.active = p] \in SiteRow
  BY <1>1, <1>2 DEF SiteRow, Releases
<1>5. site' \in SiteRow /\ site'.active = p /\ site'.generation = site.generation + 1
  <2> DEFINE now == [site EXCEPT !.active = p]
  <2>1. now \in SiteRow /\ now.active = p /\ now.generation = site.generation
    BY <1>1, <1>4 DEF SiteRow
  <2>2. site' = [now EXCEPT !.generation = @ + 1]
    BY DEF MakeActive
  <2> HIDE DEF now
  <2>3. QED BY <2>1, <2>2 DEF SiteRow
<1>6. QED BY <1>1, <1>2, <1>3, <1>5 DEF MakeActive, Activates, Expected


\* An operation's part of the invariant survives when another one, or the API, activates.
LEMMA ActivationKeeps ==
    ASSUME SiteInv, NEW p \in Releases, NEW key \in {"api", "author"} \X Edits, NEW generation,
           Activates(p, generation), MakeActive(p, key),
           UNCHANGED <<up, bundles, held, snaps, calls, schema, spent, basis>>,
           edits' \in [Edits -> EditRow],
           \A e \in Edits : EditOK(e)',
           \A e \in Patches \cup Restores : AnswerOK(e)',
           \A e \in Patches : edits'[e].generation = edits[e].generation /\ edits'[e].row = edits[e].row
                               /\ edits'[e].release = edits[e].release
    PROVE  SiteInv'
<1>1. /\ p \in Patches /\ Whole(p)
      /\ site' \in SiteRow /\ site'.active = p /\ site'.generation = site.generation + 1
      /\ receipts' \subseteq {"api", "author"} \X Edits
  BY MakeActiveRow
<1>2. SiteTypeOK'
  BY <1>1 DEF SiteInv, SiteTypeOK
<1>3. \A b \in Bundles : BundleOK(bundles'[b])
  BY DEF SiteInv
<1>4. site'.active # NoRelease => bundles'[<<"release", site'.active>>].final = TRUE
  BY <1>1 DEF Whole
<1>5. \A s \in Snapshots : snaps'[s] # NoRelease => bundles'[<<"release", snaps'[s]>>].final = TRUE
  BY DEF SiteInv, Whole
<1>6. \A e \in Patches : BasisOK(e)'
  <2> SUFFICES ASSUME NEW e \in Patches PROVE BasisOK(e)'
    OBVIOUS
  <2>1. BasisOK(e) /\ edits[e].generation \in Nat /\ site.generation \in Nat
    BY DEF SiteInv, SiteTypeOK, EditRow, SiteRow, Edits
  <2>2. edits[e].generation < site'.generation
    BY <1>1, <2>1 DEF BasisOK
  <2>3. site'.generation \in Nat
    BY <1>1 DEF SiteRow
  <2>4. edits[e].generation <= site'.generation /\ edits[e].generation # site'.generation
    BY <2>1, <2>2, <2>3
  <2>5. QED BY <2>1, <2>4 DEF BasisOK
<1>7. \A i \in Invocations : InvocationOK(i)'
  BY CallsStay
<1>8. QED BY <1>2, <1>3, <1>4, <1>5, <1>6, <1>7 DEF SiteInv, Whole

LEMMA ApiActivation ==
    ASSUME SiteInv, NEW p \in Patches, ActivateRelease(p)
    PROVE  SiteInv'
<1>1. /\ Activates(p, site.generation) /\ MakeActive(p, <<"api", p>>)
      /\ UNCHANGED <<up, bundles, held, edits, snaps, calls, schema, spent, basis>>
  BY DEF ActivateRelease
<1>2. p \in Releases /\ <<"api", p>> \in {"api", "author"} \X Edits
  BY DEF Releases, Edits
<1>3. receipts' = receipts \cup {<<"api", p>>}
  BY <1>1 DEF MakeActive
<1>4. \A e \in Edits : EditOK(e)'
  BY <1>1, EditsStay DEF Kept
<1>5. \A e \in Patches \cup Restores : AnswerOK(e)'
  BY <1>1, <1>3, AnswersStay
<1>6. edits' \in [Edits -> EditRow]
  BY <1>1 DEF SiteInv, SiteTypeOK
<1>7. QED BY <1>1, <1>2, <1>4, <1>5, <1>6, ActivationKeeps

-----------------------------------------------------------------------------
(* The gate: migrations and invocations *)

\* A step of a holder of the gate changes invocations and the schema only.
LEMMA GateKeeps ==
    ASSUME SiteInv, UNCHANGED <<up, site, bundles, edits, snaps, receipts, spent, basis>>,
           held' \in [mutations : Bundles \cup {Free}, gate : Gates, authoring : Edits \cup {Free}],
           calls' \in [Invocations -> CallRow], schema' \in Nat,
           \A i \in Invocations : InvocationOK(i)'
    PROVE  SiteInv'
<1>1. Kept
  BY DEF Kept
<1>2. SiteTypeOK'
  BY DEF SiteInv, SiteTypeOK
<1>3. \A e \in Edits : EditOK(e)'
  BY <1>1, EditsStay
<1>4. \A e \in Patches \cup Restores : AnswerOK(e)'
  BY AnswersStay
<1>5. \A p \in Patches : BasisOK(p)'
  BY BasesStay
<1>6. site'.active # NoRelease => (Whole(site.active))'
  BY <1>1, ActiveStays
<1>7. \A s \in Snapshots : snaps'[s] # NoRelease => (Whole(snaps[s]))'
  BY <1>1, SavedStays
<1>8. \A b \in Bundles : BundleOK(bundles'[b])
  BY DEF SiteInv
<1>9. QED BY <1>2, <1>3, <1>4, <1>5, <1>6, <1>7, <1>8 DEF SiteInv

HeldRows == [mutations : Bundles \cup {Free}, gate : Gates, authoring : Edits \cup {Free}]

LEMMA MigrationSteps ==
    ASSUME SiteInv, NEW p \in Patches, StartMigrations(p) \/ EndMigrations(p)
    PROVE  SiteInv'
<1>1. /\ held \in HeldRows /\ calls \in [Invocations -> CallRow] /\ schema \in Nat
      /\ \A i \in Invocations : InvocationOK(i)
  BY DEF SiteInv, SiteTypeOK, HeldRows
<1>2. Free \notin {"invoke"} \X Invocations
  BY SitesAssumption
<1>3. \A i \in Invocations : up = TRUE => calls[i].row # "running"
  <2> SUFFICES ASSUME NEW i \in Invocations, up = TRUE, calls[i].row = "running" PROVE FALSE
    OBVIOUS
  <2>1. held.gate = <<"invoke", i>>
    BY <1>1 DEF InvocationOK
  <2>2. held.gate = Free \/ held.gate = <<"migrate", p>>
    BY DEF StartMigrations, EndMigrations
  <2>3. QED BY <1>2, <2>1, <2>2
<1>4. held' \in HeldRows /\ schema' \in Nat
  BY <1>1, SitesAssumption DEF StartMigrations, EndMigrations, HeldRows, Gates
<1>5. UNCHANGED <<up, site, bundles, edits, snaps, receipts, calls, spent, basis>>
  BY DEF StartMigrations, EndMigrations
<1>6. \A i \in Invocations : InvocationOK(i)'
  BY <1>1, <1>3, <1>5 DEF InvocationOK
<1>7. QED BY <1>1, <1>4, <1>5, <1>6, GateKeeps DEF HeldRows

LEMMA InvocationStarts ==
    ASSUME SiteInv, NEW i \in Invocations, NEW p \in Patches, StartInvocation(i, p)
    PROVE  SiteInv'
<1>1. /\ held \in HeldRows /\ calls \in [Invocations -> CallRow] /\ schema \in Nat
      /\ \A j \in Invocations : InvocationOK(j)
  BY DEF SiteInv, SiteTypeOK, HeldRows
<1>2. Free \notin {"invoke"} \X Invocations
  BY SitesAssumption
<1> DEFINE new == [row |-> "running", release |-> p, runs |-> calls[i].runs + 1]
<1>3. /\ held.gate = Free /\ calls[i].row = "none" /\ Fits(p, schema) /\ up = TRUE
      /\ held' = [held EXCEPT !.gate = <<"invoke", i>>] /\ calls' = [calls EXCEPT ![i] = new]
      /\ UNCHANGED <<up, site, bundles, edits, snaps, receipts, schema, spent, basis>>
  BY DEF StartInvocation, Replays, SiteInv, SiteTypeOK
<1>4. new \in CallRow /\ new.runs = 1 /\ new.row = "running" /\ new.release = p
  BY <1>1, <1>3 DEF CallRow, InvocationOK, Releases
<1> HIDE DEF new
<1>5. held' \in HeldRows /\ held'.gate = <<"invoke", i>> /\ calls' \in [Invocations -> CallRow]
  BY <1>1, <1>3, <1>4 DEF HeldRows, Gates
<1>6. \A j \in Invocations : InvocationOK(j)'
  <2> SUFFICES ASSUME NEW j \in Invocations PROVE InvocationOK(j)'
    OBVIOUS
  <2>1. CASE j = i
    BY <1>1, <1>3, <1>4, <1>5, <2>1 DEF InvocationOK, Fits
  <2>2. CASE j # i
    <3>1. calls'[j] = calls[j] /\ calls[j].row # "running"
      BY <1>1, <1>2, <1>3, <2>2 DEF InvocationOK
    <3>2. QED BY <1>1, <3>1 DEF InvocationOK
  <2>3. QED BY <2>1, <2>2
<1>7. QED BY <1>1, <1>3, <1>5, <1>6, GateKeeps DEF HeldRows

LEMMA InvocationEndsKeeps ==
    ASSUME SiteInv, NEW i \in Invocations, NEW o \in {"succeeded", "failed"}, EndInvocation(i, o)
    PROVE  SiteInv'
<1>1. /\ held \in HeldRows /\ calls \in [Invocations -> CallRow] /\ schema \in Nat
      /\ \A j \in Invocations : InvocationOK(j)
  BY DEF SiteInv, SiteTypeOK, HeldRows
<1> DEFINE new == [calls[i] EXCEPT !.row = o]
<1>2. /\ held.gate = <<"invoke", i>>
      /\ held' = [held EXCEPT !.gate = Free] /\ calls' = [calls EXCEPT ![i] = new]
      /\ UNCHANGED <<up, site, bundles, edits, snaps, receipts, schema, spent, basis>>
  BY DEF EndInvocation
<1>3. new \in CallRow /\ new.runs = calls[i].runs /\ new.row = o
  BY <1>1 DEF CallRow
<1> HIDE DEF new
<1>4. held' \in HeldRows /\ calls' \in [Invocations -> CallRow]
  BY <1>1, <1>2, <1>3 DEF HeldRows, Gates
<1>5. \A j \in Invocations : InvocationOK(j)'
  <2> SUFFICES ASSUME NEW j \in Invocations PROVE InvocationOK(j)'
    OBVIOUS
  <2>1. CASE j = i
    BY <1>1, <1>2, <1>3, <2>1 DEF InvocationOK
  <2>2. CASE j # i
    <3>1. calls'[j] = calls[j] /\ (up = TRUE => calls[j].row # "running")
      BY <1>1, <1>2, <2>2 DEF InvocationOK
    <3>2. QED BY <1>1, <1>2, <3>1 DEF InvocationOK
  <2>3. QED BY <2>1, <2>2
<1>6. QED BY <1>1, <1>2, <1>4, <1>5, GateKeeps DEF HeldRows

-----------------------------------------------------------------------------
(* Kill and restart *)

LEMMA KillKeeps == ASSUME SiteInv, Kill PROVE SiteInv'
<1>1. /\ up' = FALSE /\ held' = [mutations |-> Free, gate |-> Free, authoring |-> Free]
      /\ edits' = [e \in Edits |-> [edits[e] EXCEPT !.step = "idle"]]
      /\ UNCHANGED <<site, bundles, snaps, receipts, calls, schema, basis>> /\ spent' = spent + 1
  BY DEF Kill
<1>2. \A e \in Edits : /\ edits'[e] \in EditRow /\ edits'[e].step = "idle"
                       /\ edits'[e].row = edits[e].row /\ edits'[e].generation = edits[e].generation
                       /\ edits'[e].seen = edits[e].seen /\ edits'[e].release = edits[e].release
                       /\ edits'[e].response = edits[e].response
  BY <1>1 DEF SiteInv, SiteTypeOK, EditRow, EditSteps
<1>3. edits' \in [Edits -> EditRow]
  BY <1>1, <1>2
<1>4. SiteTypeOK'
  <2>1. held' \in [mutations : Bundles \cup {Free}, gate : Gates, authoring : Edits \cup {Free}]
    BY <1>1 DEF Gates
  <2>2. spent' \in Nat
    BY <1>1 DEF SiteInv, SiteTypeOK
  <2>3. QED BY <1>1, <1>3, <2>1, <2>2 DEF SiteInv, SiteTypeOK
<1>5. \A e \in Edits : EditOK(e)'
  BY <1>1, <1>2 DEF SiteInv, EditOK, Whole
<1>6. \A e \in Patches \cup Restores : AnswerOK(e)'
  BY <1>1, <1>2 DEF SiteInv, AnswerOK, Edits
<1>7. \A p \in Patches : BasisOK(p)'
  BY <1>1, <1>2 DEF SiteInv, BasisOK, Edits
<1>8. \A i \in Invocations : InvocationOK(i)'
  BY <1>1 DEF SiteInv, InvocationOK
<1>9. /\ \A b \in Bundles : BundleOK(bundles'[b])
      /\ site'.active # NoRelease => (Whole(site.active))'
      /\ \A s \in Snapshots : snaps'[s] # NoRelease => (Whole(snaps[s]))'
  BY <1>1 DEF SiteInv, Whole
<1>10. QED BY <1>4, <1>5, <1>6, <1>7, <1>8, <1>9 DEF SiteInv

LEMMA ServeKeeps == ASSUME SiteInv, Serve PROVE SiteInv'
<1>1. site \in SiteRow /\ calls \in [Invocations -> CallRow] /\ \A i \in Invocations : InvocationOK(i)
  BY DEF SiteInv, SiteTypeOK
<1>2. /\ site' \in SiteRow /\ site'.active = site.active /\ site'.generation = site.generation
      /\ up' = TRUE /\ UNCHANGED <<bundles, held, edits, snaps, receipts, schema, spent, basis>>
  BY <1>1, ReconciledRow DEF Serve
<1>3. \A i \in Invocations : /\ calls'[i] \in CallRow /\ calls'[i].row # "running"
                             /\ calls'[i].runs = calls[i].runs
                             /\ calls'[i].row = "none" => calls[i].row = "none"
  <2> SUFFICES ASSUME NEW i \in Invocations
               PROVE  /\ calls'[i] \in CallRow /\ calls'[i].row # "running"
                      /\ calls'[i].runs = calls[i].runs
                      /\ calls'[i].row = "none" => calls[i].row = "none"
    OBVIOUS
  <2>1. calls'[i] = IF calls[i].row = "running" THEN [calls[i] EXCEPT !.row = "interrupted"] ELSE calls[i]
    BY DEF Serve
  <2>2. calls[i] \in CallRow
    BY <1>1
  <2>3. QED BY <2>1, <2>2 DEF CallRow
<1>4. calls' \in [Invocations -> CallRow]
  BY <1>3 DEF Serve
<1>5. SiteTypeOK'
  BY <1>2, <1>4 DEF SiteInv, SiteTypeOK
<1>6. \A i \in Invocations : InvocationOK(i)'
  BY <1>1, <1>3 DEF InvocationOK
<1>7. Kept
  BY <1>2 DEF Kept
<1>8. /\ \A e \in Edits : EditOK(e)'
      /\ \A e \in Patches \cup Restores : AnswerOK(e)'
      /\ \A p \in Patches : BasisOK(p)'
  BY <1>2, <1>7, EditsStay, AnswersStay, BasesStay
<1>9. /\ \A b \in Bundles : BundleOK(bundles'[b])
      /\ site'.active # NoRelease => (Whole(site.active))'
      /\ \A s \in Snapshots : snaps'[s] # NoRelease => (Whole(snaps[s]))'
  BY <1>2, <1>7, ActiveStays, SavedStays DEF SiteInv
<1>10. QED BY <1>5, <1>6, <1>8, <1>9 DEF SiteInv

-----------------------------------------------------------------------------
(* Authoring *)

\* A step of an operation: its record, and perhaps a lock, a snapshot or a basis of its own.
LEMMA EditKeeps ==
    ASSUME SiteInv, Kept, NEW e \in Edits, NEW new \in EditRow, edits' = [edits EXCEPT ![e] = new],
           UNCHANGED <<up, site, receipts, calls, schema, spent>>,
           held' \in HeldRows, held'.gate = held.gate,
           bundles' \in [Bundles -> BundleRow], \A b \in Bundles : BundleOK(bundles'[b]),
           snaps' \in [Snapshots -> Releases],
           \A s \in Snapshots : snaps'[s] # NoRelease => (Whole(snaps[s]))',
           basis' \in [Patches -> Releases], \A p \in Patches \ {e} : basis'[p] = basis[p],
           EditOK(e)', e \in Patches \cup Restores => AnswerOK(e)', e \in Patches => BasisOK(e)'
    PROVE  SiteInv'
<1>1. edits' \in [Edits -> EditRow] /\ \A d \in Edits \ {e} : edits'[d] = edits[d]
  BY DEF SiteInv, SiteTypeOK
<1>2. SiteTypeOK'
  BY <1>1 DEF SiteInv, SiteTypeOK, HeldRows
<1>3. \A d \in Edits : EditOK(d)'
  BY <1>1, EditStays
<1>4. \A d \in Patches \cup Restores : AnswerOK(d)'
  BY <1>1 DEF SiteInv, AnswerOK, Edits
<1>5. \A p \in Patches : BasisOK(p)'
  BY <1>1 DEF SiteInv, BasisOK, Edits
<1>6. site'.active # NoRelease => (Whole(site.active))'
  BY ActiveStays
<1>7. \A i \in Invocations : InvocationOK(i)'
  BY CallsStay
<1>8. QED BY <1>2, <1>3, <1>4, <1>5, <1>6, <1>7 DEF SiteInv

\* The step of an operation that has no answer yet; nothing but its record and the locks.
LEMMA PlainEditKeeps ==
    ASSUME SiteInv, NEW e \in Edits, NEW new \in EditRow, edits' = [edits EXCEPT ![e] = new],
           UNCHANGED <<up, site, bundles, snaps, receipts, calls, schema, spent, basis>>,
           held' \in HeldRows, held'.gate = held.gate,
           EditOK(e)', e \in Patches \cup Restores => AnswerOK(e)', e \in Patches => BasisOK(e)'
    PROVE  SiteInv'
<1>1. Kept
  BY DEF Kept
<1>2. /\ bundles' \in [Bundles -> BundleRow] /\ \A b \in Bundles : BundleOK(bundles'[b])
      /\ snaps' \in [Snapshots -> Releases] /\ basis' \in [Patches -> Releases]
  BY DEF SiteInv, SiteTypeOK
<1>3. \A s \in Snapshots : snaps'[s] # NoRelease => (Whole(snaps[s]))'
  BY <1>1, SavedStays
<1>4. QED BY <1>1, <1>2, <1>3, EditKeeps

\* A change of the step alone, on the way or back to idle.
Steps(e, step) == [edits[e] EXCEPT !.step = step]

LEMMA StepFacts ==
    ASSUME SiteInv, NEW e \in Edits, NEW step \in EditSteps, edits' = [edits EXCEPT ![e] = Steps(e, step)]
    PROVE  /\ Steps(e, step) \in EditRow
           /\ edits'[e].step = step
           /\ edits'[e].row = edits[e].row /\ edits'[e].generation = edits[e].generation
           /\ edits'[e].seen = edits[e].seen /\ edits'[e].release = edits[e].release
           /\ edits'[e].response = edits[e].response
<1>1. edits \in [Edits -> EditRow] /\ edits[e] \in EditRow
  BY DEF SiteInv, SiteTypeOK
<1> DEFINE new == Steps(e, step)
<1>2. /\ new \in EditRow /\ new.step = step /\ new.row = edits[e].row
      /\ new.generation = edits[e].generation /\ new.seen = edits[e].seen
      /\ new.release = edits[e].release /\ new.response = edits[e].response
  BY <1>1 DEF Steps, EditRow
<1>3. edits'[e] = new
  BY <1>1
<1>4. QED BY <1>2, <1>3

\* A step that moves an operation on: neither its last one nor an answer.
LEMMA StepKeepsEdit ==
    ASSUME SiteInv, Kept, NEW e \in Edits, NEW step \in EditSteps \ {"succeeded", "conflict"},
           edits' = [edits EXCEPT ![e] = Steps(e, step)],
           UNCHANGED <<site, receipts, basis>>,
           step # "idle" => edits[e].response = "none",
           step \notin {"idle", "reading"} => edits[e].row = TRUE
    PROVE  /\ EditOK(e)' /\ (e \in Patches \cup Restores => AnswerOK(e)') /\ (e \in Patches => BasisOK(e)')
<1>1. /\ edits'[e].step = step
      /\ edits'[e].row = edits[e].row /\ edits'[e].generation = edits[e].generation
      /\ edits'[e].seen = edits[e].seen /\ edits'[e].release = edits[e].release
      /\ edits'[e].response = edits[e].response
  BY StepFacts
<1>2. EditOK(e) /\ edits[e].seen \in Releases /\ edits[e].release \in Releases
  BY DEF SiteInv, SiteTypeOK, EditRow
<1>3. edits[e].seen # NoRelease => bundles'[<<"release", edits[e].seen>>].final = TRUE
  BY <1>2 DEF Releases, EditOK, Whole, Kept, Bundles
<1>4. e \in Snapshots /\ edits[e].release # NoRelease => bundles'[<<"release", edits[e].release>>].final = TRUE
  BY <1>2 DEF Releases, EditOK, Whole, Kept, Bundles
<1>5. EditOK(e)'
  BY <1>1, <1>2, <1>3, <1>4 DEF EditOK, Whole
<1>6. e \in Patches \cup Restores => AnswerOK(e)'
  BY <1>1 DEF AnswerOK, SiteInv
<1>7. e \in Patches => BasisOK(e)'
  BY <1>1 DEF BasisOK, SiteInv
<1>8. QED BY <1>5, <1>6, <1>7

\* An operation that is at work has no answer.
LEMMA AtWork ==
    ASSUME SiteInv, NEW e \in Edits, edits[e].step # "idle"
    PROVE  edits[e].response = "none"
BY DEF SiteInv, EditOK

LEMMA StoppedKeeps ==
    ASSUME SiteInv, NEW e \in Edits, Stopped(e),
           UNCHANGED <<up, site, bundles, snaps, receipts, calls, schema, spent, basis>>
    PROVE  SiteInv'
<1>1. edits' = [edits EXCEPT ![e] = Steps(e, "idle")] /\ held' = [held EXCEPT !.authoring = Free]
  BY DEF Stopped, StepTo, SetEdit, Steps
<1>2. held' \in HeldRows /\ held'.gate = held.gate
  BY <1>1 DEF SiteInv, SiteTypeOK, HeldRows
<1>3. "idle" \in EditSteps \ {"succeeded", "conflict"} /\ Kept
  BY DEF EditSteps, Kept
<1>4. Steps(e, "idle") \in EditRow
  BY <1>1, <1>3, StepFacts
<1>5. EditOK(e)' /\ (e \in Patches \cup Restores => AnswerOK(e)') /\ (e \in Patches => BasisOK(e)')
  BY <1>1, <1>3, StepKeepsEdit
<1>6. QED BY <1>1, <1>2, <1>4, <1>5, PlainEditKeeps

LEMMA StartEditKeeps == ASSUME SiteInv, NEW e \in Edits, StartEdit(e) PROVE SiteInv'
<1>1. /\ edits[e].step = "idle" /\ edits[e].response = "none"
      /\ held' = [held EXCEPT !.authoring = e]
      /\ UNCHANGED <<up, site, bundles, snaps, receipts, calls, schema, spent, basis>>
  BY DEF StartEdit
<1>2. held' \in HeldRows /\ held'.gate = held.gate
  BY <1>1 DEF SiteInv, SiteTypeOK, HeldRows
<1>3. Kept /\ edits \in [Edits -> EditRow] /\ site \in SiteRow
  BY <1>1 DEF Kept, SiteInv, SiteTypeOK
<1>4. CASE edits[e].row
  <2>1. edits' = [edits EXCEPT ![e] = Steps(e, "prepared")] /\ edits[e].row = TRUE
    BY <1>3, <1>4 DEF StartEdit, StepTo, SetEdit, Steps, EditRow
  <2>2. "prepared" \in EditSteps \ {"succeeded", "conflict"}
    BY DEF EditSteps
  <2>3. Steps(e, "prepared") \in EditRow
    BY <2>1, <2>2, StepFacts
  <2>4. EditOK(e)' /\ (e \in Patches \cup Restores => AnswerOK(e)') /\ (e \in Patches => BasisOK(e)')
    BY <1>1, <1>3, <2>1, <2>2, StepKeepsEdit
  <2>5. QED BY <1>1, <1>2, <2>1, <2>3, <2>4, PlainEditKeeps
<1>5. CASE ~edits[e].row
  <2> DEFINE new == [step |-> "reading", row |-> FALSE, generation |-> site.generation, seen |-> site.active,
                     release |-> edits[e].release, response |-> "none"]
  <2>1. edits' = [edits EXCEPT ![e] = new]
    BY <1>5 DEF StartEdit, SetEdit
  <2>2. new \in EditRow /\ edits[e] \in EditRow
    BY <1>3 DEF EditRow, EditSteps, SiteRow
  <2>3. /\ new.step = "reading" /\ new.row = FALSE /\ new.generation = site.generation
        /\ new.seen = site.active /\ new.release = edits[e].release /\ new.response = "none"
    OBVIOUS
  <2> HIDE DEF new
  <2>4. edits'[e] = new
    BY <1>3, <2>1
  <2>5. EditOK(e)'
    BY <1>1, <2>3, <2>4 DEF EditOK, Whole, SiteInv
  <2>6. e \in Patches \cup Restores => AnswerOK(e)'
    BY <2>3, <2>4 DEF AnswerOK
  <2>7. e \in Patches => BasisOK(e)'
    BY <1>1, <1>3, <2>3, <2>4 DEF BasisOK, SiteRow
  <2>8. QED BY <1>1, <1>2, <2>1, <2>2, <2>5, <2>6, <2>7, PlainEditKeeps
<1>6. QED BY <1>4, <1>5

LEMMA PreparedFacts ==
    ASSUME SiteInv, NEW e \in Edits, NEW release \in Releases, Prepared(e, release)
    PROVE  /\ \E new \in EditRow : edits' = [edits EXCEPT ![e] = new]
           /\ edits'[e].step = "prepared" /\ edits'[e].row = TRUE
           /\ edits'[e].generation = edits[e].generation /\ edits'[e].seen = edits[e].seen
           /\ edits'[e].release = release /\ edits'[e].response = edits[e].response
<1>1. edits \in [Edits -> EditRow] /\ edits[e] \in EditRow
  BY DEF SiteInv, SiteTypeOK
<1> DEFINE new == [step |-> "prepared", row |-> TRUE, generation |-> edits[e].generation, seen |-> edits[e].seen,
                   release |-> release, response |-> edits[e].response]
<1>2. edits' = [edits EXCEPT ![e] = new]
  BY DEF Prepared, SetEdit
<1>3. new \in EditRow
  BY <1>1 DEF EditRow, EditSteps
<1>4. /\ new.step = "prepared" /\ new.row = TRUE
      /\ new.generation = edits[e].generation /\ new.seen = edits[e].seen
      /\ new.release = release /\ new.response = edits[e].response
  OBVIOUS
<1> HIDE DEF new
<1>5. edits'[e] = new
  BY <1>1, <1>2
<1>6. QED BY <1>2, <1>3, <1>4, <1>5

LEMMA PreparePatchKeeps == ASSUME SiteInv, NEW e \in Edits, PreparePatch(e) PROVE SiteInv'
<1>1. /\ e \in Patches /\ edits[e].step = "reading"
      /\ UNCHANGED <<up, site, bundles, snaps, receipts, calls, schema, spent>>
  BY DEF PreparePatch
<1>2. Kept /\ edits[e].response = "none"
  BY <1>1, AtWork DEF Kept
<1>3. CASE site.active = edits[e].seen
  <2>1. /\ Prepared(e, e) /\ basis' = [basis EXCEPT ![e] = site.active] /\ held' = held
    BY <1>3 DEF PreparePatch
  <2>2. e \in Releases
    BY <1>1 DEF Releases
  <2>3. PICK new \in EditRow : edits' = [edits EXCEPT ![e] = new]
    BY <2>1, <2>2, PreparedFacts
  <2>4. /\ edits'[e].step = "prepared" /\ edits'[e].row = TRUE
        /\ edits'[e].generation = edits[e].generation /\ edits'[e].seen = edits[e].seen
        /\ edits'[e].release = e /\ edits'[e].response = "none"
    BY <1>2, <2>1, <2>2, PreparedFacts
  <2>5. /\ basis' \in [Patches -> Releases] /\ basis'[e] = site.active
        /\ \A p \in Patches \ {e} : basis'[p] = basis[p]
    BY <1>1, <2>1 DEF SiteInv, SiteTypeOK, SiteRow
  <2>6. EditOK(e)'
    BY <1>1, <2>4, SitesAssumption DEF SiteInv, EditOK, Whole
  <2>7. AnswerOK(e)'
    BY <2>4 DEF AnswerOK
  <2>8. BasisOK(e)'
    BY <1>1, <2>4, <2>5 DEF SiteInv, BasisOK
  <2>9. /\ held' \in HeldRows /\ held'.gate = held.gate
        /\ bundles' \in [Bundles -> BundleRow] /\ \A b \in Bundles : BundleOK(bundles'[b])
        /\ snaps' \in [Snapshots -> Releases]
    BY <1>1, <2>1 DEF SiteInv, SiteTypeOK, HeldRows
  <2>10. \A s \in Snapshots : snaps'[s] # NoRelease => (Whole(snaps[s]))'
    BY <1>1, <1>2, SavedStays
  <2>11. QED BY <1>1, <1>2, <2>3, <2>5, <2>6, <2>7, <2>8, <2>9, <2>10, EditKeeps
<1>4. CASE site.active # edits[e].seen
  BY <1>1, <1>4, StoppedKeeps DEF PreparePatch
<1>5. QED BY <1>3, <1>4

LEMMA PrepareOtherKeeps == ASSUME SiteInv, NEW e \in Edits, PrepareOther(e) PROVE SiteInv'
<1> DEFINE release == IF e \in Snapshots THEN edits[e].seen ELSE snaps[SnapshotOf[e]]
<1>1. /\ e \notin Patches /\ edits[e].step = "reading"
      /\ UNCHANGED <<up, site, bundles, snaps, receipts, calls, schema, spent, basis>>
  BY DEF PrepareOther
<1>2. edits[e].response = "none"
  BY <1>1, AtWork
<1>3. CASE release = NoRelease
  BY <1>1, <1>3, StoppedKeeps DEF PrepareOther
<1>4. CASE release # NoRelease
  <2>1. Prepared(e, release) /\ held' = held
    BY <1>4 DEF PrepareOther
  <2>2. release \in Releases
    BY <1>1, SitesAssumption DEF SiteInv, SiteTypeOK, EditRow, Edits
  <2>3. e \in Snapshots => Whole(release)
    BY <1>4 DEF SiteInv, EditOK
  <2> HIDE DEF release
  <2>4. PICK new \in EditRow : edits' = [edits EXCEPT ![e] = new]
    BY <2>1, <2>2, PreparedFacts
  <2>5. /\ edits'[e].step = "prepared" /\ edits'[e].row = TRUE
        /\ edits'[e].seen = edits[e].seen
        /\ edits'[e].release = release /\ edits'[e].response = "none"
    BY <1>2, <2>1, <2>2, PreparedFacts
  <2>6. EditOK(e)'
    BY <1>1, <2>3, <2>5 DEF SiteInv, EditOK, Whole
  <2>7. AnswerOK(e)'
    BY <2>5 DEF AnswerOK
  <2>8. held' \in HeldRows /\ held'.gate = held.gate
    BY <2>1 DEF SiteInv, SiteTypeOK, HeldRows
  <2>9. QED BY <1>1, <2>4, <2>6, <2>7, <2>8, PlainEditKeeps
<1>5. QED BY <1>3, <1>4

LEMMA UploadOfEditKeeps == ASSUME SiteInv, NEW e \in Edits, UploadOfEdit(e) PROVE SiteInv'
<1> DEFINE step == IF edits[e].step = "prepared" THEN "sourcing" ELSE "releasing"
<1> DEFINE b == NextBundle(e)
<1>1. /\ e \in Patches /\ edits[e].step \in {"prepared", "sourced"}
      /\ edits' = [edits EXCEPT ![e] = Steps(e, step)] /\ StartUpload(b)
      /\ UNCHANGED <<up, site, snaps, receipts, calls, schema, spent, basis>>
  BY DEF UploadOfEdit, StepTo, SetEdit, Steps
<1>2. step \in EditSteps \ {"succeeded", "conflict"} /\ step \notin {"idle", "reading"}
  BY DEF EditSteps
<1>3. b \in Bundles
  BY <1>1 DEF NextBundle, Bundles
<1> HIDE DEF step, b
<1>4. edits[e].response = "none" /\ edits[e].row = TRUE
  BY <1>1, AtWork DEF SiteInv, EditOK
<1>5. held' \in HeldRows /\ held'.gate = held.gate
  BY <1>1, <1>3 DEF StartUpload, SiteInv, SiteTypeOK, HeldRows
<1>6. /\ bundles' \in [Bundles -> BundleRow] /\ Kept
      /\ \A c \in Bundles : BundleOK(bundles'[c])
  <2> DEFINE new == [bundles[b] EXCEPT !.row = IF @ = "ready" THEN "ready" ELSE "staging"]
  <2>1. bundles \in [Bundles -> BundleRow] /\ \A c \in Bundles : BundleOK(bundles[c])
    BY DEF SiteInv, SiteTypeOK
  <2>2. new \in BundleRow /\ new.final = bundles[b].final /\ BundleOK(new)
    BY <1>3, <2>1 DEF BundleRow, BundleOK
  <2>3. bundles' = [bundles EXCEPT ![b] = new]
    BY <1>1 DEF StartUpload, SetBundle
  <2> HIDE DEF new
  <2>4. QED BY <1>3, <2>1, <2>2, <2>3 DEF Kept
<1>7. Steps(e, step) \in EditRow
  BY <1>1, <1>2, StepFacts
<1>8. EditOK(e)' /\ (e \in Patches \cup Restores => AnswerOK(e)') /\ (e \in Patches => BasisOK(e)')
  BY <1>1, <1>2, <1>4, <1>6, StepKeepsEdit
<1>9. snaps' \in [Snapshots -> Releases] /\ basis' \in [Patches -> Releases]
  BY <1>1 DEF SiteInv, SiteTypeOK
<1>10. \A s \in Snapshots : snaps'[s] # NoRelease => (Whole(snaps[s]))'
  BY <1>1, <1>6, SavedStays
<1>11. QED BY <1>1, <1>5, <1>6, <1>7, <1>8, <1>9, <1>10, EditKeeps

LEMMA UploadEndsKeeps == ASSUME SiteInv, NEW e \in Edits, UploadEnds(e) PROVE SiteInv'
<1> DEFINE step == IF edits[e].step = "sourcing" THEN "sourced" ELSE "published"
<1>1. /\ e \in Patches /\ edits[e].step \in {"sourcing", "releasing"}
      /\ \/ edits' = [edits EXCEPT ![e] = Steps(e, step)] /\ held' = held
         \/ Stopped(e)
      /\ UNCHANGED <<up, site, bundles, snaps, receipts, calls, schema, spent, basis>>
  BY DEF UploadEnds, StepTo, SetEdit, Steps
<1>2. CASE edits' = [edits EXCEPT ![e] = Steps(e, step)] /\ held' = held
  <2>1. step \in EditSteps \ {"succeeded", "conflict"} /\ step \notin {"idle", "reading"}
    BY DEF EditSteps
  <2> HIDE DEF step
  <2>2. edits[e].response = "none" /\ edits[e].row = TRUE /\ Kept
    BY <1>1, AtWork DEF SiteInv, EditOK, Kept
  <2>3. held' \in HeldRows /\ held'.gate = held.gate
    BY <1>2 DEF SiteInv, SiteTypeOK, HeldRows
  <2>4. Steps(e, step) \in EditRow
    BY <1>2, <2>1, StepFacts
  <2>5. EditOK(e)' /\ (e \in Patches \cup Restores => AnswerOK(e)') /\ (e \in Patches => BasisOK(e)')
    BY <1>1, <1>2, <2>1, <2>2, StepKeepsEdit
  <2>6. QED BY <1>1, <1>2, <2>3, <2>4, <2>5, PlainEditKeeps
<1>3. CASE Stopped(e)
  BY <1>1, <1>3, StoppedKeeps
<1>4. QED BY <1>1, <1>2, <1>3

LEMMA UploadRefusedKeeps == ASSUME SiteInv, NEW e \in Edits, UploadRefused(e) PROVE SiteInv'
BY StoppedKeeps DEF UploadRefused

LEMMA SaveSnapshotKeeps == ASSUME SiteInv, NEW e \in Edits, SaveSnapshot(e) PROVE SiteInv'
<1>1. /\ e \in Snapshots /\ edits[e].step = "prepared"
      /\ snaps' = [snaps EXCEPT ![e] = edits[e].release]
      /\ edits' = [edits EXCEPT ![e] = Steps(e, "succeeded")]
      /\ UNCHANGED <<up, site, bundles, held, receipts, calls, schema, spent, basis>>
  BY DEF SaveSnapshot, StepTo, SetEdit, Steps
<1>2. e \notin Patches \cup Restores /\ "succeeded" \in EditSteps
  BY <1>1, SitesAssumption DEF EditSteps
<1>3. /\ Steps(e, "succeeded") \in EditRow /\ edits'[e].step = "succeeded"
      /\ edits'[e].row = edits[e].row
      /\ edits'[e].seen = edits[e].seen /\ edits'[e].release = edits[e].release
      /\ edits'[e].response = edits[e].response
  BY <1>1, <1>2, StepFacts
<1>4. EditOK(e) /\ edits[e].response = "none" /\ edits[e].release \in Releases
  BY <1>1, AtWork DEF SiteInv, SiteTypeOK, EditRow
<1>5. EditOK(e)'
  BY <1>1, <1>3, <1>4 DEF EditOK, Whole
<1>6. /\ held' \in HeldRows /\ held'.gate = held.gate /\ Kept
      /\ bundles' \in [Bundles -> BundleRow] /\ \A b \in Bundles : BundleOK(bundles'[b])
      /\ snaps' \in [Snapshots -> Releases] /\ basis' \in [Patches -> Releases]
  BY <1>1, <1>4 DEF SiteInv, SiteTypeOK, HeldRows, Kept
<1>7. \A s \in Snapshots : snaps'[s] # NoRelease => bundles'[<<"release", snaps'[s]>>].final = TRUE
  <2> SUFFICES ASSUME NEW s \in Snapshots, snaps'[s] # NoRelease
               PROVE  bundles[<<"release", snaps'[s]>>].final = TRUE
    BY <1>1
  <2>1. CASE s = e
    BY <1>1, <1>4, <2>1 DEF EditOK, Whole, SiteInv, SiteTypeOK
  <2>2. CASE s # e
    BY <1>1, <2>2 DEF SiteInv, SiteTypeOK, Whole
  <2>3. QED BY <2>1, <2>2
<1>8. QED BY <1>1, <1>2, <1>3, <1>5, <1>6, <1>7, EditKeeps DEF Whole

LEMMA ActivateEditKeeps == ASSUME SiteInv, NEW e \in Edits, ActivateEdit(e) PROVE SiteInv'
<1> DEFINE key == <<"author", e>>
<1>0. CASE Stopped(e) /\ ~Activated(key) /\ UNCHANGED <<site, receipts>>
  BY <1>0, StoppedKeeps DEF ActivateEdit
<1> SUFFICES ASSUME UNCHANGED held PROVE SiteInv'
  BY <1>0 DEF ActivateEdit
<1>1. /\ e \in Patches \cup Restores /\ edits[e].step \in {"published", "prepared"}
      /\ UNCHANGED <<up, bundles, held, snaps, calls, schema, spent, basis>>
  BY DEF ActivateEdit
<1>2. /\ edits[e].response = "none" /\ edits[e].row = TRUE /\ Kept /\ EditOK(e)
      /\ edits[e].release \in Releases /\ edits \in [Edits -> EditRow]
  BY <1>1, AtWork DEF SiteInv, EditOK, Kept, SiteTypeOK, EditRow
<1>3. held' \in HeldRows /\ held'.gate = held.gate /\ key \in {"api", "author"} \X Edits
  BY <1>1 DEF SiteInv, SiteTypeOK, HeldRows
<1>4. ASSUME NEW step \in {"succeeded", "conflict"}, edits' = [edits EXCEPT ![e] = Steps(e, step)],
             step = "succeeded" <=> key \in receipts'
      PROVE  /\ Steps(e, step) \in EditRow
             /\ edits'[e].row = edits[e].row /\ edits'[e].generation = edits[e].generation
             /\ edits'[e].release = edits[e].release
             /\ EditOK(e)' /\ AnswerOK(e)'
  <2>1. step \in EditSteps
    BY DEF EditSteps
  <2>2. /\ Steps(e, step) \in EditRow /\ edits'[e].step = step
        /\ edits'[e].row = edits[e].row /\ edits'[e].generation = edits[e].generation
        /\ edits'[e].seen = edits[e].seen /\ edits'[e].release = edits[e].release
        /\ edits'[e].response = edits[e].response
    BY <1>4, <2>1, StepFacts
  <2>3. EditOK(e)'
    BY <1>1, <1>2, <2>2 DEF EditOK, Whole
  <2>4. AnswerOK(e)'
    BY <1>2, <1>4, <2>2 DEF AnswerOK
  <2>5. QED BY <2>2, <2>3, <2>4
<1>5. ASSUME NEW step \in {"succeeded", "conflict"}, StepTo(e, step), UNCHANGED <<site, receipts>>,
             step = "succeeded" <=> key \in receipts
      PROVE  SiteInv'
  <2>1. edits' = [edits EXCEPT ![e] = Steps(e, step)]
    BY <1>5 DEF StepTo, SetEdit, Steps
  <2>2. /\ Steps(e, step) \in EditRow
        /\ edits'[e].row = edits[e].row /\ edits'[e].generation = edits[e].generation
        /\ edits'[e].release = edits[e].release /\ EditOK(e)' /\ AnswerOK(e)'
    BY <1>4, <1>5, <2>1
  <2>3. e \in Patches => BasisOK(e)'
    BY <1>1, <1>5, <2>2 DEF BasisOK, SiteInv
  <2>4. QED BY <1>1, <1>3, <1>5, <2>1, <2>2, <2>3, PlainEditKeeps
<1>6. ASSUME ~Activated(key), Activates(edits[e].release, edits[e].generation),
             MakeActive(edits[e].release, key), StepTo(e, "succeeded")
      PROVE  SiteInv'
  <2>1. edits' = [edits EXCEPT ![e] = Steps(e, "succeeded")] /\ receipts' = receipts \cup {key}
    BY <1>6 DEF StepTo, SetEdit, Steps, MakeActive
  <2>2. /\ Steps(e, "succeeded") \in EditRow
        /\ edits'[e].row = edits[e].row /\ edits'[e].generation = edits[e].generation
        /\ edits'[e].release = edits[e].release /\ EditOK(e)' /\ AnswerOK(e)'
    BY <1>4, <2>1
  <2>3. edits' \in [Edits -> EditRow] /\ \A d \in Edits \ {e} : edits'[d] = edits[d]
    BY <1>2, <2>1, <2>2
  <2>4. \A d \in Edits : EditOK(d)'
    BY <1>2, <2>2, <2>3, EditStays
  <2>5. \A d \in Patches \cup Restores : AnswerOK(d)'
    <3> SUFFICES ASSUME NEW d \in Patches \cup Restores, d # e PROVE AnswerOK(d)'
      BY <2>2
    <3>1. edits'[d] = edits[d] /\ AnswerOK(d)
      BY <2>3 DEF SiteInv, Edits
    <3>2. <<"author", d>> # key
      OBVIOUS
    <3>3. QED BY <2>1, <3>1, <3>2 DEF AnswerOK
  <2>6. \A d \in Patches : edits'[d].generation = edits[d].generation /\ edits'[d].row = edits[d].row
                           /\ edits'[d].release = edits[d].release
    BY <2>2, <2>3 DEF Edits
  <2>7. QED BY <1>1, <1>2, <1>3, <1>6, <2>3, <2>4, <2>5, <2>6, ActivationKeeps
<1>7. QED BY <1>0, <1>5, <1>6 DEF ActivateEdit, Activated

LEMMA SaveResponseKeeps == ASSUME SiteInv, NEW e \in Edits, SaveResponse(e) PROVE SiteInv'
<1>1. edits \in [Edits -> EditRow] /\ edits[e] \in EditRow /\ EditOK(e)
  BY DEF SiteInv, SiteTypeOK
<1> DEFINE said == [edits[e] EXCEPT !.response = edits[e].step]
<1> DEFINE new == [said EXCEPT !.step = "idle"]
<1>2. /\ edits[e].step \in {"succeeded", "conflict"}
      /\ edits' = [edits EXCEPT ![e] = new] /\ held' = [held EXCEPT !.authoring = Free]
      /\ UNCHANGED <<up, site, bundles, snaps, receipts, calls, schema, spent, basis>>
  BY DEF SaveResponse, SetEdit
<1>3. /\ said \in EditRow /\ said.response = edits[e].step /\ said.row = edits[e].row
      /\ said.generation = edits[e].generation /\ said.seen = edits[e].seen /\ said.release = edits[e].release
  BY <1>1, <1>2 DEF EditRow
<1> HIDE DEF said
<1>4. /\ new \in EditRow /\ new.response = edits[e].step /\ new.row = edits[e].row /\ new.step = "idle"
      /\ new.generation = edits[e].generation /\ new.seen = edits[e].seen /\ new.release = edits[e].release
  BY <1>3 DEF EditRow, EditSteps
<1> HIDE DEF new
<1>5. edits'[e] = new
  BY <1>1, <1>2
<1>6. EditOK(e)'
  BY <1>1, <1>2, <1>4, <1>5 DEF EditOK, Whole
<1>7. e \in Patches \cup Restores => AnswerOK(e)'
  BY <1>2, <1>4, <1>5 DEF AnswerOK, SiteInv
<1>8. e \in Patches => BasisOK(e)'
  BY <1>2, <1>4, <1>5 DEF BasisOK, SiteInv
<1>9. held' \in HeldRows /\ held'.gate = held.gate
  BY <1>2 DEF SiteInv, SiteTypeOK, HeldRows
<1>10. QED BY <1>2, <1>4, <1>6, <1>7, <1>8, <1>9, PlainEditKeeps

-----------------------------------------------------------------------------
LEMMA SiteNextKeeps == ASSUME SiteInv, [SiteNext]_siteVars PROVE SiteInv'
<1>1. ASSUME NEW e \in Edits, EditStep(e) PROVE SiteInv'
  BY <1>1, StartEditKeeps, PreparePatchKeeps, PrepareOtherKeeps, UploadOfEditKeeps, UploadEndsKeeps,
     UploadRefusedKeeps, SaveSnapshotKeeps, ActivateEditKeeps, SaveResponseKeeps DEF EditStep
<1>2. CASE UNCHANGED siteVars
  <2>1. Quiet /\ SiteTypeOK' /\ \A b \in Bundles : BundleOK(bundles'[b])
    BY <1>2 DEF siteVars, Quiet, Kept, SiteInv, SiteTypeOK
  <2>2. QED BY <2>1, QuietKeeps
<1>3. QED BY <1>1, <1>2, SiteSteps, BundleSteps, ApiActivation, MigrationSteps, InvocationStarts,
             InvocationEndsKeeps, KillKeeps, ServeKeeps DEF SiteNext

\* For every set of releases, patches, restores, snapshots and invocations, and a service
\* that is killed at any step: what is active, and every snapshot, was published whole, an
\* invocation runs its guest once and over a schema its release supports, and an operation
\* is answered with what it did (bundles.rs, authoring.rs, backend.rs).
THEOREM SitesAlwaysWhole == SiteSpec => []SitesAreWhole
<1>1. SiteInv => SitesAreWhole
  <2> SUFFICES ASSUME SiteInv PROVE SitesAreWhole
    OBVIOUS
  <2>1. ActiveReleaseIsWhole
    BY DEF SiteInv, ActiveReleaseIsWhole, BundleOK, Whole, SiteTypeOK, BundleRow
  <2>2. InvocationsAreIsolated
    BY DEF SiteInv, InvocationsAreIsolated, InvocationOK, SiteTypeOK
  <2>3. AnswersMatchActivation
    BY DEF SiteInv, AnswersMatchActivation, AnswerOK, SiteTypeOK, EditRow, Edits
  <2>4. QED BY <2>1, <2>2, <2>3 DEF SitesAreWhole
<1>2. QED BY <1>1, SiteInitially, SiteNextKeeps, PTL DEF SiteSpec

\* A patch is activated only over the release it was made from, also by a service that
\* was restarted in the middle of it, whatever else was activated meanwhile (authoring.rs).
THEOREM EditsAreNeverLost == SiteSpec => [][NoLostEdit]_siteVars
<1>1. ASSUME SiteInv, [SiteNext]_siteVars PROVE [NoLostEdit]_siteVars
  <2> SUFFICES ASSUME SiteNext, NEW p \in Patches, <<"author", p>> \in receipts' \ receipts
               PROVE  site.active = basis[p]
    BY <1>1 DEF NoLostEdit
  <2>1. PICK e \in Edits : ActivateEdit(e)
    <3>1. ASSUME NEW q \in Patches, ActivateRelease(q) PROVE FALSE
      BY <3>1 DEF ActivateRelease, MakeActive
    <3>2. ASSUME UNCHANGED receipts PROVE FALSE
      BY <3>2
    <3>3. QED BY <3>1, <3>2 DEF SiteNext, Reconcile, StorageLost, StorageBack, Kill, Serve, SetStatus,
            StageFiles, RenameComplete, FinishUpload, RecoverBundle, StartMigrations, EndMigrations,
            StartInvocation, EndInvocation, EditStep, StartEdit, PreparePatch, PrepareOther, UploadOfEdit,
            UploadEnds, UploadRefused, SaveSnapshot, SaveResponse
  <2>2. /\ Activates(edits[e].release, edits[e].generation) /\ receipts' = receipts \cup {<<"author", e>>}
        /\ edits[e].step \in {"published", "prepared"}
    BY <2>1 DEF ActivateEdit, MakeActive
  <2>3. e = p
    BY <2>2
  <2>4. edits[p].row = TRUE /\ edits[p].generation = site.generation
    BY <1>1, <2>2, <2>3 DEF SiteInv, EditOK, Edits, Activates, Expected
  <2>5. QED BY <1>1, <2>4 DEF SiteInv, BasisOK
<1>2. QED BY <1>1, SiteInitially, SiteNextKeeps, PTL DEF SiteSpec

-----------------------------------------------------------------------------
(* Calls of the platform, admission and the event stream (PlatformCalls). *)

\* The effect of a key is the one its receipt names.
EffectsOK ==
    \A i \in 1..Len(effects) :
        slips[effects[i].key] # NoReply /\ slips[effects[i].key].result = i

\* A call that was answered has the answer of its receipt; one that writes holds its
\* key, which has no receipt yet, and an agent that writes holds its lease.
CallOK(q) ==
    /\ reqs[q].pc = "done" => /\ slips[KeyOf(q)] # NoReply
                              /\ reqs[q].answer = slips[KeyOf(q)].result /\ BodyOf(q) = slips[KeyOf(q)].body
    /\ q \in holders <=> reqs[q].pc = "writing"
    /\ reqs[q].pc = "writing" => slips[KeyOf(q)] = NoReply /\ (By(q) = "agent" => reqs[q].epoch = epoch)

KeysAreHeldOnce == \A p, q \in holders : KeyOf(p) = KeyOf(q) => p = q

\* Nothing runs in the session's project.
Idle == LiveRun = "none" /\ world.others = {}

\* While the setter has looked, and when the harness is disabled, nothing runs and
\* nobody who could start something is in a transaction.
AdmissionOK ==
    ~admission.harness \/ admission.changing => Idle /\ \A q \in holders : ~NeedsAdmission(q)

\* The stream: received up to the cursor, the buffer follows, nothing is left at the end.
StreamOK ==
    /\ Len(feed.received) = feed.cursor
    /\ \A i \in 1..Len(feed.received) : feed.received[i] = i
    /\ \A i \in 1..Len(feed.buffer) : feed.buffer[i] = feed.cursor + i
    /\ feed.cursor + Len(feed.buffer) <= world.events
    /\ feed.pc # "read" => feed.buffer = <<>>
    /\ feed.pc = "ended" => ~world.first.live /\ feed.cursor = world.events

CallInv ==
    /\ CallsTypeOK
    /\ EffectsOK
    /\ \A q \in Calls : CallOK(q)
    /\ KeysAreHeldOnce
    /\ AdmissionOK
    /\ StreamOK

-----------------------------------------------------------------------------
LEMMA CallsInitially == CallsInit => CallInv
<1> SUFFICES ASSUME CallsInit PROVE CallInv
  OBVIOUS
<1> USE CallsAssumption
<1>1. PICK w \in Workloads :
          reqs = [q \in Calls |-> [key |-> w[q].key, body |-> w[q].body, op |-> w[q].op, pc |-> "unsent",
                                   epoch |-> 1, answer |-> NoReply, saw |-> [revision |-> 0, run |-> "none"]]]
  BY DEF CallsInit
<1>2. reqs \in [Calls -> Requests]
  <2> SUFFICES ASSUME NEW q \in Calls
               PROVE  [key |-> w[q].key, body |-> w[q].body, op |-> w[q].op, pc |-> "unsent",
                       epoch |-> 1, answer |-> NoReply, saw |-> [revision |-> 0, run |-> "none"]] \in Requests
    BY <1>1
  <2>1. w[q].key \in CallKeys /\ w[q].op \in AllCallOps /\ w[q].body \in CallBodies
    BY DEF CallBodies
  <2>2. QED BY <2>1 DEF Requests
<1>3. /\ world \in Worlds /\ LiveRun = "first" /\ world.events = 1 /\ world.first.live = TRUE
  BY DEF CallsInit, Worlds, FirstRun, LiveRun
<1>4. feed \in Feeds /\ effects \in Seq([key : CallKeys, epoch : Nat]) /\ Len(effects) = 0
  BY DEF CallsInit, Feeds
<1>5. CallsTypeOK
  BY <1>2, <1>3, <1>4 DEF CallsInit, CallsTypeOK
<1>6. \A q \in Calls : CallOK(q)
  BY <1>1 DEF CallOK, CallsInit
<1>7. EffectsOK /\ KeysAreHeldOnce
  BY <1>4 DEF EffectsOK, KeysAreHeldOnce, CallsInit
<1>8. AdmissionOK
  BY DEF AdmissionOK, CallsInit
<1>9. StreamOK
  <2>1. feed.received = <<>> /\ feed.buffer = <<>> /\ feed.cursor = 0 /\ feed.pc = "read"
    BY DEF CallsInit
  <2>2. QED BY <1>3, <2>1 DEF StreamOK
<1>10. QED BY <1>5, <1>6, <1>7, <1>8, <1>9 DEF CallInv

-----------------------------------------------------------------------------
(* The session and its runs *)

\* What a step may do to them.  Nothing starts in an idle project unless `starts`.
WorldStep(starts) ==
    /\ world' \in Worlds
    /\ world'.events >= world.events
    /\ world.first.live = FALSE => world'.events = world.events /\ world'.first.live = FALSE
    /\ Idle => Idle' \/ starts
    /\ world.output # NoReply => world'.output = world.output

LEMMA LiveRunIs ==
    ASSUME CallsTypeOK
    PROVE  /\ LiveRun \in {"first", "second", "none"}
           /\ LiveRun = "first" <=> world.first.live = TRUE
           /\ LiveRun = "none" <=> world.first.live = FALSE /\ world.second # "live"
           /\ LiveRun = "second" => world.second = "live"
BY DEF CallsTypeOK, Worlds, FirstRun, LiveRun

LEMMA FirstBecomesIs ==
    ASSUME CallsTypeOK, NEW first \in FirstRun, NEW more \in Nat
    PROVE  /\ FirstBecomes(first, more) \in Worlds
           /\ FirstBecomes(first, more).first = first
           /\ FirstBecomes(first, more).events = world.events + more
           /\ FirstBecomes(first, more).second = world.second
           /\ FirstBecomes(first, more).others = world.others
           /\ FirstBecomes(first, more).output = world.output
           /\ FirstBecomes(first, more).revision = world.revision
<1> DEFINE x == [world EXCEPT !.first = first]
<1>1. /\ x \in Worlds /\ x.first = first /\ x.second = world.second /\ x.others = world.others
      /\ x.output = world.output /\ x.revision = world.revision /\ x.events = world.events
  BY DEF CallsTypeOK, Worlds
<1>2. FirstBecomes(first, more) = [x EXCEPT !.events = @ + more]
  BY DEF FirstBecomes
<1> HIDE DEF x
<1>3. QED BY <1>1, <1>2 DEF Worlds

LEMMA StartSecondSteps ==
    ASSUME CallsTypeOK, NEW q \in Calls, StartSecond(q)
    PROVE  WorldStep(TRUE)
BY DEF CallsTypeOK, Worlds, StartSecond, WorldStep

LEMMA InputForSteps ==
    ASSUME CallsTypeOK, NEW run \in {"first", "second", "none"}, InputFor(run)
    PROVE  WorldStep(FALSE)
<1>1. world' = [world EXCEPT !.events = IF run = "first" THEN @ + 1 ELSE @] /\ LiveRun = run
  BY DEF InputFor
<1>2. /\ world' \in Worlds /\ world'.first = world.first /\ world'.second = world.second
      /\ world'.others = world.others /\ world'.output = world.output
      /\ world'.events = IF run = "first" THEN world.events + 1 ELSE world.events
      /\ world.events \in Nat
  <2>1. world \in Worlds
    BY DEF CallsTypeOK
  <2>2. CASE run = "first"
    BY <1>1, <2>1, <2>2 DEF Worlds
  <2>3. CASE run # "first"
    BY <1>1, <2>1, <2>3 DEF Worlds
  <2>4. QED BY <2>2, <2>3
<1>3. run = "first" => world.first.live = TRUE
  BY <1>1, LiveRunIs
<1>4. Idle => Idle'
  BY <1>2 DEF Idle, LiveRun
<1>5. QED BY <1>2, <1>3, <1>4 DEF WorldStep

LEMMA AbortSteps ==
    ASSUME CallsTypeOK, NEW run \in {"first", "second", "none"}, RequestAbortOf(run)
    PROVE  WorldStep(FALSE)
<1>1. LiveRun = run /\ world \in Worlds /\ world.first \in FirstRun
  BY DEF RequestAbortOf, CallsTypeOK, Worlds
<1>2. ASSUME run = "first", ~world.first.abort,
             world' = FirstBecomes([live |-> world.first.claimed, claimed |-> world.first.claimed, abort |-> TRUE],
                                   IF world.first.claimed THEN 1 ELSE 2)
      PROVE  WorldStep(FALSE)
  <2> DEFINE first == [live |-> world.first.claimed, claimed |-> world.first.claimed, abort |-> TRUE]
  <2> DEFINE more == IF world.first.claimed THEN 1 ELSE 2
  <2>1. first \in FirstRun /\ more \in Nat
    BY <1>1 DEF FirstRun
  <2>2. world' = FirstBecomes(first, more)
    BY <1>2
  <2> HIDE DEF first, more
  <2>3. /\ world' \in Worlds /\ world'.events = world.events + more /\ world'.output = world.output
    BY <2>1, <2>2, FirstBecomesIs
  <2>4. world.first.live = TRUE /\ ~Idle
    BY <1>1, <1>2, LiveRunIs DEF Idle
  <2>5. world.events \in Nat
    BY DEF CallsTypeOK, Worlds
  <2>6. QED BY <2>1, <2>3, <2>4, <2>5 DEF WorldStep
<1>3. ASSUME UNCHANGED world PROVE WorldStep(FALSE)
  <2>1. world.events \in Nat /\ world' = world
    BY <1>1, <1>3 DEF Worlds
  <2>2. Idle => Idle'
    BY <2>1 DEF Idle, LiveRun
  <2>3. QED BY <1>1, <2>1, <2>2 DEF WorldStep
<1>4. ASSUME run = "second", NEW after \in {"live", "ended"}, world' = [world EXCEPT !.second = after]
      PROVE  WorldStep(FALSE)
  <2>1. /\ world' \in Worlds /\ world'.first = world.first /\ world'.events = world.events
        /\ world'.output = world.output /\ world.events \in Nat
    BY <1>1, <1>4 DEF Worlds
  <2>2. ~Idle
    BY <1>1, <1>4 DEF Idle
  <2>3. QED BY <2>1, <2>2 DEF WorldStep
<1>5. QED BY <1>2, <1>3, <1>4 DEF RequestAbortOf

LEMMA NewSessionSteps ==
    ASSUME CallsTypeOK, NEW q \in Calls,
           NewSession(q) \/ world' = [world EXCEPT !.others = @ \cup {q}]
    PROVE  WorldStep(TRUE)
<1>1. PICK now \in SUBSET Calls : world' = [world EXCEPT !.others = now]
  <2>1. world.others \in SUBSET Calls /\ world.others \cup {q} \in SUBSET Calls
    BY DEF CallsTypeOK, Worlds
  <2>2. world' = [world EXCEPT !.others = world.others] \/ world' = [world EXCEPT !.others = world.others \cup {q}]
    BY DEF NewSession
  <2>3. QED BY <2>1, <2>2
<1>2. /\ world' \in Worlds /\ world'.first = world.first /\ world'.output = world.output
      /\ world'.events = world.events /\ world.events \in Nat
  BY <1>1 DEF CallsTypeOK, Worlds
<1>3. QED BY <1>2 DEF WorldStep

\* Every operation, and what it may start.
LEMMA EffectSteps ==
    ASSUME CallsTypeOK, NEW q \in Calls, CallEffect(q)
    PROVE  WorldStep(NeedsAdmission(q))
<1>1. /\ reqs[q].saw.run \in {"first", "second", "none"} /\ BodyOf(q) \in CallBodies
      /\ reqs[q].op \in AllCallOps /\ world \in Worlds
  BY DEF CallsTypeOK, Requests, BodyOf
<1>2. ASSUME WorldStep(FALSE) PROVE WorldStep(NeedsAdmission(q))
  BY <1>2 DEF WorldStep
<1>3. ASSUME WorldStep(TRUE), NeedsAdmission(q) PROVE WorldStep(NeedsAdmission(q))
  BY <1>3 DEF WorldStep
<1>4. ASSUME UNCHANGED world PROVE WorldStep(FALSE)
  <2>1. world.events \in Nat /\ world' = world
    BY <1>1, <1>4 DEF Worlds
  <2>2. Idle => Idle'
    BY <2>1 DEF Idle, LiveRun
  <2>3. QED BY <1>1, <2>1, <2>2 DEF WorldStep
<1>5. ASSUME CreateSession(q) \/ ForkSession(q) \/ CapabilitySession(q) \/ SiteStart(q)
      PROVE  WorldStep(NeedsAdmission(q))
  <2>1. WorldStep(TRUE)
    BY <1>5, NewSessionSteps DEF CreateSession, ForkSession, CapabilitySession, SiteStart
  <2>2. NeedsAdmission(q)
    BY <1>5 DEF CreateSession, ForkSession, CapabilitySession, SiteStart, NeedsAdmission, Method
  <2>3. QED BY <1>3, <2>1, <2>2
<1>6. ASSUME StartRun(q) \/ CapabilityRun(q) PROVE WorldStep(NeedsAdmission(q))
  <2>1. WorldStep(TRUE)
    BY <1>6, StartSecondSteps DEF StartRun, CapabilityRun
  <2>2. NeedsAdmission(q)
    BY <1>6 DEF StartRun, CapabilityRun, NeedsAdmission, Method
  <2>3. QED BY <1>3, <2>1, <2>2
<1>7. ASSUME SiteSend(q) PROVE WorldStep(NeedsAdmission(q))
  <2>1. NeedsAdmission(q)
    BY <1>7 DEF SiteSend, NeedsAdmission
  <2>2. StartSecond(q) \/ InputFor(LiveRun)
    BY <1>7 DEF SiteSend
  <2>3. CASE StartSecond(q)
    BY <1>3, <2>1, <2>3, StartSecondSteps
  <2>4. CASE InputFor(LiveRun)
    BY <1>2, <2>4, InputForSteps, LiveRunIs
  <2>5. QED BY <2>2, <2>3, <2>4
<1>8. ASSUME SubmitInput(q) \/ CapabilitySteer(q) PROVE WorldStep(NeedsAdmission(q))
  BY <1>1, <1>2, <1>8, InputForSteps DEF SubmitInput, CapabilitySteer
<1>9. ASSUME AbortRun(q) \/ CapabilityAbort(q) \/ SiteStop(q) PROVE WorldStep(NeedsAdmission(q))
  <2>1. RequestAbortOf(reqs[q].saw.run) \/ UNCHANGED world
    BY <1>9 DEF AbortRun, CapabilityAbort, SiteStop
  <2>2. QED BY <1>1, <1>2, <1>4, <2>1, AbortSteps
<1>10. ASSUME PublishRunOutput(q) PROVE WorldStep(NeedsAdmission(q))
  <2>1. world' = [world EXCEPT !.output = BodyOf(q)] /\ world.output \in {NoReply, BodyOf(q)}
    BY <1>10 DEF PublishRunOutput
  <2>2. /\ world' \in Worlds /\ world'.first = world.first /\ world'.second = world.second
        /\ world'.others = world.others /\ world'.events = world.events /\ world'.output = BodyOf(q)
        /\ world.events \in Nat
    BY <1>1, <2>1 DEF Worlds
  <2>3. Idle => Idle'
    BY <2>2 DEF Idle, LiveRun
  <2>4. QED BY <2>1, <2>2, <2>3 DEF WorldStep
<1>11. ASSUME CreateEnvironment(q) PROVE WorldStep(NeedsAdmission(q))
  BY <1>2, <1>4, <1>11 DEF CreateEnvironment
<1>12. QED BY <1>5, <1>6, <1>7, <1>8, <1>9, <1>10, <1>11 DEF CallEffect

-----------------------------------------------------------------------------
(* The parts of the invariant, and what they depend on. *)

\* The runs move on; the stream is not read.
LEMMA WorldKeepsStream ==
    ASSUME CallInv, NEW starts \in BOOLEAN, WorldStep(starts), UNCHANGED feed
    PROVE  StreamOK'
<1>1. /\ world'.events >= world.events
      /\ world.first.live = FALSE => world'.events = world.events /\ world'.first.live = FALSE
      /\ world'.events \in Nat /\ world.events \in Nat /\ world.first.live \in BOOLEAN
      /\ feed \in Feeds /\ StreamOK
  BY DEF WorldStep, CallInv, CallsTypeOK, Worlds, FirstRun
<1>2. feed.cursor \in Nat /\ Len(feed.buffer) \in Nat
  BY <1>1 DEF Feeds
<1>3. feed.cursor + Len(feed.buffer) <= world'.events
  BY <1>1, <1>2 DEF StreamOK
<1>4. QED BY <1>1, <1>3 DEF StreamOK

\* Nothing is streamed or run by a step of a call that does not commit.
LEMMA StreamStays ==
    ASSUME CallInv, UNCHANGED <<feed, world>>
    PROVE  StreamOK'
BY DEF CallInv, StreamOK

\* The record of a call after a step: its key, arguments and operation stay.
LEMMA BecomesIs ==
    ASSUME CallInv, NEW q \in Calls, NEW pc \in {"new", "discover", "ready", "writing", "done", "refused"},
           NEW under \in Nat, NEW answer \in Nat \cup {NoReply},
           NEW saw \in [revision : Nat, run : {"first", "second", "none"}], Becomes(q, pc, under, answer, saw)
    PROVE  /\ reqs' \in [Calls -> Requests] /\ \A p \in Calls \ {q} : reqs'[p] = reqs[p]
           /\ reqs'[q].key = reqs[q].key /\ reqs'[q].body = reqs[q].body /\ reqs'[q].op = reqs[q].op
           /\ reqs'[q].pc = pc /\ reqs'[q].epoch = under /\ reqs'[q].answer = answer
<1> DEFINE new == [key |-> KeyOf(q), body |-> BodyOf(q), op |-> reqs[q].op, pc |-> pc,
                   epoch |-> under, answer |-> answer, saw |-> saw]
<1>1. reqs \in [Calls -> Requests] /\ reqs[q] \in Requests
  BY DEF CallInv, CallsTypeOK
<1>2. new \in Requests
  BY <1>1 DEF Requests, KeyOf, BodyOf
<1>3. /\ new.key = reqs[q].key /\ new.body = reqs[q].body /\ new.op = reqs[q].op
      /\ new.pc = pc /\ new.epoch = under /\ new.answer = answer
  BY DEF KeyOf, BodyOf
<1>4. reqs' = [reqs EXCEPT ![q] = new]
  BY DEF Becomes
<1> HIDE DEF new
<1>5. reqs'[q] = new
  BY <1>1, <1>4
<1>6. QED BY <1>1, <1>2, <1>3, <1>4, <1>5

\* A step of one call that writes nothing: it is answered from a receipt, refused, goes
\* on, or begins to write.
LEMMA QuietCallKeeps ==
    ASSUME CallInv, NEW q \in Calls, NEW pc \in {"new", "discover", "ready", "writing", "done", "refused"},
           NEW under \in Nat, NEW answer \in Nat \cup {NoReply},
           NEW saw \in [revision : Nat, run : {"first", "second", "none"}], Becomes(q, pc, under, answer, saw),
           UNCHANGED <<epoch, admission, world, effects, slips, feed, switches>>, resends' \in Nat,
           holders' = IF pc = "writing" THEN holders \cup {q} ELSE holders \ {q},
           pc = "done" => NoReply # Slip(q) /\ answer = Slip(q).result /\ SameRequest(q),
           pc = "writing" => /\ NoSlip(q) /\ (By(q) = "agent" => under = epoch)
                             /\ \A p \in holders : KeyOf(p) # KeyOf(q)
                             /\ NeedsAdmission(q) => admission.harness /\ ~admission.changing
    PROVE  CallInv'
<1>1. /\ reqs' \in [Calls -> Requests] /\ \A p \in Calls \ {q} : reqs'[p] = reqs[p]
      /\ reqs'[q].key = reqs[q].key /\ reqs'[q].body = reqs[q].body /\ reqs'[q].op = reqs[q].op
      /\ reqs'[q].pc = pc /\ reqs'[q].epoch = under /\ reqs'[q].answer = answer
  BY BecomesIs
<1>2. /\ CallsTypeOK /\ EffectsOK /\ KeysAreHeldOnce /\ AdmissionOK /\ \A p \in Calls : CallOK(p)
      /\ holders \subseteq Calls
  BY DEF CallInv, CallsTypeOK
<1>3. CallsTypeOK'
  BY <1>1, <1>2 DEF CallsTypeOK
<1>4. EffectsOK'
  BY <1>2 DEF EffectsOK
<1>5. \A p \in Calls : CallOK(p)'
  <2> SUFFICES ASSUME NEW p \in Calls PROVE CallOK(p)'
    OBVIOUS
  <2>1. CASE p = q
    BY <1>1, <2>1 DEF CallOK, KeyOf, BodyOf, By, Slip, SameRequest, NoSlip
  <2>2. CASE p # q
    <3>1. CallOK(p) /\ reqs'[p] = reqs[p] /\ (p \in holders' <=> p \in holders)
      BY <1>1, <1>2, <2>2
    <3>2. QED BY <3>1 DEF CallOK, KeyOf, BodyOf, By
  <2>3. QED BY <2>1, <2>2
<1>6. \A p \in Calls : (KeyOf(p))' = KeyOf(p) /\ (NeedsAdmission(p))' = NeedsAdmission(p)
  BY <1>1 DEF KeyOf, NeedsAdmission, Method
<1>7. KeysAreHeldOnce'
  BY <1>2, <1>6 DEF KeysAreHeldOnce
<1>8. AdmissionOK'
  <2>1. Idle' = Idle
    BY DEF Idle, LiveRun
  <2>2. QED BY <1>2, <1>6, <2>1 DEF AdmissionOK
<1>9. StreamOK'
  BY StreamStays
<1>10. QED BY <1>3, <1>4, <1>5, <1>7, <1>8, <1>9 DEF CallInv

\* What is known of a call.
LEMMA CallIs ==
    ASSUME CallInv, NEW q \in Calls
    PROVE  /\ reqs[q].epoch \in Nat /\ reqs[q].answer \in Nat \cup {NoReply}
           /\ reqs[q].saw \in [revision : Nat, run : {"first", "second", "none"}]
           /\ KeyOf(q) \in CallKeys /\ BodyOf(q) \in CallBodies
           /\ Slip(q) \in SlipRows \cup {NoReply}
           /\ q \in holders <=> reqs[q].pc = "writing"
<1>1. reqs[q] \in Requests /\ CallOK(q) /\ slips \in [CallKeys -> SlipRows \cup {NoReply}]
  BY DEF CallInv, CallsTypeOK
<1>2. QED BY <1>1 DEF Requests, CallOK, KeyOf, BodyOf, Slip

LEMMA RefuseKeeps ==
    ASSUME CallInv, NEW q \in Calls, Refuse(q), holders' = holders \ {q},
           UNCHANGED <<epoch, admission, world, effects, slips, feed, switches, resends>>
    PROVE  CallInv'
<1>1. Becomes(q, "refused", reqs[q].epoch, NoReply, reqs[q].saw)
  BY DEF Refuse, SetCall
<1>2. reqs[q].epoch \in Nat /\ reqs[q].saw \in [revision : Nat, run : {"first", "second", "none"}]
  BY CallIs
<1>3. resends' \in Nat
  BY DEF CallInv, CallsTypeOK
<1>4. QED BY <1>1, <1>2, <1>3, QuietCallKeeps

\* A call goes on to its next step.
LEMMA GoesOnKeeps ==
    ASSUME CallInv, NEW q \in Calls, NEW pc \in {"discover", "ready"}, SetCall(q, pc, NoReply), UNCHANGED holders,
           reqs[q].pc # "writing",
           UNCHANGED <<epoch, admission, world, effects, slips, feed, switches, resends>>
    PROVE  CallInv'
<1>1. Becomes(q, pc, reqs[q].epoch, NoReply, reqs[q].saw)
  BY DEF SetCall
<1>2. /\ reqs[q].epoch \in Nat /\ reqs[q].saw \in [revision : Nat, run : {"first", "second", "none"}]
      /\ holders' = holders \ {q}
  BY CallIs
<1>3. resends' \in Nat
  BY DEF CallInv, CallsTypeOK
<1>4. /\ pc \in {"new", "discover", "ready", "writing", "done", "refused"} /\ pc # "writing" /\ pc # "done"
      /\ NoReply \in Nat \cup {NoReply}
  OBVIOUS
<1>5. QED BY <1>1, <1>2, <1>3, <1>4, QuietCallKeeps

LEMMA AnswerFromSlipKeeps ==
    ASSUME CallInv, NEW q \in Calls, AnswerFromSlip(q), reqs[q].pc # "writing",
           UNCHANGED <<epoch, admission, world, effects, slips, feed, switches, resends>>
    PROVE  CallInv'
<1>1. Slip(q) # NoReply /\ holders' = holders \ {q}
  BY CallIs DEF AnswerFromSlip, NoSlip
<1>2. CASE SameRequest(q) /\ MayReadSlip(q)
  <2>1. Becomes(q, "done", reqs[q].epoch, Slip(q).result, reqs[q].saw)
    BY <1>2 DEF AnswerFromSlip, SetCall
  <2>2. /\ reqs[q].epoch \in Nat /\ reqs[q].saw \in [revision : Nat, run : {"first", "second", "none"}]
        /\ Slip(q).result \in Nat \cup {NoReply}
    BY <1>1, CallIs DEF SlipRows
  <2>3. resends' \in Nat
    BY DEF CallInv, CallsTypeOK
  <2>4. QED BY <1>1, <1>2, <2>1, <2>2, <2>3, QuietCallKeeps
<1>3. CASE ~(SameRequest(q) /\ MayReadSlip(q))
  BY <1>1, <1>3, RefuseKeeps DEF AnswerFromSlip
<1>4. QED BY <1>2, <1>3

LEMMA SendCallKeeps == ASSUME CallInv, NEW q \in Calls, SendCall(q) PROVE CallInv'
<1> DEFINE same == {p \in Calls : reqs[p].pc # "unsent" /\ KeyOf(p) = KeyOf(q) /\ BodyOf(p) = BodyOf(q)}
<1> DEFINE saw == IF same = {} THEN [revision |-> world.revision, run |-> LiveRun]
                  ELSE reqs[CHOOSE p \in same : TRUE].saw
<1>1. /\ Becomes(q, "new", epoch, reqs[q].answer, saw) /\ reqs[q].pc = "unsent"
      /\ UNCHANGED <<epoch, admission, world, effects, slips, holders, feed, resends, switches>>
  BY DEF SendCall
<1>2. CallsTypeOK /\ epoch \in Nat /\ world \in Worlds /\ resends' \in Nat
  BY <1>1 DEF CallInv, CallsTypeOK
<1>3. saw \in [revision : Nat, run : {"first", "second", "none"}]
  <2>1. CASE same = {}
    BY <1>2, <2>1, LiveRunIs DEF Worlds
  <2>2. CASE same # {}
    <3>1. (CHOOSE p \in same : TRUE) \in Calls
      BY <2>2
    <3>2. QED BY <2>2, <3>1, CallIs
  <2>3. QED BY <2>1, <2>2
<1> HIDE DEF saw
<1>4. reqs[q].answer \in Nat \cup {NoReply} /\ holders' = holders \ {q}
  BY <1>1, CallIs
<1>5. QED BY <1>1, <1>2, <1>3, <1>4, QuietCallKeeps

LEMMA BeforeDiscoveryKeeps == ASSUME CallInv, NEW q \in Calls, BeforeDiscovery(q) PROVE CallInv'
<1>1. reqs[q].pc = "new" /\ UNCHANGED <<epoch, admission, world, effects, slips, feed, resends, switches>>
  BY DEF BeforeDiscovery
<1>2. holders \ {q} = holders
  BY <1>1, CallIs
<1>3. \/ AnswerFromSlip(q)
      \/ UNCHANGED holders /\ SetCall(q, "discover", NoReply)
      \/ UNCHANGED holders /\ Refuse(q)
  BY DEF BeforeDiscovery
<1>4. QED BY <1>1, <1>2, <1>3, AnswerFromSlipKeeps, GoesOnKeeps, RefuseKeeps

LEMMA DiscoverKeeps == ASSUME CallInv, NEW q \in Calls, DiscoverAccounts(q) PROVE CallInv'
<1>1. reqs[q].pc = "discover" /\ UNCHANGED <<epoch, admission, world, effects, slips, holders, feed, resends, switches>>
  BY DEF DiscoverAccounts
<1>2. holders \ {q} = holders
  BY <1>1, CallIs
<1>3. SetCall(q, "ready", NoReply) \/ Refuse(q)
  BY DEF DiscoverAccounts
<1>4. QED BY <1>1, <1>2, <1>3, GoesOnKeeps, RefuseKeeps

LEMMA BeginWriteKeeps == ASSUME CallInv, NEW q \in Calls, BeginWrite(q) PROVE CallInv'
<1>1. /\ reqs[q].pc \in {"new", "ready"}
      /\ UNCHANGED <<epoch, admission, world, effects, slips, feed, resends, switches>>
      /\ \A p \in holders : KeyOf(p) # KeyOf(q)
      /\ NeedsAdmission(q) => ~admission.changing
  BY DEF BeginWrite
<1>2. holders \ {q} = holders
  BY <1>1, CallIs
<1>3. CASE AnswerFromSlip(q)
  BY <1>1, <1>3, AnswerFromSlipKeeps
<1>4. CASE Refuse(q) /\ UNCHANGED holders
  BY <1>1, <1>2, <1>4, RefuseKeeps
<1>5. CASE /\ NoSlip(q) /\ Authorized(q) /\ (NeedsAdmission(q) => admission.harness)
           /\ SetCall(q, "writing", NoReply) /\ holders' = holders \cup {q}
  <2>1. Becomes(q, "writing", reqs[q].epoch, NoReply, reqs[q].saw)
    BY <1>5 DEF SetCall
  <2>2. /\ reqs[q].epoch \in Nat /\ reqs[q].saw \in [revision : Nat, run : {"first", "second", "none"}]
    BY CallIs
  <2>3. resends' \in Nat
    BY <1>1 DEF CallInv, CallsTypeOK
  <2>4. By(q) = "agent" => reqs[q].epoch = epoch
    BY <1>5 DEF Authorized
  <2>5. QED BY <1>1, <1>5, <2>1, <2>2, <2>3, <2>4, QuietCallKeeps
<1>6. QED BY <1>3, <1>4, <1>5 DEF BeginWrite, LooksForSlip

LEMMA RejectCallKeeps == ASSUME CallInv, NEW q \in Calls, RejectCall(q) PROVE CallInv'
BY RefuseKeeps DEF RejectCall

LEMMA SendAgainKeeps == ASSUME CallInv, NEW q \in Calls, SendAgain(q) PROVE CallInv'
<1>1. /\ reqs[q].pc \in {"discover", "ready", "done"} /\ resends' = resends + 1
      /\ UNCHANGED <<epoch, admission, world, effects, slips, holders, feed, switches>>
  BY DEF SendAgain
<1>2. PICK e \in {reqs[q].epoch, epoch} : Becomes(q, "new", e, NoReply, reqs[q].saw)
  BY DEF SendAgain
<1>3. resends' \in Nat /\ e \in Nat
  BY <1>1, <1>2, CallIs DEF CallInv, CallsTypeOK
<1>4. reqs[q].saw \in [revision : Nat, run : {"first", "second", "none"}] /\ holders' = holders \ {q}
  BY <1>1, CallIs
<1>5. QED BY <1>1, <1>2, <1>3, <1>4, QuietCallKeeps

-----------------------------------------------------------------------------
(* The effect and its receipt *)

LEMMA CommitCallKeeps == ASSUME CallInv, NEW q \in Calls, CommitCall(q) PROVE CallInv'
<1> DEFINE n == Len(effects) + 1
<1> DEFINE effect == [key |-> KeyOf(q), epoch |-> reqs[q].epoch]
<1> DEFINE slip == [body |-> BodyOf(q), epoch |-> reqs[q].epoch, result |-> n]
<1>1. /\ reqs[q].pc = "writing" /\ holders' = holders \ {q} /\ CallEffect(q)
      /\ effects' = Append(effects, effect) /\ slips' = [slips EXCEPT ![KeyOf(q)] = slip]
      /\ Becomes(q, "done", reqs[q].epoch, n, reqs[q].saw)
      /\ UNCHANGED <<epoch, admission, feed, resends, switches>>
  BY DEF CommitCall, SetCall
<1>2. /\ CallsTypeOK /\ EffectsOK /\ KeysAreHeldOnce /\ AdmissionOK /\ \A p \in Calls : CallOK(p)
      /\ holders \subseteq Calls /\ effects \in Seq([key : CallKeys, epoch : Nat])
      /\ slips \in [CallKeys -> SlipRows \cup {NoReply}]
  BY DEF CallInv, CallsTypeOK
<1>3. /\ reqs[q].epoch \in Nat /\ reqs[q].saw \in [revision : Nat, run : {"first", "second", "none"}]
      /\ KeyOf(q) \in CallKeys /\ BodyOf(q) \in CallBodies /\ q \in holders
  BY <1>1, CallIs
<1>4. n \in Nat /\ Len(effects) \in Nat
  BY <1>2
<1>5. /\ slip \in SlipRows /\ slip.body = BodyOf(q) /\ slip.result = n /\ slip # NoReply
  <2>1. slip \in SlipRows
    BY <1>3, <1>4 DEF SlipRows
  <2>2. NoReply \notin SlipRows
    BY CallsAssumption DEF SlipRows, CallBodies
  <2>3. QED BY <2>1, <2>2
<1>6. effect \in [key : CallKeys, epoch : Nat] /\ effect.key = KeyOf(q)
  BY <1>3
<1>7. slips[KeyOf(q)] = NoReply
  BY <1>1, <1>2 DEF CallOK
<1>8. /\ reqs' \in [Calls -> Requests] /\ \A p \in Calls \ {q} : reqs'[p] = reqs[p]
      /\ reqs'[q].key = reqs[q].key /\ reqs'[q].body = reqs[q].body /\ reqs'[q].op = reqs[q].op
      /\ reqs'[q].pc = "done" /\ reqs'[q].epoch = reqs[q].epoch /\ reqs'[q].answer = n
  BY <1>1, <1>3, <1>4, BecomesIs
<1> HIDE DEF n, effect, slip
<1>9. WorldStep(NeedsAdmission(q)) /\ world' \in Worlds
  BY <1>1, <1>2, EffectSteps DEF WorldStep
<1>10. /\ slips' \in [CallKeys -> SlipRows \cup {NoReply}] /\ slips'[KeyOf(q)] = slip
       /\ \A k \in CallKeys \ {KeyOf(q)} : slips'[k] = slips[k]
  BY <1>1, <1>2, <1>3, <1>5
<1>11. /\ effects' \in Seq([key : CallKeys, epoch : Nat]) /\ Len(effects') = n
       /\ effects'[n] = effect /\ \A i \in 1..Len(effects) : effects'[i] = effects[i]
  BY <1>1, <1>2, <1>6 DEF n
<1>12. CallsTypeOK'
  BY <1>1, <1>2, <1>8, <1>9, <1>10, <1>11 DEF CallsTypeOK
<1>13. EffectsOK'
  <2> SUFFICES ASSUME NEW i \in 1..Len(effects')
               PROVE  slips'[effects'[i].key] # NoReply /\ slips'[effects'[i].key].result = i
    BY DEF EffectsOK
  <2>1. CASE i = n
    BY <1>5, <1>6, <1>10, <1>11, <2>1
  <2>2. CASE i # n
    <3>1. i \in 1..Len(effects) /\ effects'[i] = effects[i]
      BY <1>4, <1>11, <2>2 DEF n
    <3>2. /\ slips[effects[i].key] # NoReply /\ slips[effects[i].key].result = i
          /\ effects[i] \in [key : CallKeys, epoch : Nat]
      BY <1>2, <3>1, ElementOfSeq DEF EffectsOK
    <3>3. effects[i].key \in CallKeys \ {KeyOf(q)}
      BY <1>7, <3>2
    <3>4. QED BY <1>10, <3>1, <3>2, <3>3
  <2>3. QED BY <2>1, <2>2
<1>14. \A p \in Calls : CallOK(p)'
  <2> SUFFICES ASSUME NEW p \in Calls PROVE CallOK(p)'
    OBVIOUS
  <2>1. CASE p = q
    BY <1>1, <1>5, <1>8, <1>10, <2>1 DEF CallOK, KeyOf, BodyOf
  <2>2. CASE p # q
    <3>1. CallOK(p) /\ reqs'[p] = reqs[p] /\ (p \in holders' <=> p \in holders) /\ KeyOf(p) \in CallKeys
      BY <1>1, <1>2, <1>8, <2>2, CallIs
    <3>2. reqs[p].pc = "done" => KeyOf(p) # KeyOf(q)
      BY <1>7, <3>1 DEF CallOK
    <3>3. reqs[p].pc = "writing" => KeyOf(p) # KeyOf(q)
      BY <1>2, <1>3, <2>2, <3>1 DEF CallOK, KeysAreHeldOnce
    <3>4. reqs[p].pc \in {"done", "writing"} => slips'[KeyOf(p)] = slips[KeyOf(p)]
      BY <1>10, <3>1, <3>2, <3>3
    <3>5. QED BY <1>1, <3>1, <3>4 DEF CallOK, KeyOf, BodyOf, By
  <2>3. QED BY <2>1, <2>2
<1>15. \A p \in Calls : (KeyOf(p))' = KeyOf(p) /\ (NeedsAdmission(p))' = NeedsAdmission(p)
  BY <1>8 DEF KeyOf, NeedsAdmission, Method
<1>16. KeysAreHeldOnce'
  BY <1>1, <1>2, <1>15 DEF KeysAreHeldOnce
<1>17. AdmissionOK'
  <2> SUFFICES ASSUME ~admission.harness \/ admission.changing
               PROVE  Idle' /\ \A p \in holders' : ~(NeedsAdmission(p))'
    BY <1>1 DEF AdmissionOK
  <2>1. Idle /\ \A p \in holders : ~NeedsAdmission(p)
    BY <1>2 DEF AdmissionOK
  <2>2. Idle'
    BY <1>3, <1>9, <2>1 DEF WorldStep
  <2>3. QED BY <1>1, <1>2, <1>15, <2>1, <2>2
<1>18. StreamOK'
  <2>1. NeedsAdmission(q) \in BOOLEAN
    BY DEF NeedsAdmission
  <2>2. QED BY <1>1, <1>9, <2>1, WorldKeepsStream
<1>19. QED BY <1>12, <1>13, <1>14, <1>16, <1>17, <1>18 DEF CallInv

-----------------------------------------------------------------------------
(* Others *)

\* Neither calls nor receipts change.
LEMMA OthersKeep ==
    ASSUME CallInv, UNCHANGED <<effects, slips, reqs, holders, resends>>,
           CallsTypeOK', AdmissionOK', StreamOK',
           epoch' = epoch \/ \A q \in holders : By(q) # "agent"
    PROVE  CallInv'
<1>1. EffectsOK' /\ KeysAreHeldOnce'
  BY DEF CallInv, EffectsOK, KeysAreHeldOnce, KeyOf
<1>2. \A q \in Calls : CallOK(q)'
  BY DEF CallInv, CallOK, KeyOf, BodyOf, By
<1>3. QED BY <1>1, <1>2 DEF CallInv

LEMMA TakenOverKeeps == ASSUME CallInv, CallerTakenOver PROVE CallInv'
<1>1. /\ epoch' = epoch + 1 /\ \A q \in holders : By(q) # "agent"
      /\ UNCHANGED <<admission, world, effects, slips, reqs, holders, feed, resends, switches>>
  BY DEF CallerTakenOver
<1>2. CallsTypeOK'
  BY <1>1 DEF CallInv, CallsTypeOK
<1>3. AdmissionOK'
  BY <1>1 DEF CallInv, AdmissionOK, Idle, LiveRun, NeedsAdmission, Method
<1>4. QED BY <1>1, <1>2, <1>3, StreamStays, OthersKeep

LEMMA RunsSteps ==
    ASSUME CallsTypeOK, RunsProceed
    PROVE  WorldStep(FALSE)
<1>1. world \in Worlds /\ world.first \in FirstRun /\ world.events \in Nat /\ world.revision \in Nat
  BY DEF CallsTypeOK, Worlds
<1>2. ASSUME world.first.live, world' = FirstBecomes([world.first EXCEPT !.claimed = TRUE], 0)
      PROVE  WorldStep(FALSE)
  <2> DEFINE first == [world.first EXCEPT !.claimed = TRUE]
  <2>1. first \in FirstRun
    BY <1>1 DEF FirstRun
  <2> HIDE DEF first
  <2>2. world' \in Worlds /\ world'.events = world.events + 0 /\ world'.output = world.output
    BY <1>2, <2>1, FirstBecomesIs DEF first
  <2>3. ~Idle /\ world.first.live = TRUE
    BY <1>1, <1>2, LiveRunIs DEF Idle, FirstRun
  <2>4. QED BY <1>1, <2>2, <2>3 DEF WorldStep
<1>3. ASSUME world.first.live,
             world' = [FirstBecomes([world.first EXCEPT !.live = FALSE], 1) EXCEPT !.revision = @ + 1]
      PROVE  WorldStep(FALSE)
  <2> DEFINE first == [world.first EXCEPT !.live = FALSE]
  <2>1. first \in FirstRun
    BY <1>1 DEF FirstRun
  <2> DEFINE now == FirstBecomes(first, 1)
  <2>2. world' = [now EXCEPT !.revision = @ + 1]
    BY <1>3
  <2> HIDE DEF first
  <2>3. now \in Worlds /\ now.events = world.events + 1 /\ now.output = world.output
    BY <2>1, FirstBecomesIs
  <2> HIDE DEF now
  <2>4. world' \in Worlds /\ world'.events = world.events + 1 /\ world'.output = world.output
    BY <2>2, <2>3 DEF Worlds
  <2>5. ~Idle /\ world.first.live = TRUE
    BY <1>1, <1>3, LiveRunIs DEF Idle, FirstRun
  <2>6. QED BY <1>1, <2>4, <2>5 DEF WorldStep
<1>4. ASSUME world.second = "live", world' = [world EXCEPT !.second = "ended"]
      PROVE  WorldStep(FALSE)
  <2>1. world' \in Worlds /\ world'.first = world.first /\ world'.events = world.events /\ world'.output = world.output
    BY <1>1, <1>4 DEF Worlds
  <2>2. ~Idle
    BY <1>4, LiveRunIs DEF Idle
  <2>3. QED BY <1>1, <2>1, <2>2 DEF WorldStep
<1>5. ASSUME NEW q \in world.others, world' = [world EXCEPT !.others = @ \ {q}]
      PROVE  WorldStep(FALSE)
  <2>1. world' \in Worlds /\ world'.first = world.first /\ world'.events = world.events /\ world'.output = world.output
    BY <1>1, <1>5 DEF Worlds
  <2>2. ~Idle
    BY <1>5 DEF Idle
  <2>3. QED BY <1>1, <2>1, <2>2 DEF WorldStep
<1>6. QED BY <1>2, <1>3, <1>4, <1>5 DEF RunsProceed

LEMMA RunsProceedKeeps == ASSUME CallInv, RunsProceed PROVE CallInv'
<1>1. UNCHANGED <<epoch, admission, effects, slips, reqs, holders, feed, resends, switches>>
  BY DEF RunsProceed
<1>2. WorldStep(FALSE)
  BY RunsSteps DEF CallInv
<1>3. CallsTypeOK'
  BY <1>1, <1>2 DEF CallInv, CallsTypeOK, WorldStep
<1>4. AdmissionOK'
  <2>1. Idle => Idle'
    BY <1>2 DEF WorldStep
  <2>2. QED BY <1>1, <2>1 DEF CallInv, AdmissionOK, NeedsAdmission, Method
<1>5. StreamOK'
  BY <1>1, <1>2, WorldKeepsStream
<1>6. QED BY <1>1, <1>3, <1>4, <1>5, OthersKeep

LEMMA AdmissionSteps ==
    ASSUME CallInv, LookForLiveRuns \/ DisableHarness \/ SuspendSite
    PROVE  CallInv'
<1>1. /\ UNCHANGED <<epoch, world, effects, slips, reqs, holders, feed, resends>>
      /\ switches' \in Nat /\ AdmissionOK
      /\ admission \in [harness : BOOLEAN, site : BOOLEAN, changing : BOOLEAN]
  BY DEF CallInv, CallsTypeOK, LookForLiveRuns, DisableHarness, SuspendSite
<1>2. Idle' = Idle /\ \A q \in Calls : (NeedsAdmission(q))' = NeedsAdmission(q)
  BY <1>1 DEF Idle, LiveRun, NeedsAdmission, Method
<1>3. holders' = holders /\ holders \subseteq Calls
  BY <1>1 DEF CallInv, CallsTypeOK
<1>4. admission' \in [harness : BOOLEAN, site : BOOLEAN, changing : BOOLEAN] /\ AdmissionOK'
  <2>1. CASE LookForLiveRuns
    <3>1. /\ admission' = [admission EXCEPT !.changing = TRUE]
          /\ Idle /\ \A q \in holders : ~NeedsAdmission(q)
      BY <2>1 DEF LookForLiveRuns, ProjectLocked, Idle
    <3>2. QED BY <1>1, <1>2, <1>3, <3>1 DEF AdmissionOK
  <2>2. CASE DisableHarness
    <3> DEFINE now == [admission EXCEPT !.changing = FALSE]
    <3>1. admission.changing /\ admission' = [now EXCEPT !.harness = FALSE]
      BY <2>2 DEF DisableHarness
    <3>2. now \in [harness : BOOLEAN, site : BOOLEAN, changing : BOOLEAN]
      BY <1>1
    <3> HIDE DEF now
    <3>3. Idle /\ \A q \in holders : ~NeedsAdmission(q)
      BY <1>1, <3>1 DEF AdmissionOK
    <3>4. admission' \in [harness : BOOLEAN, site : BOOLEAN, changing : BOOLEAN]
      BY <3>1, <3>2
    <3>5. QED BY <1>2, <1>3, <3>3, <3>4 DEF AdmissionOK
  <2>3. CASE SuspendSite
    <3>1. admission' = [admission EXCEPT !.site = FALSE]
      BY <2>3 DEF SuspendSite
    <3>2. QED BY <1>1, <1>2, <1>3, <3>1 DEF AdmissionOK
  <2>4. QED BY <2>1, <2>2, <2>3
<1>5. CallsTypeOK'
  BY <1>1, <1>4 DEF CallInv, CallsTypeOK
<1>6. QED BY <1>1, <1>4, <1>5, StreamStays, OthersKeep

-----------------------------------------------------------------------------
(* The stream *)

LEMMA FeedKeeps ==
    ASSUME CallInv, UNCHANGED <<epoch, admission, world, effects, slips, reqs, holders, resends, switches>>,
           feed' \in Feeds, StreamOK'
    PROVE  CallInv'
<1>1. CallsTypeOK'
  BY DEF CallInv, CallsTypeOK
<1>2. AdmissionOK'
  BY DEF CallInv, AdmissionOK, Idle, LiveRun, NeedsAdmission, Method
<1>3. QED BY <1>1, <1>2, OthersKeep

LEMMA FeedIs ==
    ASSUME CallInv
    PROVE  /\ feed \in Feeds /\ feed.cursor \in Nat /\ feed.buffer \in Seq(Nat) /\ feed.received \in Seq(Nat)
           /\ world.events \in Nat /\ world.first.live \in BOOLEAN /\ StreamOK
           /\ feed.pc \in {"read", "check", "ended"}
BY DEF CallInv, CallsTypeOK, Feeds, Worlds, FirstRun

LEMMA ReadEventsKeeps == ASSUME CallInv, ReadEvents PROVE CallInv'
<1> DEFINE left == world.events - feed.cursor
<1> DEFINE size == IF left < BatchSize THEN left ELSE BatchSize
<1> DEFINE buffer == [i \in 1..size |-> feed.cursor + i]
<1> DEFINE pc == IF left > 0 THEN "read" ELSE "check"
<1>1. /\ feed' = [cursor |-> feed.cursor, buffer |-> buffer, received |-> feed.received, pc |-> pc]
      /\ feed.buffer = <<>> /\ feed.pc = "read"
      /\ UNCHANGED <<epoch, admission, world, effects, slips, reqs, holders, resends, switches>>
  BY DEF ReadEvents, Reads
<1>2. /\ feed.cursor \in Nat /\ world.events \in Nat /\ feed.received \in Seq(Nat) /\ StreamOK
      /\ BatchSize \in Nat /\ BatchSize > 0
  BY FeedIs, CallsAssumption
<1>3. left \in Nat
  BY <1>1, <1>2 DEF StreamOK
<1> HIDE DEF left
<1>4. size \in Nat /\ size <= left /\ (left = 0 => size = 0)
  BY <1>2, <1>3
<1> HIDE DEF size
<1>5. buffer \in Seq(Nat) /\ Len(buffer) = size /\ \A i \in 1..size : buffer[i] = feed.cursor + i
  BY <1>2, <1>4
<1>6. size = 0 => buffer = <<>>
  BY <1>5, EmptySeq
<1> HIDE DEF buffer
<1>7. pc \in {"read", "check"} /\ (pc = "check" => left = 0)
  BY <1>3
<1> HIDE DEF pc
<1>8. feed' \in Feeds
  BY <1>1, <1>2, <1>5, <1>7 DEF Feeds
<1>9. /\ feed'.cursor = feed.cursor /\ feed'.buffer = buffer /\ feed'.received = feed.received /\ feed'.pc = pc
  BY <1>1
<1>10. feed.cursor + size <= world.events
  BY <1>2, <1>3, <1>4 DEF left
<1>11. StreamOK'
  BY <1>1, <1>2, <1>4, <1>5, <1>6, <1>7, <1>9, <1>10 DEF StreamOK
<1>12. QED BY <1>1, <1>8, <1>11, FeedKeeps

LEMMA EmitEventKeeps == ASSUME CallInv, EmitEvent PROVE CallInv'
<1> DEFINE next == Head(feed.buffer)
<1> DEFINE rest == Tail(feed.buffer)
<1> DEFINE got == Append(feed.received, next)
<1>1. /\ feed' = [cursor |-> next, buffer |-> rest, received |-> got, pc |-> feed.pc]
      /\ feed.buffer # <<>>
      /\ UNCHANGED <<epoch, admission, world, effects, slips, reqs, holders, resends, switches>>
  BY DEF EmitEvent, Reads
<1>2. /\ feed.cursor \in Nat /\ world.events \in Nat /\ feed.received \in Seq(Nat) /\ StreamOK
      /\ feed.buffer \in Seq(Nat) /\ feed.pc \in {"read", "check", "ended"}
  BY FeedIs
<1>3. Len(feed.buffer) \in Nat /\ Len(feed.buffer) > 0
  BY <1>1, <1>2
<1>4. next = feed.cursor + 1 /\ next \in Nat
  BY <1>2, <1>3 DEF StreamOK
<1>5. /\ rest \in Seq(Nat) /\ Len(rest) = Len(feed.buffer) - 1
      /\ \A i \in 1..Len(rest) : rest[i] = feed.buffer[i + 1]
  BY <1>1, <1>2, <1>3
<1>6. \A i \in 1..Len(rest) : rest[i] = next + i
  <2> HIDE DEF rest
  <2> SUFFICES ASSUME NEW i \in 1..Len(rest) PROVE rest[i] = next + i
    OBVIOUS
  <2>1. i \in Nat /\ i + 1 \in 1..Len(feed.buffer)
    BY <1>3, <1>5
  <2>2. rest[i] = feed.buffer[i + 1] /\ feed.buffer[i + 1] = feed.cursor + (i + 1)
    BY <1>2, <1>5, <2>1 DEF StreamOK
  <2> HIDE DEF next
  <2>3. rest[i] = feed.cursor + (i + 1)
    BY <2>2
  <2>4. \A c, j \in Nat : c + (j + 1) = (c + 1) + j
    OBVIOUS
  <2>5. feed.cursor + (i + 1) = (feed.cursor + 1) + i
    BY <1>2, <2>1, <2>4, Zenon
  <2>6. QED BY <1>4, <2>3, <2>5
<1> HIDE DEF next
<1>7. /\ got \in Seq(Nat) /\ Len(got) = Len(feed.received) + 1 /\ got[Len(feed.received) + 1] = next
      /\ \A i \in 1..Len(feed.received) : got[i] = feed.received[i]
  BY <1>2, <1>4
<1> HIDE DEF rest, got
<1>8. Len(got) = next /\ \A i \in 1..Len(got) : got[i] = i
  <2>1. Len(feed.received) = feed.cursor
    BY <1>2 DEF StreamOK
  <2>2. Len(got) = next
    BY <1>2, <1>4, <1>7, <2>1
  <2> SUFFICES ASSUME NEW i \in 1..next PROVE got[i] = i
    BY <2>2
  <2>3. CASE i = feed.cursor + 1
    BY <1>4, <1>7, <2>1, <2>3
  <2>4. CASE i # feed.cursor + 1
    <3>1. i \in 1..Len(feed.received)
      BY <1>2, <1>4, <2>1, <2>4
    <3>2. QED BY <1>2, <1>7, <3>1 DEF StreamOK
  <2>5. QED BY <2>3, <2>4
<1>9. next + Len(rest) <= world.events
  BY <1>2, <1>3, <1>4, <1>5 DEF StreamOK
<1>10. feed.pc = "read"
  BY <1>1, <1>2 DEF StreamOK
<1>11. feed' \in Feeds /\ feed'.cursor = next /\ feed'.buffer = rest /\ feed'.received = got /\ feed'.pc = "read"
  BY <1>1, <1>4, <1>5, <1>7, <1>10 DEF Feeds
<1>12. StreamOK'
  BY <1>1, <1>6, <1>8, <1>9, <1>11 DEF StreamOK
<1>13. QED BY <1>1, <1>11, <1>12, FeedKeeps

LEMMA CheckEndKeeps == ASSUME CallInv, CheckEnd PROVE CallInv'
<1> DEFINE pc == IF StreamDone THEN "ended" ELSE "read"
<1>1. /\ feed' = [feed EXCEPT !.pc = pc] /\ feed.pc = "check"
      /\ UNCHANGED <<epoch, admission, world, effects, slips, reqs, holders, resends, switches>>
  BY DEF CheckEnd
<1>2. /\ feed.cursor \in Nat /\ world.events \in Nat /\ feed.received \in Seq(Nat) /\ StreamOK
      /\ feed \in Feeds
  BY FeedIs
<1>3. feed.buffer = <<>> /\ feed.cursor <= world.events
  BY <1>1, <1>2 DEF StreamOK
<1>4. pc = "ended" => ~world.first.live /\ feed.cursor = world.events
  BY <1>2, <1>3 DEF StreamDone
<1>5. pc \in {"read", "ended"}
  OBVIOUS
<1> HIDE DEF pc
<1>6. feed' \in Feeds /\ feed'.cursor = feed.cursor /\ feed'.buffer = <<>> /\ feed'.received = feed.received /\ feed'.pc = pc
  BY <1>1, <1>2, <1>3, <1>5 DEF Feeds
<1>7. StreamOK'
  BY <1>1, <1>2, <1>3, <1>4, <1>6 DEF StreamOK
<1>8. QED BY <1>1, <1>6, <1>7, FeedKeeps

LEMMA ReconnectKeeps == ASSUME CallInv, Reconnect PROVE CallInv'
<1>1. /\ feed' = [cursor |-> feed.cursor, buffer |-> <<>>, received |-> feed.received, pc |-> "read"]
      /\ UNCHANGED <<epoch, admission, world, effects, slips, reqs, holders, resends, switches>>
  BY DEF Reconnect, Reads
<1>2. /\ feed.cursor \in Nat /\ world.events \in Nat /\ feed.received \in Seq(Nat) /\ StreamOK
      /\ feed.buffer \in Seq(Nat)
  BY FeedIs
<1>3. feed.cursor + 0 <= world.events
  BY <1>2 DEF StreamOK
<1>4. feed' \in Feeds /\ feed'.cursor = feed.cursor /\ feed'.buffer = <<>> /\ feed'.received = feed.received /\ feed'.pc = "read"
  BY <1>1, <1>2 DEF Feeds
<1>5. StreamOK'
  BY <1>1, <1>2, <1>3, <1>4 DEF StreamOK
<1>6. QED BY <1>1, <1>4, <1>5, FeedKeeps

-----------------------------------------------------------------------------
LEMMA CallsNextKeeps == ASSUME CallInv, [CallsNext]_callVars PROVE CallInv'
<1>1. CASE UNCHANGED callVars
  <2>1. /\ UNCHANGED <<epoch, admission, world, effects, slips, reqs, holders, resends, switches>>
        /\ UNCHANGED feed
    BY <1>1 DEF callVars
  <2>2. feed' \in Feeds /\ StreamOK'
    BY <2>1, FeedIs, StreamStays
  <2>3. QED BY <2>1, <2>2, FeedKeeps
<1>2. QED BY <1>1, SendCallKeeps, BeforeDiscoveryKeeps, DiscoverKeeps, BeginWriteKeeps, CommitCallKeeps,
             RejectCallKeeps, SendAgainKeeps, TakenOverKeeps, RunsProceedKeeps, AdmissionSteps,
             ReadEventsKeeps, EmitEventKeeps, CheckEndKeeps, ReconnectKeeps DEF CallsNext

\* For every set of calls and keys: a key has one effect and one answer however often its
\* call is sent, a disabled harness has no live run, and a reader of the stream gets every
\* event once and in order (receipts.rs, project_harnesses.rs, stream.rs of the runtime).
THEOREM CallsAlwaysTakeEffectOnce == CallsSpec => []CallsTakeEffectOnce
<1>1. CallInv => CallsTakeEffectOnce
  <2> SUFFICES ASSUME CallInv PROVE CallsTakeEffectOnce
    OBVIOUS
  <2>1. OneEffectPerCallKey
    BY DEF CallInv, EffectsOK, CallOK, OneEffectPerCallKey
  <2>2. DisabledHarnessIsIdle
    BY DEF CallInv, AdmissionOK, Idle, DisabledHarnessIsIdle
  <2>3. StreamIsWhole
    BY DEF CallInv, StreamOK, StreamIsWhole
  <2>4. QED BY <2>1, <2>2, <2>3 DEF CallsTakeEffectOnce
<1>2. QED BY <1>1, CallsInitially, CallsNextKeeps, PTL DEF CallsSpec

\* An agent's call has no effect after its lease was lost, also when it was lost while the
\* call waited for a provider, and a published output never changes (capabilities.rs,
\* run_outputs.rs).
THEOREM StaleCallersNeverWrite == CallsSpec => [][StaleCallersChangeNothing]_callVars
<1>1. ASSUME CallInv, [CallsNext]_callVars PROVE [StaleCallersChangeNothing]_callVars
  <2> SUFFICES ASSUME CallsNext PROVE StaleCallersChangeNothing
    BY <1>1
  <2>1. \A q \in Calls : By(q) = "agent" /\ reqs[q].pc = "writing" => reqs[q].epoch = epoch
    BY <1>1 DEF CallInv, CallOK
  <2>2. world.output # NoReply => world'.output = world.output
    <3>1. ASSUME UNCHANGED world PROVE world'.output = world.output
      BY <3>1
    <3>2. ASSUME NEW q \in Calls, CommitCall(q) PROVE world.output # NoReply => world'.output = world.output
      BY <1>1, <3>2, EffectSteps DEF CallInv, CommitCall, WorldStep
    <3>3. ASSUME RunsProceed PROVE world.output # NoReply => world'.output = world.output
      BY <1>1, <3>3, RunsSteps DEF CallInv, WorldStep
    <3>4. QED BY <3>1, <3>2, <3>3 DEF CallsNext, CallerTakenOver, LookForLiveRuns, DisableHarness, SuspendSite,
                 ReadEvents, EmitEvent, CheckEnd, Reconnect, SendCall, BeforeDiscovery, DiscoverAccounts,
                 BeginWrite, RejectCall, SendAgain
  <2>3. QED BY <2>1, <2>2 DEF StaleCallersChangeNothing
<1>2. QED BY <1>1, CallsInitially, CallsNextKeeps, PTL DEF CallsSpec

-----------------------------------------------------------------------------
(* A site's database (SiteDatabase). *)

Connections == [began : BOOLEAN, sees : SUBSET Rows, disk : SUBSET Rows]

\* A connection outside a transaction sees what is on disk, and in one at least that.
Sound(c) ==
    /\ c \in Connections
    /\ c.disk \subseteq c.sees
    /\ c.began = FALSE => c.sees = c.disk

\* What was told of a row, against the rows the connection sees.
HeardOK(r) ==
    /\ heard[r] = "unused" => r \notin sqlite.sees
    /\ heard[r] = "committed" => r \in sqlite.disk
    /\ heard[r] = "failed" => r \notin sqlite.disk
    /\ heard[r] = "failed" /\ script = "callback" => r \notin sqlite.sees
    /\ heard[r] = "pending" => script \in {"callback", "thrown"} /\ r \notin sqlite.disk
    /\ heard[r] = "pending" /\ script = "callback" => r \in sqlite.sees

\* Without a backend there is no transaction, and a callback is in one.
ScriptOK ==
    /\ script = "off" <=> handle = "closed"
    /\ script = "off" => sqlite.began = FALSE
    /\ script = "callback" => sqlite.began = TRUE /\ handle \in {"young", "old"}

ReceiptOK(s) ==
    /\ sqlReceipts[s] \in Rows => authored[s] = 1 /\ sqlReceipts[s] \in sqlite.disk
    /\ sqlReceipts[s] \notin Rows => authored[s] = 0

SiteDbInv ==
    /\ SiteDbTypeOK
    /\ Sound(sqlite)
    /\ \A r \in Rows : HeardOK(r)
    /\ ScriptOK
    /\ \A s \in Slips : ReceiptOK(s)

-----------------------------------------------------------------------------
LEMMA SiteDbInitially == SiteDbInit => SiteDbInv
<1> SUFFICES ASSUME SiteDbInit PROVE SiteDbInv
  OBVIOUS
<1>1. sqlite \in Connections /\ sqlite.sees = {} /\ sqlite.disk = {} /\ sqlite.began = FALSE
  BY DEF SiteDbInit, Connections
<1>2. SiteDbTypeOK
  <2>1. heard \in [Rows -> Verdicts]
    BY DEF SiteDbInit, Verdicts
  <2>2. sqlReceipts \in [Slips -> Rows \cup {"none", "read"}] /\ authored \in [Slips -> 0..2]
    BY DEF SiteDbInit
  <2>3. handle = "closed" /\ script = "off" /\ overdue = FALSE
    BY DEF SiteDbInit
  <2> QED BY <1>1, <2>1, <2>2, <2>3 DEF SiteDbTypeOK, Connections
<1>3. Sound(sqlite) /\ ScriptOK
  BY <1>1 DEF Sound, ScriptOK, SiteDbInit
<1>4. \A r \in Rows : HeardOK(r)
  BY <1>1 DEF SiteDbInit, HeardOK
<1>5. \A s \in Slips : ReceiptOK(s)
  BY RefersAssumption DEF SiteDbInit, ReceiptOK
<1> QED BY <1>2, <1>3, <1>4, <1>5 DEF SiteDbInv

\* What a statement, which succeeds or not, makes of the connection c.
ConnectionBecomes(c, row, d, ok) ==
    /\ Sound(d) /\ ok \in BOOLEAN
    /\ c.disk \subseteq d.disk
    /\ d.sees \subseteq c.sees \cup ({row} \ {NoRow})
    /\ d.disk \subseteq c.disk \cup ({row} \ {NoRow})
    /\ ok = FALSE \/ c.began = TRUE => d.disk = c.disk
    /\ ok = TRUE /\ c.began = TRUE => d.began = TRUE /\ d.sees = c.sees \cup ({row} \ {NoRow})
    /\ ok = FALSE /\ c.began = TRUE /\ d.began = TRUE => d.sees = c.sees

LEMMA StatementFacts ==
    ASSUME NEW c, Sound(c), NEW row \in Rows \cup {NoRow}, NEW end \in {"done", "fault", "halted"}
    PROVE  ConnectionBecomes(c, row, AfterStatement(c, row, end).conn, AfterStatement(c, row, end).ok)
<1> USE DEF ConnectionBecomes
<1> DEFINE sees == c.sees \cup ({row} \ {NoRow})
<1>1. sees \in SUBSET Rows /\ c.began \in BOOLEAN /\ c.sees \in SUBSET Rows /\ c.disk \in SUBSET Rows
  BY DEF Sound, Connections
<1>2. c.disk \subseteq c.sees /\ (c.began = FALSE => c.sees = c.disk)
  BY DEF Sound
<1>3. CASE end = "halted"
  <2>1. AfterStatement(c, row, end) = [conn |-> RolledBack(c), ok |-> FALSE]
    BY <1>3 DEF AfterStatement
  <2> QED BY <1>1, <1>2, <2>1 DEF RolledBack, Sound, Connections
<1>4. CASE end = "fault"
  <2>1. AfterStatement(c, row, end) = [conn |-> c, ok |-> FALSE]
    BY <1>4 DEF AfterStatement
  <2> QED BY <1>1, <1>2, <2>1 DEF Sound, Connections
<1>5. CASE end = "done" /\ c.began = TRUE
  <2> DEFINE d == [c EXCEPT !.sees = sees]
  <2>1. AfterStatement(c, row, end) = [conn |-> d, ok |-> TRUE]
    BY <1>5 DEF AfterStatement
  <2>2. d \in Connections /\ d.began = c.began /\ d.sees = sees /\ d.disk = c.disk
    BY <1>1 DEF Sound, Connections
  <2> HIDE DEF d
  <2>3. AfterStatement(c, row, end).conn = d /\ AfterStatement(c, row, end).ok = TRUE
    BY <2>1
  <2> QED BY <1>1, <1>2, <1>5, <2>2, <2>3 DEF Sound
<1>6. CASE end = "done" /\ c.began = FALSE /\ Consistent(sees)
  <2> DEFINE d == [began |-> FALSE, sees |-> sees, disk |-> sees]
  <2>1. AfterStatement(c, row, end) = [conn |-> d, ok |-> TRUE]
    BY <1>6 DEF AfterStatement
  <2>2. d \in Connections /\ d.began = FALSE /\ d.sees = sees /\ d.disk = sees
    BY <1>1 DEF Connections
  <2> HIDE DEF d
  <2>3. AfterStatement(c, row, end).conn = d /\ AfterStatement(c, row, end).ok = TRUE
    BY <2>1
  <2> QED BY <1>1, <1>2, <1>6, <2>2, <2>3 DEF Sound
<1>7. CASE end = "done" /\ c.began = FALSE /\ ~Consistent(sees)
  <2> DEFINE d == [began |-> TRUE, sees |-> sees, disk |-> c.disk]
  <2>1. AfterStatement(c, row, end) = [conn |-> d, ok |-> FALSE]
    BY <1>7 DEF AfterStatement
  <2>2. d \in Connections /\ d.began = TRUE /\ d.sees = sees /\ d.disk = c.disk
    BY <1>1 DEF Connections
  <2> HIDE DEF d
  <2>3. AfterStatement(c, row, end).conn = d /\ AfterStatement(c, row, end).ok = FALSE
    BY <2>1
  <2> QED BY <1>1, <1>2, <1>7, <2>2, <2>3 DEF Sound
<1> QED BY <1>1, <1>3, <1>4, <1>5, <1>6, <1>7

-----------------------------------------------------------------------------
\* A step of the backend moves the connection from c to d: the disk keeps what it has.
\* Facts of the records.
LEMMA RollbackFacts ==
    ASSUME NEW c, Sound(c)
    PROVE  /\ Sound(RolledBack(c)) /\ RolledBack(c).began = FALSE
           /\ RolledBack(c).sees = c.disk /\ RolledBack(c).disk = c.disk
  BY DEF Sound, RolledBack, Connections

LEMMA SettleFacts ==
    ASSUME SiteDbTypeOK, NEW v \in {"committed", "failed"}
    PROVE  Settle(v) \in [Rows -> Verdicts] /\ \A r \in Rows : Settle(v)[r] = IF heard[r] = "pending" THEN v ELSE heard[r]
  BY DEF SiteDbTypeOK, Settle, Verdicts

\* Receipts stay good while the disk keeps what it has.
LEMMA ReceiptsKept ==
    ASSUME SiteDbInv, sqlite.disk \subseteq sqlite'.disk, UNCHANGED <<sqlReceipts, authored>>
    PROVE  \A s \in Slips : ReceiptOK(s)'
  BY DEF SiteDbInv, ReceiptOK

LEMMA OpenKeeps == ASSUME SiteDbInv, OpenInvocation PROVE SiteDbInv'
<1>1. /\ sqlite' = RolledBack(sqlite) /\ script = "off" /\ script' = "handler" /\ handle' = "none" /\ overdue' = FALSE
      /\ Sound(sqlite) /\ SiteDbTypeOK /\ UNCHANGED <<heard, sqlReceipts, authored>>
  BY DEF OpenInvocation, SiteDbInv, ScriptOK
<1>2. Sound(sqlite)' /\ sqlite'.began = FALSE /\ sqlite'.sees = sqlite.disk /\ sqlite'.disk = sqlite.disk
  BY <1>1, RollbackFacts
<1>3. SiteDbTypeOK'
  BY <1>1, <1>2 DEF SiteDbTypeOK, Sound, Connections
<1>4. ASSUME NEW r \in Rows PROVE HeardOK(r)'
  <2>1. HeardOK(r) /\ sqlite.disk \subseteq sqlite.sees
    BY <1>1 DEF SiteDbInv, Sound
  <2> QED BY <1>1, <1>2, <2>1 DEF HeardOK
<1>5. ScriptOK'
  BY <1>1 DEF ScriptOK
<1>6. \A s \in Slips : ReceiptOK(s)'
  BY <1>1, <1>2, ReceiptsKept
<1> QED BY <1>2, <1>3, <1>4, <1>5, <1>6 DEF SiteDbInv

LEMMA TimeKeeps == ASSUME SiteDbInv, Deadline \/ TransactionAges \/ Refused \/ CallbackThrows PROVE SiteDbInv'
<1>1. /\ UNCHANGED <<sqlite, heard, sqlReceipts, authored>> /\ handle' \in {"closed", "none", "young", "old"}
      /\ overdue' \in BOOLEAN /\ (handle' = "closed" <=> handle = "closed")
      /\ handle \in {"young", "old"} => handle' \in {"young", "old"}
      /\ script' = script \/ (script = "callback" /\ script' = "thrown")
  BY DEF Deadline, TransactionAges, Refused, CallbackThrows, SiteDbInv, SiteDbTypeOK
<1>2. SiteDbTypeOK' /\ Sound(sqlite)'
  BY <1>1 DEF SiteDbInv, SiteDbTypeOK, Sound
<1>3. \A r \in Rows : HeardOK(r)'
  BY <1>1 DEF SiteDbInv, HeardOK
<1>4. ScriptOK'
  BY <1>1 DEF SiteDbInv, ScriptOK
<1>5. \A s \in Slips : ReceiptOK(s)'
  BY <1>1, ReceiptsKept DEF SiteDbInv
<1> QED BY <1>2, <1>3, <1>4, <1>5 DEF SiteDbInv

\* What a call of the SDK does to connection and handle.
LEMMA CallFacts ==
    ASSUME SiteDbInv, NEW row \in Rows \cup {NoRow}, NEW end \in {"done", "fault", "halted"}, NEW lapse \in Lapses,
           NEW ok, ok = AfterStatement(sqlite, row, end).ok, CallStatement(row, end, lapse), script # "off"
    PROVE  /\ ConnectionBecomes(sqlite, row, sqlite', ok)
           /\ handle' \in {"none", "young", "old"} /\ overdue' \in BOOLEAN
           /\ ok = TRUE /\ handle \in {"young", "old"} => handle' \in {"young", "old"}
           /\ handle \in {"young", "old"} /\ handle' # "none" => handle' \in {"young", "old"}
<1>1. Sound(sqlite) /\ SiteDbTypeOK /\ handle # "closed"
  BY DEF SiteDbInv, ScriptOK
<1> DEFINE ran == AfterStatement(sqlite, row, end)
<1>2. /\ lapse = "transaction" => handle = "young"
      /\ \/ ran.ok = FALSE /\ sqlite' = RolledBack(sqlite) /\ handle' = "none"
         \/ /\ sqlite' = ran.conn
            /\ handle' = IF lapse = "transaction" THEN "old" ELSE handle
      /\ overdue' \in BOOLEAN
  <2>1. ran.ok \in BOOLEAN
    BY <1>1, StatementFacts DEF ConnectionBecomes
  <2> QED BY <1>1, <2>1 DEF CallStatement, Rollback, SiteDbTypeOK
<1>3. handle' \in {"none", "young", "old"} /\ overdue' \in BOOLEAN
      /\ (ok = TRUE /\ handle \in {"young", "old"} => handle' \in {"young", "old"})
      /\ (handle \in {"young", "old"} /\ handle' # "none" => handle' \in {"young", "old"})
  BY <1>1, <1>2 DEF SiteDbTypeOK
<1>4. CASE sqlite' = ran.conn
  BY <1>1, <1>3, <1>4, StatementFacts
<1>5. CASE ran.ok = FALSE /\ sqlite' = RolledBack(sqlite)
  <2>1. /\ sqlite'.began = FALSE /\ sqlite'.sees = sqlite.disk /\ sqlite'.disk = sqlite.disk /\ Sound(sqlite)'
        /\ sqlite.disk \subseteq sqlite.sees
    BY <1>1, <1>5, RollbackFacts DEF Sound
  <2> QED BY <1>1, <1>3, <1>5, <2>1 DEF ConnectionBecomes
<1> QED BY <1>2, <1>4, <1>5

LEMMA DbExecuteKeeps ==
    ASSUME SiteDbInv, NEW row \in Rows \cup {NoRow}, NEW end \in {"done", "fault", "halted"}, NEW lapse \in Lapses,
           DbExecute(row, end, lapse)
    PROVE  SiteDbInv'
<1>1. PICK ok : ok = AfterStatement(sqlite, row, end).ok
  OBVIOUS
<1>2. /\ script = "handler" /\ (row # NoRow => heard[row] = "unused") /\ CallStatement(row, end, lapse)
      /\ heard' = IF row = NoRow THEN heard ELSE [heard EXCEPT ![row] = IF ok THEN "acknowledged" ELSE "failed"]
      /\ UNCHANGED <<script, sqlReceipts, authored>> /\ SiteDbTypeOK
  BY <1>1 DEF DbExecute, SiteDbInv
<1>3. /\ Sound(sqlite)' /\ sqlite.disk \subseteq sqlite'.disk /\ ok \in BOOLEAN
      /\ sqlite'.sees \subseteq sqlite.sees \cup ({row} \ {NoRow})
      /\ sqlite'.disk \subseteq sqlite.disk \cup ({row} \ {NoRow})
      /\ ok = FALSE => sqlite'.disk = sqlite.disk
      /\ handle' \in {"none", "young", "old"} /\ overdue' \in BOOLEAN
  <2>1. ConnectionBecomes(sqlite, row, sqlite', ok) /\ handle' \in {"none", "young", "old"} /\ overdue' \in BOOLEAN
    BY <1>1, <1>2, CallFacts
  <2> QED BY <2>1 DEF ConnectionBecomes
<1>4. /\ heard' \in [Rows -> Verdicts] /\ \A r \in Rows \ {row} : heard'[r] = heard[r]
      /\ row # NoRow => heard'[row] = IF ok THEN "acknowledged" ELSE "failed"
  BY <1>2 DEF SiteDbTypeOK, Verdicts
<1>5. SiteDbTypeOK'
  BY <1>2, <1>3, <1>4 DEF SiteDbTypeOK, Sound, Connections
<1>6. ASSUME NEW r \in Rows PROVE HeardOK(r)'
  <2>1. HeardOK(r) /\ sqlite.disk \subseteq sqlite.sees /\ sqlite'.disk \subseteq sqlite'.sees
    BY <1>3 DEF SiteDbInv, Sound
  <2>2. CASE r = row
    <3>1. r # NoRow /\ r \notin sqlite.sees
      BY <1>2, <2>1, <2>2, RefersAssumption DEF HeardOK
    <3> QED BY <1>2, <1>3, <1>4, <2>1, <2>2, <3>1 DEF HeardOK
  <2>3. CASE r # row
    BY <1>2, <1>3, <1>4, <2>1, <2>3 DEF HeardOK
  <2> QED BY <2>2, <2>3
<1>7. ScriptOK'
  BY <1>2, <1>3 DEF ScriptOK
<1>8. \A s \in Slips : ReceiptOK(s)'
  BY <1>2, <1>3, ReceiptsKept
<1> QED BY <1>3, <1>5, <1>6, <1>7, <1>8 DEF SiteDbInv

LEMMA TxExecuteKeeps ==
    ASSUME CatchesLoss = FALSE, SiteDbInv, NEW row \in Rows \cup {NoRow}, NEW end \in {"done", "fault", "halted"},
           NEW lapse \in Lapses, TxExecute(row, end, lapse)
    PROVE  SiteDbInv'
<1>1. PICK ok : ok = AfterStatement(sqlite, row, end).ok
  OBVIOUS
<1>2. /\ script = "callback" /\ (row # NoRow => heard[row] = "unused") /\ CallStatement(row, end, lapse)
      /\ heard' = IF row = NoRow THEN heard ELSE [heard EXCEPT ![row] = IF ok THEN "pending" ELSE "failed"]
      /\ UNCHANGED <<sqlReceipts, authored>> /\ SiteDbTypeOK
  BY <1>1 DEF TxExecute, SiteDbInv
<1>3. sqlite.began = TRUE /\ handle \in {"young", "old"}
  BY <1>2 DEF SiteDbInv, ScriptOK
<1>4. /\ Sound(sqlite)' /\ sqlite'.disk = sqlite.disk /\ ok \in BOOLEAN
      /\ sqlite'.sees \subseteq sqlite.sees \cup ({row} \ {NoRow})
      /\ ok = TRUE => sqlite'.began = TRUE /\ sqlite'.sees = sqlite.sees \cup ({row} \ {NoRow})
      /\ ok = FALSE /\ sqlite'.began = TRUE => sqlite'.sees = sqlite.sees
      /\ handle' \in {"none", "young", "old"} /\ overdue' \in BOOLEAN
      /\ ok = TRUE \/ handle' # "none" => handle' \in {"young", "old"}
  <2>1. /\ ConnectionBecomes(sqlite, row, sqlite', ok) /\ handle' \in {"none", "young", "old"} /\ overdue' \in BOOLEAN
        /\ ok = TRUE \/ handle' # "none" => handle' \in {"young", "old"}
    BY <1>1, <1>2, <1>3, CallFacts
  <2> QED BY <1>3, <2>1 DEF ConnectionBecomes
<1>5. /\ heard' \in [Rows -> Verdicts] /\ \A r \in Rows \ {row} : heard'[r] = heard[r]
      /\ row # NoRow => heard'[row] = IF ok THEN "pending" ELSE "failed"
  BY <1>2 DEF SiteDbTypeOK, Verdicts
<1>6. \/ script' = "callback" /\ sqlite'.began = TRUE /\ handle' \in {"young", "old"}
      \/ script' = "thrown"
  <2>1. sqlite'.began \in BOOLEAN
    BY <1>4 DEF Sound, Connections
  <2>2. \/ script' = script /\ (ok = TRUE \/ ~LostTransaction(sqlite', handle'))
        \/ script' = "thrown"
    BY <1>1, <1>4 DEF TxExecute
  <2> QED BY <1>2, <1>4, <2>1, <2>2 DEF LostTransaction
<1>7. SiteDbTypeOK'
  BY <1>2, <1>4, <1>5, <1>6 DEF SiteDbTypeOK, Sound, Connections
<1>8. ASSUME NEW r \in Rows PROVE HeardOK(r)'
  <2>1. HeardOK(r) /\ sqlite.disk \subseteq sqlite.sees
    BY DEF SiteDbInv, Sound
  <2>2. CASE r = row
    <3>1. r # NoRow /\ r \notin sqlite.sees /\ r \notin sqlite.disk
      BY <1>2, <2>1, <2>2, RefersAssumption DEF HeardOK
    <3>2. CASE ok = TRUE
      BY <1>4, <1>5, <1>6, <2>2, <3>1, <3>2 DEF HeardOK
    <3>3. CASE ok = FALSE
      BY <1>4, <1>5, <1>6, <2>2, <3>1, <3>3 DEF HeardOK
    <3> QED BY <1>4, <3>2, <3>3
  <2>3. CASE r # row
    <3>1. heard'[r] = heard[r] /\ (r \in sqlite'.sees => r \in sqlite.sees)
      BY <1>4, <1>5, <2>3
    <3>2. CASE script' = "callback"
      <4>1. sqlite.sees \subseteq sqlite'.sees
        BY <1>4, <1>6, <3>2
      <4> QED BY <1>2, <1>4, <2>1, <3>1, <3>2, <4>1 DEF HeardOK
    <3>3. CASE script' = "thrown"
      BY <1>2, <1>4, <2>1, <3>1, <3>3 DEF HeardOK
    <3> QED BY <1>6, <3>2, <3>3
  <2> QED BY <2>2, <2>3
<1>9. ScriptOK'
  BY <1>4, <1>6 DEF ScriptOK
<1>10. \A s \in Slips : ReceiptOK(s)'
  BY <1>2, <1>4, ReceiptsKept
<1> QED BY <1>4, <1>7, <1>8, <1>9, <1>10 DEF SiteDbInv

LEMMA BeginsKeeps == ASSUME SiteDbInv, TransactionBegins PROVE SiteDbInv'
<1>1. /\ script = "handler" /\ sqlite' = [sqlite EXCEPT !.began = TRUE] /\ handle' = "young" /\ script' = "callback"
      /\ UNCHANGED <<overdue, heard, sqlReceipts, authored>> /\ SiteDbTypeOK /\ Sound(sqlite)
  BY DEF TransactionBegins, BeginImmediate, SiteDbInv
<1>2. sqlite.began = FALSE /\ sqlite.sees = sqlite.disk
  BY <1>1 DEF TransactionBegins, MayBegin, Sound, Connections
<1>3. Sound(sqlite)' /\ sqlite'.began = TRUE /\ sqlite'.sees = sqlite.sees /\ sqlite'.disk = sqlite.disk
  BY <1>1 DEF Sound, Connections
<1>4. SiteDbTypeOK'
  BY <1>1, <1>3 DEF SiteDbTypeOK, Sound, Connections
<1>5. ASSUME NEW r \in Rows PROVE HeardOK(r)'
  <2>1. HeardOK(r)
    BY DEF SiteDbInv
  <2> QED BY <1>1, <1>2, <1>3, <2>1 DEF HeardOK
<1>6. ScriptOK'
  BY <1>1, <1>3 DEF ScriptOK
<1>7. \A s \in Slips : ReceiptOK(s)'
  BY <1>1, <1>3, ReceiptsKept
<1> QED BY <1>3, <1>4, <1>5, <1>6, <1>7 DEF SiteDbInv

LEMMA CommitsKeeps == ASSUME SiteDbInv, TransactionCommits PROVE SiteDbInv'
<1>1. CASE CheckPasses /\ handle = "young" /\ sqlite.began /\ Consistent(sqlite.sees)
  <2>1. /\ script = "callback" /\ sqlite' = Committed(sqlite) /\ handle' = "none" /\ script' = "handler"
        /\ heard' = Settle("committed") /\ UNCHANGED <<overdue, sqlReceipts, authored>> /\ SiteDbTypeOK /\ Sound(sqlite)
    BY <1>1 DEF TransactionCommits, SiteDbInv
  <2>2. Sound(sqlite)' /\ sqlite'.began = FALSE /\ sqlite'.sees = sqlite.sees /\ sqlite'.disk = sqlite.sees
    BY <2>1 DEF Sound, Connections, Committed
  <2>3. heard' \in [Rows -> Verdicts] /\ \A r \in Rows : heard'[r] = IF heard[r] = "pending" THEN "committed" ELSE heard[r]
    BY <2>1, SettleFacts
  <2>4. SiteDbTypeOK'
    BY <2>1, <2>2, <2>3 DEF SiteDbTypeOK, Sound, Connections
  <2>5. ASSUME NEW r \in Rows PROVE HeardOK(r)'
    <3>1. HeardOK(r) /\ sqlite.disk \subseteq sqlite.sees
      BY <2>1 DEF SiteDbInv, Sound
    <3> QED BY <2>1, <2>2, <2>3, <3>1 DEF HeardOK
  <2>6. ScriptOK'
    BY <2>1 DEF ScriptOK
  <2>7. sqlite.disk \subseteq sqlite'.disk
    BY <2>1, <2>2 DEF Sound
  <2>8. \A s \in Slips : ReceiptOK(s)'
    BY <2>1, <2>7, ReceiptsKept
  <2> QED BY <2>2, <2>4, <2>5, <2>6, <2>8 DEF SiteDbInv
<1>2. CASE ~(CheckPasses /\ handle = "young" /\ sqlite.began /\ Consistent(sqlite.sees))
  <2>1. CallbackThrows
    BY <1>2 DEF TransactionCommits, CallbackThrows
  <2> QED BY <2>1, TimeKeeps
<1> QED BY <1>1, <1>2

LEMMA ThrowsKeeps == ASSUME SiteDbInv, TransactionThrows \/ InvocationEnds PROVE SiteDbInv'
<1>1. /\ sqlite' = RolledBack(sqlite) /\ heard' = Settle("failed") /\ UNCHANGED <<sqlReceipts, authored>>
      /\ \/ script' = "off" /\ handle' = "closed"
         \/ script' = "handler" /\ handle' = "none"
      /\ overdue' \in BOOLEAN /\ SiteDbTypeOK /\ Sound(sqlite)
  BY DEF TransactionThrows, InvocationEnds, Rollback, SiteDbInv, SiteDbTypeOK
<1>2. Sound(sqlite)' /\ sqlite'.began = FALSE /\ sqlite'.sees = sqlite.disk /\ sqlite'.disk = sqlite.disk
  BY <1>1, RollbackFacts
<1>3. heard' \in [Rows -> Verdicts] /\ \A r \in Rows : heard'[r] = IF heard[r] = "pending" THEN "failed" ELSE heard[r]
  BY <1>1, SettleFacts
<1>4. SiteDbTypeOK'
  BY <1>1, <1>2, <1>3 DEF SiteDbTypeOK, Sound, Connections
<1>5. ASSUME NEW r \in Rows PROVE HeardOK(r)'
  <2>1. HeardOK(r) /\ sqlite.disk \subseteq sqlite.sees
    BY <1>1 DEF SiteDbInv, Sound
  <2> QED BY <1>1, <1>2, <1>3, <2>1 DEF HeardOK
<1>6. ScriptOK'
  BY <1>1, <1>2 DEF ScriptOK
<1>7. \A s \in Slips : ReceiptOK(s)'
  BY <1>1, <1>2, ReceiptsKept
<1> QED BY <1>2, <1>4, <1>5, <1>6, <1>7 DEF SiteDbInv

LEMMA BatchKeeps ==
    ASSUME SiteDbInv, NEW a \in Rows, NEW b \in Rows, NEW done \in 0..2, NEW end \in {"fault", "halted"},
           a # b, DbBatch(<<a, b>>, done, end)
    PROVE  SiteDbInv'
<1> DEFINE list == <<a, b>>
<1>1. /\ script = "handler" /\ MayBegin /\ heard[a] = "unused" /\ heard[b] = "unused"
      /\ UNCHANGED <<handle, overdue, script, sqlReceipts, authored>> /\ SiteDbTypeOK /\ Sound(sqlite)
  BY DEF DbBatch, SiteDbInv
<1>2. sqlite.sees = sqlite.disk /\ sqlite.began = FALSE
  BY <1>1 DEF MayBegin, Sound, Connections
<1>3. PICK ok \in BOOLEAN, rows \in SUBSET {a, b} :
        /\ sqlite' = [began |-> FALSE, sees |-> sqlite.disk \cup rows, disk |-> sqlite.disk \cup rows]
        /\ heard' = [r \in Rows |-> IF r \in {a, b} THEN IF ok THEN "committed" ELSE "failed" ELSE heard[r]]
        /\ ok = TRUE => rows = {a, b}
        /\ ok = FALSE => rows = {}
  <2>1. Len(list) = 2 /\ {list[i] : i \in 1..2} = {a, b} /\ \A r \in Rows : (\E i \in 1..2 : list[i] = r) <=> r \in {a, b}
    <3>1. 1..2 = {1, 2}
      OBVIOUS
    <3> QED BY <3>1
  <2>2. heard' = [r \in Rows |-> IF \E i \in 1..Len(list) : list[i] = r
                                THEN IF BatchResult(list, done, end).ok THEN "committed" ELSE "failed" ELSE heard[r]]
    BY DEF DbBatch
  <2>3. heard' = [r \in Rows |-> IF r \in {a, b} THEN IF BatchResult(list, done, end).ok THEN "committed" ELSE "failed" ELSE heard[r]]
    BY <2>1, <2>2
  <2>4. \/ BatchResult(list, done, end) = [rows |-> {a, b}, ok |-> TRUE]
        \/ BatchResult(list, done, end) = [rows |-> {}, ok |-> FALSE]
    BY <2>1 DEF BatchResult
  <2>5. sqlite' = [began |-> FALSE, sees |-> sqlite.disk \cup BatchResult(list, done, end).rows,
                   disk |-> sqlite.disk \cup BatchResult(list, done, end).rows]
    BY DEF DbBatch
  <2>6. CASE BatchResult(list, done, end) = [rows |-> {a, b}, ok |-> TRUE]
    <3>1. BatchResult(list, done, end).rows = {a, b} /\ BatchResult(list, done, end).ok = TRUE
      BY <2>6
    <3> WITNESS TRUE \in BOOLEAN, {a, b} \in SUBSET {a, b}
    <3> QED BY <2>3, <2>5, <3>1
  <2>7. CASE BatchResult(list, done, end) = [rows |-> {}, ok |-> FALSE]
    <3>1. BatchResult(list, done, end).rows = {} /\ BatchResult(list, done, end).ok = FALSE
      BY <2>7
    <3> WITNESS FALSE \in BOOLEAN, {} \in SUBSET {a, b}
    <3> QED BY <2>3, <2>5, <3>1
  <2> QED BY <2>4, <2>6, <2>7
<1>4. /\ Sound(sqlite)' /\ sqlite'.began = FALSE /\ sqlite'.sees = sqlite.disk \cup rows /\ sqlite'.disk = sqlite.disk \cup rows
  BY <1>1, <1>3 DEF Sound, Connections
<1>5. heard' \in [Rows -> Verdicts] /\ \A r \in Rows : heard'[r] = IF r \in {a, b} THEN IF ok THEN "committed" ELSE "failed" ELSE heard[r]
  BY <1>1, <1>3 DEF SiteDbTypeOK, Verdicts
<1>6. SiteDbTypeOK'
  BY <1>1, <1>4, <1>5 DEF SiteDbTypeOK, Sound, Connections
<1>7. ASSUME NEW r \in Rows PROVE HeardOK(r)'
  <2>1. HeardOK(r)
    BY DEF SiteDbInv
  <2>2. CASE r \in {a, b}
    <3>1. r \notin sqlite.disk
      BY <1>1, <1>2, <2>1, <2>2 DEF HeardOK
    <3> QED BY <1>1, <1>3, <1>4, <1>5, <2>2, <3>1 DEF HeardOK
  <2>3. CASE r \notin {a, b}
    BY <1>1, <1>2, <1>3, <1>4, <1>5, <2>1, <2>3 DEF HeardOK
  <2> QED BY <2>2, <2>3
<1>8. ScriptOK'
  BY <1>1, <1>4 DEF ScriptOK, SiteDbInv
<1>9. \A s \in Slips : ReceiptOK(s)'
  BY <1>1, <1>4, ReceiptsKept
<1> QED BY <1>4, <1>6, <1>7, <1>8, <1>9 DEF SiteDbInv

LEMMA AuthorsKeeps ==
    ASSUME SiteDbInv, NEW id \in Slips, NEW row \in Rows \cup {NoRow}, NEW end \in {"done", "fault", "halted"},
           NEW reads \in BOOLEAN, Authors(id, row, end, reads)
    PROVE  SiteDbInv'
<1>1. /\ handle = "closed" /\ script = "off" /\ sqlite.began = FALSE /\ sqlite.sees = sqlite.disk
      /\ UNCHANGED <<handle, overdue, script>> /\ SiteDbTypeOK /\ Sound(sqlite)
  BY DEF Authors, SiteDbInv, ScriptOK, Sound
<1>2. heard' = IF row # NoRow /\ row \in sqlite'.disk /\ row \notin sqlite.disk
               THEN [heard EXCEPT ![row] = "acknowledged"] ELSE heard
  BY DEF Authors
<1>3. \/ sqlite' = sqlite /\ UNCHANGED <<sqlReceipts, authored>>
      \/ /\ sqlReceipts[id] = "none" /\ sqlite' = sqlite /\ UNCHANGED authored
         /\ sqlReceipts' = [sqlReceipts EXCEPT ![id] = "read"]
      \/ /\ sqlReceipts[id] = "none" /\ row \in Rows /\ heard[row] = "unused"
         /\ sqlReceipts' = [sqlReceipts EXCEPT ![id] = row]
         /\ sqlite' = [began |-> FALSE, sees |-> sqlite.disk \cup {row}, disk |-> sqlite.disk \cup {row}]
         /\ authored' = [authored EXCEPT ![id] = authored[id] + 1]
  <2>1. CASE sqlReceipts[id] # "none"
    BY <2>1 DEF Authors
  <2>2. CASE sqlReceipts[id] = "none" /\ row = NoRow
    BY <2>2 DEF Authors, Receipted
  <2>3. CASE sqlReceipts[id] = "none" /\ row # NoRow
    <3>1. row \in Rows /\ heard[row] = "unused" /\ Receipted(id, row, end, reads)
      BY <2>3 DEF Authors
    <3>2. CASE end = "done" /\ Consistent(sqlite.disk \cup {row})
      BY <2>3, <3>1, <3>2 DEF Receipted
    <3>3. CASE ~(end = "done" /\ Consistent(sqlite.disk \cup {row}))
      BY <2>3, <3>1, <3>3 DEF Receipted
    <3> QED BY <3>2, <3>3
  <2> QED BY <2>1, <2>2, <2>3
<1>4. CASE sqlite' = sqlite
  <2>1. heard' = heard
    BY <1>2, <1>4
  <2>2. /\ authored' = authored /\ sqlReceipts' \in [Slips -> Rows \cup {"none", "read"}]
        /\ \A s \in Slips : sqlReceipts'[s] = sqlReceipts[s] \/ (sqlReceipts[s] = "none" /\ sqlReceipts'[s] = "read")
    <3>1. \/ UNCHANGED <<sqlReceipts, authored>>
          \/ sqlReceipts[id] = "none" /\ UNCHANGED authored /\ sqlReceipts' = [sqlReceipts EXCEPT ![id] = "read"]
      <4>1. row \in Rows /\ heard[row] = "unused" => row \notin sqlite.disk
        BY <1>1 DEF SiteDbInv, HeardOK
      <4>2. sqlite' # [began |-> FALSE, sees |-> sqlite.disk \cup {row}, disk |-> sqlite.disk \cup {row}]
              \/ row \in sqlite.disk
        BY <1>4
      <4> QED BY <1>3, <4>1, <4>2
    <3> QED BY <1>1, <3>1 DEF SiteDbTypeOK
  <2>3. \A s \in Slips : ReceiptOK(s)'
    <3>1. "none" \notin Rows /\ "read" \notin Rows
      BY RefersAssumption
    <3> QED BY <1>4, <2>2, <3>1 DEF SiteDbInv, ReceiptOK
  <2>4. SiteDbTypeOK' /\ Sound(sqlite)' /\ ScriptOK'
    BY <1>1, <1>4, <2>1, <2>2 DEF SiteDbInv, SiteDbTypeOK, Sound, ScriptOK
  <2>5. \A r \in Rows : HeardOK(r)'
    BY <1>1, <1>4, <2>1 DEF SiteDbInv, HeardOK
  <2> QED BY <2>3, <2>4, <2>5 DEF SiteDbInv
<1>5. CASE /\ sqlReceipts[id] = "none" /\ row \in Rows /\ heard[row] = "unused"
           /\ sqlReceipts' = [sqlReceipts EXCEPT ![id] = row]
           /\ sqlite' = [began |-> FALSE, sees |-> sqlite.disk \cup {row}, disk |-> sqlite.disk \cup {row}]
           /\ authored' = [authored EXCEPT ![id] = authored[id] + 1]
  <2>1. row # NoRow /\ row \notin sqlite.disk /\ row \notin sqlite.sees
    BY <1>1, <1>5, RefersAssumption DEF SiteDbInv, HeardOK
  <2>2. Sound(sqlite)' /\ sqlite'.began = FALSE /\ sqlite'.sees = sqlite.disk \cup {row} /\ sqlite'.disk = sqlite.disk \cup {row}
    BY <1>1, <1>5 DEF Sound, Connections
  <2>3. /\ heard' \in [Rows -> Verdicts] /\ heard'[row] = "acknowledged" /\ \A r \in Rows \ {row} : heard'[r] = heard[r]
    BY <1>1, <1>2, <1>5, <2>1, <2>2 DEF SiteDbTypeOK, Verdicts
  <2>4. authored[id] = 0
    BY <1>5, RefersAssumption DEF SiteDbInv, ReceiptOK
  <2>5. /\ authored' \in [Slips -> 0..2] /\ authored'[id] = 1 /\ sqlReceipts' \in [Slips -> Rows \cup {"none", "read"}]
        /\ sqlReceipts'[id] = row
        /\ \A s \in Slips \ {id} : authored'[s] = authored[s] /\ sqlReceipts'[s] = sqlReceipts[s]
    BY <1>1, <1>5, <2>4 DEF SiteDbTypeOK
  <2>6. SiteDbTypeOK' /\ ScriptOK'
    BY <1>1, <2>2, <2>3, <2>5 DEF SiteDbTypeOK, Sound, Connections, ScriptOK
  <2>7. ASSUME NEW r \in Rows PROVE HeardOK(r)'
    <3>1. HeardOK(r)
      BY DEF SiteDbInv
    <3> QED BY <1>1, <2>2, <2>3, <3>1 DEF HeardOK
  <2>8. ASSUME NEW s \in Slips PROVE ReceiptOK(s)'
    <3>1. ReceiptOK(s)
      BY DEF SiteDbInv
    <3> QED BY <1>5, <2>2, <2>5, <3>1 DEF ReceiptOK
  <2> QED BY <2>2, <2>6, <2>7, <2>8 DEF SiteDbInv
<1> QED BY <1>3, <1>4, <1>5

LEMMA SiteDbStepKeeps == ASSUME CatchesLoss = FALSE, SiteDbInv, [SiteDbNext]_siteDbVars PROVE SiteDbInv'
<1>1. CASE UNCHANGED siteDbVars
  BY <1>1 DEF siteDbVars, SiteDbInv, SiteDbTypeOK, Sound, HeardOK, ScriptOK, ReceiptOK
<1>2. \A s \in Statements(FALSE) : s[1] \in Rows \cup {NoRow} /\ s[2] \in {"done", "fault", "halted"}
  BY DEF Statements
<1>3. \A s \in Statements(TRUE) : s[1] \in Rows \cup {NoRow} /\ s[2] \in {"done", "fault", "halted"}
  BY DEF Statements
<1>4. ASSUME NEW s \in Statements(FALSE), NEW lapse \in Lapses,
             DbExecute(s[1], s[2], lapse) \/ TxExecute(s[1], s[2], lapse)
      PROVE  SiteDbInv'
  BY <1>2, <1>4, DbExecuteKeeps, TxExecuteKeeps
<1>5. ASSUME NEW id \in Slips, NEW s \in Statements(TRUE), SqlStatement(id, s[1], s[2]) \/ AuthoringSql(id, s[1], s[2])
      PROVE  SiteDbInv'
  BY <1>3, <1>5, AuthorsKeeps DEF SqlStatement, AuthoringSql
<1>6. CASE SiteDbNext
  BY <1>4, <1>5, <1>6, OpenKeeps, TimeKeeps, BeginsKeeps, CommitsKeeps, ThrowsKeeps, BatchKeeps DEF SiteDbNext
<1> QED BY <1>1, <1>6

LEMMA SiteDbInvWhole == SiteDbInv => SiteWritesAreWhole
  BY DEF SiteDbInv, SiteWritesAreWhole, TransactionsAreWhole, ReceiptMeansApplied, HeardOK, ReceiptOK, SiteDbTypeOK

\* For every set of rows and authoring statements, with statements that fail, time out or
\* are interrupted by the end of an invocation: a transaction or batch that answers is on
\* disk whole, one that is rejected not at all, and an authoring statement is applied once
\* (database.rs, authoring_sql.rs).  Callbacks that catch the loss of their transaction are
\* excluded: for those the code does not keep it (run site_transaction).
THEOREM SiteWritesStayWhole ==
    ASSUME CatchesLoss = FALSE PROVE SiteDbSpec => []SiteWritesAreWhole
<1>1. SiteDbInv /\ [SiteDbNext]_siteDbVars => SiteDbInv'
  BY SiteDbStepKeeps
<1> QED BY <1>1, SiteDbInitially, SiteDbInvWhole, PTL DEF SiteDbSpec

-----------------------------------------------------------------------------
(* The sandboxes of sessions (SessionSandboxes, GatewayAccounts). *)

\* The rows of the accounts: the default one is active, there is one at the most.
RowsOK(rows) ==
    /\ rows \in [HostAccounts -> AccountRow]
    /\ \A a \in HostAccounts : rows[a].isDefault = TRUE => rows[a].status = "active"
    /\ \A a, b \in HostAccounts : rows[a].isDefault = TRUE /\ rows[b].isDefault = TRUE => a = b

\* Every host has its account, and so has every snapshot.
HostsHaveAccounts ==
    /\ \A h \in 1..Len(hostsOf) : HostExists(hostsOf[h].account)
    /\ \A a \in snapshotsOf : HostExists(a)

\* The hosts made for a key: one for every record there is or was.
MadeFor(k) == {h \in 1..Len(hostsOf) : hostsOf[h].key = k}
Counted(k) ==
    /\ IsFiniteSet(MadeFor(k))
    /\ Cardinality(MadeFor(k)) = IF Known(k) THEN expired[k] + 1 ELSE expired[k]

\* A driver that has a target works on the one of the session.
DriverOK(d) ==
    /\ driver[d].at \in {"commit", "ready"} => driver[d].host # NoValue
    /\ driver[d].at = "ready" => driver[d].host = target[served]
    /\ driver[d].at = "create" => Environment[served] # Machine

SandboxInv ==
    /\ HostAccountsTypeOK /\ served \in Sessions
    /\ DOMAIN driver = Clients /\ DOMAIN target = Sessions
    /\ RowsOK(account)
    /\ HostsHaveAccounts
    /\ \A k \in CreateKeys : Counted(k)
    /\ \A d \in Clients : DriverOK(d)

-----------------------------------------------------------------------------
LEMMA SandboxInitially == SandboxInit => SandboxInv
<1> SUFFICES ASSUME SandboxInit PROVE SandboxInv
  OBVIOUS
<1>1. /\ hostsOf = <<>> /\ receipt = [k \in CreateKeys |-> NoReceipt] /\ accepted = ApiKeys
      /\ handler = [c \in Handlers |-> Resting] /\ creation = [c \in Clients |-> Resting]
      /\ hostAdmin = 0 /\ expired = [k \in CreateKeys |-> 0]
  BY DEF SandboxInit, HostAccountsInit
<1>2. NoAccount \in AccountRow /\ NoAccount.isDefault = FALSE
  BY DEF NoAccount, AccountRow
<1>3. /\ RowsOK(account) /\ snapshot \in HostAccounts \union {NoValue}
      /\ snapshotsOf \subseteq HostAccounts /\ \A a \in snapshotsOf : HostExists(a)
  <2>1. CASE account = [a \in HostAccounts |-> NoAccount] /\ snapshot = NoValue /\ snapshotsOf = {}
    BY <1>2, <2>1 DEF RowsOK
  <2>2. ASSUME NEW a \in HostAccounts, NEW k \in ApiKeys,
               account = [x \in HostAccounts |-> IF x # a THEN NoAccount
                            ELSE [status |-> "active", isDefault |-> TRUE, key |-> k]],
               snapshot = a, snapshotsOf = {a}
        PROVE  /\ RowsOK(account) /\ snapshot \in HostAccounts \union {NoValue}
               /\ snapshotsOf \subseteq HostAccounts /\ \A b \in snapshotsOf : HostExists(b)
    <3> DEFINE new == [status |-> "active", isDefault |-> TRUE, key |-> k]
    <3>1. new \in AccountRow /\ new.status = "active"
      BY DEF AccountRow
    <3> HIDE DEF new
    <3>2. account = [x \in HostAccounts |-> IF x # a THEN NoAccount ELSE new]
      BY <2>2 DEF new
    <3>3. /\ account \in [HostAccounts -> AccountRow] /\ account[a] = new
          /\ \A x \in HostAccounts \ {a} : account[x] = NoAccount
      BY <1>2, <3>1, <3>2
    <3>4. \A x \in HostAccounts : account[x].isDefault = TRUE => x = a
      BY <1>2, <3>3
    <3>5. HostExists(a)
      BY <3>1, <3>3 DEF HostExists
    <3> QED BY <2>2, <3>1, <3>3, <3>4, <3>5 DEF RowsOK
  <2> QED BY <2>1, <2>2 DEF SandboxInit, HostAccountsInit
<1>4. HostAccountsTypeOK
  <2>1. hostsOf \in Seq(HostRows)
    BY <1>1
  <2>2. handler \in [Handlers -> HandlerStates] /\ creation \in [Clients -> CreationStates]
    BY <1>1 DEF HandlerStates, CreationStates
  <2> QED BY <1>1, <1>3, <2>1, <2>2, AccountsAssumption DEF HostAccountsTypeOK, RowsOK
<1>5. HostsHaveAccounts
  BY <1>1, <1>3 DEF HostsHaveAccounts
<1>6. ASSUME NEW k \in CreateKeys PROVE Counted(k)
  <2>1. MadeFor(k) = {}
    BY <1>1 DEF MadeFor
  <2>2. ~Known(k) /\ expired[k] = 0
    BY <1>1 DEF Known
  <2> QED BY <2>1, <2>2, FS_EmptySet DEF Counted
<1>7. \A d \in Clients : DriverOK(d)
  BY DEF SandboxInit, DriverOK
<1> QED BY <1>3, <1>4, <1>5, <1>6, <1>7 DEF SandboxInv, SandboxInit

-----------------------------------------------------------------------------
\* Steps of an administrator: only the rows, the handlers and the bounds change, and no
\* account of a host disappears.
AdminMoves ==
    /\ UNCHANGED <<hostsOf, receipt, creation, expired, sandboxVars>>
    /\ accepted' \subseteq ApiKeys /\ hostAdmin' \in 0..MaxAdmin /\ snapshot' \in HostAccounts \union {NoValue}
    /\ snapshotsOf' \subseteq HostAccounts /\ \A a \in snapshotsOf' : a \in snapshotsOf \/ HostExists(a)'
    /\ handler' \in [Handlers -> HandlerStates]

LEMMA AdminMovesKeep ==
    ASSUME SandboxInv, AdminMoves, RowsOK(account'),
           \A a \in HostAccounts : HostExists(a) /\ Referenced(a) => HostExists(a)'
    PROVE  SandboxInv'
<1>1. HostAccountsTypeOK'
  BY DEF SandboxInv, HostAccountsTypeOK, AdminMoves, RowsOK
<1>2. ASSUME NEW h \in 1..Len(hostsOf) PROVE HostExists(hostsOf[h].account)'
  <2>1. hostsOf[h] \in HostRows
    BY DEF SandboxInv, HostAccountsTypeOK
  <2>2. PICK a \in HostAccounts : a = hostsOf[h].account
    BY <2>1 DEF HostRows
  <2>3. HostExists(a) /\ Referenced(a)
    BY <2>2 DEF SandboxInv, HostsHaveAccounts, Referenced
  <2> QED BY <2>2, <2>3 DEF HostExists, AdminMoves
<1>3. HostsHaveAccounts'
  <2>1. \A a \in snapshotsOf : HostExists(a) /\ Referenced(a) /\ a \in HostAccounts
    BY DEF SandboxInv, HostsHaveAccounts, HostAccountsTypeOK, Referenced
  <2> QED BY <1>2, <2>1 DEF HostsHaveAccounts, AdminMoves
<1>4. \A k \in CreateKeys : Counted(k)'
  BY DEF SandboxInv, AdminMoves, Counted, MadeFor, Known
<1>5. \A d \in Clients : DriverOK(d)'
  BY DEF SandboxInv, AdminMoves, DriverOK, sandboxVars
<1> QED BY <1>1, <1>3, <1>4, <1>5 DEF SandboxInv, AdminMoves, sandboxVars

\* A request that only reads.
LEMMA BeginKeeps ==
    ASSUME SandboxInv, NEW c \in Handlers, NEW next \in HandlerStates, BeginRequest(c, next), UNCHANGED sandboxVars
    PROVE  SandboxInv'
<1>1. AdminMoves
  <2>1. HostAccountsTypeOK /\ UNCHANGED <<accepted, hostVars>>
    BY DEF BeginRequest, SandboxInv
  <2>2. hostAdmin' \in 0..MaxAdmin
    BY <2>1, AccountsAssumption DEF BeginRequest, HostAccountsTypeOK
  <2>3. handler' \in [Handlers -> HandlerStates]
    BY <2>1 DEF BeginRequest, HostAccountsTypeOK
  <2> QED BY <2>1, <2>2, <2>3 DEF AdminMoves, HostAccountsTypeOK, hostVars
<1>2. account' = account
  BY DEF BeginRequest
<1> QED BY <1>1, <1>2, AdminMovesKeep DEF SandboxInv, HostExists

LEMMA EndMoves ==
    ASSUME SandboxInv, NEW c \in Handlers, End(c), UNCHANGED sandboxVars PROVE AdminMoves
  BY DEF End, AdminMoves, SandboxInv, HostAccountsTypeOK, hostVars, HandlerStates

LEMMA ClearedFacts ==
    ASSUME RowsOK(account)
    PROVE  /\ RowsOK(Cleared)
           /\ \A a \in HostAccounts : Cleared[a].status = account[a].status /\ Cleared[a].isDefault = FALSE
                                      /\ Cleared[a].key = account[a].key
<1>1. ASSUME NEW a \in HostAccounts
      PROVE  /\ Cleared[a] \in AccountRow /\ Cleared[a].status = account[a].status /\ Cleared[a].isDefault = FALSE
             /\ Cleared[a].key = account[a].key
  <2> DEFINE old == account[a]
             new == [old EXCEPT !.isDefault = FALSE]
  <2>1. old \in AccountRow
    BY DEF RowsOK
  <2>2. new \in AccountRow /\ new.status = old.status /\ new.isDefault = FALSE /\ new.key = old.key
    BY <2>1 DEF AccountRow
  <2>3. Cleared[a] = new
    BY DEF Cleared
  <2> QED BY <2>2, <2>3
<1>2. Cleared \in [HostAccounts -> AccountRow]
  <2>1. Cleared = [a \in HostAccounts |-> Cleared[a]]
    BY DEF Cleared
  <2> QED BY <1>1, <2>1
<1> QED BY <1>1, <1>2 DEF RowsOK

\* A row is written over rows of which none is the default but it.
LEMMA RowWritten ==
    ASSUME NEW rows, RowsOK(rows), NEW a \in HostAccounts, NEW row \in AccountRow,
           row.isDefault = TRUE => row.status = "active",
           row.isDefault = TRUE => \A b \in HostAccounts \ {a} : rows[b].isDefault = FALSE
    PROVE  RowsOK([rows EXCEPT ![a] = row])
<1> DEFINE new == [rows EXCEPT ![a] = row]
<1>1. new \in [HostAccounts -> AccountRow] /\ new[a] = row /\ \A b \in HostAccounts \ {a} : new[b] = rows[b]
  BY DEF RowsOK
<1> HIDE DEF new
<1>2. \A b \in HostAccounts : new[b].isDefault = TRUE => new[b].status = "active"
  BY <1>1 DEF RowsOK
<1>3. ASSUME NEW b \in HostAccounts, NEW c \in HostAccounts, new[b].isDefault = TRUE, new[c].isDefault = TRUE PROVE b = c
  <2>1. CASE row.isDefault = TRUE
    <3>1. \A x \in HostAccounts \ {a} : new[x].isDefault = FALSE
      BY <1>1, <2>1
    <3> QED BY <1>3, <3>1
  <2>2. CASE row.isDefault # TRUE
    <3>1. b # a /\ c # a
      BY <1>1, <1>3, <2>2
    <3> QED BY <1>1, <1>3, <3>1 DEF RowsOK
  <2> QED BY <2>1, <2>2
<1> QED BY <1>1, <1>2, <1>3 DEF new, RowsOK

-----------------------------------------------------------------------------
\* The fields of what a handler has read.
LEMMA HandlerFields ==
    ASSUME NEW r \in HandlerStates
    PROVE  /\ r.at # "idle" => r.a \in HostAccounts
           /\ r.at = "insert" => r.key \in ApiKeys /\ r.isDefault \in BOOLEAN
           /\ r.at = "update" => r.isDefault \in Options /\ r.on \in Options
           /\ r.at \in {"replace", "verify"} => r.key \in ApiKeys \union {NoValue}
           /\ r.at = "mark" => r.valid \in BOOLEAN
  BY DEF HandlerStates, Resting

LEMMA InsertKeeps == ASSUME SandboxInv, NEW c \in Handlers, InsertAccount(c), UNCHANGED sandboxVars PROVE SandboxInv'
<1>1. AdminMoves /\ handler[c] \in HandlerStates /\ handler[c].at = "insert" /\ RowsOK(account)
  BY EndMoves DEF InsertAccount, SandboxInv, HostAccountsTypeOK
<1>2. PICK a \in HostAccounts : a = handler[c].a
  BY <1>1, HandlerFields
<1>3. PICK d \in BOOLEAN : d = (handler[c].isDefault \/ \A x \in HostAccounts : ~HostExists(x))
  OBVIOUS
<1> DEFINE row == [status |-> "active", isDefault |-> d, key |-> handler[c].key]
           rows == IF d THEN Cleared ELSE account
<1>4. account' = [rows EXCEPT ![a] = row]
  BY <1>2, <1>3 DEF InsertAccount
<1>5. row \in AccountRow /\ row.status = "active" /\ row.isDefault = d
  BY <1>1, HandlerFields DEF AccountRow
<1>6. /\ RowsOK(rows) /\ \A b \in HostAccounts : rows[b].status = account[b].status
      /\ d = TRUE => \A b \in HostAccounts : rows[b].isDefault = FALSE
  <2>1. CASE d = TRUE
    BY <1>1, <2>1, ClearedFacts
  <2>2. CASE d = FALSE
    BY <1>1, <2>2
  <2> QED BY <2>1, <2>2
<1> HIDE DEF rows, row
<1>7. RowsOK(account')
  BY <1>4, <1>5, <1>6, RowWritten
<1>8. \A b \in HostAccounts : HostExists(b) => HostExists(b)'
  BY <1>4, <1>5, <1>6 DEF RowsOK, HostExists
<1> QED BY <1>1, <1>7, <1>8, AdminMovesKeep

LEMMA UpdateAccountKeeps ==
    ASSUME SandboxInv, NEW c \in Handlers, UpdateHostAccount(c), UNCHANGED sandboxVars PROVE SandboxInv'
<1>1. AdminMoves /\ handler[c] \in HandlerStates /\ handler[c].at = "update" /\ RowsOK(account)
  BY EndMoves DEF UpdateHostAccount, SandboxInv, HostAccountsTypeOK
<1>2. PICK a \in HostAccounts : a = handler[c].a
  BY <1>1, HandlerFields
<1>3. PICK d \in Options, on \in Options : d = handler[c].isDefault /\ on = handler[c].on
  BY <1>1, HandlerFields
<1> DEFINE base == IF d = TRUE THEN Cleared ELSE account
           row  == Updated(base[a], d, on)
<1>4. \/ account' = base
      \/ account' = account
      \/ HostExists(a) /\ DefaultActive(row) /\ account' = [base EXCEPT ![a] = row]
  BY <1>2, <1>3 DEF UpdateHostAccount
<1>5. /\ RowsOK(base) /\ \A b \in HostAccounts : base[b].status = account[b].status
      /\ d = TRUE => \A b \in HostAccounts : base[b].isDefault = FALSE
  <2>1. CASE d = TRUE
    BY <1>1, <2>1, ClearedFacts
  <2>2. CASE d # TRUE
    BY <1>1, <2>2
  <2> QED BY <2>1, <2>2
<1> HIDE DEF base
<1>6. CASE account' = base
  BY <1>1, <1>5, <1>6, AdminMovesKeep DEF HostExists
<1>7. CASE account' = account
  BY <1>1, <1>7, AdminMovesKeep DEF HostExists
<1>8. CASE HostExists(a) /\ DefaultActive(row) /\ account' = [base EXCEPT ![a] = row]
  <2>0. base[a] \in AccountRow /\ base[a].status # "none"
    BY <1>5, <1>8 DEF RowsOK, HostExists
  <2>1. /\ row.isDefault = IF d = NoValue THEN base[a].isDefault ELSE d
        /\ row.status = IF on = TRUE THEN "active" ELSE IF on = FALSE THEN "disabled" ELSE base[a].status
        /\ row.key = base[a].key
        /\ row = [isDefault |-> row.isDefault, key |-> row.key, status |-> row.status]
    BY DEF Updated
  <2>2. row.isDefault \in BOOLEAN
    <3>1. d \in {TRUE, FALSE} \/ d = NoValue
      BY DEF Options
    <3>2. base[a].isDefault \in BOOLEAN
      BY <2>0 DEF AccountRow
    <3> QED BY <2>1, <3>1, <3>2
  <2>3. row.status \in {"active", "disabled", base[a].status} /\ row.status # "none"
    BY <2>0, <2>1
  <2>4. row \in AccountRow
    BY <2>0, <2>1, <2>2, <2>3 DEF AccountRow
  <2>5. row.isDefault = TRUE => row.status = "active"
    BY <1>8, <2>2 DEF DefaultActive
  <2>6. row.isDefault = TRUE => \A b \in HostAccounts \ {a} : base[b].isDefault = FALSE
    <3>1. CASE d = TRUE
      BY <1>5, <3>1
    <3>2. CASE d # TRUE /\ row.isDefault = TRUE
      <4>1. base[a].isDefault = TRUE
        BY <2>1, <3>2
      <4>2. \A b \in HostAccounts : base[b].isDefault \in BOOLEAN
        BY <1>5 DEF RowsOK, AccountRow
      <4> QED BY <1>5, <4>1, <4>2 DEF RowsOK
    <3> QED BY <3>1, <3>2
  <2> HIDE DEF row
  <2>7. RowsOK(account')
    BY <1>5, <1>8, <2>4, <2>5, <2>6, RowWritten
  <2>8. \A b \in HostAccounts : HostExists(b) => HostExists(b)'
    BY <1>5, <1>8, <2>3 DEF RowsOK, HostExists
  <2> QED BY <1>1, <2>7, <2>8, AdminMovesKeep
<1> QED BY <1>4, <1>6, <1>7, <1>8

LEMMA ReplaceKeyKeeps == ASSUME SandboxInv, NEW c \in Handlers, ReplaceKey(c), UNCHANGED sandboxVars PROVE SandboxInv'
<1>1. AdminMoves /\ handler[c] \in HandlerStates /\ handler[c].at = "replace" /\ RowsOK(account)
  BY EndMoves DEF ReplaceKey, SandboxInv, HostAccountsTypeOK
<1>2. PICK a \in HostAccounts : a = handler[c].a
  BY <1>1, HandlerFields
<1> DEFINE row == [status |-> "active", isDefault |-> account[a].isDefault, key |-> handler[c].key]
<1>3. account' = account \/ account' = [account EXCEPT ![a] = row]
  BY <1>2 DEF ReplaceKey
<1>4. account[a].isDefault \in BOOLEAN
  BY <1>1 DEF RowsOK, AccountRow
<1>5. row \in AccountRow /\ row.status = "active" /\ row.isDefault = account[a].isDefault
  BY <1>1, <1>4, HandlerFields DEF AccountRow
<1> HIDE DEF row
<1>6. row.isDefault = TRUE => \A b \in HostAccounts \ {a} : account[b].isDefault = FALSE
  BY <1>1, <1>5 DEF RowsOK, AccountRow
<1>7. RowsOK(account')
  <2>1. row.isDefault = TRUE => row.status = "active"
    BY <1>5
  <2>2. RowsOK([account EXCEPT ![a] = row])
    BY <1>1, <1>5, <1>6, <2>1, RowWritten
  <2> QED BY <1>1, <1>3, <2>2
<1>8. \A b \in HostAccounts : HostExists(b) => HostExists(b)'
  BY <1>1, <1>3, <1>5 DEF RowsOK, HostExists
<1> QED BY <1>1, <1>7, <1>8, AdminMovesKeep

LEMMA MarkKeeps == ASSUME SandboxInv, NEW c \in Handlers, Mark(c), UNCHANGED sandboxVars PROVE SandboxInv'
<1>1. AdminMoves /\ handler[c] \in HandlerStates /\ handler[c].at = "mark" /\ RowsOK(account)
  BY EndMoves DEF Mark, SandboxInv, HostAccountsTypeOK
<1>2. PICK a \in HostAccounts : a = handler[c].a
  BY <1>1, HandlerFields
<1>3. PICK v \in BOOLEAN : v = handler[c].valid
  BY <1>1, HandlerFields
<1> DEFINE row == [isDefault |-> account[a].isDefault /\ v, key |-> account[a].key,
                   status |-> IF ~v THEN "invalid" ELSE IF account[a].status = "disabled" THEN "disabled" ELSE "active"]
<1>4. account' = account \/ account' = [account EXCEPT ![a] = row]
  BY <1>2, <1>3 DEF Mark
<1>5. account[a].isDefault \in BOOLEAN /\ account[a].key \in ApiKeys \union {NoValue}
  BY <1>1 DEF RowsOK, AccountRow
<1>6. /\ row \in AccountRow /\ row.status # "none"
      /\ row.isDefault = TRUE => v = TRUE /\ account[a].isDefault = TRUE
      /\ v = TRUE /\ account[a].status # "disabled" => row.status = "active"
  <2>1. CASE v = TRUE
    BY <1>5, <2>1 DEF AccountRow
  <2>2. CASE v = FALSE
    BY <1>5, <2>2 DEF AccountRow
  <2> QED BY <2>1, <2>2
<1> HIDE DEF row
<1>7. row.isDefault = TRUE => row.status = "active"
  BY <1>1, <1>6 DEF RowsOK
<1>8. row.isDefault = TRUE => \A b \in HostAccounts \ {a} : account[b].isDefault = FALSE
  BY <1>1, <1>6 DEF RowsOK, AccountRow
<1>9. RowsOK(account')
  <2>1. RowsOK([account EXCEPT ![a] = row])
    BY <1>1, <1>6, <1>7, <1>8, RowWritten
  <2> QED BY <1>1, <1>4, <2>1
<1>10. \A b \in HostAccounts : HostExists(b) => HostExists(b)'
  BY <1>1, <1>4, <1>6 DEF RowsOK, HostExists
<1> QED BY <1>1, <1>9, <1>10, AdminMovesKeep

LEMMA DeleteKeeps == ASSUME SandboxInv, NEW c \in Handlers, DeleteAccount(c), UNCHANGED sandboxVars PROVE SandboxInv'
<1>1. AdminMoves /\ handler[c] \in HandlerStates /\ handler[c].at = "delete" /\ RowsOK(account)
  BY EndMoves DEF DeleteAccount, SandboxInv, HostAccountsTypeOK
<1>2. PICK a \in HostAccounts : a = handler[c].a
  BY <1>1, HandlerFields
<1>3. account' = IF Referenced(a) THEN account ELSE [account EXCEPT ![a] = NoAccount]
  BY <1>2 DEF DeleteAccount
<1>4. NoAccount \in AccountRow /\ NoAccount.isDefault = FALSE
  BY DEF NoAccount, AccountRow
<1>5. RowsOK(account')
  BY <1>1, <1>3, <1>4, RowWritten
<1>6. \A b \in HostAccounts : HostExists(b) /\ Referenced(b) => HostExists(b)'
  BY <1>1, <1>3 DEF RowsOK, HostExists
<1> QED BY <1>1, <1>5, <1>6, AdminMovesKeep

LEMMA VerifiedKeeps == ASSUME SandboxInv, NEW c \in Handlers, Verified(c), UNCHANGED sandboxVars PROVE SandboxInv'
<1>1. handler[c] \in HandlerStates /\ handler[c].at = "verify" /\ RowsOK(account) /\ HostAccountsTypeOK
  BY DEF Verified, SandboxInv, HostAccountsTypeOK
<1> DEFINE next == [at |-> "mark", a |-> handler[c].a, valid |-> handler[c].key \in accepted]
<1>2. next \in HandlerStates
  <2>1. (handler[c].key \in accepted) \in BOOLEAN /\ handler[c].a \in HostAccounts
    BY <1>1, HandlerFields
  <2>2. next \in [at : {"mark"}, a : HostAccounts, valid : BOOLEAN]
    BY <2>1
  <2> QED BY <2>2 DEF HandlerStates
<1>3. handler' = [handler EXCEPT ![c] = next] /\ UNCHANGED <<account, accepted, hostAdmin, hostVars>>
  BY DEF Verified
<1> HIDE DEF next
<1>4. AdminMoves
  BY <1>1, <1>2, <1>3 DEF AdminMoves, HostAccountsTypeOK, hostVars
<1> QED BY <1>1, <1>3, <1>4, AdminMovesKeep DEF HostExists

LEMMA RevokeKeeps ==
    ASSUME SandboxInv, (\E k \in ApiKeys : RevokeKey(k)) \/ (\E a \in HostAccounts \union {NoValue} : SnapshotChanges(a)),
           UNCHANGED sandboxVars
    PROVE  SandboxInv'
<1>1. HostAccountsTypeOK /\ RowsOK(account)
  BY DEF SandboxInv
<1>2. hostAdmin < MaxAdmin /\ hostAdmin' = hostAdmin + 1 /\ UNCHANGED <<account, handler, hostsOf, receipt, creation, expired>>
  BY DEF RevokeKey, SnapshotChanges, hostVars
<1>3. /\ accepted' \subseteq ApiKeys /\ snapshot' \in HostAccounts \union {NoValue}
      /\ snapshotsOf' \subseteq HostAccounts /\ \A a \in snapshotsOf' : a \in snapshotsOf \/ HostExists(a)
  BY <1>1 DEF RevokeKey, SnapshotChanges, hostVars, HostAccountsTypeOK
<1>4. hostAdmin' \in 0..MaxAdmin
  BY <1>1, <1>2, AccountsAssumption DEF HostAccountsTypeOK
<1>5. AdminMoves
  BY <1>1, <1>2, <1>3, <1>4 DEF AdminMoves, HostAccountsTypeOK, HostExists
<1> QED BY <1>1, <1>2, <1>5, AdminMovesKeep DEF HostExists

LEMMA HostAdminKeeps == ASSUME SandboxInv, HostAdminStep, UNCHANGED sandboxVars PROVE SandboxInv'
<1>1. HostAccountsTypeOK /\ \A a \in HostAccounts : account[a].key \in ApiKeys \union {NoValue}
  BY DEF SandboxInv, RowsOK, AccountRow
<1>2. ASSUME NEW c \in Handlers, NEW a \in HostAccounts, NEW k \in ApiKeys, AskAboutKey(c, a, k) PROVE SandboxInv'
  <2>1. [at |-> "replace", a |-> a, key |-> k] \in HandlerStates
    BY DEF HandlerStates
  <2> QED BY <1>2, <2>1, BeginKeeps DEF AskAboutKey
<1>3. ASSUME NEW c \in Handlers, NEW a \in HostAccounts, NEW k \in ApiKeys, NEW d \in BOOLEAN, NewHostAccount(c, a, k, d)
      PROVE  SandboxInv'
  <2>1. [at |-> "insert", a |-> a, key |-> k, isDefault |-> d] \in HandlerStates
    BY DEF HandlerStates
  <2> QED BY <1>3, <2>1, BeginKeeps DEF NewHostAccount
<1>4. ASSUME NEW c \in Handlers, NEW a \in HostAccounts, NEW d \in Options, NEW on \in Options, ReadForUpdate(c, a, d, on)
      PROVE  SandboxInv'
  <2>1. [at |-> "update", a |-> a, isDefault |-> d, on |-> on] \in HandlerStates
    BY DEF HandlerStates
  <2> QED BY <1>4, <2>1, BeginKeeps DEF ReadForUpdate
<1>5. ASSUME NEW c \in Handlers, NEW a \in HostAccounts, ReadForVerify(c, a) PROVE SandboxInv'
  <2>1. [at |-> "verify", a |-> a, key |-> account[a].key] \in HandlerStates
    BY <1>1 DEF HandlerStates
  <2> QED BY <1>5, <2>1, BeginKeeps DEF ReadForVerify
<1>6. ASSUME NEW c \in Handlers, NEW a \in HostAccounts, CheckReferences(c, a) PROVE SandboxInv'
  <2>1. [at |-> "delete", a |-> a] \in HandlerStates
    BY DEF HandlerStates
  <2> QED BY <1>6, <2>1, BeginKeeps DEF CheckReferences
<1> QED BY <1>2, <1>3, <1>4, <1>5, <1>6, InsertKeeps, UpdateAccountKeeps, ReplaceKeyKeeps, VerifiedKeeps, MarkKeeps,
           DeleteKeeps, RevokeKeeps DEF HostAdminStep

-----------------------------------------------------------------------------
\* Creation of a host.
LEMMA CreationFields ==
    ASSUME NEW r \in CreationStates
    PROVE  /\ r.at \in {"pick", "require", "insert"} => r.key \in CreateKeys /\ r.body \in Bodies
           /\ r.at \in {"require", "insert"} => r.a \in HostAccounts
           /\ r.at = "answered" => r.host \in Nat \ {0}
  BY DEF CreationStates, Resting

LEMMA SmallStates == [at |-> "refused"] \in CreationStates /\ \A h \in Nat \ {0} : [at |-> "answered", host |-> h] \in CreationStates
  BY DEF CreationStates

\* A request goes on; no host is created.
LEMMA AnswerKeeps ==
    ASSUME SandboxInv, NEW c \in Clients, NEW next \in CreationStates, AnswerRequest(c, next), UNCHANGED <<hostsOf, receipt>>,
           served' = served, target' = target, DOMAIN driver' = Clients, \A d \in Clients : DriverOK(d)'
    PROVE  SandboxInv'
<1>1. HostAccountsTypeOK /\ UNCHANGED <<account, accepted, handler, hostAdmin, snapshot, snapshotsOf, expired>>
  BY DEF SandboxInv, AnswerRequest, acctVars
<1>2. creation' \in [Clients -> CreationStates]
  BY <1>1 DEF HostAccountsTypeOK, AnswerRequest
<1>3. HostAccountsTypeOK'
  BY <1>1, <1>2 DEF HostAccountsTypeOK
<1>4. RowsOK(account)' /\ HostsHaveAccounts'
  BY <1>1 DEF SandboxInv, HostsHaveAccounts, HostExists
<1>5. \A k \in CreateKeys : Counted(k)'
  BY <1>1 DEF SandboxInv, Counted, MadeFor, Known
<1> QED BY <1>3, <1>4, <1>5 DEF SandboxInv

LEMMA PickKeeps == ASSUME SandboxInv, NEW c \in Clients, PickAccount(c), UNCHANGED sandboxVars PROVE SandboxInv'
<1>1. creation[c] \in CreationStates /\ creation[c].at = "pick" /\ HostAccountsTypeOK
  BY DEF SandboxInv, PickAccount, HostAccountsTypeOK
<1>2. creation[c].key \in CreateKeys /\ creation[c].body \in Bodies
  BY <1>1, CreationFields
<1> DEFINE S == Picked(creation[c].body)
           next == IF S = {} THEN [at |-> "refused"]
                   ELSE [at |-> "require", key |-> creation[c].key, body |-> creation[c].body,
                         a |-> CHOOSE a \in S : TRUE]
<1>3. S \subseteq HostAccounts
  BY <1>1, <1>2 DEF Picked, Bodies, HostAccountsTypeOK
<1>4. next \in CreationStates
  <2>1. CASE S = {}
    BY <2>1, SmallStates
  <2>2. CASE S # {}
    <3> HIDE DEF S
    <3>1. (CHOOSE a \in S : TRUE) \in HostAccounts
      BY <1>3, <2>2
    <3> QED BY <1>2, <2>2, <3>1 DEF CreationStates
  <2> QED BY <2>1, <2>2
<1>5. AnswerRequest(c, next) /\ UNCHANGED <<hostsOf, receipt>>
  BY DEF PickAccount
<1> HIDE DEF next
<1>6. \A d \in Clients : DriverOK(d)'
  BY DEF SandboxInv, DriverOK, sandboxVars
<1>7. served' = served /\ target' = target /\ DOMAIN driver' = Clients
  BY DEF SandboxInv, sandboxVars
<1> QED BY <1>4, <1>5, <1>6, <1>7, AnswerKeeps

LEMMA RequireKeeps == ASSUME SandboxInv, NEW c \in Clients, RequireActive(c), UNCHANGED sandboxVars PROVE SandboxInv'
<1>1. creation[c] \in CreationStates /\ creation[c].at = "require" /\ HostAccountsTypeOK
  BY DEF SandboxInv, RequireActive, HostAccountsTypeOK
<1>2. creation[c].key \in CreateKeys /\ creation[c].body \in Bodies /\ creation[c].a \in HostAccounts
  BY <1>1, CreationFields
<1>3. PICK next \in CreationStates : AnswerRequest(c, next)
  <2> DEFINE goes == [at |-> "insert", key |-> creation[c].key, body |-> creation[c].body, a |-> creation[c].a]
  <2>1. goes \in CreationStates
    BY <1>2 DEF CreationStates
  <2>2. AnswerRequest(c, [at |-> "refused"]) \/ AnswerRequest(c, goes)
    BY DEF RequireActive
  <2> HIDE DEF goes
  <2> QED BY <2>1, <2>2, SmallStates
<1>4. UNCHANGED <<hostsOf, receipt>>
  BY DEF RequireActive
<1>5. \A d \in Clients : DriverOK(d)'
  BY DEF SandboxInv, DriverOK, sandboxVars
<1>6. served' = served /\ target' = target /\ DOMAIN driver' = Clients
  BY DEF SandboxInv, sandboxVars
<1> QED BY <1>3, <1>4, <1>5, <1>6, AnswerKeeps

\* A host is added for key k, which has no record.
LEMMA HostAdded ==
    ASSUME SandboxInv, NEW k \in CreateKeys, ~Known(k), NEW a \in HostAccounts, HostExists(a), NEW b \in Bodies,
           hostsOf' = Append(hostsOf, [account |-> a, key |-> k]),
           receipt' = [receipt EXCEPT ![k] = [body |-> b, host |-> Len(hostsOf) + 1]],
           UNCHANGED <<account, expired, snapshotsOf>>
    PROVE  /\ hostsOf' \in Seq(HostRows)
           /\ receipt' \in [CreateKeys -> {NoReceipt} \union [body : Bodies, host : Nat \ {0}]]
           /\ HostsHaveAccounts'
           /\ \A j \in CreateKeys : Counted(j)'
<1> DEFINE new == [account |-> a, key |-> k]
           n == Len(hostsOf) + 1
           rec == [body |-> b, host |-> n]
<1>1. hostsOf \in Seq(HostRows) /\ receipt \in [CreateKeys -> {NoReceipt} \union [body : Bodies, host : Nat \ {0}]]
      /\ expired \in [CreateKeys -> Nat]
  BY AccountsAssumption DEF SandboxInv, HostAccountsTypeOK
<1>2. new \in HostRows /\ new.account = a /\ new.key = k
  BY DEF HostRows
<1>3. n \in Nat \ {0} /\ Len(hostsOf) \in Nat
  BY <1>1
<1> HIDE DEF new
<1>4. /\ hostsOf' \in Seq(HostRows) /\ Len(hostsOf') = n /\ hostsOf'[n] = new
      /\ \A h \in 1..Len(hostsOf) : hostsOf'[h] = hostsOf[h]
  BY <1>1, <1>2 DEF new
<1>5. 1..n = (1..Len(hostsOf)) \cup {n} /\ n \notin 1..Len(hostsOf)
  BY <1>3
<1>6. rec \in [body : Bodies, host : Nat \ {0}] /\ rec # NoReceipt
  <2>1. rec.host = n /\ NoReceipt.host = 0
    BY DEF NoReceipt
  <2> QED BY <1>3, <2>1
<1> HIDE DEF n, rec
<1>7. receipt' = [receipt EXCEPT ![k] = rec]
  BY DEF rec, n
<1>8. /\ receipt' \in [CreateKeys -> {NoReceipt} \union [body : Bodies, host : Nat \ {0}]]
      /\ receipt'[k] = rec /\ \A j \in CreateKeys \ {k} : receipt'[j] = receipt[j]
  BY <1>1, <1>6, <1>7
<1>9. HostsHaveAccounts'
  <2>1. \A h \in 1..n : HostExists(hostsOf'[h].account)
    BY <1>2, <1>4, <1>5 DEF SandboxInv, HostsHaveAccounts
  <2> QED BY <1>4, <2>1 DEF HostsHaveAccounts, HostExists, SandboxInv
<1>10. ASSUME NEW j \in CreateKeys PROVE Counted(j)'
  <2>1. Counted(j) /\ expired'[j] = expired[j] /\ expired[j] \in Nat
    BY <1>1 DEF SandboxInv
  <2>2. CASE j = k
    <3>1. MadeFor(j)' = MadeFor(j) \cup {n} /\ n \notin MadeFor(j)
      BY <1>2, <1>4, <1>5, <2>2 DEF MadeFor
    <3>2. IsFiniteSet(MadeFor(j)') /\ Cardinality(MadeFor(j)') = Cardinality(MadeFor(j)) + 1
      BY <2>1, <3>1, FS_AddElement DEF Counted
    <3>3. Known(j)' /\ ~Known(j)
      BY <1>6, <1>8, <2>2 DEF Known
    <3> QED BY <2>1, <3>2, <3>3 DEF Counted
  <2>3. CASE j # k
    <3>1. MadeFor(j)' = MadeFor(j)
      BY <1>2, <1>4, <1>5, <2>3 DEF MadeFor
    <3>2. Known(j)' <=> Known(j)
      BY <1>8, <2>3 DEF Known
    <3> QED BY <2>1, <3>1, <3>2 DEF Counted
  <2> QED BY <2>2, <2>3
<1> QED BY <1>4, <1>8, <1>9, <1>10

LEMMA InsertHostKeeps == ASSUME SandboxInv, NEW c \in Clients, InsertHost(c), UNCHANGED sandboxVars PROVE SandboxInv'
<1>1. creation[c] \in CreationStates /\ creation[c].at = "insert" /\ HostAccountsTypeOK
  BY DEF SandboxInv, InsertHost, HostAccountsTypeOK
<1>2. PICK k \in CreateKeys, b \in Bodies, a \in HostAccounts : k = creation[c].key /\ b = creation[c].body /\ a = creation[c].a
  BY <1>1, CreationFields
<1>3. \A d \in Clients : DriverOK(d)'
  BY DEF SandboxInv, DriverOK, sandboxVars
<1>4. served' = served /\ target' = target /\ DOMAIN driver' = Clients
  BY DEF SandboxInv, sandboxVars
<1>5. CASE UNCHANGED <<hostsOf, receipt>> /\ (Known(k) \/ ~HostExists(a))
  <2>1. PICK next \in CreationStates : AnswerRequest(c, next)
    <3>1. CASE Known(k)
      <4>1. receipt[k] \in [body : Bodies, host : Nat \ {0}]
        BY <1>1, <3>1 DEF HostAccountsTypeOK, Known
      <4>2. receipt[k].host \in Nat \ {0}
        BY <4>1
      <4>3. AnswerRequest(c, [at |-> "refused"]) \/ AnswerRequest(c, [at |-> "answered", host |-> receipt[k].host])
        BY <1>2, <3>1 DEF InsertHost
      <4> QED BY <4>2, <4>3, SmallStates
    <3>2. CASE ~Known(k)
      <4>1. AnswerRequest(c, [at |-> "refused"])
        BY <1>2, <1>5, <3>2 DEF InsertHost
      <4> QED BY <4>1, SmallStates
    <3> QED BY <3>1, <3>2
  <2> QED BY <1>3, <1>4, <1>5, <2>1, AnswerKeeps
<1>6. CASE ~Known(k) /\ HostExists(a)
  <2>1. /\ hostsOf' = Append(hostsOf, [account |-> a, key |-> k])
        /\ receipt' = [receipt EXCEPT ![k] = [body |-> b, host |-> Len(hostsOf) + 1]]
        /\ AnswerRequest(c, [at |-> "answered", host |-> Len(hostsOf) + 1])
    BY <1>2, <1>6 DEF InsertHost
  <2>2. UNCHANGED <<account, accepted, handler, hostAdmin, snapshot, snapshotsOf, expired>>
    BY <2>1 DEF AnswerRequest, acctVars
  <2>3. /\ hostsOf' \in Seq(HostRows)
        /\ receipt' \in [CreateKeys -> {NoReceipt} \union [body : Bodies, host : Nat \ {0}]]
        /\ HostsHaveAccounts'
        /\ \A j \in CreateKeys : Counted(j)'
    BY <1>6, <2>1, <2>2, HostAdded
  <2>4. Len(hostsOf) + 1 \in Nat \ {0}
    BY <1>1 DEF HostAccountsTypeOK
  <2>5. creation' \in [Clients -> CreationStates]
    <3> DEFINE ans == [at |-> "answered", host |-> Len(hostsOf) + 1]
    <3>1. ans \in CreationStates /\ creation' = [creation EXCEPT ![c] = ans]
      BY <2>1, <2>4, SmallStates DEF AnswerRequest
    <3> HIDE DEF ans
    <3> QED BY <1>1, <3>1 DEF HostAccountsTypeOK
  <2>6. HostAccountsTypeOK'
    BY <1>1, <2>2, <2>3, <2>5 DEF HostAccountsTypeOK
  <2>7. RowsOK(account)'
    BY <2>2 DEF SandboxInv
  <2> QED BY <1>3, <1>4, <2>3, <2>6, <2>7 DEF SandboxInv
<1>7. Known(k) \/ ~HostExists(a) => UNCHANGED <<hostsOf, receipt>>
  BY <1>2 DEF InsertHost
<1> QED BY <1>5, <1>6, <1>7

LEMMA ExpireKeeps == ASSUME SandboxInv, NEW k \in CreateKeys, ExpireReceipt(k), UNCHANGED sandboxVars PROVE SandboxInv'
<1>1. HostAccountsTypeOK /\ UNCHANGED <<account, accepted, handler, hostAdmin, hostsOf, snapshot, snapshotsOf, creation>>
  BY DEF SandboxInv, ExpireReceipt, acctVars
<1>2. /\ Known(k) /\ expired[k] < MaxExpiries /\ receipt' = [receipt EXCEPT ![k] = NoReceipt]
      /\ expired' = [expired EXCEPT ![k] = expired[k] + 1] /\ expired \in [CreateKeys -> 0..MaxExpiries]
  BY <1>1 DEF ExpireReceipt, HostAccountsTypeOK
<1>3. /\ expired' \in [CreateKeys -> 0..MaxExpiries] /\ expired'[k] = expired[k] + 1
      /\ \A j \in CreateKeys \ {k} : expired'[j] = expired[j]
  BY <1>2, AccountsAssumption
<1>4. /\ receipt' \in [CreateKeys -> {NoReceipt} \union [body : Bodies, host : Nat \ {0}]]
      /\ receipt'[k] = NoReceipt /\ \A j \in CreateKeys \ {k} : receipt'[j] = receipt[j]
  BY <1>1, <1>2 DEF HostAccountsTypeOK
<1>5. HostAccountsTypeOK'
  BY <1>1, <1>3, <1>4 DEF HostAccountsTypeOK
<1>6. ASSUME NEW j \in CreateKeys PROVE Counted(j)'
  <2>1. Counted(j) /\ MadeFor(j)' = MadeFor(j)
    BY <1>1 DEF SandboxInv, MadeFor
  <2>2. CASE j = k
    BY <1>2, <1>3, <1>4, <2>1, <2>2 DEF Counted, Known
  <2>3. CASE j # k
    BY <1>3, <1>4, <2>1, <2>3 DEF Counted, Known
  <2> QED BY <2>2, <2>3
<1>7. RowsOK(account)' /\ HostsHaveAccounts'
  BY <1>1 DEF SandboxInv, HostsHaveAccounts, HostExists
<1>8. \A d \in Clients : DriverOK(d)'
  BY DEF SandboxInv, DriverOK, sandboxVars
<1> QED BY <1>5, <1>6, <1>7, <1>8 DEF SandboxInv, sandboxVars

-----------------------------------------------------------------------------
\* A driver moves; the gateway does nothing.
LEMMA DriverKeeps ==
    ASSUME SandboxInv, UNCHANGED <<served, acctVars, hostVars>>, DOMAIN driver' = Clients, DOMAIN target' = Sessions,
           \A d \in Clients : DriverOK(d)'
    PROVE  SandboxInv'
<1>1. HostAccountsTypeOK' /\ RowsOK(account)' /\ HostsHaveAccounts'
  BY DEF SandboxInv, HostAccountsTypeOK, HostsHaveAccounts, HostExists, acctVars, hostVars
<1>2. \A k \in CreateKeys : Counted(k)'
  BY DEF SandboxInv, Counted, MadeFor, Known, hostVars
<1> QED BY <1>1, <1>2 DEF SandboxInv

LEMMA MovesFacts ==
    ASSUME SandboxInv, NEW d \in Clients, NEW next, Moves(d, next)
    PROVE  DOMAIN driver' = Clients /\ driver'[d] = next /\ \A e \in Clients \ {d} : driver'[e] = driver[e]
  BY DEF SandboxInv, Moves

\* A driver that moves to a state without a host.
LEMMA PlainMove ==
    ASSUME SandboxInv, NEW d \in Clients, NEW at, at \notin {"commit", "ready", "create"},
           Moves(d, [at |-> at]), UNCHANGED <<served, target>>
    PROVE  \A e \in Clients : DriverOK(e)'
<1>1. driver'[d].at = at /\ \A e \in Clients \ {d} : driver'[e] = driver[e]
  BY MovesFacts
<1> QED BY <1>1 DEF SandboxInv, DriverOK

LEMMA ActivateKeeps == ASSUME SandboxInv, NEW d \in Clients, Activate(d) PROVE SandboxInv'
<1>1. Moves(d, [at |-> "resolve"]) /\ UNCHANGED <<served, target, acctVars, hostVars>>
  BY DEF Activate
<1>2. \A e \in Clients : DriverOK(e)'
  BY <1>1, PlainMove
<1>3. DOMAIN driver' = Clients /\ DOMAIN target' = Sessions
  BY <1>1, MovesFacts DEF SandboxInv
<1> QED BY <1>1, <1>2, <1>3, DriverKeeps

LEMMA ReadTargetKeeps == ASSUME SandboxInv, NEW d \in Clients, ReadTarget(d) PROVE SandboxInv'
<1>1. PICK next :
        /\ Moves(d, next)
        /\ next = IF target[served] # NoValue THEN [at |-> "ready", host |-> target[served]]
                  ELSE IF Environment[served] = Machine THEN [at |-> "commit", host |-> Machine]
                  ELSE [at |-> "create"]
  BY DEF ReadTarget, Mine
<1>2. UNCHANGED <<served, target, acctVars, hostVars>>
  BY DEF ReadTarget
<1>3. DOMAIN driver' = Clients /\ driver'[d] = next /\ \A e \in Clients \ {d} : driver'[e] = driver[e]
  BY <1>1, MovesFacts
<1>4. /\ next.at \in {"commit", "ready"} => next.host # NoValue
      /\ next.at = "ready" => next.host = target[served]
      /\ next.at = "create" => Environment[served] # Machine
  BY <1>1, SessionsAssumption DEF Machine
<1>5. \A e \in Clients : DriverOK(e)'
  BY <1>2, <1>3, <1>4 DEF SandboxInv, DriverOK
<1> QED BY <1>2, <1>3, <1>5, DriverKeeps DEF SandboxInv

LEMMA RequestHostKeeps == ASSUME SandboxInv, NEW d \in Clients, RequestHost(d) PROVE SandboxInv'
<1>1. /\ driver[d].at = "create" /\ Moves(d, [at |-> "asked"]) /\ UNCHANGED <<served, target, leases>>
      /\ AnswerRequest(d, [at |-> "pick", key |-> served, body |-> Environment[served]]) /\ UNCHANGED <<hostsOf, receipt>>
  BY DEF RequestHost, Ask, SessionKey, Mine
<1>2. served \in CreateKeys /\ Environment[served] \in Bodies
  BY <1>1, SessionsAssumption DEF SandboxInv, DriverOK, Bodies, Machine
<1>3. [at |-> "pick", key |-> served, body |-> Environment[served]] \in CreationStates
  BY <1>2 DEF CreationStates
<1>4. \A e \in Clients : DriverOK(e)'
  BY <1>1, PlainMove
<1>5. DOMAIN driver' = Clients
  BY <1>1, MovesFacts
<1> QED BY <1>1, <1>3, <1>4, <1>5, AnswerKeeps

LEMMA ReplyKeeps == ASSUME SandboxInv, NEW d \in Clients, Reply(d) PROVE SandboxInv'
<1>1. UNCHANGED <<served, target, leases, acctVars, hostVars>>
  BY DEF Reply
<1>2. CASE Moves(d, [at |-> "failed"]) \/ Moves(d, [at |-> "gone"])
  <2>1. \A e \in Clients : DriverOK(e)'
    BY <1>1, <1>2, PlainMove
  <2>2. DOMAIN driver' = Clients /\ DOMAIN target' = Sessions
    BY <1>1, <1>2, MovesFacts DEF SandboxInv
  <2> QED BY <1>1, <2>1, <2>2, DriverKeeps
<1>3. CASE creation[d].at = "answered" /\ Moves(d, [at |-> "commit", host |-> creation[d].host])
  <2>1. creation[d].host # NoValue
    <3>1. creation[d] \in CreationStates
      BY DEF SandboxInv, HostAccountsTypeOK
    <3> QED BY <1>3, <3>1, CreationFields, AccountsAssumption
  <2>2. /\ DOMAIN driver' = Clients /\ driver'[d].at = "commit" /\ driver'[d].host # NoValue
        /\ \A e \in Clients \ {d} : driver'[e] = driver[e]
    BY <1>3, <2>1, MovesFacts
  <2>3. \A e \in Clients : DriverOK(e)'
    BY <1>1, <2>2 DEF SandboxInv, DriverOK
  <2> QED BY <1>1, <2>2, <2>3, DriverKeeps DEF SandboxInv
<1> QED BY <1>2, <1>3 DEF Reply

LEMMA CommitTargetKeeps == ASSUME SandboxInv, NEW d \in Clients, CommitTarget(d) PROVE SandboxInv'
<1>1. /\ driver[d].at = "commit" /\ driver[d].host # NoValue /\ served \in Sessions
      /\ UNCHANGED <<served, acctVars, hostVars>>
  BY DEF CommitTarget, SandboxInv, DriverOK
<1>2. CASE MaySave(d)
  <2>1. /\ target' = [target EXCEPT ![served] = driver[d].host] /\ target[served] = NoValue
        /\ Moves(d, [at |-> "ready", host |-> driver[d].host])
    BY <1>2 DEF CommitTarget, MaySave, Mine
  <2>2. DOMAIN target' = Sessions /\ target'[served] = driver[d].host
    BY <1>1, <2>1 DEF SandboxInv
  <2>3. /\ DOMAIN driver' = Clients /\ driver'[d].at = "ready" /\ driver'[d].host = driver[d].host
        /\ \A e \in Clients \ {d} : driver'[e] = driver[e]
    BY <2>1, MovesFacts
  <2>4. ASSUME NEW e \in Clients PROVE DriverOK(e)'
    <3>1. DriverOK(e)
      BY DEF SandboxInv
    <3> QED BY <1>1, <2>1, <2>2, <2>3, <3>1 DEF DriverOK
  <2> QED BY <1>1, <2>2, <2>3, <2>4, DriverKeeps
<1>3. CASE ~MaySave(d)
  <2>1. target' = target /\ Moves(d, [at |-> "gone"])
    BY <1>3 DEF CommitTarget
  <2>2. \A e \in Clients : DriverOK(e)'
    BY <1>1, <2>1, PlainMove
  <2>3. DOMAIN driver' = Clients /\ DOMAIN target' = Sessions
    BY <2>1, MovesFacts DEF SandboxInv
  <2> QED BY <1>1, <2>2, <2>3, DriverKeeps
<1> QED BY <1>2, <1>3

LEMMA SandboxStepKeeps ==
    SandboxInv /\ [SandboxNext]_<<sandboxVars, acctVars, hostVars>> => SandboxInv'
<1> SUFFICES ASSUME SandboxInv, [SandboxNext]_<<sandboxVars, acctVars, hostVars>> PROVE SandboxInv'
  OBVIOUS
<1>1. CASE UNCHANGED <<sandboxVars, acctVars, hostVars>>
  <2>1. \A d \in Clients : DriverOK(d)'
    BY <1>1 DEF SandboxInv, DriverOK, sandboxVars
  <2> QED BY <1>1, <2>1, DriverKeeps DEF SandboxInv, sandboxVars
<1>2. ASSUME NEW d \in Clients, Activate(d) \/ Resolve(d) PROVE SandboxInv'
  BY <1>2, ActivateKeeps, ReadTargetKeeps, RequestHostKeeps, ReplyKeeps, CommitTargetKeeps DEF Resolve
<1>3. ASSUME NEW d \in Clients, CreationStep(d), UNCHANGED sandboxVars PROVE SandboxInv'
  BY <1>3, PickKeeps, RequireKeeps, InsertHostKeeps DEF CreationStep
<1>4. CASE SandboxNext
  BY <1>2, <1>3, <1>4, HostAdminKeeps, ExpireKeeps, RevokeKeeps DEF SandboxNext, ResolveCodex, ResolveCc, ResolveUnified
<1> QED BY <1>1, <1>4

LEMMA SandboxInvKept == SandboxInv => SandboxesAreKept
<1> SUFFICES ASSUME SandboxInv PROVE SandboxesAreKept
  OBVIOUS
<1>1. Cardinality({a \in HostAccounts : account[a].isDefault}) <= 1
  <2> DEFINE S == {a \in HostAccounts : account[a].isDefault}
  <2>1. \A a \in HostAccounts : account[a].isDefault \in BOOLEAN
    BY DEF SandboxInv, RowsOK, AccountRow
  <2>2. CASE S = {}
    BY <2>2, FS_EmptySet
  <2>3. CASE S # {}
    <3>1. PICK a : a \in S
      BY <2>3
    <3>2. S = {a}
      BY <2>1, <3>1 DEF SandboxInv, RowsOK
    <3>3. Cardinality(S) = Cardinality({a}) /\ Cardinality({a}) = 1
      BY <3>2, FS_Singleton
    <3> HIDE DEF S
    <3>4. Cardinality(S) <= 1
      BY <3>3
    <3> QED BY <3>4 DEF S
  <2> QED BY <2>2, <2>3
<1>2. \A a \in HostAccounts : DefaultActive(account[a])
  BY DEF SandboxInv, RowsOK, AccountRow, DefaultActive
<1>3. AccountsAreKept
  BY <1>1, <1>2 DEF AccountsAreKept, SandboxInv, HostsHaveAccounts
<1>4. ASSUME NEW s \in Sessions
      PROVE  Cardinality({h \in 1..Len(hostsOf) : \E d \in Clients : Mine(d) = s /\ hostsOf[h].key = SessionKey(d)})
               <= 1 + expired[s]
  <2> DEFINE S == {h \in 1..Len(hostsOf) : \E d \in Clients : Mine(d) = s /\ hostsOf[h].key = SessionKey(d)}
  <2>1. Counted(s) /\ expired[s] \in Nat
    BY SessionsAssumption, AccountsAssumption DEF SandboxInv, HostAccountsTypeOK
  <2>2. S \subseteq MadeFor(s)
    BY DEF MadeFor, Mine, SessionKey
  <2> HIDE DEF S
  <2>3. Cardinality(S) <= Cardinality(MadeFor(s)) /\ Cardinality(S) \in Nat
    BY <2>1, <2>2, FS_Subset, FS_CardinalityType DEF Counted
  <2>4. Cardinality(S) <= 1 + expired[s]
    BY <2>1, <2>3 DEF Counted
  <2> QED BY <2>4 DEF S
<1>5. OneSandboxPerSession
  BY <1>4 DEF OneSandboxPerSession, SandboxInv, DriverOK, Mine
<1> QED BY <1>3, <1>5 DEF SandboxesAreKept

\* For every number of sessions, drivers, accounts and hosts: the drivers of a session
\* work on the one host that was saved, a second one is created only after the gateway
\* forgot the key of the first, and a host's account is never deleted under it, nor is
\* there a second default (environment.rs of the harnesses, database.rs of the gateway).
THEOREM SandboxesAreAlwaysKept == SandboxSpec => []SandboxesAreKept
  BY SandboxInitially, SandboxStepKeeps, SandboxInvKept, PTL DEF SandboxSpec

\* Accounts, requests for hosts and their records keep their types (database.rs, http.rs).
THEOREM HostAccountsTypesCorrect == SandboxSpec => []HostAccountsTypeOK
<1>1. SandboxInv => HostAccountsTypeOK
  BY DEF SandboxInv
<1> QED BY <1>1, SandboxInitially, SandboxStepKeeps, PTL DEF SandboxSpec
=============================================================================
