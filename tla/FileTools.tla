----------------------------- MODULE FileTools -----------------------------
(***************************************************************************)
(* Files of an execution host: the supervisor's filesystem with its        *)
(* mutation records, and the tools that change files through it.           *)
(*                                                                         *)
(*   edit   reads the file, derives its new content and replaces the file  *)
(*          on condition that its revision is still the one that was read  *)
(*   patch  apply_patch: a list of hunks, each staged as one or two        *)
(*          mutations against the file as it is then, under identities     *)
(*          derived from the patch and fenced by the supervisor generation *)
(*                                                                         *)
(* The harness saves the plan of a call after every step.  A request may   *)
(* be repeated from the saved plan while an earlier copy is still on its   *)
(* way; the supervisor may drop a request it works on, and may restart and *)
(* forget its records.  A revision is a digest of the content, so content  *)
(* stands for it.                                                          *)
(*                                                                         *)
(* A process of the host writes, restores and removes files too, but not   *)
(* between the check of a revision and the replacement it allows: nothing  *)
(* in the supervisor could see that.  The blocking call that a dropped     *)
(* request leaves behind ends with it or not at all.                       *)
(***************************************************************************)
EXTENDS Integers, Sequences, FiniteSets, SequencesExt

CONSTANTS
    Paths,
    Editors,       \* clients that edit a file
    EditPath,      \* the file each of them edits
    Patcher,       \* the client that applies a patch
    Hunks,         \* its hunks: what they do, their source and destination
    NoPath,
    MaxRestarts,   \* bound: supervisor restarts
    MaxFaults,     \* bound: dropped requests, lost replies, worker stops
    MaxOutside     \* bound: writes of other processes

HunkKinds == {"add", "update", "move", "delete"}
ASSUME FileAssumption ==
    /\ EditPath \in [Editors -> Paths] /\ Patcher \notin Editors /\ NoPath \notin Paths
    /\ Hunks \in Seq([does : HunkKinds, from : Paths, to : Paths \cup {NoPath}])
    /\ \A k \in 1..Len(Hunks) : (Hunks[k].does = "move") <=> (Hunks[k].to \in Paths)
    /\ {MaxRestarts, MaxFaults, MaxOutside} \subseteq Nat

VARIABLES
    file,      \* the content of every path
    records,   \* the supervisor's mutation records
    generation,
    serving,   \* the mutation that holds the supervisor's lock
    net,       \* requests on their way
    replies,   \* replies on their way
    client,    \* what each client has saved, and where it is
    mutations, \* history: the mutations that took effect
    outside,   \* writes of other processes
    trouble    \* faults so far, which also number the attempts of a client

fileVars == <<file, records, generation, serving, net, replies, client, mutations,
              outside, trouble>>
supervisor == <<records, generation, serving>>

Absent == [of |-> "absent"]
Original(p) == [of |-> "original", path |-> p]
Foreign(n) == [of |-> "outside", n |-> n]
Derived(op, base) == [of |-> "derived", op |-> op, base |-> base]
Torn(op) == [of |-> "torn", op |-> op]
Anything == [of |-> "any"]    \* the condition that always holds
Nobody == [stage |-> "none"]
AnyGeneration == -1

\* operation_id: one per edit; a patch derives one per mutation from its own.
EditOp(c) == <<c, 0>>
DerivedId(n) == <<Patcher, n>>

Record(op) == IF \E r \in records : r.req.op = op THEN CHOOSE r \in records : r.req.op = op
              ELSE [req |-> [op |-> op], result |-> "none"]

FilesInit ==
    /\ file = [p \in Paths |-> Original(p)]
    /\ records = {} /\ generation = 0 /\ serving = Nobody
    /\ net = {} /\ replies = {}
    /\ client = [c \in Editors \cup {Patcher} |-> [at |-> "begin"]]
    /\ mutations = <<>> /\ outside = 0 /\ trouble = 0

-----------------------------------------------------------------------------
(***************************************************************************)
(* The supervisor                                                          *)
(***************************************************************************)
Answer(call, what) == replies' = replies \cup {[op |-> call.req.op, try |-> call.try, result |-> what]}
FilesKeep(req, what) == records' = {r \in records : r.req.op # req.op}
                                \cup {[req |-> req, result |-> what]}
Fenced(req) == req.generation # AnyGeneration

\* The result a request gets without being carried out: its generation is over, or its
\* operation has a record, of this request or of another one.
Settled(req) ==
    IF Fenced(req) /\ req.generation # generation THEN "lost"
    ELSE IF Record(req.op).result = "none" THEN "open"
    ELSE IF Record(req.op).req = req THEN Record(req.op).result ELSE "conflict"

\* write, remove: the generation is checked, a recorded result is returned again, and a
\* fenced mutation leaves a record that its outcome is unknown until it is known.
Accept(call) ==
    /\ serving = Nobody /\ call \in net
    /\ net' = net \ {call}
    /\ IF Settled(call.req) # "open"
       THEN Answer(call, Settled(call.req)) /\ UNCHANGED <<records, serving>>
       ELSE /\ serving' = [stage |-> "locked", req |-> call.req, try |-> call.try]
            /\ IF Fenced(call.req) THEN FilesKeep(call.req, "lost") ELSE UNCHANGED records
            /\ UNCHANGED replies
    /\ UNCHANGED <<file, generation, client, mutations, outside, trouble>>

\* write_inner: any content, none (MustNotExist), or the revision that was observed.
MayWrite(req) == req.expects = Anything \/ file[req.path] = req.expects

\* remove_inner: there is something to remove.
MayRemove(req) == file[req.path] # Absent

Allowed(req) == IF req.does = "remove" THEN MayRemove(req) ELSE MayWrite(req)

\* The condition does not hold; or the removal itself finds nothing any more.
Refuse ==
    /\ serving.stage = "locked" \/ (serving.stage = "checked" /\ serving.req.does = "remove")
    /\ ~Allowed(serving.req)
    /\ Answer(serving, "failed")
    /\ IF Fenced(serving.req) THEN FilesKeep(serving.req, "failed") ELSE UNCHANGED records
    /\ serving' = Nobody
    /\ UNCHANGED <<file, generation, net, client, mutations, outside, trouble>>

CheckCondition ==
    /\ serving.stage = "locked" /\ Allowed(serving.req)
    /\ serving' = [serving EXCEPT !.stage = "checked"]
    /\ UNCHANGED <<file, records, generation, net, replies, client, mutations, outside, trouble>>

InPlace(req) == req.does = "write" /\ Fenced(req)

\* A write in place empties the file before it fills it; atomic_write renames a complete
\* file over it; a removal is one step.
Mutate ==
    LET req == serving.req IN
    /\ serving.stage = "checked"
    /\ req.does = "remove" => MayRemove(req)
    /\ mutations' = Append(mutations, [op |-> req.op, does |-> req.does, path |-> req.path,
                                       expects |-> req.expects, data |-> req.data,
                                       fenced |-> Fenced(req), replaced |-> file[req.path]])
    /\ file' = [file EXCEPT ![req.path] = IF InPlace(req) THEN Torn(req.op) ELSE req.data]
    /\ serving' = [serving EXCEPT !.stage = IF InPlace(req) THEN "half" ELSE "applied"]
    /\ UNCHANGED <<records, generation, net, replies, client, outside, trouble>>

FillInPlace ==
    /\ serving.stage = "half"
    /\ file' = [file EXCEPT ![serving.req.path] = serving.req.data]
    /\ serving' = [serving EXCEPT !.stage = "applied"]
    /\ UNCHANGED <<records, generation, net, replies, client, mutations, outside, trouble>>

Acknowledge ==
    /\ serving.stage = "applied"
    /\ FilesKeep(serving.req, "ok") /\ Answer(serving, "ok")
    /\ serving' = Nobody
    /\ UNCHANGED <<file, generation, net, client, mutations, outside, trouble>>

\* The connection goes away under a request; a blocking write that began is completed.
DropRequest ==
    /\ serving # Nobody /\ trouble < MaxFaults
    /\ trouble' = trouble + 1
    /\ serving' = Nobody
    /\ file' = IF serving.stage = "half"
               THEN [file EXCEPT ![serving.req.path] = serving.req.data] ELSE file
    /\ UNCHANGED <<records, generation, net, replies, client, mutations, outside>>

\* The supervisor restarts under a new generation, with no records.
RestartHost ==
    /\ generation < MaxRestarts
    /\ generation' = generation + 1
    /\ records' = {} /\ serving' = Nobody
    /\ UNCHANGED <<file, net, replies, client, mutations, outside, trouble>>

\* What another process may leave in a file: none, something new, or what the file held
\* before (a checkout, an undo), whose revision is then the same again.
FromOutside(p) ==
    {Absent, Foreign(outside + 1), Original(p)}
    \cup {mutations[k].replaced : k \in {k \in 1..Len(mutations) : mutations[k].path = p}}

OutsideWrite(p) ==
    /\ outside < MaxOutside
    /\ ~(serving.stage = "checked" /\ serving.req.path = p /\ serving.req.expects # Anything)
    /\ outside' = outside + 1
    /\ \E w \in FromOutside(p) : w # file[p] /\ file' = [file EXCEPT ![p] = w]
    /\ UNCHANGED <<supervisor, net, replies, client, mutations, trouble>>

-----------------------------------------------------------------------------
(***************************************************************************)
(* The clients.  A client that has saved a plan is "saved", one that waits *)
(* for a reply is "sent", and one whose step returned but is not saved yet *)
(* is "stepped".                                                           *)
(***************************************************************************)
Machine == <<file, supervisor, mutations, outside>>

Move(c, next) == client' = [client EXCEPT ![c] = next]
Ended(result, applied) == [at |-> "answered", result |-> result, applied |-> applied]
HavePlan(plan) == [at |-> "saved", plan |-> plan]

\* The read tool: the revision comes with the metadata, and every page read later must
\* carry the same one.
StatFile(c) ==
    /\ client[c].at = "begin" /\ file[EditPath[c]] # Absent
    /\ Move(c, [at |-> "reading", seen |-> file[EditPath[c]]])
    /\ UNCHANGED <<Machine, net, replies, trouble>>

\* A page of the file: read refuses one whose expected revision is not the file's.
SameRevision(c) == file[EditPath[c]] = client[c].seen

EditRequest(c, expects, base) ==
    [op |-> EditOp(c), does |-> "write", path |-> EditPath[c], expects |-> expects,
     data |-> Derived(EditOp(c), base), generation |-> AnyGeneration]

\* Faulty variant: the pages are taken as they come.
ReadPagesUnchecked(c) ==
    /\ client[c].at = "reading"
    /\ Move(c, HavePlan(EditRequest(c, file[EditPath[c]], client[c].seen)))
    /\ UNCHANGED <<Machine, net, replies, trouble>>

\* content::read, then replace and PreparedEdit: a file that changed since it was seen is
\* a conflict; otherwise the plan holds the revision seen and the content derived from it.
ReadPages(c) ==
    /\ client[c].at = "reading"
    /\ Move(c, IF ~SameRevision(c) THEN Ended("failed", 0)
               ELSE HavePlan(EditRequest(c, client[c].seen, client[c].seen)))
    /\ UNCHANGED <<Machine, net, replies, trouble>>

\* The write tool without an observation of the file: it must not exist.
PlanWrite(c) ==
    /\ client[c].at = "begin"
    /\ Move(c, HavePlan(EditRequest(c, Absent, Absent)))
    /\ UNCHANGED <<Machine, net, replies, trouble>>

\* stat_optional and read_text of apply_patch: the file as it is now.
Missing(p) == file[p] = Absent
ReadText(p) == file[p]

\* prepare and start of apply_patch: every hunk is verified, nothing is changed; the
\* generation that was current is part of the plan.
PreparePatch ==
    /\ client[Patcher].at = "begin"
    /\ Move(Patcher,
            IF \E k \in 1..Len(Hunks) : Hunks[k].does # "add" /\ Missing(Hunks[k].from)
            THEN Ended("failed", 0)
            ELSE HavePlan([hunk |-> 1, applied |-> 0, pending |-> <<>>, next |-> 1,
                           generation |-> generation]))
    /\ UNCHANGED <<Machine, net, replies, trouble>>

Progress == client[Patcher].plan

\* The mutations of a hunk: a write of the source, or of the destination of a move, and
\* the removal of what was deleted or moved.
Operations(h, applied, gen) ==
    LET write == [op |-> DerivedId(applied), does |-> "write",
                  path |-> IF h.does = "move" THEN h.to ELSE h.from, expects |-> Anything,
                  data |-> Derived(DerivedId(applied), IF h.does = "add" THEN Absent ELSE ReadText(h.from)),
                  generation |-> gen]
        remove(n) == [op |-> DerivedId(n), does |-> "remove", path |-> h.from,
                      expects |-> Anything, data |-> Absent, generation |-> gen]
    IN CASE h.does = "delete" -> <<remove(applied)>>
         [] h.does = "move"   -> <<write, remove(applied + 1)>>
         [] OTHER             -> <<write>>

\* A step of a patch: validate refuses a plan of an earlier generation.
MayStep == client[Patcher].at = "saved" /\ Progress.generation = generation
Stepped(work) == Move(Patcher, [at |-> "stepped", plan |-> Progress, work |-> work])

\* stage_hunk: the hunk is derived from the file as it is now; nothing is sent.
StageHunk ==
    LET p == Progress  h == Hunks[p.hunk] IN
    /\ MayStep /\ p.hunk <= Len(Hunks) /\ p.pending = <<>>
    /\ IF h.does \in {"update", "move"} /\ Missing(h.from)
       THEN Move(Patcher, Ended("failed", p.applied))
       ELSE Stepped([p EXCEPT !.pending = Operations(h, p.applied, p.generation)])
    /\ UNCHANGED <<Machine, net, replies, trouble>>

PlanIsLost ==
    /\ client[Patcher].at = "saved" /\ Progress.generation # generation
    /\ Move(Patcher, Ended("failed", Progress.applied))
    /\ UNCHANGED <<Machine, net, replies, trouble>>

\* The harness saves what a step returned.
SavePlan ==
    /\ client[Patcher].at = "stepped"
    /\ Move(Patcher, HavePlan(client[Patcher].work))
    /\ UNCHANGED <<Machine, net, replies, trouble>>

Due(c) == IF c = Patcher THEN Progress.pending[Progress.next] ELSE client[c].plan

\* dispatch, and apply of an edit: the saved request is sent, whatever the file says now.
Send(c) ==
    /\ client[c].at = "saved"
    /\ c = Patcher => MayStep /\ Progress.pending # <<>>
    /\ net' = net \cup {[req |-> Due(c), try |-> trouble]}
    /\ Move(c, [at |-> "sent", plan |-> client[c].plan, try |-> trouble])
    /\ UNCHANGED <<Machine, replies, trouble>>

Advance(p) ==
    IF p.next = Len(p.pending)
    THEN [p EXCEPT !.applied = @ + 1, !.hunk = @ + 1, !.pending = <<>>, !.next = 1]
    ELSE [p EXCEPT !.applied = @ + 1, !.next = @ + 1]

\* The reply to a mutation: acknowledged progress, or an error that is the tool's answer.
Receive(c) ==
    /\ client[c].at = "sent"
    /\ \E r \in replies :
         /\ r.op = Due(c).op /\ r.try = client[c].try
         /\ replies' = replies \ {r}
         /\ CASE r.result = "ok" /\ c = Patcher -> Stepped(Advance(Progress))
              [] r.result = "ok" /\ c # Patcher -> Move(c, Ended("ok", 1))
              [] OTHER -> Move(c, Ended("failed", IF c = Patcher THEN Progress.applied ELSE 0))
    /\ UNCHANGED <<Machine, net, trouble>>

\* A deadline, a broken connection or the end of the worker: the outcome is uncertain,
\* what was not saved is gone, and the saved plan is run again.
Retry(c) ==
    /\ client[c].at \in {"sent", "stepped"} /\ trouble < MaxFaults
    /\ trouble' = trouble + 1
    /\ Move(c, HavePlan(client[c].plan))
    /\ UNCHANGED <<Machine, net, replies>>

CompletePatch ==
    /\ MayStep /\ Progress.hunk > Len(Hunks)
    /\ Move(Patcher, Ended("ok", Progress.applied))
    /\ UNCHANGED <<Machine, net, replies, trouble>>

FilesNext ==
    \/ \E call \in net : Accept(call)
    \/ Refuse \/ CheckCondition \/ Mutate \/ FillInPlace \/ Acknowledge
    \/ DropRequest \/ RestartHost
    \/ \E p \in Paths : OutsideWrite(p)
    \/ \E c \in Editors : StatFile(c) \/ ReadPages(c) \/ PlanWrite(c)
    \/ \E c \in Editors \cup {Patcher} : Send(c) \/ Receive(c) \/ Retry(c)
    \/ PreparePatch \/ StageHunk \/ SavePlan \/ PlanIsLost \/ CompletePatch

FilesSpec == FilesInit /\ [][FilesNext]_fileVars
-----------------------------------------------------------------------------
\* A write in place counts as done once it began: the supervisor completes it even if
\* its request is dropped.
Settles(p) == IF serving.stage = "half" /\ serving.req.path = p THEN serving.req.data ELSE file[p]

Contract == INSTANCE FileContract WITH
    content <- [p \in Paths |-> Settles(p)], effects <- mutations,
    told <- {r.op : r \in {r \in replies : r.result = "ok"}},
    disturbed <- outside + generation

\* The supervisor's filesystem keeps the contract, however often a request is repeated,
\* delayed or dropped, and although the records are lost in a restart: a fenced mutation
\* takes effect at most once; any mutation takes effect under its condition, the repeat
\* of an edit too, for which its content must have come back; and success is answered
\* only after the effect.
FilesImplementContract == Contract!Spec

\* An edit replaces exactly the content it was derived from: no change made by another
\* client or another process between the read and the write is lost.
EditReplacesWhatItRead ==
    \A k \in 1..Len(mutations) :
        mutations[k].op[1] \in Editors => mutations[k].replaced = mutations[k].data.base

\* The mutations of the patch that took effect, by their place among all.
PatchDone == {k \in 1..Len(mutations) : mutations[k].op[1] = Patcher}

\* The number of mutations of the hunks before the h-th: one each, and two of a move.
MovesBefore(h) == {k \in 1..h - 1 : Hunks[k].does = "move"}
OpsBefore(h) == h - 1 + Cardinality(MovesBefore(h))
AllOps == OpsBefore(Len(Hunks) + 1)

\* What apply_patch reports is what happened: on success every mutation of every hunk, in
\* order; on failure the acknowledged prefix, and at most one more whose outcome is unknown.
PatchReportIsTrue ==
    LET p == client[Patcher]  done == PatchDone  n == Cardinality(done) IN
    /\ \A k \in done : mutations[k].op = DerivedId(Cardinality({j \in done : j < k}))
    /\ p.at = "answered" =>
         /\ p.result = "ok" => n = AllOps /\ p.applied = AllOps
         /\ p.result = "failed" => n \in {p.applied, p.applied + 1}

\* The filesystem of the supervisor keeps its contract, an edit replaces what it was
\* derived from, and a patch reports what it did (filesystem.rs of the supervisor, edit
\* and apply_patch).
FilesKeepTheirContract ==
    FilesImplementContract /\ [](EditReplacesWhatItRead /\ PatchReportIsTrue)

\* Refuted: an edit takes effect at most once.  It is not fenced, so a request repeated
\* after a restart is carried out again if its content came back.
EditsTakeEffectOnce ==
    \A j, k \in 1..Len(mutations) : mutations[j].op = mutations[k].op => j = k
=============================================================================
