---------------------------- MODULE MCServices ----------------------------
(***************************************************************************)
(* The services of the platform and their clients, for TLC: the sites      *)
(* service and a site's database, calls of the platform, sandboxes of      *)
(* sessions, text tools, and a worker whose abandoned requests arrive      *)
(* late.  They share no state: a behaviour runs one of them; the variables *)
(* of the others are Off, or stay as they are initially.                   *)
(***************************************************************************)
EXTENDS SitesService, PlatformCalls, SiteDatabase, SessionSandboxes, TextTools,
        PagedQueries, WorkerSupervisor

CONSTANTS p1, p2, s1, s2, s3, r1, r2, r3, q1, q2, k1, k2, h1, h2, g1, g2, d1, d2

VARIABLE part

-----------------------------------------------------------------------------
(* Values of the constants. *)

\* SitesService: the release each restore takes back, and the schemas each supports.
RestoreOf == r1 :> s1
Supports == p1 :> {0, 1} @@ p2 :> {0}

\* PlatformCalls: the same call twice, some with other arguments; or two operations
\* that meet.
Sent(k, h, op) == [key |-> k, body |-> h, op |-> op]
SomeWorkloads ==
    {(q1 :> Sent(k1, h1, op)) @@ (q2 :> Sent(k1, h1, op)) : op \in AllCallOps}
        \cup {(q1 :> Sent(k1, h1, op)) @@ (q2 :> Sent(k1, h2, op)) :
                op \in {<<"agent", "runs.create">>, <<"site", "sessions.start">>, <<"app", "fork">>}}
        \cup {(q1 :> Sent(k1, h1, <<"site", "sessions.send">>)) @@ (q2 :> Sent(k2, h2, op)) :
                op \in {<<"app", "start_run">>, <<"site", "runs.abort">>}}
        \cup {(q1 :> Sent(k1, h1, <<"agent", "output">>)) @@ (q2 :> Sent(k2, h2, <<"agent", "output">>))}

\* SiteDatabase: r2 refers to r1, the others refer to no row.
SomeRefers == r1 :> NoRow @@ r2 :> r1 @@ r3 :> NoRow

\* SessionSandboxes: three harnesses, and the three ways to an execution target.
OneHarness == [s \in Sessions |-> CASE s = s1 -> "codex" [] s = s2 -> "cc" [] OTHER -> "unified"]
SomeEnvironment ==
    [s \in Sessions |-> CASE s = s1 -> "snapshot" [] s = s2 -> "default" [] OTHER -> "machine"]

\* TextTools: bounded inputs of every tool.
Upto(S, n) == UNION {[1..k -> S] : k \in 0..n}
ReadSamples == {r \in [tool : {"read"}, source : Upto({"x", "n", "0", "u"}, 5), limit : 1..2, budget : {3, 5},
                       scan : {3, 5}] : Cardinality({k \in DOMAIN r.source : r.source[k] \in {"0", "u"}}) <= 1}
EditSamples == [tool : {"edit"}, source : Upto({"x", "y"}, 5), old : Upto({"x", "y"}, 2) \ {<<>>},
                new : {<<>>, <<"y">>}, all : BOOLEAN]

\* Patches: of two words and their endings; of words and blank lines; of one word in all
\* its spellings.
FilesOf(texts, endings, sizes) ==
    {f \in UNION {[1..n -> [text : texts, ending : endings \cup {NoText}]] : n \in sizes} :
        \A k \in DOMAIN f : f[k].ending = NoText => k = Len(f) /\ f[k].text # Blank}
LinesOf(texts, sizes) == {ls \in UNION {[1..n -> {" ", "-", "+"} \X texts] : n \in sizes} :
                            \E k \in DOMAIN ls : ls[k][1] # " "}
ChunksOf(texts, sizes, contexts, eof) == [context : contexts, lines : LinesOf(texts, sizes), eof : eof]
Words == {Plain("a"), Plain("b")}
Blanks == {Plain("a"), Blank}
Spellings == {Plain("a"), [Plain("a") EXCEPT !.trail = <<"sp">>], [Plain("a") EXCEPT !.lead = <<"sp">>],
              [Plain("a") EXCEPT !.plain = FALSE]}
PatchesOf(files, chunks) == [tool : {"patch"}, lines : files, mode : {"normalize", "preserve"}, chunks : chunks]
PatchSamples ==
    PatchesOf(FilesOf(Words, {"lf", "crlf"}, {3}),
              {<<c>> : c \in ChunksOf(Words, {1, 2}, {<<>>, <<Plain("a")>>}, {FALSE})})
    \cup PatchesOf(FilesOf(Words, {"lf"}, {3}),
                 {<<c, d>> : c \in ChunksOf(Words, {2}, {<<>>}, {FALSE}),
                             d \in ChunksOf(Words, {1}, {<<>>, <<Plain("a")>>}, BOOLEAN)})
    \cup PatchesOf(FilesOf(Blanks, {"lf"}, 0..3),
                 {<<c, d>> : c \in ChunksOf(Blanks, {1, 2}, {<<>>}, {FALSE}),
                             d \in ChunksOf(Blanks, {1}, {<<>>, <<Plain("a")>>}, {FALSE})})
    \cup PatchesOf(FilesOf(Spellings, {"lf"}, {2}),
                 {<<c>> : c \in ChunksOf(Spellings, {1, 2}, {<<>>}, {FALSE})})
Dirs == {<<>>, <<"p">>, <<"p", "q">>}
PathSamples == {s \in [tool : {"path"}, roots : [1..2 -> Dirs], relative : BOOLEAN,
                       cwd : [root : 1..2, path : {<<>>, <<"q">>}],
                       components : Upto({"p", "q", ".", ".."}, 3)] : TRUE}
ListSamples == [tool : {"list"}, dirs : [1..3 -> SUBSET (1..3)], max : 1..2]
WireSamples == [tool : {"wire"}, stream : Upto({"x", "r", "n"}, 4), cuts : SUBSET (1..3), limit : 1..2]
Queries == {"sessions", "runs", "session_inputs", "waits", "requests", "messages", "inputs", "events"}
QuerySamples == {s \in [tool : {"query"}, query : Queries, tables : [1..2 -> [1..3 -> 0..2]], count : {1, 2}] :
                   PossibleTables(s.query, s.tables)}
AllSamples == ReadSamples \cup EditSamples \cup PatchSamples \cup PathSamples \cup ListSamples
                  \cup WireSamples \cup QuerySamples

-----------------------------------------------------------------------------
Off == "off"

TextOff ==
    /\ sample = Off /\ checked = FALSE

ServicesInit ==
    /\ part \in {"sites", "calls", "database", "sandboxes", "text", "worker"}
    /\ SiteInit
    /\ CallsInit
    /\ part # "calls" => world.first.claimed /\ \A q \in Calls : reqs[q].op[2] = "output" /\ KeyOf(q) = k1
    /\ SiteDbInit
    /\ SandboxInit /\ (part # "sandboxes" => served = s1 /\ snapshot = NoValue)
    /\ IF part = "text" THEN TextInit ELSE TextOff
    /\ Init

sandboxAll == <<sandboxVars, acctVars, hostVars>>

\* Bounds of the parts.  A site that is disturbed twice is not invoked; either a call is
\* sent again or an admission changes; of two administrative changes and the
\* expiry of a key at most two happen; handlers are alike, and so are drivers: the first
\* that is free begins; no harness of the worker gives its run back.
NarrowSite == spent' > 1 => \A i \in Invocations : calls'[i].row = "none"
NarrowCalls == resends' + switches' <= 1
NarrowSandboxes ==
    /\ hostAdmin' > 1 => \A s \in Sessions : expired'[s] = 0
    /\ handler[g1] = Resting /\ handler[g2] = Resting => handler'[g2] = Resting
    /\ driver[d1].at = "new" => driver'[d2].at = "new"
NarrowWorker == released' = {}

ServicesNext ==
    \/ /\ part = "sites" /\ SiteNext /\ NarrowSite
       /\ UNCHANGED <<callVars, siteDbVars, sandboxAll, textVars, vars, part>>
    \/ /\ part = "calls" /\ CallsNext /\ NarrowCalls
       /\ UNCHANGED <<siteVars, siteDbVars, sandboxAll, textVars, vars, part>>
    \/ /\ part = "database" /\ SiteDbNext
       /\ UNCHANGED <<siteVars, callVars, sandboxAll, textVars, vars, part>>
    \/ /\ part = "sandboxes" /\ SandboxNext /\ NarrowSandboxes
       /\ UNCHANGED <<siteVars, callVars, siteDbVars, textVars, vars, part>>
    \/ /\ part = "text" /\ TextNext
       /\ UNCHANGED <<siteVars, callVars, siteDbVars, sandboxAll, vars, part>>
    \/ /\ part = "worker" /\ Next /\ NarrowWorker
       /\ UNCHANGED <<siteVars, callVars, siteDbVars, sandboxAll, textVars, part>>

servicesVars == <<siteVars, callVars, siteDbVars, sandboxAll, textVars, vars, part>>

ServicesSpec == ServicesInit /\ [][ServicesNext]_servicesVars

-----------------------------------------------------------------------------
(* Properties: each is the conjunction of properties of one or two parts. *)

\* Nothing is written on an outdated ground: a patch becomes active only over the
\* release it was made from, and a worker that lost its lease while it waited has
\* no effect (authoring.rs of the sites service; capabilities.rs of the runtime).
NothingStaleIsWritten == [][NoLostEdit /\ StaleCallersChangeNothing]_servicesVars

\* Reading, editing, patching, resolving and listing do to a text what they say, and
\* frames are read as they were written; a paged list that changes while it is read
\* neither repeats a row nor leaves out one that stayed.  Over every bounded input (the
\* file tools of the harnesses; codec.rs of execution-wire; queries.rs of the runtime).
TextsAreExact ==
    part = "text" /\ checked = TRUE =>
        /\ PagesCoverFile
        /\ EditIsExact
        /\ ChunksApplyInOrder
        /\ PathsKeepTheirMeaning
        /\ ListingIsComplete
        /\ FramesAreExact
        /\ sample.tool = "query" => ListIsExact(sample.query, sample.tables, sample.count)
=============================================================================
