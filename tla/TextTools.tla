----------------------------- MODULE TextTools -----------------------------
(***************************************************************************)
(* The algorithms of the file tools, as operators checked against what     *)
(* they are meant to compute: the line window of the read tool, the        *)
(* replacement of the edit tool, the chunks of apply_patch, the mapping of *)
(* a path to an execution root, and the pages of a directory listing; and  *)
(* the frames of the supervisor's wire.                                    *)
(*                                                                         *)
(* A behaviour picks one sample input; the properties are invariants over  *)
(* the samples.                                                            *)
(***************************************************************************)
EXTENDS Integers, Sequences, FiniteSets, SequencesExt

CONSTANTS
    Samples    \* the inputs: records whose field "tool" says which algorithm they are for

VARIABLES sample, checked
textVars == <<sample, checked>>

NoText == "none"
Error == [error |-> TRUE]

-----------------------------------------------------------------------------
(***************************************************************************)
(* Line windows (tools/read).  A byte is "x", the newline "n", the NUL "0" *)
(* or one that makes its line no UTF-8, "u".  A line is rendered behind a  *)
(* prefix of PrefixWidth bytes, and an unended one is ended, so the budget *)
(* counts one byte more for it.                                            *)
(***************************************************************************)
PrefixWidth == 1

Window(start) == [content |-> <<>>, first |-> start, last |-> 0, next |-> 0, eof |-> FALSE,
                  number |-> 1, line |-> <<>>, rendered |-> 0, at |-> "more"]

\* LineReader::append: only a line that is shown has to be UTF-8.
AppendLine(w) ==
    IF "u" \in Range(w.line) THEN [w EXCEPT !.at = "error"]
    ELSE [w EXCEPT !.content = @ \o w.line, !.last = w.number, !.line = <<>>,
                   !.rendered = @ + PrefixWidth + Len(w.line) + (IF Last(w.line) = "n" THEN 0 ELSE 1)]

\* The line being read, with this byte, would not fit the page any more.
Overflows(w, byte, budget) ==
    w.rendered + PrefixWidth + Len(w.line) + 1 + (IF byte = "n" THEN 0 ELSE 1) > budget

NextLine(w, byte) == [w EXCEPT !.number = IF byte = "n" THEN @ + 1 ELSE @]

\* Faulty variant: the next page begins after the line the budget cut off.
FeedSkipsLine(w, byte, limit, budget) ==
    CASE w.last # 0 /\ w.last - w.first + 1 >= limit -> [w EXCEPT !.next = w.number, !.at = "full"]
      [] OTHER ->
         CASE byte = "0" -> [w EXCEPT !.at = "error"]
           [] byte # "0" /\ w.number < w.first -> NextLine(w, byte)
           [] byte # "0" /\ w.number >= w.first /\ Overflows(w, byte, budget) ->
                IF w.last = 0 THEN [w EXCEPT !.at = "error"] ELSE [w EXCEPT !.next = w.number + 1, !.at = "full"]
           [] OTHER -> LET v == [w EXCEPT !.line = Append(@, byte)] IN
                       NextLine(IF byte = "n" THEN AppendLine(v) ELSE v, byte)

\* LineReader::feed: the window is full when a byte comes after its last line, or when
\* the line being read no longer fits; a NUL anywhere before that, and a first line that
\* does not fit, is an error.
Feed(w, byte, limit, budget) ==
    CASE w.last # 0 /\ w.last - w.first + 1 >= limit -> [w EXCEPT !.next = w.number, !.at = "full"]
      [] OTHER ->
         CASE byte = "0" -> [w EXCEPT !.at = "error"]
           [] byte # "0" /\ w.number < w.first -> NextLine(w, byte)
           [] byte # "0" /\ w.number >= w.first /\ Overflows(w, byte, budget) ->
                IF w.last = 0 THEN [w EXCEPT !.at = "error"] ELSE [w EXCEPT !.next = w.number, !.at = "full"]
           [] OTHER -> LET v == [w EXCEPT !.line = Append(@, byte)] IN
                       NextLine(IF byte = "n" THEN AppendLine(v) ELSE v, byte)

\* LineReader::finish: an offset past the end is an error, except 1 in an empty file.
FinishWindow(w, empty) ==
    LET v == IF w.line = <<>> THEN w ELSE AppendLine(w) IN
    IF v.at = "error" \/ (v.last = 0 /\ ~(empty /\ v.first = 1)) THEN [v EXCEPT !.at = "error"]
    ELSE [v EXCEPT !.eof = TRUE, !.at = "full"]

\* read, read_text: the bytes are fed until the window is full or the file ends, and no
\* byte is looked at beyond the scan limit.
ReadWindow(source, start, limit, budget, scan) ==
    LET step(w, k) == IF w.at # "more" THEN w
                      ELSE IF k > scan THEN [w EXCEPT !.at = "error"]
                      ELSE Feed(w, source[k], limit, budget)
        fed == FoldLeft(step, Window(start), [k \in DOMAIN source |-> k])
    IN IF fed.at = "more" THEN FinishWindow(fed, source = <<>>) ELSE fed

\* The pages a model gets that follows the continuation offset, at most n of them.
Pages(source, limit, budget, scan, n) ==
    LET step(ps, k) == IF ps # <<>> /\ (Last(ps).at = "error" \/ Last(ps).eof) THEN ps
                       ELSE Append(ps, ReadWindow(source, IF ps = <<>> THEN 1 ELSE Last(ps).next,
                                                  limit, budget, scan))
    IN FoldLeft(step, <<>>, [k \in 1..n |-> k])

-----------------------------------------------------------------------------
(***************************************************************************)
(* Replacement (tools/edit)                                                *)
(***************************************************************************)
MatchAt(source, old, i) == i + Len(old) - 1 <= Len(source) /\ SubSeq(source, i, i + Len(old) - 1) = old
MatchesFrom(source, old, from) == {i \in from..Len(source) : MatchAt(source, old, i)}
Least(S) == CHOOSE i \in S : \A j \in S : i <= j

\* match_indices: the matches that do not overlap an earlier one.
MatchIndices(source, old) ==
    FoldLeft(LAMBDA ms, i : IF MatchAt(source, old, i)
                               /\ (ms = <<>> \/ i >= Last(ms) + Len(old)) THEN Append(ms, i) ELSE ms,
             <<>>, [i \in 1..Len(source) |-> i])

\* A single replacement is refused when any other match exists, an overlapping one too.
Ambiguous(source, old) ==
    LET first == Least(MatchesFrom(source, old, 1)) IN MatchesFrom(source, old, first + 1) # {}

\* matching::replace
Replace(source, old, new, all) ==
    LET found == MatchesFrom(source, old, 1)
        at == IF all THEN MatchIndices(source, old) ELSE SubSeq(MatchIndices(source, old), 1, 1)
        step(acc, i) == [out |-> acc.out \o SubSeq(source, acc.cursor, i - 1) \o new,
                         cursor |-> i + Len(old)]
        end == FoldLeft(step, [out |-> <<>>, cursor |-> 1], at)
    IN IF found = {} \/ (~all /\ Ambiguous(source, old)) THEN Error
       ELSE [out |-> end.out \o SubSeq(source, end.cursor, Len(source)), count |-> Len(at),
             size |-> Len(source) - Len(at) * Len(old) + Len(at) * Len(new)]

-----------------------------------------------------------------------------
(***************************************************************************)
(* Chunks of an update hunk (tools/apply-patch).  A text is a word with    *)
(* what stands before and behind it, in typographic or in plain signs.  A  *)
(* line of the file has a text and an ending, "lf", "crlf" or none for an  *)
(* unended last line.  A line of a chunk is kept " ", taken "-" or added   *)
(* "+".                                                                    *)
(***************************************************************************)
Plain(word) == [word |-> word, plain |-> TRUE, lead |-> <<>>, trail |-> <<>>]
Blank == Plain("")

OldLines(c) == [k \in 1..Len(SelectSeq(c.lines, LAMBDA l : l[1] # "+")) |->
                  SelectSeq(c.lines, LAMBDA l : l[1] # "+")[k][2]]
NewLines(c) == [k \in 1..Len(SelectSeq(c.lines, LAMBDA l : l[1] # "-")) |->
                  SelectSeq(c.lines, LAMBDA l : l[1] # "-")[k][2]]

\* The pairs of places, in the old and in the new lines, of the lines a chunk keeps.
ContextLineIndices(c) ==
    FoldLeft(LAMBDA acc, l : [old |-> IF l[1] = "+" THEN acc.old ELSE acc.old + 1,
                              new |-> IF l[1] = "-" THEN acc.new ELSE acc.new + 1,
                              kept |-> IF l[1] = " " THEN Append(acc.kept, <<acc.old, acc.new>>) ELSE acc.kept],
             [old |-> 0, new |-> 0, kept |-> <<>>], c.lines).kept

\* The lines as the two modes see them: in NormalizeToLf a carriage return is part of the
\* text, and every line ends alike.
SourceLines(lines, mode) ==
    IF mode = "preserve" THEN lines
    ELSE [k \in DOMAIN lines |->
            [text |-> IF lines[k].ending = "crlf" THEN [lines[k].text EXCEPT !.trail = Append(@, "cr")]
                      ELSE lines[k].text, ending |-> "lf"]]
LineTexts(lines) == [k \in DOMAIN lines |-> lines[k].text]

\* What the matchers of seek_sequence compare, from the strictest to the loosest: the
\* text, the text without what is behind it, without what is around it, and that with
\* typographic signs made plain.
Normalized(matcher, t) ==
    CASE matcher = 1 -> t
      [] matcher = 2 -> [t EXCEPT !.trail = <<>>]
      [] matcher = 3 -> [t EXCEPT !.trail = <<>>, !.lead = <<>>]
      [] matcher = 4 -> [t EXCEPT !.trail = <<>>, !.lead = <<>>, !.plain = TRUE]

\* seek_sequence: the first place at which the strictest matcher that finds one does.
SeekSequence(texts, pattern, start, eof, mode) ==
    LET end == Len(texts) - Len(pattern)
        from == IF ~eof THEN start ELSE IF mode = "normalize" \/ end > start THEN end ELSE start
        found(n) == {i \in from..end : \A k \in 1..Len(pattern) :
                                          Normalized(n, texts[i + k]) = Normalized(n, pattern[k])}
        finding == {n \in 1..4 : found(n) # {}}
    IN IF pattern = <<>> THEN start
       ELSE IF Len(pattern) > Len(texts) \/ finding = {} THEN -1
       ELSE Least(found(Least(finding)))

\* The lines of a chunk that are looked for and put in their place, and the place: if
\* they are not found and end with a blank line, they are looked for without it.
WithoutBlank(texts) == IF texts # <<>> /\ Last(texts) = Blank THEN Front(texts) ELSE texts
Locate(texts, c, from, mode) ==
    LET old == OldLines(c)
        found == SeekSequence(texts, old, from, c.eof, mode)
        shorter == WithoutBlank(old)
    IN IF found # -1 \/ shorter = old THEN [at |-> found, old |-> old, new |-> NewLines(c)]
       ELSE [at |-> SeekSequence(texts, shorter, from, c.eof, mode), old |-> shorter,
             new |-> WithoutBlank(NewLines(c))]

\* The replacements of a chunk that was located: all of it, or in PreserveLineEndings
\* only the runs between the lines it keeps.
RunsOf(c, place, mode) ==
    IF mode = "normalize" THEN <<[at |-> place.at, old |-> Len(place.old), new |-> place.new]>>
    ELSE LET flush(acc, o, n) ==
               IF acc.old = o /\ acc.new = n THEN acc.out
               ELSE Append(acc.out, [at |-> place.at + acc.old, old |-> o - acc.old,
                                     new |-> SubSeq(place.new, acc.new + 1, n)])
             step(acc, pair) ==
               IF pair[1] >= Len(place.old) \/ pair[2] >= Len(place.new) THEN acc
               ELSE [out |-> flush(acc, pair[1], pair[2]), old |-> pair[1] + 1, new |-> pair[2] + 1]
         IN flush(FoldLeft(step, [out |-> <<>>, old |-> 0, new |-> 0], ContextLineIndices(c)),
                  Len(place.old), Len(place.new))

\* Where the search for the next chunk begins.
AfterChunk(place) == place.at + Len(place.old)

\* Where lines go that replace none: the end, in NormalizeToLf before a blank last line.
Insertion(texts, mode) ==
    IF mode = "normalize" /\ texts # <<>> /\ Last(texts) = Blank THEN Len(texts) - 1 ELSE Len(texts)

\* One chunk, with the place its context leads to.
ReplaceChunk(acc, c, ctx, texts, mode) ==
    LET place == Locate(texts, c, ctx, mode) IN
    IF acc.error \/ (c.context # <<>> /\ ctx = 0) THEN [acc EXCEPT !.error = TRUE]
    ELSE IF OldLines(c) = <<>>
         THEN [acc EXCEPT !.index = ctx,
                          !.list = Append(@, [at |-> Insertion(texts, mode), old |-> 0, new |-> NewLines(c)])]
    ELSE IF place.at = -1 THEN [acc EXCEPT !.error = TRUE]
    ELSE [acc EXCEPT !.list = @ \o RunsOf(c, place, mode), !.index = AfterChunk(place)]

SortedByPlace(list) ==
    LET rank(j) == Cardinality({i \in DOMAIN list : list[i].at < list[j].at \/ (list[i].at = list[j].at /\ i <= j)})
    IN [r \in DOMAIN list |-> list[CHOOSE j \in DOMAIN list : rank(j) = r]]
Sorted(all) == [error |-> all.error, list |-> SortedByPlace(all.list)]

\* compute_replacements
ComputeReplacements(texts, chunks, mode) ==
    LET behind(acc, c) == IF c.context = <<>> THEN acc.index
                          ELSE SeekSequence(texts, c.context, acc.index, FALSE, mode) + 1
    IN Sorted(FoldLeft(LAMBDA acc, c : ReplaceChunk(acc, c, behind(acc, c), texts, mode),
                       [list |-> <<>>, index |-> 0, error |-> FALSE], chunks))

Added(texts, ending) == [k \in 1..Len(texts) |-> [text |-> texts[k], ending |-> ending]]

\* apply_replacements of NormalizeToLf: from the last to the first, removals within bounds.
ApplyNormalized(lines, list) ==
    FoldRight(LAMBDA r, ls : SubSeq(ls, 1, r.at) \o Added(r.new, "lf")
                               \o SubSeq(ls, r.at + r.old + 1, Len(ls)), list, lines)

\* The ending of the first line that has one.
Preferred(lines) == IF lines = <<>> \/ lines[1].ending = NoText THEN "lf" ELSE lines[1].ending

\* SourceFile::apply_replacements: one pass, copying what lies between.
EndAll(lines, ending) == [k \in DOMAIN lines |-> IF lines[k].ending = NoText
                                                 THEN [lines[k] EXCEPT !.ending = ending] ELSE lines[k]]
ApplyPreserved(lines, list) ==
    LET step(acc, r) == [out |-> acc.out \o SubSeq(lines, acc.index + 1, r.at)
                                   \o Added(r.new, Preferred(lines)),
                         index |-> r.at + r.old]
        end == FoldLeft(step, [out |-> <<>>, index |-> 0], list)
    IN EndAll(end.out \o SubSeq(lines, end.index + 1, Len(lines)), Preferred(lines))

\* In NormalizeToLf a blank last line stands for the newline that is otherwise added.
EndNormalized(lines) == IF lines # <<>> /\ Last(lines).text = Blank THEN Front(lines) ELSE lines

\* derive_new_contents
DeriveNewContents(lines, chunks, mode) ==
    LET source == SourceLines(lines, mode)
        rs == ComputeReplacements(LineTexts(source), chunks, mode)
    IN IF rs.error THEN Error
       ELSE [out |-> IF mode = "normalize" THEN EndNormalized(ApplyNormalized(source, rs.list))
                     ELSE ApplyPreserved(source, rs.list), list |-> rs.list]

-----------------------------------------------------------------------------
(***************************************************************************)
(* Paths (tools/filesystem).  A path is a sequence of components, absolute *)
(* or relative to the working directory; a root is known by where it lies  *)
(* on the host.  Drives and shares of Windows are left out.                *)
(***************************************************************************)
IsUnder(path, root) == Len(path) >= Len(root) /\ SubSeq(path, 1, Len(root)) = root

\* split_parts: "." says nothing, and ".." is refused or kept.
Parts(components, parents) ==
    IF parents = "reject" /\ ".." \in Range(components) THEN Error
    ELSE [parts |-> SelectSeq(components, LAMBDA c : c # ".")]

\* resolve_path of an absolute path: the root with the most components in common, unless
\* two roots are the same directory.
ResolveAbsolute(roots, path) ==
    LET above == {r \in DOMAIN roots : IsUnder(path, roots[r])}
        best == {r \in above : \A q \in above : Len(roots[q]) <= Len(roots[r])}
    IN IF Cardinality(best) # 1 THEN Error
       ELSE LET r == Least(best) IN [root |-> r, rest |-> SubSeq(path, Len(roots[r]) + 1, Len(path))]

\* resolve_path: a relative path stays in the root of the working directory.
ResolvePath(roots, cwd, relative, components) ==
    LET p == Parts(components, "reject") IN
    IF p = Error THEN Error
    ELSE IF relative THEN [root |-> cwd.root, rest |-> cwd.path \o p.parts]
    ELSE ResolveAbsolute(roots, p.parts)

\* resolve_path_normalized: components are joined to the working directory and ".." takes
\* one back, but never past the top of the host; the result is mapped to a root again.
Collapse(base, components) ==
    FoldLeft(LAMBDA p, c : IF c # ".." THEN Append(p, c)
                           ELSE IF p = <<>> THEN p ELSE SubSeq(p, 1, Len(p) - 1), base, components)
ResolveNormalized(roots, cwd, relative, components) ==
    ResolveAbsolute(roots, Collapse(IF relative THEN roots[cwd.root] \o cwd.path ELSE <<>>,
                                    Parts(components, "preserve").parts))

-----------------------------------------------------------------------------
(***************************************************************************)
(* Directory listings (supervisor filesystem, list).  Names are numbers in *)
(* the order of their spelling; the directory may change between pages.    *)
(***************************************************************************)

ListPage(names, cursor, max) ==
    LET rest == {n \in names : n > cursor}
        kept == {n \in rest : Cardinality({m \in rest : m <= n}) <= max}
    IN [entries |-> kept,
        next |-> IF Cardinality(rest) > max /\ kept # {} THEN CHOOSE n \in kept : \A m \in kept : m <= n
                 ELSE 0]

\* What a caller gets that follows next_cursor through the directory as it is at each page.
ListingOf(dirs, max) ==
    FoldLeft(LAMBDA acc, d : IF acc.done THEN acc
                             ELSE LET p == ListPage(d, acc.cursor, max) IN
                                  [got |-> acc.got \cup p.entries, cursor |-> p.next,
                                   twice |-> acc.twice \/ acc.got \cap p.entries # {},
                                   done |-> p.next = 0],
             [got |-> {}, cursor |-> 0, twice |-> FALSE, done |-> FALSE], dirs)

-----------------------------------------------------------------------------
(***************************************************************************)
(* Frames (execution-wire).  A byte is "x", the carriage return "r" or the *)
(* newline "n".  The bytes of a stream arrive in buffers that end after    *)
(* the positions in cuts.                                                  *)
(***************************************************************************)
Reader == [at |-> 1, frame |-> <<>>, out |-> <<>>, end |-> "more"]

\* The frame is complete: a carriage return before the newline is no part of it.
Deliver(w, frame, at) ==
    LET kept == IF frame # <<>> /\ Last(frame) = "r" THEN Front(frame) ELSE frame
    IN IF kept = <<>> THEN [w EXCEPT !.end = "empty"]
       ELSE [w EXCEPT !.out = Append(@, kept), !.frame = <<>>, !.at = at]

\* NdjsonCodec::read_frame, one buffer: up to its newline, or all of it.
FillBuf(w, stream, cuts, limit) ==
    LET last == Least({c \in cuts \cup {Len(stream)} : c >= w.at} \cup {Len(stream) + 1})
        available == SubSeq(stream, w.at, IF last > Len(stream) THEN Len(stream) ELSE last)
        newlines == {k \in DOMAIN available : available[k] = "n"}
        payload == IF newlines = {} THEN available ELSE SubSeq(available, 1, Least(newlines) - 1)
    IN IF available = <<>>
       THEN IF w.frame = <<>> THEN [w EXCEPT !.end = "eof"] ELSE Deliver(w, w.frame, w.at)
       ELSE IF Len(w.frame) + Len(payload) > limit THEN [w EXCEPT !.end = "too_large"]
       ELSE IF newlines = {} THEN [w EXCEPT !.frame = @ \o payload, !.at = @ + Len(payload)]
       ELSE Deliver(w, w.frame \o payload, w.at + Least(newlines))

\* handle_connection reads requests until the stream ends or a frame is refused.
ReadFrames(stream, cuts, limit) ==
    FoldLeft(LAMBDA w, k : IF w.end = "more" THEN FillBuf(w, stream, cuts, limit) ELSE w,
             Reader, [k \in 1..2 * Len(stream) + 2 |-> k])

\* NdjsonCodec::write_json: a value whose text is too long is not written at all.
WriteJson(text, limit) == IF Len(text) > limit THEN <<>> ELSE Append(text, "n")

-----------------------------------------------------------------------------
TextInit == sample \in Samples /\ checked = FALSE
Check == ~checked /\ checked' = TRUE /\ UNCHANGED sample
TextNext == Check
TextSpec == TextInit /\ [][TextNext]_textVars

\* The lines of a text: where each begins, and its bytes with its newline.
Begins(source) == {i \in DOMAIN source : i = 1 \/ source[i - 1] = "n"}
LineAt(source, i) == SubSeq(source, i, Least({e \in i..Len(source) : source[e] = "n" \/ e = Len(source)}))
TooLong(source, i, budget) ==
    PrefixWidth + Len(SelectSeq(LineAt(source, i), LAMBDA b : b # "n")) + 1 > budget

\* The pages of a file, read by following the continuation offset, are the file: no line
\* is skipped or shown twice at a page boundary, whichever limit ended the page, and every
\* page makes progress.  A page fails only over its own first line, which then fits no
\* page, over the scan limit, or over bytes that are no text.
PagesCoverFile ==
    sample.tool = "read" =>
        LET source == sample.source
            ps == Pages(source, sample.limit, sample.budget, sample.scan, Len(source) + 1)
            whole == FoldLeft(LAMBDA acc, p : acc \o p.content, <<>>, ps)
        IN /\ \/ Last(ps).eof /\ whole = source
              \/ /\ Last(ps).at = "error" /\ IsPrefix(whole, source)
                 /\ \/ Len(source) > sample.scan
                    \/ Range(source) \cap {"0", "u"} # {}
                    \/ /\ Len(whole) + 1 \in Begins(source)
                       /\ TooLong(source, Len(whole) + 1, sample.budget)
           /\ \A k \in 1..Len(ps) : ps[k].rendered <= sample.budget

\* An edit changes exactly what was named: a single replacement succeeds only where the
\* text occurs once, overlapping occurrences counted, and the size that was checked against
\* the limits is the size that is written.
EditIsExact ==
    sample.tool = "edit" =>
        LET r == Replace(sample.source, sample.old, sample.new, sample.all)
            places == MatchesFrom(sample.source, sample.old, 1)
        IN /\ (r = Error) <=> (places = {} \/ (~sample.all /\ Cardinality(places) > 1))
           /\ r # Error => Len(r.out) = r.size
           /\ r # Error /\ ~sample.all =>
                LET i == Least(places) IN
                r.out = SubSeq(sample.source, 1, i - 1) \o sample.new
                          \o SubSeq(sample.source, i + Len(sample.old), Len(sample.source))

\* The lines that are kept before a chunk, those it leaves, and those after it.  In
\* PreserveLineEndings a line it keeps is the file's; all others are new.
LeftByChunk(rest, c, place, mode, ending) ==
    [n \in DOMAIN place.new |->
       LET kept == {p \in Range(ContextLineIndices(c)) : p[2] + 1 = n /\ p[1] < Len(place.old)} IN
       IF mode = "preserve" /\ kept # {} THEN rest[place.at + (CHOOSE p \in kept : TRUE)[1] + 1]
       ELSE [text |-> place.new[n], ending |-> ending]]

\* The file a chunk at a time; what is only added goes to the end.
RECURSIVE InOrder(_, _, _, _, _)
InOrder(rest, chunks, appended, mode, ending) ==
    IF chunks = <<>> THEN [ok |-> TRUE, out |-> SubSeq(rest, 1, Insertion(LineTexts(rest), mode)) \o appended
                                                  \o SubSeq(rest, Insertion(LineTexts(rest), mode) + 1, Len(rest))]
    ELSE LET c == Head(chunks)
             ctx == IF c.context = <<>> THEN 0 ELSE SeekSequence(LineTexts(rest), c.context, 0, FALSE, mode) + 1
             place == Locate(LineTexts(rest), c, ctx, "preserve")
             only == OldLines(c) = <<>>
             cut == IF only THEN ctx ELSE place.at
             more == IF only THEN Added(NewLines(c), ending) ELSE LeftByChunk(rest, c, place, mode, ending)
         IN IF (c.context # <<>> /\ ctx = 0) \/ (~only /\ place.at = -1) THEN [ok |-> FALSE, out |-> <<>>]
            ELSE LET tail == InOrder(SubSeq(rest, cut + Len(place.old) + 1, Len(rest)), Tail(chunks),
                                     IF only THEN appended \o more ELSE appended, mode, ending)
                 IN [ok |-> tail.ok,
                     out |-> SubSeq(rest, 1, cut) \o (IF only THEN <<>> ELSE more) \o tail.out]

\* A hunk applies its chunks in order, each behind the one before: computing all the
\* replacements against the original file and applying them at once gives the same lines
\* with the same endings, unless they overlap or two of them meet where lines are only
\* added.  In PreserveLineEndings they never overlap, so the copying pass never runs
\* backwards, and a hunk that cannot be applied in order is refused.  (In NormalizeToLf a
\* chunk for the end of the file may lie before its context or overlap the chunk before,
\* and one that only adds lines before a blank last line is lost when an earlier chunk
\* reaches over that line.)
ChunksApplyInOrder ==
    sample.tool = "patch" =>
        LET mode == sample.mode
            source == SourceLines(sample.lines, mode)
            r == DeriveNewContents(sample.lines, sample.chunks, mode)
            ref == InOrder(source, sample.chunks, <<>>, mode,
                           IF mode = "preserve" THEN Preferred(source) ELSE "lf")
            apart == \A k \in 1..Len(r.list) - 1 : r.list[k].at + r.list[k].old <= r.list[k + 1].at
            meeting == {k \in DOMAIN r.list : r.list[k].at = Insertion(LineTexts(source), mode)}
        IN /\ ref.ok => r # Error
           /\ r # Error /\ ref.ok /\ apart /\ Cardinality(meeting) <= 1 =>
                r.out = IF mode = "preserve" THEN EndAll(ref.out, Preferred(source)) ELSE EndNormalized(ref.out)
           /\ r # Error /\ mode = "preserve" => ref.ok /\ apart

\* A path names the same file of the host after it was mapped to a root, whichever of the
\* two ways a tool resolves it; an absolute path is mapped to the deepest root; and a path
\* that climbs is refused by one way and never mapped above a root by the other.
PathsKeepTheirMeaning ==
    sample.tool = "path" =>
        LET roots == sample.roots
            r == ResolvePath(roots, sample.cwd, sample.relative, sample.components)
            n == ResolveNormalized(roots, sample.cwd, sample.relative, sample.components)
            asked == Collapse(IF sample.relative THEN roots[sample.cwd.root] \o sample.cwd.path ELSE <<>>,
                              SelectSeq(sample.components, LAMBDA c : c # "."))
        IN /\ \A e \in {r, n} \ {Error} : roots[e.root] \o e.rest = asked
           /\ n # Error => \A q \in DOMAIN roots : IsUnder(asked, roots[q]) => IsUnder(roots[n.root], roots[q])
           /\ r # Error => ".." \notin Range(sample.components) /\ (sample.relative \/ r = n)
           /\ r = Error /\ n # Error => ".." \in Range(sample.components)

\* Every name that stays in a directory while it is listed is listed, and none twice.
ListingIsComplete ==
    sample.tool = "list" =>
        LET l == ListingOf(sample.dirs, sample.max) IN
        /\ ~l.twice
        /\ l.done => \A n \in UNION {sample.dirs[k] : k \in DOMAIN sample.dirs} :
                        (\A k \in DOMAIN sample.dirs : n \in sample.dirs[k]) => n \in l.got

\* However a stream is cut into buffers, the reader delivers its lines, stops at the first
\* that is too long or blank, and at the end of the stream; and it delivers what a writer
\* wrote (read_frame and write_json of codec.rs).
FramesAreExact ==
    sample.tool = "wire" =>
        LET s == sample.stream
            r == ReadFrames(s, sample.cuts, sample.limit)
            ends == {i \in DOMAIN s : s[i] = "n"} \cup {Len(s) + 1}
            begins == {1} \cup {i + 1 : i \in ends \ {Len(s) + 1}}
            line(b) == SubSeq(s, b, Least({e \in ends : e >= b}) - 1)
            text(b) == IF line(b) # <<>> /\ Last(line(b)) = "r" THEN Front(line(b)) ELSE line(b)
            verdict(b) == IF line(b) = <<>> /\ b = Len(s) + 1 THEN "eof"
                          ELSE IF Len(line(b)) > sample.limit THEN "too_large"
                          ELSE IF text(b) = <<>> THEN "empty" ELSE "frame"
            stops == {b \in begins : verdict(b) # "frame"}
            good == IF stops = {} THEN begins ELSE {b \in begins : b < Least(stops)}
        IN /\ r.end = IF stops = {} THEN "eof" ELSE verdict(Least(stops))
           /\ Len(r.out) = Cardinality(good)
           /\ \A b \in good : r.out[Cardinality({c \in good : c <= b})] = text(b)
           /\ LET sent == WriteJson(s, sample.limit) IN
              s # <<>> /\ sent # <<>> /\ (\A i \in DOMAIN s : s[i] = "x") =>
                  ReadFrames(sent \o sent, sample.cuts, sample.limit).out = <<s, s>>
=============================================================================
