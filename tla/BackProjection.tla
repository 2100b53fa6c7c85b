--------------------------- MODULE BackProjection ---------------------------
(***************************************************************************)
(* The way back (src/patch.rs): an agent's patch of a mirror file becomes  *)
(* a patch of the real file or is refused.  One file, rendered under the   *)
(* lexical policy, and one patch, planned in one step.                     *)
(*                                                                         *)
(* A line of a patch is a sequence of characters, or a hunk header kept as *)
(* four numbers.  Line ends are LF.                                        *)
(***************************************************************************)
EXTENDS Integers, Sanitizer

CONSTANTS
    RealTexts,   \* real files
    AgentEdits,  \* what the agent may do to a mirror: sequences of
                 \* [at, gone, above, added]
    DeclarationWords  \* the words that make the next one a declaration

\* The edits of one patch come in the order of the file and leave each other
\* alone, with the lines above them that they show; what they add are lines.
IsLine(w) == \A i \in DOMAIN w : w[i] # Newline
Edits == [at : Nat, gone : Nat, above : Nat, added : Seq({w \in Words : IsLine(w)})]
ASSUME ProjectionAssumption ==
    /\ RealTexts \subseteq Words
    /\ \A edits \in AgentEdits :
          /\ edits \in Seq(Edits)
          /\ \A n \in 1..(Len(edits) - 1) :
                edits[n].at + edits[n].gone + edits[n + 1].above <= edits[n + 1].at

VARIABLES
    stage,       \* "new", "shown" or "planned"
    realText,    \* the real file
    mirrorText,  \* its mirror
    spanMap,     \* its span map
    change,      \* the agent's edit
    patchPlan    \* what plan_modify makes of it

projectionVars == <<stage, realText, mirrorText, spanMap, change, patchPlan>>

-----------------------------------------------------------------------------
(* Lines                                                                   *)

ByteForLine(t, line) ==
    LET First(starts) == IF starts = {} THEN Len(t) + 1 ELSE Min(starts)
    IN  First({i \in DOMAIN t : LineAt(t, i) = line})
HasEnding(line) == line # <<>> /\ Last(line) = Newline
LineBody(line) == IF HasEnding(line) THEN Front(line) ELSE line

\* split_inclusive: a character goes to the last line unless that has ended.
Extended(lines, c) == [lines EXCEPT ![Len(lines)] = Append(@, c)]
IsOpen(lines) == lines # <<>> /\ ~HasEnding(Last(lines))
LineGrows(lines, c) == IF IsOpen(lines) THEN Extended(lines, c) ELSE Append(lines, <<c>>)
SplitLines(t) == FoldLeft(LineGrows, <<>>, t)
LineText(t, k) == LineBody(SubSeq(t, ByteForLine(t, k), ByteForLine(t, k + 1) - 1))

-----------------------------------------------------------------------------
(* Patches: a hunk is its header and its lines                             *)

Line(kind, text) == [kind |-> kind, text |-> text]
CountOf(lines, kinds) == Len(SelectSeq(lines, LAMBDA l : l.kind \in kinds))

\* A header counts lines from one; with none on a side it names the line before.
HeaderStart(before, count) == IF count = 0 THEN before ELSE before + 1
AnchorOff(start, count) == IF start = 0 THEN 0 ELSE start - 1
Anchor(start, count) == IF count = 0 THEN start ELSE IF start = 0 THEN 0 ELSE start - 1

\* The hunks of an edit, as whole_file_patch writes them.
HunkLines(lines, e) ==
    [k \in 1..(e.above + e.gone) |->
         Line(IF k <= e.above THEN "context" ELSE "remove",
              LineBody(lines[e.at - e.above + k]))]
    \o [k \in DOMAIN e.added |-> Line("add", e.added[k])]
Hunk(oldStart, oldCount, newStart, newCount, lines) ==
    [oldStart |-> oldStart, oldCount |-> oldCount,
     newStart |-> newStart, newCount |-> newCount, lines |-> lines]
HunkOf(lines, e, grown) ==
    LET Placed(before, old, new) ==
            Hunk(HeaderStart(before, old), old, HeaderStart(before + grown, new), new,
                 HunkLines(lines, e))
    IN  Placed(e.at - e.above, e.above + e.gone, e.above + Len(e.added))
GrownBy(edits) == FoldLeft(LAMBDA a, d : a + Len(d.added) - d.gone, 0, edits)
HunksOf(t, edits) ==
    [n \in DOMAIN edits |-> HunkOf(SplitLines(t), edits[n], GrownBy(SubSeq(edits, 1, n - 1)))]

NoHeader == <<>>
Printed(text) == [header |-> NoHeader, text |-> text]
MarkOf(kind) == CASE kind = "context" -> " " [] kind = "remove" -> "-" [] OTHER -> "+"
Dashes == <<"-", "-", "-", " ">>
Pluses == <<"+", "+", "+", " ">>

\* render_file_patch
RenderLine(out, l) == Append(out, Printed(<<MarkOf(l.kind)>> \o l.text))
RenderHunk(out, h) ==
    FoldLeft(RenderLine,
             Append(out, [header |-> <<h.oldStart, h.oldCount, h.newStart, h.newCount>>,
                          text |-> <<>>]),
             h.lines)
RenderPatch(hunks) ==
    FoldLeft(RenderHunk, <<Printed(Dashes \o <<"f">>), Printed(Pluses \o <<"f">>)>>, hunks)

StartsAs(text, prefix) == IsPrefix(prefix, text)
Unread == [files |-> <<>>, oldLeft |-> 0, newLeft |-> 0, inFile |-> FALSE,
           plus |-> FALSE, failed |-> FALSE]

\* Inside a file, with the lines its last hunk still lacks.
Reading(files, o, w) ==
    [files |-> files, oldLeft |-> o, newLeft |-> w, inFile |-> TRUE,
     plus |-> FALSE, failed |-> FALSE]
HunkGrows(h, l) == Hunk(h.oldStart, h.oldCount, h.newStart, h.newCount, Append(h.lines, l))
HunksGrow(hunks, l) == [hunks EXCEPT ![Len(hunks)] = HunkGrows(@, l)]
LastHunkGrows(files, l) == [files EXCEPT ![Len(files)] = HunksGrow(@, l)]
FileGrows(files, h) == [files EXCEPT ![Len(files)] = Append(@, h)]

\* parse_unified_patch: a header is followed by as many lines as it counts,
\* whatever they look like.
ParseStep(s, l) ==
    LET AddTo(kind, text) ==
            Reading(LastHunkGrows(s.files, Line(kind, text)),
                    IF kind \in {"context", "remove"} THEN s.oldLeft - 1 ELSE s.oldLeft,
                    IF kind \in {"context", "add"} THEN s.newLeft - 1 ELSE s.newLeft)
        Fail == [s EXCEPT !.failed = TRUE]
        mark == IF l.text = <<>> THEN " " ELSE l.text[1]
        text == IF l.text = <<>> THEN <<>> ELSE Tail(l.text)
    IN  IF s.failed THEN s
        ELSE IF s.plus THEN
            IF StartsAs(l.text, Pluses) THEN Reading(Append(s.files, <<>>), 0, 0) ELSE Fail
        ELSE IF s.oldLeft > 0 \/ s.newLeft > 0 THEN
            IF l.header # NoHeader THEN Fail
            ELSE CASE mark = " " /\ s.oldLeft > 0 /\ s.newLeft > 0 -> AddTo("context", text)
                   [] mark = "+" /\ s.newLeft > 0 -> AddTo("add", text)
                   [] mark = "-" /\ s.oldLeft > 0 -> AddTo("remove", text)
                   [] OTHER -> Fail
        ELSE IF StartsAs(l.text, Dashes) THEN [s EXCEPT !.plus = TRUE, !.inFile = FALSE]
        ELSE IF s.inFile /\ l.header # NoHeader THEN
            Reading(FileGrows(s.files, Hunk(l.header[1], l.header[2], l.header[3], l.header[4],
                                            <<>>)),
                    l.header[2], l.header[4])
        ELSE s

ParsePatch(lines) ==
    LET Files(s) ==
            IF s.failed \/ s.plus \/ s.oldLeft > 0 \/ s.newLeft > 0 THEN <<>> ELSE s.files
    IN  Files(FoldLeft(ParseStep, Unread, lines))

-----------------------------------------------------------------------------
(* Applying                                                                *)

Failure == [ok |-> FALSE, lines |-> <<>>, cursor |-> 0]

\* apply_file_patch_to_content, over the lines of t.
ApplyLine(old, s, l) ==
    IF ~s.ok THEN s
    ELSE IF l.kind = "add" THEN
        LET ended == IF IsOpen(s.lines) THEN Extended(s.lines, Newline) ELSE s.lines
        IN  [s EXCEPT !.lines = Append(ended, Append(l.text, Newline))]
    ELSE IF s.cursor + 1 \notin DOMAIN old \/ LineBody(old[s.cursor + 1]) # l.text
    THEN Failure
    ELSE [s EXCEPT !.cursor = @ + 1,
                   !.lines = IF l.kind = "context" THEN Append(@, old[s.cursor + 1]) ELSE @]

ApplyLines(old, s, lines) == FoldLeft(LAMBDA a, l : ApplyLine(old, a, l), s, lines)

ApplyHunk(old, s, hunk) ==
    LET anchor == Anchor(hunk.oldStart, hunk.oldCount)
    IN  IF ~s.ok \/ anchor < s.cursor \/ anchor > Len(old) THEN Failure
        ELSE ApplyLines(old, [ok |-> TRUE, lines |-> s.lines \o SubSeq(old, s.cursor + 1, anchor),
                              cursor |-> anchor], hunk.lines)

Untouched == [ok |-> TRUE, lines |-> <<>>, cursor |-> 0]
ApplyHunks(old, hunks) == FoldLeft(LAMBDA a, h : ApplyHunk(old, a, h), Untouched, hunks)

ApplyPatch(t, hunks) ==
    LET Result(old, s) ==
            [ok |-> s.ok, text |-> FlattenSeq(s.lines \o SubSeq(old, s.cursor + 1, Len(old)))]
        Apply(old) == Result(old, ApplyHunks(old, hunks))
    IN  Apply(SplitLines(t))

-----------------------------------------------------------------------------
(* What an edit touches                                                    *)

\* The bytes of old that new replaces: [from, to).
CommonChangedRange(old, new) ==
    LET least == Min({Len(old), Len(new)})
        Same(k) == \A i \in 1..k : old[i] = new[i]
        SameEnd(k) == \A i \in 0..(k - 1) : old[Len(old) - i] = new[Len(new) - i]
        Suffix(prefix) == Max({k \in 0..(least - prefix) : SameEnd(k)})
        Changed(prefix) == [from |-> prefix + 1, to |-> Len(old) - Suffix(prefix) + 1]
    IN  Changed(Max({k \in 0..least : Same(k)}))

\* changed_ranges: an added line is paired with a removed one of its block.
ChangedRanges(t, hunks) ==
    LET Between(base, c) == [from |-> base + c.from, to |-> base + c.to]
        Rewritten(k, text) ==
            Between(ByteForLine(t, k) - 1, CommonChangedRange(LineBody(SplitLines(t)[k]), text))
        Empty(at) == [from |-> at, to |-> at]
        Walk(s, l) ==
            CASE l.kind = "context" -> [s EXCEPT !.line = @ + 1, !.removed = <<>>]
              [] l.kind = "remove" ->
                   [s EXCEPT !.line = @ + 1, !.removed = Append(@, s.line + 1)]
              [] l.kind = "add" /\ s.removed = <<>> ->
                   [s EXCEPT !.ranges = @ \cup {Empty(ByteForLine(t, s.line + 1))}]
              [] OTHER ->
                   [s EXCEPT !.removed = Tail(@),
                             !.ranges = @ \cup {Rewritten(Head(s.removed), l.text)}]
        Of(hunk) == FoldLeft(Walk, [line |-> Anchor(hunk.oldStart, hunk.oldCount),
                                    removed |-> <<>>, ranges |-> {}], hunk.lines).ranges
    IN  UNION {Of(hunks[n]) : n \in DOMAIN hunks}

\* conflicts_with_sanitized_edit
Conflicts(spans, r) ==
    \E s \in spans : IF r.from = r.to THEN r.from > s.from /\ r.from < s.to
                     ELSE r.from < s.to /\ r.to > s.from

-----------------------------------------------------------------------------
(* Translating                                                             *)

\* line_alias_ranges: the spans of one line, placed in the line.
LineAliasRanges(spans, t, line) ==
    LET Within(from, to) ==
            {[s EXCEPT !.from = @ - from + 1, !.to = @ - from + 1] :
                s \in {q \in spans : q.from >= from /\ q.to <= to}}
    IN  Within(ByteForLine(t, line), ByteForLine(t, line) + Len(LineText(t, line)))

\* project_line_alias_ranges: those before the change stay, those after it
\* move with the end of the line; one that the change touches is an error.
DropAliasRanges(old, new, ranges) ==
    LET c == CommonChangedRange(old, new)
    IN  [ok |-> TRUE, ranges |-> {s \in ranges : s.to <= c.from}]
ProjectAliasRanges(old, new, ranges) ==
    LET Projected(c, delta) ==
            [ok |-> \A s \in ranges : s.to <= c.from \/ s.from >= c.to,
             ranges |-> {IF s.to <= c.from THEN s
                         ELSE [s EXCEPT !.from = @ + delta, !.to = @ + delta] : s \in ranges}]
    IN  Projected(CommonChangedRange(old, new), Len(new) - Len(old))

TranslateKnown(text, ranges) ==
    Splice(text, {[from |-> s.from, to |-> s.to, new |-> s.original] : s \in ranges})

\* body_offset_for: an offset of the translated line, in the line it was.
BodyOffset(text, ranges, offset) ==
    LET End(s) == Len(TranslateKnown(SubSeq(text, 1, s.to - 1),
                                     {q \in ranges : q.to <= s.to})) + 1
        Grown(s) == End(s) - s.to
        Nearest(passed) == CHOOSE s \in passed : \A p \in passed : p.to <= s.to
        Back(passed) == IF passed = {} THEN offset ELSE offset - Grown(Nearest(passed))
    IN  Back({s \in ranges : End(s) <= offset})

\* reverse_alias_table: the first spelling of an original stands for it.
ReverseTable(spans) ==
    LET Pair(alias, original, rank) ==
            [raw |-> alias, normal |-> Normalize(alias), alias |-> original,
             meant |-> Normalize(original), rank |-> rank]
        Named(pairs) == {p \in pairs : p.normal \notin {<<>>, p.meant}}
        Table(pairs) ==
            {[raw |-> p.raw, normal |-> p.normal, alias |-> p.alias,
              originals |-> {q.meant : q \in {d \in pairs : d.normal = p.normal}}] :
                p \in FirstOfEach(pairs)}
    IN  Table(Named({Pair(s.text, s.original, <<1, s.from>>) : s \in spans} \cup
                    {Pair(Registry[i][2], Registry[i][1], <<2, i>>) : i \in DOMAIN Registry}))

MapEveryRun(run, table, protected) ==
    Splice(run, Replacing(run, NonOverlapping(
        HitsInRun(run, [from |-> 1, to |-> Len(run) + 1], table))))

\* reverse_map_new_text: a run is mapped back if rendering it again gives
\* the run; declarations may not take a projected name.
MapRun(run, table, protected) ==
    LET Checked(back) ==
            IF SanitizeRunText(back, TermTable, protected) = run THEN back ELSE run
    IN  IF run \in protected THEN run ELSE Checked(MapEveryRun(run, table, protected))

MapRuns(text, runs, table, protected) ==
    Splice(text, {[from |-> r.from, to |-> r.to,
                   new |-> MapRun(Slice(text, r), table, protected)] : r \in runs})

ReverseMap(text, table, protected, Prose(_), Declared(_)) ==
    LET Bad(r, hits) ==
            \/ hits # {} /\ Declared(r.from)
            \/ /\ Slice(text, r) \notin protected
               /\ \E h \in NonOverlapping(hits) : Cardinality(h.term.originals) > 1
        Mapped(runs) ==
            [ok |-> \A r \in runs : ~Bad(r, HitsInRun(text, r, table)),
             text |-> MapRuns(text, runs, table, protected)]
    IN  Mapped({r \in WordRuns(text) : ~Prose(r.from)})

\* Where a declaration stands in the patched mirror.
IsDeclared(t, i) ==
    \E r \in WordRuns(t), q \in WordRuns(t) :
        /\ r.from <= i /\ i < r.to /\ ~InComment(t, r.from)
        /\ q.to <= r.from /\ Slice(t, q) \in DeclarationWords
        /\ LineAt(t, q.from) = LineAt(t, r.from)
        /\ \A p \in WordRuns(t) : ~(q.to <= p.from /\ p.to <= r.from)

\* An added line: what it keeps of the line it replaces goes back as it was,
\* the rest is mapped, unless it stands where nothing is to be mapped.
TranslateAdded(patched, table, protected, removed, line, text) ==
    LET At(ranges, i) == ByteForLine(patched, line) + BodyOffset(text, ranges, i) - 1
        Mapped(ranges) == ReverseMap(TranslateKnown(text, ranges), table, protected,
                                     LAMBDA i : InComment(patched, At(ranges, i)),
                                     LAMBDA i : IsDeclared(patched, At(ranges, i)))
        Checked(kept) == IF kept.ok THEN Mapped(kept.ranges) ELSE [ok |-> FALSE, text |-> <<>>]
    IN  Checked(IF removed = <<>> THEN [ok |-> TRUE, ranges |-> {}]
                ELSE ProjectAliasRanges(Head(removed).body, text, Head(removed).ranges))

\* translate_hunk, line by line.
TranslateLine(t, patched, spans, table, protected, s, l) ==
    LET Kept(old, ranges) ==
            IF l.text # old THEN [s EXCEPT !.ok = FALSE]
            ELSE [s EXCEPT
                    !.oldLine = @ + 1,
                    !.newLine = IF l.kind = "context" THEN @ + 1 ELSE @,
                    !.removed = IF l.kind = "context" THEN <<>>
                                ELSE Append(@, [body |-> old, ranges |-> ranges]),
                    !.lines = Append(@, Line(l.kind, TranslateKnown(old, ranges)))]
        Added(mapped) ==
            [s EXCEPT !.ok = mapped.ok, !.newLine = @ + 1,
                      !.removed = IF @ = <<>> THEN @ ELSE Tail(@),
                      !.lines = Append(@, Line("add", mapped.text))]
    IN  IF ~s.ok THEN s
        ELSE IF l.kind = "add"
        THEN Added(TranslateAdded(patched, table, protected, s.removed, s.newLine + 1, l.text))
        ELSE Kept(LineText(t, s.oldLine + 1), LineAliasRanges(spans, t, s.oldLine + 1))

TranslateLines(t, patched, spans, table, protected, s, lines) ==
    FoldLeft(LAMBDA a, l : TranslateLine(t, patched, spans, table, protected, a, l), s, lines)

StartOf(h) ==
    [ok |-> TRUE, removed |-> <<>>, lines |-> <<>>,
     oldLine |-> Anchor(h.oldStart, h.oldCount), newLine |-> Anchor(h.newStart, h.newCount)]

TranslatePatch(t, patched, spans, protected, hunks) ==
    LET Joined(out) ==
            [ok |-> \A n \in DOMAIN hunks : out[n].ok,
             hunks |-> [n \in DOMAIN hunks |-> [hunks[n] EXCEPT !.lines = out[n].lines]]]
        Translated(table) ==
            Joined([n \in DOMAIN hunks |->
                TranslateLines(t, patched, spans, table, protected, StartOf(hunks[n]),
                               hunks[n].lines)])
    IN  Translated(ReverseTable(spans))

-----------------------------------------------------------------------------
(* The plan of one file, after the freshness checks                        *)

NoPlan == [op |-> "none", outcome |-> "none", real |-> <<>>, shown |-> <<>>]
Accepted(operation, real, shown) ==
    [op |-> operation, outcome |-> "accepted", real |-> real, shown |-> shown]
Refused(operation, why) == [NoPlan EXCEPT !.op = operation, !.outcome = why]
Whole(t) == [from |-> 1, to |-> Len(t) + 1]

\* The translated patch on the real file: what it gives must render to the
\* patched mirror and come back from it.
PlanLanded(landed, shown) ==
    LET Refuse(why) == Refused("modify", why)
        Checked(real, protected, again) ==
            IF AliasCollisions(real) # {} THEN Refuse("brings in an alias")
            ELSE IF again # shown THEN Refuse("does not render to the mirror")
            ELSE IF ReverseRegion(SpanMapOf(real, protected), again, Whole(again)) # real
            THEN Refuse("does not come back")
            ELSE Accepted("modify", real, shown)
        Rendered(real, protected) == Checked(real, protected, RenderText(real, protected))
    IN  IF ~landed.ok THEN Refuse("does not apply to the real file")
        ELSE Rendered(landed.text, CollectProtected(landed.text))

PlanModify(t, mirror, spans, hunks) ==
    LET Refuse(why) == Refused("modify", why)
        Translated(shown, back) ==
            IF ~back.ok THEN Refuse("declares or doubts an alias")
            ELSE PlanLanded(ApplyPatch(t, back.hunks), shown)
        Patched(patched) ==
            IF ~patched.ok THEN Refuse("does not apply")
            ELSE Translated(patched.text,
                     TranslatePatch(mirror, patched.text, spans, CollectProtected(t), hunks))
    IN  IF \E r \in ChangedRanges(mirror, hunks) : Conflicts(spans, r)
        THEN Refuse("edits a span")
        ELSE Patched(ApplyPatch(mirror, hunks))

\* created_content_from_patch and plan_create; the file is not there.
MapCreated(created) ==
    ReverseMap(created, ReverseTable(SpanMapOf(created, {})), {},
               LAMBDA i : InComment(created, i), LAMBDA i : IsDeclared(created, i))
PlanCreate(hunks) ==
    LET Refuse(why) == Refused("create", why)
        Checked(created, mapped) ==
            IF ~mapped.ok THEN Refuse("declares or doubts an alias")
            ELSE IF RenderText(mapped.text, CollectProtected(mapped.text)) # created
            THEN Refuse("does not render to the mirror")
            ELSE Accepted("create", mapped.text, created)
        Created(created) ==
            IF AliasCollisions(created) # {} THEN Refuse("brings in an alias")
            ELSE Checked(created, MapCreated(created))
        Text(lines) ==
            IF lines = <<>> \/ CountOf(lines, {"add"}) < Len(lines) THEN Refuse("adds nothing")
            ELSE Created(FlattenSeq([k \in DOMAIN lines |-> Append(lines[k].text, Newline)]))
    IN  Text(FlattenSeq([n \in DOMAIN hunks |-> hunks[n].lines]))

PlanDelete(mirror, hunks) ==
    LET Emptied(patched) ==
            IF ~patched.ok THEN Refused("delete", "does not apply")
            ELSE IF patched.text # <<>> THEN Refused("delete", "leaves a rest")
            ELSE Accepted("delete", <<>>, <<>>)
    IN  Emptied(ApplyPatch(mirror, hunks))

-----------------------------------------------------------------------------
(* What the agent does                                                     *)

\* An edit of the mirror, line by line, as its author means it.
BodiesOf(lines) == [k \in DOMAIN lines |-> LineBody(lines[k])]
Bodies(t) == BodiesOf(SplitLines(t))
Rewrite(lines, a, e) ==
    [out |-> a.out \o SubSeq(lines, a.at + 1, e.at) \o e.added, at |-> e.at + e.gone]
Rewrites(lines, edits) ==
    FoldLeft(LAMBDA a, e : Rewrite(lines, a, e), [out |-> <<>>, at |-> 0], edits)
Edited(t, edits) ==
    LET Result(lines, a) == a.out \o SubSeq(lines, a.at + 1, Len(lines))
    IN  Result(Bodies(t), Rewrites(Bodies(t), edits))

ProjectionInit ==
    /\ stage = "new" /\ realText = <<>> /\ mirrorText = <<>> /\ spanMap = {}
    /\ change = <<>> /\ patchPlan = NoPlan

\* A text in which an alias occurs, or that protects a denylisted term, is
\* refused by the renderer.
Show(t) ==
    /\ stage = "new" /\ stage' = "shown"
    /\ PolicyHolds
    /\ AliasCollisions(t) = {} /\ DenyConflicts(CollectProtected(t)) = {}
    /\ realText' = t
    /\ mirrorText' = RenderText(t, CollectProtected(t))
    /\ spanMap' = SpanMapOf(t, CollectProtected(t))
    /\ UNCHANGED <<change, patchPlan>>

Fits(e, n) == e.at + e.gone <= n /\ e.above <= e.at
Planned(edits, PlanOf(_)) ==
    /\ PolicyHolds
    /\ \A k \in DOMAIN edits : Fits(edits[k], Len(SplitLines(mirrorText)))
    /\ LET PlanOfFiles(files) == IF Len(files) # 1 THEN Refused("none", "not a patch")
                                 ELSE PlanOf(files[1])
       IN  patchPlan' = PlanOfFiles(ParsePatch(RenderPatch(HunksOf(mirrorText, edits))))
    /\ stage' = "planned" /\ change' = edits
    /\ UNCHANGED <<realText, mirrorText, spanMap>>

SubmitPatch(edits) ==
    stage = "shown" /\ Planned(edits, LAMBDA h : PlanModify(realText, mirrorText, spanMap, h))
SubmitCreate(edits) == stage = "new" /\ Planned(edits, PlanCreate)
SubmitDelete(edits) ==
    stage = "shown" /\ Planned(edits, LAMBDA h : PlanDelete(mirrorText, h))

ProjectionRest == stage = "planned" /\ UNCHANGED projectionVars

ProjectionNext ==
    \/ \E t \in RealTexts : Show(t)
    \/ \E edits \in AgentEdits :
          SubmitPatch(edits) \/ SubmitCreate(edits) \/ SubmitDelete(edits)
    \/ ProjectionRest

ProjectionSpec == ProjectionInit /\ [][ProjectionNext]_projectionVars

-----------------------------------------------------------------------------
(* Properties                                                              *)

\* What a word of a text hides or could hide, letter by letter.
Spells(t, i, j, term) ==
    /\ \A k \in i..(j - 1) : IsWordChar(t[k])
    /\ t[i] # Joint /\ t[j - 1] # Joint
    /\ Normalize(SubSeq(t, i, j - 1)) = term.normal
WordAround(t, i) == CHOOSE r \in WordRuns(t) : r.from <= i /\ i < r.to
OnMarkedLine(t, w) ==
    \E r \in WordRuns(t), q \in WordRuns(t) :
        Slice(t, r) = w /\ Slice(t, q) \in Markers /\ LineAt(t, q.from) = LineAt(t, r.from)

\* A word of the language, of a line of the program's interface, or __such.
IsInterface(t, w) ==
    w \in Keywords \/ IsPrefix(<<Joint, Joint>>, w) \/ OnMarkedLine(t, w)
\* Occurrences of the term overlap each other, as those of aa in aaa.
Crowded(t, term) ==
    \E i, k \in DOMAIN t : \E j, l \in 2..(Len(t) + 1) :
        i < k /\ k < j /\ k < l /\ Spells(t, i, j, term) /\ Spells(t, k, l, term)
Residue(i, j, term) ==
    /\ Spells(mirrorText, i, j, term)
    /\ ~IsInterface(realText, Slice(mirrorText, WordAround(mirrorText, i)))
    /\ ~\E s \in spanMap : s.from < j /\ i < s.to

\* No term is left in a mirror, whatever its case and its joints, except in
\* words of the language and of the program's interface, and where an alias
\* and the letters around it happen to spell one; a term whose occurrences
\* overlap each other in the real file may be left too.
LeaksOnlyStraddle ==
    stage = "shown" =>
        \A i \in DOMAIN mirrorText : \A j \in (i + 1)..(Len(mirrorText) + 1) :
            \A term \in TermTable : Residue(i, j, term) => Crowded(realText, term)

\* What docs/THREAT_MODEL.md:296 says of every term; one that overlaps itself
\* refutes it, so no run checks it.
EveryTermIsReplaced ==
    stage = "shown" =>
        \A i \in DOMAIN mirrorText : \A j \in (i + 1)..(Len(mirrorText) + 1) :
            \A term \in TermTable : ~Residue(i, j, term)

\* The mirror and its span map are the real file: every span holds what it
\* says, and putting the originals back gives the file.
SpanMapIsExact ==
    stage = "shown" =>
        /\ \A s \in spanMap : s.to <= Len(mirrorText) + 1 /\ Slice(mirrorText, s) = s.text
        /\ ReverseRegion(spanMap, mirrorText, Whole(mirrorText))
               = realText

\* The mirror hides what it must and its span map leads back.
MirrorIsSound == LeaksOnlyStraddle /\ SpanMapIsExact

\* A patch means the edit it was made from: it is read as one patch of one
\* file whatever its lines look like, it applies, and the mirror it asks for
\* is the edited one.
PatchMeansItsEdit ==
    stage = "planned" =>
        /\ patchPlan.outcome \notin {"not a patch", "does not apply"}
        /\ patchPlan.outcome = "accepted" =>
               Bodies(patchPlan.shown) = Edited(mirrorText, change)

\* The lines of the real file that no accepted edit touches stay what they
\* are and in their order, whatever became of the lines in between.
OtherLinesStay ==
    patchPlan.op = "modify" /\ patchPlan.outcome = "accepted" =>
        LET old == Bodies(realText)
            new == Bodies(patchPlan.real)
            From(n) == IF n = 0 THEN 1 ELSE change[n].at + change[n].gone + 1
            To(n) == IF n = Len(change) THEN Len(old) ELSE change[n + 1].at
        IN  /\ Len(new) = Len(old) + GrownBy(change)
            /\ \A n \in 0..Len(change) : \A k \in From(n)..To(n) :
                  new[k + GrownBy(SubSeq(change, 1, n))] = old[k]

\* In a line that replaces another, every name outside the words that changed
\* arrives in the real file in the spelling it had there.
SpellingsStay ==
    patchPlan.op = "modify" /\ patchPlan.outcome = "accepted" /\ Len(change) = 1 =>
        LET e == change[1]
            new == Bodies(patchPlan.real)
            shown == Bodies(mirrorText)
            Originals(k, r) == LET at == ByteForLine(mirrorText, k) - 1
                               IN  ReverseRegion(spanMap, mirrorText,
                                       [from |-> at + r.from, to |-> at + r.to])
            Inside(line, i) == \E r \in WordRuns(line) : r.from < i /\ i < r.to
        IN  \A k \in 1..e.gone : k <= Len(e.added) =>
                LET line == shown[e.at + k]
                    c == CommonChangedRange(line, e.added[k])
                    n == Len(line)
                    now == new[e.at + k]
                IN  /\ \A i \in 1..c.from : ~Inside(line, i) /\ ~Inside(e.added[k], i) =>
                           IsPrefix(Originals(e.at + k, [from |-> 1, to |-> i]), now)
                    /\ \A i \in c.to..(n + 1) :
                           ~Inside(line, i) /\ ~Inside(e.added[k], i + Len(e.added[k]) - n) =>
                           IsSuffix(Originals(e.at + k, [from |-> i, to |-> n + 1]), now)

\* An edit that only adds lines of words that are no alias, spell no term and
\* declare nothing is never refused, even where they hold an alias in a longer
\* word; nor is a new file of such lines.
IsPlain(w) ==
    /\ w \notin Keywords \cup DeclarationWords
    /\ \A e \in TermTable : Normalize(w) # Normalize(e.alias)
    /\ HitsInRun(w, [from |-> 1, to |-> Len(w) + 1], TermTable) = {}
PlainAdditionsLand ==
    patchPlan.op \in {"modify", "create"} /\ (\A n \in DOMAIN change : change[n].gone = 0
        /\ \A k \in DOMAIN change[n].added : \A r \in WordRuns(change[n].added[k]) :
               IsPlain(Slice(change[n].added[k], r)))
    => patchPlan.outcome = "accepted"

\* A name of the registry that the agent writes in code on a line of its own
\* of a file it edits, in any casing, arrives in the real file as a spelling
\* of the original.
RegistryNamesReturn ==
    patchPlan.op = "modify" /\ Len(change) = 1 /\ change[1].gone = 0 =>
        \A k \in DOMAIN change[1].added : \A i \in DOMAIN Registry :
            change[1].added[k] # <<>> /\ (\A j \in DOMAIN change[1].added[k] :
                IsWordChar(change[1].added[k][j]))
            /\ Normalize(change[1].added[k]) = Normalize(Registry[i][2])
            /\ Len(change[1].added) = 1
            => /\ patchPlan.outcome = "accepted"
               /\ Normalize(Bodies(patchPlan.real)[change[1].at + k])
                      = Normalize(Registry[i][1])

\* What the agent writes anew arrives as what it means.
NewTextComesBack == PlainAdditionsLand /\ RegistryNamesReturn
=============================================================================
