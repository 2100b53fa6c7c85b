------------------------------ MODULE Sanitizer ------------------------------
(***************************************************************************)
(* The lexical sanitizer (src/sanitize.rs) and its span maps (src/map.rs)  *)
(* as operators: which words of a text are terms to hide, which of them    *)
(* stay because the program's interface needs them, and what the mirror    *)
(* holds instead.                                                          *)
(*                                                                         *)
(* A text is a sequence of characters: letters of both cases, the joint    *)
(* that identifiers may hold anywhere, a comment mark, the end of a line   *)
(* and separators.  Ranges are [from, to): one-based, the end excluded.    *)
(* There is one comment style and no string literal, which the protected   *)
(* set treats alike, and the texts are of a code language.                 *)
(***************************************************************************)
EXTENDS Naturals, FiniteSets, Sequences, SequencesExt

CONSTANTS
    Capital,    \* [lower-case letters -> upper-case letters]
    Keywords,   \* words of the language
    Markers,    \* those that open a declaration or an import: pub, use, ...
    Registry, Dictionary,  \* sequences of <<term, alias>>
    Denylist,   \* sequence of <<term, its derived alias>>
    Allowlist   \* set of terms

\* A character is a string, and the end of a line no letter; derive_alias never
\* returns an empty string.
Words == Seq(STRING)
ASSUME SanitizerAssumption ==
    /\ Markers \subseteq Keywords
    /\ DOMAIN Capital \subseteq STRING /\ Capital \in [DOMAIN Capital -> STRING]
    /\ \A c \in DOMAIN Capital : c # "nl" /\ Capital[c] # "nl"
    /\ Registry \in Seq(Words \X Words) /\ Dictionary \in Seq(Words \X Words)
    /\ Denylist \in Seq(Words \X (Words \ {<<>>}))

Joint == "_"
Newline == "nl"
CommentMark == "#"
Small == DOMAIN Capital
Large == {Capital[c] : c \in Small}
IsWordChar(c) == c \in Small \cup Large \cup {Joint}
ToLower(c) == IF c \in Large THEN CHOOSE d \in Small : Capital[d] = c ELSE c
ToUpper(c) == IF c \in Small THEN Capital[c] ELSE c

Slice(t, r) == SubSeq(t, r.from, r.to - 1)
Normalize(w) == SelectSeq([i \in DOMAIN w |-> ToLower(w[i])], LAMBDA c : c # Joint)
Holds(w, needle) == \E i \in 0..Len(w) : IsPrefix(needle, SubSeq(w, i + 1, Len(w)))

\* Maximal runs of word characters.
WordRuns(t) ==
    {r \in {[from |-> i, to |-> j] : i \in 1..Len(t), j \in 2..(Len(t) + 1)} :
        /\ r.from < r.to /\ \A k \in r.from..(r.to - 1) : IsWordChar(t[k])
        /\ r.from = 1 \/ ~IsWordChar(t[r.from - 1])
        /\ r.to = Len(t) + 1 \/ ~IsWordChar(t[r.to])}

-----------------------------------------------------------------------------
(* The configured terms                                                    *)

\* matchability_error: a term fires only if it is one run with a letter.
Matchable(w) == /\ w # <<>> /\ \A i \in DOMAIN w : IsWordChar(w[i])
                /\ Normalize(w) # <<>>

Entries ==
    LET Of(pairs, source, rank) ==
            {[raw |-> pairs[i][1], normal |-> Normalize(pairs[i][1]),
              alias |-> pairs[i][2], source |-> source, rank |-> <<rank, i>>] :
                 i \in DOMAIN pairs}
    IN  Of(Registry, "registry", 1) \cup Of(Dictionary, "dictionary", 2)
            \cup Of(Denylist, "deny", 3)
Precedes(r, q) == r[1] < q[1] \/ (r[1] = q[1] /\ r[2] < q[2])

\* The first entry of a spelling counts; an allowlisted one never does.
FirstOfEach(entries) ==
    {e \in entries : \A d \in entries : d.normal = e.normal => ~Precedes(d.rank, e.rank)}
TermTable ==
    {e \in FirstOfEach({d \in Entries : Matchable(d.raw)}) :
        e.normal \notin {Normalize(w) : w \in Allowlist}}

\* sanitizer_policy_violations: no configuration is loaded or saved with an
\* entry that never fires, with two terms of one alias or with an alias that
\* holds a term.  Path entries and the ranges of the numbers are left out.
Unmatchable ==
    {e \in Entries : ~Matchable(e.raw) \/ (e.source # "deny" /\ ~Matchable(e.alias))}
AliasesAreClean ==
    LET Clean(terms) ==
          \A a, b \in terms : /\ a # b => Normalize(a.alias) # Normalize(b.alias)
                              /\ ~Holds(Normalize(a.alias), b.normal)
    IN  Clean(TermTable)
PolicyHolds == /\ Unmatchable = {} /\ \A w \in Allowlist : Matchable(w)
               /\ AliasesAreClean

-----------------------------------------------------------------------------
(* Hits                                                                    *)

\* The ranges that a walk from left to right takes: none that starts inside
\* one it took.
Leftmost(ranges) ==
    LET taken[r \in ranges] ==
            \A q \in ranges : q.from < r.from /\ r.from < q.to => ~taken[q]
    IN  {r \in ranges : taken[r]}

\* r spells the term, whatever its case and joints.
IsOccurrence(t, r, term) ==
    /\ t[r.from] # Joint /\ t[r.to - 1] # Joint
    /\ Normalize(Slice(t, r)) = term.normal

\* The occurrences of each term in one run; those of one term do not overlap.
HitsInRun(t, run, terms) ==
    LET within == {r \in {[from |-> i, to |-> j] : i \in run.from..(run.to - 1),
                                                   j \in (run.from + 1)..run.to} : r.from < r.to}
        Found(term) == Leftmost({r \in within : IsOccurrence(t, r, term)})
    IN  UNION {{[from |-> r.from, to |-> r.to, term |-> term] : r \in Found(term)} :
                   term \in terms}

\* From left to right, of those that start together the longest.
NonOverlapping(hits) ==
    LET Longest(s) == CHOOSE h \in hits :
                          h.from = s /\ \A g \in hits : g.from = s => g.to <= h.to
    IN  Leftmost({Longest(h.from) : h \in hits})

\* The casing of the slice, put on the alias.
AdaptReplacement(slice, alias) ==
    LET word == [i \in DOMAIN alias |-> IF IsWordChar(alias[i]) THEN alias[i] ELSE Joint]
        lower == \E i \in DOMAIN slice : slice[i] \in Small
        upper == \E i \in DOMAIN slice : slice[i] \in Large
    IN  IF upper /\ ~lower THEN [i \in DOMAIN word |-> ToUpper(word[i])]
        ELSE IF lower /\ ~upper THEN [i \in DOMAIN word |-> ToLower(word[i])]
        ELSE IF slice # <<>> /\ slice[1] \in Large /\ word # <<>>
        THEN [word EXCEPT ![1] = ToUpper(@)]
        ELSE word

\* t with each of the ranges replaced by its new text.
Splice(t, edits) ==
    FlattenSeq([i \in DOMAIN t |->
        IF \E e \in edits : e.from = i THEN (CHOOSE e \in edits : e.from = i).new
        ELSE IF \E e \in edits : e.from < i /\ i < e.to THEN <<>>
        ELSE <<t[i]>>])

Replacing(t, hits) == {[from |-> h.from, to |-> h.to,
                        new |-> AdaptReplacement(Slice(t, h), h.term.alias)] : h \in hits}

IsSanctioned(w, protected) == w \in Keywords \cup protected

SanitizeRunText(w, terms, protected) ==
    IF IsSanctioned(w, protected) THEN w
    ELSE Splice(w, Replacing(w, NonOverlapping(
             HitsInRun(w, [from |-> 1, to |-> Len(w) + 1], terms))))

-----------------------------------------------------------------------------
(* The protected set                                                       *)

InComment(t, i) == \E j \in 1..i : t[j] = CommentMark
                                   /\ \A k \in j..i : t[k] # Newline
LineAt(t, i) == 1 + Cardinality({j \in 1..(i - 1) : t[j] = Newline})

\* A marker among the first two code words of a line protects all of its
\* code words; elsewhere it protects the next four.
CollectProtected(t) ==
    LET code == {r \in WordRuns(t) : ~InComment(t, r.from)}
        Before(r) == {q \in code : LineAt(t, q.from) = LineAt(t, r.from) /\ q.from < r.from}
        Near(r) == {q \in Before(r) :
                        Cardinality({p \in Before(r) : p.from > q.from}) < 4}
        Leads(r) == {q \in code : /\ LineAt(t, q.from) = LineAt(t, r.from)
                                  /\ Cardinality(Before(q)) < 2}
    IN  {Slice(t, r) : r \in {q \in code :
            \/ \E p \in Leads(q) \cup Near(q) : Slice(t, p) \in Markers
            \/ q.to - q.from >= 2 /\ t[q.from] = Joint /\ t[q.from + 1] = Joint}} \ Keywords

\* denylist_protected_conflicts
DenyConflicts(protected) ==
    {w \in protected : HitsInRun(w, [from |-> 1, to |-> Len(w) + 1],
                                 {e \in TermTable : e.source = "deny"}) # {}}

\* alias_collisions: whole words of a text that read as an alias.
AliasCollisions(t) ==
    {r \in WordRuns(t) : \E e \in TermTable : Normalize(e.alias) = Normalize(Slice(t, r))}

\* find_leaks: the backstop of verify.
Leaks(t, terms, protected) ==
    UNION {HitsInRun(t, r, terms) :
               r \in {q \in WordRuns(t) : ~IsSanctioned(Slice(t, q), protected)}}

-----------------------------------------------------------------------------
(* Rendering                                                               *)

\* sanitize_content: what is to be replaced.
Replacements(t, protected) == Replacing(t, NonOverlapping(Leaks(t, TermTable, protected)))

RenderText(t, protected) == Splice(t, Replacements(t, protected))

\* render_with_map: each replacement with its place in both texts.
SpanMapUnshifted(t, protected) ==
    {[text |-> e.new, original |-> Slice(t, e), source |-> e.from,
      from |-> e.from, to |-> e.from + Len(e.new)] : e \in Replacements(t, protected)}

SpanMapOf(t, protected) ==
    LET Place(edits, e) ==
            1 + Len(Splice(SubSeq(t, 1, e.from - 1), {d \in edits : d.from < e.from}))
        Spans(edits) ==
            {[text |-> e.new, original |-> Slice(t, e), source |-> e.from,
              from |-> Place(edits, e), to |-> Place(edits, e) + Len(e.new)] : e \in edits}
    IN  Spans(Replacements(t, protected))

\* reverse_sanitized_region
ReverseRegion(spans, t, r) ==
    LET inside == {s \in spans : s.from >= r.from /\ s.to <= r.to}
    IN  Splice(Slice(t, r), {[from |-> s.from - r.from + 1, to |-> s.to - r.from + 1,
                              new |-> s.original] : s \in inside})
=============================================================================
