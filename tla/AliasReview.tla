---------------------------- MODULE AliasReview ----------------------------
(***************************************************************************)
(* The review of queued aliases (src/proposal.rs) and the semantic alias   *)
(* store it commits to (src/semantic_store.rs).                            *)
(*                                                                         *)
(* Three kinds of process share the store: a reviewer resolving one item,  *)
(* a bulk approval, and the semantic half of an index pass, which a bulk   *)
(* approval also runs.  Each asks a language server for reference closures *)
(* and holds the workspace lock only around its transactions; users edit   *)
(* sources at any time, and a process may die between two writes.          *)
(*                                                                         *)
(* A document is one of a few versions of a file (its content hash); it    *)
(* declares symbols and mentions names other files declare.  An alias is a *)
(* row of semantic_aliases of source proposal-v2.  Review items are        *)
(* numbered in the order of their creation.                                *)
(***************************************************************************)
EXTENDS Naturals, FiniteSets, FiniteSetsExt

CONSTANTS
    Symbols, Files, Versions,
    Name,        \* [Symbols -> spellings]
    FileOf,      \* [Symbols -> Files]
    Headers,     \* <<s, v>>: s is a header declaration in version v
    Local,       \* symbols that syntax proves closed
    Declares,    \* [Files -> [Versions -> SUBSET Symbols]]
    Mentions,    \* [Files -> [Versions -> sets of names used]]
    Confidence,  \* [item numbers -> Nat]
    Queues,      \* initial queues: functions from items to [target, alias]
    Legacy,      \* alias stores an older release may have left
    Keep,        \* journal.max_entries, the resolved items kept
    MaxEdits, MaxReviews, MaxBulks, MaxPasses, MaxFaults  \* bounds

None == 0

\* Symbols and items are numbers; a first start finds open items only, and rows
\* of symbols that exist.
ASSUME ReviewAssumption ==
    /\ Symbols \subseteq Nat \ {None} /\ 1 \in Versions
    /\ Name \in [Symbols -> Nat] /\ FileOf \in [Symbols -> Files]
    /\ \A f \in Files, v \in Versions :
           Declares[f][v] \subseteq {s \in Symbols : FileOf[s] = f}
    /\ \A q \in Queues :
           /\ DOMAIN q \subseteq Nat
           /\ q \in [DOMAIN q -> [target : Symbols, alias : Nat \ {None}, status : {"pending"}]]
    /\ \A rows \in Legacy :
           /\ rows \in [Symbols -> [name : Nat, status : {"none", "accepted"}]]
           /\ \A s \in Symbols : IF rows[s].status = "none" THEN rows[s].name = None
                  ELSE rows[s].name # None /\ s \in Declares[FileOf[s]][1]

VARIABLES
    disk, docs,              \* the version of each file: source, indexed
    bindings, links, closed, \* semantic_compiler_bindings, _links, _resolutions
    alias,                   \* semantic_aliases
    shown,                   \* the alias the mirror shows for a symbol
    items, ledger,           \* the review queue, the decision ledger
    migrated,                \* semantic-alias-safety-v2 has been applied
    lock,                    \* who holds the workspace lock exclusively
    single, bulk, pass,      \* the three processes
    edits, reviews, bulks, passes, faults,
    torn, gone, moved        \* history: died with the lock held and no pass
                             \* since; decided symbols that left the index;
                             \* files written since the index read them

graph == <<bindings, links, closed>>
queue == <<items, ledger>>
procs == <<lock, single, bulk, pass>>
spent == <<edits, reviews, bulks, passes, faults>>
past  == <<torn, gone, moved>>
vars  == <<disk, docs, graph, alias, shown, queue, migrated, procs, spent, past>>

Unnamed == [name |-> None, status |-> "none"]
Accepted(s) == alias[s].status = "accepted"
Stale == {s \in Symbols : alias[s].status = "stale"}

SingleIdle == [pc |-> "idle", item |-> None, approve |-> FALSE, docs |-> <<>>,
               found |-> <<>>, equal |-> {}]
BulkIdle == [pc |-> "idle", ids |-> {}, todo |-> {}, base |-> {}, docs |-> <<>>,
             found |-> <<>>]
PassOff == [pc |-> "off", full |-> FALSE, todo |-> {}, decision |-> None, lost |-> {}]

Init ==
    /\ disk = [f \in Files |-> 1] /\ docs = disk
    /\ bindings = {} /\ links = {} /\ closed = {}
    /\ alias \in Legacy
    /\ shown = [s \in Symbols |-> alias[s].name]
    /\ items \in Queues
    /\ ledger = [s \in Symbols |-> [verdict |-> "none", name |-> None]]
    /\ migrated = FALSE /\ lock = "free"
    /\ single = SingleIdle /\ bulk = BulkIdle /\ pass = PassOff
    /\ edits = 0 /\ reviews = 0 /\ bulks = 0 /\ passes = 0 /\ faults = 0
    /\ torn = FALSE /\ gone = {} /\ moved = {}

-----------------------------------------------------------------------------
(* The graph of symbols                                                    *)

Present(d) == UNION {Declares[f][d[f]] : f \in Files}

SymbolSets == SUBSET Symbols
Cuts(S, edges) == \E e \in edges : (e[1] \in S) # (e[2] \in S)

\* Everything that edges, read in both directions, reach from s: no set with s
\* leaves it out without cutting an edge.
Reach(edges, s) ==
    {t \in Symbols : \A S \in SymbolSets : s \in S /\ t \notin S => Cuts(S, edges)}

IsHeader(s) == <<s, docs[FileOf[s]]>> \in Headers

\* A header declaration and an implementation with the same declarator.
Twins == {p \in Present(docs) \X Present(docs) :
             /\ Name[p[1]] = Name[p[2]]
             /\ IsHeader(p[1]) /\ ~IsHeader(p[2])}

\* The components whose members must share one alias.
Representatives == links \cup Twins

Drifted(c, d) == \E b \in bindings : b[1] = c /\ d[b[2]] # b[3]

\* A resolution that covers s and none of whose bindings drifted.
ActiveCanonicals(s) ==
    {c \in closed : (c = s \/ <<c, s>> \in links) /\ ~Drifted(c, docs)}

HasHistory(s) == \/ \E b \in bindings : b[1] = s
                 \/ \E l \in links : s \in {l[1], l[2]}

Complete(s) == \/ ActiveCanonicals(s) # {}
               \/ ~HasHistory(s) /\ s \in Local

\* A mention that no binding of the indexed version resolves.
Unresolved(name, d) ==
    \E f \in Files :
        /\ name \in Mentions[f][d[f]]
        /\ ~\E b \in bindings : /\ b[1] \in Present(d) /\ Name[b[1]] = name
                                /\ b[2] = f /\ b[3] = d[f]

-----------------------------------------------------------------------------
(* Compiler closures: what a language server answers, and its admission    *)

\* A closure of t: the symbols declared at its locations, the files with the
\* other locations, and the version of every file as the server read it.
Closure(t, members, uses) ==
    [target |-> t, members |-> members, uses |-> uses,
     read |-> [f \in {FileOf[m] : m \in members} \cup uses |-> disk[f]]]

UsesOf(t) == {f \in Files : Name[t] \in Mentions[f][disk[f]]}

\* Quiescent, or with only the opened file indexed.
Answers(t) ==
    {Closure(t, {m \in Present(disk) : Name[m] = Name[t]}, UsesOf(t)),
     Closure(t, {t}, UsesOf(t) \cap {FileOf[t]})}

BoundFiles(t) == {f \in Files : \E b \in bindings : b = <<t, f, docs[f]>>}

\* validate_compiler_reference_closure
Admissible(c, equal) ==
    /\ c.target \in Present(docs) /\ c.target \in c.members
    /\ equal \subseteq Present(docs)
    /\ \A e \in equal : Name[e] = Name[c.target]
    /\ \A f \in DOMAIN c.read : c.read[f] = docs[f] /\ docs[f] = disk[f]
    /\ BoundFiles(c.target) \subseteq c.uses

\* admit_compiler_reference_batch: one transaction for all of them.
AdmitAll(cs, equal) ==
    LET targets == {c.target : c \in cs}
        located == UNION {{<<c.target, f, docs[f]>> : f \in c.uses} : c \in cs}
        taken == {b \in bindings : \E l \in located :
                      b[2] = l[2] /\ b[3] = l[3] /\ Name[b[1]] = Name[l[1]]}
    IN  /\ bindings' = ({b \in bindings : b[1] \notin targets} \ taken) \cup located
        /\ links' = {l \in links : l[1] \notin targets} \cup
               UNION {{<<c.target, m>> : m \in (c.members \cup equal[c.target])
                                                   \cap Present(docs)} : c \in cs}
        /\ closed' = closed \cup targets

Owners(name) == {s \in Symbols : alias[s].name = name /\ alias[s].status # "none"}

\* Other originals are not asked for.
AliasIsShared(members, name) ==
    \A m \in members : Accepted(m) => alias[m].name = name

\* No member has another alias, and no other original has this one.
AliasIsFree(members, name) ==
    /\ \A m \in members : Accepted(m) => alias[m].name = name
    /\ \A o \in Owners(name) \ members : \E m \in members : Name[m] = Name[o]

\* validate_symbol_alias_candidate
CandidateIsValid(t, name, equal) ==
    /\ \A e \in equal : e \in Present(docs) /\ Name[e] = Name[t]
    /\ AliasIsFree(Reach(links, t) \cup equal, name)

\* accept_symbol_aliases, whose checks see the earlier entries of the batch.
Acceptable(pairs) ==
    /\ \A p \in pairs :
           LET members == Reach(links, p[1])
           IN  /\ Complete(p[1])
               /\ \A m \in members : m \in Present(docs) /\ Name[m] = Name[p[1]]
               /\ AliasIsFree(members, p[2])
    /\ \A p, q \in pairs : p # q =>
           /\ p[1] \in Reach(links, q[1]) => p[2] = q[2]
           /\ p[2] = q[2] => Name[p[1]] = Name[q[1]]

AcceptAll(pairs) ==
    alias' = [s \in Symbols |->
        LET mine == {p \in pairs : s \in Reach(links, p[1])}
        IN  IF mine = {} THEN alias[s]
            ELSE [name |-> (CHOOSE p \in mine : TRUE)[2], status |-> "accepted"]]

-----------------------------------------------------------------------------
(* The mirror                                                              *)

Wanted(s) == IF s \in Present(docs) /\ Accepted(s) THEN alias[s].name ELSE None

\* A file is rendered again when its map disagrees with the aliases; the
\* overlay is left out while the source is not the indexed version.
RefreshMirror(symbols) ==
    LET dirty == {FileOf[s] : s \in {x \in symbols : shown[x] # Wanted(x)}}
    IN  shown' = [s \in Symbols |->
            IF FileOf[s] \notin dirty THEN shown[s]
            ELSE IF disk[FileOf[s]] = docs[FileOf[s]] THEN Wanted(s) ELSE None]

Edit ==
    /\ edits < MaxEdits /\ edits' = edits + 1
    /\ \E f \in Files, v \in Versions :
           v # disk[f] /\ disk' = [disk EXCEPT ![f] = v] /\ moved' = moved \cup {f}
    /\ UNCHANGED <<docs, graph, alias, shown, queue, migrated, procs, reviews,
                   bulks, passes, faults, torn, gone>>

-----------------------------------------------------------------------------
(* The semantic index pass, under the exclusive lock                       *)

Passing(pc) == pass.pc = pc
Advance(pc) == pass' = [pass EXCEPT !.pc = pc]

StartPass ==
    /\ lock = "free" /\ passes < MaxPasses /\ passes' = passes + 1
    /\ lock' = "index"
    /\ pass' = [PassOff EXCEPT !.pc = "replace", !.full = TRUE]
    /\ UNCHANGED <<disk, docs, graph, alias, shown, queue, migrated, single, bulk,
                   edits, reviews, bulks, faults, past>>

\* reapply_compiler_bindings: links of symbols that left go first; the alias
\* groups whose bindings drifted, or whose name is mentioned unresolved, and
\* those linked to them, become stale; their resolutions go.
Reapply(d) ==
    LET here == Present(d)
        kept == {l \in links : l[1] \in here /\ l[2] \in here}
        drifted == {c \in closed : c \notin here \/ Drifted(c, d)}
        hit == drifted \cup {l[2] : l \in {k \in kept : k[1] \in drifted}}
                       \cup {l[2] : l \in {k \in kept : Unresolved(Name[k[2]], d)}}
        first == Stale \cup {s \in hit : Accepted(s)}
        groups == {l[1] : l \in {k \in kept : k[2] \in first}}
        all == first \cup {s \in Symbols : /\ Accepted(s)
                                           /\ \E c \in groups : <<c, s>> \in kept}
    IN  /\ bindings' = bindings
        /\ links' = kept
        /\ closed' = (closed \ drifted) \ {l[1] : l \in {k \in kept : k[2] \in all}}
        /\ alias' = [s \in Symbols |->
               IF s \notin here THEN Unnamed
               ELSE IF s \in all THEN [alias[s] EXCEPT !.status = "stale"]
               ELSE alias[s]]

\* The lexical pass has just rendered the changed files without the overlay.
PassReplace ==
    /\ Passing("replace")
    /\ docs' = disk
    /\ IF docs = disk THEN UNCHANGED <<graph, alias>> ELSE Reapply(disk)
    /\ shown' = [s \in Symbols |->
           IF disk[FileOf[s]] # docs[FileOf[s]] THEN None ELSE shown[s]]
    /\ pass' = [pass EXCEPT !.pc = "refresh", !.todo =
           {l[1] : l \in {k \in links' : alias'[k[2]].status = "stale"}}]
    /\ gone' = gone \cup {s \in Symbols : s \notin Present(disk)
                                          /\ ledger[s].verdict = "approved"}
    /\ moved' = {}
    /\ UNCHANGED <<disk, queue, migrated, lock, single, bulk, spent, torn>>

\* refresh_stale_compiler_aliases_locked, one canonical symbol after the other
StaleIn(c) == {l[2] : l \in {k \in links : k[1] = c /\ k[2] \in Stale}}

RefreshAdmits ==
    /\ Passing("refresh") /\ pass.todo # {}
    /\ LET c == Min(pass.todo)
       IN  /\ StaleIn(c) # {} /\ c \in Present(disk)
           /\ \E ans \in Answers(c) :
                  /\ Admissible(ans, {})
                  /\ AdmitAll({ans}, [t \in {c} |-> {}])
           /\ pass' = [pass EXCEPT !.pc = "restore",
                                   !.decision = alias[Min(StaleIn(c))].name]
    /\ UNCHANGED <<disk, docs, alias, shown, queue, migrated, lock, single, bulk,
                   spent, past>>

\* A failed refresh ends the repairs.
RefreshSkipsRepair ==
    /\ Passing("refresh") /\ pass.todo # {}
    /\ pass' = [pass EXCEPT !.todo = @ \ {Min(@)},
                            !.pc = IF pass.todo = {Min(pass.todo)} THEN "legacy" ELSE @]
    /\ UNCHANGED <<disk, docs, graph, alias, shown, queue, migrated, lock, single,
                   bulk, spent, past>>

\* The server fails, its closure is refused, or an earlier one restored it.
RefreshGivesUp ==
    /\ Passing("refresh") /\ pass.todo # {}
    /\ pass' = [pass EXCEPT !.todo = @ \ {Min(@)}]
    /\ UNCHANGED <<disk, docs, graph, alias, shown, queue, migrated, lock, single,
                   bulk, spent, past>>

\* Every stale row of the group becomes accepted again as it was.
RestoreRows ==
    /\ Passing("restore")
    /\ alias' = [s \in Symbols |-> IF s \in StaleIn(Min(pass.todo))
                                  THEN [alias[s] EXCEPT !.status = "accepted"] ELSE alias[s]]
    /\ pass' = [pass EXCEPT !.pc = "refresh", !.todo = @ \ {Min(@)}, !.decision = None]
    /\ UNCHANGED <<disk, docs, graph, shown, queue, migrated, lock, single, bulk,
                   spent, past>>

RefreshRestores ==
    /\ Passing("restore")
    /\ LET decided == {<<Min(pass.todo), pass.decision>>}
       IN  IF Acceptable(decided) THEN AcceptAll(decided) ELSE UNCHANGED alias
    /\ pass' = [pass EXCEPT !.pc = "refresh", !.todo = @ \ {Min(@)}, !.decision = None]
    /\ UNCHANGED <<disk, docs, graph, shown, queue, migrated, lock, single, bulk,
                   spent, past>>

\* remove_compiler_components_for_symbols
RemoveComponents(symbols) ==
    LET canon == symbols \cup {l[1] : l \in {k \in links : {k[1], k[2]} \cap symbols # {}}}
    IN  /\ bindings' = {b \in bindings : b[1] \notin canon}
        /\ links' = {l \in links : l[1] \notin canon}
        /\ closed' = closed \ canon

Forsake(symbols) ==
    /\ alias' = [s \in Symbols |-> IF s \in symbols THEN Unnamed ELSE alias[s]]
    /\ pass' = [pass EXCEPT !.lost = @ \cup {<<s, alias[s].name>> : s \in symbols},
                            !.pc = IF pass.pc = "legacy" THEN "forget"
                                   ELSE IF pass.full THEN "converge" ELSE "legacy"]

\* quarantine_unrestored_stale_aliases
PassQuarantine ==
    /\ Passing("quarantine") \/ (Passing("refresh") /\ pass.todo = {})
    /\ RemoveComponents(Stale) /\ Forsake(Stale)
    /\ UNCHANGED <<disk, docs, shown, queue, migrated, lock, single, bulk, spent, past>>

\* reconcile_equivalent_semantic_aliases: the alias of the header, or of the
\* first symbol, becomes the alias of the whole component.
Contract(members) ==
    LET named == {m \in members : Accepted(m)}
        headed == {m \in named : IsHeader(m)}
    IN  IF headed # {} THEN Min(headed) ELSE Min(named)

Active(members) == UNION {ActiveCanonicals(m) : m \in members}

Repairable(members) ==
    /\ Cardinality(members) > 1 /\ members \cap Stale = {}
    /\ \E m \in members : Accepted(m)
    /\ \A m, n \in members : Name[m] = Name[n]
    /\ (\A m \in members : Complete(m)) \/ Active(members) # {}
    /\ {s \in Symbols : Accepted(s) /\ alias[s].name = alias[Contract(members)].name}
           \subseteq members

PassConverge ==
    /\ Passing("converge")
    /\ LET Group(s) == Reach(Representatives, s) \cap Present(docs)
           mended == {s \in Present(docs) : Repairable(Group(s))}
       IN  /\ alias' = [s \in Symbols |->
                  IF s \in mended THEN alias[Contract(Group(s))] ELSE alias[s]]
           /\ links' = links \cup
                  {<<Min(Active(Group(s))), s>> : s \in
                       {x \in mended : \E m \in Group(x) : ~Complete(m)}}
    /\ Advance("legacy")
    /\ UNCHANGED <<disk, docs, bindings, closed, shown, queue, migrated, lock, single,
                   bulk, spent, past>>

\* quarantine_legacy_invalid_accepted_aliases, once: incomplete aliases, those
\* an earlier mapping of another original owns, and the rest of their groups.
LegacyUnsafe ==
    LET open == {s \in Symbols : Accepted(s) /\ ~(s \in Present(docs) /\ Complete(s))}
        rest == {s \in Symbols \ open : Accepted(s)}
        beaten == {s \in rest :
            LET rivals == {r \in rest : alias[r].name = alias[s].name}
            IN  Name[s] # Name[Min(rivals)]}
    IN  {s \in Symbols : Accepted(s) /\ Reach(links, s) \cap (open \cup beaten) # {}}

PassLegacy ==
    /\ Passing("legacy")
    /\ LET unsafe == IF migrated THEN {} ELSE LegacyUnsafe
       IN  RemoveComponents(unsafe) /\ Forsake(unsafe)
    /\ migrated' = TRUE
    /\ UNCHANGED <<disk, docs, shown, queue, lock, single, bulk, spent, past>>

PassRemembers ==
    /\ Passing("forget") /\ Advance("mirror")
    /\ UNCHANGED <<disk, docs, graph, alias, shown, queue, migrated, lock, single,
                   bulk, spent, past>>

\* forget_quarantined_alias_decisions
PassForget ==
    /\ Passing("forget")
    /\ ledger' = [s \in Symbols |->
           IF \E q \in pass.lost : q[1] = s \/ (Name[q[1]] = Name[s] /\ q[2] = ledger[s].name)
           THEN [verdict |-> "none", name |-> None] ELSE ledger[s]]
    /\ Advance("mirror")
    /\ UNCHANGED <<disk, docs, graph, alias, shown, items, migrated, lock, single,
                   bulk, spent, past>>

PassMirror ==
    /\ Passing("mirror")
    /\ RefreshMirror(IF pass.full THEN Symbols
                     ELSE UNION {Reach(links, q[1]) : q \in pass.lost})
    /\ Advance("queue")
    /\ UNCHANGED <<disk, docs, graph, alias, queue, migrated, lock, single, bulk,
                   spent, past>>
-----------------------------------------------------------------------------
(* The queue                                                               *)

Pending == {i \in DOMAIN items : items[i].status = "pending"}
Target(i) == items[i].target

\* The highest confidence, then the oldest.
Best(ids) == Min({i \in ids : \A j \in ids : Confidence[j] <= Confidence[i]})

AcceptedIn(edges, s) == {t \in Reach(edges, s) : Accepted(t)}

Mark(ids, status) ==
    items' = [i \in DOMAIN items |->
                 IF i \in ids THEN [items[i] EXCEPT !.status = status] ELSE items[i]]

\* Items of a component that has its alias, and all but the best of any other.
Redundant(ids, edges) ==
    {i \in ids : \/ AcceptedIn(edges, Target(i)) # {}
                 \/ i # Best({j \in ids : Target(j) \in Reach(edges, Target(i))})}

\* reconcile_review_queue_locked ends the pass.
PassQueue ==
    /\ Passing("queue")
    /\ LET valid == {i \in Pending : Target(i) \in Present(docs)}
       IN  Mark((Pending \ valid) \cup Redundant(valid, Representatives), "stale")
    /\ pass' = PassOff
    /\ torn' = (torn /\ ~pass.full)
    /\ IF lock = "index" THEN lock' = "free" /\ UNCHANGED bulk
       ELSE bulk' = [bulk EXCEPT !.pc = "retire"] /\ UNCHANGED lock
    /\ UNCHANGED <<disk, docs, graph, alias, shown, ledger, migrated, single, spent, gone, moved>>

\* prune_resolved_reviews
Prune(q) ==
    LET resolved == {i \in DOMAIN q : q[i].status # "pending"}
        old == {i \in resolved : Cardinality({j \in resolved : j > i}) >= Keep}
    IN  [i \in DOMAIN q \ old |-> q[i]]

\* record_review_decisions, then the best-effort pruning
RecordDecisions(ids, verdict) ==
    /\ ledger' = [s \in Symbols |->
           LET mine == {i \in ids : Target(i) = s}
           IN  IF mine = {} THEN ledger[s]
               ELSE [verdict |-> verdict, name |-> items[Min(mine)].alias]]
    /\ items' = Prune(items)

-----------------------------------------------------------------------------
(* A reviewer resolving one item                                           *)

SinglePc(pc) == single.pc = pc
Step(pc) == single' = [single EXCEPT !.pc = pc]
Mine == items[single.item]
IsPending(i) == i \in DOMAIN items /\ items[i].status = "pending"

ReviewerUnchanged ==
    UNCHANGED <<disk, docs, migrated, bulk, pass, edits, bulks, passes, faults, past>>

Begin ==
    /\ SinglePc("idle") /\ reviews < MaxReviews /\ reviews' = reviews + 1
    /\ \E i \in Pending, approve \in BOOLEAN :
           single' = [SingleIdle EXCEPT !.item = i, !.approve = approve,
                          !.pc = IF approve THEN "prepare" ELSE "lock"]
    /\ UNCHANGED <<graph, alias, shown, queue, lock>> /\ ReviewerUnchanged

Refused == single' = SingleIdle /\ lock' = (IF lock = "single" THEN "free" ELSE lock)

\* Under a shared lock: the indexed documents, and whether a closure is due.
Prepare ==
    /\ SinglePc("prepare") /\ lock = "free"
    /\ IF ~IsPending(single.item) \/ Mine.target \notin Present(docs) THEN Refused
       ELSE /\ single' = IF Mine.target \in Local
                         THEN [single EXCEPT !.pc = "lock"]
                         ELSE [single EXCEPT !.pc = "ask", !.docs = docs]
            /\ UNCHANGED lock
    /\ UNCHANGED <<graph, alias, shown, queue, reviews>> /\ ReviewerUnchanged

\* With no lock held.
Ask ==
    /\ SinglePc("ask")
    /\ LET t == Mine.target
       IN  \/ Refused
           \/ /\ IsPending(single.item) /\ t \in Present(disk)
              /\ \E ans \in Answers(t) :
                     single' = [single EXCEPT !.pc = "equal", !.found = ans]
              /\ UNCHANGED lock
    /\ UNCHANGED <<graph, alias, shown, queue, reviews>> /\ ReviewerUnchanged

\* populate_prepared_alias_equivalents, under a shared lock again
Equivalents ==
    /\ SinglePc("equal") /\ lock = "free"
    /\ LET c == single.found
           edges == Representatives \cup {<<c.target, m>> : m \in c.members}
       IN  single' = [single EXCEPT !.pc = "lock",
                                    !.equal = Reach(edges, c.target) \ {c.target}]
    /\ UNCHANGED <<graph, alias, shown, queue, lock, reviews>> /\ ReviewerUnchanged

HasClosure == single.found # <<>>

ApprovalIsCurrent ==
    /\ Mine.target \in Present(docs) /\ Mine.target \in Present(disk)
    /\ HasClosure => single.docs = docs

\* Every check of resolve_review_prepared comes before its first write.
ApprovalIsValid ==
    /\ Mine.target \in Present(docs) /\ Mine.target \in Present(disk)
    /\ HasClosure => /\ single.docs = docs
                     /\ CandidateIsValid(Mine.target, Mine.alias, single.equal)

Lock ==
    /\ SinglePc("lock") /\ lock = "free"
    /\ IF ~IsPending(single.item) \/ (single.approve /\ ~ApprovalIsValid) THEN Refused
       ELSE /\ lock' = "single"
            /\ Step(IF ~single.approve THEN "file"
                    ELSE IF HasClosure THEN "admit" ELSE "accept")
    /\ UNCHANGED <<graph, alias, shown, queue, reviews>> /\ ReviewerUnchanged

Admit ==
    /\ SinglePc("admit")
    /\ IF Admissible(single.found, single.equal)
       THEN /\ AdmitAll({single.found}, [t \in {Mine.target} |-> single.equal])
            /\ Step("accept") /\ UNCHANGED lock
       ELSE Refused /\ UNCHANGED graph
    /\ UNCHANGED <<alias, shown, queue, reviews>> /\ ReviewerUnchanged

Accept ==
    /\ SinglePc("accept")
    /\ LET pair == {<<Mine.target, Mine.alias>>}
       IN  IF Acceptable(pair) THEN AcceptAll(pair) /\ Step("mirror") /\ UNCHANGED lock
           ELSE Refused /\ UNCHANGED alias
    /\ UNCHANGED <<graph, shown, queue, reviews>> /\ ReviewerUnchanged

\* The members linked to the target are not refreshed.
MirrorTarget ==
    /\ SinglePc("mirror")
    /\ RefreshMirror({Mine.target}) /\ Step("file")
    /\ UNCHANGED <<graph, alias, queue, lock, reviews>> /\ ReviewerUnchanged

Mirror ==
    /\ SinglePc("mirror")
    /\ RefreshMirror(Reach(links, Mine.target)) /\ Step("file")
    /\ UNCHANGED <<graph, alias, queue, lock, reviews>> /\ ReviewerUnchanged

Verdict == IF single.approve THEN "approved" ELSE "rejected"

WriteItem ==
    /\ SinglePc("file")
    /\ Mark({single.item}, Verdict) /\ Step("ledger")
    /\ UNCHANGED <<graph, alias, shown, ledger, lock, reviews>> /\ ReviewerUnchanged

WriteLedger ==
    /\ SinglePc("ledger")
    /\ RecordDecisions({single.item}, Verdict) /\ Refused
    /\ UNCHANGED <<graph, alias, shown, reviews>> /\ ReviewerUnchanged

Review == \/ Begin \/ Prepare \/ Ask \/ Equivalents \/ Lock \/ Admit \/ Accept
          \/ Mirror \/ WriteItem \/ WriteLedger
-----------------------------------------------------------------------------
(* A bulk approval                                                         *)

BulkPc(pc) == bulk.pc = pc
BulkStep(pc) == bulk' = [bulk EXCEPT !.pc = pc]
BulkUnchanged == UNCHANGED <<disk, docs, migrated, single, edits, reviews, passes,
                             faults, past>>
Abandon == bulk' = BulkIdle /\ lock' = (IF lock = "bulk" THEN "free" ELSE lock)

\* A stale index is refreshed first; otherwise only the repairs are made.
StartBulk ==
    /\ BulkPc("idle") /\ lock = "free" /\ bulks < MaxBulks /\ bulks' = bulks + 1
    /\ lock' = "bulk"
    /\ \E ids \in SUBSET Pending \ {{}} :
           bulk' = [BulkIdle EXCEPT !.pc = "index", !.ids = ids]
    /\ pass' = IF docs = disk THEN [PassOff EXCEPT !.pc = "quarantine"]
               ELSE [PassOff EXCEPT !.pc = "replace", !.full = TRUE]
    /\ UNCHANGED <<graph, alias, shown, queue>> /\ BulkUnchanged

\* retire_selected_invalid_proposals, retire_selected_alias_collisions
Retire ==
    /\ BulkPc("retire")
    /\ LET live == bulk.ids \cap Pending
           invalid == {i \in live : Target(i) \notin Present(disk)}
           Rivals(i) == {j \in live \ invalid : items[j].alias = items[i].alias}
           reserved(i) == {Name[s] : s \in {t \in Owners(items[i].alias) : Accepted(t)}}
           beaten == {i \in live \ invalid :
               IF reserved(i) # {} THEN Name[Target(i)] \notin reserved(i)
               ELSE Name[Target(i)] # Name[Target(Best(Rivals(i)))]}
       IN  Mark(invalid \cup beaten, "stale")
    /\ BulkStep("reread") /\ lock' = "free"
    /\ UNCHANGED <<graph, alias, shown, ledger, pass, bulks>> /\ BulkUnchanged

\* No lock: an item resolved meanwhile abandons the selection.
Reread ==
    /\ BulkPc("reread")
    /\ LET live == bulk.ids \cap Pending
           lost == {i \in bulk.ids : i \notin DOMAIN items
                                     \/ items[i].status \in {"approved", "rejected"}}
       IN  IF lost # {} \/ live = {} THEN Abandon
           ELSE /\ bulk' = [bulk EXCEPT !.pc = "preflight", !.ids = live]
                /\ UNCHANGED lock
    /\ UNCHANGED <<graph, alias, shown, queue, pass, bulks>> /\ BulkUnchanged

\* preflight_existing_target_aliases, under a shared lock
Preflight ==
    /\ BulkPc("preflight") /\ lock = "free"
    /\ LET Clash(i) ==
               \/ \E s \in AcceptedIn(Representatives, Target(i)) :
                      alias[s].name # items[i].alias
               \/ \E j \in bulk.ids : /\ Target(j) \in Reach(Representatives, Target(i))
                                      /\ items[j].alias # items[i].alias
       IN  IF bulk.ids \subseteq Pending /\ ~\E i \in bulk.ids : Clash(i)
           THEN /\ bulk' = [bulk EXCEPT !.pc = "prepare", !.base = Representatives]
                /\ UNCHANGED lock
           ELSE Abandon
    /\ UNCHANGED <<graph, alias, shown, queue, pass, bulks>> /\ BulkUnchanged

\* One closure per component, for the first item that selects it.
Asked == {i \in bulk.ids :
             /\ Target(i) \notin Local
             /\ \A j \in bulk.ids : j < i => Target(j) \notin Reach(bulk.base, Target(i))}

\* prepare_compiler_proposal_resolutions, up to the language server
PrepareAll ==
    /\ BulkPc("prepare") /\ lock = "free"
    /\ IF bulk.ids \subseteq Pending /\ \A i \in bulk.ids : Target(i) \in Present(docs)
       THEN /\ bulk' = [bulk EXCEPT !.pc = "ask", !.docs = docs]
            /\ UNCHANGED lock
       ELSE Abandon
    /\ UNCHANGED <<graph, alias, shown, queue, pass, bulks>> /\ BulkUnchanged

AskAll ==
    /\ BulkPc("ask")
    /\ \/ /\ bulk.ids \subseteq DOMAIN items
          /\ \A i \in Asked : Target(i) \in Present(disk)
          /\ \E answers \in [Asked -> UNION {Answers(Target(i)) : i \in Asked}] :
                 /\ \A i \in Asked : answers[i] \in Answers(Target(i))
                 /\ bulk' = [bulk EXCEPT !.pc = "relock", !.found = answers]
          /\ UNCHANGED lock
       \/ Abandon
    /\ UNCHANGED <<graph, alias, shown, queue, pass, bulks>> /\ BulkUnchanged

Found == DOMAIN bulk.found

Relock ==
    /\ BulkPc("relock") /\ lock = "free"
    /\ IF Found # {} /\ bulk.docs # docs THEN Abandon
       ELSE BulkStep("judge") /\ lock' = "bulk"
    /\ UNCHANGED <<graph, alias, shown, queue, pass, bulks>> /\ BulkUnchanged

\* The components once the closures are known.
Proven == bulk.base \cup links \cup
          UNION {{<<bulk.found[i].target, m>> : m \in bulk.found[i].members} : i \in Found}

EqualTo(t) == Reach(Proven, t) \ {t}

\* quarantine_unadmissible_compiler_resolutions: one round of its loop.
Judge ==
    /\ BulkPc("judge")
    /\ LET bad == {i \in Found : ~Admissible(bulk.found[i], EqualTo(bulk.found[i].target))}
           left == bulk.ids \ bad
       IN  IF bad = {} THEN BulkStep("choose") /\ UNCHANGED <<items, lock>>
           ELSE IF bad \subseteq Pending
           THEN /\ Mark(bad, "stale")
                /\ IF left = {} THEN Abandon
                   ELSE /\ bulk' = [bulk EXCEPT !.ids = left,
                                        !.found = [i \in Found \ bad |-> @[i]]]
                        /\ UNCHANGED lock
           ELSE Abandon /\ UNCHANGED items
    /\ UNCHANGED <<graph, alias, shown, ledger, pass, bulks>> /\ BulkUnchanged

\* register_selected_alias, with the accepted aliases registered first.
Registers(ids) ==
    /\ \A i \in ids : \A s \in Owners(items[i].alias) :
           Accepted(s) => \/ Name[s] = Name[Target(i)]
                          \/ s \in Reach(Proven, Target(i))
    /\ \A i \in ids : \A s \in AcceptedIn(Proven, Target(i)) : alias[s].name = items[i].alias
    /\ \A i, j \in ids :
           /\ items[i].alias = items[j].alias => Name[Target(i)] = Name[Target(j)]
           /\ Target(i) \in Reach(Proven, Target(j)) => items[i].alias = items[j].alias

\* Items another reviewer resolved during the language server are not noticed.
ChooseBlindly ==
    /\ BulkPc("choose")
    /\ IF bulk.ids \subseteq DOMAIN items /\ Registers(bulk.ids)
       THEN /\ bulk' = [bulk EXCEPT !.pc = IF Found = {} THEN "accept" ELSE "admit"]
            /\ UNCHANGED lock
       ELSE Abandon
    /\ UNCHANGED <<graph, alias, shown, queue, pass, bulks>> /\ BulkUnchanged

\* retire_selected_target_alternatives, then every check of the apply phase
Choose ==
    /\ BulkPc("choose")
    /\ LET worse == Redundant(bulk.ids \cap Pending, Proven)
           left == bulk.ids \ worse
       IN  /\ Mark(worse, "stale")
           /\ IF /\ left # {} /\ left \subseteq Pending /\ Registers(left)
                 /\ \A i \in left : Target(i) \in Present(docs) \cap Present(disk)
              THEN /\ bulk' = [bulk EXCEPT !.pc = IF Found \cap left = {} THEN "accept"
                                                 ELSE "admit",
                                   !.ids = left, !.found = [i \in Found \cap left |-> @[i]]]
                   /\ UNCHANGED lock
              ELSE Abandon
    /\ UNCHANGED <<graph, alias, shown, ledger, pass, bulks>> /\ BulkUnchanged

AdmitBatch ==
    /\ BulkPc("admit")
    /\ LET cs == {bulk.found[i] : i \in Found}
       IN  IF \A c \in cs : Admissible(c, EqualTo(c.target))
           THEN /\ AdmitAll(cs, [t \in {c.target : c \in cs} |-> EqualTo(t)])
                /\ BulkStep("accept") /\ UNCHANGED lock
           ELSE Abandon /\ UNCHANGED graph
    /\ UNCHANGED <<alias, shown, queue, pass, bulks>> /\ BulkUnchanged

AcceptBatch ==
    /\ BulkPc("accept")
    /\ LET pairs == {<<Target(i), items[i].alias>> : i \in bulk.ids}
       IN  IF Acceptable(pairs) THEN AcceptAll(pairs) /\ BulkStep("mirror") /\ UNCHANGED lock
           ELSE Abandon /\ UNCHANGED alias
    /\ UNCHANGED <<graph, shown, queue, pass, bulks>> /\ BulkUnchanged

MirrorBatch ==
    /\ BulkPc("mirror")
    /\ RefreshMirror(UNION {Reach(links, Target(i)) : i \in bulk.ids})
    /\ bulk' = [bulk EXCEPT !.pc = "record", !.todo = bulk.ids]
    /\ UNCHANGED <<graph, alias, queue, lock, pass, bulks>> /\ BulkUnchanged

\* Item files one by one, then the ledger once.
RecordItem ==
    /\ BulkPc("record")
    /\ IF bulk.todo = {} THEN BulkStep("ledger") /\ UNCHANGED items
       ELSE /\ Mark({Min(bulk.todo)}, "approved")
            /\ bulk' = [bulk EXCEPT !.todo = @ \ {Min(@)}]
    /\ UNCHANGED <<graph, alias, shown, ledger, lock, pass, bulks>> /\ BulkUnchanged

RecordLedger ==
    /\ BulkPc("ledger")
    /\ RecordDecisions(bulk.ids, "approved") /\ Abandon
    /\ UNCHANGED <<graph, alias, shown, pass, bulks>> /\ BulkUnchanged

BulkReview ==
    \/ StartBulk \/ Retire \/ Reread \/ Preflight \/ PrepareAll \/ AskAll
    \/ Relock \/ Judge \/ Choose \/ AdmitBatch \/ AcceptBatch \/ MirrorBatch
    \/ RecordItem \/ RecordLedger

-----------------------------------------------------------------------------
PassStep ==
    \/ PassReplace \/ RefreshAdmits \/ RefreshGivesUp \/ RefreshRestores
    \/ PassQuarantine \/ PassConverge \/ PassLegacy \/ PassForget \/ PassMirror
    \/ PassQueue

\* The death of a process: what it committed stays, its lock is released.
Die(p) ==
    /\ faults < MaxFaults /\ faults' = faults + 1
    /\ \/ /\ p = "single" /\ ~SinglePc("idle") /\ single' = SingleIdle
          /\ UNCHANGED <<bulk, pass>>
       \/ /\ p = "bulk" /\ ~BulkPc("idle") /\ bulk' = BulkIdle /\ UNCHANGED single
          /\ pass' = IF lock = "bulk" THEN PassOff ELSE pass
       \/ /\ p = "index" /\ lock = "index" /\ pass' = PassOff
          /\ UNCHANGED <<single, bulk>>
    /\ lock' = IF lock = p THEN "free" ELSE lock
    /\ torn' = (torn \/ lock = p)
    /\ gone' = IF lock = p THEN gone \cup {q[1] : q \in pass.lost} ELSE gone
    /\ UNCHANGED <<disk, docs, graph, alias, shown, queue, migrated, edits, reviews,
                   bulks, passes, moved>>

Rest == lock = "free" /\ SinglePc("idle") /\ BulkPc("idle") /\ UNCHANGED vars

Next == \/ Edit \/ StartPass \/ PassStep \/ Review \/ BulkReview
        \/ \E p \in {"single", "bulk", "index"} : Die(p)
        \/ Rest

Spec == Init /\ [][Next]_vars

-----------------------------------------------------------------------------
(* What verify reports of the semantic index (verify.rs)                   *)

OrphanAliases == {s \in Symbols : alias[s].status # "none" /\ s \notin Present(docs)}
SharedAliases == {p \in Symbols \X Symbols :
                     /\ Accepted(p[1]) /\ Accepted(p[2])
                     /\ alias[p[1]].name = alias[p[2]].name
                     /\ Name[p[1]] # Name[p[2]]}
IncompleteAliases == {s \in Symbols : Accepted(s) /\ ~Complete(s)}

-----------------------------------------------------------------------------
(* Properties                                                              *)

Statuses == {"pending", "approved", "rejected", "stale"}
Settled == lock = "free" /\ ~torn

Rows == [name : Nat, status : {"none", "accepted", "stale"}]
Items == [target : Symbols, alias : Nat \ {None}, status : Statuses]

\* Rows, items and links refer to symbols that exist in the model.
TypeOK ==
    /\ docs \in [Files -> Versions] /\ disk \in [Files -> Versions]
    /\ bindings \subseteq Symbols \X Files \X Versions
    /\ links \subseteq Symbols \X Symbols /\ closed \subseteq Symbols
    /\ alias \in [Symbols -> Rows]
    /\ \A s \in Symbols : alias[s].status = "none" <=> alias[s].name = None
    /\ shown \in [Symbols -> Nat]
    /\ DOMAIN items \subseteq Nat /\ items \in [DOMAIN items -> Items]
    /\ ledger \in [Symbols -> [verdict : {"none", "approved", "rejected"}, name : Nat]]
    /\ lock \in {"free", "single", "bulk", "index"}

\* accept_symbol_aliases, "aliases must be workspace-injective by original
\* spelling": once the old store is repaired no alias stands for two names,
\* whatever was stale, refreshed or converged meanwhile.
AliasesAreInjective ==
    migrated => SharedAliases = {}

\* No symbol and a symbol linked to it have two accepted aliases.
LinkedAliasesAgree ==
    \A l \in links : Accepted(l[1]) /\ Accepted(l[2]) => alias[l[1]].name = alias[l[2]].name

\* A compiler group keeps one alias: reviewers and bulk approvals check a closure
\* against aliases and groups they read before they took the lock, a pass restores,
\* converges and removes aliases one group after the other, and none of it splits
\* a group that agreed.  Only a closure a pass admits to restore a stale alias, which
\* no alias is compared with, may join two groups.
GroupsKeepOneAlias ==
    [][LinkedAliasesAgree /\ pass'.pc # "restore" => LinkedAliasesAgree']_vars

\* When nobody holds the lock no alias waits to be refreshed, a pass restores
\* it from a complete closure or removes it, and none outlives its symbol:
\* verify reports neither a stale nor an orphan alias.
StaleAliasesAreSettled == Settled => Stale \cup OrphanAliases = {}

\* Outside a pass the mirror shows an alias of the store or none; a symbol
\* whose file nobody wrote since it was indexed shows the alias it was given.
ShowsTheStore(s) ==
    shown[s] = Wanted(s) \/ (shown[s] = None /\ FileOf[s] \in moved)
MirrorShowsTheStore == Settled => \A s \in Symbols : ShowsTheStore(s)

\* A symbol whose approval the ledger remembers has an alias in force, unless
\* it left the index: the scan offers no decided target, so a quarantine must
\* have the decision forgotten.
DecisionsAreInForce ==
    Settled => \A s \in Symbols \ gone : ledger[s].verdict = "approved" => Accepted(s)

\* resolve_review_prepared, "A bad alias must not leave compiler links behind when
\* the review item itself remains pending": once the checks before the admission
\* have passed, the acceptance after it does not refuse.
AdmittedIsAccepted ==
    SinglePc("accept") /\ HasClosure => Acceptable({<<Mine.target, Mine.alias>>})

\* A resolved item is never resolved again, by another reviewer or a bulk
\* approval that selected it before; it may only be pruned.
DecisionsAreFinal ==
    [][\A i \in DOMAIN items' : items[i].status # "pending" =>
           items'[i].status = items[i].status]_vars

\* An item is marked approved only while its alias is in force.
ApprovedIsInForce ==
    [][\A i \in DOMAIN items' :
           items'[i].status = "approved" /\ items[i].status # "approved" =>
               Accepted(Target(i)) /\ alias[Target(i)].name = items[i].alias]_vars

\* A verdict stands, and an approval is true when it is given.
VerdictsStand == DecisionsAreFinal /\ ApprovedIsInForce

\* "No stale or partial compiler result is projected": an accepted alias of a
\* symbol that is not local has a current closure.
OnlyCompleteIsProjected ==
    Settled /\ migrated => IncompleteAliases = {}
=============================================================================
