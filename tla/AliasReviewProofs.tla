------------------------- MODULE AliasReviewProofs -------------------------
(***************************************************************************)
(* Proofs about the alias store: whatever reviewers, bulk approvals, index *)
(* passes and language servers do between each other's steps, and wherever *)
(* one of them dies, verdicts stand, approvals in the ledger are in force, *)
(* stale aliases are settled, the mirror shows the store, no alias stands  *)
(* for two names, and a compiler group keeps one alias.                    *)
(***************************************************************************)
EXTENDS AliasReview, FiniteSetTheorems, TLAPS

(***************************************************************************)
(* The inductive invariant                                                 *)
(***************************************************************************)

\* The memory of the three processes.
ProcsInv ==
    /\ DOMAIN single = DOMAIN SingleIdle /\ DOMAIN bulk = DOMAIN BulkIdle
    /\ DOMAIN pass = DOMAIN PassOff
    /\ pass.todo \subseteq Symbols
    /\ pass.pc = "restore" => pass.todo # {} /\ pass.decision \in Nat \ {None}
    /\ HasClosure => single.found.uses \subseteq Files
    /\ \A i \in DOMAIN bulk.found : bulk.found[i].uses \subseteq Files

\* Who holds the lock at which step, and what a pass without a changed source
\* leaves out.
LockInv ==
    /\ lock = "single" <=> single.pc \in {"admit", "accept", "mirror", "file", "ledger"}
    /\ lock = "bulk" <=> bulk.pc \in {"index", "retire", "judge", "choose", "admit", "accept",
                                      "mirror", "record", "ledger"}
    /\ pass.pc # "off" <=> lock = "index" \/ bulk.pc = "index"
    /\ lock = "index" => pass.full
    /\ pass.pc \in {"replace", "quarantine", "refresh", "restore"} => pass.lost = {}
    /\ pass.pc \in {"replace", "refresh", "restore", "converge"} => pass.full

\* The alias of an item is that of its target.
InForce(i) == Accepted(Target(i)) /\ alias[Target(i)].name = items[i].alias

\* The item of a reviewer is open until its verdict is written, and its alias in
\* force from its acceptance on.
SingleInv ==
    /\ single.pc \in {"admit", "accept", "mirror"} => single.approve
    /\ single.pc = "admit" => HasClosure
    /\ single.pc \in {"admit", "accept", "mirror", "file"} => single.item \in Pending
    /\ single.pc = "ledger" => single.item \in DOMAIN items
    /\ single.pc \in {"mirror", "file", "ledger"} /\ single.approve => InForce(single.item)

\* So are the items of a bulk approval, which writes one verdict after another.
BulkInv ==
    /\ bulk.pc \in {"admit", "accept", "mirror"} => bulk.ids \subseteq Pending
    /\ bulk.pc \in {"record", "ledger"} => bulk.ids \subseteq DOMAIN items
    /\ bulk.pc = "record" => bulk.todo \subseteq bulk.ids \cap Pending
    /\ bulk.pc \in {"mirror", "record", "ledger"} => \A i \in bulk.ids : InForce(i)

\* Aliases are stale while a pass refreshes them, or since one died over it.
StaleInv ==
    /\ Stale # {} => \/ pass.pc \in {"refresh", "restore"}
                     \/ torn /\ pass.pc \in {"off", "replace", "quarantine"}
    /\ OrphanAliases = {}

\* An approval the ledger remembers is in force, or the pass under way will
\* restore it or have it forgotten.
Lost == {q[1] : q \in pass.lost}
LedgerInv ==
    \A s \in Symbols \ gone : ledger[s].verdict = "approved" =>
        \/ Accepted(s) \/ s \in Stale
        \/ s \in Lost /\ pass.pc \in {"converge", "legacy", "forget"}

\* What the mirror does not show is what the holder of the lock is about to
\* render; a full pass renders everything in the end.
Unshown == {s \in Symbols : ~ShowsTheStore(s)}
Due == IF pass.pc \notin {"off", "queue"} THEN Lost
       ELSE IF single.pc = "mirror" THEN Reach(links, Mine.target)
       ELSE IF bulk.pc = "mirror" THEN UNION {Reach(links, Target(i)) : i \in bulk.ids}
       ELSE {}
Refreshing == pass.full /\ pass.pc \notin {"off", "replace", "queue"}
MirrorInv ==
    /\ \A f \in Files \ moved : disk[f] = docs[f]
    /\ \/ Unshown \subseteq Due
       \/ Refreshing
       \/ torn /\ ~(pass.full /\ pass.pc = "queue")

ReviewInv == /\ TypeOK /\ ProcsInv /\ LockInv /\ SingleInv /\ BulkInv /\ StaleInv /\ LedgerInv
             /\ MirrorInv /\ AliasesAreInjective

\* The closures reviewers and bulk approvals got belong to their items, and what
\* they are about to admit joins no two aliases.
SingleGroup ==
    /\ single.pc = "prepare" => ~HasClosure
    /\ HasClosure /\ single.item \in DOMAIN items => single.found.target = Mine.target
    /\ single.pc \in {"lock", "admit"} /\ HasClosure =>
           single.found.members \cap Symbols \subseteq single.equal \cup {single.found.target}
    /\ single.pc = "admit" => \A m \in Reach(links, Mine.target) \cup single.equal :
                                  Accepted(m) => alias[m].name = Mine.alias
BulkGroup ==
    /\ bulk.pc \in {"relock", "judge", "choose", "admit"} => Found \subseteq bulk.ids
    /\ \A i \in Found \cap DOMAIN items : bulk.found[i].target = Target(i)
    /\ bulk.pc = "admit" => \A i \in bulk.ids : \A s \in AcceptedIn(Proven, Target(i)) :
                                alias[s].name = items[i].alias
GroupInv == SingleGroup /\ BulkGroup

USE DEF None, graph, queue, procs, spent, past

(***************************************************************************)
(* Facts about the operators                                               *)
(***************************************************************************)
\* Any nonempty set of naturals has a least element: the intervals 1..n of its
\* members are finite sets, which strict inclusion orders without end.
LEMMA LeastNatural ==
  ASSUME NEW S \in SUBSET Nat, S # {}
  PROVE  \E x \in S : \A y \in S : x <= y
<1> DEFINE Below == {1..n : n \in S}
           R == StrictSubsetOrdering(Nat)
<1>1. Below \subseteq FiniteSubsetsOf(Nat)
  <2>1. \A n \in Nat : 1..n \subseteq Nat /\ IsFiniteSet(1..n)
    BY FS_Interval
  <2> QED BY <2>1 DEF FiniteSubsetsOf
<1>2. Below # {}
  OBVIOUS
<1>3. \E B \in Below : \A C \in Below : ~(<<C, B>> \in R)
  <2> HIDE DEF Below
  <2> QED BY <1>1, <1>2, FS_StrictSubsetOrderingWellFounded, WFMin
<1>4. PICK n \in S : \A m \in S : <<1..m, 1..n>> \notin R
  BY <1>3
<1>5. ASSUME NEW m \in S, m < n PROVE FALSE
  <2>1. 1..m \subseteq 1..n /\ n \in 1..n /\ n \notin 1..m
    BY <1>5
  <2>2. 1..m \subseteq Nat /\ 1..n \subseteq Nat
    OBVIOUS
  <2>3. <<1..m, 1..n>> \in R
    BY <2>1, <2>2 DEF StrictSubsetOrdering
  <2> QED BY <1>4, <2>3
<1> QED BY <1>5

\* Min of the library, on any nonempty set of naturals.
LEMMA MinIsLeast ==
  ASSUME NEW S \in SUBSET Nat, S # {}
  PROVE  Min(S) \in S /\ \A y \in S : Min(S) <= y
BY LeastNatural DEF Min

\* What the assumptions say of single versions and queues.
LEMMA Constants ==
  /\ Symbols \subseteq Nat \ {0} /\ \A s \in Symbols : Name[s] \in Nat /\ FileOf[s] \in Files
  /\ \A d \in [Files -> Versions] :
         Present(d) = {s \in Symbols : s \in Declares[FileOf[s]][d[FileOf[s]]]}
BY ReviewAssumption DEF Present

\* A symbol reaches itself.
LEMMA ReachesItself ==
  ASSUME NEW edges, NEW s \in Symbols
  PROVE  s \in Reach(edges, s)
BY DEF Reach

\* What reaches the same symbol reaches each other.
LEMMA ReachesBack ==
  ASSUME NEW edges \in SUBSET (Symbols \X Symbols), NEW s \in Symbols, NEW t \in Symbols,
         NEW u \in Reach(edges, s) \cap Reach(edges, t)
  PROVE  s \in Reach(edges, t)
<1> SUFFICES ASSUME NEW S \in SymbolSets, t \in S, s \notin S, ~Cuts(S, edges) PROVE FALSE
  BY DEF Reach
<1>1. u \in S
  BY DEF Reach
<1>2. Symbols \ S \in SymbolSets /\ s \in Symbols \ S /\ u \notin Symbols \ S
  BY <1>1 DEF SymbolSets
<1>3. Cuts(Symbols \ S, edges)
  BY <1>2 DEF Reach
<1> QED BY <1>3 DEF Cuts

\* The ends of an edge are reached together.
LEMMA ReachesAlong ==
  ASSUME NEW edges, NEW s \in Symbols, NEW l \in edges, l[1] \in Symbols, l[2] \in Symbols
  PROVE  l[1] \in Reach(edges, s) <=> l[2] \in Reach(edges, s)
<1>1. ASSUME NEW a \in Symbols, NEW b \in Symbols, {a, b} = {l[1], l[2]}, a \in Reach(edges, s)
      PROVE  b \in Reach(edges, s)
  <2> SUFFICES ASSUME NEW S \in SymbolSets, s \in S, b \notin S, ~Cuts(S, edges) PROVE FALSE
    BY DEF Reach
  <2>1. a \in S
    BY <1>1 DEF Reach
  <2>2. (l[1] \in S) # (l[2] \in S)
    BY <1>1, <2>1
  <2> QED BY <2>2 DEF Cuts
<1> QED BY <1>1

\* What a symbol reaches reaches the same symbols.
LEMMA ReachesAlike ==
  ASSUME NEW edges \in SUBSET (Symbols \X Symbols), NEW s \in Symbols, NEW u \in Reach(edges, s)
  PROVE  Reach(edges, u) = Reach(edges, s)
<1>1. u \in Symbols
  BY DEF Reach
<1>2. ASSUME NEW t \in Reach(edges, s) PROVE t \in Reach(edges, u)
  <2> SUFFICES ASSUME NEW S \in SymbolSets, u \in S, t \notin S, ~Cuts(S, edges) PROVE FALSE
    BY DEF Reach
  <2>1. s \notin S
    BY DEF Reach
  <2>2. Symbols \ S \in SymbolSets /\ s \in Symbols \ S /\ u \notin Symbols \ S
    BY <2>1 DEF SymbolSets
  <2>3. Cuts(Symbols \ S, edges)
    BY <1>1, <2>2 DEF Reach
  <2> QED BY <2>3 DEF Cuts
<1>3. ASSUME NEW t \in Reach(edges, u) PROVE t \in Reach(edges, s)
  <2> SUFFICES ASSUME NEW S \in SymbolSets, s \in S, t \notin S, ~Cuts(S, edges) PROVE FALSE
    BY DEF Reach
  <2>1. u \in S
    BY DEF Reach
  <2> QED BY <2>1 DEF Reach
<1> QED BY <1>2, <1>3

\* More edges reach more.
LEMMA ReachesMore ==
  ASSUME NEW edges, NEW more, edges \subseteq more, NEW s
  PROVE  Reach(edges, s) \subseteq Reach(more, s)
BY DEF Reach, Cuts

\* What an acceptance leaves: each component has the alias of its pair, and
\* everything else what it had.
Covers(p, s) == s \in Reach(links, p[1])
LEMMA Accepting ==
  ASSUME TypeOK, NEW pairs \in SUBSET (Symbols \X (Nat \ {None})), Acceptable(pairs),
         AcceptAll(pairs)
  PROVE  /\ alias' \in [Symbols -> Rows]
         /\ \A s \in Symbols : alias'[s].status = "none" <=> alias'[s].name = None
         /\ \A p \in pairs : \A s \in Symbols : Covers(p, s) =>
                /\ alias'[s].status = "accepted" /\ alias'[s].name = p[2]
                /\ s \in Present(docs) /\ Name[s] = Name[p[1]]
         /\ \A s \in Symbols : (\A p \in pairs : ~Covers(p, s)) => alias'[s] = alias[s]
<1>1. \A p, q \in pairs : \A s \in Symbols : Covers(p, s) /\ Covers(q, s) => p[2] = q[2]
  <2> SUFFICES ASSUME NEW p \in pairs, NEW q \in pairs, NEW s \in Symbols, Covers(p, s),
                      Covers(q, s), p # q
               PROVE  p[2] = q[2]
    OBVIOUS
  <2>1. p[1] \in Reach(links, q[1])
    BY ReachesBack DEF Covers, TypeOK
  <2> QED BY <2>1 DEF Acceptable
<1>2. ASSUME NEW s \in Symbols, NEW p \in pairs, Covers(p, s)
      PROVE  alias'[s] = [name |-> p[2], status |-> "accepted"]
  <2> DEFINE mine == {q \in pairs : s \in Reach(links, q[1])}
             first == CHOOSE q \in mine : TRUE
  <2>1. first \in mine /\ mine # {}
    BY <1>2 DEF Covers
  <2>2. alias'[s] = [name |-> first[2], status |-> "accepted"]
    BY <2>1 DEF AcceptAll
  <2>3. first[2] = p[2]
    <3> HIDE DEF first
    <3> QED BY <1>1, <1>2, <2>1 DEF Covers
  <2> QED BY <2>2, <2>3
<1>3. ASSUME NEW s \in Symbols, \A p \in pairs : ~Covers(p, s) PROVE alias'[s] = alias[s]
  BY <1>3 DEF AcceptAll, Covers
<1>4. \A p \in pairs : p[2] \in Nat \ {None}
  OBVIOUS
<1>5. ASSUME NEW s \in Symbols
      PROVE  alias'[s] \in Rows /\ (alias'[s].status = "none" <=> alias'[s].name = None)
  <2>1. CASE \E p \in pairs : Covers(p, s)
    <3>1. PICK p \in pairs : Covers(p, s)
      BY <2>1
    <3>2. alias'[s] = [name |-> p[2], status |-> "accepted"] /\ p[2] \in Nat \ {None}
      BY <1>2, <1>4, <3>1
    <3> QED BY <3>2 DEF Rows
  <2>2. CASE \A p \in pairs : ~Covers(p, s)
    BY <1>3, <2>2 DEF TypeOK
  <2> QED BY <2>1, <2>2
<1>6. alias' = [s \in Symbols |-> alias'[s]]
  BY DEF AcceptAll
<1>7. alias' \in [Symbols -> Rows]
  BY <1>5, <1>6
<1>8. ASSUME NEW p \in pairs, NEW s \in Symbols, Covers(p, s)
      PROVE  s \in Present(docs) /\ Name[s] = Name[p[1]]
  BY <1>8 DEF Acceptable, Covers
<1> QED BY <1>2, <1>3, <1>5, <1>7, <1>8

\* No two originals come to share an alias.
LEMMA AcceptingIsInjective ==
  ASSUME TypeOK, NEW pairs \in SUBSET (Symbols \X (Nat \ {None})), Acceptable(pairs),
         AcceptAll(pairs), SharedAliases = {}
  PROVE  SharedAliases' = {}
<1> SUFFICES ASSUME NEW s \in Symbols, NEW t \in Symbols, Accepted(s)', Accepted(t)',
                    alias'[s].name = alias'[t].name
             PROVE  Name[s] = Name[t]
  BY DEF SharedAliases
<1>1. ASSUME NEW x \in Symbols, NEW y \in Symbols, NEW p \in pairs, Covers(p, x),
             \A q \in pairs : ~Covers(q, y), Accepted(y)', alias'[x].name = alias'[y].name
      PROVE  Name[x] = Name[y]
  <2>1. alias'[y] = alias[y] /\ Name[x] = Name[p[1]] /\ alias'[x].name = p[2]
    BY <1>1, Accepting
  <2>2. y \in Owners(p[2]) \ Reach(links, p[1])
    BY <1>1, <2>1 DEF Owners, Accepted, Covers
  <2>3. \E m \in Reach(links, p[1]) : Name[m] = Name[y]
    BY <2>2 DEF Acceptable, AliasIsFree
  <2> QED BY <2>1, <2>3 DEF Acceptable
<1>2. CASE \E p \in pairs : Covers(p, s)
  <2>1. PICK p \in pairs : Covers(p, s)
    BY <1>2
  <2>2. CASE \E q \in pairs : Covers(q, t)
    <3>1. PICK q \in pairs : Covers(q, t)
      BY <2>2
    <3>2. /\ alias'[s].name = p[2] /\ Name[s] = Name[p[1]]
          /\ alias'[t].name = q[2] /\ Name[t] = Name[q[1]]
      BY <2>1, <3>1, Accepting
    <3>3. p[2] = q[2]
      BY <3>2
    <3>4. p # q => Name[p[1]] = Name[q[1]]
      <4>1. \A x, y \in pairs : x # y /\ x[2] = y[2] => Name[x[1]] = Name[y[1]]
        BY DEF Acceptable
      <4> QED BY <3>3, <4>1
    <3> QED BY <3>2, <3>4
  <2> QED BY <1>1, <2>1, <2>2
<1>3. CASE \E q \in pairs : Covers(q, t)
  BY <1>1, <1>2, <1>3
<1>4. CASE \A p \in pairs : ~Covers(p, s) /\ ~Covers(p, t)
  <2>1. alias'[s] = alias[s] /\ alias'[t] = alias[t]
    BY <1>4, Accepting
  <2>2. <<s, t>> \notin SharedAliases
    OBVIOUS
  <2> QED BY <2>1, <2>2 DEF SharedAliases, Accepted
<1> QED BY <1>2, <1>3, <1>4

\* A quarantine leaves no alias of its symbols and all others.
LEMMA Forsaking ==
  ASSUME TypeOK, NEW symbols, Forsake(symbols)
  PROVE  /\ alias' \in [Symbols -> Rows]
         /\ \A s \in Symbols : alias'[s].status = "none" <=> alias'[s].name = None
         /\ \A s \in Symbols : alias'[s] = IF s \in symbols THEN Unnamed ELSE alias[s]
         /\ \A s \in Symbols : s \in symbols =>
                \E q \in pass.lost \cup {<<x, alias[x].name>> : x \in symbols} : q[1] = s
<1>1. \A s \in Symbols : alias'[s] = IF s \in symbols THEN Unnamed ELSE alias[s]
  BY DEF Forsake
<1>2. Unnamed \in Rows /\ Unnamed.status = "none" /\ Unnamed.name = None
  BY DEF Unnamed, Rows
<1>3. \A s \in Symbols : /\ alias'[s] \in Rows
                         /\ alias'[s].status = "none" <=> alias'[s].name = None
  BY <1>1, <1>2 DEF TypeOK
<1>4. alias' = [s \in Symbols |-> alias'[s]]
  BY DEF Forsake
<1>5. alias' \in [Symbols -> Rows]
  BY <1>3, <1>4
<1>6. ASSUME NEW s \in Symbols, s \in symbols
      PROVE  \E q \in pass.lost \cup {<<x, alias[x].name>> : x \in symbols} : q[1] = s
  <2>1. <<s, alias[s].name>> \in pass.lost \cup {<<x, alias[x].name>> : x \in symbols}
    BY <1>6
  <2> QED BY <2>1
<1> QED BY <1>1, <1>3, <1>5, <1>6

\* A symbol that gets its alias from its group: the group is one name, and the
\* alias one nobody else has.
Group(s) == Reach(Representatives, s) \cap Present(docs)
Mended(s) == s \in Present(docs) /\ Repairable(Group(s))
Source(s) == Contract(Group(s))
LEMMA Mending ==
  ASSUME TypeOK, NEW s \in Symbols, Mended(s)
  PROVE  /\ s \in Group(s) /\ Source(s) \in Group(s) /\ Source(s) \in Symbols
         /\ Accepted(Source(s)) /\ Name[Source(s)] = Name[s]
         /\ \A t \in Symbols : Accepted(t) /\ alias[t].name = alias[Source(s)].name
                => t \in Group(s) /\ Name[t] = Name[s]
<1> DEFINE members == Group(s)
           named == {m \in members : Accepted(m)}
           headed == {m \in named : IsHeader(m)}
<1>1. s \in members /\ members \subseteq Symbols
  BY ReachesItself DEF Group, Mended, Reach
<1>2. named # {} /\ \A m, n \in members : Name[m] = Name[n]
  BY DEF Mended, Repairable
<1>3. named \subseteq Nat /\ headed \subseteq Nat
  BY <1>1, Constants
<1>4. Source(s) = IF headed # {} THEN Min(headed) ELSE Min(named)
  BY DEF Source, Contract
<1>5. Source(s) \in named
  <2> HIDE DEF members
  <2> QED BY <1>2, <1>3, <1>4, MinIsLeast
<1>6. {t \in Symbols : Accepted(t) /\ alias[t].name = alias[Source(s)].name} \subseteq members
  BY DEF Mended, Repairable, Source
<1> QED BY <1>1, <1>2, <1>5, <1>6

\* What convergence leaves.
LEMMA Converging ==
  ASSUME TypeOK, PassConverge
  PROVE  /\ alias' \in [Symbols -> Rows]
         /\ \A s \in Symbols : alias'[s].status = "none" <=> alias'[s].name = None
         /\ \A s \in Symbols : alias'[s] = IF Mended(s) THEN alias[Source(s)] ELSE alias[s]
         /\ \A s \in Symbols : Mended(s) => Accepted(s)'
<1>1. alias' = [s \in Symbols |-> IF Mended(s) THEN alias[Source(s)] ELSE alias[s]]
  BY DEF PassConverge, Mended, Source, Group
<1>2. \A s \in Symbols : Mended(s) => Source(s) \in Symbols /\ Accepted(Source(s))
  BY Mending
<1>3. \A s \in Symbols : /\ alias'[s] \in Rows
                         /\ alias'[s].status = "none" <=> alias'[s].name = None
  BY <1>1, <1>2 DEF TypeOK
<1>4. alias' \in [Symbols -> Rows]
  BY <1>1, <1>3
<1> QED BY <1>1, <1>2, <1>3, <1>4 DEF Accepted

\* The links convergence adds are of symbols that exist.
LEMMA ConvergingLinks ==
  ASSUME TypeOK, PassConverge
  PROVE  links' \subseteq Symbols \X Symbols
<1> DEFINE open == {s \in Symbols : Mended(s) /\ \E m \in Group(s) : ~Complete(m)}
<1>1. links' = links \cup {<<Min(Active(Group(s))), s>> : s \in open}
  <2>1. {x \in {s \in Present(docs) : Repairable(Reach(Representatives, s) \cap Present(docs))} :
            \E m \in Reach(Representatives, x) \cap Present(docs) : ~Complete(m)} = open
    BY Constants DEF Mended, Group, TypeOK
  <2>2. links' = links \cup {<<Min(Active(Group(s))), s>> : s \in
            {x \in {s \in Present(docs) :
                       Repairable(Reach(Representatives, s) \cap Present(docs))} :
                \E m \in Reach(Representatives, x) \cap Present(docs) : ~Complete(m)}}
    BY DEF PassConverge, Group
  <2> QED BY <2>1, <2>2
<1>2. ASSUME NEW s \in open PROVE Min(Active(Group(s))) \in Symbols
  <2>1. Active(Group(s)) # {}
    BY DEF Mended, Repairable
  <2>2. Active(Group(s)) \subseteq Symbols
    BY DEF Active, ActiveCanonicals, TypeOK
  <2>3. Active(Group(s)) \subseteq Nat
    BY <2>2, Constants
  <2> QED BY <2>1, <2>2, <2>3, MinIsLeast
<1> QED BY <1>1, <1>2 DEF TypeOK

\* A mirror refresh shows all it is asked for.
LEMMA Refreshed ==
  ASSUME TypeOK, NEW symbols, RefreshMirror(symbols),
         UNCHANGED <<disk, docs, alias, moved>>, \A f \in Files \ moved : disk[f] = docs[f]
  PROVE  /\ shown' \in [Symbols -> Nat]
         /\ Unshown' \subseteq Unshown \ symbols
<1> DEFINE dirty == {FileOf[s] : s \in {x \in symbols : shown[x] # Wanted(x)}}
<1>1. shown' = [s \in Symbols |->
                   IF FileOf[s] \notin dirty THEN shown[s]
                   ELSE IF disk[FileOf[s]] = docs[FileOf[s]] THEN Wanted(s) ELSE None]
  BY DEF RefreshMirror
<1>2. \A s \in Symbols : Wanted(s)' = Wanted(s) /\ Wanted(s) \in Nat
  BY DEF Wanted, Accepted, Present, TypeOK, Rows
<1>3. shown' \in [Symbols -> Nat]
  BY <1>1, <1>2 DEF TypeOK
<1>4. ASSUME NEW s \in Symbols, ~ShowsTheStore(s)' PROVE ~ShowsTheStore(s) /\ s \notin symbols
  <2>1. CASE FileOf[s] \in dirty
    BY <1>1, <1>2, <1>4, <2>1, Constants DEF ShowsTheStore
  <2>2. CASE FileOf[s] \notin dirty
    BY <1>1, <1>2, <1>4, <2>2 DEF ShowsTheStore
  <2> QED BY <2>1, <2>2
<1> QED BY <1>3, <1>4 DEF Unshown

\* What a changed source does to the aliases: those of symbols that left go,
\* others stay as they were or become stale.
LEMMA Reapplied ==
  ASSUME TypeOK, Reapply(disk)
  PROVE  /\ alias' \in [Symbols -> Rows] /\ links' \subseteq links /\ closed' \subseteq closed
         /\ bindings' = bindings
         /\ \A s \in Symbols : alias'[s].status = "none" <=> alias'[s].name = None
         /\ \A s \in Symbols \ Present(disk) : alias'[s] = Unnamed
         /\ \A s \in Symbols \cap Present(disk) :
                /\ alias'[s].name = alias[s].name
                /\ alias'[s].status = alias[s].status
                   \/ (alias'[s].status = "stale" /\ alias[s].status # "none")
<1>1. PICK all \in SUBSET {s \in Symbols : alias[s].status # "none"} :
          alias' = [s \in Symbols |->
               IF s \notin Present(disk) THEN Unnamed
               ELSE IF s \in all THEN [alias[s] EXCEPT !.status = "stale"]
               ELSE alias[s]]
  <2> DEFINE here == Present(disk)
             kept == {l \in links : l[1] \in here /\ l[2] \in here}
             drifted == {c \in closed : c \notin here \/ Drifted(c, disk)}
             hit == drifted \cup {l[2] : l \in {k \in kept : k[1] \in drifted}}
                       \cup {l[2] : l \in {k \in kept : Unresolved(Name[k[2]], disk)}}
             first == Stale \cup {s \in hit : Accepted(s)}
             groups == {l[1] : l \in {k \in kept : k[2] \in first}}
             all == first \cup {s \in Symbols : /\ Accepted(s)
                                                /\ \E c \in groups : <<c, s>> \in kept}
  <2>1. hit \subseteq Symbols
    <3>1. drifted \subseteq Symbols
      BY DEF TypeOK
    <3>2. \A l \in kept : l[2] \in Symbols
      BY DEF TypeOK
    <3> HIDE DEF kept, drifted
    <3> QED BY <3>1, <3>2
  <2>2. all \subseteq {s \in Symbols : alias[s].status # "none"}
    <3> HIDE DEF hit, groups, kept
    <3> QED BY <2>1 DEF Stale, Accepted
  <2>3. alias' = [s \in Symbols |->
               IF s \notin here THEN Unnamed
               ELSE IF s \in all THEN [alias[s] EXCEPT !.status = "stale"]
               ELSE alias[s]]
    BY DEF Reapply
  <2> HIDE DEF all
  <2> QED BY <2>2, <2>3
<1>2. \A s \in Symbols : alias[s] \in Rows /\ (alias[s].status = "none" <=> alias[s].name = None)
  BY DEF TypeOK
<1>3. \A r \in Rows : /\ [r EXCEPT !.status = "stale"] \in Rows
                      /\ [r EXCEPT !.status = "stale"].name = r.name
                      /\ [r EXCEPT !.status = "stale"].status = "stale"
  BY DEF Rows
<1>4. Unnamed \in Rows /\ Unnamed.status = "none" /\ Unnamed.name = None
  BY DEF Unnamed, Rows
<1>5. ASSUME NEW s \in Symbols \cap Present(disk)
      PROVE  /\ alias'[s] \in Rows /\ alias'[s].name = alias[s].name
             /\ alias'[s].status = alias[s].status
                \/ (alias'[s].status = "stale" /\ alias[s].status # "none")
  <2>1. CASE s \in all
    BY <1>1, <1>2, <1>3, <2>1
  <2>2. CASE s \notin all
    BY <1>1, <1>2, <2>2
  <2> QED BY <2>1, <2>2
<1>6. \A s \in Symbols \ Present(disk) : alias'[s] = Unnamed
  BY <1>1
<1>7. \A s \in Symbols : alias'[s] \in Rows /\ (alias'[s].status = "none" <=> alias'[s].name = None)
  BY <1>2, <1>4, <1>5, <1>6
<1>8. alias' = [s \in Symbols |-> alias'[s]]
  BY <1>1
<1>9. alias' \in [Symbols -> Rows]
  BY <1>7, <1>8
<1>10. links' \subseteq links /\ closed' \subseteq closed /\ bindings' = bindings
  BY DEF Reapply
<1> QED BY <1>5, <1>6, <1>7, <1>9, <1>10

\* What marking does to the queue.
LEMMA Marked ==
  ASSUME TypeOK, NEW ids, NEW status \in Statuses, Mark(ids, status)
  PROVE  /\ DOMAIN items' = DOMAIN items /\ items' \in [DOMAIN items' -> Items]
         /\ \A i \in DOMAIN items :
                /\ items'[i].target = items[i].target /\ items'[i].alias = items[i].alias
                /\ items'[i].status = IF i \in ids THEN status ELSE items[i].status
<1>1. items' = [i \in DOMAIN items |->
                   IF i \in ids THEN [items[i] EXCEPT !.status = status] ELSE items[i]]
  BY DEF Mark
<1>2. \A x \in Items : /\ [x EXCEPT !.status = status] \in Items
                       /\ [x EXCEPT !.status = status].target = x.target
                       /\ [x EXCEPT !.status = status].alias = x.alias
                       /\ [x EXCEPT !.status = status].status = status
  BY DEF Items
<1>3. \A i \in DOMAIN items : items[i] \in Items
  BY DEF TypeOK
<1> QED BY <1>1, <1>2, <1>3

\* What a verdict in the ledger does, and the pruning after it.
LEMMA Recorded ==
  ASSUME TypeOK, NEW ids \in SUBSET DOMAIN items, NEW verdict \in {"approved", "rejected"},
         RecordDecisions(ids, verdict)
  PROVE  /\ DOMAIN items' \subseteq DOMAIN items /\ items' \in [DOMAIN items' -> Items]
         /\ Pending \subseteq DOMAIN items'
         /\ \A i \in DOMAIN items' : items'[i] = items[i]
         /\ ledger' \in [Symbols -> [verdict : {"none", "approved", "rejected"}, name : Nat]]
         /\ \A s \in Symbols : ledger'[s].verdict =
                IF \E i \in ids : Target(i) = s THEN verdict ELSE ledger[s].verdict
<1>1. PICK old \in SUBSET {i \in DOMAIN items : items[i].status # "pending"} :
          items' = [i \in DOMAIN items \ old |-> items[i]]
  BY DEF RecordDecisions, Prune
<1>2. \A i \in DOMAIN items : items[i] \in Items
  BY DEF TypeOK
<1>3. ASSUME NEW s \in Symbols
      PROVE  /\ ledger'[s] \in [verdict : {"none", "approved", "rejected"}, name : Nat]
             /\ ledger'[s].verdict = IF \E i \in ids : Target(i) = s THEN verdict
                                     ELSE ledger[s].verdict
  <2> DEFINE mine == {i \in ids : Target(i) = s}
  <2>1. ledger'[s] = IF mine = {} THEN ledger[s]
                     ELSE [verdict |-> verdict, name |-> items[Min(mine)].alias]
    BY DEF RecordDecisions
  <2>2. CASE mine = {}
    BY <2>1, <2>2 DEF TypeOK
  <2>3. CASE mine # {}
    <3>1. mine \subseteq Nat
      BY DEF TypeOK
    <3>2. Min(mine) \in DOMAIN items
      <4>1. Min(mine) \in mine
        <5> HIDE DEF mine
        <5> QED BY <2>3, <3>1, MinIsLeast
      <4> QED BY <4>1
    <3>3. items[Min(mine)].alias \in Nat
      BY <1>2, <3>2 DEF Items
    <3>4. ledger'[s] = [verdict |-> verdict, name |-> items[Min(mine)].alias]
      BY <2>1, <2>3
    <3>5. \E i \in ids : Target(i) = s
      BY <2>3
    <3> HIDE DEF mine
    <3> QED BY <3>3, <3>4, <3>5
  <2> QED BY <2>2, <2>3
<1>4. ledger' = [s \in Symbols |-> ledger'[s]]
  BY DEF RecordDecisions
<1> QED BY <1>1, <1>2, <1>3, <1>4 DEF Pending

(***************************************************************************)
(* Every step                                                              *)
(***************************************************************************)
\* Which actions write what.
LEMMA Writers ==
  ASSUME [Next]_vars
  PROVE  /\ \/ UNCHANGED alias \/ PassReplace \/ RefreshRestores \/ PassQuarantine
            \/ PassConverge \/ PassLegacy \/ Accept \/ AcceptBatch
         /\ \/ UNCHANGED graph \/ PassReplace \/ RefreshAdmits \/ PassQuarantine
            \/ PassConverge \/ PassLegacy \/ Admit \/ AdmitBatch
         /\ UNCHANGED docs \/ PassReplace
         /\ UNCHANGED <<disk, moved>> \/ Edit \/ PassReplace
         /\ UNCHANGED migrated \/ PassLegacy
         /\ UNCHANGED shown \/ PassReplace \/ PassMirror \/ Mirror \/ MirrorBatch
<1>1. CASE Edit
  BY <1>1 DEF Edit
<1>2. CASE StartPass
  BY <1>2 DEF StartPass
<1>3. CASE PassStep
  BY <1>3 DEF PassStep, PassReplace, RefreshAdmits, RefreshGivesUp, RefreshRestores,
              PassQuarantine, PassConverge, PassLegacy, PassForget, PassMirror, PassQueue
<1>4. CASE Review
  BY <1>4 DEF Review, Begin, Prepare, Ask, Equivalents, Lock, Admit, Accept, Mirror, WriteItem,
              WriteLedger, ReviewerUnchanged
<1>5. CASE BulkReview
  BY <1>5 DEF BulkReview, StartBulk, Retire, Reread, Preflight, PrepareAll, AskAll, Relock,
              Judge, Choose, AdmitBatch, AcceptBatch, MirrorBatch, RecordItem, RecordLedger,
              BulkUnchanged
<1>6. CASE \E p \in {"single", "bulk", "index"} : Die(p)
  BY <1>6 DEF Die
<1>7. CASE Rest \/ UNCHANGED vars
  BY <1>7 DEF Rest, vars
<1> QED BY <1>1, <1>2, <1>3, <1>4, <1>5, <1>6, <1>7 DEF Next

\* Who writes the queue, the ledger, and what the processes remember.
LEMMA Holders ==
  ASSUME [Next]_vars
  PROVE  /\ \/ UNCHANGED items \/ PassQueue \/ WriteItem \/ WriteLedger \/ Retire \/ Judge
            \/ Choose \/ RecordItem \/ RecordLedger
         /\ UNCHANGED ledger \/ PassForget \/ WriteLedger \/ RecordLedger
         /\ UNCHANGED single \/ Review \/ Die("single")
         /\ UNCHANGED bulk \/ BulkReview \/ PassQueue \/ Die("bulk")
         /\ UNCHANGED pass \/ StartPass \/ PassStep \/ StartBulk \/ Die("bulk") \/ Die("index")
         /\ UNCHANGED lock \/ StartPass \/ PassQueue \/ Review \/ BulkReview
            \/ \E p \in {"single", "bulk", "index"} : Die(p)
         /\ UNCHANGED torn \/ PassQueue \/ \E p \in {"single", "bulk", "index"} : Die(p)
         /\ UNCHANGED gone \/ PassReplace \/ \E p \in {"single", "bulk", "index"} : Die(p)
<1>1. CASE Edit
  BY <1>1 DEF Edit
<1>2. CASE StartPass
  BY <1>2 DEF StartPass
<1>3. CASE PassStep
  BY <1>3 DEF PassStep, PassReplace, RefreshAdmits, RefreshGivesUp, RefreshRestores,
              PassQuarantine, PassConverge, PassLegacy, PassForget, PassMirror, PassQueue
<1>4. CASE Review
  BY <1>4 DEF Review, Begin, Prepare, Ask, Equivalents, Lock, Admit, Accept, Mirror, WriteItem,
              WriteLedger, ReviewerUnchanged
<1>5. CASE BulkReview
  <2>1. UNCHANGED single /\ UNCHANGED torn /\ UNCHANGED gone /\ (UNCHANGED pass \/ StartBulk)
    BY <1>5 DEF BulkReview, StartBulk, Retire, Reread, Preflight, PrepareAll, AskAll, Relock,
                Judge, Choose, AdmitBatch, AcceptBatch, MirrorBatch, RecordItem, RecordLedger,
                BulkUnchanged
  <2>2. UNCHANGED items \/ Retire \/ Judge \/ Choose \/ RecordItem \/ RecordLedger
    BY <1>5 DEF BulkReview, StartBulk, Reread, Preflight, PrepareAll, AskAll, Relock, AdmitBatch,
                AcceptBatch, MirrorBatch
  <2>3. UNCHANGED ledger \/ RecordLedger
    BY <1>5 DEF BulkReview, StartBulk, Retire, Reread, Preflight, PrepareAll, AskAll, Relock,
                Judge, Choose, AdmitBatch, AcceptBatch, MirrorBatch, RecordItem
  <2> QED BY <1>5, <2>1, <2>2, <2>3
<1>6. CASE \E p \in {"single", "bulk", "index"} : Die(p)
  BY <1>6 DEF Die
<1>7. CASE Rest \/ UNCHANGED vars
  BY <1>7 DEF Rest, vars
<1> QED BY <1>1, <1>2, <1>3, <1>4, <1>5, <1>6, <1>7 DEF Next

\* What an admission leaves: rows of symbols and files that exist.
LEMMA Admitting ==
  ASSUME TypeOK, NEW cs, \A c \in cs : c.target \in Symbols /\ c.uses \subseteq Files,
         NEW equal, AdmitAll(cs, equal)
  PROVE  /\ bindings' \subseteq Symbols \X Files \X Versions
         /\ links' \subseteq Symbols \X Symbols /\ closed' \subseteq Symbols
<1> DEFINE targets == {c.target : c \in cs}
           located == UNION {{<<c.target, f, docs[f]>> : f \in c.uses} : c \in cs}
           taken == {b \in bindings : \E l \in located :
                         b[2] = l[2] /\ b[3] = l[3] /\ Name[b[1]] = Name[l[1]]}
           found == UNION {{<<c.target, m>> : m \in (c.members \cup equal[c.target])
                                                       \cap Present(docs)} : c \in cs}
<1>1. /\ bindings' = ({b \in bindings : b[1] \notin targets} \ taken) \cup located
      /\ links' = {l \in links : l[1] \notin targets} \cup found
      /\ closed' = closed \cup targets
  BY DEF AdmitAll
<1>2. targets \subseteq Symbols
  OBVIOUS
<1>3. located \subseteq Symbols \X Files \X Versions
  BY DEF TypeOK
<1>4. found \subseteq Symbols \X Symbols
  <2>1. Present(docs) \subseteq Symbols
    BY Constants DEF TypeOK
  <2> QED BY <2>1
<1> HIDE DEF targets, located, taken, found
<1> QED BY <1>1, <1>2, <1>3, <1>4 DEF TypeOK

\* The answer of a language server names files of the project.
LEMMA Answered ==
  ASSUME NEW t, NEW ans \in Answers(t)
  PROVE  ans.target = t /\ ans.uses \subseteq Files
BY DEF Answers, Closure, UsesOf

\* The pairs that are accepted are of symbols and names.
LEMMA Pairs ==
  ASSUME ReviewInv
  PROVE  /\ single.pc = "accept" =>
                {<<Mine.target, Mine.alias>>} \subseteq Symbols \X (Nat \ {None})
         /\ bulk.pc = "accept" =>
                {<<Target(i), items[i].alias>> : i \in bulk.ids} \subseteq Symbols \X (Nat \ {None})
         /\ pass.pc = "restore" =>
                {<<Min(pass.todo), pass.decision>>} \subseteq Symbols \X (Nat \ {None})
<1>1. \A i \in DOMAIN items : Target(i) \in Symbols /\ items[i].alias \in Nat \ {None}
  BY DEF ReviewInv, TypeOK, Items, Target
<1>2. single.pc = "accept" => single.item \in DOMAIN items
  BY DEF ReviewInv, SingleInv, Pending
<1>3. bulk.pc = "accept" => bulk.ids \subseteq DOMAIN items
  BY DEF ReviewInv, BulkInv, Pending
<1>4. pass.pc = "restore" => Min(pass.todo) \in Symbols /\ pass.decision \in Nat \ {None}
  <2> SUFFICES ASSUME pass.pc = "restore" PROVE Min(pass.todo) \in pass.todo
    BY DEF ReviewInv, ProcsInv
  <2>1. pass.todo # {} /\ pass.todo \subseteq Nat
    BY Constants DEF ReviewInv, ProcsInv
  <2> QED BY <2>1, MinIsLeast
<1> QED BY <1>1, <1>2, <1>3, <1>4 DEF Mine, Target

\* The graph stays one of symbols and files.
LEMMA GraphTypeStep ==
  ASSUME ReviewInv, [Next]_vars
  PROVE  /\ bindings' \subseteq Symbols \X Files \X Versions
         /\ links' \subseteq Symbols \X Symbols /\ closed' \subseteq Symbols
<1> USE DEF ReviewInv
<1>1. CASE UNCHANGED graph
  BY <1>1 DEF TypeOK
<1>2. CASE PassReplace
  <2>1. CASE docs = disk
    BY <1>2, <2>1 DEF PassReplace, TypeOK
  <2>2. CASE Reapply(disk)
    BY <2>2, Reapplied DEF TypeOK
  <2> QED BY <1>2, <2>1, <2>2 DEF PassReplace
<1>3. CASE RefreshAdmits
  <2> DEFINE c == Min(pass.todo)
  <2>1. PICK ans \in Answers(c) : Admissible(ans, {}) /\ AdmitAll({ans}, [t \in {c} |-> {}])
    BY <1>3 DEF RefreshAdmits
  <2>2. ans.target \in Symbols /\ ans.uses \subseteq Files
    BY <2>1, Answered, Constants DEF Admissible, TypeOK
  <2> HIDE DEF c
  <2> QED BY <2>1, <2>2, Admitting
<1>4. CASE PassQuarantine
  BY <1>4 DEF PassQuarantine, RemoveComponents, TypeOK
<1>5. CASE PassConverge
  BY <1>5, ConvergingLinks DEF PassConverge, TypeOK
<1>6. CASE PassLegacy
  BY <1>6 DEF PassLegacy, RemoveComponents, TypeOK
<1>7. CASE Admit
  <2>1. CASE Admissible(single.found, single.equal)
    <3>1. single.found.target \in Symbols
      BY <2>1, Constants DEF Admissible, TypeOK
    <3>2. single.found.uses \subseteq Files
      BY <1>7 DEF Admit, SinglePc, SingleInv, ProcsInv
    <3>3. AdmitAll({single.found}, [t \in {Mine.target} |-> single.equal])
      BY <1>7, <2>1 DEF Admit
    <3> QED BY <3>1, <3>2, <3>3, Admitting
  <2> QED BY <1>7, <2>1 DEF Admit, TypeOK
<1>8. CASE AdmitBatch
  <2> DEFINE cs == {bulk.found[i] : i \in Found}
  <2>1. CASE \A c \in cs : Admissible(c, EqualTo(c.target))
    <3>1. \A c \in cs : c.target \in Symbols
      BY <2>1, Constants DEF Admissible, TypeOK
    <3>2. \A c \in cs : c.uses \subseteq Files
      BY DEF ProcsInv, Found
    <3>3. AdmitAll(cs, [t \in {c.target : c \in cs} |-> EqualTo(t)])
      BY <1>8, <2>1 DEF AdmitBatch
    <3> HIDE DEF cs
    <3> QED BY <3>1, <3>2, <3>3, Admitting
  <2> QED BY <1>8, <2>1 DEF AdmitBatch, TypeOK
<1> HIDE DEF ReviewInv
<1> QED BY <1>1, <1>2, <1>3, <1>4, <1>5, <1>6, <1>7, <1>8, Writers

\* How aliases change: with a changed source, by an acceptance, a quarantine or
\* a convergence.
Accepts == \E pairs \in SUBSET (Symbols \X (Nat \ {None})) :
               Acceptable(pairs) /\ AcceptAll(pairs)
Unsafe == IF migrated THEN {} ELSE LegacyUnsafe
LEMMA AliasWriters ==
  ASSUME ReviewInv, [Next]_vars
  PROVE  \/ UNCHANGED alias
         \/ PassReplace /\ Reapply(disk)
         \/ (RefreshRestores \/ Accept \/ AcceptBatch) /\ Accepts
         \/ PassQuarantine /\ Forsake(Stale)
         \/ PassConverge
         \/ PassLegacy /\ Forsake(Unsafe)
<1>1. CASE PassReplace
  BY <1>1 DEF PassReplace
<1>2. CASE RefreshRestores
  <2> DEFINE decided == {<<Min(pass.todo), pass.decision>>}
  <2>1. UNCHANGED alias \/ (Acceptable(decided) /\ AcceptAll(decided))
    BY <1>2 DEF RefreshRestores
  <2>2. decided \in SUBSET (Symbols \X (Nat \ {None}))
    BY <1>2, Pairs DEF RefreshRestores, Passing
  <2> HIDE DEF decided
  <2> QED BY <1>2, <2>1, <2>2 DEF Accepts
<1>3. CASE Accept
  <2> DEFINE pair == {<<Mine.target, Mine.alias>>}
  <2>1. UNCHANGED alias \/ (Acceptable(pair) /\ AcceptAll(pair))
    BY <1>3 DEF Accept
  <2>2. pair \in SUBSET (Symbols \X (Nat \ {None}))
    BY <1>3, Pairs DEF Accept, SinglePc
  <2> HIDE DEF pair
  <2> QED BY <1>3, <2>1, <2>2 DEF Accepts
<1>4. CASE AcceptBatch
  <2> DEFINE pairs == {<<Target(i), items[i].alias>> : i \in bulk.ids}
  <2>1. UNCHANGED alias \/ (Acceptable(pairs) /\ AcceptAll(pairs))
    BY <1>4 DEF AcceptBatch
  <2>2. pairs \in SUBSET (Symbols \X (Nat \ {None}))
    BY <1>4, Pairs DEF AcceptBatch, BulkPc
  <2> HIDE DEF pairs
  <2> QED BY <1>4, <2>1, <2>2 DEF Accepts
<1>5. CASE PassQuarantine
  BY <1>5 DEF PassQuarantine
<1>6. CASE PassLegacy
  BY <1>6 DEF PassLegacy, Unsafe
<1> QED BY <1>1, <1>2, <1>3, <1>4, <1>5, <1>6, Writers

\* Aliases stay rows that have a name exactly when they have a status.
LEMMA AliasTypeStep ==
  ASSUME ReviewInv, [Next]_vars
  PROVE  /\ alias' \in [Symbols -> Rows]
         /\ \A s \in Symbols : alias'[s].status = "none" <=> alias'[s].name = None
<1>0. TypeOK
  BY DEF ReviewInv
<1>1. CASE UNCHANGED alias
  BY <1>0, <1>1 DEF TypeOK
<1>2. CASE PassReplace /\ Reapply(disk)
  BY <1>0, <1>2, Reapplied
<1>3. CASE Accepts
  BY <1>0, <1>3, Accepting DEF Accepts
<1>4. CASE \E symbols \in {Stale, Unsafe} : Forsake(symbols)
  BY <1>0, <1>4, Forsaking
<1>5. CASE PassConverge
  BY <1>0, <1>5, Converging
<1> QED BY <1>1, <1>2, <1>3, <1>4, <1>5, AliasWriters

\* What a refresh of the mirror shows are aliases.
LEMMA RefreshedType ==
  ASSUME TypeOK, NEW symbols, RefreshMirror(symbols)
  PROVE  shown' \in [Symbols -> Nat]
<1>1. \A s \in Symbols : Wanted(s) \in Nat
  BY DEF Wanted, Accepted, TypeOK, Rows
<1> DEFINE dirty == {FileOf[s] : s \in {x \in symbols : shown[x] # Wanted(x)}}
<1>2. shown' = [s \in Symbols |->
                   IF FileOf[s] \notin dirty THEN shown[s]
                   ELSE IF disk[FileOf[s]] = docs[FileOf[s]] THEN Wanted(s) ELSE None]
  BY DEF RefreshMirror
<1> HIDE DEF dirty
<1> QED BY <1>1, <1>2 DEF TypeOK

\* How the queue changes: items are given up, a verdict is written to an open
\* item, or recorded.
Drops == \E ids \in SUBSET Pending : Mark(ids, "stale")
LEMMA ItemWriters ==
  ASSUME ReviewInv, [Next]_vars
  PROVE  \/ UNCHANGED items
         \/ (PassQueue \/ Retire \/ Judge \/ Choose) /\ Drops
         \/ WriteItem /\ single.item \in Pending /\ Mark({single.item}, Verdict)
         \/ /\ RecordItem /\ bulk.todo # {} /\ Min(bulk.todo) \in bulk.todo
            /\ bulk.todo \subseteq bulk.ids \cap Pending /\ Mark({Min(bulk.todo)}, "approved")
         \/ WriteLedger /\ single.item \in DOMAIN items /\ RecordDecisions({single.item}, Verdict)
         \/ /\ RecordLedger /\ bulk.ids \subseteq DOMAIN items
            /\ RecordDecisions(bulk.ids, "approved")
<1>0. \A ids, edges : Redundant(ids, edges) \subseteq ids
  BY DEF Redundant
<1>1. CASE PassQueue
  <2> DEFINE valid == {i \in Pending : Target(i) \in Present(docs)}
             ids == (Pending \ valid) \cup Redundant(valid, Representatives)
  <2>1. Redundant(valid, Representatives) \subseteq Pending
    BY <1>0
  <2>2. Mark(ids, "stale")
    BY <1>1 DEF PassQueue
  <2>3. ids \in SUBSET Pending
    BY <2>1
  <2> HIDE DEF ids
  <2> QED BY <1>1, <2>2, <2>3 DEF Drops
<1>2. CASE Retire
  <2> DEFINE live == bulk.ids \cap Pending
             invalid == {i \in live : Target(i) \notin Present(disk)}
             Rivals(i) == {j \in live \ invalid : items[j].alias = items[i].alias}
             reserved(i) == {Name[s] : s \in {t \in Owners(items[i].alias) : Accepted(t)}}
             beaten == {i \in live \ invalid :
                 IF reserved(i) # {} THEN Name[Target(i)] \notin reserved(i)
                 ELSE Name[Target(i)] # Name[Target(Best(Rivals(i)))]}
             ids == invalid \cup beaten
  <2>1. Mark(ids, "stale")
    BY <1>2 DEF Retire
  <2>2. ids \in SUBSET Pending
    <3>1. invalid \subseteq live /\ beaten \subseteq live
      <4> HIDE DEF live, Rivals, reserved
      <4> QED OBVIOUS
    <3> QED BY <3>1
  <2> HIDE DEF ids
  <2> QED BY <1>2, <2>1, <2>2 DEF Drops
<1>3. CASE Judge
  <2> DEFINE bad == {i \in Found : ~Admissible(bulk.found[i], EqualTo(bulk.found[i].target))}
  <2>1. UNCHANGED items \/ (bad \subseteq Pending /\ Mark(bad, "stale"))
    BY <1>3 DEF Judge
  <2> HIDE DEF bad
  <2> QED BY <1>3, <2>1 DEF Drops
<1>4. CASE Choose
  <2> DEFINE worse == Redundant(bulk.ids \cap Pending, Proven)
  <2>1. Mark(worse, "stale")
    BY <1>4 DEF Choose
  <2>2. worse \in SUBSET Pending
    BY <1>0
  <2> HIDE DEF worse
  <2> QED BY <1>4, <2>1, <2>2 DEF Drops
<1>5. CASE WriteItem
  BY <1>5 DEF WriteItem, SinglePc, ReviewInv, SingleInv
<1>6. CASE RecordItem
  <2>1. CASE bulk.todo = {}
    BY <1>6, <2>1 DEF RecordItem
  <2>2. CASE bulk.todo # {}
    <3>1. bulk.todo \subseteq bulk.ids \cap Pending
      BY <1>6 DEF RecordItem, BulkPc, ReviewInv, BulkInv
    <3>2. bulk.todo \subseteq Nat
      BY <3>1 DEF ReviewInv, TypeOK, Pending
    <3>3. Min(bulk.todo) \in bulk.todo
      BY <2>2, <3>2, MinIsLeast
    <3> QED BY <1>6, <2>2, <3>1, <3>3 DEF RecordItem
  <2> QED BY <2>1, <2>2
<1>7. CASE WriteLedger
  BY <1>7 DEF WriteLedger, SinglePc, ReviewInv, SingleInv
<1>8. CASE RecordLedger
  BY <1>8 DEF RecordLedger, BulkPc, ReviewInv, BulkInv
<1> QED BY <1>1, <1>2, <1>3, <1>4, <1>5, <1>6, <1>7, <1>8, Holders

\* Items keep their target and alias, and only resolved ones disappear; what is
\* marked changes its status.
LEMMA ItemStep ==
  ASSUME ReviewInv, [Next]_vars
  PROVE  /\ DOMAIN items' \subseteq DOMAIN items /\ items' \in [DOMAIN items' -> Items]
         /\ Pending \subseteq DOMAIN items'
         /\ \A i \in DOMAIN items' : /\ items'[i].target = items[i].target
                                     /\ items'[i].alias = items[i].alias
<1>0. TypeOK /\ Verdict \in Statuses /\ Verdict \in {"approved", "rejected"}
  BY DEF ReviewInv, Verdict, Statuses
<1>1. CASE UNCHANGED items
  BY <1>0, <1>1 DEF TypeOK, Pending
<1>2. ASSUME NEW ids, NEW status \in Statuses, Mark(ids, status)
      PROVE  /\ DOMAIN items' \subseteq DOMAIN items /\ items' \in [DOMAIN items' -> Items]
             /\ Pending \subseteq DOMAIN items'
             /\ \A i \in DOMAIN items' : /\ items'[i].target = items[i].target
                                         /\ items'[i].alias = items[i].alias
  BY <1>0, <1>2, Marked DEF Pending
<1>3. ASSUME NEW ids \in SUBSET DOMAIN items, NEW verdict \in {"approved", "rejected"},
             RecordDecisions(ids, verdict)
      PROVE  /\ DOMAIN items' \subseteq DOMAIN items /\ items' \in [DOMAIN items' -> Items]
             /\ Pending \subseteq DOMAIN items'
             /\ \A i \in DOMAIN items' : /\ items'[i].target = items[i].target
                                         /\ items'[i].alias = items[i].alias
  BY <1>0, <1>3, Recorded
<1>4. "stale" \in Statuses /\ "approved" \in Statuses
  BY DEF Statuses
<1> QED BY <1>0, <1>1, <1>2, <1>3, <1>4, ItemWriters DEF Drops

\* The type of the ledger, of what the mirror shows, and of the lock.
LEMMA StoreTypeStep ==
  ASSUME ReviewInv, [Next]_vars
  PROVE  /\ ledger' \in [Symbols -> [verdict : {"none", "approved", "rejected"}, name : Nat]]
         /\ shown' \in [Symbols -> Nat]
         /\ lock' \in {"free", "single", "bulk", "index"}
         /\ docs' \in [Files -> Versions] /\ disk' \in [Files -> Versions]
<1>0. TypeOK
  BY DEF ReviewInv
<1>1. ledger' \in [Symbols -> [verdict : {"none", "approved", "rejected"}, name : Nat]]
  <2>1. CASE PassForget
    BY <1>0, <2>1 DEF PassForget, TypeOK
  <2>2. CASE WriteLedger
    BY <1>0, <2>2, Recorded DEF WriteLedger, Verdict, ReviewInv, SingleInv, SinglePc
  <2>3. CASE RecordLedger
    BY <1>0, <2>3, Recorded DEF RecordLedger, ReviewInv, BulkInv, BulkPc
  <2> QED BY <1>0, <2>1, <2>2, <2>3, Holders DEF TypeOK
<1>2. shown' \in [Symbols -> Nat]
  <2>1. CASE PassReplace
    BY <1>0, <2>1 DEF PassReplace, TypeOK
  <2>2. CASE PassMirror \/ Mirror \/ MirrorBatch
    BY <1>0, <2>2, RefreshedType DEF PassMirror, Mirror, MirrorBatch
  <2> QED BY <1>0, <2>1, <2>2, Writers DEF TypeOK
<1>3. lock' \in {"free", "single", "bulk", "index"}
  <2>1. CASE Review
    BY <1>0, <2>1 DEF Review, Begin, Prepare, Ask, Equivalents, Lock, Admit, Accept, Mirror,
                      WriteItem, WriteLedger, Refused, TypeOK
  <2>2. CASE BulkReview
    BY <1>0, <2>2 DEF BulkReview, StartBulk, Retire, Reread, Preflight, PrepareAll, AskAll,
                      Relock, Judge, Choose, AdmitBatch, AcceptBatch, MirrorBatch, RecordItem,
                      RecordLedger, Abandon, TypeOK
  <2>3. CASE StartPass \/ PassQueue \/ \E p \in {"single", "bulk", "index"} : Die(p)
    BY <1>0, <2>3 DEF StartPass, PassQueue, Die, TypeOK
  <2> QED BY <1>0, <2>1, <2>2, <2>3, Holders DEF TypeOK
<1>4. docs' \in [Files -> Versions] /\ disk' \in [Files -> Versions]
  BY <1>0, Writers DEF Edit, PassReplace, TypeOK
<1> QED BY <1>1, <1>2, <1>3, <1>4

\* The type invariant.
LEMMA TypeStep ==
  ASSUME ReviewInv, [Next]_vars
  PROVE  TypeOK'
<1>1. DOMAIN items' \subseteq Nat
  BY ItemStep DEF ReviewInv, TypeOK
<1> QED BY <1>1, GraphTypeStep, AliasTypeStep, ItemStep, StoreTypeStep DEF TypeOK

\* A verdict stands, and an approval is true when it is given.
LEMMA VerdictStep ==
  ASSUME ReviewInv, [Next]_vars
  PROVE  \A i \in DOMAIN items' :
             /\ items[i].status # "pending" => items'[i].status = items[i].status
             /\ items'[i].status = "approved" /\ items[i].status # "approved" =>
                    Accepted(Target(i)) /\ alias[Target(i)].name = items[i].alias
<1>0. TypeOK /\ Verdict \in Statuses /\ Verdict \in {"approved", "rejected"}
  BY DEF ReviewInv, Verdict, Statuses
<1>1. "stale" \in Statuses /\ "approved" \in Statuses
  BY DEF Statuses
<1> SUFFICES ASSUME NEW i \in DOMAIN items'
             PROVE  /\ items[i].status # "pending" => items'[i].status = items[i].status
                    /\ items'[i].status = "approved" /\ items[i].status # "approved" => InForce(i)
  BY DEF InForce
<1>2. CASE UNCHANGED items
  BY <1>2
<1>3. CASE Drops
  BY <1>0, <1>1, <1>3, Marked DEF Drops, Pending
<1>4. CASE WriteItem /\ single.item \in Pending /\ Mark({single.item}, Verdict)
  <2>1. Verdict = "approved" => InForce(single.item)
    BY <1>4 DEF WriteItem, SinglePc, ReviewInv, SingleInv, Verdict
  <2> QED BY <1>0, <1>4, <2>1, Marked DEF Pending
<1>5. CASE /\ RecordItem /\ bulk.todo # {} /\ Min(bulk.todo) \in bulk.todo
           /\ bulk.todo \subseteq bulk.ids \cap Pending /\ Mark({Min(bulk.todo)}, "approved")
  <2>1. InForce(Min(bulk.todo)) /\ Min(bulk.todo) \in Pending
    BY <1>5 DEF RecordItem, BulkPc, ReviewInv, BulkInv
  <2> QED BY <1>0, <1>1, <1>5, <2>1, Marked DEF Pending
<1>6. CASE /\ WriteLedger /\ single.item \in DOMAIN items
           /\ RecordDecisions({single.item}, Verdict)
  BY <1>0, <1>6, Recorded
<1>7. CASE /\ RecordLedger /\ bulk.ids \subseteq DOMAIN items
           /\ RecordDecisions(bulk.ids, "approved")
  BY <1>0, <1>7, Recorded
<1> QED BY <1>2, <1>3, <1>4, <1>5, <1>6, <1>7, ItemWriters

\* The memory of the reviewer, and who lets it forget.
LEMMA SingleMemory ==
  ASSUME ReviewInv, [Next]_vars
  PROVE  /\ DOMAIN single' = DOMAIN SingleIdle
         /\ HasClosure' => single'.found.uses \subseteq Files
<1>0. DOMAIN single = DOMAIN SingleIdle /\ (HasClosure => single.found.uses \subseteq Files)
  BY DEF ReviewInv, ProcsInv
<1>1. DOMAIN SingleIdle = {"pc", "item", "approve", "docs", "found", "equal"}
      /\ SingleIdle.found = <<>>
  BY DEF SingleIdle
<1>2. CASE UNCHANGED single
  BY <1>0, <1>2 DEF HasClosure
<1>3. CASE single' = SingleIdle
  BY <1>1, <1>3 DEF HasClosure
<1>4. CASE Begin
  <2>1. DOMAIN single' = DOMAIN SingleIdle /\ single'.found = SingleIdle.found
    BY <1>1, <1>4 DEF Begin
  <2> QED BY <1>1, <2>1 DEF HasClosure
<1>5. CASE Prepare
  <2>1. CASE single' = SingleIdle
    BY <1>3, <2>1
  <2>2. CASE single' \in {[single EXCEPT !.pc = "lock"],
                         [single EXCEPT !.pc = "ask", !.docs = docs]}
    <3>1. DOMAIN single' = DOMAIN SingleIdle /\ single'.found = single.found
      BY <1>0, <1>1, <2>2
    <3> QED BY <1>0, <3>1 DEF HasClosure
  <2> QED BY <1>5, <2>1, <2>2 DEF Prepare, Refused
<1>6. CASE Ask
  <2>1. CASE single' = SingleIdle
    BY <1>3, <2>1
  <2>2. CASE \E ans \in Answers(Mine.target) :
                 single' = [single EXCEPT !.pc = "equal", !.found = ans]
    <3>1. PICK ans \in Answers(Mine.target) :
                 single' = [single EXCEPT !.pc = "equal", !.found = ans]
      BY <2>2
    <3>2. DOMAIN single' = DOMAIN SingleIdle /\ single'.found = ans
      BY <1>0, <1>1, <3>1
    <3> QED BY <3>2, Answered
  <2> QED BY <1>6, <2>1, <2>2 DEF Ask, Refused
<1>7. CASE Equivalents
  <2>1. PICK equal : single' = [single EXCEPT !.pc = "lock", !.equal = equal]
    BY <1>7 DEF Equivalents
  <2>2. DOMAIN single' = DOMAIN SingleIdle /\ single'.found = single.found
    BY <1>0, <1>1, <2>1
  <2> QED BY <1>0, <2>2 DEF HasClosure
<1>8. CASE \E pc : Step(pc)
  <2>1. DOMAIN single' = DOMAIN SingleIdle /\ single'.found = single.found
    BY <1>0, <1>1, <1>8 DEF Step
  <2> QED BY <1>0, <2>1 DEF HasClosure
<1>9. CASE Lock \/ Admit \/ Accept \/ Mirror \/ WriteItem \/ WriteLedger
  <2>1. single' = SingleIdle \/ \E pc : Step(pc)
    BY <1>9 DEF Lock, Admit, Accept, Mirror, WriteItem, WriteLedger, Refused
  <2> QED BY <1>3, <1>8, <2>1
<1>10. CASE Die("single")
  BY <1>3, <1>10 DEF Die
<1> QED BY <1>2, <1>4, <1>5, <1>6, <1>7, <1>9, <1>10, Holders DEF Review

\* The memory of a bulk approval.
LEMMA BulkMemory ==
  ASSUME ReviewInv, [Next]_vars
  PROVE  /\ DOMAIN bulk' = DOMAIN BulkIdle
         /\ \A i \in DOMAIN bulk'.found : bulk'.found[i].uses \subseteq Files
<1>0. /\ DOMAIN bulk = DOMAIN BulkIdle
      /\ \A i \in DOMAIN bulk.found : bulk.found[i].uses \subseteq Files
  BY DEF ReviewInv, ProcsInv
<1>1. DOMAIN BulkIdle = {"pc", "ids", "todo", "base", "docs", "found"}
      /\ BulkIdle.found = <<>> /\ DOMAIN BulkIdle.found = {}
  BY DEF BulkIdle
<1>2. CASE UNCHANGED bulk
  BY <1>0, <1>2
<1>3. CASE bulk' = BulkIdle
  BY <1>1, <1>3
<1>4. CASE DOMAIN bulk' = DOMAIN bulk /\ bulk'.found = bulk.found
  BY <1>0, <1>4
<1>5. CASE \E pc : BulkStep(pc)
  BY <1>0, <1>1, <1>4, <1>5 DEF BulkStep
<1>6. CASE StartBulk
  <2>1. DOMAIN bulk' = DOMAIN BulkIdle /\ bulk'.found = BulkIdle.found
    BY <1>1, <1>6 DEF StartBulk
  <2> QED BY <1>1, <2>1
<1>7. CASE Retire \/ Relock \/ AdmitBatch \/ AcceptBatch \/ PassQueue
  <2>1. bulk' \in {bulk, BulkIdle} \/ \E pc : BulkStep(pc)
    <3>1. CASE PassQueue
      BY <3>1 DEF PassQueue, BulkStep
    <3>2. CASE Retire \/ Relock \/ AdmitBatch \/ AcceptBatch
      BY <3>2 DEF Retire, Relock, AdmitBatch, AcceptBatch, Abandon
    <3> QED BY <1>7, <3>1, <3>2
  <2> QED BY <1>2, <1>3, <1>5, <2>1
<1>8. CASE Reread \/ Preflight \/ PrepareAll
  <2>1. CASE \E pc, ids : bulk' = [bulk EXCEPT !.pc = pc, !.ids = ids]
    BY <1>0, <1>1, <1>4, <2>1
  <2>2. CASE \E pc, base : bulk' = [bulk EXCEPT !.pc = pc, !.base = base]
    BY <1>0, <1>1, <1>4, <2>2
  <2>3. CASE \E pc, d : bulk' = [bulk EXCEPT !.pc = pc, !.docs = d]
    BY <1>0, <1>1, <1>4, <2>3
  <2> QED BY <1>3, <1>8, <2>1, <2>2, <2>3 DEF Reread, Preflight, PrepareAll, Abandon
<1>9. CASE AskAll
  <2>1. CASE \E answers \in [Asked -> UNION {Answers(Target(i)) : i \in Asked}] :
                 /\ \A i \in Asked : answers[i] \in Answers(Target(i))
                 /\ bulk' = [bulk EXCEPT !.pc = "relock", !.found = answers]
    <3>1. PICK answers \in [Asked -> UNION {Answers(Target(i)) : i \in Asked}] :
                 /\ \A i \in Asked : answers[i] \in Answers(Target(i))
                 /\ bulk' = [bulk EXCEPT !.pc = "relock", !.found = answers]
      BY <2>1
    <3>2. DOMAIN bulk' = DOMAIN BulkIdle /\ bulk'.found = answers
      BY <1>0, <1>1, <3>1
    <3> QED BY <3>1, <3>2, Answered
  <2> QED BY <1>3, <1>9, <2>1 DEF AskAll, Abandon
<1>10. CASE Judge
  <2>1. CASE \E bad, left : bulk' = [bulk EXCEPT !.ids = left,
                                                !.found = [i \in Found \ bad |-> @[i]]]
    <3>1. PICK bad, left : bulk' = [bulk EXCEPT !.ids = left,
                                                !.found = [i \in Found \ bad |-> @[i]]]
      BY <2>1
    <3>2. DOMAIN bulk' = DOMAIN BulkIdle /\ bulk'.found = [i \in Found \ bad |-> bulk.found[i]]
      BY <1>0, <1>1, <3>1
    <3> QED BY <1>0, <3>2 DEF Found
  <2>2. BulkStep("choose") \/ Abandon
        \/ \E bad, left : bulk' = [bulk EXCEPT !.ids = left, !.found = [i \in Found \ bad |-> @[i]]]
    BY <1>10 DEF Judge
  <2> QED BY <1>3, <1>5, <2>1, <2>2 DEF Abandon
<1>11. CASE Choose
  <2>1. CASE \E pc, left : bulk' = [bulk EXCEPT !.pc = pc, !.ids = left,
                                               !.found = [i \in Found \cap left |-> @[i]]]
    <3>1. PICK pc, left : bulk' = [bulk EXCEPT !.pc = pc, !.ids = left,
                                               !.found = [i \in Found \cap left |-> @[i]]]
      BY <2>1
    <3>2. DOMAIN bulk' = DOMAIN BulkIdle /\ bulk'.found = [i \in Found \cap left |-> bulk.found[i]]
      BY <1>0, <1>1, <3>1
    <3> QED BY <1>0, <3>2 DEF Found
  <2> QED BY <1>3, <1>11, <2>1 DEF Choose, Abandon
<1>12. CASE MirrorBatch
  BY <1>0, <1>1, <1>4, <1>12 DEF MirrorBatch
<1>13. CASE RecordItem
  <2>1. CASE bulk' = [bulk EXCEPT !.todo = @ \ {Min(@)}]
    BY <1>0, <1>1, <1>4, <2>1
  <2> QED BY <1>5, <1>13, <2>1 DEF RecordItem
<1>14. CASE RecordLedger \/ Die("bulk")
  BY <1>3, <1>14 DEF RecordLedger, Abandon, Die
<1> QED BY <1>2, <1>6, <1>7, <1>8, <1>9, <1>10, <1>11, <1>12, <1>13, <1>14, Holders DEF BulkReview

\* The fields of a pass after each of its steps.
LEMMA PassMoves ==
  ASSUME ReviewInv
  PROVE  /\ StartPass => /\ DOMAIN pass' = DOMAIN PassOff /\ pass'.pc = "replace" /\ pass'.full
                         /\ pass'.todo = {} /\ pass'.lost = {}
         /\ StartBulk => /\ DOMAIN pass' = DOMAIN PassOff /\ pass'.todo = {} /\ pass'.lost = {}
                         /\ \/ pass'.pc = "replace" /\ pass'.full
                            \/ pass'.pc = "quarantine" /\ ~pass'.full /\ docs = disk
         /\ PassReplace =>
                /\ DOMAIN pass' = DOMAIN PassOff /\ pass'.pc = "refresh"
                /\ pass'.full = pass.full /\ pass'.lost = pass.lost
                /\ pass'.todo = {l[1] : l \in {k \in links' : alias'[k[2]].status = "stale"}}
         /\ RefreshAdmits =>
                /\ DOMAIN pass' = DOMAIN PassOff /\ pass'.pc = "restore"
                /\ pass'.full = pass.full /\ pass'.lost = pass.lost /\ pass'.todo = pass.todo
                /\ pass'.decision = alias[Min(StaleIn(Min(pass.todo)))].name
         /\ RefreshGivesUp \/ RefreshRestores =>
                /\ DOMAIN pass' = DOMAIN PassOff /\ pass'.pc = "refresh"
                /\ pass'.full = pass.full /\ pass'.lost = pass.lost
                /\ pass'.todo = pass.todo \ {Min(pass.todo)}
         /\ PassConverge \/ PassForget \/ PassMirror =>
                /\ DOMAIN pass' = DOMAIN PassOff /\ pass'.full = pass.full
                /\ pass'.lost = pass.lost /\ pass'.todo = pass.todo
         /\ PassConverge => pass'.pc = "legacy"
         /\ PassForget => pass'.pc = "mirror"
         /\ PassMirror => pass'.pc = "queue"
<1>0. DOMAIN pass = {"pc", "full", "todo", "decision", "lost"}
      /\ DOMAIN PassOff = {"pc", "full", "todo", "decision", "lost"}
      /\ PassOff.todo = {} /\ PassOff.lost = {} /\ PassOff.full = FALSE
  BY DEF ReviewInv, ProcsInv, PassOff
<1>1. ASSUME StartPass
      PROVE  /\ DOMAIN pass' = DOMAIN PassOff /\ pass'.pc = "replace" /\ pass'.full
             /\ pass'.todo = {} /\ pass'.lost = {}
  <2>1. pass' = [PassOff EXCEPT !.pc = "replace", !.full = TRUE]
    BY <1>1 DEF StartPass
  <2> QED BY <1>0, <2>1
<1>2. ASSUME StartBulk
      PROVE  /\ DOMAIN pass' = DOMAIN PassOff /\ pass'.todo = {} /\ pass'.lost = {}
             /\ \/ pass'.pc = "replace" /\ pass'.full
                \/ pass'.pc = "quarantine" /\ ~pass'.full /\ docs = disk
  <2>1. CASE docs = disk
    <3>1. pass' = [PassOff EXCEPT !.pc = "quarantine"]
      BY <1>2, <2>1 DEF StartBulk
    <3> QED BY <1>0, <2>1, <3>1
  <2>2. CASE docs # disk
    <3>1. pass' = [PassOff EXCEPT !.pc = "replace", !.full = TRUE]
      BY <1>2, <2>2 DEF StartBulk
    <3> QED BY <1>0, <3>1
  <2> QED BY <2>1, <2>2
<1>3. ASSUME PassReplace
      PROVE  /\ DOMAIN pass' = DOMAIN PassOff /\ pass'.pc = "refresh"
             /\ pass'.full = pass.full /\ pass'.lost = pass.lost
             /\ pass'.todo = {l[1] : l \in {k \in links' : alias'[k[2]].status = "stale"}}
  <2> DEFINE todo == {l[1] : l \in {k \in links' : alias'[k[2]].status = "stale"}}
  <2>1. pass' = [pass EXCEPT !.pc = "refresh", !.todo = todo]
    BY <1>3 DEF PassReplace
  <2> HIDE DEF todo
  <2>2. /\ DOMAIN pass' = DOMAIN PassOff /\ pass'.pc = "refresh"
        /\ pass'.full = pass.full /\ pass'.lost = pass.lost /\ pass'.todo = todo
    BY <1>0, <2>1
  <2> QED BY <2>2 DEF todo
<1>4. ASSUME RefreshAdmits
      PROVE  /\ DOMAIN pass' = DOMAIN PassOff /\ pass'.pc = "restore"
             /\ pass'.full = pass.full /\ pass'.lost = pass.lost /\ pass'.todo = pass.todo
             /\ pass'.decision = alias[Min(StaleIn(Min(pass.todo)))].name
  <2>1. PICK d : d = alias[Min(StaleIn(Min(pass.todo)))].name
    OBVIOUS
  <2>2. pass' = [pass EXCEPT !.pc = "restore", !.decision = d]
    BY <1>4, <2>1 DEF RefreshAdmits
  <2> QED BY <1>0, <2>1, <2>2
<1>5. ASSUME RefreshGivesUp \/ RefreshRestores
      PROVE  /\ DOMAIN pass' = DOMAIN PassOff /\ pass'.pc = "refresh"
             /\ pass'.full = pass.full /\ pass'.lost = pass.lost
             /\ pass'.todo = pass.todo \ {Min(pass.todo)}
  <2> DEFINE rest == pass.todo \ {Min(pass.todo)}
  <2>1. \/ pass.pc = "refresh" /\ pass' = [pass EXCEPT !.todo = rest]
        \/ pass' = [pass EXCEPT !.pc = "refresh", !.todo = rest, !.decision = None]
    BY <1>5 DEF RefreshGivesUp, RefreshRestores, Passing
  <2> HIDE DEF rest
  <2>2. /\ DOMAIN pass' = DOMAIN PassOff /\ pass'.pc = "refresh"
        /\ pass'.full = pass.full /\ pass'.lost = pass.lost /\ pass'.todo = rest
    BY <1>0, <2>1
  <2> QED BY <2>2 DEF rest
<1>6. ASSUME NEW pc, Advance(pc)
      PROVE  /\ DOMAIN pass' = DOMAIN PassOff /\ pass'.full = pass.full
             /\ pass'.lost = pass.lost /\ pass'.todo = pass.todo /\ pass'.pc = pc
  BY <1>0, <1>6 DEF Advance
<1>7. /\ PassConverge => Advance("legacy")
      /\ PassForget => Advance("mirror")
      /\ PassMirror => Advance("queue")
  BY DEF PassConverge, PassForget, PassMirror
<1> QED BY <1>1, <1>2, <1>3, <1>4, <1>5, <1>6, <1>7

\* What a quarantine does to the pass.
LEMMA ForsakeMoves ==
  ASSUME ReviewInv, NEW symbols \in SUBSET Symbols, Forsake(symbols)
  PROVE  /\ DOMAIN pass' = DOMAIN PassOff /\ pass'.full = pass.full /\ pass'.todo = pass.todo
         /\ pass'.pc = IF pass.pc = "legacy" THEN "forget"
                       ELSE IF pass.full THEN "converge" ELSE "legacy"
         /\ Lost' = Lost \cup symbols
<1>0. DOMAIN pass = {"pc", "full", "todo", "decision", "lost"}
      /\ DOMAIN PassOff = {"pc", "full", "todo", "decision", "lost"}
  BY DEF ReviewInv, ProcsInv, PassOff
<1> DEFINE added == {<<s, alias[s].name>> : s \in symbols}
           next == IF pass.pc = "legacy" THEN "forget"
                   ELSE IF pass.full THEN "converge" ELSE "legacy"
<1>1. pass' = [pass EXCEPT !.lost = @ \cup added, !.pc = next]
  BY DEF Forsake
<1>2. /\ DOMAIN pass' = DOMAIN PassOff /\ pass'.full = pass.full /\ pass'.todo = pass.todo
      /\ pass'.pc = next /\ pass'.lost = pass.lost \cup added
  <2> HIDE DEF added, next
  <2> QED BY <1>0, <1>1
<1>3. {q[1] : q \in pass.lost \cup added} = {q[1] : q \in pass.lost} \cup symbols
  <2>1. ASSUME NEW s \in symbols PROVE \E q \in pass.lost \cup added : q[1] = s
    <3>1. <<s, alias[s].name>> \in added
      OBVIOUS
    <3> HIDE DEF added
    <3> QED BY <3>1
  <2>2. ASSUME NEW q \in added PROVE q[1] \in symbols
    OBVIOUS
  <2> HIDE DEF added
  <2> QED BY <2>1, <2>2
<1> QED BY <1>2, <1>3 DEF Lost

\* The quarantines of a pass.
LEMMA Quarantines ==
  ASSUME ReviewInv
  PROVE  /\ PassQuarantine => Forsake(Stale) /\ Stale \in SUBSET Symbols
                              /\ pass.pc \in {"quarantine", "refresh"} /\ pass.lost = {}
         /\ PassLegacy => Forsake(Unsafe) /\ Unsafe \in SUBSET Symbols /\ pass.pc = "legacy"
BY DEF PassQuarantine, PassLegacy, Stale, Unsafe, LegacyUnsafe, Passing, ReviewInv, LockInv

\* The memory of a pass.
LEMMA PassMemory ==
  ASSUME ReviewInv, [Next]_vars
  PROVE  /\ DOMAIN pass' = DOMAIN PassOff /\ pass'.todo \subseteq Symbols
         /\ pass'.pc = "restore" => pass'.todo # {} /\ pass'.decision \in Nat \ {None}
         /\ pass'.pc \in {"replace", "quarantine", "refresh", "restore"} => pass'.lost = {}
         /\ pass'.pc \in {"replace", "refresh", "restore", "converge"} => pass'.full
<1>0. /\ DOMAIN pass = DOMAIN PassOff /\ pass.todo \subseteq Symbols
      /\ pass.pc = "restore" => pass.todo # {} /\ pass.decision \in Nat \ {None}
      /\ pass.pc \in {"replace", "quarantine", "refresh", "restore"} => pass.lost = {}
      /\ pass.pc \in {"replace", "refresh", "restore", "converge"} => pass.full
  BY DEF ReviewInv, ProcsInv, LockInv
<1>1. CASE UNCHANGED pass
  BY <1>0, <1>1
<1>2. CASE pass' = PassOff
  BY <1>2 DEF PassOff
<1>3. CASE StartPass \/ StartBulk
  BY <1>3, PassMoves
<1>4. CASE PassReplace
  <2>1. \A l \in links' : l[1] \in Symbols
    BY GraphTypeStep
  <2> QED BY <1>0, <1>4, <2>1, PassMoves DEF PassReplace, Passing
<1>5. CASE RefreshAdmits
  <2> DEFINE stale == StaleIn(Min(pass.todo))
  <2>1. stale # {} /\ stale \subseteq Stale
    BY <1>5 DEF RefreshAdmits, StaleIn
  <2>2. Stale \subseteq Symbols /\ Stale \subseteq Nat
    BY Constants DEF Stale
  <2>3. Min(stale) \in Stale
    <3> HIDE DEF stale
    <3> QED BY <2>1, <2>2, MinIsLeast
  <2>4. alias[Min(stale)].name \in Nat \ {None}
    BY <2>3 DEF Stale, ReviewInv, TypeOK, Rows
  <2> HIDE DEF stale
  <2>5. pass'.decision \in Nat \ {None}
    BY <1>5, <2>4, PassMoves DEF stale
  <2> QED BY <1>0, <1>5, <2>5, PassMoves DEF RefreshAdmits, Passing
<1>6. CASE RefreshGivesUp \/ RefreshRestores
  BY <1>0, <1>6, PassMoves DEF RefreshGivesUp, RefreshRestores, Passing
<1>7. CASE PassQuarantine
  BY <1>0, <1>7, Quarantines, ForsakeMoves
<1>8. CASE PassLegacy
  BY <1>0, <1>8, Quarantines, ForsakeMoves
<1>9. CASE PassConverge
  BY <1>0, <1>9, PassMoves
<1>10. CASE PassForget \/ PassMirror
  BY <1>0, <1>10, PassMoves
<1>11. CASE PassQueue \/ Die("bulk") \/ Die("index")
  BY <1>1, <1>2, <1>11 DEF PassQueue, Die
<1> QED BY <1>1, <1>3, <1>4, <1>5, <1>6, <1>7, <1>8, <1>9, <1>10, <1>11, Holders DEF PassStep

\* The memory of all three.
LEMMA ProcsStep ==
  ASSUME ReviewInv, [Next]_vars
  PROVE  ProcsInv'
BY SingleMemory, BulkMemory, PassMemory DEF ProcsInv

\* A reviewer takes the lock when its checks have passed and keeps it to the end.
Deciding == {"admit", "accept", "mirror", "file", "ledger"}
LEMMA ReviewLocks ==
  ASSUME ReviewInv, Review
  PROVE  /\ bulk' = bulk /\ pass' = pass
         /\ \/ single'.pc = "idle" /\ lock' = IF lock = "single" THEN "free" ELSE lock
            \/ single.pc \notin Deciding /\ single'.pc \notin Deciding /\ lock' = lock
            \/ single.pc \in Deciding /\ single'.pc \in Deciding /\ lock' = lock
            \/ /\ single.pc = "lock" /\ single'.pc \in Deciding
               /\ lock = "free" /\ lock' = "single"
<1>0. DOMAIN single = {"pc", "item", "approve", "docs", "found", "equal"}
      /\ DOMAIN SingleIdle = {"pc", "item", "approve", "docs", "found", "equal"}
      /\ SingleIdle.pc = "idle"
  BY DEF ReviewInv, ProcsInv, SingleIdle
<1>1. bulk' = bulk /\ pass' = pass
  BY DEF Review, Begin, Prepare, Ask, Equivalents, Lock, Admit, Accept, Mirror, WriteItem,
         WriteLedger, ReviewerUnchanged
<1>2. CASE Refused
  BY <1>0, <1>1, <1>2 DEF Refused
<1>3. CASE Begin
  <2>1. single'.pc \in {"prepare", "lock"} /\ lock' = lock /\ single.pc = "idle"
    BY <1>0, <1>3 DEF Begin, SinglePc
  <2> QED BY <1>1, <2>1 DEF Deciding
<1>4. CASE (Prepare \/ Ask \/ Equivalents) /\ ~Refused
  <2>1. single'.pc \in {"ask", "equal", "lock"} /\ lock' = lock
    <3>1. CASE Prepare
      BY <1>0, <1>4, <3>1 DEF Prepare
    <3>2. CASE Ask
      BY <1>0, <1>4, <3>2 DEF Ask
    <3>3. CASE Equivalents
      BY <1>0, <1>4, <3>3 DEF Equivalents
    <3> QED BY <1>4, <3>1, <3>2, <3>3
  <2>2. single.pc \in {"prepare", "ask", "equal"}
    BY <1>4 DEF Prepare, Ask, Equivalents, SinglePc
  <2> QED BY <1>1, <2>1, <2>2 DEF Deciding
<1>5. CASE Lock /\ ~Refused
  <2>1. \E pc \in {"file", "admit", "accept"} : Step(pc)
    BY <1>5 DEF Lock
  <2>2. single'.pc \in {"file", "admit", "accept"}
    BY <1>0, <2>1 DEF Step
  <2> QED BY <1>1, <1>5, <2>2 DEF Lock, SinglePc, Deciding
<1>6. CASE (Admit \/ Accept \/ Mirror \/ WriteItem) /\ ~Refused
  <2>1. (\E pc \in {"accept", "mirror", "file", "ledger"} : Step(pc)) /\ lock' = lock
    BY <1>6 DEF Admit, Accept, Mirror, WriteItem
  <2>2. single'.pc \in {"accept", "mirror", "file", "ledger"}
    BY <1>0, <2>1 DEF Step
  <2>3. single.pc \in Deciding
    BY <1>6 DEF Admit, Accept, Mirror, WriteItem, SinglePc, Deciding
  <2> QED BY <1>1, <2>1, <2>2, <2>3 DEF Deciding
<1>7. CASE WriteLedger
  BY <1>2, <1>7 DEF WriteLedger
<1> QED BY <1>2, <1>3, <1>4, <1>5, <1>6, <1>7 DEF Review

\* A bulk approval holds the lock while the index is refreshed and while it applies
\* its selection.
Applying == {"judge", "choose", "admit", "accept", "mirror", "record", "ledger"}
LEMMA BulkLocks ==
  ASSUME ReviewInv, BulkReview
  PROVE  /\ single' = single /\ (pass' = pass \/ StartBulk)
         /\ \/ bulk'.pc = "idle" /\ lock' = IF lock = "bulk" THEN "free" ELSE lock
            \/ /\ StartBulk /\ lock = "free" /\ lock' = "bulk"
               /\ bulk.pc = "idle" /\ bulk'.pc = "index"
            \/ Retire /\ lock' = "free" /\ bulk.pc = "retire" /\ bulk'.pc = "reread"
            \/ /\ bulk.pc \in {"reread", "preflight", "prepare", "ask"}
               /\ bulk'.pc \in {"preflight", "prepare", "ask", "relock"} /\ lock' = lock
            \/ bulk.pc = "relock" /\ bulk'.pc = "judge" /\ lock = "free" /\ lock' = "bulk"
            \/ bulk.pc \in Applying /\ bulk'.pc \in Applying /\ lock' = lock
<1>0. DOMAIN bulk = {"pc", "ids", "todo", "base", "docs", "found"}
      /\ DOMAIN BulkIdle = {"pc", "ids", "todo", "base", "docs", "found"}
      /\ BulkIdle.pc = "idle"
  BY DEF ReviewInv, ProcsInv, BulkIdle
<1>1. single' = single /\ (pass' = pass \/ StartBulk)
  BY DEF BulkReview, StartBulk, Retire, Reread, Preflight, PrepareAll, AskAll, Relock,
         Judge, Choose, AdmitBatch, AcceptBatch, MirrorBatch, RecordItem, RecordLedger,
         BulkUnchanged
<1>2. CASE Abandon
  BY <1>0, <1>1, <1>2 DEF Abandon
<1>3. CASE StartBulk
  <2>1. bulk'.pc = "index"
    BY <1>0, <1>3 DEF StartBulk
  <2> QED BY <1>1, <1>3, <2>1 DEF StartBulk, BulkPc
<1>4. CASE Retire
  <2>1. BulkStep("reread") /\ lock' = "free" /\ bulk.pc = "retire"
    BY <1>4 DEF Retire, BulkPc
  <2> QED BY <1>0, <1>1, <1>4, <2>1 DEF BulkStep
<1>5. CASE (Reread \/ Preflight \/ PrepareAll \/ AskAll) /\ ~Abandon
  <2>1. bulk'.pc \in {"preflight", "prepare", "ask", "relock"} /\ lock' = lock
    <3>1. CASE Reread
      BY <1>0, <1>5, <3>1 DEF Reread
    <3>2. CASE Preflight
      BY <1>0, <1>5, <3>2 DEF Preflight
    <3>3. CASE PrepareAll
      BY <1>0, <1>5, <3>3 DEF PrepareAll
    <3>4. CASE AskAll
      BY <1>0, <1>5, <3>4 DEF AskAll
    <3> QED BY <1>5, <3>1, <3>2, <3>3, <3>4
  <2>2. bulk.pc \in {"reread", "preflight", "prepare", "ask"}
    BY <1>5 DEF Reread, Preflight, PrepareAll, AskAll, BulkPc
  <2> QED BY <1>1, <2>1, <2>2
<1>6. CASE Relock /\ ~Abandon
  <2>1. BulkStep("judge") /\ lock = "free" /\ lock' = "bulk" /\ bulk.pc = "relock"
    BY <1>6 DEF Relock, BulkPc
  <2> QED BY <1>0, <1>1, <2>1 DEF BulkStep
<1>7. CASE (Judge \/ Choose \/ AdmitBatch \/ AcceptBatch \/ MirrorBatch \/ RecordItem) /\ ~Abandon
  <2>1. bulk'.pc \in Applying /\ lock' = lock
    <3>1. CASE Judge
      <4>1. CASE BulkStep("choose")
        BY <1>0, <1>7, <3>1, <4>1 DEF Judge, BulkStep, Applying
      <4>2. CASE ~BulkStep("choose")
        <5>1. PICK ids, found : bulk' = [bulk EXCEPT !.ids = ids, !.found = found]
          BY <1>7, <3>1, <4>2 DEF Judge
        <5>2. bulk'.pc = bulk.pc
          BY <1>0, <5>1
        <5> QED BY <1>7, <3>1, <4>2, <5>2 DEF Judge, BulkPc, Applying
      <4> QED BY <4>1, <4>2
    <3>2. CASE Choose
      <4> DEFINE left == bulk.ids \ Redundant(bulk.ids \cap Pending, Proven)
                 pc == IF Found \cap left = {} THEN "accept" ELSE "admit"
      <4>1. /\ bulk' = [bulk EXCEPT !.pc = pc, !.ids = left,
                                    !.found = [i \in Found \cap left |-> @[i]]]
            /\ lock' = lock
        BY <1>7, <3>2 DEF Choose
      <4>2. pc \in Applying
        BY DEF Applying
      <4> HIDE DEF pc, left
      <4>3. bulk'.pc = pc
        BY <1>0, <4>1
      <4> QED BY <4>1, <4>2, <4>3
    <3>3. CASE AdmitBatch \/ AcceptBatch
      <4>1. (BulkStep("accept") \/ BulkStep("mirror")) /\ lock' = lock
        BY <1>7, <3>3 DEF AdmitBatch, AcceptBatch
      <4> QED BY <1>0, <4>1 DEF BulkStep, Applying
    <3>4. CASE MirrorBatch
      <4>1. bulk'.pc = "record"
        BY <1>0, <3>4 DEF MirrorBatch
      <4> QED BY <3>4, <4>1 DEF MirrorBatch, Applying
    <3>5. CASE RecordItem
      <4>1. CASE BulkStep("ledger")
        BY <1>0, <3>5, <4>1 DEF RecordItem, BulkStep, Applying
      <4>2. CASE bulk' = [bulk EXCEPT !.todo = @ \ {Min(@)}]
        <5>1. bulk'.pc = bulk.pc
          BY <1>0, <4>2
        <5> QED BY <3>5, <5>1 DEF RecordItem, BulkPc, Applying
      <4> QED BY <3>5, <4>1, <4>2 DEF RecordItem
    <3> QED BY <1>7, <3>1, <3>2, <3>3, <3>4, <3>5
  <2>2. bulk.pc \in Applying
    BY <1>7 DEF Judge, Choose, AdmitBatch, AcceptBatch, MirrorBatch, RecordItem, BulkPc, Applying
  <2> QED BY <1>1, <2>1, <2>2
<1>8. CASE RecordLedger
  BY <1>2, <1>8 DEF RecordLedger
<1> QED BY <1>2, <1>3, <1>4, <1>5, <1>6, <1>7, <1>8 DEF BulkReview

\* The death of a process frees its lock and ends the pass it ran.
LEMMA Dying ==
  ASSUME ReviewInv, NEW p \in {"single", "bulk", "index"}, Die(p)
  PROVE  /\ single' = IF p = "single" THEN SingleIdle ELSE single
         /\ bulk' = IF p = "bulk" THEN BulkIdle ELSE bulk
         /\ pass' = IF p # "single" /\ lock = p THEN PassOff ELSE pass
         /\ lock' = IF lock = p THEN "free" ELSE lock
         /\ SingleIdle.pc = "idle" /\ BulkIdle.pc = "idle" /\ PassOff.pc = "off"
BY DEF Die, SingleIdle, BulkIdle, PassOff

\* A step of the pass, which the index pass or a bulk approval runs.
LEMMA PassLocks ==
  ASSUME ReviewInv, PassStep
  PROVE  /\ single' = single /\ pass.pc # "off"
         /\ \/ ~PassQueue /\ bulk' = bulk /\ lock' = lock /\ pass'.pc # "off"
               /\ pass'.full = pass.full
            \/ /\ PassQueue /\ pass' = PassOff /\ PassOff.pc = "off"
               /\ \/ lock = "index" /\ lock' = "free" /\ bulk' = bulk
                  \/ /\ lock # "index" /\ lock' = lock
                     /\ bulk.pc = "index" /\ bulk'.pc = "retire"
                     /\ bulk'.ids = bulk.ids /\ bulk'.todo = bulk.todo
<1>1. single' = single /\ pass.pc # "off"
  BY DEF PassStep, PassReplace, RefreshAdmits, RefreshGivesUp, RefreshRestores,
         PassQuarantine, PassConverge, PassLegacy, PassForget, PassMirror, PassQueue, Passing
<1>2. CASE PassQueue
  <2>1. pass' = PassOff /\ PassOff.pc = "off"
    BY <1>2 DEF PassQueue, PassOff
  <2>2. CASE lock = "index"
    BY <1>1, <1>2, <2>1, <2>2 DEF PassQueue
  <2>3. CASE lock # "index"
    <3>1. DOMAIN bulk = {"pc", "ids", "todo", "base", "docs", "found"}
      BY DEF ReviewInv, ProcsInv, BulkIdle
    <3>2. bulk.pc = "index"
      BY <1>1, <2>3 DEF ReviewInv, LockInv
    <3>3. bulk' = [bulk EXCEPT !.pc = "retire"] /\ lock' = lock
      BY <1>2, <2>3 DEF PassQueue
    <3>4. bulk'.pc = "retire" /\ bulk'.ids = bulk.ids /\ bulk'.todo = bulk.todo
      BY <3>1, <3>3
    <3> QED BY <1>1, <1>2, <2>1, <2>3, <3>2, <3>3, <3>4
  <2> QED BY <2>2, <2>3
<1>3. CASE ~PassQueue
  <2>1. bulk' = bulk /\ lock' = lock
    BY <1>3 DEF PassStep, PassReplace, RefreshAdmits, RefreshGivesUp, RefreshRestores,
           PassQuarantine, PassConverge, PassLegacy, PassForget, PassMirror
  <2>2. CASE PassQuarantine \/ PassLegacy
    BY <1>1, <1>3, <2>1, <2>2, Quarantines, ForsakeMoves
  <2>3. CASE ~PassQuarantine /\ ~PassLegacy
    BY <1>1, <1>3, <2>1, <2>3, PassMoves DEF PassStep
  <2> QED BY <2>2, <2>3
<1> QED BY <1>2, <1>3

\* Who holds the lock.
LEMMA LockStep ==
  ASSUME ReviewInv, [Next]_vars
  PROVE  LockInv'
<1>0. LockInv /\ lock \in {"free", "single", "bulk", "index"}
  BY DEF ReviewInv, TypeOK
<1> DEFINE Held ==
        /\ lock = "single" <=> single.pc \in {"admit", "accept", "mirror", "file", "ledger"}
        /\ lock = "bulk" <=> bulk.pc \in {"index", "retire", "judge", "choose", "admit",
                                          "accept", "mirror", "record", "ledger"}
        /\ pass.pc # "off" <=> lock = "index" \/ bulk.pc = "index"
        /\ lock = "index" => pass.full
<1> SUFFICES Held'
  BY PassMemory DEF LockInv
<1>1. Held
  BY <1>0 DEF LockInv
<1>2. CASE UNCHANGED <<lock, single, bulk, pass>>
  BY <1>1, <1>2
<1>3. CASE StartPass
  <2>1. lock = "free" /\ lock' = "index" /\ single' = single /\ bulk' = bulk
    BY <1>3 DEF StartPass
  <2> QED BY <1>1, <1>3, <2>1, PassMoves
<1>4. CASE PassStep
  <2>1. CASE PassQueue
    BY <1>1, <1>4, <2>1, PassLocks
  <2>2. CASE ~PassQueue
    BY <1>1, <1>4, <2>2, PassLocks
  <2> QED BY <2>1, <2>2
<1>5. CASE Review
  <2>1. CASE single'.pc = "idle" /\ lock' = IF lock = "single" THEN "free" ELSE lock
    BY <1>0, <1>1, <1>5, <2>1, ReviewLocks
  <2>2. CASE ~(single'.pc = "idle" /\ lock' = IF lock = "single" THEN "free" ELSE lock)
    BY <1>1, <1>5, <2>2, ReviewLocks DEF Deciding
  <2> QED BY <2>1, <2>2
<1>6. CASE BulkReview
  <2>1. CASE StartBulk
    <3>1. lock = "free" /\ lock' = "bulk" /\ bulk'.pc = "index"
      <4>1. DOMAIN BulkIdle = {"pc", "ids", "todo", "base", "docs", "found"}
        BY DEF BulkIdle
      <4> QED BY <2>1, <4>1 DEF StartBulk
    <3> QED BY <1>1, <1>6, <2>1, <3>1, BulkLocks, PassMoves
  <2>2. CASE ~StartBulk
    <3>1. pass' = pass /\ single' = single
      BY <1>6, <2>2, BulkLocks
    <3>2. CASE bulk'.pc = "idle" /\ lock' = IF lock = "bulk" THEN "free" ELSE lock
      <4>1. bulk.pc # "index"
        BY <1>6, <2>2 DEF BulkReview, Retire, Reread, Preflight, PrepareAll, AskAll, Relock, Judge,
                          Choose, AdmitBatch, AcceptBatch, MirrorBatch, RecordItem, RecordLedger,
                          BulkPc
      <4> QED BY <1>0, <1>1, <3>1, <3>2, <4>1
    <3>3. CASE Retire /\ lock' = "free" /\ bulk.pc = "retire" /\ bulk'.pc = "reread"
      BY <1>1, <3>1, <3>3
    <3>4. CASE \/ /\ bulk.pc \in {"reread", "preflight", "prepare", "ask"}
                  /\ bulk'.pc \in {"preflight", "prepare", "ask", "relock"} /\ lock' = lock
               \/ bulk.pc = "relock" /\ bulk'.pc = "judge" /\ lock = "free" /\ lock' = "bulk"
               \/ bulk.pc \in Applying /\ bulk'.pc \in Applying /\ lock' = lock
      BY <1>1, <3>1, <3>4 DEF Applying
    <3> QED BY <1>6, <2>2, <3>2, <3>3, <3>4, BulkLocks
  <2> QED BY <2>1, <2>2
<1>7. CASE \E p \in {"single", "bulk", "index"} : Die(p)
  BY <1>0, <1>1, <1>7, Dying
<1>8. CASE Edit \/ Rest \/ UNCHANGED vars
  BY <1>2, <1>8 DEF Edit, Rest, vars
<1> QED BY <1>3, <1>4, <1>5, <1>6, <1>7, <1>8 DEF Next

\* Nobody but the holder of the lock changes aliases, links or items.
LEMMA OnlyHolder ==
  ASSUME ReviewInv, [Next]_vars
  PROVE  /\ lock = "free" => UNCHANGED <<alias, graph, queue>>
         /\ lock = "single" /\ ~Review => UNCHANGED <<alias, graph, queue>>
         /\ lock = "index" /\ ~PassStep => UNCHANGED <<alias, graph, queue>>
         /\ lock = "bulk" /\ ~BulkReview /\ ~PassStep => UNCHANGED <<alias, graph, queue>>
<1>1. PassStep => lock \in {"index", "bulk"}
  BY PassLocks DEF ReviewInv, LockInv
<1>2. /\ Accept \/ Admit \/ WriteItem \/ WriteLedger => Review /\ lock = "single"
      /\ AcceptBatch \/ AdmitBatch \/ Retire \/ Judge \/ Choose \/ RecordItem \/ RecordLedger
             => BulkReview /\ lock = "bulk"
      /\ PassReplace \/ RefreshRestores \/ PassQuarantine \/ PassConverge \/ PassLegacy => PassStep
      /\ RefreshAdmits \/ PassQueue \/ PassForget => PassStep
  <2>1. Accept \/ Admit \/ WriteItem \/ WriteLedger => Review /\ lock = "single"
    BY DEF Review, Accept, Admit, WriteItem, WriteLedger, SinglePc, ReviewInv, LockInv
  <2>2. AcceptBatch \/ AdmitBatch \/ Retire \/ Judge \/ Choose \/ RecordItem \/ RecordLedger
             => BulkReview /\ lock = "bulk"
    BY DEF BulkReview, AcceptBatch, AdmitBatch, Retire, Judge, Choose, RecordItem, RecordLedger,
           BulkPc, ReviewInv, LockInv
  <2> QED BY <2>1, <2>2 DEF PassStep
<1>3. \/ UNCHANGED <<alias, graph, queue>>
      \/ PassStep
      \/ lock = "single" /\ Review
      \/ lock = "bulk" /\ BulkReview
  <2> DEFINE Held == PassStep \/ (lock = "single" /\ Review) \/ (lock = "bulk" /\ BulkReview)
  <2>1. UNCHANGED alias \/ Held
    BY <1>2, Writers
  <2>2. UNCHANGED graph \/ Held
    BY <1>2, Writers
  <2>3. UNCHANGED items \/ Held
    BY <1>2, Holders
  <2>4. UNCHANGED ledger \/ Held
    BY <1>2, Holders
  <2> QED BY <2>1, <2>2, <2>3, <2>4
<1> QED BY <1>1, <1>3

\* A reviewer's next step leaves the rest of its memory.
LEMMA Stepping ==
  ASSUME ReviewInv, NEW pc, Step(pc)
  PROVE  /\ single'.pc = pc /\ single'.item = single.item /\ single'.approve = single.approve
         /\ HasClosure' = HasClosure
<1>1. DOMAIN single = {"pc", "item", "approve", "docs", "found", "equal"}
  BY DEF ReviewInv, ProcsInv, SingleIdle
<1>2. single'.found = single.found
  BY <1>1 DEF Step
<1> QED BY <1>1, <1>2 DEF Step, HasClosure

\* The item and the approval of a reviewer.
LEMMA SingleStep ==
  ASSUME ReviewInv, [Next]_vars
  PROVE  SingleInv'
<1>0. SingleInv /\ TypeOK
  BY DEF ReviewInv
<1>1. CASE single'.pc \notin Deciding
  BY <1>1 DEF SingleInv, Deciding
<1>2. CASE UNCHANGED single /\ single.pc \in Deciding /\ ~Review
  <2>1. UNCHANGED <<alias, items>>
    BY <1>2, OnlyHolder DEF ReviewInv, LockInv, Deciding
  <2> QED BY <1>0, <1>2, <2>1 DEF SingleInv, Pending, InForce, Accepted, Target, HasClosure
<1>3. CASE Review /\ single'.pc \in Deciding
  <2>0. ~Refused
    BY <1>3 DEF Refused, SingleIdle, Deciding
  <2>1. CASE Lock
    <3>1. single.item \in Pending /\ UNCHANGED <<alias, items>>
      BY <2>0, <2>1 DEF Lock, IsPending, Pending
    <3>2. \/ ~single.approve /\ Step("file")
          \/ single.approve /\ HasClosure /\ Step("admit")
          \/ single.approve /\ Step("accept")
      BY <2>0, <2>1 DEF Lock
    <3> QED BY <3>1, <3>2, Stepping DEF SingleInv, Pending
  <2>2. CASE Admit
    <3>1. Step("accept") /\ UNCHANGED <<alias, items>> /\ single.pc = "admit"
      BY <2>0, <2>2 DEF Admit, SinglePc
    <3>2. /\ single'.pc = "accept"
          /\ single'.item = single.item
          /\ (single'.approve <=> single.approve)
      BY <3>1, Stepping
    <3>3. single.approve /\ single.item \in Pending /\ Pending' = Pending
      BY <1>0, <3>1 DEF SingleInv, Pending
    <3> QED BY <3>2, <3>3 DEF SingleInv
  <2>3. CASE Accept
    <3> DEFINE pair == {<<Mine.target, Mine.alias>>}
    <3>1. Step("mirror") /\ UNCHANGED items /\ single.pc = "accept" /\ Acceptable(pair)
          /\ AcceptAll(pair)
      BY <2>0, <2>3 DEF Accept, SinglePc
    <3>2. pair \in SUBSET (Symbols \X (Nat \ {None}))
      BY <3>1, Pairs
    <3>3. Mine.target \in Symbols
      BY <3>2
    <3>4. Covers(<<Mine.target, Mine.alias>>, Mine.target)
      BY <3>3, ReachesItself DEF Covers
    <3>5. alias'[Mine.target].status = "accepted" /\ alias'[Mine.target].name = Mine.alias
      <4>1. <<Mine.target, Mine.alias>> \in pair
        OBVIOUS
      <4>2. \A p \in pair : \A s \in Symbols : Covers(p, s) =>
                alias'[s].status = "accepted" /\ alias'[s].name = p[2]
        <5> HIDE DEF pair
        <5> QED BY <1>0, <3>1, <3>2, Accepting
      <4> QED BY <3>3, <3>4, <4>1, <4>2
    <3>6. single.item \in Pending /\ single.approve
      BY <1>0, <3>1 DEF SingleInv
    <3>7. InForce(single.item)' /\ Pending' = Pending
      BY <3>1, <3>5, Stepping DEF InForce, Accepted, Target, Mine, Pending
    <3>8. /\ single'.pc = "mirror"
          /\ single'.item = single.item
          /\ (single'.approve <=> single.approve)
      BY <3>1, Stepping
    <3>9. InForce(single.item)' => SingleInv'
      BY <3>6, <3>7, <3>8 DEF SingleInv
    <3> QED BY <3>7, <3>9
  <2>4. CASE Mirror
    <3>1. Step("file") /\ UNCHANGED <<alias, items>> /\ single.pc = "mirror"
      BY <2>4 DEF Mirror, SinglePc
    <3> QED BY <1>0, <3>1, Stepping DEF SingleInv, Pending, InForce, Accepted, Target
  <2>5. CASE WriteItem
    <3>1. /\ Step("ledger") /\ UNCHANGED alias /\ single.pc = "file"
          /\ Mark({single.item}, Verdict) /\ Verdict \in Statuses
      BY <2>5 DEF WriteItem, SinglePc, Verdict, Statuses
    <3>2. single.item \in DOMAIN items /\ (single.approve => InForce(single.item))
      BY <1>0, <3>1 DEF SingleInv, Pending
    <3>3. single.item \in DOMAIN items' /\ items'[single.item].target = items[single.item].target
          /\ items'[single.item].alias = items[single.item].alias
      BY <1>0, <3>1, <3>2, Marked
    <3> QED BY <3>1, <3>2, <3>3, Stepping DEF SingleInv, InForce, Accepted, Target
  <2>6. Lock \/ Admit \/ Accept \/ Mirror \/ WriteItem
    <3>1. CASE Begin
      <4>1. DOMAIN SingleIdle = {"pc", "item", "approve", "docs", "found", "equal"}
        BY DEF SingleIdle
      <4> QED BY <1>3, <3>1, <4>1 DEF Begin, Deciding
    <3>2. CASE Prepare \/ Ask \/ Equivalents
      <4>2. single.pc \in {"prepare", "ask", "equal"}
        BY <3>2 DEF Prepare, Ask, Equivalents, SinglePc
      <4> QED BY <1>3, <4>2, ReviewLocks DEF Deciding
    <3>3. CASE WriteLedger
      BY <2>0, <3>3 DEF WriteLedger
    <3> QED BY <1>3, <3>1, <3>2, <3>3 DEF Review
  <2> QED BY <2>1, <2>2, <2>3, <2>4, <2>5, <2>6
<1>4. CASE Die("single")
  BY <1>1, <1>4, Dying DEF Deciding
<1>5. single.pc \notin Deciding /\ UNCHANGED single => single'.pc \notin Deciding
  OBVIOUS
<1> QED BY <1>1, <1>2, <1>3, <1>4, <1>5, Holders

\* A bulk approval's next step leaves the rest of its memory.
LEMMA BulkStepping ==
  ASSUME ReviewInv, NEW pc, BulkStep(pc)
  PROVE  bulk'.pc = pc /\ bulk'.ids = bulk.ids /\ bulk'.todo = bulk.todo
BY DEF BulkStep, ReviewInv, ProcsInv, BulkIdle

\* The items a bulk approval has selected, once it applies them.
LEMMA SelectionStep ==
  ASSUME ReviewInv, [Next]_vars
  PROVE  BulkInv'
<1>0. BulkInv /\ TypeOK
  BY DEF ReviewInv
<1> DEFINE Late == {"admit", "accept", "mirror", "record", "ledger"}
<1>1. CASE bulk'.pc \notin Late
  BY <1>1 DEF BulkInv
<1>2. CASE UNCHANGED bulk /\ bulk.pc \in Late /\ ~BulkReview
  <2>1. lock = "bulk" /\ pass.pc = "off"
    BY <1>2 DEF ReviewInv, LockInv
  <2>2. ~PassStep
    BY <2>1, PassLocks
  <2>3. UNCHANGED <<alias, items>>
    BY <1>2, <2>1, <2>2, OnlyHolder
  <2> QED BY <1>0, <1>2, <2>3 DEF BulkInv, Pending, InForce, Accepted, Target
<1>3. CASE BulkReview /\ bulk'.pc \in Late
  <2>0. ~Abandon
    BY <1>3 DEF Abandon, BulkIdle
  <2>fields. DOMAIN bulk = {"pc", "ids", "todo", "base", "docs", "found"}
    BY DEF ReviewInv, ProcsInv, BulkIdle
  <2>1. CASE Choose
    <3> DEFINE worse == Redundant(bulk.ids \cap Pending, Proven)
               left == bulk.ids \ worse
               pc == IF Found \cap left = {} THEN "accept" ELSE "admit"
               found == [i \in Found \cap left |-> bulk.found[i]]
    <3>1. /\ Mark(worse, "stale") /\ left \subseteq Pending
          /\ bulk' = [bulk EXCEPT !.pc = pc, !.ids = left,
                               !.found = [i \in Found \cap left |-> @[i]]]
      BY <2>0, <2>1 DEF Choose
    <3>2. pc \in {"accept", "admit"}
      OBVIOUS
    <3> HIDE DEF pc, left, worse
    <3>3. bulk'.pc = pc /\ bulk'.ids = left
      BY <2>fields, <3>1
    <3>4. left \subseteq Pending'
      BY <1>0, <3>1, Marked DEF left, Pending, Statuses
    <3> QED BY <3>2, <3>3, <3>4 DEF BulkInv
  <2>2. CASE AdmitBatch
    <3>1. BulkStep("accept") /\ UNCHANGED <<alias, items>> /\ bulk.pc = "admit"
      BY <2>0, <2>2 DEF AdmitBatch, BulkPc
    <3> QED BY <1>0, <3>1, BulkStepping DEF BulkInv, Pending
  <2>3. CASE AcceptBatch
    <3> DEFINE pairs == {<<Target(i), items[i].alias>> : i \in bulk.ids}
    <3>1. BulkStep("mirror") /\ UNCHANGED items /\ bulk.pc = "accept" /\ Acceptable(pairs)
          /\ AcceptAll(pairs)
      BY <2>0, <2>3 DEF AcceptBatch, BulkPc
    <3>2. pairs \in SUBSET (Symbols \X (Nat \ {None}))
      BY <3>1, Pairs
    <3>3. ASSUME NEW i \in bulk.ids
          PROVE  alias'[Target(i)].status = "accepted" /\ alias'[Target(i)].name = items[i].alias
      <4>1. <<Target(i), items[i].alias>> \in pairs
        OBVIOUS
      <4>2. Target(i) \in Symbols /\ Covers(<<Target(i), items[i].alias>>, Target(i))
        BY <3>2, <4>1, ReachesItself DEF Covers
      <4>3. \A p \in pairs : \A s \in Symbols : Covers(p, s) =>
                alias'[s].status = "accepted" /\ alias'[s].name = p[2]
        <5> HIDE DEF pairs
        <5> QED BY <1>0, <3>1, <3>2, Accepting
      <4> QED BY <4>1, <4>2, <4>3
    <3>4. bulk.ids \subseteq Pending /\ Pending' = Pending
      BY <1>0, <3>1 DEF BulkInv, Pending
    <3> HIDE DEF pairs
    <3>5. bulk'.pc = "mirror" /\ bulk'.ids = bulk.ids
      BY <3>1, BulkStepping
    <3>6. \A i \in bulk.ids : InForce(i)'
      BY <3>1, <3>3 DEF InForce, Accepted, Target
    <3> QED BY <3>4, <3>5, <3>6 DEF BulkInv
  <2>4. CASE MirrorBatch
    <3>1. UNCHANGED <<alias, items>> /\ bulk.pc = "mirror"
          /\ bulk'.pc = "record" /\ bulk'.ids = bulk.ids /\ bulk'.todo = bulk.ids
      BY <2>fields, <2>4 DEF MirrorBatch, BulkPc
    <3> QED BY <1>0, <3>1 DEF BulkInv, Pending, InForce, Accepted, Target
  <2>5. CASE RecordItem
    <3>0. UNCHANGED alias /\ bulk.pc = "record"
      BY <2>5 DEF RecordItem, BulkPc
    <3>1. CASE bulk.todo = {}
      <4>1. BulkStep("ledger") /\ UNCHANGED items
        BY <2>5, <3>1 DEF RecordItem
      <4> QED BY <1>0, <3>0, <4>1, BulkStepping DEF BulkInv, InForce, Accepted, Target
    <3>2. CASE bulk.todo # {}
      <4> DEFINE i == Min(bulk.todo)
      <4>1. Mark({i}, "approved") /\ bulk' = [bulk EXCEPT !.todo = @ \ {i}]
        BY <2>5, <3>2 DEF RecordItem
      <4> HIDE DEF i
      <4>2. bulk'.pc = "record" /\ bulk'.ids = bulk.ids /\ bulk'.todo = bulk.todo \ {i}
        BY <2>fields, <3>0, <4>1
      <4>3. /\ DOMAIN items' = DOMAIN items
            /\ \A j \in DOMAIN items :
                   /\ items'[j].target = items[j].target /\ items'[j].alias = items[j].alias
                   /\ j # i => items'[j].status = items[j].status
        BY <1>0, <4>1, Marked DEF Statuses
      <4>4. /\ bulk.ids \subseteq DOMAIN items /\ bulk.todo \subseteq bulk.ids \cap Pending
            /\ \A j \in bulk.ids : InForce(j)
        BY <1>0, <3>0 DEF BulkInv
      <4>5. bulk'.todo \subseteq bulk.ids \cap Pending'
        BY <4>2, <4>3, <4>4 DEF Pending
      <4>6. \A j \in bulk.ids : InForce(j)'
        BY <3>0, <4>3, <4>4 DEF InForce, Accepted, Target
      <4> QED BY <4>2, <4>3, <4>4, <4>5, <4>6 DEF BulkInv
    <3> QED BY <3>1, <3>2
  <2>6. CASE Judge \/ StartBulk \/ Retire \/ Reread \/ Preflight \/ PrepareAll \/ AskAll \/ Relock
    <3>1. bulk.pc \notin Late /\ ~Choose /\ ~AdmitBatch /\ ~AcceptBatch
      BY <2>6 DEF Judge, StartBulk, Retire, Reread, Preflight, PrepareAll, AskAll, Relock, BulkPc,
                  Choose, AdmitBatch, AcceptBatch
    <3>2. CASE Judge
      <4>1. CASE BulkStep("choose")
        BY <1>1, <4>1, BulkStepping
      <4>2. CASE ~BulkStep("choose")
        <5>1. PICK ids, found : bulk' = [bulk EXCEPT !.ids = ids, !.found = found]
          BY <2>0, <3>2, <4>2 DEF Judge
        <5> QED BY <1>1, <2>fields, <3>1, <5>1
      <4> QED BY <4>1, <4>2
    <3>3. CASE ~Judge
      <4>1. bulk.pc \notin Applying
        BY <2>6, <3>3 DEF StartBulk, Retire, Reread, Preflight, PrepareAll, AskAll, Relock, BulkPc,
                          Applying
      <4>2. bulk'.pc \notin Late
        BY <1>3, <4>1, BulkLocks
      <4> QED BY <1>1, <4>2
    <3> QED BY <3>2, <3>3
  <2>7. CASE RecordLedger
    BY <2>0, <2>7 DEF RecordLedger
  <2> QED BY <1>3, <2>1, <2>2, <2>3, <2>4, <2>5, <2>6, <2>7 DEF BulkReview
<1>4. CASE Die("bulk")
  BY <1>1, <1>4, Dying
<1>5. CASE PassQueue /\ ~UNCHANGED bulk
  <2>1. bulk'.pc = "retire"
    BY <1>5, PassLocks DEF PassStep
  <2> QED BY <1>1, <2>1
<1> QED BY <1>1, <1>2, <1>3, <1>4, <1>5, Holders

\* No step but a changed source makes an alias stale, and none gives one to a
\* symbol that is not indexed.
LEMMA StaleStep ==
  ASSUME ReviewInv, [Next]_vars
  PROVE  StaleInv'
<1>0. TypeOK /\ StaleInv
  BY DEF ReviewInv
<1>1. /\ Stale' \subseteq Stale \/ PassReplace
      /\ PassQuarantine => Stale' = {}
      /\ OrphanAliases' = {}
  <2>0. \A s \in Symbols : alias[s].status # "none" => s \in Present(docs)
    BY <1>0 DEF StaleInv, OrphanAliases
  <2>1. CASE PassReplace
    <3>1. CASE docs = disk
      <4>1. alias' = alias /\ docs' = docs
        BY <2>1, <3>1 DEF PassReplace
      <4> QED BY <2>0, <2>1, <4>1 DEF PassQuarantine, PassReplace, Passing, OrphanAliases, Present
    <3>2. CASE Reapply(disk)
      <4>1. \A s \in Symbols : alias'[s].status # "none" => s \in Present(disk)
        BY <1>0, <3>2, Reapplied DEF Unnamed
      <4>2. Present(docs)' = Present(disk)
        BY <2>1 DEF PassReplace, Present
      <4> QED BY <2>1, <4>1, <4>2 DEF PassQuarantine, PassReplace, Passing, OrphanAliases
    <3> QED BY <2>1, <3>1, <3>2 DEF PassReplace
  <2>2. CASE ~PassReplace
    <3>0. Present(docs)' = Present(docs)
      BY <2>2, Writers DEF Present
    <3>1. CASE UNCHANGED alias /\ ~PassQuarantine
      BY <2>0, <3>0, <3>1 DEF Stale, OrphanAliases
    <3>2. CASE Accepts /\ ~PassQuarantine
      <4>1. \A s \in Symbols : alias'[s] = alias[s]
                               \/ (alias'[s].status = "accepted" /\ s \in Present(docs))
        BY <1>0, <3>2, Accepting DEF Accepts
      <4> QED BY <2>0, <3>0, <3>2, <4>1 DEF Stale, OrphanAliases
    <3>3. CASE PassQuarantine
      <4>1. \A s \in Symbols : alias'[s] = IF s \in Stale THEN Unnamed ELSE alias[s]
        BY <1>0, <3>3, Quarantines, Forsaking
      <4> QED BY <2>0, <3>0, <4>1 DEF Stale, OrphanAliases, Unnamed
    <3>4. CASE PassConverge /\ ~PassQuarantine
      <4>1. \A s \in Symbols : alias'[s] = alias[s]
                               \/ (alias'[s].status = "accepted" /\ s \in Present(docs))
        BY <1>0, <3>4, Converging DEF Accepted, Mended
      <4> QED BY <2>0, <3>0, <3>4, <4>1 DEF Stale, OrphanAliases
    <3>5. CASE PassLegacy /\ ~PassQuarantine
      <4>1. \A s \in Symbols : alias'[s] = IF s \in Unsafe THEN Unnamed ELSE alias[s]
        BY <1>0, <3>5, Quarantines, Forsaking
      <4> QED BY <2>0, <3>0, <3>5, <4>1 DEF Stale, OrphanAliases, Unnamed
    <3> QED BY <2>2, <3>1, <3>2, <3>3, <3>4, <3>5, AliasWriters
  <2> QED BY <2>1, <2>2
<1> SUFFICES ASSUME Stale' # {}
             PROVE  \/ pass'.pc \in {"refresh", "restore"}
                    \/ torn' /\ pass'.pc \in {"off", "replace", "quarantine"}
  BY <1>1 DEF StaleInv
<1>2. CASE PassReplace \/ RefreshAdmits \/ RefreshGivesUp \/ RefreshRestores
  BY <1>2, PassMoves
<1>3. ~PassQuarantine
  BY <1>1
<1>4. CASE ~(PassReplace \/ RefreshAdmits \/ RefreshGivesUp \/ RefreshRestores)
  <2>1. \/ pass.pc \in {"refresh", "restore"}
        \/ torn /\ pass.pc \in {"off", "replace", "quarantine"}
    BY <1>0, <1>1, <1>4 DEF StaleInv
  <2>2. ~PassStep
    BY <1>3, <1>4, <2>1 DEF PassStep, PassConverge, PassLegacy, PassForget, PassMirror, PassQueue,
                            Passing
  <2>3. CASE StartPass \/ StartBulk
    <3>1. lock = "free" /\ (bulk.pc = "idle" \/ StartPass)
      BY <2>3 DEF StartPass, StartBulk, BulkPc
    <3>2. pass.pc = "off"
      BY <3>1 DEF ReviewInv, LockInv
    <3>3. torn' = torn
      BY <2>3 DEF StartPass, StartBulk, BulkUnchanged
    <3> QED BY <2>1, <2>3, <3>2, <3>3, PassMoves
  <2>4. CASE \E p \in {"single", "bulk", "index"} : Die(p)
    <3>1. PICK p \in {"single", "bulk", "index"} : Die(p)
      BY <2>4
    <3>2. torn' = (torn \/ lock = p)
      BY <3>1 DEF Die
    <3> QED BY <2>1, <3>1, <3>2, Dying
  <2>5. CASE ~StartPass /\ ~StartBulk /\ ~\E p \in {"single", "bulk", "index"} : Die(p)
    <3>1. pass' = pass /\ torn' = torn
      BY <2>2, <2>5, Holders DEF PassStep
    <3> QED BY <2>1, <3>1
  <2> QED BY <2>3, <2>4, <2>5
<1> QED BY <1>2, <1>4

\* An approval is remembered while its alias is in force, and until a pass that
\* took the alias away has it forgotten.
LEMMA LedgerStep ==
  ASSUME ReviewInv, [Next]_vars
  PROVE  LedgerInv'
<1>0. TypeOK /\ LedgerInv /\ StaleInv
  BY DEF ReviewInv
<1>gone. gone \subseteq gone'
  BY Holders DEF PassReplace, Die
<1> SUFFICES ASSUME NEW s \in Symbols \ gone', ledger'[s].verdict = "approved"
             PROVE  \/ alias'[s].status \in {"accepted", "stale"}
                    \/ s \in Lost' /\ pass'.pc \in {"converge", "legacy", "forget"}
  BY DEF LedgerInv, Accepted, Stale
<1>1. ledger[s].verdict = "approved" =>
          \/ alias[s].status \in {"accepted", "stale"}
          \/ s \in Lost /\ pass.pc \in {"converge", "legacy", "forget"}
  BY <1>0, <1>gone DEF LedgerInv, Accepted, Stale
<1>2. CASE WriteLedger
  <2>1. /\ single.item \in DOMAIN items /\ UNCHANGED <<alias, pass>>
        /\ RecordDecisions({single.item}, Verdict)
        /\ Verdict = "approved" => InForce(single.item)
    BY <1>2 DEF WriteLedger, SinglePc, ReviewInv, SingleInv, ReviewerUnchanged, Verdict
  <2>2. Verdict \in {"approved", "rejected"}
    BY DEF Verdict
  <2>3. ledger[s].verdict = "approved" \/ (Verdict = "approved" /\ Target(single.item) = s)
    BY <1>0, <2>1, <2>2, Recorded
  <2> QED BY <1>1, <2>1, <2>3 DEF InForce, Accepted, Lost
<1>3. CASE RecordLedger
  <2>1. /\ bulk.ids \in SUBSET DOMAIN items /\ UNCHANGED <<alias, pass>>
        /\ RecordDecisions(bulk.ids, "approved")
        /\ \A i \in bulk.ids : InForce(i)
    BY <1>3 DEF RecordLedger, BulkPc, ReviewInv, BulkInv
  <2>2. ledger[s].verdict = "approved" \/ \E i \in bulk.ids : Target(i) = s
    BY <1>0, <2>1, Recorded
  <2> QED BY <1>1, <2>1, <2>2 DEF InForce, Accepted, Lost
<1>4. CASE PassForget
  <2>1. UNCHANGED alias /\ ledger'[s] = ledger[s] /\ s \notin Lost
    BY <1>4 DEF PassForget, Lost
  <2> QED BY <1>1, <2>1
<1>5. CASE ~WriteLedger /\ ~RecordLedger /\ ~PassForget
  <2>0. ledger[s].verdict = "approved"
    BY <1>5, Holders
  <2>1. CASE PassReplace
    <3>1. s \in Present(disk)
      BY <2>0, <2>1 DEF PassReplace
    <3>2. alias[s].status \in {"accepted", "stale"}
      BY <1>1, <2>0, <2>1 DEF PassReplace, Passing
    <3>3. UNCHANGED alias \/ Reapply(disk)
      BY <2>1 DEF PassReplace
    <3> QED BY <1>0, <3>1, <3>2, <3>3, Reapplied
  <2>2. CASE PassQuarantine
    <3>1. alias[s].status \in {"accepted", "stale"}
      BY <1>1, <2>0, <2>2, Quarantines
    <3>2. alias'[s] = IF s \in Stale THEN Unnamed ELSE alias[s]
      BY <1>0, <2>2, Quarantines, Forsaking
    <3>3. s \in Stale => s \in Lost' /\ pass'.pc \in {"converge", "legacy"}
      BY <2>2, Quarantines, ForsakeMoves
    <3> QED BY <3>1, <3>2, <3>3
  <2>3. CASE PassLegacy
    <3>1. alias'[s] = IF s \in Unsafe THEN Unnamed ELSE alias[s]
      BY <1>0, <2>3, Quarantines, Forsaking
    <3>2. s \in Unsafe \cup Lost => s \in Lost' /\ pass'.pc = "forget"
      BY <2>3, Quarantines, ForsakeMoves
    <3> QED BY <1>1, <2>0, <3>1, <3>2
  <2>4. CASE PassConverge
    <3>1. alias'[s] = alias[s] \/ alias'[s].status = "accepted"
      BY <1>0, <2>4, Converging DEF Accepted
    <3>2. s \in Lost => s \in Lost' /\ pass'.pc = "legacy"
      BY <2>4, PassMoves DEF Lost
    <3> QED BY <1>1, <2>0, <3>1, <3>2
  <2>5. CASE ~PassReplace /\ ~PassQuarantine /\ ~PassLegacy /\ ~PassConverge
    <3>1. alias'[s] = alias[s] \/ alias'[s].status = "accepted"
      BY <1>0, <2>5, AliasWriters, Accepting DEF Accepts
    <3>2. CASE UNCHANGED pass
      BY <1>1, <2>0, <3>1, <3>2 DEF Lost
    <3>3. CASE \E p \in {"single", "bulk", "index"} : Die(p) /\ lock = p
      <4>1. s \notin Lost
        BY <3>3 DEF Die, Lost
      <4> QED BY <1>1, <2>0, <3>1, <4>1
    <3>4. CASE pass.pc \notin {"converge", "legacy", "forget"}
      BY <1>1, <2>0, <3>1, <3>4
    <3>5. StartPass \/ StartBulk => pass.pc \notin {"converge", "legacy", "forget"}
      BY DEF StartPass, StartBulk, BulkPc, ReviewInv, LockInv
    <3>6. PassStep => pass.pc \notin {"converge", "legacy", "forget"}
      BY <1>5, <2>5 DEF PassStep, PassMirror, PassQueue, RefreshAdmits, RefreshGivesUp,
                        RefreshRestores, Passing
    <3>7. ASSUME NEW p \in {"bulk", "index"}, Die(p), lock # p PROVE UNCHANGED pass
      BY <3>7, Dying
    <3> QED BY <3>2, <3>3, <3>4, <3>5, <3>6, <3>7, Holders
  <2> QED BY <2>1, <2>2, <2>3, <2>4, <2>5
<1> QED BY <1>2, <1>3, <1>4, <1>5

\* No step lets an alias stand for two names.
LEMMA InjectiveStep ==
  ASSUME ReviewInv, [Next]_vars
  PROVE  AliasesAreInjective'
<1>0. TypeOK /\ AliasesAreInjective
  BY DEF ReviewInv
<1> SUFFICES ASSUME migrated' PROVE SharedAliases' = {}
  BY DEF AliasesAreInjective
<1>1. (migrated /\ SharedAliases = {}) \/ PassLegacy
  BY <1>0, Writers DEF AliasesAreInjective
<1>shared. ASSUME SharedAliases = {}, NEW x \in Symbols, NEW y \in Symbols,
             Accepted(x), Accepted(y), alias[x].name = alias[y].name
      PROVE  Name[x] = Name[y]
  <2>1. <<x, y>> \notin SharedAliases
    BY <1>shared
  <2> QED BY <1>shared, <2>1 DEF SharedAliases
<1>2. CASE PassLegacy
  <2>1. \A x \in Symbols : alias'[x] = IF x \in Unsafe THEN Unnamed ELSE alias[x]
    BY <1>0, <1>2, Quarantines, Forsaking
  <2>2. CASE migrated
    BY <1>0, <1>shared, <2>1, <2>2 DEF AliasesAreInjective, SharedAliases, Accepted, Unnamed
  <2>3. CASE ~migrated
    <3> DEFINE open == {s \in Symbols : Accepted(s) /\ ~(s \in Present(docs) /\ Complete(s))}
               rest == {s \in Symbols \ open : Accepted(s)}
               rivals(s) == {r \in rest : alias[r].name = alias[s].name}
               beaten == {s \in rest : Name[s] # Name[Min(rivals(s))]}
    <3>1. Unsafe = {s \in Symbols : Accepted(s) /\ Reach(links, s) \cap (open \cup beaten) # {}}
      BY <2>3 DEF Unsafe, LegacyUnsafe
    <3>2. ASSUME NEW x \in Symbols, Accepted(x)'
          PROVE  Accepted(x) /\ alias'[x] = alias[x] /\ x \in rest /\ x \notin beaten
      <4>1. x \notin Unsafe /\ Accepted(x) /\ alias'[x] = alias[x]
        BY <2>1, <3>2 DEF Accepted, Unnamed
      <4>2. x \notin open \cup beaten
        <5> HIDE DEF open, beaten
        <5> QED BY <3>1, <4>1, ReachesItself
      <4> QED BY <4>1, <4>2
    <3>3. ASSUME NEW x \in Symbols, NEW y \in Symbols, Accepted(x)', Accepted(y)',
                 alias'[x].name = alias'[y].name
          PROVE  Name[x] = Name[y]
      <4>1. x \in rest /\ x \notin beaten /\ y \in rest /\ y \notin beaten
            /\ alias[x].name = alias[y].name
        BY <3>2, <3>3
      <4>2. rivals(x) = rivals(y)
        BY <4>1
      <4> HIDE DEF rivals, rest
      <4> QED BY <4>1, <4>2
    <3> QED BY <3>3 DEF SharedAliases
  <2> QED BY <2>2, <2>3
<1>3. CASE ~PassLegacy
  <2>0. SharedAliases = {}
    BY <1>1, <1>3
  <2>1. CASE UNCHANGED alias
    BY <1>shared, <2>0, <2>1 DEF SharedAliases, Accepted
  <2>2. CASE Reapply(disk)
    <3>1. \A x \in Symbols : alias'[x].status = "accepted" =>
              alias[x].status = "accepted" /\ alias'[x].name = alias[x].name
      BY <1>0, <2>2, Reapplied DEF Unnamed
    <3> QED BY <1>shared, <2>0, <3>1 DEF SharedAliases, Accepted
  <2>3. CASE Accepts
    BY <1>0, <2>0, <2>3, AcceptingIsInjective DEF Accepts
  <2>4. CASE PassQuarantine
    <3>1. \A x \in Symbols : alias'[x] = IF x \in Stale THEN Unnamed ELSE alias[x]
      BY <1>0, <2>4, Quarantines, Forsaking
    <3> QED BY <1>shared, <2>0, <3>1 DEF SharedAliases, Accepted, Unnamed
  <2>5. CASE PassConverge
    <3>1. \A x \in Symbols : alias'[x] = IF Mended(x) THEN alias[Source(x)] ELSE alias[x]
      BY <1>0, <2>5, Converging
    <3>2. ASSUME NEW x \in Symbols, NEW y \in Symbols, Mended(x), Accepted(y)',
                 alias'[x].name = alias'[y].name
          PROVE  Name[x] = Name[y]
      <4>1. \A t \in Symbols : Accepted(t) /\ alias[t].name = alias[Source(x)].name
                => Name[t] = Name[x]
        BY <1>0, <3>2, Mending
      <4>2. CASE Mended(y)
        BY <1>0, <3>1, <3>2, <4>1, <4>2, Mending
      <4>3. CASE ~Mended(y)
        BY <3>1, <3>2, <4>1, <4>3 DEF Accepted
      <4> QED BY <4>2, <4>3
    <3>3. ASSUME NEW x \in Symbols, NEW y \in Symbols, Accepted(x)', Accepted(y)',
                 alias'[x].name = alias'[y].name
          PROVE  Name[x] = Name[y]
      <4>1. CASE ~Mended(x) /\ ~Mended(y)
        BY <1>shared, <2>0, <3>1, <3>3, <4>1 DEF Accepted
      <4> QED BY <3>2, <3>3, <4>1
    <3> QED BY <3>3 DEF SharedAliases
  <2> QED BY <1>3, <2>1, <2>2, <2>3, <2>4, <2>5, AliasWriters
<1> QED BY <1>2, <1>3

\* What is not shown after aliases changed was not shown before, or has changed.
LEMMA Changing ==
  ASSUME NEW S, UNCHANGED <<shown, docs>>, moved \subseteq moved',
         \A s \in Symbols \ S : alias'[s] = alias[s]
  PROVE  Unshown' \subseteq Unshown \cup S
<1> SUFFICES ASSUME NEW s \in Symbols \ S, ~ShowsTheStore(s)' PROVE ~ShowsTheStore(s)
  BY DEF Unshown
<1>1. Wanted(s)' = Wanted(s)
  BY DEF Wanted, Accepted, Present
<1> QED BY <1>1 DEF ShowsTheStore

\* Files written since they were indexed are known.
LEMMA MovedStep ==
  ASSUME ReviewInv, [Next]_vars
  PROVE  /\ \A f \in Files \ moved' : disk'[f] = docs'[f]
         /\ ~PassReplace => moved \subseteq moved' /\ docs' = docs
         /\ ~PassReplace /\ ~Edit => moved' = moved /\ disk' = disk
<1>0. \A f \in Files \ moved : disk[f] = docs[f]
  BY DEF ReviewInv, MirrorInv
<1>1. CASE Edit
  <2>1. PICK f \in Files, v \in Versions : disk' = [disk EXCEPT ![f] = v] /\ moved' = moved \cup {f}
    BY <1>1 DEF Edit
  <2>2. \A g \in Files \ {f} : disk'[g] = disk[g]
    BY <2>1 DEF ReviewInv, TypeOK
  <2> QED BY <1>0, <1>1, <2>1, <2>2 DEF Edit
<1>2. CASE PassReplace
  BY <1>2 DEF PassReplace
<1>3. CASE ~Edit /\ ~PassReplace
  BY <1>0, <1>3, Writers
<1> QED BY <1>1, <1>2, <1>3

\* What is to be rendered, by who holds the lock.
LEMMA WhatIsDue ==
  ASSUME LockInv
  PROVE  /\ pass.pc \notin {"off", "queue"} => Due = Lost
         /\ lock = "free" => Due = {} /\ pass.pc = "off"
         /\ lock = "single" =>
                /\ pass.pc = "off"
                /\ Due = IF single.pc = "mirror" THEN Reach(links, Mine.target) ELSE {}
         /\ lock = "bulk" /\ bulk.pc # "index" =>
                /\ pass.pc = "off"
                /\ Due = IF bulk.pc = "mirror" THEN UNION {Reach(links, Target(i)) : i \in bulk.ids}
                         ELSE {}
         /\ pass.pc = "queue" => Due = {}
<1>1. /\ lock = "single" <=> single.pc \in {"admit", "accept", "mirror", "file", "ledger"}
      /\ lock = "bulk" <=> bulk.pc \in {"index", "retire", "judge", "choose", "admit", "accept",
                                        "mirror", "record", "ledger"}
      /\ pass.pc # "off" <=> lock = "index" \/ bulk.pc = "index"
  BY DEF LockInv
<1>2. pass.pc \notin {"off", "queue"} => Due = Lost
  BY DEF Due
<1>3. single.pc # "mirror" /\ bulk.pc # "mirror" /\ pass.pc \in {"off", "queue"} => Due = {}
  BY DEF Due
<1>4. pass.pc \in {"off", "queue"} /\ single.pc = "mirror" => Due = Reach(links, Mine.target)
  BY DEF Due
<1>5. pass.pc \in {"off", "queue"} /\ single.pc # "mirror" /\ bulk.pc = "mirror"
          => Due = UNION {Reach(links, Target(i)) : i \in bulk.ids}
  BY DEF Due
<1> QED BY <1>1, <1>2, <1>3, <1>4, <1>5

\* The steps of a pass leave nothing unshown that they do not render later.
LEMMA PassShows ==
  ASSUME ReviewInv, PassStep, [Next]_vars
  PROVE  \/ Unshown' \subseteq Due'
         \/ Refreshing'
         \/ torn' /\ ~(pass'.full /\ pass'.pc = "queue")
<1>0. /\ LockInv /\ TypeOK
      /\ \/ Unshown \subseteq Due
         \/ Refreshing
         \/ torn /\ ~(pass.full /\ pass.pc = "queue")
  BY DEF ReviewInv, MirrorInv
<1>1. CASE PassReplace
  <2>1. pass.full /\ pass'.pc = "refresh" /\ pass'.full = pass.full
    BY <1>0, <1>1, PassMoves DEF PassReplace, Passing, LockInv
  <2> QED BY <2>1 DEF Refreshing
<1>2. CASE RefreshAdmits \/ RefreshGivesUp \/ RefreshRestores
  <2>1. pass.full
    BY <1>0, <1>2 DEF RefreshAdmits, RefreshGivesUp, RefreshRestores, Passing, LockInv
  <2>2. pass'.pc \in {"refresh", "restore"} /\ pass'.full = pass.full
    BY <1>2, PassMoves
  <2> QED BY <2>1, <2>2 DEF Refreshing
<1>3. CASE PassConverge
  <2>1. pass.full /\ pass'.pc = "legacy" /\ pass'.full = pass.full
    BY <1>0, <1>3, PassMoves DEF PassConverge, Passing, LockInv
  <2> QED BY <2>1 DEF Refreshing
<1>4. ASSUME NEW S \in SUBSET Symbols, Forsake(S), pass.pc \in {"quarantine", "refresh", "legacy"},
             UNCHANGED <<shown, docs, torn>>
      PROVE  \/ Unshown' \subseteq Due'
             \/ Refreshing'
             \/ torn' /\ ~(pass'.full /\ pass'.pc = "queue")
  <2>1. /\ pass'.pc \in {"converge", "legacy", "forget"}
        /\ Lost' = Lost \cup S
        /\ pass'.full = pass.full
    BY <1>4, ForsakeMoves
  <2>2. Due' = Lost'
    BY <2>1 DEF Due
  <2>3. Unshown' \subseteq Unshown \cup S
    <3>1. \A s \in Symbols \ S : alias'[s] = alias[s]
      BY <1>0, <1>4, Forsaking
    <3>2. ~PassReplace
      BY <1>4 DEF PassReplace, Passing
    <3> QED BY <1>4, <3>1, <3>2, Changing, MovedStep
  <2>4. Due = Lost
    BY <1>0, <1>4, WhatIsDue
  <2>5. Refreshing => Refreshing'
    BY <2>1 DEF Refreshing
  <2> QED BY <1>0, <1>4, <2>1, <2>2, <2>3, <2>4, <2>5
<1>5. CASE PassQuarantine \/ PassLegacy
  <2>1. UNCHANGED <<shown, docs, torn>>
    BY <1>5 DEF PassQuarantine, PassLegacy
  <2> QED BY <1>4, <1>5, <2>1, Quarantines
<1>6. CASE PassForget
  <2>1. /\ UNCHANGED <<shown, docs, alias, torn>> /\ pass.pc = "forget"
        /\ pass'.pc = "mirror" /\ pass'.full = pass.full /\ Lost' = Lost
    BY <1>6, PassMoves DEF PassForget, Passing, Lost
  <2>2. Due = Lost /\ Due' = Lost'
    BY <1>0, <2>1, WhatIsDue DEF Due
  <2>3. Unshown' \subseteq Unshown
    BY <2>1, Changing, MovedStep DEF PassReplace, Passing
  <2> QED BY <1>0, <2>1, <2>2, <2>3 DEF Refreshing
<1>7. CASE PassMirror
  <2> DEFINE S == IF pass.full THEN Symbols ELSE UNION {Reach(links, q[1]) : q \in pass.lost}
  <2>1. /\ RefreshMirror(S) /\ UNCHANGED <<disk, docs, alias, moved, torn>> /\ pass.pc = "mirror"
        /\ pass'.pc = "queue" /\ pass'.full = pass.full
    BY <1>7, PassMoves DEF PassMirror, Passing
  <2>2. Due = Lost
    BY <1>0, <2>1, WhatIsDue
  <2>3. Unshown' \subseteq Unshown \ S
    BY <1>0, <2>1, Refreshed DEF ReviewInv, MirrorInv
  <2>4. CASE pass.full
    BY <2>3, <2>4 DEF Unshown
  <2>5. CASE ~pass.full
    <3>1. \A s \in Symbols \cap Lost : s \in S
      BY <2>5, ReachesItself DEF Lost
    <3>2. Unshown \subseteq Due => Unshown' = {}
      BY <2>2, <2>3, <3>1 DEF Unshown
    <3> QED BY <1>0, <2>1, <2>5, <3>2 DEF Refreshing
  <2> QED BY <2>4, <2>5
<1>8. CASE PassQueue
  <2>1. /\ pass.pc = "queue" /\ torn' = (torn /\ ~pass.full) /\ UNCHANGED <<shown, docs, alias>>
        /\ pass'.pc = "off"
    BY <1>8 DEF PassQueue, Passing, PassOff
  <2>2. Due = {} /\ ~Refreshing
    BY <1>0, <2>1, WhatIsDue DEF Refreshing
  <2>3. Unshown' \subseteq Unshown
    BY <2>1, Changing, MovedStep DEF PassReplace, Passing
  <2> QED BY <1>0, <2>1, <2>2, <2>3
<1> QED BY <1>1, <1>2, <1>3, <1>5, <1>6, <1>7, <1>8 DEF PassStep

\* Neither do reviewers.
LEMMA ReviewShows ==
  ASSUME ReviewInv, Review, [Next]_vars
  PROVE  \/ Unshown' \subseteq Due'
         \/ Refreshing'
         \/ torn' /\ ~(pass'.full /\ pass'.pc = "queue")
<1>0. /\ LockInv /\ LockInv' /\ TypeOK
      /\ \/ Unshown \subseteq Due
         \/ Refreshing
         \/ torn /\ ~(pass.full /\ pass.pc = "queue")
  BY LockStep DEF ReviewInv, MirrorInv
<1>1. /\ pass' = pass /\ bulk' = bulk /\ UNCHANGED <<disk, docs, moved, torn>>
      /\ (Refreshing => Refreshing') /\ Lost' = Lost
  BY DEF Review, Begin, Prepare, Ask, Equivalents, Lock, Admit, Accept, Mirror, WriteItem,
         WriteLedger, ReviewerUnchanged, Refreshing, Lost
<1> SUFFICES ASSUME Unshown \subseteq Due PROVE Unshown' \subseteq Due'
  BY <1>0, <1>1
<1>2. CASE Mirror
  <2>1. /\ RefreshMirror(Reach(links, Mine.target)) /\ UNCHANGED alias /\ single.pc = "mirror"
    BY <1>2 DEF Mirror, SinglePc
  <2>2. Unshown' \subseteq Unshown \ Reach(links, Mine.target)
    BY <1>0, <1>1, <2>1, Refreshed DEF ReviewInv, MirrorInv
  <2>3. Due = Reach(links, Mine.target)
    BY <1>0, <2>1, WhatIsDue DEF LockInv
  <2> QED BY <2>2, <2>3
<1>3. CASE Accept /\ Acceptable({<<Mine.target, Mine.alias>>})
  <2> DEFINE pair == {<<Mine.target, Mine.alias>>}
  <2>1. /\ Step("mirror") /\ UNCHANGED <<items, links, shown>> /\ single.pc = "accept"
        /\ Acceptable(pair) /\ AcceptAll(pair)
    BY <1>3 DEF Accept, SinglePc
  <2>2. Due = {}
    BY <1>0, <2>1, WhatIsDue DEF LockInv
  <2>3. pair \in SUBSET (Symbols \X (Nat \ {None}))
    BY <2>1, Pairs
  <2>4. \A s \in Symbols \ Reach(links, Mine.target) : alias'[s] = alias[s]
    <3>1. \A s \in Symbols : (\A p \in pair : ~Covers(p, s)) => alias'[s] = alias[s]
      <4> HIDE DEF pair
      <4> QED BY <1>0, <2>1, <2>3, Accepting
    <3> QED BY <3>1 DEF Covers
  <2>5. Unshown' \subseteq Reach(links, Mine.target)
    BY <1>1, <2>1, <2>2, <2>4, Changing
  <2>6. Due' = Reach(links, Mine.target)
    <3>1. single'.pc = "mirror" /\ Mine' = Mine
      BY <2>1, Stepping DEF Mine
    <3>2. pass.pc = "off"
      BY <1>0, <2>1, WhatIsDue DEF LockInv
    <3> QED BY <1>1, <2>1, <3>1, <3>2 DEF Due
  <2> QED BY <2>5, <2>6
<1>4. CASE ~Mirror /\ ~(Accept /\ Acceptable({<<Mine.target, Mine.alias>>}))
  <2>1. UNCHANGED <<alias, shown>>
    BY <1>4 DEF Review, Begin, Prepare, Ask, Equivalents, Lock, Admit, Accept, Mirror, WriteItem,
         WriteLedger, Refused
  <2>2. Unshown' \subseteq Unshown
    BY <1>1, <2>1, Changing
  <2>3. single.pc # "mirror"
    BY <1>4 DEF Review, Begin, Prepare, Ask, Equivalents, Lock, Admit, Accept, Mirror, WriteItem,
         WriteLedger, SinglePc
  <2>4. CASE pass.pc \notin {"off", "queue"}
    BY <1>1, <2>2, <2>4 DEF Due
  <2>5. CASE pass.pc \in {"off", "queue"} /\ bulk.pc = "mirror"
    <3>1. lock = "bulk" /\ lock' = "bulk"
      BY <1>0, <1>1, <2>5 DEF LockInv
    <3>2. single'.pc # "mirror"
      BY <1>0, <3>1 DEF LockInv
    <3>3. UNCHANGED <<links, items>>
      BY <3>1 DEF Review, Begin, Prepare, Ask, Equivalents, Lock, Admit, Accept, Mirror, WriteItem,
         WriteLedger, SinglePc, ReviewInv, LockInv
    <3> QED BY <1>1, <2>2, <2>3, <2>5, <3>2, <3>3 DEF Due, Target
  <2>6. CASE pass.pc \in {"off", "queue"} /\ bulk.pc # "mirror"
    BY <2>2, <2>3, <2>6 DEF Due
  <2> QED BY <2>4, <2>5, <2>6
<1> QED BY <1>2, <1>3, <1>4

\* Nor do bulk approvals.
LEMMA BulkShows ==
  ASSUME ReviewInv, BulkReview, [Next]_vars
  PROVE  \/ Unshown' \subseteq Due'
         \/ Refreshing'
         \/ torn' /\ ~(pass'.full /\ pass'.pc = "queue")
<1>0. /\ LockInv /\ LockInv' /\ TypeOK
      /\ \/ Unshown \subseteq Due
         \/ Refreshing
         \/ torn /\ ~(pass.full /\ pass.pc = "queue")
  BY LockStep DEF ReviewInv, MirrorInv
<1>1. single' = single /\ UNCHANGED <<disk, docs, moved, torn>>
  BY DEF BulkReview, StartBulk, Retire, Reread, Preflight, PrepareAll, AskAll, Relock,
         Judge, Choose, AdmitBatch, AcceptBatch, MirrorBatch, RecordItem, RecordLedger,
         BulkUnchanged
<1>2. CASE StartBulk
  <2>1. lock = "free" /\ UNCHANGED <<alias, shown>>
    BY <1>2 DEF StartBulk
  <2>2. Due = {} /\ pass.pc = "off"
    BY <1>0, <2>1, WhatIsDue
  <2>3. Unshown' \subseteq Unshown
    BY <1>1, <2>1, Changing
  <2>4. pass'.pc # "queue"
    BY <1>2, PassMoves
  <2> QED BY <1>0, <1>1, <2>2, <2>3, <2>4 DEF Refreshing
<1>3. CASE ~StartBulk
  <2>1. pass' = pass /\ Lost' = Lost /\ (Refreshing => Refreshing')
    BY <1>3, BulkLocks DEF Lost, Refreshing
  <2> SUFFICES ASSUME Unshown \subseteq Due PROVE Unshown' \subseteq Due'
    BY <1>0, <1>1, <2>1
  <2>2. CASE MirrorBatch
    <3> DEFINE S == UNION {Reach(links, Target(i)) : i \in bulk.ids}
    <3>1. RefreshMirror(S) /\ UNCHANGED alias /\ bulk.pc = "mirror"
      BY <2>2 DEF MirrorBatch, BulkPc
    <3>2. Due = S
      BY <1>0, <3>1, WhatIsDue DEF LockInv
    <3> HIDE DEF S
    <3>3. Unshown' \subseteq Unshown \ S
      BY <1>0, <1>1, <3>1, Refreshed DEF ReviewInv, MirrorInv
    <3> QED BY <3>2, <3>3
  <2>3. CASE AcceptBatch /\ Acceptable({<<Target(i), items[i].alias>> : i \in bulk.ids})
    <3> DEFINE pairs == {<<Target(i), items[i].alias>> : i \in bulk.ids}
               S == UNION {Reach(links, Target(i)) : i \in bulk.ids}
    <3>1. /\ BulkStep("mirror") /\ UNCHANGED <<items, links, shown>> /\ bulk.pc = "accept"
          /\ Acceptable(pairs) /\ AcceptAll(pairs)
      BY <2>3 DEF AcceptBatch, BulkPc
    <3>2. Due = {} /\ pass.pc = "off" /\ single.pc # "mirror"
      BY <1>0, <3>1, WhatIsDue DEF LockInv
    <3>3. pairs \in SUBSET (Symbols \X (Nat \ {None}))
      BY <3>1, Pairs
    <3>4. \A s \in Symbols \ S : alias'[s] = alias[s]
      <4>1. \A s \in Symbols : (\A p \in pairs : ~Covers(p, s)) => alias'[s] = alias[s]
        <5> HIDE DEF pairs
        <5> QED BY <1>0, <3>1, <3>3, Accepting
      <4>2. ASSUME NEW s \in Symbols \ S, NEW p \in pairs PROVE ~Covers(p, s)
        BY <4>2 DEF Covers
      <4> QED BY <4>1, <4>2
    <3>5. Unshown' \subseteq S
      <4> HIDE DEF S
      <4> QED BY <1>1, <3>1, <3>2, <3>4, Changing
    <3>6. Due' = S
      <4>1. bulk'.pc = "mirror" /\ bulk'.ids = bulk.ids
        BY <3>1, BulkStepping
      <4> QED BY <1>1, <2>1, <3>1, <3>2, <4>1 DEF Due, Target
    <3> QED BY <3>5, <3>6
  <2>4. CASE /\ ~MirrorBatch
             /\ ~(AcceptBatch /\ Acceptable({<<Target(i), items[i].alias>> : i \in bulk.ids}))
    <3>1. UNCHANGED <<alias, shown>>
      BY <1>3, <2>4 DEF BulkReview, Retire, Reread, Preflight, PrepareAll, AskAll, Relock,
         Judge, Choose, AdmitBatch, AcceptBatch, MirrorBatch, RecordItem, RecordLedger, Abandon
    <3>2. Unshown' \subseteq Unshown
      BY <1>1, <3>1, Changing
    <3>3. bulk.pc # "mirror"
      BY <1>3, <2>4 DEF BulkReview, Retire, Reread, Preflight, PrepareAll, AskAll, Relock,
         Judge, Choose, AdmitBatch, AcceptBatch, MirrorBatch, RecordItem, RecordLedger, BulkPc
    <3>4. CASE pass.pc \notin {"off", "queue"}
      BY <2>1, <3>2, <3>4 DEF Due
    <3>5. CASE pass.pc \in {"off", "queue"} /\ single.pc = "mirror"
      <4>1. lock = "single"
        BY <1>0, <3>5 DEF LockInv
      <4>2. UNCHANGED <<links, items>>
        BY <1>0, <4>1 DEF BulkReview, StartBulk, Retire, Reread, Preflight, PrepareAll, AskAll,
           Relock, Judge, Choose, AdmitBatch, AcceptBatch, MirrorBatch, RecordItem, RecordLedger,
           BulkPc, LockInv
      <4> QED BY <1>1, <2>1, <3>2, <3>5, <4>2 DEF Due, Mine
    <3>6. CASE pass.pc \in {"off", "queue"} /\ single.pc # "mirror"
      BY <3>2, <3>3, <3>6 DEF Due
    <3> QED BY <3>4, <3>5, <3>6
  <2> QED BY <2>2, <2>3, <2>4
<1> QED BY <1>2, <1>3

\* What the mirror shows, after every step.
LEMMA MirrorStep ==
  ASSUME ReviewInv, [Next]_vars
  PROVE  MirrorInv'
<1> SUFFICES \/ Unshown' \subseteq Due'
             \/ Refreshing'
             \/ torn' /\ ~(pass'.full /\ pass'.pc = "queue")
  BY MovedStep DEF MirrorInv
<1>0. /\ LockInv
      /\ \/ Unshown \subseteq Due
         \/ Refreshing
         \/ torn /\ ~(pass.full /\ pass.pc = "queue")
  BY DEF ReviewInv, MirrorInv
<1>1. CASE PassStep \/ Review \/ BulkReview
  BY <1>1, PassShows, ReviewShows, BulkShows
<1>2. CASE Edit \/ Rest \/ UNCHANGED vars
  <2>1. UNCHANGED <<docs, alias, shown, graph, queue, procs, torn>> /\ moved \subseteq moved'
    BY <1>2 DEF Edit, Rest, vars
  <2>2. Unshown' \subseteq Unshown
    BY <2>1, Changing
  <2>3. Due' = Due /\ Refreshing' = Refreshing
    BY <2>1 DEF Due, Refreshing, Lost, Mine, Target
  <2> QED BY <1>0, <2>1, <2>2, <2>3
<1>3. CASE StartPass
  <2>1. lock = "free" /\ UNCHANGED <<docs, alias, shown, torn, moved>>
    BY <1>3 DEF StartPass
  <2>2. Due = {} /\ pass.pc = "off"
    BY <1>0, <2>1, WhatIsDue
  <2>3. Unshown' \subseteq Unshown
    BY <2>1, Changing
  <2>4. pass'.pc = "replace"
    BY <1>3, PassMoves
  <2> QED BY <1>0, <2>1, <2>2, <2>3, <2>4 DEF Refreshing
<1>4. CASE \E p \in {"single", "bulk", "index"} : Die(p)
  <2>1. PICK p \in {"single", "bulk", "index"} : Die(p)
    BY <1>4
  <2>2. torn' = (torn \/ lock = p) /\ UNCHANGED <<docs, alias, shown, moved, links, items>>
    BY <2>1 DEF Die
  <2>3. CASE lock = p
    <3>1. pass'.pc = "off"
      BY <1>0, <2>1, <2>3, Dying DEF LockInv
    <3> QED BY <2>2, <2>3, <3>1
  <2>4. CASE lock # p
    <3>1. pass' = pass /\ (torn' <=> torn)
      BY <2>1, <2>2, <2>4, Dying
    <3>2. Unshown' \subseteq Unshown
      BY <2>2, Changing
    <3>3. /\ p = "single" \/ single' = single
          /\ p = "bulk" \/ bulk' = bulk
          /\ p = "single" => single.pc # "mirror" /\ single'.pc # "mirror"
          /\ p = "bulk" => bulk.pc # "mirror" /\ bulk'.pc # "mirror"
      BY <1>0, <2>1, <2>4, Dying DEF LockInv
    <3>4. Due' = Due /\ Refreshing' = Refreshing
      BY <2>2, <3>1, <3>3 DEF Due, Refreshing, Lost, Mine, Target
    <3> QED BY <1>0, <3>1, <3>2, <3>4
  <2> QED BY <2>3, <2>4
<1> QED BY <1>1, <1>2, <1>3, <1>4 DEF Next

(***************************************************************************)
(* The groups of linked symbols                                            *)
(***************************************************************************)
\* Links and aliases that go split no group.
LEMMA FewerLinks ==
  ASSUME TypeOK, LinkedAliasesAgree, links' \subseteq links,
         \A s \in Symbols : Accepted(s)' => Accepted(s) /\ alias'[s].name = alias[s].name
  PROVE  LinkedAliasesAgree'
BY DEF LinkedAliasesAgree, TypeOK

\* An acceptance gives both ends of a link the same alias, or neither.
LEMMA AcceptingLinked ==
  ASSUME TypeOK, LinkedAliasesAgree, Accepts, UNCHANGED links
  PROVE  LinkedAliasesAgree'
<1> SUFFICES ASSUME NEW l \in links, Accepted(l[1])', Accepted(l[2])'
             PROVE  alias'[l[1]].name = alias'[l[2]].name
  BY DEF LinkedAliasesAgree
<1>1. PICK pairs \in SUBSET (Symbols \X (Nat \ {None})) : Acceptable(pairs) /\ AcceptAll(pairs)
  BY DEF Accepts
<1>2. l[1] \in Symbols /\ l[2] \in Symbols
  BY DEF TypeOK
<1>3. \A p \in pairs : Covers(p, l[1]) <=> Covers(p, l[2])
  <2> TAKE p \in pairs
  <2>1. p[1] \in Symbols
    OBVIOUS
  <2> QED BY <1>2, <2>1, ReachesAlong DEF Covers
<1>4. CASE \E p \in pairs : Covers(p, l[1])
  <2>1. PICK p \in pairs : Covers(p, l[1])
    BY <1>4
  <2>2. alias'[l[1]].name = p[2] /\ alias'[l[2]].name = p[2]
    BY <1>1, <1>2, <1>3, <2>1, Accepting
  <2> QED BY <2>2
<1>5. CASE \A p \in pairs : ~Covers(p, l[1])
  <2>1. alias'[l[1]] = alias[l[1]] /\ alias'[l[2]] = alias[l[2]]
    BY <1>1, <1>2, <1>3, <1>5, Accepting
  <2> QED BY <2>1 DEF LinkedAliasesAgree, Accepted
<1> QED BY <1>4, <1>5

\* A convergence gives every member of a component the same alias, or leaves them all.
LEMMA ConvergingLinked ==
  ASSUME TypeOK, LinkedAliasesAgree, OrphanAliases = {}, PassConverge
  PROVE  LinkedAliasesAgree'
<1>1. Present(docs) \subseteq Symbols
  BY Constants DEF TypeOK
<1>2. Representatives \in SUBSET (Symbols \X Symbols) /\ links \subseteq Representatives
  BY <1>1 DEF Representatives, Twins, TypeOK
<1>3. ASSUME NEW s \in Symbols, Accepted(s)' PROVE s \in Present(docs)
  <2>1. CASE Mended(s)
    BY <2>1 DEF Mended
  <2>2. CASE ~Mended(s)
    <3>1. alias'[s] = alias[s]
      BY <2>2, Converging
    <3> QED BY <1>3, <3>1 DEF OrphanAliases, Accepted
  <2> QED BY <2>1, <2>2
<1>4. ASSUME NEW s \in Symbols, NEW t \in Symbols, t \in Reach(Representatives, s),
             Accepted(s)', Accepted(t)', Mended(s)
      PROVE  alias'[t].name = alias'[s].name
  <2>1. Group(t) = Group(s)
    BY <1>2, <1>4, ReachesAlike DEF Group
  <2>2. Mended(t) /\ Source(t) = Source(s)
    BY <1>3, <1>4, <2>1 DEF Mended, Source
  <2> QED BY <1>4, <2>2, Converging
<1>5. ASSUME NEW l \in links, Accepted(l[1])', Accepted(l[2])'
      PROVE  alias'[l[1]].name = alias'[l[2]].name
  <2>1. l[1] \in Symbols /\ l[2] \in Symbols /\ l \in Representatives
    BY <1>2 DEF TypeOK
  <2>2. l[2] \in Reach(Representatives, l[1]) /\ l[1] \in Reach(Representatives, l[2])
    BY <2>1, ReachesItself, ReachesAlong
  <2>3. CASE Mended(l[1])
    BY <1>4, <1>5, <2>1, <2>2, <2>3
  <2>4. CASE Mended(l[2])
    BY <1>4, <1>5, <2>1, <2>2, <2>4
  <2>5. CASE ~Mended(l[1]) /\ ~Mended(l[2])
    <3>1. alias'[l[1]] = alias[l[1]] /\ alias'[l[2]] = alias[l[2]]
      BY <2>1, <2>5, Converging
    <3> QED BY <1>5, <3>1 DEF LinkedAliasesAgree, Accepted
  <2> QED BY <2>3, <2>4, <2>5
<1>6. ASSUME NEW s \in Symbols, Mended(s), \E m \in Group(s) : ~Complete(m)
      PROVE  Min(Active(Group(s))) \in Symbols \cap Reach(Representatives, s)
  <2> DEFINE c == Min(Active(Group(s)))
  <2>1. Active(Group(s)) # {}
    BY <1>6 DEF Mended, Repairable
  <2>2. Active(Group(s)) \subseteq Symbols
    BY DEF Active, ActiveCanonicals, TypeOK
  <2>3. Active(Group(s)) \subseteq Nat
    BY <2>2, Constants
  <2>4. c \in Active(Group(s)) /\ c \in Symbols
    BY <2>1, <2>2, <2>3, MinIsLeast
  <2> HIDE DEF c
  <2>5. PICK m \in Group(s) : c \in ActiveCanonicals(m)
    BY <2>4 DEF Active
  <2>6. m \in Reach(Representatives, s) /\ m \in Symbols
    BY <1>1 DEF Group
  <2>7. c = m \/ <<c, m>> \in Representatives
    BY <1>2, <2>5 DEF ActiveCanonicals
  <2>8. c \in Reach(Representatives, s)
    <3>1. CASE <<c, m>> \in Representatives
      <4> DEFINE l == <<c, m>>
      <4>1. l \in Representatives /\ l[1] = c /\ l[2] = m
        BY <3>1
      <4> HIDE DEF l
      <4> QED BY <2>4, <2>6, <4>1, ReachesAlong
    <3> QED BY <2>6, <2>7, <3>1
  <2> QED BY <2>4, <2>8 DEF c
<1>7. ASSUME NEW l \in links' \ links
      PROVE  \E s \in Symbols : /\ Mended(s) /\ \E m \in Group(s) : ~Complete(m)
                                /\ l = <<Min(Active(Group(s))), s>>
  <2>1. PICK s \in {x \in {s \in Present(docs) :
                              Repairable(Reach(Representatives, s) \cap Present(docs))} :
                        \E m \in Reach(Representatives, x) \cap Present(docs) : ~Complete(m)} :
            l = <<Min(Active(Reach(Representatives, s) \cap Present(docs))), s>>
    BY DEF PassConverge
  <2> QED BY <1>1, <2>1 DEF Mended, Group
<1>8. ASSUME NEW l \in links' \ links, Accepted(l[1])', Accepted(l[2])'
      PROVE  alias'[l[1]].name = alias'[l[2]].name
  <2>1. PICK s \in Symbols : /\ Mended(s) /\ \E m \in Group(s) : ~Complete(m)
                             /\ l = <<Min(Active(Group(s))), s>>
    BY <1>7
  <2> DEFINE c == Min(Active(Group(s)))
  <2>2. c \in Symbols /\ c \in Reach(Representatives, s) /\ l[1] = c /\ l[2] = s
    BY <1>6, <2>1
  <2> HIDE DEF c
  <2> QED BY <1>4, <1>8, <2>1, <2>2
<1> QED BY <1>5, <1>8 DEF LinkedAliasesAgree

\* A reviewer admits a closure whose members have no other alias.
LEMMA AdmittingLinked ==
  ASSUME ReviewInv, GroupInv, LinkedAliasesAgree, Admit
  PROVE  LinkedAliasesAgree'
<1> DEFINE t == Mine.target
           members == (single.found.members \cup single.equal) \cap Present(docs)
<1>1. single.pc = "admit" /\ HasClosure /\ single.item \in DOMAIN items /\ UNCHANGED alias
  BY DEF Admit, SinglePc, ReviewInv, SingleInv, Pending
<1>2. single.found.target = t /\ t \in Symbols
  BY <1>1 DEF GroupInv, SingleGroup, Mine, ReviewInv, TypeOK, Items
<1>3. links' \subseteq links \cup {<<t, m>> : m \in members}
  <2>1. CASE UNCHANGED links
    BY <2>1
  <2>2. CASE AdmitAll({single.found}, [x \in {t} |-> single.equal])
    <3> DEFINE equal == [x \in {t} |-> single.equal]
               found == UNION {{<<c.target, m>> : m \in (c.members \cup equal[c.target])
                                                           \cap Present(docs)} :
                                   c \in {single.found}}
    <3>1. links' \subseteq links \cup found
      BY <2>2 DEF AdmitAll
    <3>2. equal[single.found.target] = single.equal
      BY <1>2
    <3>3. found = {<<t, m>> : m \in members}
      <4> HIDE DEF equal
      <4> QED BY <1>2, <3>2
    <3> QED BY <3>1, <3>3
  <2> QED BY <2>1, <2>2 DEF Admit
<1>4. members \subseteq single.equal \cup {t}
  <2>1. Present(docs) \subseteq Symbols
    BY Constants DEF ReviewInv, TypeOK
  <2> QED BY <1>1, <1>2, <2>1 DEF GroupInv, SingleGroup
<1>5. \A m \in single.equal \cup {t} : Accepted(m) => alias[m].name = Mine.alias
  BY <1>1, <1>2, ReachesItself DEF GroupInv, SingleGroup
<1> HIDE DEF t, members
<1> QED BY <1>1, <1>3, <1>4, <1>5 DEF LinkedAliasesAgree, Accepted

\* So does a bulk approval.
LEMMA BatchLinked ==
  ASSUME ReviewInv, GroupInv, LinkedAliasesAgree, AdmitBatch
  PROVE  LinkedAliasesAgree'
<1>1. bulk.pc = "admit" /\ bulk.ids \subseteq DOMAIN items /\ UNCHANGED alias
  BY DEF AdmitBatch, BulkPc, ReviewInv, BulkInv, Pending
<1>2. \A i \in Found : i \in bulk.ids /\ bulk.found[i].target = Target(i) /\ Target(i) \in Symbols
  BY <1>1 DEF GroupInv, BulkGroup, ReviewInv, TypeOK, Items, Target
<1>3. Present(docs) \subseteq Symbols
  BY Constants DEF ReviewInv, TypeOK
<1>4. ASSUME NEW i \in Found,
             NEW m \in (bulk.found[i].members \cup EqualTo(bulk.found[i].target)) \cap Present(docs)
      PROVE  m \in Reach(Proven, Target(i)) /\ Target(i) \in Reach(Proven, Target(i))
  <2>1. CASE m \in bulk.found[i].members
    <3> DEFINE l == <<Target(i), m>>
    <3>1. l \in Proven /\ l[1] = Target(i) /\ l[2] = m
      <4>1. <<bulk.found[i].target, m>> \in
                {<<bulk.found[i].target, x>> : x \in bulk.found[i].members}
        BY <2>1
      <4> QED BY <1>2, <4>1 DEF Proven
    <3> HIDE DEF l
    <3> QED BY <1>2, <1>3, <3>1, ReachesItself, ReachesAlong
  <2>2. CASE m \in EqualTo(bulk.found[i].target)
    BY <1>2, <2>2, ReachesItself DEF EqualTo
  <2> QED BY <2>1, <2>2
<1>5. ASSUME NEW l \in links' \ links
      PROVE  \E i \in Found : {l[1], l[2]} \subseteq Reach(Proven, Target(i))
  <2> DEFINE cs == {bulk.found[i] : i \in Found}
             equal == [x \in {c.target : c \in cs} |-> EqualTo(x)]
  <2>1. AdmitAll(cs, equal)
    BY DEF AdmitBatch
  <2>2. PICK c \in cs : \E m \in (c.members \cup EqualTo(c.target)) \cap Present(docs) :
                            l = <<c.target, m>>
    <3>1. PICK c \in cs : \E m \in (c.members \cup equal[c.target]) \cap Present(docs) :
                              l = <<c.target, m>>
      <4> HIDE DEF cs, equal
      <4> QED BY <2>1 DEF AdmitAll
    <3>2. equal[c.target] = EqualTo(c.target)
      OBVIOUS
    <3> QED BY <3>1, <3>2
  <2>3. PICK i \in Found : c = bulk.found[i]
    OBVIOUS
  <2>4. PICK m \in (c.members \cup EqualTo(c.target)) \cap Present(docs) : l = <<c.target, m>>
    BY <2>2
  <2>5. l[1] = Target(i) /\ l[2] = m
    BY <1>2, <2>3, <2>4
  <2> HIDE DEF cs
  <2> QED BY <1>4, <2>3, <2>4, <2>5
<1>6. \A i \in Found : \A s \in Reach(Proven, Target(i)) :
          Accepted(s) => alias[s].name = items[i].alias
  BY <1>1, <1>2 DEF GroupInv, BulkGroup, AcceptedIn
<1> QED BY <1>1, <1>5, <1>6 DEF LinkedAliasesAgree, Accepted

\* What a reviewer got and what it is about to admit.
LEMMA SingleGroupStep ==
  ASSUME ReviewInv, SingleGroup, [Next]_vars
  PROVE  SingleGroup'
<1>0. /\ DOMAIN items' \subseteq DOMAIN items
      /\ \A i \in DOMAIN items' : items'[i].target = items[i].target
  BY ItemStep
<1>1. /\ DOMAIN single = {"pc", "item", "approve", "docs", "found", "equal"}
      /\ DOMAIN SingleIdle = {"pc", "item", "approve", "docs", "found", "equal"}
      /\ SingleIdle.pc = "idle" /\ SingleIdle.found = <<>>
  BY DEF ReviewInv, ProcsInv, SingleIdle
<1>2. CASE single'.found = <<>> /\ single'.pc # "admit"
  BY <1>2 DEF SingleGroup, HasClosure
<1>3. CASE single' = SingleIdle
  BY <1>1, <1>2, <1>3
<1>4. ASSUME single'.found = single.found, single'.item = single.item
      PROVE  HasClosure' /\ single'.item \in DOMAIN items' =>
                 single'.found.target = items'[single'.item].target
  BY <1>0, <1>4 DEF SingleGroup, HasClosure, Mine
<1>5. CASE UNCHANGED single /\ ~Review
  <2>1. CASE single.pc = "admit"
    <3>1. UNCHANGED <<alias, links, items>>
      BY <1>5, <2>1, OnlyHolder DEF ReviewInv, LockInv
    <3> QED BY <1>5, <3>1 DEF SingleGroup, HasClosure, Mine, Accepted
  <2>2. CASE single.pc # "admit"
    BY <1>4, <1>5, <2>2 DEF SingleGroup, HasClosure, Mine
  <2> QED BY <2>1, <2>2
<1>6. CASE Begin
  BY <1>1, <1>2, <1>6 DEF Begin
<1>7. CASE Prepare
  <2>1. CASE single' \in {[single EXCEPT !.pc = "lock"],
                         [single EXCEPT !.pc = "ask", !.docs = docs]}
    <3>1. single'.found = <<>>
      BY <1>1, <1>7, <2>1 DEF Prepare, SinglePc, SingleGroup, HasClosure
    <3>2. single'.pc # "admit"
      BY <1>1, <2>1
    <3> QED BY <1>2, <3>1, <3>2
  <2> QED BY <1>3, <1>7, <2>1 DEF Prepare, Refused
<1>8. CASE Ask
  <2>1. CASE \E ans \in Answers(Mine.target) :
                 single' = [single EXCEPT !.pc = "equal", !.found = ans]
    <3>1. PICK ans \in Answers(Mine.target) :
                 single' = [single EXCEPT !.pc = "equal", !.found = ans]
      BY <2>1
    <3>2. single'.found = ans /\ single'.pc = "equal" /\ single'.item = single.item
      BY <1>1, <3>1
    <3>3. single'.found.target = Mine.target /\ UNCHANGED items
      BY <1>8, <3>2, Answered DEF Ask
    <3> QED BY <3>2, <3>3 DEF SingleGroup, Mine
  <2> QED BY <1>3, <1>8, <2>1 DEF Ask, Refused
<1>9. CASE Equivalents
  <2> DEFINE c == single.found
             edges == Representatives \cup {<<c.target, m>> : m \in c.members}
  <2>1. single' = [single EXCEPT !.pc = "lock", !.equal = Reach(edges, c.target) \ {c.target}]
    BY <1>9 DEF Equivalents
  <2>2. /\ single'.found = c /\ single'.pc = "lock" /\ single'.item = single.item
        /\ single'.equal = Reach(edges, c.target) \ {c.target}
    <3> HIDE DEF edges
    <3> QED BY <1>1, <2>1
  <2>3. ASSUME NEW m \in c.members \cap Symbols PROVE m \in Reach(edges, c.target)
    <3> DEFINE l == <<c.target, m>>
    <3>1. l \in edges /\ l[1] = c.target /\ l[2] = m
      OBVIOUS
    <3> HIDE DEF l, edges
    <3> QED BY <3>1 DEF Reach, Cuts
  <2>4. c.members \cap Symbols \subseteq single'.equal \cup {c.target}
    <3> HIDE DEF edges
    <3> QED BY <2>2, <2>3
  <2> HIDE DEF edges
  <2> QED BY <1>4, <2>2, <2>4 DEF SingleGroup, HasClosure, Mine
<1>10. ASSUME NEW pc, Step(pc)
       PROVE  /\ single'.pc = pc /\ single'.item = single.item
              /\ single'.found = single.found /\ single'.equal = single.equal
  BY <1>1, <1>10 DEF Step
<1>11. CASE Lock
  <2>1. CASE single.approve /\ HasClosure /\ ApprovalIsValid /\ Step("admit")
    <3>1. \A m \in Reach(links, Mine.target) \cup single.equal :
              Accepted(m) => alias[m].name = Mine.alias
      BY <2>1 DEF ApprovalIsValid, CandidateIsValid, AliasIsFree
    <3>2. UNCHANGED <<alias, links, items>> /\ single.pc = "lock"
      BY <1>11 DEF Lock, SinglePc
    <3> QED BY <1>4, <1>10, <2>1, <3>1, <3>2 DEF SingleGroup, HasClosure, Mine, Accepted
  <2>2. CASE \E pc \in {"file", "accept"} : Step(pc)
    BY <1>4, <1>10, <2>2 DEF SingleGroup, Mine
  <2>3. Refused \/ (single.approve /\ HasClosure /\ ApprovalIsValid /\ Step("admit"))
        \/ \E pc \in {"file", "accept"} : Step(pc)
    BY <1>11 DEF Lock
  <2> QED BY <1>3, <2>1, <2>2, <2>3 DEF Refused
<1>12. CASE Admit \/ Accept \/ Mirror \/ WriteItem \/ WriteLedger
  <2>1. single' = SingleIdle \/ \E pc \in {"accept", "mirror", "file", "ledger"} : Step(pc)
    BY <1>12 DEF Admit, Accept, Mirror, WriteItem, WriteLedger, Refused
  <2> QED BY <1>3, <1>4, <1>10, <2>1 DEF SingleGroup, Mine
<1>13. CASE Die("single")
  BY <1>3, <1>5, <1>13 DEF Die
<1> QED BY <1>5, <1>6, <1>7, <1>8, <1>9, <1>11, <1>12, <1>13, Holders DEF Review

\* What a bulk approval got and what it is about to admit.
LEMMA BulkGroupStep ==
  ASSUME ReviewInv, BulkGroup, [Next]_vars
  PROVE  BulkGroup'
<1> DEFINE Asking == {"relock", "judge", "choose", "admit"}
<1>0. /\ DOMAIN items' \subseteq DOMAIN items
      /\ \A i \in DOMAIN items' : /\ items'[i].target = items[i].target
                                  /\ items'[i].alias = items[i].alias
  BY ItemStep
<1>1. /\ DOMAIN bulk = {"pc", "ids", "todo", "base", "docs", "found"}
      /\ DOMAIN BulkIdle = {"pc", "ids", "todo", "base", "docs", "found"}
      /\ BulkIdle.pc = "idle" /\ BulkIdle.found = <<>> /\ DOMAIN BulkIdle.found = {}
  BY DEF ReviewInv, ProcsInv, BulkIdle
<1>2. CASE DOMAIN bulk'.found = {} /\ bulk'.pc \notin Asking
  BY <1>2 DEF BulkGroup, Found
<1>3. CASE bulk' = BulkIdle
  BY <1>1, <1>2, <1>3
<1>4. ASSUME DOMAIN bulk'.found \subseteq Found,
             \A i \in DOMAIN bulk'.found : bulk'.found[i] = bulk.found[i]
      PROVE  \A i \in DOMAIN bulk'.found \cap DOMAIN items' :
                 bulk'.found[i].target = items'[i].target
  BY <1>0, <1>4 DEF BulkGroup, Target
<1>5. CASE UNCHANGED bulk /\ ~BulkReview
  <2>1. CASE bulk.pc = "admit"
    <3>1. lock = "bulk" /\ pass.pc = "off"
      BY <2>1 DEF ReviewInv, LockInv
    <3>2. UNCHANGED <<alias, links, items>>
      BY <1>5, <3>1, OnlyHolder, PassLocks
    <3>3. /\ Proven' = Proven /\ Found' = Found
          /\ \A i : Target(i)' = Target(i) /\ AcceptedIn(Proven, Target(i))' =
                                                  AcceptedIn(Proven, Target(i))
      BY <1>5, <3>2 DEF Found, Target, AcceptedIn, Accepted, Proven
    <3> QED BY <1>5, <3>2, <3>3 DEF BulkGroup
  <2>2. CASE bulk.pc # "admit"
    BY <1>4, <1>5, <2>2 DEF BulkGroup, Found, Target
  <2> QED BY <2>1, <2>2
<1>6. CASE bulk'.found = bulk.found /\ bulk'.pc \notin Asking
  BY <1>4, <1>6 DEF BulkGroup, Found, Target
<1>7. CASE /\ bulk'.found = bulk.found /\ bulk'.ids = bulk.ids
           /\ bulk.pc \in Asking /\ bulk'.pc \in {"judge", "choose"}
  BY <1>4, <1>7 DEF BulkGroup, Found, Target
<1>8. ASSUME NEW pc, BulkStep(pc)
      PROVE  bulk'.pc = pc /\ bulk'.ids = bulk.ids /\ bulk'.found = bulk.found
  BY <1>1, <1>8 DEF BulkStep
<1>9. CASE StartBulk
  <2>1. bulk'.pc = "index" /\ bulk'.found = BulkIdle.found
    BY <1>1, <1>9 DEF StartBulk
  <2> QED BY <1>1, <1>2, <2>1
<1>10. CASE Retire \/ AdmitBatch \/ AcceptBatch \/ PassQueue \/ RecordLedger
  <2>1. \/ UNCHANGED bulk /\ ~BulkReview
        \/ bulk' = BulkIdle \/ \E pc \in {"reread", "accept", "mirror", "retire"} : BulkStep(pc)
    <3>1. CASE PassQueue
      <4>1. pass.pc = "queue"
        BY <3>1 DEF PassQueue, Passing
      <4>2. lock = "index" \/ bulk.pc = "index"
        BY <4>1 DEF ReviewInv, LockInv
      <4>3. CASE lock = "index"
        <5>1. UNCHANGED bulk /\ pass'.pc = "off"
          BY <3>1, <4>3 DEF PassQueue, PassOff
        <5>2. ~BulkReview
          <6>1. StartBulk => pass'.pc # "off"
            BY PassMoves
          <6> QED BY <4>1, <5>1, <6>1, BulkLocks
        <5> QED BY <5>1, <5>2
      <4> QED BY <3>1, <4>3 DEF PassQueue, BulkStep
    <3>2. CASE Retire \/ AdmitBatch \/ AcceptBatch \/ RecordLedger
      BY <3>2 DEF Retire, AdmitBatch, AcceptBatch, RecordLedger, Abandon
    <3> QED BY <1>10, <3>1, <3>2
  <2> QED BY <1>3, <1>5, <1>6, <1>8, <2>1
<1>11. CASE Reread \/ Preflight \/ PrepareAll
  <2>1. CASE \E ids : bulk' = [bulk EXCEPT !.pc = "preflight", !.ids = ids]
    BY <1>1, <1>6, <2>1
  <2>2. CASE \E base : bulk' = [bulk EXCEPT !.pc = "prepare", !.base = base]
    BY <1>1, <1>6, <2>2
  <2>3. CASE \E d : bulk' = [bulk EXCEPT !.pc = "ask", !.docs = d]
    BY <1>1, <1>6, <2>3
  <2> QED BY <1>3, <1>11, <2>1, <2>2, <2>3 DEF Reread, Preflight, PrepareAll, Abandon
<1>12. CASE AskAll
  <2>1. CASE \E answers \in [Asked -> UNION {Answers(Target(i)) : i \in Asked}] :
                 /\ \A i \in Asked : answers[i] \in Answers(Target(i))
                 /\ bulk' = [bulk EXCEPT !.pc = "relock", !.found = answers]
    <3>1. PICK answers \in [Asked -> UNION {Answers(Target(i)) : i \in Asked}] :
                 /\ \A i \in Asked : answers[i] \in Answers(Target(i))
                 /\ bulk' = [bulk EXCEPT !.pc = "relock", !.found = answers]
      BY <2>1
    <3>2. bulk'.pc = "relock" /\ bulk'.found = answers /\ bulk'.ids = bulk.ids
      BY <1>1, <3>1
    <3>3. \A i \in Asked : answers[i].target = Target(i)
      BY <3>1, Answered
    <3>4. UNCHANGED items /\ Asked \subseteq bulk.ids /\ DOMAIN answers = Asked
      BY <1>12 DEF AskAll, Asked
    <3> QED BY <3>2, <3>3, <3>4 DEF BulkGroup, Found, Target
  <2> QED BY <1>3, <1>12, <2>1 DEF AskAll, Abandon
<1>13. CASE Relock
  <2>1. Abandon \/ BulkStep("judge")
    BY <1>13 DEF Relock
  <2>2. bulk.pc = "relock"
    BY <1>13 DEF Relock, BulkPc
  <2> QED BY <1>3, <1>7, <1>8, <2>1, <2>2 DEF Abandon
<1>14. CASE Judge
  <2> DEFINE bad == {i \in Found : ~Admissible(bulk.found[i], EqualTo(bulk.found[i].target))}
             left == bulk.ids \ bad
             kept == [i \in Found \ bad |-> bulk.found[i]]
  <2>0. bulk.pc = "judge"
    BY <1>14 DEF Judge, BulkPc
  <2>1. Abandon \/ BulkStep("choose") \/ bulk' = [bulk EXCEPT !.ids = left, !.found = kept]
    BY <1>14 DEF Judge
  <2> HIDE DEF bad
  <2>2. CASE bulk' = [bulk EXCEPT !.ids = left, !.found = kept]
    <3>1. bulk'.pc = "judge" /\ bulk'.ids = left /\ bulk'.found = kept
      BY <1>1, <2>0, <2>2
    <3>2. DOMAIN kept \subseteq left /\ DOMAIN kept \subseteq Found
          /\ \A i \in DOMAIN kept : kept[i] = bulk.found[i]
      BY <2>0 DEF BulkGroup
    <3> HIDE DEF kept, left
    <3> QED BY <1>4, <3>1, <3>2 DEF BulkGroup, Found, Target
  <2> QED BY <1>3, <1>7, <1>8, <2>0, <2>1, <2>2 DEF Abandon
<1>15. CASE Choose
  <2> DEFINE left == bulk.ids \ Redundant(bulk.ids \cap Pending, Proven)
             pc == IF Found \cap left = {} THEN "accept" ELSE "admit"
             kept == [i \in Found \cap left |-> bulk.found[i]]
  <2>1. CASE /\ Registers(left) /\ left \subseteq Pending
             /\ bulk' = [bulk EXCEPT !.pc = pc, !.ids = left, !.found = kept]
    <3>1. DOMAIN kept \subseteq left /\ DOMAIN kept \subseteq Found
          /\ \A i \in DOMAIN kept : kept[i] = bulk.found[i]
      OBVIOUS
    <3>2. pc \in {"accept", "admit"}
      OBVIOUS
    <3> HIDE DEF left, pc, kept
    <3>3. bulk'.pc = pc /\ bulk'.ids = left /\ bulk'.found = kept /\ bulk'.base = bulk.base
      BY <1>1, <2>1
    <3>4. UNCHANGED <<alias, links>>
      BY <1>15 DEF Choose
    <3>5. Proven' \subseteq Proven
      BY <3>1, <3>3, <3>4 DEF Proven, Found
    <3>6. ASSUME NEW i \in left, NEW s \in Reach(Proven', Target(i)), Accepted(s)
          PROVE  alias[s].name = items[i].alias
      <4>1. s \in Reach(Proven, Target(i))
        BY <3>5, ReachesMore
      <4> QED BY <2>1, <3>6, <4>1 DEF Registers, AcceptedIn
    <3>7. left \subseteq DOMAIN items'
      BY <2>1, ItemStep
    <3>8. \A i \in bulk'.ids : \A s \in AcceptedIn(Proven, Target(i))' :
              alias'[s].name = items'[i].alias
      BY <1>0, <3>3, <3>4, <3>6, <3>7 DEF AcceptedIn, Target, Accepted
    <3>9. \A i \in DOMAIN bulk'.found \cap DOMAIN items' :
              bulk'.found[i].target = items'[i].target
      BY <1>4, <3>1, <3>3
    <3> QED BY <3>1, <3>2, <3>3, <3>8, <3>9 DEF BulkGroup, Found, Target
  <2>2. \/ Abandon
        \/ /\ Registers(left) /\ left \subseteq Pending
           /\ bulk' = [bulk EXCEPT !.pc = pc, !.ids = left, !.found = kept]
    BY <1>15 DEF Choose
  <2> QED BY <1>3, <2>1, <2>2 DEF Abandon
<1>16. CASE MirrorBatch
  <2>1. bulk'.pc = "record" /\ bulk'.found = bulk.found
    BY <1>1, <1>16 DEF MirrorBatch
  <2> QED BY <1>6, <2>1
<1>17. CASE RecordItem
  <2>1. BulkStep("ledger") \/ \E todo : bulk' = [bulk EXCEPT !.todo = todo]
    BY <1>17 DEF RecordItem
  <2>2. bulk.pc = "record"
    BY <1>17 DEF RecordItem, BulkPc
  <2>3. CASE \E todo : bulk' = [bulk EXCEPT !.todo = todo]
    <3>1. bulk'.pc = "record" /\ bulk'.found = bulk.found
      BY <1>1, <2>2, <2>3
    <3> QED BY <1>6, <3>1
  <2> QED BY <1>6, <1>8, <2>1, <2>3
<1>18. CASE Die("bulk")
  BY <1>3, <1>5, <1>18 DEF Die
<1> QED BY <1>5, <1>9, <1>10, <1>11, <1>12, <1>13, <1>14, <1>15, <1>16, <1>17, <1>18, Holders
        DEF BulkReview

\* No step but an admission for a stale alias joins groups with two aliases.
LEMMA GroupsStep ==
  ASSUME ReviewInv, GroupInv, LinkedAliasesAgree, [Next]_vars, pass'.pc # "restore"
  PROVE  LinkedAliasesAgree'
<1>0. TypeOK /\ OrphanAliases = {}
  BY DEF ReviewInv, StaleInv
<1>1. ASSUME links' \subseteq links, UNCHANGED alias PROVE LinkedAliasesAgree'
  BY <1>0, <1>1, FewerLinks DEF Accepted
<1>2. CASE PassReplace
  <2>1. CASE UNCHANGED alias /\ UNCHANGED links
    BY <1>1, <2>1
  <2>2. CASE Reapply(disk)
    <3>1. \A s \in Symbols : Accepted(s)' => Accepted(s) /\ alias'[s].name = alias[s].name
      BY <1>0, <2>2, Reapplied DEF Accepted, Unnamed
    <3> QED BY <1>0, <2>2, <3>1, Reapplied, FewerLinks
  <2> QED BY <1>2, <2>1, <2>2 DEF PassReplace
<1>3. CASE (RefreshRestores \/ Accept \/ AcceptBatch) /\ Accepts
  <2>1. UNCHANGED links
    BY <1>3 DEF RefreshRestores, Accept, AcceptBatch
  <2> QED BY <1>0, <1>3, <2>1, AcceptingLinked
<1>4. ASSUME NEW symbols, RemoveComponents(symbols), Forsake(symbols) PROVE LinkedAliasesAgree'
  <2>1. links' \subseteq links
    BY <1>4 DEF RemoveComponents
  <2>2. \A s \in Symbols : Accepted(s)' => Accepted(s) /\ alias'[s].name = alias[s].name
    BY <1>0, <1>4, Forsaking DEF Accepted, Unnamed
  <2> QED BY <1>0, <2>1, <2>2, FewerLinks
<1>5. CASE PassQuarantine \/ PassLegacy
  BY <1>4, <1>5 DEF PassQuarantine, PassLegacy
<1>6. CASE PassConverge
  BY <1>0, <1>6, ConvergingLinked
<1>7. CASE UNCHANGED alias
  <2>1. CASE RefreshAdmits
    BY <2>1, PassMoves
  <2>2. CASE UNCHANGED graph
    BY <1>1, <1>7, <2>2
  <2> QED BY <1>2, <1>5, <1>6, <2>1, <2>2, AdmittingLinked, BatchLinked, Writers
<1> QED BY <1>2, <1>3, <1>5, <1>6, <1>7, AliasWriters

(***************************************************************************)
(* The theorems                                                            *)
(***************************************************************************)
\* A first start has its invariant.
LEMMA InitInv == Init => ReviewInv
<1> SUFFICES ASSUME Init PROVE ReviewInv
  OBVIOUS
<1>0. /\ \A f \in Files : docs[f] = 1 /\ disk[f] = 1
      /\ docs \in [Files -> Versions] /\ disk \in [Files -> Versions]
  BY ReviewAssumption DEF Init
<1>1. /\ alias \in [Symbols -> [name : Nat, status : {"none", "accepted"}]]
      /\ \A s \in Symbols : IF alias[s].status = "none" THEN alias[s].name = None
             ELSE alias[s].name # None /\ s \in Declares[FileOf[s]][1]
      /\ shown = [s \in Symbols |-> alias[s].name]
  BY ReviewAssumption DEF Init
<1>2. /\ DOMAIN items \subseteq Nat
      /\ items \in [DOMAIN items -> [target : Symbols, alias : Nat \ {None}, status : {"pending"}]]
  BY ReviewAssumption DEF Init
<1>3. \A s \in Symbols : s \in Declares[FileOf[s]][1] => s \in Present(docs)
  BY <1>0, Constants
<1>4. TypeOK
  <2>1. alias \in [Symbols -> Rows] /\ shown \in [Symbols -> Nat]
    BY <1>1 DEF Rows
  <2>2. \A s \in Symbols : alias[s].status = "none" <=> alias[s].name = None
    BY <1>1
  <2>3. items \in [DOMAIN items -> Items]
    BY <1>2 DEF Items, Statuses
  <2>4. ledger \in [Symbols -> [verdict : {"none", "approved", "rejected"}, name : Nat]]
    BY DEF Init
  <2> QED BY <1>0, <1>2, <2>1, <2>2, <2>3, <2>4 DEF TypeOK, Init
<1>5. /\ single.pc = "idle" /\ bulk.pc = "idle" /\ pass.pc = "off" /\ lock = "free"
      /\ single.found = <<>> /\ bulk.found = <<>> /\ pass.todo = {} /\ migrated = FALSE
      /\ DOMAIN single = DOMAIN SingleIdle /\ DOMAIN bulk = DOMAIN BulkIdle
      /\ DOMAIN pass = DOMAIN PassOff
  BY DEF Init, SingleIdle, BulkIdle, PassOff
<1>6. ProcsInv /\ LockInv /\ SingleInv /\ BulkInv
  BY <1>5 DEF ProcsInv, LockInv, SingleInv, BulkInv, HasClosure
<1>7. StaleInv
  BY <1>1, <1>3 DEF StaleInv, Stale, OrphanAliases
<1>8. LedgerInv
  BY DEF LedgerInv, Init
<1>9. MirrorInv
  <2>1. \A s \in Symbols : shown[s] = Wanted(s)
    BY <1>1, <1>3 DEF Wanted, Accepted
  <2>2. Unshown = {}
    BY <2>1 DEF Unshown, ShowsTheStore
  <2> QED BY <1>0, <2>2 DEF MirrorInv
<1> QED BY <1>4, <1>5, <1>6, <1>7, <1>8, <1>9 DEF ReviewInv, AliasesAreInjective

\* The invariant of the review: who holds the lock, what it has done, and what of
\* it is still to be restored, forgotten or shown.
THEOREM ReviewInvariant == Spec => []ReviewInv
<1>1. ReviewInv /\ [Next]_vars => ReviewInv'
  BY TypeStep, ProcsStep, LockStep, SingleStep, SelectionStep, StaleStep, LedgerStep, MirrorStep,
     InjectiveStep DEF ReviewInv
<1> QED BY <1>1, InitInv, PTL DEF Spec

\* No death, language server or reviewer in between lets an alias stand for two
\* originals once the old store has been repaired.
THEOREM AliasesAlwaysInjective == Spec => []AliasesAreInjective
<1>1. ReviewInv => AliasesAreInjective
  BY DEF ReviewInv
<1> QED BY <1>1, ReviewInvariant, PTL

\* No alias is left stale or without its symbol when nobody holds the lock.
THEOREM StaleAlwaysSettled == Spec => []StaleAliasesAreSettled
<1>1. ReviewInv => StaleAliasesAreSettled
  BY DEF ReviewInv, StaleInv, LockInv, StaleAliasesAreSettled, Settled
<1> QED BY <1>1, ReviewInvariant, PTL

\* The mirror shows the aliases of the store when nobody holds the lock.
THEOREM MirrorAlwaysShows == Spec => []MirrorShowsTheStore
<1>1. ReviewInv => MirrorShowsTheStore
  <2> SUFFICES ASSUME ReviewInv, Settled PROVE Unshown = {}
    BY DEF MirrorShowsTheStore, Unshown
  <2>1. Due = {} /\ pass.pc = "off"
    BY WhatIsDue DEF ReviewInv, Settled
  <2> QED BY <2>1 DEF ReviewInv, MirrorInv, Settled, Refreshing
<1> QED BY <1>1, ReviewInvariant, PTL

\* What the ledger calls approved has its alias in force.
THEOREM DecisionsAlwaysInForce == Spec => []DecisionsAreInForce
<1>1. ReviewInv => DecisionsAreInForce
  <2> SUFFICES ASSUME ReviewInv, Settled PROVE Stale = {} /\ pass.pc = "off"
    BY DEF DecisionsAreInForce, ReviewInv, LedgerInv
  <2> QED BY DEF ReviewInv, StaleInv, LockInv, Settled
<1> QED BY <1>1, ReviewInvariant, PTL

\* A verdict is never taken back or given again, by any interleaving of a reviewer,
\* a bulk approval and a pass, and an approval is written only to an item whose
\* alias is in force.
THEOREM VerdictsAlwaysStand == Spec => VerdictsStand
<1>1. ReviewInv /\ [Next]_vars =>
          [\A i \in DOMAIN items' : items[i].status # "pending" =>
               items'[i].status = items[i].status]_vars
  BY VerdictStep
<1>2. ReviewInv /\ [Next]_vars =>
          [\A i \in DOMAIN items' :
               items'[i].status = "approved" /\ items[i].status # "approved" =>
                   Accepted(Target(i)) /\ alias[Target(i)].name = items[i].alias]_vars
  BY VerdictStep
<1> QED BY <1>1, <1>2, ReviewInvariant, PTL
        DEF Spec, VerdictsStand, DecisionsAreFinal, ApprovedIsInForce

\* A compiler group never comes to have two aliases, but by a closure a pass admits
\* to restore a stale one.
THEOREM GroupsAlwaysKeepOneAlias == Spec => GroupsKeepOneAlias
<1>1. Init => GroupInv
  <2>1. Init => single.pc = "idle" /\ single.found = <<>> /\ bulk.pc = "idle" /\ Found = {}
    BY DEF Init, SingleIdle, BulkIdle, Found
  <2> QED BY <2>1 DEF GroupInv, SingleGroup, BulkGroup, HasClosure
<1>2. ReviewInv /\ GroupInv /\ [Next]_vars => GroupInv'
  BY SingleGroupStep, BulkGroupStep DEF GroupInv
<1>3. ReviewInv /\ GroupInv /\ [Next]_vars =>
          [LinkedAliasesAgree /\ pass'.pc # "restore" => LinkedAliasesAgree']_vars
  BY GroupsStep
<1> QED BY <1>1, <1>2, <1>3, ReviewInvariant, PTL DEF Spec, GroupsKeepOneAlias
=============================================================================
