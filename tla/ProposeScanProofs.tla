------------------------- MODULE ProposeScanProofs -------------------------
(***************************************************************************)
(* Proofs about the proposal scan: whatever the provider answers and       *)
(* whatever reviewers do meanwhile, no target is asked about twice, no     *)
(* decision is asked again, no alias is queued for two unlike targets and  *)
(* no answer is lost.                                                      *)
(***************************************************************************)
EXTENDS ProposeScan, FiniteSetTheorems, TLAPS

Reading == pc \in {"queue", "ledger"}

\* The results taken so far in this phase.
Taken == CASE pc = "result" -> next + at - 2
           [] pc = "commit" -> next + at - 1
           [] OTHER         -> next - 1

TakenChunks == IF phase = "path" THEN 0 ELSE Taken
Left(f) == {i \in ChunksOf(f) : i > TakenChunks}
Complete == {f \in Files : remaining[f] = 0}

\* Where the scan is: a wave never reaches past the last request, and before
\* the first wave nothing has been asked.
WaveInv ==
    /\ next <= Len(Requests) + 1
    /\ pc \in {"ask", "result", "commit"} => next + Len(work) - 1 <= Len(Requests)
    /\ pc = "ask" => at = 1
    /\ pc = "result" => at <= Len(work) + 1
    /\ pc = "commit" => at <= Len(work)
    /\ pc = "failed" => phase = "chunk" /\ next > Len(Chunks) /\ successes = 0
    /\ pc = "idle" \/ Reading =>
           phase = "path" /\ next = 1 /\ gathered = [f \in Files |-> {}]
    /\ pc # "commit" => todo = {}

\* The books of the files: chunks left, proposals gathered, errors reported.
FilesInv ==
    /\ \A f \in Files : remaining[f] = Cardinality(Left(f))
    /\ \A f \in Complete : gathered[f] = {}
    /\ successes = 0 =>
           /\ \A i \in DOMAIN Chunks : i <= TakenChunks => Chunks[i].file \in failed
           /\ phase = "path" => pc # "commit" /\ errors = Taken
           /\ phase = "chunk" => errors + (IF pc = "commit" THEN 1 ELSE 0)
                                     = Len(Batches) + Cardinality(Complete)

\* What a scan knows of the queue covers what is pending.
QueueInv ==
    /\ pc \notin {"idle", "queue"} =>
           \A k \in PendingItems : items[k].target \in pending
    /\ proposed \cup decided \subseteq ledger \cup {items[k].target : k \in DOMAIN items}
    /\ OnePendingPerTarget

\* What was decided before the scan is withheld from it, and so from its queue.
Open(t) == snap[t] = None
SettledInv ==
    /\ Reading => settled \subseteq ledger \cup {t \in Targets : ~Open(t)}
    /\ pc # "idle" /\ ~Reading => settled \subseteq pending \cup {t \in Targets : ~Open(t)}
    /\ \A p \in todo : Open(p.t)
    /\ \A f \in Files : \A p \in gathered[f] : Open(p.t)
    /\ DecisionsAreKept

\* The owner a scan has on record for an alias.
Owns(t, a) == reserved[a] # None /\ Alike(reserved[a], t)
AliasInv ==
    /\ \A s, t \in Symbols : accepted[s] = accepted[t] /\ accepted[s] # None => Alike(s, t)
    /\ pc # "idle" => \A s \in Symbols :
           accepted[s] \notin raced \cup {None} => Owns(s, accepted[s])
    /\ pc = "queue" => \A k \in PendingItems :
           LET a == items[k].alias IN
           a \notin raced /\ reserved[a] # None => Owns(items[k].target, a)
    /\ pc \notin {"idle", "queue"} => \A k \in PendingItems :
           items[k].alias \notin raced => Owns(items[k].target, items[k].alias)
    /\ AliasesStayDistinct

ScanInv == TypeOK /\ WaveInv /\ FilesInv /\ QueueInv /\ SettledInv /\ AliasInv

USE DEF None, store, keys, wave, files, tally, Scan

(***************************************************************************)
(* Facts about the constants and the operators                             *)
(***************************************************************************)
\* Any nonempty set of naturals has a least element: the intervals 1..n of its
\* members are finite sets, which strict inclusion orders without end.
LEMMA LeastNatural ==
  ASSUME NEW S \in SUBSET Nat, S # {}
  PROVE  \E x \in S : \A y \in S : x <= y
<1> DEFINE Below == {1..n : n \in S}
           R == StrictSubsetOrdering(Nat)
<1>1. Below \subseteq FiniteSubsetsOf(Nat)
  <2>1. \A n \in Nat : 1..n \subseteq Nat /\ IsFiniteSet(1..n)
    BY FS_Interval
  <2> QED BY <2>1 DEF FiniteSubsetsOf
<1>2. Below # {}
  OBVIOUS
<1>3. \E B \in Below : \A C \in Below : ~(<<C, B>> \in R)
  <2> HIDE DEF Below
  <2> QED BY <1>1, <1>2, FS_StrictSubsetOrderingWellFounded, WFMin
<1>4. PICK n \in S : \A m \in S : <<1..m, 1..n>> \notin R
  BY <1>3
<1>5. ASSUME NEW m \in S, m < n PROVE FALSE
  <2>1. 1..m \subseteq 1..n /\ n \in 1..n /\ n \notin 1..m
    BY <1>5
  <2>2. 1..m \subseteq Nat /\ 1..n \subseteq Nat
    OBVIOUS
  <2>3. <<1..m, 1..n>> \in R
    BY <2>1, <2>2 DEF StrictSubsetOrdering
  <2> QED BY <1>4, <2>3
<1> QED BY <1>5

\* Min of the library, on any nonempty set of naturals.
LEMMA MinIsLeast ==
  ASSUME NEW S \in SUBSET Nat, S # {}
  PROVE  Min(S) \in S /\ \A y \in S : Min(S) <= y
BY LeastNatural DEF Min

\* Targets and aliases are numbers, the chunks a sequence of sets of symbols.
LEMMA ConstantTypes ==
  /\ Symbols \subseteq Targets /\ Paths \subseteq Targets /\ Targets \subseteq Nat \ {0}
  /\ Aliases \subseteq Nat \ {0} /\ Jobs \in Nat \ {0} /\ Attempts \in Nat \ {0}
  /\ Len(Batches) \in Nat /\ DOMAIN Batches = 1..Len(Batches)
  /\ \A i \in 1..Len(Batches) : Batches[i] \subseteq Targets
  /\ Len(Chunks) \in Nat /\ DOMAIN Chunks = 1..Len(Chunks)
  /\ \A i \in 1..Len(Chunks) : Chunks[i].file \in Files /\ Chunks[i].seen \subseteq Targets
  /\ \A ans \in Answers : \A p \in ans : p.a \in Aliases
<1>1. Batches \in Seq(SUBSET Paths) /\ Chunks \in Seq(Range(Chunks))
  BY ScanAssumption
<1>2. Paths \subseteq Targets /\ Symbols \subseteq Targets
  BY DEF Targets
<1>3. /\ Len(Batches) \in Nat /\ DOMAIN Batches = 1..Len(Batches)
      /\ \A i \in 1..Len(Batches) : Batches[i] \subseteq Targets
  BY <1>1, <1>2
<1>4. Len(Chunks) \in Nat /\ DOMAIN Chunks = 1..Len(Chunks)
  BY <1>1
<1> QED BY <1>2, <1>3, <1>4, ScanAssumption DEF Files

\* Every file has a chunk, and finitely many.
LEMMA FilesAreFinite ==
  /\ IsFiniteSet(Files)
  /\ \A f \in Files : IsFiniteSet(ChunksOf(f)) /\ Cardinality(ChunksOf(f)) \in Nat \ {0}
<1>1. IsFiniteSet(DOMAIN Chunks)
  BY ConstantTypes, FS_Interval
<1>2. IsFiniteSet(Files)
  <2> DEFINE file == [i \in DOMAIN Chunks |-> Chunks[i].file]
  <2>1. file \in Surjection(DOMAIN Chunks, Files)
    BY DEF Surjection, Files
  <2> QED BY <1>1, <2>1, FS_Surjection
<1>3. ASSUME NEW f \in Files
      PROVE  IsFiniteSet(ChunksOf(f)) /\ Cardinality(ChunksOf(f)) \in Nat \ {0}
  <2>1. ChunksOf(f) \subseteq DOMAIN Chunks /\ ChunksOf(f) # {}
    BY DEF ChunksOf, Files
  <2>2. IsFiniteSet(ChunksOf(f))
    BY <1>1, <2>1, FS_Subset
  <2> QED BY <2>1, <2>2, FS_CardinalityType, FS_EmptySet
<1> QED BY <1>2, <1>3

\* A wave has at least one request and stays inside the list.
LEMMA WaveSizeFits ==
  ASSUME next \in Nat \ {0}, next <= Len(Requests)
  PROVE  WaveSize \in Nat \ {0} /\ WaveSize <= Jobs /\ next + WaveSize - 1 <= Len(Requests)
<1>1. Len(Requests) \in Nat
  BY ConstantTypes DEF Requests
<1> DEFINE S == {Jobs, Len(Requests) - next + 1}
<1>2. S \in SUBSET (Nat \ {0}) /\ S # {}
  BY <1>1, ConstantTypes
<1>3. Min(S) \in S /\ \A y \in S : Min(S) <= y
  BY <1>2, MinIsLeast
<1>4. Min(S) \in Nat \ {0} /\ Min(S) <= Jobs /\ Min(S) <= Len(Requests) - next + 1
  BY <1>2, <1>3
<1> QED BY <1>1, <1>4 DEF WaveSize


(***************************************************************************)
(* The type invariant                                                      *)
(***************************************************************************)
\* What the types say of a queued item and of a proposal.
LEMMA ItemTypes ==
  ASSUME TypeOK
  PROVE  /\ Len(items) \in Nat /\ DOMAIN items = 1..Len(items)
         /\ \A k \in DOMAIN items : /\ items[k] \in Items
                                    /\ items[k].target \in Targets /\ items[k].alias \in Aliases
         /\ PendingItems \subseteq DOMAIN items
         /\ \A p \in Proposals : p.t \in Targets /\ p.a \in Aliases
<1>1. items \in Seq(Items)
  BY DEF TypeOK, StoreTypes
<1>2. /\ Len(items) \in Nat /\ DOMAIN items = 1..Len(items)
      /\ \A k \in DOMAIN items : items[k] \in Items
  BY <1>1
<1>3. \A x \in Items : x.target \in Targets /\ x.alias \in Aliases
  BY DEF Items
<1>4. \A p \in Proposals : p.t \in Targets /\ p.a \in Aliases
  BY ConstantTypes DEF Proposals
<1> QED BY <1>2, <1>3, <1>4 DEF PendingItems

\* What the types say of a wave.
LEMMA WaveTypes ==
  ASSUME TypeOK
  PROVE  /\ Len(work) \in Nat /\ DOMAIN work = 1..Len(work) /\ Len(work) <= Jobs
         /\ \A i \in DOMAIN work : work[i] \in Exchange /\ work[i].reply \in Answers \cup {{}}
<1>1. work \in Seq(Exchange)
  BY DEF TypeOK, WorkTypes
<1>2. Len(work) \in Nat /\ DOMAIN work = 1..Len(work) /\ \A i \in DOMAIN work : work[i] \in Exchange
  BY <1>1
<1>3. \A x \in Exchange : x.reply \in Answers \cup {{}}
  BY DEF Exchange
<1> QED BY <1>2, <1>3 DEF TypeOK, WorkTypes

\* What a scan may queue comes from what the requests offered.
LEMMA Offers ==
  ASSUME TypeOK
  PROVE  /\ \A b \in SUBSET Targets : \A t \in OfferedPaths(b) : t \in Targets /\ snap[t] = None
         /\ \A i \in DOMAIN Chunks : \A t \in OfferedSymbols(Chunks[i]) :
                t \in Targets /\ snap[t] = None
         /\ \A ps, offered : \A p \in Attached(ps, offered) : p \in ps /\ p.t \in offered
         /\ \A ps : Best(ps) \subseteq ps
BY ConstantTypes DEF OfferedPaths, OfferedSymbols, Attached, Best

\* The result being read is one that was sent, and its reply the provider's.
LEMMA BatchOffer ==
  ASSUME TypeOK, WaveInv, BatchResult, work[at].state = "answered"
  PROVE  todo' \subseteq Proposals /\ \A p \in todo' : snap[p.t] = None
<1> DEFINE b == Batches[next + at - 1]
<1>1. next + at - 1 \in 1..Len(Batches)
  BY ConstantTypes, WaveTypes DEF BatchResult, WaveInv, Requests, TypeOK, ScanTypes
<1>2. b \in SUBSET Targets
  BY <1>1, ConstantTypes
<1>3. work[at].reply \in Answers \cup {{}}
  BY WaveTypes DEF BatchResult
<1>4. todo' = Best(Attached(work[at].reply, OfferedPaths(b)))
  BY DEF BatchResult
<1> HIDE DEF b
<1>5. \A p \in todo' : p \in work[at].reply /\ p.t \in Targets /\ snap[p.t] = None
  BY <1>2, <1>4, Offers
<1> QED BY <1>3, <1>5 DEF Proposals

\* The valid proposals of a chunk; the chunk and its file.
ThisChunk == next + at - 1
ThisFile == Chunks[ThisChunk].file
Accepted == Attached(work[at].reply, OfferedSymbols(Chunks[ThisChunk]) \cap Chunks[ThisChunk].core)

\* The same for a chunk and what was gathered for its file.
LEMMA ChunkOffer ==
  ASSUME TypeOK, WaveInv, ChunkResult
  PROVE  /\ ThisChunk \in DOMAIN Chunks /\ ThisFile \in Files
         /\ Accepted \subseteq Proposals /\ \A p \in Accepted : snap[p.t] = None
         /\ Best(gathered[ThisFile] \cup Accepted) \subseteq gathered[ThisFile] \cup Accepted
<1>1. ThisChunk \in DOMAIN Chunks
  BY ConstantTypes, WaveTypes DEF ChunkResult, WaveInv, Requests, TypeOK, ScanTypes, ThisChunk
<1>2. ThisFile \in Files
  BY <1>1, ConstantTypes DEF ThisFile
<1>3. work[at].reply \in Answers \cup {{}}
  BY WaveTypes DEF ChunkResult
<1>4. \A p \in Accepted : p \in work[at].reply /\ p.t \in Targets /\ snap[p.t] = None
  BY <1>1, Offers DEF Accepted
<1> QED BY <1>1, <1>2, <1>3, <1>4, Offers DEF Proposals

\* The chunk being read is the first that is left.
LEMMA ChunkTaken ==
  ASSUME TypeOK, WaveInv, ChunkResult
  PROVE  /\ ThisChunk \in Nat \ {0} /\ TakenChunks = ThisChunk - 1
         /\ ThisChunk \in Left(ThisFile)
<1>1. next \in Nat \ {0} /\ at \in Nat \ {0}
  BY DEF TypeOK, ScanTypes
<1>2. pc = "result" /\ phase = "chunk"
  BY DEF ChunkResult
<1>3. ThisChunk \in Nat \ {0} /\ TakenChunks = ThisChunk - 1
  BY <1>1, <1>2 DEF TakenChunks, Taken, ThisChunk
<1>4. ThisChunk \in ChunksOf(ThisFile)
  BY ChunkOffer DEF ChunksOf, ThisFile
<1> QED BY <1>3, <1>4 DEF Left

\* The reservation of accepted aliases, by the first owner of each.
LEMMA FirstOwner ==
  ASSUME TypeOK, StartRun
  PROVE  /\ reserved' \in [Aliases -> Targets \cup {None}]
         /\ \A a \in Aliases : \A s \in Symbols :
                accepted[s] = a => reserved'[a] # None
         /\ \A a \in Aliases : reserved'[a] # None =>
                reserved'[a] \in Symbols /\ accepted[reserved'[a]] = a
<1> DEFINE Owners(a) == {s \in Symbols : accepted[s] = a}
<1>1. ASSUME NEW a \in Aliases, Owners(a) # {}
      PROVE  Min(Owners(a)) \in Owners(a)
  <2>1. Owners(a) \in SUBSET Nat
    BY ConstantTypes
  <2> HIDE DEF Owners
  <2> QED BY <1>1, <2>1, MinIsLeast
<1>2. reserved' = [a \in Aliases |-> IF Owners(a) = {} THEN None ELSE Min(Owners(a))]
  BY DEF StartRun
<1>3. \A a \in Aliases : \A s \in Owners(a) : s \in Symbols /\ s # None /\ s \in Targets
  BY ConstantTypes
<1>4. \A a \in Aliases : \A s \in Owners(a) : accepted[s] = a
  OBVIOUS
<1>5. \A a \in Aliases : \A s \in Symbols : accepted[s] = a => s \in Owners(a)
  OBVIOUS
<1> HIDE DEF Owners
<1> QED BY <1>1, <1>2, <1>3, <1>4, <1>5

\* The reservation of queued aliases, by the first item that asks for each.
LEMMA FirstItem ==
  ASSUME TypeOK, ReadQueue
  PROVE  /\ reserved' \in [Aliases -> Targets \cup {None}]
         /\ \A a \in Aliases : reserved[a] # None => reserved'[a] = reserved[a]
         /\ \A a \in Aliases : reserved[a] = None /\ reserved'[a] # None =>
                \E k \in PendingItems : items[k].alias = a /\ reserved'[a] = items[k].target
         /\ \A k \in PendingItems : reserved'[items[k].alias] # None
<1> DEFINE Queued(a) == {k \in PendingItems : items[k].alias = a}
<1>1. ASSUME NEW a \in Aliases, Queued(a) # {}
      PROVE  Min(Queued(a)) \in Queued(a)
  <2>1. Queued(a) \in SUBSET Nat
    BY ItemTypes
  <2> HIDE DEF Queued
  <2> QED BY <1>1, <2>1, MinIsLeast
<1>2. reserved' = [a \in Aliases |-> IF reserved[a] # None \/ Queued(a) = {} THEN reserved[a]
                                     ELSE items[Min(Queued(a))].target]
  BY DEF ReadQueue
<1>3. \A k \in PendingItems : /\ items[k].target \in Targets /\ items[k].target # None
                              /\ items[k].alias \in Aliases
  BY ItemTypes, ConstantTypes
<1>4. \A a \in Aliases : reserved[a] \in Targets \cup {None}
  BY DEF TypeOK, ScanTypes
<1>5. \A a \in Aliases : \A k \in Queued(a) : k \in PendingItems /\ items[k].alias = a
  OBVIOUS
<1>6. \A k \in PendingItems : k \in Queued(items[k].alias)
  OBVIOUS
<1> HIDE DEF Queued
<1> QED BY <1>1, <1>2, <1>3, <1>4, <1>5, <1>6

\* A scan that has not begun, or has returned, holds nothing.
LEMMA ReturnTypes ==
  ASSUME Return
  PROVE  ScanTypes' /\ WorkTypes' /\ OfferTypes'
<1>1. <<>> \in Seq(Exchange) /\ Len(<<>>) <= Jobs
  BY ConstantTypes
<1>2. ScanTypes'
  BY ConstantTypes DEF Return, ScanTypes
<1>3. WorkTypes'
  BY <1>1 DEF Return, WorkTypes
<1>4. OfferTypes'
  BY FilesAreFinite DEF Return, OfferTypes
<1> QED BY <1>2, <1>3, <1>4

\* The queue, the ledger and the aliases keep their types.
LEMMA StoreTypesStep ==
  ASSUME TypeOK, [Next]_vars
  PROVE  StoreTypes'
<1> USE DEF TypeOK, StoreTypes
<1>1. ASSUME NEW p \in Proposals, AddItem(p)
      PROVE  items' \in Seq(Items) /\ DOMAIN items \subseteq DOMAIN items'
                /\ fresh' \subseteq DOMAIN items'
  <2>1. [target |-> p.t, alias |-> p.a, status |-> "pending"] \in Items
    BY ItemTypes DEF Items
  <2>2. /\ items' \in Seq(Items) /\ Len(items') = Len(items) + 1
        /\ DOMAIN items' = 1..Len(items')
    BY <1>1, <2>1 DEF AddItem
  <2> QED BY <1>1, <2>2, ItemTypes DEF AddItem
<1>2. \A p \in todo : p \in Proposals
  BY DEF OfferTypes
<1>3. CASE Enqueue
  BY <1>1, <1>2, <1>3 DEF Enqueue
<1>4. CASE EnqueueFails
  BY <1>1, <1>2, <1>4 DEF EnqueueFails
<1>5. ASSUME NEW k \in DOMAIN items, Resolve(k)
      PROVE  StoreTypes'
  <2>1. /\ items' \in Seq(Items) /\ DOMAIN items' = DOMAIN items
    <3>1. \A v \in {"approved", "rejected"} : [items[k] EXCEPT !.status = v] \in Items
      BY ItemTypes DEF Items
    <3> QED BY <1>5, <3>1 DEF Resolve
  <2>2. accepted' \in [Targets -> Aliases \cup {None}]
    BY <1>5, ItemTypes DEF Resolve
  <2> QED BY <1>5, <2>1, <2>2 DEF Resolve
<1>6. ASSUME NEW k \in DOMAIN items, RecordDecision(k) \/ LoseDecision(k)
      PROVE  StoreTypes'
  BY <1>6, ItemTypes DEF RecordDecision, LoseDecision
<1>7. CASE StartRun
  BY <1>7 DEF StartRun
<1>8. CASE ReadQueue \/ ReadLedger \/ Launch \/ NextPhase \/ Collect \/ BatchResult \/ ChunkResult
  BY <1>8 DEF ReadQueue, ReadLedger, Launch, NextPhase, Collect, BatchResult, ChunkResult
<1>9. CASE Drop \/ Committed \/ WaveDone \/ Finish \/ Bail \/ Crash
  BY <1>9 DEF Drop, Committed, WaveDone, Finish, Bail, Crash
<1>10. CASE Rest \/ UNCHANGED vars
  BY <1>10 DEF Rest, vars
<1>11. ASSUME NEW i \in DOMAIN work, WorkerStep(i) PROVE StoreTypes'
  BY <1>11 DEF WorkerStep, Reply, TransientFailure, PermanentFailure, MalformedReply, Worker
<1> QED BY <1>3, <1>4, <1>5, <1>6, <1>7, <1>8, <1>9, <1>10, <1>11 DEF Next, ScanStep, Coordinator

\* The coordinator's own variables keep their types.
LEMMA ScanTypesStep ==
  ASSUME TypeOK, [Next]_vars
  PROVE  ScanTypes'
<1> USE DEF TypeOK, ScanTypes
<1>1. CASE StartRun
  BY <1>1, FirstOwner DEF StartRun, StoreTypes
<1>2. CASE ReadQueue
  <2>1. pending' \subseteq Targets
    BY <1>2, ItemTypes DEF ReadQueue
  <2> QED BY <1>2, <2>1, FirstItem DEF ReadQueue
<1>3. CASE ReadLedger
  BY <1>3 DEF ReadLedger, StoreTypes
<1>4. CASE Launch \/ NextPhase \/ Collect \/ Drop
  BY <1>4 DEF Launch, NextPhase, Collect, Drop
<1>5. CASE BatchResult \/ ChunkResult
  BY <1>5 DEF BatchResult, ChunkResult
<1>6. CASE Enqueue
  <2>1. PICK p \in todo : /\ pending' = pending \cup {p.t}
                          /\ reserved' = [reserved EXCEPT ![p.a] = IF @ = None THEN p.t ELSE @]
    BY <1>6 DEF Enqueue
  <2>2. p.t \in Targets /\ p.a \in Aliases
    BY ItemTypes DEF OfferTypes
  <2> QED BY <1>6, <2>1, <2>2 DEF Enqueue
<1>7. CASE EnqueueFails \/ Bail \/ Crash
  BY <1>7, ReturnTypes DEF EnqueueFails, Bail, Crash
<1>8. CASE Committed
  BY <1>8 DEF Committed
<1>9. CASE WaveDone
  BY <1>9, WaveTypes DEF WaveDone
<1>10. CASE Finish
  BY <1>10, ReturnTypes DEF Finish
<1>11. ASSUME NEW i \in DOMAIN work, WorkerStep(i) PROVE ScanTypes'
  BY <1>11 DEF WorkerStep, Reply, TransientFailure, PermanentFailure, MalformedReply, Worker
<1>12. ASSUME NEW k \in DOMAIN items, Resolve(k) \/ RecordDecision(k) \/ LoseDecision(k)
       PROVE  ScanTypes'
  BY <1>12 DEF Resolve, RecordDecision, LoseDecision
<1>13. CASE UNCHANGED vars \/ Rest
  BY <1>13 DEF vars, Rest
<1> QED BY <1>1, <1>2, <1>3, <1>4, <1>5, <1>6, <1>7, <1>8, <1>9, <1>10, <1>11, <1>12, <1>13
        DEF Next, ScanStep, Coordinator

\* What a worker leaves is an exchange.
LEMMA WorkerTypes ==
  ASSUME TypeOK, NEW i \in DOMAIN work, WorkerStep(i)
  PROVE  \E w \in Exchange : Worker(i, w)
<1>1. Idle \in Exchange /\ GaveUp \in Exchange
  BY DEF Idle, GaveUp, Exchange
<1>2. work[i] \in Exchange
  BY WaveTypes
<1>3. CASE Reply(i)
  <2>1. PICK ans \in Answers : Worker(i, [Idle EXCEPT !.state = "answered", !.reply = ans])
    BY <1>3 DEF Reply
  <2>2. [Idle EXCEPT !.state = "answered", !.reply = ans] \in Exchange
    BY <1>1 DEF Exchange
  <2> QED BY <2>1, <2>2
<1>4. CASE TransientFailure(i)
  <2>1. [work[i] EXCEPT !.tries = work[i].tries + 1] \in Exchange
    BY <1>2 DEF Exchange
  <2> QED BY <1>1, <1>4, <2>1 DEF TransientFailure
<1>5. CASE PermanentFailure(i)
  BY <1>1, <1>5 DEF PermanentFailure
<1>6. CASE MalformedReply(i)
  <2>1. [Idle EXCEPT !.again = TRUE] \in Exchange
    BY <1>1 DEF Exchange
  <2> QED BY <1>1, <1>6, <2>1 DEF MalformedReply
<1> QED BY <1>3, <1>4, <1>5, <1>6 DEF WorkerStep

\* A wave keeps its type, and a worker changes neither its length nor anything
\* outside the wave.
LEMMA WorkTypesStep ==
  ASSUME TypeOK, WaveInv, [Next]_vars
  PROVE  WorkTypes'
<1> USE DEF TypeOK, WorkTypes
<1>1. CASE Launch
  <2>1. WaveSize \in Nat \ {0} /\ WaveSize <= Jobs
    BY <1>1, WaveSizeFits DEF Launch, ScanTypes
  <2>2. Idle \in Exchange
    BY DEF Idle, Exchange
  <2>3. work' = [i \in 1..WaveSize |-> Idle]
    BY <1>1 DEF Launch
  <2>4. work' \in Seq(Exchange) /\ Len(work') = WaveSize
    BY <2>1, <2>2, <2>3
  <2> QED BY <2>1, <2>4
<1>2. CASE WaveDone
  BY <1>2, ConstantTypes DEF WaveDone
<1>3. ASSUME NEW i \in DOMAIN work, WorkerStep(i) PROVE WorkTypes'
  <2>1. PICK w \in Exchange : work' = [work EXCEPT ![i] = w]
    BY <1>3, WorkerTypes DEF Worker
  <2> QED BY <2>1
<1>4. CASE EnqueueFails \/ Bail \/ Crash
  BY <1>4, ReturnTypes DEF EnqueueFails, Bail, Crash
<1>5. CASE Finish
  BY <1>5, ReturnTypes DEF Finish
<1>6. CASE StartRun \/ ReadQueue \/ ReadLedger \/ NextPhase \/ Collect \/ BatchResult \/ ChunkResult
  BY <1>6 DEF StartRun, ReadQueue, ReadLedger, NextPhase, Collect, BatchResult, ChunkResult
<1>7. CASE Drop \/ Enqueue \/ Committed
  BY <1>7 DEF Drop, Enqueue, Committed
<1>8. ASSUME NEW k \in DOMAIN items, Resolve(k) \/ RecordDecision(k) \/ LoseDecision(k)
      PROVE  WorkTypes'
  BY <1>8 DEF Resolve, RecordDecision, LoseDecision
<1>9. CASE UNCHANGED vars \/ Rest
  BY <1>9 DEF vars, Rest
<1> QED BY <1>1, <1>2, <1>3, <1>4, <1>5, <1>6, <1>7, <1>8, <1>9 DEF Next, ScanStep, Coordinator

\* Proposals on their way to the queue, and the books of the files.
LEMMA OfferTypesStep ==
  ASSUME TypeOK, WaveInv, FilesInv, [Next]_vars
  PROVE  OfferTypes'
<1> USE DEF TypeOK, OfferTypes
<1>1. CASE BatchResult
  BY <1>1, BatchOffer DEF BatchResult
<1>2. CASE ChunkResult
  <2>1. /\ ThisFile \in Files
        /\ gathered[ThisFile] \cup Accepted \subseteq Proposals
        /\ Best(gathered[ThisFile] \cup Accepted) \subseteq Proposals
    BY <1>2, ChunkOffer
  <2>2. gathered' \in [Files -> SUBSET Proposals] /\ todo' \subseteq Proposals
    <3>1. /\ gathered' = [gathered EXCEPT ![ThisFile] = @ \cup Accepted]
             \/ gathered' = [gathered EXCEPT ![ThisFile] = {}]
          /\ todo' = todo \/ todo' = Best(gathered[ThisFile] \cup Accepted)
      BY <1>2 DEF ChunkResult, ThisFile, ThisChunk, Accepted
    <3> QED BY <2>1, <3>1
  <2>3. remaining' = [remaining EXCEPT ![ThisFile] = @ - 1]
    BY <1>2 DEF ChunkResult, ThisFile, ThisChunk
  <2>4. remaining[ThisFile] # 0
    <3>1. ThisChunk \in Left(ThisFile)
      BY <1>2, ChunkTaken
    <3>2. IsFiniteSet(Left(ThisFile))
      BY <2>1, FilesAreFinite, FS_Subset DEF Left
    <3> QED BY <2>1, <3>1, <3>2, FS_EmptySet DEF FilesInv
  <2>5. failed' \subseteq Files
    BY <1>2, <2>1 DEF ChunkResult, ThisFile, ThisChunk
  <2> QED BY <2>1, <2>2, <2>3, <2>4, <2>5
<1>3. CASE EnqueueFails \/ Bail \/ Crash
  BY <1>3, ReturnTypes DEF EnqueueFails, Bail, Crash
<1>4. CASE Finish
  BY <1>4, ReturnTypes DEF Finish
<1>5. CASE StartRun \/ ReadQueue \/ ReadLedger \/ NextPhase \/ Collect \/ Launch \/ WaveDone
  BY <1>5 DEF StartRun, ReadQueue, ReadLedger, NextPhase, Collect, Launch, WaveDone
<1>6. CASE Drop \/ Enqueue \/ Committed
  BY <1>6 DEF Drop, Enqueue, Committed
<1>7. ASSUME NEW i \in DOMAIN work, WorkerStep(i) PROVE OfferTypes'
  BY <1>7 DEF WorkerStep, Reply, TransientFailure, PermanentFailure, MalformedReply, Worker
<1>8. ASSUME NEW k \in DOMAIN items, Resolve(k) \/ RecordDecision(k) \/ LoseDecision(k)
      PROVE  OfferTypes'
  BY <1>8 DEF Resolve, RecordDecision, LoseDecision
<1>9. CASE UNCHANGED vars \/ Rest
  BY <1>9 DEF vars, Rest
<1> QED BY <1>1, <1>2, <1>3, <1>4, <1>5, <1>6, <1>7, <1>8, <1>9 DEF Next, ScanStep, Coordinator

\* Every step keeps the types.
LEMMA TypeStep ==
  ASSUME TypeOK, WaveInv, FilesInv, [Next]_vars
  PROVE  TypeOK'
BY StoreTypesStep, ScanTypesStep, WorkTypesStep, OfferTypesStep DEF TypeOK

(***************************************************************************)
(* The waves and the books of the files                                    *)
(***************************************************************************)
\* A scan that has returned is where it began.
LEMMA ReturnWave ==
  ASSUME Return
  PROVE  WaveInv' /\ FilesInv'
<1>1. /\ pc' = "idle" /\ phase' = "path" /\ next' = 1 /\ todo' = {} /\ successes' = 0
      /\ errors' = 0 /\ failed' = {} /\ at' = 1 /\ work' = <<>>
      /\ gathered' = [f \in Files |-> {}]
      /\ remaining' = [f \in Files |-> Cardinality(ChunksOf(f))]
  BY DEF Return
<1>2. WaveInv'
  BY <1>1, ConstantTypes DEF WaveInv, Requests, Reading
<1>3. ASSUME NEW f \in Files
      PROVE  Left(f)' = ChunksOf(f)
  BY <1>1, ConstantTypes DEF Left, ChunksOf, TakenChunks
<1>4. Taken' = 0 /\ TakenChunks' = 0
  BY <1>1 DEF Taken, TakenChunks
<1>5. FilesInv'
  BY <1>1, <1>3, <1>4, ConstantTypes DEF FilesInv, Complete
<1> QED BY <1>2, <1>5

\* Steps that take no result leave the books as they are.
LEMMA BooksStay ==
  ASSUME FilesInv, UNCHANGED <<phase, files, tally>>, Taken' = Taken,
         pc' = "commit" <=> pc = "commit"
  PROVE  FilesInv'
<1>1. TakenChunks' = TakenChunks
  BY DEF TakenChunks
<1>2. \A f \in Files : Left(f)' = Left(f)
  BY <1>1 DEF Left
<1>3. Complete' = Complete
  BY DEF Complete
<1> QED BY <1>1, <1>2, <1>3 DEF FilesInv

\* A wave stays inside the list of requests, and its result inside the wave.
LEMMA WaveStep ==
  ASSUME TypeOK, WaveInv, [Next]_vars
  PROVE  WaveInv'
<1> USE DEF WaveInv, Reading
<1>1. next \in Nat \ {0} /\ at \in Nat \ {0} /\ Len(Requests) \in Nat /\ phase \in {"path", "chunk"}
  BY ConstantTypes DEF TypeOK, ScanTypes, Requests
<1>2. phase' = phase => Requests' = Requests
  BY DEF Requests
<1>3. CASE StartRun \/ ReadQueue \/ ReadLedger
  BY <1>1, <1>2, <1>3 DEF StartRun, ReadQueue, ReadLedger
<1>4. CASE Launch
  <2>1. WaveSize \in Nat \ {0} /\ next + WaveSize - 1 <= Len(Requests)
    BY <1>1, <1>4, WaveSizeFits DEF Launch
  <2>2. Len(work') = WaveSize
    BY <1>4, <2>1 DEF Launch
  <2> QED BY <1>1, <1>2, <1>4, <2>1, <2>2 DEF Launch
<1>5. CASE NextPhase
  BY <1>5, ConstantTypes DEF NextPhase, Requests
<1>6. CASE Collect
  BY <1>1, <1>2, <1>6, WaveTypes DEF Collect
<1>7. CASE BatchResult
  BY <1>1, <1>2, <1>7, WaveTypes DEF BatchResult
<1>8. CASE ChunkResult
  BY <1>1, <1>2, <1>8, WaveTypes DEF ChunkResult
<1>9. CASE Drop \/ Enqueue
  BY <1>1, <1>2, <1>9 DEF Drop, Enqueue
<1>10. CASE EnqueueFails \/ Bail \/ Crash
  BY <1>10, ReturnWave DEF EnqueueFails, Bail, Crash
<1>11. CASE Committed
  BY <1>1, <1>2, <1>11, WaveTypes DEF Committed
<1>12. CASE WaveDone
  BY <1>1, <1>2, <1>12, WaveTypes DEF WaveDone
<1>13. CASE Finish
  BY <1>1, <1>2, <1>13, ReturnWave DEF Finish, EveryRequestFailed
<1>14. ASSUME NEW i \in DOMAIN work, WorkerStep(i) PROVE WaveInv'
  <2>1. PICK w \in Exchange : Worker(i, w)
    BY <1>14, WorkerTypes
  <2>2. Len(work') = Len(work)
    BY <2>1, WaveTypes DEF Worker, TypeOK, WorkTypes
  <2> QED BY <1>1, <1>2, <2>1, <2>2 DEF Worker
<1>15. ASSUME NEW k \in DOMAIN items, Resolve(k) \/ RecordDecision(k) \/ LoseDecision(k)
       PROVE  WaveInv'
  BY <1>2, <1>15 DEF Resolve, RecordDecision, LoseDecision
<1>16. CASE UNCHANGED vars \/ Rest
  BY <1>2, <1>16 DEF vars, Rest
<1> QED BY <1>3, <1>4, <1>5, <1>6, <1>7, <1>8, <1>9, <1>10, <1>11, <1>12, <1>13, <1>14, <1>15, <1>16
        DEF Next, ScanStep, Coordinator

\* One chunk less is left of the file it belongs to, the other files keep theirs.
LEMMA ChunkLeft ==
  ASSUME TypeOK, WaveInv, FilesInv, ChunkResult
  PROVE  /\ TakenChunks' = ThisChunk /\ Taken' = ThisChunk
         /\ \A f \in Files : remaining'[f] = Cardinality(Left(f)')
         /\ remaining[ThisFile] > 0
         /\ remaining' = [remaining EXCEPT ![ThisFile] = @ - 1]
<1>1. ThisChunk \in Nat \ {0} /\ TakenChunks = ThisChunk - 1 /\ ThisChunk \in Left(ThisFile)
  BY ChunkTaken
<1>2. /\ phase' = "chunk" /\ next' = next /\ phase = "chunk" /\ pc = "result"
      /\ remaining' = [remaining EXCEPT ![ThisFile] = @ - 1]
      /\ \/ pc' = "result" /\ at' = at + 1
         \/ pc' = "commit" /\ at' = at
  BY DEF ChunkResult, ThisFile, ThisChunk
<1>3. next \in Nat /\ at \in Nat
  BY DEF TypeOK, ScanTypes
<1>4. TakenChunks' = ThisChunk /\ Taken' = ThisChunk
  BY <1>2, <1>3 DEF TakenChunks, Taken, ThisChunk
<1>5. \A i \in DOMAIN Chunks : i \in Nat /\ (i > ThisChunk <=> i > TakenChunks /\ i # ThisChunk)
  BY <1>1, ConstantTypes
<1>6. IsFiniteSet(Left(ThisFile)) /\ ThisFile \in Files
  BY ChunkOffer, FilesAreFinite, FS_Subset DEF Left
<1>7. ASSUME NEW f \in Files PROVE remaining'[f] = Cardinality(Left(f)')
  <2>1. Left(f)' = Left(f) \ {ThisChunk}
    BY <1>4, <1>5 DEF Left, ChunksOf
  <2>2. CASE f = ThisFile
    <3>1. Cardinality(Left(f)') = Cardinality(Left(f)) - 1
      BY <1>1, <1>6, <2>1, <2>2, FS_RemoveElement
    <3> QED BY <1>2, <2>2, <3>1 DEF FilesInv, TypeOK, OfferTypes
  <2>3. CASE f # ThisFile
    <3>1. Left(f)' = Left(f)
      BY <2>1, <2>3 DEF Left, ChunksOf, ThisFile
    <3> QED BY <1>2, <1>6, <2>3, <3>1 DEF FilesInv, TypeOK, OfferTypes
  <2> QED BY <2>2, <2>3
<1>8. remaining[ThisFile] > 0
  BY <1>1, <1>6, FS_EmptySet, FS_CardinalityType DEF FilesInv
<1> QED BY <1>2, <1>4, <1>7, <1>8

\* A file is complete with its last chunk.
LEMMA FileCompleted ==
  ASSUME TypeOK, WaveInv, FilesInv, ChunkResult
  PROVE  /\ ThisFile \in Files \ Complete
         /\ Complete' = IF remaining[ThisFile] > 1 THEN Complete ELSE Complete \cup {ThisFile}
         /\ Cardinality(Complete) \in Nat
         /\ remaining[ThisFile] = 1 => Cardinality(Complete') = Cardinality(Complete) + 1
<1>1. ThisFile \in Files /\ remaining \in [Files -> Nat] /\ remaining[ThisFile] > 0
      /\ remaining' = [remaining EXCEPT ![ThisFile] = @ - 1]
  BY ChunkOffer, ChunkLeft DEF TypeOK, OfferTypes
<1>2. ThisFile \notin Complete
  BY <1>1 DEF Complete
<1>3. Complete' = IF remaining[ThisFile] > 1 THEN Complete ELSE Complete \cup {ThisFile}
  BY <1>1 DEF Complete
<1>4. IsFiniteSet(Complete)
  BY FilesAreFinite, FS_Subset DEF Complete
<1> QED BY <1>1, <1>2, <1>3, <1>4, FS_AddElement, FS_CardinalityType

\* The books follow every result.
LEMMA FilesStep ==
  ASSUME TypeOK, WaveInv, FilesInv, [Next]_vars
  PROVE  FilesInv'
<1>1. /\ next \in Nat \ {0} /\ at \in Nat \ {0} /\ phase \in {"path", "chunk"}
      /\ successes \in Nat /\ errors \in Nat /\ Len(Batches) \in Nat
  BY ConstantTypes DEF TypeOK, ScanTypes
<1>2. CASE StartRun \/ ReadQueue \/ ReadLedger \/ Launch \/ Collect
  <2>1. Taken' = Taken
    BY <1>1, <1>2 DEF StartRun, ReadQueue, ReadLedger, Launch, Collect, Taken, WaveInv, Reading
  <2> QED BY <1>2, <2>1, BooksStay DEF StartRun, ReadQueue, ReadLedger, Launch, Collect
<1>3. CASE Drop \/ Enqueue
  <2>1. Taken' = Taken
    BY <1>3 DEF Drop, Enqueue, Taken
  <2> QED BY <1>3, <2>1, BooksStay DEF Drop, Enqueue
<1>4. CASE WaveDone
  <2>1. Taken' = Taken
    BY <1>1, <1>4, WaveTypes DEF WaveDone, Taken, WaveInv
  <2> QED BY <1>4, <2>1, BooksStay DEF WaveDone
<1>5. CASE NextPhase
  <2>1. next = Len(Batches) + 1 /\ Taken = Len(Batches) /\ TakenChunks = 0 /\ TakenChunks' = 0
    BY <1>1, <1>5 DEF NextPhase, WaveInv, Requests, Taken, TakenChunks
  <2>2. \A f \in Files : Left(f)' = Left(f)
    BY <2>1 DEF Left
  <2>3. ASSUME NEW f \in Files PROVE remaining[f] # 0
    <3>1. \A i \in ChunksOf(f) : i > 0
      BY ConstantTypes DEF ChunksOf
    <3>2. Left(f) = ChunksOf(f)
      BY <2>1, <3>1 DEF Left
    <3> QED BY <3>2, FilesAreFinite DEF FilesInv
  <2>4. Complete = {} /\ Complete' = {} /\ Cardinality(Complete') = 0
    BY <1>5, <2>3, FS_EmptySet DEF Complete, NextPhase
  <2>5. \A i \in DOMAIN Chunks : ~(i <= TakenChunks')
    BY <2>1, ConstantTypes
  <2> QED BY <1>1, <1>5, <2>1, <2>2, <2>4, <2>5 DEF NextPhase, FilesInv
<1>6. CASE BatchResult
  <2>1. /\ TakenChunks = 0 /\ TakenChunks' = 0 /\ Complete' = Complete
        /\ \A f \in Files : Left(f)' = Left(f)
    BY <1>6 DEF BatchResult, TakenChunks, Complete, Left
  <2>2. Taken' = Taken + 1
    BY <1>1, <1>6 DEF BatchResult, Taken
  <2> QED BY <1>1, <1>6, <2>1, <2>2 DEF BatchResult, FilesInv
<1>7. CASE ChunkResult
  <2>1. /\ \A f \in Files : remaining'[f] = Cardinality(Left(f)')
        /\ TakenChunks' = ThisChunk
    BY <1>7, ChunkLeft
  <2>2. ASSUME NEW f \in Complete' PROVE gathered'[f] = {}
    <3>1. /\ ThisFile \in Files \ Complete /\ remaining[ThisFile] \in Nat
          /\ gathered \in [Files -> SUBSET Proposals]
      BY <1>7, FileCompleted DEF TypeOK, OfferTypes
    <3>2. CASE remaining[ThisFile] > 1
      <4>1. f \in Complete
        BY <1>7, <3>2, FileCompleted
      <4> QED BY <1>7, <3>1, <3>2, <4>1 DEF FilesInv, ChunkResult, ThisFile, ThisChunk, Complete
    <3>3. CASE ~(remaining[ThisFile] > 1)
      <4>1. f \in Complete \cup {ThisFile}
        BY <1>7, <3>3, FileCompleted
      <4>2. gathered' = [gathered EXCEPT ![ThisFile] = {}]
        BY <1>7, <3>3 DEF ChunkResult, ThisFile, ThisChunk
      <4> QED BY <3>1, <4>1, <4>2 DEF FilesInv, Complete
    <3> QED BY <3>2, <3>3
  <2>3. ASSUME successes' = 0
        PROVE  /\ \A i \in DOMAIN Chunks : i <= TakenChunks' => Chunks[i].file \in failed'
               /\ phase' = "chunk"
               /\ errors' + (IF pc' = "commit" THEN 1 ELSE 0)
                     = Len(Batches) + Cardinality(Complete')
    <3>1. successes = 0 /\ failed' = failed \cup {ThisFile}
      BY <1>1, <1>7, <2>3 DEF ChunkResult, ThisFile, ThisChunk
    <3>2. ThisChunk \in Nat \ {0} /\ TakenChunks = ThisChunk - 1
      BY <1>7, ChunkTaken
    <3>3. \A i \in DOMAIN Chunks : i <= TakenChunks' => i <= TakenChunks \/ i = ThisChunk
      BY <2>1, <3>2, ConstantTypes
    <3>4. \A i \in DOMAIN Chunks : i <= TakenChunks' => Chunks[i].file \in failed'
      BY <3>1, <3>3 DEF FilesInv, ThisFile
    <3>5. remaining[ThisFile] \in Nat \ {0}
      BY <1>7, ChunkLeft, ChunkOffer DEF TypeOK, OfferTypes
    <3>6. phase' = "chunk" /\ phase = "chunk" /\ pc = "result" /\ errors' = errors
      BY <1>7 DEF ChunkResult
    <3>7. errors = Len(Batches) + Cardinality(Complete)
      BY <1>1, <3>1, <3>6 DEF FilesInv
    <3>8. pc' = IF remaining[ThisFile] > 1 THEN "result" ELSE "commit"
      BY <1>7 DEF ChunkResult, ThisFile, ThisChunk
    <3>9. Cardinality(Complete) \in Nat
      BY <1>7, FileCompleted
    <3>10. CASE remaining[ThisFile] > 1
      BY <1>7, <3>4, <3>6, <3>7, <3>8, <3>9, <3>10, <1>1, FileCompleted
    <3>11. CASE remaining[ThisFile] = 1
      BY <1>7, <3>4, <3>6, <3>7, <3>8, <3>9, <3>11, <1>1, FileCompleted
    <3> QED BY <3>5, <3>10, <3>11
  <2> QED BY <2>1, <2>2, <2>3 DEF FilesInv
<1>8. CASE Committed
  <2>1. /\ Taken' = Taken /\ TakenChunks' = TakenChunks /\ Complete' = Complete
        /\ \A f \in Files : Left(f)' = Left(f)
    BY <1>1, <1>8 DEF Committed, Taken, TakenChunks, Complete, Left
  <2>2. CASE successes = 0
    <3>1. phase = "chunk"
      BY <1>1, <1>8, <2>2 DEF FilesInv, Committed
    <3>2. next + at - 1 \in DOMAIN Chunks /\ next + at - 1 <= TakenChunks
      <4>1. Requests = Chunks
        BY <3>1 DEF Requests
      <4>2. at <= Len(work) /\ next + Len(work) - 1 <= Len(Chunks) /\ Len(work) \in Nat
        BY <1>8, <4>1, WaveTypes DEF WaveInv, Committed
      <4>3. TakenChunks = next + at - 1
        BY <1>8, <3>1 DEF Committed, TakenChunks, Taken
      <4> QED BY <1>1, <4>2, <4>3, ConstantTypes
    <3>3. Chunks[next + at - 1].file \in failed
      BY <2>2, <3>2 DEF FilesInv
    <3> QED BY <1>1, <1>8, <2>1, <2>2, <3>1, <3>3 DEF Committed, FilesInv
  <2>3. CASE successes # 0
    BY <1>8, <2>1, <2>3 DEF Committed, FilesInv
  <2> QED BY <2>2, <2>3
<1>9. CASE EnqueueFails \/ Bail \/ Crash
  BY <1>9, ReturnWave DEF EnqueueFails, Bail, Crash
<1>10. CASE Finish
  <2>1. CASE Return
    BY <2>1, ReturnWave
  <2>2. CASE ~Return
    <3>1. Taken' = Taken /\ UNCHANGED <<phase, files, tally>> /\ pc = "launch" /\ pc' = "failed"
      BY <1>10, <2>2 DEF Finish, Taken
    <3> QED BY <3>1, BooksStay
  <2> QED BY <2>1, <2>2
<1>11. ASSUME NEW i \in DOMAIN work, WorkerStep(i) PROVE FilesInv'
  <2>1. PICK w \in Exchange : Worker(i, w)
    BY <1>11, WorkerTypes
  <2>2. Taken' = Taken
    BY <2>1 DEF Worker, Taken
  <2> QED BY <2>1, <2>2, BooksStay DEF Worker
<1>12. ASSUME NEW k \in DOMAIN items, Resolve(k) \/ RecordDecision(k) \/ LoseDecision(k)
       PROVE  FilesInv'
  <2>1. UNCHANGED <<pc, next, at, phase, files, tally>>
    BY <1>12 DEF Resolve, RecordDecision, LoseDecision
  <2> QED BY <2>1, BooksStay DEF Taken
<1>13. CASE UNCHANGED vars \/ Rest
  <2>1. UNCHANGED <<pc, next, at, phase, files, tally>>
    BY <1>13 DEF vars, Rest
  <2> QED BY <2>1, BooksStay DEF Taken
<1> QED BY <1>2, <1>3, <1>4, <1>5, <1>6, <1>7, <1>8, <1>9, <1>10, <1>11, <1>12, <1>13
        DEF Next, ScanStep, Coordinator

(***************************************************************************)
(* What a scan knows of the queue                                          *)
(***************************************************************************)
\* The steps of others and of the reviewers change no item's target, and only a
\* scan makes an item pending.
LEMMA ItemsStay ==
  ASSUME TypeOK, [Next]_vars, ~Enqueue, ~EnqueueFails
  PROVE  /\ DOMAIN items' = DOMAIN items /\ PendingItems' \subseteq PendingItems
         /\ \A k \in DOMAIN items : /\ items'[k].target = items[k].target
                                    /\ items'[k].alias = items[k].alias
<1>1. CASE items' = items
  BY <1>1 DEF PendingItems
<1>2. ASSUME NEW k \in PendingItems, Resolve(k)
      PROVE  /\ DOMAIN items' = DOMAIN items /\ PendingItems' \subseteq PendingItems
             /\ \A j \in DOMAIN items : /\ items'[j].target = items[j].target
                                        /\ items'[j].alias = items[j].alias
  <2>1. PICK v \in {"approved", "rejected"} : items' = [items EXCEPT ![k].status = v]
    BY <1>2 DEF Resolve
  <2>2. DOMAIN items' = DOMAIN items
    BY <2>1
  <2>3. \A j \in DOMAIN items : j # k => items'[j] = items[j]
    BY <2>1
  <2>4. k \in DOMAIN items /\ items[k] \in Items
    BY <1>2, ItemTypes
  <2>5. items'[k] = [items[k] EXCEPT !.status = v]
    BY <2>1, <2>4
  <2>6. /\ items'[k].target = items[k].target /\ items'[k].alias = items[k].alias
        /\ items'[k].status = v
    BY <2>4, <2>5 DEF Items
  <2> QED BY <2>2, <2>3, <2>6 DEF PendingItems
<1>3. \/ items' = items
      \/ \E k \in DOMAIN items : Resolve(k)
  BY DEF Next, ScanStep, Coordinator, vars, StartRun, ReadQueue, ReadLedger, Launch, NextPhase,
         Collect, BatchResult, ChunkResult, Drop, Committed, WaveDone, Finish, Bail, Crash, Rest,
         RecordDecision, LoseDecision, WorkerStep, Reply, TransientFailure, PermanentFailure,
         MalformedReply, Worker
<1> QED BY <1>1, <1>2, <1>3 DEF Resolve

\* A queued proposal is a new, last item; the others stay.
LEMMA ItemAdded ==
  ASSUME TypeOK, NEW p, AddItem(p)
  PROVE  LET n == Len(items) + 1 IN
         /\ n \notin DOMAIN items /\ DOMAIN items' = DOMAIN items \cup {n}
         /\ PendingItems' = PendingItems \cup {n}
         /\ items'[n].target = p.t /\ items'[n].alias = p.a
         /\ \A k \in DOMAIN items : items'[k] = items[k]
         /\ fresh' = fresh \cup {n}
<1> DEFINE n == Len(items) + 1
           x == [target |-> p.t, alias |-> p.a, status |-> "pending"]
<1>1. Len(items) \in Nat /\ DOMAIN items = 1..Len(items)
  BY ItemTypes
<1>3. /\ DOMAIN items' = 1..n /\ items'[n] = x /\ Len(items') = n
      /\ \A k \in 1..Len(items) : items'[k] = items[k]
  BY <1>1 DEF AddItem, TypeOK, StoreTypes
<1>4. x.target = p.t /\ x.alias = p.a /\ x.status = "pending"
  OBVIOUS
<1>5. DOMAIN items' = DOMAIN items \cup {n} /\ n \notin DOMAIN items
  BY <1>1, <1>3
<1>6. PendingItems' = PendingItems \cup {n}
  BY <1>1, <1>3, <1>4, <1>5 DEF PendingItems
<1> QED BY <1>1, <1>3, <1>4, <1>5, <1>6 DEF AddItem

\* Only the reading of the queue and of the ledger and the commits change what a
\* scan that runs knows.
LEMMA KnowledgeStays ==
  ASSUME [Next]_vars, ~Enqueue, ~EnqueueFails, ~ReadQueue, ~ReadLedger
  PROVE  /\ pc' \notin {"idle", "queue"} =>
                /\ pc \notin {"idle", "queue"} /\ pending' = pending
                /\ Reading' => Reading
         /\ pc' = "queue" => pc \in {"idle", "queue"}
         /\ pc' \notin {"idle"} /\ ~StartRun =>
                snap' = snap /\ reserved' = reserved /\ pc # "idle" /\ (Reading' <=> Reading)
         /\ ~StartRun => settled' = settled
         /\ proposed' \cup decided' \subseteq proposed \cup decided
         /\ ledger \subseteq ledger'
<1>1. CASE StartRun
  BY <1>1 DEF StartRun, Reading
<1>2. CASE Launch \/ NextPhase \/ Collect \/ BatchResult \/ ChunkResult
  BY <1>2 DEF Launch, NextPhase, Collect, BatchResult, ChunkResult, Reading, StartRun
<1>3. CASE Drop \/ Committed \/ WaveDone
  BY <1>3 DEF Drop, Committed, WaveDone, Reading, StartRun
<1>4. CASE Finish \/ Bail \/ Crash
  BY <1>4 DEF Finish, Bail, Crash, Return, Reading, StartRun
<1>5. ASSUME NEW i \in DOMAIN work, WorkerStep(i)
      PROVE  UNCHANGED <<pc, pending, snap, reserved, settled, proposed, decided, ledger>>
  BY <1>5 DEF WorkerStep, Reply, TransientFailure, PermanentFailure, MalformedReply, Worker
<1>6. ASSUME NEW k \in DOMAIN items, Resolve(k) \/ RecordDecision(k) \/ LoseDecision(k)
      PROVE  /\ UNCHANGED <<pc, pending, snap, reserved, settled, proposed, decided>>
             /\ ledger \subseteq ledger'
  BY <1>6 DEF Resolve, RecordDecision, LoseDecision
<1>7. CASE UNCHANGED vars \/ Rest
  BY <1>7 DEF vars, Rest, Reading
<1>8. /\ \A i \in DOMAIN work : WorkerStep(i) => pc = "ask"
      /\ StartRun => pc = "idle" /\ pc' = "queue"
  BY DEF StartRun, WorkerStep, Reply, TransientFailure, PermanentFailure, MalformedReply, Asking
<1> QED BY <1>1, <1>2, <1>3, <1>4, <1>5, <1>6, <1>7, <1>8 DEF Next, ScanStep, Coordinator, Reading

\* Nothing is pending that a scan past its look at the queue does not know of.
LEMMA QueueStep ==
  ASSUME TypeOK, QueueInv, [Next]_vars
  PROVE  QueueInv'
<1>1. \A k \in PendingItems : k \in DOMAIN items
  BY ItemTypes
<1>2. CASE Enqueue \/ EnqueueFails
  <2>1. CASE UNCHANGED <<items, ledger>> /\ Return
    BY <2>1 DEF Return, QueueInv, OnePendingPerTarget, PendingItems
  <2>2. CASE ~(UNCHANGED <<items, ledger>> /\ Return)
    <3>1. PICK p \in todo :
             /\ Take(p) /\ AddItem(p) /\ pc = "commit" /\ ledger' = ledger
             /\ \/ pc' = "idle" /\ proposed' = {} /\ decided' = {}
                \/ /\ pending' = pending \cup {p.t}
                   /\ decided' = decided \cup {p.t} /\ proposed' \subseteq proposed \cup {p.t}
      BY <1>2, <2>2 DEF Enqueue, EnqueueFails, Return
    <3>2. p.t \notin pending
      BY <3>1 DEF Take
    <3> DEFINE n == Len(items) + 1
    <3>3. /\ n \notin DOMAIN items /\ DOMAIN items' = DOMAIN items \cup {n}
          /\ PendingItems' = PendingItems \cup {n}
          /\ items'[n].target = p.t
          /\ \A k \in DOMAIN items : items'[k] = items[k]
      BY <3>1, ItemAdded
    <3> HIDE DEF n
    <3>4. \A k \in PendingItems : items'[k].target \in pending /\ items'[k].target # p.t
      BY <1>1, <3>1, <3>2, <3>3 DEF QueueInv
    <3>5. OnePendingPerTarget'
      BY <1>1, <3>3, <3>4 DEF QueueInv, OnePendingPerTarget
    <3>6. {items[k].target : k \in DOMAIN items} \cup {p.t}
              \subseteq {items'[k].target : k \in DOMAIN items'}
      BY <3>3
    <3> QED BY <3>1, <3>3, <3>4, <3>5, <3>6 DEF QueueInv
  <2> QED BY <2>1, <2>2
<1>3. CASE ~Enqueue /\ ~EnqueueFails
  <2>1. /\ DOMAIN items' = DOMAIN items /\ PendingItems' \subseteq PendingItems
        /\ \A k \in DOMAIN items : items'[k].target = items[k].target
    BY <1>3, ItemsStay
  <2>2. OnePendingPerTarget'
    BY <1>1, <2>1 DEF QueueInv, OnePendingPerTarget
  <2>3. {items'[k].target : k \in DOMAIN items'} = {items[k].target : k \in DOMAIN items}
    BY <2>1
  <2>4. CASE ReadQueue
    BY <1>1, <2>1, <2>2, <2>3, <2>4 DEF ReadQueue, QueueInv
  <2>5. CASE ReadLedger
    BY <1>1, <2>1, <2>2, <2>3, <2>5 DEF ReadLedger, QueueInv
  <2>6. CASE ~ReadQueue /\ ~ReadLedger
    BY <1>1, <1>3, <2>1, <2>2, <2>3, <2>6, KnowledgeStays DEF QueueInv
  <2> QED BY <2>4, <2>5, <2>6
<1> QED BY <1>2, <1>3

(***************************************************************************)
(* Decisions and aliases                                                   *)
(***************************************************************************)
\* What was decided when a scan began stays out of its queue.
LEMMA SettledStep ==
  ASSUME TypeOK, WaveInv, SettledInv, [Next]_vars
  PROVE  SettledInv'
<1>1. /\ fresh \subseteq DOMAIN items /\ ledger \subseteq Targets
      /\ accepted \in [Targets -> Aliases \cup {None}]
      /\ gathered \in [Files -> SUBSET Proposals]
  BY DEF TypeOK, StoreTypes, OfferTypes
<1>2. Return => /\ pc' = "idle" /\ todo' = {}
                /\ \A f \in Files : gathered'[f] = {}
  BY DEF Return
<1>3. CASE StartRun
  <2>1. /\ settled' = ledger \cup {t \in Targets : accepted[t] # None} /\ snap' = accepted
        /\ pc' = "queue" /\ fresh' = {} /\ ledger' = ledger
        /\ todo' = todo /\ gathered' = gathered /\ pc = "idle"
    BY <1>3 DEF StartRun, Decided
  <2>2. todo = {} /\ \A f \in Files : gathered[f] = {}
    BY <2>1 DEF WaveInv
  <2> QED BY <2>1, <2>2 DEF SettledInv, Reading, Open, DecisionsAreKept
<1>4. CASE Enqueue \/ EnqueueFails
  <2>1. CASE UNCHANGED <<items, fresh, settled>> /\ Return
    BY <1>2, <2>1 DEF SettledInv, DecisionsAreKept, Reading
  <2>2. CASE ~(UNCHANGED <<items, fresh, settled>> /\ Return)
    <3>1. PICK p \in todo :
             /\ Take(p) /\ AddItem(p) /\ pc = "commit" /\ settled' = settled
             /\ \/ Return
                \/ /\ pending' = pending \cup {p.t} /\ todo' \subseteq todo
                   /\ UNCHANGED <<pc, snap, gathered>>
      BY <1>4, <2>2 DEF Enqueue, EnqueueFails
    <3>2. p.t \notin settled
      BY <3>1 DEF Take, SettledInv, Reading, Open
    <3>3. DecisionsAreKept'
      BY <1>1, <3>1, <3>2, ItemAdded DEF SettledInv, DecisionsAreKept
    <3> QED BY <1>2, <3>1, <3>3 DEF SettledInv, Reading, Open
  <2> QED BY <2>1, <2>2
<1>5. CASE ~Enqueue /\ ~EnqueueFails /\ ~StartRun
  <2>1. fresh' = fresh /\ settled' = settled /\ ledger \subseteq ledger'
    BY <1>5 DEF Next, ScanStep, Coordinator, vars, ReadQueue, ReadLedger, Launch, NextPhase,
         Collect, BatchResult, ChunkResult, Drop, Committed, WaveDone, Finish, Bail, Crash, Rest,
         Resolve, RecordDecision, LoseDecision, WorkerStep, Reply, TransientFailure,
         PermanentFailure, MalformedReply, Worker
  <2>2. DecisionsAreKept'
    BY <1>1, <1>5, <2>1, ItemsStay DEF SettledInv, DecisionsAreKept
  <2>3. CASE BatchResult
    <3>1. \A p \in todo' : snap[p.t] = None
      BY <2>3, BatchOffer DEF BatchResult, SettledInv, Open
    <3> QED BY <2>2, <2>3, <3>1 DEF SettledInv, BatchResult, Reading, Open
  <2>4. CASE ChunkResult
    <3>1. ThisFile \in Files /\ \A p \in gathered[ThisFile] \cup Accepted : snap[p.t] = None
      BY <2>4, ChunkOffer DEF SettledInv, Open
    <3>2. \A p \in todo' : snap[p.t] = None
      BY <2>4, <3>1, ChunkOffer DEF ChunkResult, SettledInv, Open, ThisFile, ThisChunk, Accepted
    <3>3. \A f \in Files : \A p \in gathered'[f] : snap[p.t] = None
      BY <1>1, <2>4, <3>1 DEF ChunkResult, SettledInv, Open, ThisFile, ThisChunk, Accepted
    <3> QED BY <2>2, <2>4, <3>2, <3>3 DEF SettledInv, ChunkResult, Reading, Open
  <2>5. CASE ReadQueue \/ ReadLedger
    BY <1>1, <2>1, <2>2, <2>5 DEF SettledInv, ReadQueue, ReadLedger, Reading, Open
  <2>6. CASE ~BatchResult /\ ~ChunkResult /\ ~ReadQueue /\ ~ReadLedger
    <3>1. CASE pc' = "idle"
      <4>1. todo' \subseteq todo
            /\ ((snap' = snap /\ gathered' = gathered) \/ \A f \in Files : gathered'[f] = {})
            /\ (snap' = snap \/ todo' = {})
        BY <1>2, <1>5, <2>6 DEF Next, ScanStep, Coordinator, vars, Launch, NextPhase, Collect,
           Drop, Committed, WaveDone, Finish, Bail, Crash, Rest, Resolve, RecordDecision,
           LoseDecision, WorkerStep, Reply, TransientFailure, PermanentFailure, MalformedReply,
           Worker
      <4> QED BY <2>2, <3>1, <4>1 DEF SettledInv, Reading, Open
    <3>2. CASE pc' # "idle"
      <4>1. todo' \subseteq todo /\ gathered' = gathered
        BY <1>2, <1>5, <2>6, <3>2 DEF Next, ScanStep, Coordinator, vars, Launch, NextPhase, Collect,
           Drop, Committed, WaveDone, Finish, Bail, Crash, Rest, Resolve, RecordDecision,
           LoseDecision, WorkerStep, Reply, TransientFailure, PermanentFailure, MalformedReply,
           Worker
      <4>2. snap' = snap /\ pc # "idle" /\ (Reading' <=> Reading)
        BY <1>5, <2>6, <3>2, KnowledgeStays
      <4>3. ~Reading' => pending' = pending
        BY <1>5, <2>6, <3>2, <4>2, KnowledgeStays DEF Reading
      <4> QED BY <2>1, <2>2, <3>2, <4>1, <4>2, <4>3 DEF SettledInv, Open
    <3> QED BY <3>1, <3>2
  <2> QED BY <2>3, <2>4, <2>5, <2>6
<1> QED BY <1>3, <1>4, <1>5

\* Being the same target or being spelled alike is an equivalence.
LEMMA AlikeIsEquivalence ==
  /\ \A t : Alike(t, t)
  /\ \A t, u : Alike(t, u) => Alike(u, t)
  /\ \A t, u, v : Alike(t, u) /\ Alike(u, v) => Alike(t, v)
BY DEF Alike

\* An approval gives an alias to a target that owns it already, as far as the
\* scan knows, and only to one that is like the others that have it.
LEMMA AliasResolved ==
  ASSUME TypeOK, AliasInv, NEW k \in DOMAIN items, Resolve(k)
  PROVE  AliasInv'
<1> DEFINE t == items[k].target
           a == items[k].alias
<1>1. /\ DOMAIN items' = DOMAIN items /\ PendingItems' \subseteq PendingItems
      /\ \A j \in DOMAIN items : /\ items'[j].target = items[j].target
                                 /\ items'[j].alias = items[j].alias
      /\ PendingItems \subseteq DOMAIN items
  <2>1. todo' = todo /\ pc' = pc /\ [Next]_vars
    BY DEF Next, Resolve
  <2>2. ~Enqueue
    BY <2>1 DEF Enqueue
  <2>3. ~EnqueueFails
    BY <2>1 DEF EnqueueFails, Return
  <2> QED BY <2>1, <2>2, <2>3, ItemsStay, ItemTypes
<1>2. /\ k \in PendingItems /\ UNCHANGED <<pc, reserved>> /\ raced \subseteq raced'
      /\ accepted \in [Targets -> Aliases \cup {None}] /\ t \in Targets /\ a \in Aliases /\ a # None
  BY ItemTypes, ConstantTypes DEF Resolve, TypeOK, StoreTypes
<1>3. CASE accepted' = accepted
  BY <1>1, <1>2, <1>3 DEF AliasInv, AliasesStayDistinct, Owns
<1>4. CASE accepted' # accepted
  <2>1. /\ accepted' = [accepted EXCEPT ![t] = a]
        /\ \A u \in Targets \ {t} : accepted[u] = a => Alike(u, t)
        /\ pc = "queue" => a \in raced'
    BY <1>4 DEF Resolve, Alike
  <2>2. \A s \in Symbols : s \in Targets /\ accepted'[s] = IF s = t THEN a ELSE accepted[s]
    BY <1>2, <2>1, ConstantTypes
  <2> HIDE DEF t, a
  <2>3. \A s, u \in Symbols : accepted'[s] = accepted'[u] /\ accepted'[s] # None => Alike(s, u)
    BY <2>1, <2>2, AlikeIsEquivalence DEF AliasInv
  <2>4. pc \notin {"idle", "queue"} /\ a \notin raced => Owns(t, a)
    BY <1>2 DEF AliasInv, t, a
  <2>5. pc # "idle" => \A s \in Symbols :
            accepted'[s] \notin raced' \cup {None} => Owns(s, accepted'[s])
    BY <1>2, <2>1, <2>2, <2>4 DEF AliasInv
  <2>6. AliasesStayDistinct'
    <3>1. ASSUME NEW j \in PendingItems', items'[j].alias \notin raced',
                 NEW s \in Symbols, accepted'[s] = items'[j].alias
          PROVE  Alike(s, items'[j].target)
      <4>1. CASE s = t
        BY <1>1, <1>2, <2>2, <3>1, <4>1 DEF AliasInv, AliasesStayDistinct, t, a
      <4>2. CASE s # t
        BY <1>1, <1>2, <2>2, <3>1, <4>2 DEF AliasInv, AliasesStayDistinct
      <4> QED BY <4>1, <4>2
    <3> QED BY <1>1, <1>2, <3>1 DEF AliasInv, AliasesStayDistinct
  <2> QED BY <1>1, <1>2, <2>3, <2>5, <2>6 DEF AliasInv, Owns
<1> QED BY <1>3, <1>4

\* A queued proposal is like everything that has its alias.
LEMMA AliasAdded ==
  ASSUME TypeOK, AliasInv, pc = "commit", NEW p \in Proposals, Take(p), AddItem(p),
         UNCHANGED <<accepted, raced>>
  PROVE  /\ AliasesStayDistinct'
         /\ p.a \notin raced =>
                \A j \in PendingItems : items[j].alias = p.a => Alike(items[j].target, p.t)
         /\ reserved[p.a] = None \/ Alike(reserved[p.a], p.t)
<1>1. reserved[p.a] = None \/ Alike(reserved[p.a], p.t)
  BY DEF Take, Reservable, Alike
<1>2. p.a \notin raced =>
          \A j \in PendingItems : items[j].alias = p.a => Alike(items[j].target, p.t)
  BY <1>1, AlikeIsEquivalence DEF AliasInv, Owns
<1>3. p.a # None
  BY ItemTypes, ConstantTypes
<1>4. p.a \notin raced => \A s \in Symbols : accepted[s] = p.a => Alike(s, p.t)
  BY <1>1, <1>3, AlikeIsEquivalence DEF AliasInv, Owns
<1> DEFINE n == Len(items) + 1
<1>5. /\ n \notin DOMAIN items /\ DOMAIN items' = DOMAIN items \cup {n}
      /\ PendingItems' = PendingItems \cup {n}
      /\ items'[n].target = p.t /\ items'[n].alias = p.a
      /\ \A k \in DOMAIN items : items'[k] = items[k]
      /\ PendingItems \subseteq DOMAIN items
  BY ItemAdded, ItemTypes
<1> HIDE DEF n
<1>6. AliasesStayDistinct'
  BY <1>2, <1>4, <1>5, AlikeIsEquivalence DEF AliasInv, AliasesStayDistinct
<1> QED BY <1>1, <1>2, <1>6

\* What a scan has on record for an alias fits everything that has it.
LEMMA AliasStep ==
  ASSUME TypeOK, AliasInv, [Next]_vars
  PROVE  AliasInv'
<1>1. CASE \E k \in DOMAIN items : Resolve(k)
  BY <1>1, AliasResolved
<1>2. ASSUME ~\E k \in DOMAIN items : Resolve(k)
      PROVE  UNCHANGED <<accepted, raced>>
  BY <1>2 DEF Next, ScanStep, Coordinator, vars, StartRun, ReadQueue, ReadLedger, Launch, NextPhase,
         Collect, BatchResult, ChunkResult, Drop, Enqueue, EnqueueFails, Committed, WaveDone,
         Finish, Bail, Crash, Rest, RecordDecision, LoseDecision, WorkerStep, Reply,
         TransientFailure, PermanentFailure, MalformedReply, Worker
<1>3. /\ accepted \in [Targets -> Aliases \cup {None}]
      /\ Symbols \subseteq Targets /\ None \notin Aliases
      /\ \A k \in PendingItems : k \in DOMAIN items /\ items[k].alias \in Aliases
  BY ItemTypes, ConstantTypes DEF TypeOK, StoreTypes
<1>4. CASE Enqueue
  <2>1. PICK p \in todo : /\ Take(p) /\ AddItem(p) /\ pc = "commit" /\ pc' = pc
                          /\ reserved' = [reserved EXCEPT ![p.a] = IF @ = None THEN p.t ELSE @]
                          /\ UNCHANGED <<accepted, raced>>
    BY <1>4 DEF Enqueue
  <2>2. /\ p \in Proposals /\ p.a \in Aliases /\ p.t # None
        /\ reserved \in [Aliases -> Targets \cup {None}]
    BY ItemTypes, ConstantTypes DEF TypeOK, OfferTypes, ScanTypes
  <2>3. /\ AliasesStayDistinct'
        /\ reserved[p.a] = None \/ Alike(reserved[p.a], p.t)
    BY <2>1, <2>2, AliasAdded
  <2>4. \A t : \A b \in Aliases : Owns(t, b) => Owns(t, b)'
    BY <2>1, <2>2 DEF Owns
  <2>5. reserved'[p.a] # None /\ Alike(reserved'[p.a], p.t)
    BY <2>1, <2>2, <2>3, AlikeIsEquivalence
  <2>6. pc' \notin {"idle", "queue"}
    BY <2>1
  <2>7. ASSUME NEW k \in PendingItems', items'[k].alias \notin raced'
        PROVE  /\ reserved'[items'[k].alias] # None
               /\ Alike(reserved'[items'[k].alias], items'[k].target)
    <3> DEFINE n == Len(items) + 1
    <3>1. /\ PendingItems' = PendingItems \cup {n}
          /\ items'[n].target = p.t /\ items'[n].alias = p.a
          /\ \A j \in DOMAIN items : items'[j] = items[j]
      BY <2>1, ItemAdded
    <3>2. CASE k = n
      BY <2>5, <3>1, <3>2
    <3>3. CASE k # n
      <4>1. k \in PendingItems /\ items'[k] = items[k]
        BY <1>3, <3>1, <3>3
      <4>2. Owns(items[k].target, items[k].alias)
        BY <2>1, <2>7, <4>1 DEF AliasInv
      <4> QED BY <1>3, <2>1, <2>2, <4>1, <4>2 DEF Owns
    <3> QED BY <3>2, <3>3
  <2>8. ASSUME NEW s \in Symbols, accepted[s] \notin raced \cup {None}
        PROVE  Owns(s, accepted[s])'
    <3>1. Owns(s, accepted[s]) /\ accepted[s] \in Aliases
      BY <1>3, <2>1, <2>8 DEF AliasInv
    <3> QED BY <2>1, <2>2, <3>1 DEF Owns
  <2> QED BY <2>1, <2>3, <2>6, <2>7, <2>8 DEF AliasInv, Owns
<1>5. CASE EnqueueFails
  <2>1. pc' = "idle" /\ UNCHANGED <<accepted, raced>>
    BY <1>5 DEF EnqueueFails, Return
  <2>2. CASE UNCHANGED items
    BY <2>1, <2>2 DEF AliasInv, AliasesStayDistinct, PendingItems
  <2>3. CASE ~UNCHANGED items
    <3>1. PICK p \in todo : Take(p) /\ AddItem(p) /\ pc = "commit"
      BY <1>5, <2>3 DEF EnqueueFails
    <3>2. AliasesStayDistinct'
      BY <2>1, <3>1, AliasAdded DEF TypeOK, OfferTypes
    <3> QED BY <2>1, <3>2 DEF AliasInv
  <2> QED BY <2>2, <2>3
<1>6. CASE StartRun
  <2>1. pc' = "queue" /\ UNCHANGED <<items, accepted, raced>>
    BY <1>6 DEF StartRun
  <2>2. /\ \A b \in Aliases : \A s \in Symbols : accepted[s] = b => reserved'[b] # None
        /\ \A b \in Aliases : reserved'[b] # None =>
               reserved'[b] \in Symbols /\ accepted[reserved'[b]] = b
    BY <1>6, FirstOwner
  <2>3. ASSUME NEW s \in Symbols, accepted[s] # None
        PROVE  reserved'[accepted[s]] # None /\ Alike(reserved'[accepted[s]], s)
    BY <1>3, <2>2, <2>3 DEF AliasInv
  <2>4. ASSUME NEW k \in PendingItems, items[k].alias \notin raced, reserved'[items[k].alias] # None
        PROVE  Alike(reserved'[items[k].alias], items[k].target)
    BY <1>3, <2>2, <2>4 DEF AliasInv, AliasesStayDistinct
  <2> QED BY <2>1, <2>3, <2>4 DEF AliasInv, AliasesStayDistinct, Owns, PendingItems
<1>7. CASE ReadQueue
  <2>1. pc = "queue" /\ pc' = "ledger" /\ UNCHANGED <<items, accepted, raced>>
    BY <1>7 DEF ReadQueue
  <2>2. /\ \A b \in Aliases : reserved[b] # None => reserved'[b] = reserved[b]
        /\ \A b \in Aliases : reserved[b] = None /\ reserved'[b] # None =>
                \E k \in PendingItems : items[k].alias = b /\ reserved'[b] = items[k].target
        /\ \A k \in PendingItems : reserved'[items[k].alias] # None
    BY <1>7, FirstItem
  <2>3. ASSUME NEW s \in Symbols, accepted[s] \notin raced \cup {None}
        PROVE  reserved'[accepted[s]] # None /\ Alike(reserved'[accepted[s]], s)
    <3>1. Owns(s, accepted[s]) /\ accepted[s] \in Aliases
      BY <1>3, <2>1, <2>3 DEF AliasInv
    <3> QED BY <2>2, <3>1 DEF Owns
  <2>4. ASSUME NEW k \in PendingItems, items[k].alias \notin raced
        PROVE  /\ reserved'[items[k].alias] # None
               /\ Alike(reserved'[items[k].alias], items[k].target)
    <3>1. CASE reserved[items[k].alias] # None
      BY <1>3, <2>1, <2>2, <2>4, <3>1 DEF AliasInv, Owns
    <3>2. CASE reserved[items[k].alias] = None
      BY <1>3, <2>2, <2>4, <3>2 DEF AliasInv, AliasesStayDistinct
    <3> QED BY <3>1, <3>2
  <2> QED BY <2>1, <2>3, <2>4 DEF AliasInv, AliasesStayDistinct, Owns, PendingItems
<1>8. CASE /\ ~\E k \in DOMAIN items : Resolve(k)
           /\ ~Enqueue /\ ~EnqueueFails /\ ~StartRun /\ ~ReadQueue
  <2>1. /\ UNCHANGED <<accepted, raced>> /\ PendingItems' \subseteq PendingItems
        /\ \A k \in DOMAIN items : /\ items'[k].target = items[k].target
                                   /\ items'[k].alias = items[k].alias
    BY <1>2, <1>8, ItemsStay
  <2>2. AliasesStayDistinct'
    BY <1>3, <2>1 DEF AliasInv, AliasesStayDistinct
  <2>3. CASE pc' = "idle"
    BY <2>1, <2>2, <2>3 DEF AliasInv
  <2>4. CASE pc' # "idle"
    <3>1. reserved' = reserved /\ pc # "idle" /\ (pc' = "queue" <=> pc = "queue")
      <4>1. CASE ReadLedger
        BY <4>1 DEF ReadLedger
      <4>2. CASE ~ReadLedger
        BY <1>8, <2>4, <4>2, KnowledgeStays
      <4> QED BY <4>1, <4>2
    <3> QED BY <1>3, <2>1, <2>2, <2>4, <3>1 DEF AliasInv, Owns
  <2> QED BY <2>3, <2>4
<1> QED BY <1>1, <1>4, <1>5, <1>6, <1>7, <1>8

(***************************************************************************)
(* The theorems                                                            *)
(***************************************************************************)
\* No scan has begun, nothing is queued.
LEMMA ScanInit == Init => ScanInv
<1> SUFFICES ASSUME Init PROVE ScanInv
  OBVIOUS
<1>1. /\ items = <<>> /\ ledger = {} /\ accepted = [t \in Targets |-> None] /\ owed = {}
      /\ pc = "idle" /\ phase = "path" /\ next = 1 /\ snap = [t \in Targets |-> None]
      /\ pending = {} /\ proposed = {} /\ reserved = [a \in Aliases |-> None]
      /\ work = <<>> /\ at = 1 /\ todo = {} /\ decided = {}
      /\ gathered = [f \in Files |-> {}]
      /\ remaining = [f \in Files |-> Cardinality(ChunksOf(f))]
      /\ failed = {} /\ successes = 0 /\ errors = 0
      /\ settled = {} /\ raced = {} /\ fresh = {}
  BY DEF Init, Blank
<1>2. TypeOK
  <2>1. StoreTypes
    BY <1>1 DEF StoreTypes
  <2>2. ScanTypes
    BY <1>1 DEF ScanTypes
  <2>3. WorkTypes
    BY <1>1, ConstantTypes DEF WorkTypes
  <2>4. OfferTypes
    BY <1>1, FilesAreFinite DEF OfferTypes
  <2> QED BY <2>1, <2>2, <2>3, <2>4 DEF TypeOK
<1>3. WaveInv
  BY <1>1, ConstantTypes DEF WaveInv, Requests, Reading
<1>4. FilesInv
  <2>1. Taken = 0 /\ TakenChunks = 0
    BY <1>1 DEF Taken, TakenChunks
  <2>2. \A f \in Files : Left(f) = ChunksOf(f)
    BY <2>1, ConstantTypes DEF Left, ChunksOf
  <2> QED BY <1>1, <2>1, <2>2, ConstantTypes DEF FilesInv, Complete
<1>5. PendingItems = {}
  BY <1>1 DEF PendingItems
<1>6. QueueInv /\ SettledInv
  BY <1>1, <1>5 DEF QueueInv, SettledInv, Reading, Open, OnePendingPerTarget, DecisionsAreKept
<1>7. AliasInv
  BY <1>1, <1>5, ConstantTypes DEF AliasInv, AliasesStayDistinct
<1> QED BY <1>2, <1>3, <1>4, <1>6, <1>7 DEF ScanInv

\* The invariant of the scan, its reviewers and its failures, for every set of
\* targets and aliases, every list of requests, every provider, every number of
\* workers and attempts, and any number of scans, verdicts and faults.
THEOREM ScanInvariant == Spec => []ScanInv
<1>1. Init => ScanInv
  BY ScanInit
<1>2. ScanInv /\ [Next]_vars => ScanInv'
  BY TypeStep, WaveStep, FilesStep, QueueStep, SettledStep, AliasStep DEF ScanInv
<1> QED BY <1>1, <1>2, PTL DEF Spec

\* Whatever the provider answers, and whichever scans die, a reviewer never
\* finds two pending items about one target.
THEOREM OnePendingAlways == Spec => []OnePendingPerTarget
<1>1. ScanInv => OnePendingPerTarget
  BY DEF ScanInv, QueueInv
<1> QED BY <1>1, ScanInvariant, PTL

\* No scan asks again about a target that was decided when it began.
THEOREM DecisionsAlwaysKept == Spec => []DecisionsAreKept
<1>1. ScanInv => DecisionsAreKept
  BY DEF ScanInv, SettledInv
<1> QED BY <1>1, ScanInvariant, PTL

\* No alias is queued for a target when an unlike one has it, pending or
\* accepted, but for the aliases approved while a scan read the queue.
THEOREM AliasesAlwaysDistinct == Spec => []AliasesStayDistinct
<1>1. ScanInv => AliasesStayDistinct
  BY DEF ScanInv, AliasInv
<1> QED BY <1>1, ScanInvariant, PTL

\* What a scan was answered is queued or open to later requests; at the end of
\* its last wave no file waits, and a scan that failed says why for each.
THEOREM AnswersAreNeverLost == Spec => []NoAnswerIsLost
<1>1. ASSUME ScanInv PROVE SuppressedMeansQueued
  BY <1>1 DEF ScanInv, QueueInv, SuppressedMeansQueued
<1>2. ASSUME ScanInv, pc \in {"launch", "failed"}, phase = "chunk", next > Len(Chunks)
      PROVE  \A f \in Files : f \in Complete /\ gathered[f] = {}
  <2>1. TakenChunks >= Len(Chunks) /\ TakenChunks \in Nat
    BY <1>2, ConstantTypes DEF ScanInv, TypeOK, ScanTypes, TakenChunks, Taken
  <2>2. \A f \in Files : Left(f) = {}
    BY <2>1, ConstantTypes DEF Left, ChunksOf
  <2> QED BY <1>2, <2>2, FS_EmptySet DEF ScanInv, FilesInv, Complete
<1>3. ASSUME ScanInv PROVE EveryFileIsCommitted
  BY <1>2, <1>3 DEF EveryFileIsCommitted, Complete
<1>4. ASSUME ScanInv PROVE FailureHasAReason
  <2>1. SUFFICES ASSUME pc = "failed"
                 PROVE  errors = Len(Batches) + Cardinality(Files)
    BY DEF FailureHasAReason
  <2>2. phase = "chunk" /\ next > Len(Chunks) /\ successes = 0
    BY <1>4, <2>1 DEF ScanInv, WaveInv
  <2>3. Complete = Files
    BY <1>2, <1>4, <2>1, <2>2 DEF Complete
  <2>4. errors \in Nat /\ errors + 0 = Len(Batches) + Cardinality(Complete)
    BY <1>4, <2>1, <2>2 DEF ScanInv, FilesInv, TypeOK, ScanTypes
  <2> QED BY <2>3, <2>4
<1> QED BY <1>1, <1>3, <1>4, ScanInvariant, PTL DEF NoAnswerIsLost
=============================================================================
