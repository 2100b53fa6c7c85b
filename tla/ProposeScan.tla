---------------------------- MODULE ProposeScan ----------------------------
(***************************************************************************)
(* `propose-sanitize`, the scan of src/proposal.rs with the chat client of *)
(* src/llm.rs: a coordinator asks a provider, in waves of at most Jobs     *)
(* requests, for aliases of path terms and then of the symbols each chunk  *)
(* of source mentions, and queues the answers it accepts for review.       *)
(*                                                                         *)
(* The scan holds no lock while the provider works.  Reviewers resolve     *)
(* queued items meanwhile, and the process may die between two writes.     *)
(* Only the review items, the decision ledger and the accepted aliases     *)
(* outlive a scan.  Targets are compiler identities and path terms, each   *)
(* already mapped to the representative of its group; they and the aliases *)
(* are numbers, in the order of the BTreeMaps that iterate over them.      *)
(***************************************************************************)
EXTENDS Naturals, Sequences, SequencesExt, FiniteSetsExt

CONSTANTS Symbols, Paths, Aliases, Banned, Spelling,
          Batches,   \* a sequence of sets of path terms
          Chunks,    \* a sequence of [file, seen, core]: what a chunk shows
          Jobs,      \* requests in flight at once
          Attempts,  \* MAX_ATTEMPTS of one HTTP exchange
          Answers,   \* the sets of proposals a provider may return
          MaxRuns,   \* bound: scans started
          MaxReviews,\* bound: items resolved
          MaxFaults  \* bound: writes that fail, deaths

Targets == Symbols \cup Paths
None == 0

ASSUME ScanAssumption ==
    /\ Targets \subseteq Nat \ {None} /\ Aliases \subseteq Nat \ {None}
    /\ Jobs \in Nat \ {0} /\ Attempts \in Nat \ {0}
    /\ Batches \in Seq(SUBSET Paths)
    /\ Chunks \in Seq(Range(Chunks))
    /\ \A i \in DOMAIN Chunks : Chunks[i].seen \subseteq Symbols
    /\ \A ans \in Answers : \A p \in ans : p.a \in Aliases

VARIABLES
    items, ledger, accepted,        \* durable: the queue, decisions, aliases
    owed,                           \* reviewed items whose decision is unwritten
    pc, phase, next,                \* the coordinator and its next request
    snap,                           \* accepted aliases as the scan read them
    pending, proposed, reserved,    \* pending_keys, already_proposed, aliases
    told, work, at,                 \* the wave: its contexts, workers, result
    todo, decided,                  \* proposals of this commit, what it queued
    gathered, remaining, failed,    \* per file: proposals, chunks due, errors
    successes, errors,              \* requests answered, entries of the report
    runs, faults, reviews,
    settled, raced, fresh           \* history: decided before this scan, aliases
                                    \* approved while a queue was read; queued

store == <<items, ledger, accepted, owed>>
keys  == <<pending, proposed, reserved>>
wave  == <<told, work, at>>
files == <<gathered, remaining, failed>>
tally == <<successes, errors>>
vars  == <<store, pc, phase, next, snap, keys, wave, todo, decided, files,
           tally, runs, faults, reviews, settled, raced, fresh>>

Files == {Chunks[i].file : i \in DOMAIN Chunks}
Requests == IF phase = "path" THEN Batches ELSE Chunks
TotalRequests == Len(Batches) + Len(Chunks)
ChunksOf(f) == {i \in DOMAIN Chunks : Chunks[i].file = f}

PendingItems == {k \in DOMAIN items : items[k].status = "pending"}
\* What a scan keeps in memory, before it starts and once it has returned.
Blank ==
    /\ phase = "path" /\ next = 1 /\ snap = [t \in Targets |-> None]
    /\ pending = {} /\ proposed = {} /\ reserved = [a \in Aliases |-> None]
    /\ told = {} /\ work = <<>> /\ at = 1 /\ todo = {} /\ decided = {}
    /\ gathered = [f \in Files |-> {}]
    /\ remaining = [f \in Files |-> Cardinality(ChunksOf(f))]
    /\ failed = {} /\ successes = 0 /\ errors = 0

Return ==
    /\ phase' = "path" /\ next' = 1 /\ snap' = [t \in Targets |-> None]
    /\ pending' = {} /\ proposed' = {} /\ reserved' = [a \in Aliases |-> None]
    /\ told' = {} /\ work' = <<>> /\ at' = 1 /\ todo' = {} /\ decided' = {}
    /\ gathered' = [f \in Files |-> {}]
    /\ remaining' = [f \in Files |-> Cardinality(ChunksOf(f))]
    /\ failed' = {} /\ successes' = 0 /\ errors' = 0
    /\ pc' = "idle"

Idle == [tries |-> 0, again |-> FALSE, state |-> "asking", reply |-> {}]

Init ==
    /\ items = <<>> /\ ledger = {} /\ accepted = [t \in Targets |-> None]
    /\ owed = {}
    /\ pc = "idle" /\ Blank
    /\ runs = 0 /\ faults = 0 /\ reviews = 0
    /\ settled = {} /\ raced = {} /\ fresh = {}

-----------------------------------------------------------------------------
(* What the scan reads before it asks anything                             *)

Decided == ledger \cup {t \in Targets : accepted[t] # None}

\* One short shared lock: files, candidates, accepted aliases.
StartRun ==
    /\ pc = "idle" /\ runs < MaxRuns
    /\ runs' = runs + 1
    /\ pc' = "queue"
    /\ snap' = accepted
    /\ reserved' = [a \in Aliases |->
           LET owners == {s \in Symbols : accepted[s] = a}
           IN  IF owners = {} THEN None ELSE Min(owners)]
    /\ settled' = Decided /\ fresh' = {}
    /\ UNCHANGED <<store, phase, next, pending, proposed, wave, todo, decided,
                   files, tally, faults, reviews, raced>>

ReadQueueTargets ==
    /\ pc = "queue"
    /\ pc' = "ledger"
    /\ pending' = {items[k].target : k \in PendingItems}
    /\ proposed' = pending'
    /\ UNCHANGED <<store, phase, next, snap, reserved, wave, todo, decided, files,
                   tally, runs, faults, reviews, settled, raced, fresh>>

\* The review queue, read without a lock: its targets and its aliases.
ReadQueue ==
    /\ pc = "queue"
    /\ pc' = "ledger"
    /\ pending' = {items[k].target : k \in PendingItems}
    /\ proposed' = pending'
    /\ reserved' = [a \in Aliases |->
           LET queued == {k \in PendingItems : items[k].alias = a}
           IN  IF reserved[a] # None \/ queued = {} THEN reserved[a]
               ELSE items[Min(queued)].target]
    /\ UNCHANGED <<store, phase, next, snap, wave, todo, decided, files, tally,
                   runs, faults, reviews, settled, raced, fresh>>

LedgerMissed ==
    /\ pc = "ledger" /\ pc' = "launch"
    /\ UNCHANGED <<store, phase, next, snap, keys, wave, todo, decided, files,
                   tally, runs, faults, reviews, settled, raced, fresh>>

\* The ledger, read last.
ReadLedger ==
    /\ pc = "ledger"
    /\ pc' = "launch"
    /\ pending' = pending \cup ledger
    /\ proposed' = proposed \cup ledger
    /\ UNCHANGED <<store, phase, next, snap, reserved, wave, todo, decided,
                   files, tally, runs, faults, reviews, settled, raced, fresh>>

-----------------------------------------------------------------------------
(* Waves of requests                                                       *)

WaveSize == Min({Jobs, Len(Requests) - next + 1})

\* The contexts of a wave are computed once, before its first request.
Launch ==
    /\ pc = "launch" /\ next <= Len(Requests)
    /\ pc' = "ask"
    /\ told' = proposed
    /\ work' = [i \in 1..WaveSize |-> Idle] /\ at' = 1
    /\ UNCHANGED <<store, phase, next, snap, keys, todo, decided, files, tally,
                   runs, faults, reviews, settled, raced, fresh>>

NextPhase ==
    /\ pc = "launch" /\ phase = "path" /\ next > Len(Batches)
    /\ phase' = "chunk" /\ next' = 1
    /\ UNCHANGED <<store, pc, snap, keys, wave, todo, decided, files, tally,
                   runs, faults, reviews, settled, raced, fresh>>

Asking(i) == pc = "ask" /\ i \in DOMAIN work /\ work[i].state = "asking"

GaveUp == [Idle EXCEPT !.state = "error"]

Worker(i, w) ==
    /\ work' = [work EXCEPT ![i] = w]
    /\ UNCHANGED <<store, pc, phase, next, snap, keys, told, at, todo, decided,
                   files, tally, runs, faults, reviews, settled, raced, fresh>>

\* A reply that parses ends the request.
Reply(i) ==
    /\ Asking(i)
    /\ \E ans \in Answers : Worker(i, [Idle EXCEPT !.state = "answered", !.reply = ans])

RetriedForever(i) ==
    /\ Asking(i)
    /\ Worker(i, [work[i] EXCEPT !.tries = (@ + 1) % Attempts])

\* LlmClient::post: a transport error or HTTP 429, 502, 503 and 504 is tried
\* again, MAX_ATTEMPTS times in all.
TransientFailure(i) ==
    /\ Asking(i)
    /\ LET tries == work[i].tries + 1
       IN  Worker(i, IF tries = Attempts THEN GaveUp
                     ELSE [work[i] EXCEPT !.tries = tries])

\* Any other status, a body cut off by the output limit, a timed-out command.
PermanentFailure(i) ==
    /\ Asking(i)
    /\ Worker(i, GaveUp)

\* A reply that does not parse is asked for once more, with fresh attempts.
MalformedReply(i) ==
    /\ Asking(i)
    /\ Worker(i, IF work[i].again THEN GaveUp
                 ELSE [Idle EXCEPT !.again = TRUE])

WorkerStep(i) ==
    Reply(i) \/ TransientFailure(i) \/ PermanentFailure(i) \/ MalformedReply(i)

\* The scope has joined its threads and the results are sorted by wave index.
Collect ==
    /\ pc = "ask" /\ \A i \in DOMAIN work : work[i].state # "asking"
    /\ pc' = "result"
    /\ UNCHANGED <<store, phase, next, snap, keys, wave, todo, decided, files,
                   tally, runs, faults, reviews, settled, raced, fresh>>

-----------------------------------------------------------------------------
(* One result after the other                                              *)

\* Only what the request offered can be a target.
Attached(ps, offered) == {p \in ps : p.t \in offered}
OfferedPaths(batch) == {t \in batch : snap[t] = None}
OfferedSymbols(chunk) == {t \in chunk.seen : snap[t] = None /\ t \notin told}

\* Of equal (target, alias) pairs the highest confidence is kept.
Best(ps) == {p \in ps : \A q \in ps : q.t = p.t /\ q.a = p.a => q.c <= p.c}

\* commit_batch: by target, then the highest confidence, then alias.
BatchOrder(p, q) ==
    \/ p.t < q.t
    \/ p.t = q.t /\ (p.c > q.c \/ (p.c = q.c /\ p.a < q.a))

\* commit_file_proposals: in the order of the map's keys.
FileOrder(p, q) == p.t < q.t \/ (p.t = q.t /\ p.a < q.a)

\* The proposal of a commit whose turn it is.
Foremost(p) ==
    /\ p \in todo
    /\ \A q \in todo \ {p} : IF phase = "path" THEN BatchOrder(p, q) ELSE FileOrder(p, q)

BatchResult ==
    /\ pc = "result" /\ phase = "path" /\ at \in DOMAIN work
    /\ \/ /\ work[at].state = "error"
          /\ errors' = errors + 1 /\ at' = at + 1
          /\ UNCHANGED <<pc, todo, successes>>
       \/ /\ work[at].state = "answered"
          /\ successes' = successes + 1
          /\ todo' = Best(Attached(work[at].reply, OfferedPaths(Batches[next + at - 1])))
          /\ pc' = "commit"
          /\ UNCHANGED <<at, errors>>
    /\ decided' = {}
    /\ UNCHANGED <<store, phase, next, snap, keys, told, work, files, runs,
                   faults, reviews, settled, raced, fresh>>

ChunkResultEarly ==
    /\ pc = "result" /\ phase = "chunk" /\ at \in DOMAIN work
    /\ LET chunk == Chunks[next + at - 1]
           f     == chunk.file
           valid == Attached(work[at].reply, OfferedSymbols(chunk) \cap chunk.core)
       IN
       /\ IF work[at].state = "error" THEN failed' = failed \cup {f} /\ UNCHANGED successes
                             ELSE successes' = successes + 1 /\ UNCHANGED failed
       /\ IF work[at].state = "error"
          THEN at' = at + 1 /\ UNCHANGED <<gathered, remaining, pc, todo>>
          ELSE /\ remaining' = [remaining EXCEPT ![f] = @ - 1]
               /\ IF remaining[f] > 1
                  THEN /\ gathered' = [gathered EXCEPT ![f] = @ \cup valid]
                       /\ at' = at + 1 /\ UNCHANGED <<pc, todo>>
                  ELSE /\ gathered' = [gathered EXCEPT ![f] = {}]
                       /\ todo' = Best(gathered[f] \cup valid)
                       /\ pc' = "commit" /\ UNCHANGED at
    /\ decided' = {}
    /\ UNCHANGED <<store, phase, next, snap, keys, told, work, errors, runs,
                   faults, reviews, settled, raced, fresh>>

\* Proposals wait until the last chunk of their file has been answered; a name
\* that this chunk only shows as context belongs to the chunk before it.
ChunkResult ==
    /\ pc = "result" /\ phase = "chunk" /\ at \in DOMAIN work
    /\ LET chunk == Chunks[next + at - 1]
           f     == chunk.file
           valid == Attached(work[at].reply, OfferedSymbols(chunk) \cap chunk.core)
       IN
       /\ IF work[at].state = "error" THEN failed' = failed \cup {f} /\ UNCHANGED successes
                             ELSE successes' = successes + 1 /\ UNCHANGED failed
       /\ remaining' = [remaining EXCEPT ![f] = @ - 1]
       /\ IF remaining[f] > 1
          THEN /\ gathered' = [gathered EXCEPT ![f] = @ \cup valid]
               /\ at' = at + 1 /\ UNCHANGED <<pc, todo>>
          ELSE /\ gathered' = [gathered EXCEPT ![f] = {}]
               /\ todo' = Best(gathered[f] \cup valid)
               /\ pc' = "commit" /\ UNCHANGED at
    /\ decided' = {}
    /\ UNCHANGED <<store, phase, next, snap, keys, told, work, errors, runs,
                   faults, reviews, settled, raced, fresh>>

\* reserve_proposal_alias: an alias has one owner; two symbols of the same
\* spelling may share it, the approval decides.
Reservable(p) ==
    LET owner == reserved[p.a] IN
    \/ owner \in {None, p.t}
    \/ {owner, p.t} \subseteq Symbols /\ Spelling[owner] = Spelling[p.t]

\* Local validation: what the provider says is checked, never trusted.
ValidSymbol(p) == p.a \notin Banned
ValidPath(p) == p.a \notin Banned /\ \A t \in Paths : snap[t] # p.a
Valid(p) == IF p.t \in Paths THEN ValidPath(p) ELSE ValidSymbol(p)

TakeUnlessOffered(p) == p.t \notin proposed /\ Valid(p) /\ Reservable(p)

Take(p) == p.t \notin pending /\ Valid(p) /\ Reservable(p)

\* A duplicate, an invalid proposal and a taken alias are counted and dropped.
Drop ==
    /\ pc = "commit"
    /\ \E p \in todo : Foremost(p) /\ ~Take(p) /\ todo' = todo \ {p}
    /\ UNCHANGED <<store, pc, phase, next, snap, keys, wave, decided, files,
                   tally, runs, faults, reviews, settled, raced, fresh>>

\* enqueue_review: the item's file appears whole, then its row is written.
AddItem(p) ==
    /\ items' = Append(items, [target |-> p.t, alias |-> p.a, status |-> "pending"])
    /\ fresh' = fresh \cup {Len(items')}

Enqueue ==
    /\ pc = "commit"
    /\ \E p \in todo :
       /\ Foremost(p) /\ Take(p) /\ AddItem(p)
       /\ reserved' = [reserved EXCEPT ![p.a] = IF @ = None THEN p.t ELSE @]
       /\ pending' = pending \cup {p.t}
       /\ decided' = decided \cup {p.t}
       /\ proposed' = IF phase = "path" THEN proposed \cup {p.t} ELSE proposed
       /\ todo' = todo \ {p}
    /\ UNCHANGED <<ledger, accepted, owed, pc, phase, next, snap, wave, files,
                   tally, runs, faults, reviews, settled, raced>>

\* A failing write ends the scan, before the item exists or, when it is its
\* row that fails, after.
EnqueueFails ==
    /\ pc = "commit" /\ faults < MaxFaults
    /\ \E p \in todo :
       /\ Foremost(p) /\ Take(p)
       /\ \/ UNCHANGED <<items, fresh>>
          \/ p.t \in Symbols /\ AddItem(p)
    /\ Return /\ faults' = faults + 1
    /\ UNCHANGED <<ledger, accepted, owed, runs, reviews, settled, raced>>

\* Only what was queued is withheld from the requests that follow.
Committed ==
    /\ pc = "commit" /\ todo = {}
    /\ pc' = "result" /\ at' = at + 1
    /\ proposed' = proposed \cup decided
    /\ errors' = IF phase = "chunk" /\ Chunks[next + at - 1].file \in failed
                 THEN errors + 1 ELSE errors
    /\ UNCHANGED <<store, phase, next, snap, pending, reserved, told, work, todo,
                   decided, files, successes, runs, faults, reviews, settled, raced, fresh>>

WaveDone ==
    /\ pc = "result" /\ at \notin DOMAIN work
    /\ pc' = "launch" /\ next' = next + Len(work)
    /\ work' = <<>> /\ told' = {}
    /\ UNCHANGED <<store, phase, snap, keys, at, todo, decided, files, tally,
                   runs, faults, reviews, settled, raced, fresh>>

\* A scan in which every request failed quotes the first error of its report.
EveryRequestFailed == TotalRequests > 0 /\ successes = 0

Finish ==
    /\ pc = "launch" /\ phase = "chunk" /\ next > Len(Chunks)
    /\ \/ /\ EveryRequestFailed /\ pc' = "failed"
          /\ UNCHANGED <<phase, next, snap, keys, wave, todo, decided, files, tally>>
       \/ ~EveryRequestFailed /\ Return
    /\ UNCHANGED <<store, runs, faults, reviews, settled, raced, fresh>>

Bail ==
    /\ pc = "failed" /\ Return
    /\ UNCHANGED <<store, runs, faults, reviews, settled, raced, fresh>>

Crash ==
    /\ pc # "idle" /\ faults < MaxFaults
    /\ Return /\ faults' = faults + 1
    /\ UNCHANGED <<store, runs, reviews, settled, raced, fresh>>

-----------------------------------------------------------------------------
(* Reviewers, in processes of their own                                    *)

Scan == <<phase, next, snap, keys, wave, todo, decided, files, tally>>

\* An approval makes the alias the target's, and either verdict leaves the item
\* resolved before the decision is recorded.
Resolve(k) ==
    /\ k \in PendingItems /\ reviews < MaxReviews /\ reviews' = reviews + 1
    /\ \E verdict \in {"approved", "rejected"} :
       LET t == items[k].target  a == items[k].alias IN
       /\ verdict = "approved" =>
              \A u \in Targets \ {t} : accepted[u] = a =>
                  {u, t} \subseteq Symbols /\ Spelling[u] = Spelling[t]
       /\ items' = [items EXCEPT ![k].status = verdict]
       /\ accepted' = IF verdict = "approved" THEN [accepted EXCEPT ![t] = a] ELSE accepted
       /\ raced' = IF pc = "queue" /\ verdict = "approved" THEN raced \cup {a} ELSE raced
    /\ owed' = owed \cup {k}
    /\ UNCHANGED <<ledger, pc, Scan, runs, faults, settled, fresh>>

RecordDecision(k) ==
    /\ k \in owed
    /\ ledger' = ledger \cup {items[k].target} /\ owed' = owed \ {k}
    /\ UNCHANGED <<items, accepted, pc, Scan, runs, faults, reviews, settled, raced, fresh>>

\* The reviewer dies with the decision unwritten.
LoseDecision(k) ==
    /\ k \in owed /\ faults < MaxFaults
    /\ owed' = owed \ {k} /\ faults' = faults + 1
    /\ UNCHANGED <<items, ledger, accepted, pc, Scan, runs, reviews, settled, raced, fresh>>

Coordinator ==
    \/ ReadQueue \/ ReadLedger \/ Launch \/ NextPhase \/ Collect
    \/ BatchResult \/ ChunkResult \/ Drop \/ Enqueue \/ EnqueueFails
    \/ Committed \/ WaveDone \/ Finish \/ Bail

ScanStep == Coordinator \/ \E i \in DOMAIN work : WorkerStep(i)

Rest == pc = "idle" /\ runs = MaxRuns /\ UNCHANGED vars

Next ==
    \/ StartRun \/ ScanStep \/ Crash \/ Rest
    \/ \E k \in DOMAIN items : Resolve(k) \/ RecordDecision(k) \/ LoseDecision(k)

Spec == Init /\ [][Next]_vars

\* Some thread of the scan runs, and every request ends: the agent's global
\* timeout and the command's deadline see to it.
FairSpec == Spec /\ WF_vars(ScanStep)

-----------------------------------------------------------------------------
(* Properties                                                              *)

Proposals == {p \in UNION Answers : p.t \in Targets}
Exchange == [tries : Nat, again : BOOLEAN, state : {"asking", "answered", "error"},
             reply : Answers \cup {{}}]

Items == [target : Targets, alias : Aliases, status : {"pending", "approved", "rejected"}]

StoreTypes ==
    /\ items \in Seq(Items) /\ owed \subseteq DOMAIN items /\ fresh \subseteq DOMAIN items
    /\ ledger \subseteq Targets /\ accepted \in [Targets -> Aliases \cup {None}]

ScanTypes ==
    /\ pc \in {"idle", "queue", "ledger", "launch", "ask", "result", "commit", "failed"}
    /\ phase \in {"path", "chunk"} /\ next \in Nat \ {0} /\ at \in Nat \ {0}
    /\ snap \in [Targets -> Aliases \cup {None}]
    /\ pending \subseteq Targets /\ reserved \in [Aliases -> Targets \cup {None}]
    /\ successes \in Nat /\ errors \in Nat

WorkTypes == work \in Seq(Exchange) /\ Len(work) <= Jobs

OfferTypes ==
    /\ todo \subseteq Proposals /\ gathered \in [Files -> SUBSET Proposals]
    /\ remaining \in [Files -> Nat] /\ failed \subseteq Files

TypeOK == StoreTypes /\ ScanTypes /\ WorkTypes /\ OfferTypes

Alike(t, u) == t = u \/ ({t, u} \subseteq Symbols /\ Spelling[t] = Spelling[u])

\* A reviewer never finds two open questions about one target, although the
\* targets of a wave are offered to several requests at once, answers name them
\* again in other files, and a scan that died is started anew.
OnePendingPerTarget ==
    \A j, k \in PendingItems : items[j].target = items[k].target => j = k

\* What was decided when a scan began is not asked again by that scan, whether
\* the decision shows in the ledger or only as an accepted alias.
DecisionsAreKept == \A k \in fresh : items[k].target \notin settled

\* No queued alias is one another queued item or an accepted symbol already has,
\* unless the two symbols are spelled alike.  Aliases approved between a scan's
\* look at the accepted ones and its look at the queue are exempt: that scan saw
\* them in neither.
AliasesStayDistinct ==
    \A k \in PendingItems : items[k].alias \notin raced =>
        LET t == items[k].target IN
        /\ \A j \in PendingItems :
               items[j].alias = items[k].alias => Alike(items[j].target, t)
        /\ \A s \in Symbols : accepted[s] = items[k].alias => Alike(s, t)

\* A target is withheld from later requests only if a reviewer has or had it: a
\* rejected answer leaves it open for a later chunk.
SuppressedMeansQueued ==
    proposed \subseteq ledger \cup {items[k].target : k \in DOMAIN items}

\* When a scan has sent its last wave, every file had all of its chunks answered
\* and none of the proposals gathered for it were left behind.
EveryFileIsCommitted ==
    pc = "launch" /\ phase = "chunk" /\ next > Len(Chunks)
        => \A f \in Files : remaining[f] = 0 /\ gathered[f] = {}

\* The scan that gives up and quotes the first error of its report has one
\* there for every batch and for every file.
FailureHasAReason == pc = "failed" => errors = Len(Batches) + Cardinality(Files)

\* What a scan was answered is queued or open to later requests, and what it was
\* not answered is in its report.
NoAnswerIsLost == SuppressedMeansQueued /\ EveryFileIsCommitted /\ FailureHasAReason

\* Whatever the provider does, the scan returns.
ScanEnds == (pc # "idle") ~> (pc = "idle")
=============================================================================
