---------------------------- MODULE PartsProofs ----------------------------
(***************************************************************************)
(* The parts side by side.  Embed, for every set of files, texts           *)
(* and models and every bound: what embed-index leaves behind, what a      *)
(* search finds, and that a commit never stores the vectors of a text the  *)
(* mirror has left.  TuiJobs, for every set of items and endpoints, every  *)
(* number of jobs and of outside changes: one operation at a time, and     *)
(* what the operator decides is what he saw.  LspClient, for every list of *)
(* batches, every number of polls, attempts and retries and every server   *)
(* that keeps the protocol: no call takes an answer that is not its own,   *)
(* and a reference list is taken over only from the whole index.           *)
(***************************************************************************)
EXTENDS Embed, LspClient, TuiJobs, FiniteSetTheorems, TLAPS

(***************************************************************************)
(* Embed                                                                   *)
(***************************************************************************)


(***************************************************************************)
(* The inductive invariant                                                 *)
(***************************************************************************)

\* What the actions need to know of the shape of the state.
EmbedShape ==
    /\ docsTracked \subseteq Docs /\ embedder.todo \subseteq Docs
    /\ DOMAIN rendered = Docs /\ DOMAIN vectors = Docs
    /\ \A f \in Docs : vectors[f] = [text |-> vectors[f].text, model |-> vectors[f].model]
    /\ embedder = [pc |-> embedder.pc, model |-> embedder.model,
                   todo |-> embedder.todo, text |-> embedder.text]
    /\ searcher = [pc |-> searcher.pc, model |-> searcher.model,
                   hits |-> searcher.hits, mixed |-> searcher.mixed]
    /\ searcher.mixed \in BOOLEAN

\* While nothing changed beside a run, it has the configured model, only
\* tracked files have vectors, and those it has behind it are current.
Running == embedder.pc \in {"read", "ask", "commit", "done"}
RunIsAhead ==
    shifted = {} =>
        /\ embedder.pc \in {"sweep", "read", "ask", "commit", "done"} => embedder.model = model
        /\ Running =>
              /\ embedder.todo \subseteq docsTracked
              /\ \A f \in Docs : HasVectors(f) => f \in docsTracked
              /\ \A f \in docsTracked \ embedder.todo :
                     rendered[f] # Gone /\ Current(f, model)
        /\ embedder.pc \in {"ask", "commit"} => embedder.text = rendered[Doc]

\* What a commit is about is a file still to do.
RunHasWork ==
    /\ embedder.pc \in {"ask", "commit"} => embedder.todo # {} /\ embedder.text # Gone
    /\ embedder.pc = "done" => embedder.todo = {}

\* Between the gate and the scan every vector is of the model of the query,
\* and every tracked file is what its vectors were computed from.
GateHolds ==
    searcher.pc \in {"query", "scan"} /\ ~searcher.mixed =>
        /\ \A f \in Docs : HasVectors(f) => vectors[f].model = searcher.model
        /\ \A f \in docsTracked : Current(f, searcher.model)

EmbedInv == /\ EmbedShape /\ RunHasWork /\ RunIsAhead /\ GateHolds /\ HitsAreComparable

USE DEF EmbedIdle, SearchIdle, NoVectors, Gone, EmbedderOnly, SearcherOnly

(***************************************************************************)
(* Facts                                                                   *)
(***************************************************************************)

\* embed-index always has a first file to go on with.
LEMMA DocIsToDo ==
  ASSUME EmbedShape, embedder.todo # {}
  PROVE  Doc \in embedder.todo /\ Doc \in Docs
BY EmbedAssumption DEF EmbedShape, Doc, Min

\* The initial states satisfy the invariant.
LEMMA InitEmbedInv == EmbedInit => EmbedInv
BY DEF EmbedInit, EmbedInv, EmbedShape, RunHasWork, RunIsAhead, Running, GateHolds,
       HitsAreComparable

\* Removing the vectors of a set of files removes nothing else.
LEMMA RemovedVectors ==
  ASSUME EmbedShape, NEW S, RemoveEmbeddings(S)
  PROVE  /\ DOMAIN vectors' = Docs
         /\ \A f \in Docs : vectors'[f] = IF f \in S THEN NoVectors ELSE vectors[f]
         /\ \A f \in Docs : vectors'[f] = [text |-> vectors'[f].text,
                                           model |-> vectors'[f].model]
BY DEF EmbedShape, RemoveEmbeddings

(***************************************************************************)
(* Steps beside a run and a search: both remember that something changed   *)
(***************************************************************************)

\* Changes of mirrors, of the database and of the configuration.
LEMMA OutsideKeepsInv ==
  ASSUME EmbedInv, MirrorChanges \/ FileAppears \/ FileGoes \/ Reconfigure
  PROVE  EmbedInv'
<1>1. \E S : S # {} /\ Shift(S)
  BY EmbedAssumption DEF MirrorChanges, FileAppears, FileGoes, Reconfigure
<1>2. /\ shifted' # {} /\ UNCHANGED embedder
      /\ searcher' = [searcher EXCEPT !.mixed = @ \/ searcher.pc \in {"query", "scan", "answered"}]
  BY <1>1 DEF Shift
<1>3. /\ searcher'.pc = searcher.pc
      /\ searcher'.mixed \in BOOLEAN
      /\ searcher'.pc \in {"query", "scan", "answered"} => searcher'.mixed
      /\ searcher' = [pc |-> searcher'.pc, model |-> searcher'.model,
                      hits |-> searcher'.hits, mixed |-> searcher'.mixed]
  BY <1>2 DEF EmbedInv, EmbedShape
<1>4. /\ docsTracked' \subseteq Docs /\ DOMAIN rendered' = Docs /\ DOMAIN vectors' = Docs
      /\ \A f \in Docs : vectors'[f] = [text |-> vectors'[f].text, model |-> vectors'[f].model]
  <2>1. CASE MirrorChanges
    BY <2>1 DEF MirrorChanges, EmbedInv, EmbedShape
  <2>2. CASE FileAppears
    BY <2>2 DEF FileAppears, EmbedInv, EmbedShape
  <2>3. CASE FileGoes
    BY <2>3, RemovedVectors DEF FileGoes, EmbedInv, EmbedShape
  <2>4. CASE Reconfigure
    BY <2>4 DEF Reconfigure, EmbedInv, EmbedShape
  <2> QED BY <2>1, <2>2, <2>3, <2>4
<1>5. EmbedShape'
  BY <1>2, <1>3, <1>4 DEF EmbedInv, EmbedShape
<1>6. RunHasWork' /\ RunIsAhead'
  BY <1>2 DEF EmbedInv, RunHasWork, RunIsAhead
<1>7. GateHolds' /\ HitsAreComparable'
  BY <1>3 DEF GateHolds, HitsAreComparable
<1> QED BY <1>5, <1>6, <1>7 DEF EmbedInv

(***************************************************************************)
(* Steps of embed-index                                                    *)
(***************************************************************************)

\* The steps that store and remove nothing.
LEMMA RunKeepsInv ==
  ASSUME EmbedInv, StartEmbed \/ ReadMirror \/ AskVectors \/ EmbedDone
  PROVE  EmbedInv'
<1>1. UNCHANGED <<docsTracked, rendered, vectors, model, searcher>>
  BY DEF StartEmbed, ReadMirror, AskVectors, EmbedDone
<1>2. GateHolds' /\ HitsAreComparable'
  BY <1>1 DEF EmbedInv, GateHolds, HitsAreComparable, HasVectors, Current
<1>3. CASE StartEmbed
  BY <1>1, <1>2, <1>3 DEF StartEmbed, EmbedInv, EmbedShape, RunHasWork, RunIsAhead, Running
<1>4. CASE ReadMirror
  <2>1. Doc \in embedder.todo /\ Doc \in Docs
    BY <1>4, DocIsToDo DEF ReadMirror, EmbedInv
  <2>2. EmbedShape' /\ RunHasWork'
    BY <1>1, <1>4, <2>1
    DEF ReadMirror, EmbedFails, NextDoc, EmbedInv, EmbedShape, RunHasWork
  <2>3. RunIsAhead'
    <3>1. CASE embedder'.pc = "failed"
      BY <3>1 DEF RunIsAhead, Running
    <3>2. CASE NextDoc /\ rendered[Doc] # Gone /\ UpToDate(Doc)
      BY <1>1, <1>4, <2>1, <3>2
      DEF ReadMirror, NextDoc, EmbedInv, EmbedShape, RunIsAhead, Running, UpToDate, HasVectors,
          Current
    <3>3. CASE embedder' = [embedder EXCEPT !.pc = "ask", !.text = rendered[Doc]]
      <4>1. Doc' = Doc
        BY <3>3 DEF EmbedInv, EmbedShape, Doc
      <4> QED BY <1>1, <1>4, <3>3, <4>1
              DEF ReadMirror, EmbedInv, EmbedShape, RunIsAhead, Running, HasVectors, Current
    <3> QED BY <1>4, <3>1, <3>2, <3>3 DEF ReadMirror, EmbedFails
  <2> QED BY <1>2, <2>2, <2>3 DEF EmbedInv
<1>5. CASE AskVectors
  <2>1. EmbedShape' /\ RunHasWork'
    BY <1>1, <1>5 DEF AskVectors, EmbedFails, EmbedInv, EmbedShape, RunHasWork
  <2>2. RunIsAhead'
    <3>1. CASE embedder' = [embedder EXCEPT !.pc = "commit"]
      <4>1. Doc' = Doc
        BY <3>1 DEF EmbedInv, EmbedShape, Doc
      <4> QED BY <1>1, <1>5, <3>1, <4>1
              DEF AskVectors, EmbedInv, EmbedShape, RunIsAhead, Running, HasVectors, Current
    <3>2. CASE EmbedFails
      BY <3>2 DEF EmbedFails, RunIsAhead, Running
    <3> QED BY <1>5, <3>1, <3>2 DEF AskVectors
  <2> QED BY <1>2, <2>1, <2>2 DEF EmbedInv
<1>6. CASE EmbedDone
  BY <1>1, <1>2, <1>6
  DEF EmbedDone, EmbedInv, EmbedShape, RunHasWork, RunIsAhead, Running, HasVectors, Current
<1> QED BY <1>3, <1>4, <1>5, <1>6

\* The sweep of the files that are gone.
LEMMA SweepKeepsInv ==
  ASSUME EmbedInv, SweepVectors
  PROVE  EmbedInv'
<1>1. /\ UNCHANGED <<docsTracked, rendered, model, searcher, shifted>>
      /\ embedder' = [embedder EXCEPT !.pc = "read", !.todo = docsTracked]
  BY DEF SweepVectors
<1>2. /\ DOMAIN vectors' = Docs
      /\ \A f \in Docs : vectors'[f] = IF f \notin docsTracked /\ HasVectors(f)
                                       THEN NoVectors ELSE vectors[f]
      /\ \A f \in Docs : vectors'[f] = [text |-> vectors'[f].text, model |-> vectors'[f].model]
  BY RemovedVectors DEF SweepVectors, EmbedInv
<1>3. EmbedShape' /\ RunHasWork'
  BY <1>1, <1>2 DEF EmbedInv, EmbedShape, RunHasWork
<1>4. RunIsAhead'
  BY <1>1, <1>2 DEF SweepVectors, EmbedInv, EmbedShape, RunIsAhead, Running, HasVectors, Current
<1>5. GateHolds' /\ HitsAreComparable'
  BY <1>1, <1>2
  DEF EmbedInv, EmbedShape, GateHolds, HitsAreComparable, HasVectors, Current
<1> QED BY <1>3, <1>4, <1>5 DEF EmbedInv

\* Storing the vectors of one file, if its mirror is still the same.
LEMMA CommitKeepsInv ==
  ASSUME EmbedInv, CommitVectors
  PROVE  EmbedInv'
<1>1. /\ UNCHANGED <<docsTracked, rendered, model, shifted>>
      /\ searcher' = [searcher EXCEPT !.mixed = @ \/ searcher.pc \in {"query", "scan", "answered"}]
      /\ embedder.pc = "commit"
  BY DEF CommitVectors
<1>2. Doc \in embedder.todo /\ Doc \in Docs
  BY <1>1, DocIsToDo DEF EmbedInv, RunHasWork
<1>3. \/ vectors' = vectors /\ (rendered[Doc] = Gone \/ rendered[Doc] # embedder.text)
      \/ /\ rendered[Doc] = embedder.text
         /\ vectors' = [vectors EXCEPT ![Doc] = [text |-> embedder.text, model |-> embedder.model]]
  BY DEF CommitVectors, ReplaceEmbeddings
<1>4. /\ DOMAIN vectors' = Docs
      /\ \A f \in Docs : vectors'[f] = [text |-> vectors'[f].text, model |-> vectors'[f].model]
  BY <1>2, <1>3 DEF EmbedInv, EmbedShape
<1>5. \/ embedder' = [EmbedIdle EXCEPT !.pc = "failed", !.model = embedder.model]
      \/ /\ embedder' = [embedder EXCEPT !.pc = "read", !.todo = @ \ {Doc}, !.text = Gone]
         /\ rendered[Doc] # Gone
  BY DEF CommitVectors, EmbedFails, NextDoc
<1>6. RunHasWork' /\ embedder'.todo \subseteq Docs
  BY <1>5 DEF EmbedInv, EmbedShape, RunHasWork
<1>7. EmbedShape'
  BY <1>1, <1>4, <1>5 DEF EmbedInv, EmbedShape
<1>8. RunIsAhead'
  <2>1. SUFFICES ASSUME shifted = {} PROVE RunIsAhead'
    BY <1>1 DEF RunIsAhead
  <2>2. CASE embedder'.pc = "failed"
    BY <2>2 DEF RunIsAhead, Running
  <2>3. CASE /\ embedder' = [embedder EXCEPT !.pc = "read", !.todo = @ \ {Doc}, !.text = Gone]
             /\ rendered[Doc] # Gone
    <3>1. /\ embedder.text = rendered[Doc] /\ embedder.model = model
          /\ Doc \in docsTracked /\ embedder.todo \subseteq docsTracked
          /\ \A f \in Docs : HasVectors(f) => f \in docsTracked
          /\ \A f \in docsTracked \ embedder.todo : rendered[f] # Gone /\ Current(f, model)
      BY <1>1, <1>2, <2>1 DEF EmbedInv, RunIsAhead, Running
    <3>2. vectors' = [vectors EXCEPT ![Doc] = [text |-> embedder.text, model |-> embedder.model]]
      BY <1>3, <2>3, <3>1
    <3>3. \A f \in docsTracked \ embedder'.todo : rendered'[f] # Gone /\ Current(f, model)'
      BY <1>1, <1>2, <2>3, <3>1, <3>2 DEF EmbedInv, EmbedShape, Current
    <3>4. \A f \in Docs : HasVectors(f)' => f \in docsTracked
      BY <1>2, <3>1, <3>2 DEF EmbedInv, EmbedShape, HasVectors
    <3> QED BY <1>1, <2>3, <3>1, <3>3, <3>4 DEF EmbedInv, EmbedShape, RunIsAhead, Running
  <2> QED BY <1>5, <2>2, <2>3
<1>9. GateHolds' /\ HitsAreComparable'
  BY <1>1 DEF EmbedInv, EmbedShape, GateHolds, HitsAreComparable
<1> QED BY <1>6, <1>7, <1>8, <1>9 DEF EmbedInv

(***************************************************************************)
(* Steps of semantic-search                                                *)
(***************************************************************************)
\* The gate, the request of the query and the scan.
LEMMA SearchKeepsInv ==
  ASSUME EmbedInv, StartSearch \/ SearchStep
  PROVE  EmbedInv'
<1>1. UNCHANGED <<docsTracked, rendered, vectors, model, embedder, shifted>>
  BY DEF StartSearch, SearchStep, Gate, EmbedQuery, Scan
<1>2. RunHasWork' /\ RunIsAhead'
  BY <1>1
  DEF EmbedInv, RunHasWork, RunIsAhead, Running, HasVectors, Current, Doc, Min
<1>3. EmbedShape'
  <2>1. \/ searcher' = SearchIdle
        \/ searcher' = [SearchIdle EXCEPT !.pc = "gate", !.model = model]
        \/ searcher' = [searcher EXCEPT !.pc = "query"]
        \/ searcher' = [searcher EXCEPT !.pc = "scan"]
        \/ searcher' = [searcher EXCEPT !.pc = "answered", !.hits = EmbeddedVectors]
    BY DEF StartSearch, SearchStep, Gate, EmbedQuery, Scan
  <2>2. /\ searcher'.mixed \in BOOLEAN
        /\ searcher' = [pc |-> searcher'.pc, model |-> searcher'.model,
                        hits |-> searcher'.hits, mixed |-> searcher'.mixed]
    <3>1. /\ searcher = [pc |-> searcher.pc, model |-> searcher.model,
                         hits |-> searcher.hits, mixed |-> searcher.mixed]
          /\ searcher.mixed \in BOOLEAN
      BY DEF EmbedInv, EmbedShape
    <3>2. CASE searcher' = SearchIdle
      BY <3>2, SMT
    <3>3. CASE searcher' = [SearchIdle EXCEPT !.pc = "gate", !.model = model]
      <4>1. searcher' = [pc |-> "gate", model |-> model, hits |-> {}, mixed |-> FALSE]
        BY <3>3
      <4> QED BY <4>1
    <3>4. CASE \/ searcher' = [searcher EXCEPT !.pc = "query"]
               \/ searcher' = [searcher EXCEPT !.pc = "scan"]
      BY <3>1, <3>4
    <3>5. CASE searcher' = [searcher EXCEPT !.pc = "answered", !.hits = EmbeddedVectors]
      BY <3>1, <3>5
    <3> QED BY <2>1, <3>2, <3>3, <3>4, <3>5
  <2> QED BY <1>1, <2>2 DEF EmbedInv, EmbedShape
<1>4. GateHolds' /\ HitsAreComparable'
  <2>1. CASE StartSearch
    BY <1>1, <2>1 DEF StartSearch, EmbedInv, EmbedShape, GateHolds, HitsAreComparable
  <2>2. CASE Gate
    BY <1>1, <2>2
    DEF Gate, GatePasses, EmbedInv, EmbedShape, GateHolds, HitsAreComparable, HasVectors, Current
  <2>3. CASE EmbedQuery
    BY <1>1, <2>3
    DEF EmbedQuery, EmbedInv, EmbedShape, GateHolds, HitsAreComparable, HasVectors, Current
  <2>4. CASE Scan
    <3>1. CASE searcher' = SearchIdle
      BY <3>1 DEF GateHolds, HitsAreComparable
    <3>2. CASE searcher' = [searcher EXCEPT !.pc = "answered", !.hits = EmbeddedVectors]
      <4>1. /\ searcher'.pc = "answered" /\ searcher'.hits = EmbeddedVectors
            /\ searcher'.model = searcher.model /\ searcher'.mixed = searcher.mixed
        BY <3>2 DEF EmbedInv, EmbedShape
      <4>2. SUFFICES ASSUME ~searcher.mixed, NEW h \in EmbeddedVectors
                     PROVE  /\ h[2].model = searcher.model
                            /\ h[1] \in docsTracked => h[2].text = rendered[h[1]]
        BY <1>1, <4>1 DEF GateHolds, HitsAreComparable
      <4>3. PICK f \in Docs : HasVectors(f) /\ h = <<f, vectors[f]>>
        BY DEF EmbeddedVectors
      <4>4. /\ vectors[f].model = searcher.model
            /\ f \in docsTracked => Current(f, searcher.model)
        BY <2>4, <4>2, <4>3 DEF Scan, EmbedInv, GateHolds
      <4>5. f \in docsTracked => vectors[f].text = rendered[f]
        BY <4>4 DEF Current
      <4> QED BY <4>3, <4>4, <4>5
    <3> QED BY <2>4, <3>1, <3>2 DEF Scan
  <2> QED BY <2>1, <2>2, <2>3, <2>4 DEF SearchStep
<1> QED BY <1>2, <1>3, <1>4 DEF EmbedInv

(***************************************************************************)
(* The theorems                                                            *)
(***************************************************************************)

\* No step of a run, of a search or beside them leaves the invariant.
LEMMA EmbedStepKeepsInv == EmbedInv /\ [EmbedNext]_embedVars => EmbedInv'
<1> SUFFICES ASSUME EmbedInv, [EmbedNext]_embedVars PROVE EmbedInv'
  OBVIOUS
<1>1. CASE MirrorChanges \/ FileAppears \/ FileGoes \/ Reconfigure
  BY <1>1, OutsideKeepsInv
<1>2. CASE StartEmbed \/ EmbedStep
  BY <1>2, RunKeepsInv, SweepKeepsInv, CommitKeepsInv DEF EmbedStep
<1>3. CASE StartSearch \/ SearchStep
  BY <1>3, SearchKeepsInv
<1>4. CASE EmbedRest \/ UNCHANGED embedVars
  BY <1>4
  DEF EmbedRest, embedVars, EmbedInv, EmbedShape, RunHasWork, RunIsAhead, Running, GateHolds,
      HitsAreComparable, HasVectors, Current, Doc, Min
<1> QED BY <1>1, <1>2, <1>3, <1>4 DEF EmbedNext

\* After a run that nothing disturbed the gate opens; a hit that the index did
\* not leave behind is of the model of the query and of the text the mirror
\* shows.
LEMMA InvIsTrustworthy == EmbedInv => SearchIsTrustworthy
<1> SUFFICES ASSUME EmbedInv, embedder.pc = "done", shifted = {}, docsTracked # {}
             PROVE  GatePasses(model)
  BY DEF SearchIsTrustworthy, ConvergedIsSearchable, EmbedInv
<1>1. /\ \A f \in Docs : HasVectors(f) => f \in docsTracked
      /\ \A f \in docsTracked : rendered[f] # Gone /\ Current(f, model)
  BY DEF EmbedInv, RunHasWork, RunIsAhead, Running
<1>2. ASSUME NEW f \in docsTracked
      PROVE  vectors[f].text = rendered[f] /\ vectors[f].model = model
  <2>1. vectors[f] = [text |-> rendered[f], model |-> model]
    BY <1>1 DEF Current
  <2> QED BY <2>1
<1>3. \A f \in docsTracked : HasVectors(f)
  BY <1>1, <1>2 DEF HasVectors
<1>4. docsTracked \subseteq Docs
  BY DEF EmbedInv, EmbedShape
<1>5. \E f \in Docs : HasVectors(f)
  BY <1>3, <1>4
<1> QED BY <1>1, <1>2, <1>5 DEF GatePasses

\* For any number of files, texts, models, changes and runs, embed-index and
\* semantic-search (embed.rs) keep what the run `parts` checks of them.
THEOREM SearchTrustworthy == EmbedSpec => []SearchIsTrustworthy
BY InitEmbedInv, EmbedStepKeepsInv, InvIsTrustworthy, PTL DEF EmbedSpec

\* commit_file_embeddings: vectors are stored only while the mirror holds the
\* text they were computed from.
LEMMA StepStoresCurrentVectors ==
  EmbedInv /\ [EmbedNext]_embedVars =>
      [\A f \in Docs : vectors'[f] # vectors[f] /\ vectors'[f] # NoVectors
             => vectors'[f].text = rendered[f]]_embedVars
<1> SUFFICES ASSUME EmbedInv, EmbedNext, NEW f \in Docs,
                    vectors'[f] # vectors[f], vectors'[f] # NoVectors
             PROVE  vectors'[f].text = rendered[f]
  OBVIOUS
<1>1. CASE CommitVectors
  <2>1. Doc \in Docs
    BY <1>1, DocIsToDo DEF CommitVectors, EmbedInv, RunHasWork
  <2> QED BY <1>1, <2>1 DEF CommitVectors, ReplaceEmbeddings, EmbedInv, EmbedShape
<1>2. CASE FileGoes \/ SweepVectors
  BY <1>2, RemovedVectors DEF FileGoes, SweepVectors, EmbedInv
<1>3. CASE UNCHANGED vectors
  BY <1>3
<1> QED BY <1>1, <1>2, <1>3
    DEF EmbedNext, MirrorChanges, FileAppears, Reconfigure, StartEmbed, EmbedStep, ReadMirror,
        AskVectors, EmbedDone, StartSearch, SearchStep, Gate, EmbedQuery, Scan, EmbedRest, embedVars

\* commit_file_embeddings (embed.rs:225-244) compares the mirror with the text
\* it has vectors of: while the endpoint computed, an index pass or another
\* run may have put newer ones in place, and those stay.
THEOREM NewerVectorsSurviveAlways == EmbedSpec => NewerVectorsSurvive
BY InitEmbedInv, EmbedStepKeepsInv, StepStoresCurrentVectors, PTL DEF EmbedSpec, NewerVectorsSurvive

(***************************************************************************)
(* TuiJobs                                                                 *)
(***************************************************************************)

HIDE DEF EmbedIdle, SearchIdle, NoVectors, Gone, EmbedderOnly, SearcherOnly
USE DEF NoAction, NoModal, Local

(***************************************************************************)
(* The inductive invariant                                                 *)
(***************************************************************************)

Lists == [Reviews -> Statuses]
Actions == [kind : {"none", "index", "approve", "reject", "propose"}, ids : SUBSET Reviews,
            endpoint : BOOLEAN, named : {"nothing", "local", "endpoint"}]
Modals == [kind : {"none", "help", "confirm", "dialog"}, action : Actions, required : BOOLEAN]

IsScreen(s) ==
    /\ s = [list |-> s.list, selected |-> s.selected, checked |-> s.checked,
            all |-> s.all, filter |-> s.filter]
    /\ s.list \in Lists /\ s.checked \subseteq Reviews /\ s.all \in BOOLEAN

\* What the actions need to know of the shape of the state.
TuiShape ==
    /\ queue \in Lists
    /\ IsScreen(screen)
    /\ modal \in Modals /\ job \in Actions /\ events \in Seq({"finished"})
    /\ \A w \in workers : /\ w = [action |-> w.action, left |-> w.left, n |-> w.n]
                          /\ w.action \in Actions

\* The job on the screen is one thread at work or its last event, and a
\* dialog or a confirmation stands only over an idle interface.
JobIsAlone ==
    /\ \/ job = NoAction /\ workers = {} /\ events = <<>>
       \/ job # NoAction /\ (\E w \in workers : workers = {w}) /\ events = <<>>
       \/ job # NoAction /\ workers = {} /\ Len(events) = 1
    /\ modal.kind \in {"confirm", "dialog"} => job = NoAction /\ modal.action.kind # "none"
    /\ quit => workers = {}

\* A dialog that names a local provider asks for no consent and has none, and
\* so does the action it starts.
LocalHasNoConsent ==
    /\ \A w \in workers : w.action.named = "local" => ~w.action.endpoint
    /\ modal.action.named = "local" => ~modal.action.endpoint /\ ~modal.required

TuiInv == TuiShape /\ JobIsAlone /\ LocalHasNoConsent /\ OperatorDecides

(***************************************************************************)
(* Facts about the screen                                                  *)
(***************************************************************************)
\* Clamping the selection changes nothing else.
LEMMA ClampedScreen ==
  ASSUME NEW s, IsScreen(s)
  PROVE  /\ IsScreen(Clamped(s))
         /\ Clamped(s).list = s.list /\ Clamped(s).checked = s.checked
         /\ Clamped(s).all = s.all
<1> DEFINE n == IF s.selected < Cardinality(Filtered(s)) THEN s.selected
                ELSE IF Filtered(s) = {} THEN 0 ELSE Cardinality(Filtered(s)) - 1
<1>1. Clamped(s) = [s EXCEPT !.selected = n]
  BY DEF Clamped
<1> HIDE DEF n
<1> QED BY <1>1 DEF IsScreen

\* What list_review answers is a list of items and their statuses.
LEMMA ListedIsList ==
  ASSUME queue \in Lists, NEW all
  PROVE  Listed(all) \in Lists
BY DEF Lists, Listed, Statuses

\* Reading the lists again keeps only checks on pending items.
LEMMA RelistedScreen ==
  ASSUME NEW s, IsScreen(s), NEW L \in Lists
  PROVE  /\ IsScreen(Relisted(s, L))
         /\ Relisted(s, L).list = L /\ Relisted(s, L).all = s.all
         /\ Relisted(s, L).checked \subseteq Pending(L)
<1> DEFINE C == s.checked \cap Pending(L)
           t == [s EXCEPT !.list = L, !.checked = C]
<1>1. Relisted(s, L) = Clamped(t)
  BY DEF Relisted
<1>2. C \subseteq Reviews /\ C \subseteq Pending(L)
  BY DEF Pending
<1> HIDE DEF C
<1> DEFINE u == [s EXCEPT !.list = L]
<1>3. IsScreen(u) /\ u.list = L /\ u.all = s.all /\ u.checked = s.checked
  BY <1>2 DEF IsScreen
<1>3b. t = [u EXCEPT !.checked = C]
  OBVIOUS
<1> HIDE DEF u, t
<1>4. IsScreen(t) /\ t.list = L /\ t.all = s.all /\ t.checked = C
  BY <1>2, <1>3, <1>3b DEF IsScreen
<1>5. /\ IsScreen(Relisted(s, L)) /\ Relisted(s, L).list = L /\ Relisted(s, L).all = s.all
      /\ Relisted(s, L).checked = C
  BY <1>1, <1>4, ClampedScreen
<1> QED BY <1>2, <1>5

\* The queue as it is, or lists that claim nothing about it.
ShowsQueue == screen'.list = Listed(screen'.all) \/ current' = FALSE

\* A refresh shows the queue, or nothing when it cannot be read.
LEMMA RefreshedScreen ==
  ASSUME NEW s, IsScreen(s), queue \in Lists, Refresh(s)
  PROVE  IsScreen(screen') /\ ShowsQueue /\ screen'.checked \subseteq Pending(screen'.list)
<1> DEFINE Nothing == [i \in Reviews |-> "absent"]
<1>1. Listed(s.all) \in Lists /\ Nothing \in Lists
  BY ListedIsList DEF Lists, Statuses
<1>2. CASE screen' = Refreshed(s)
  BY <1>1, <1>2, RelistedScreen DEF Refreshed, ShowsQueue
<1>3. CASE screen' = Relisted(s, Nothing) /\ current' = FALSE
  <2> HIDE DEF Nothing
  <2> QED BY <1>1, <1>3, RelistedScreen DEF ShowsQueue
<1> QED BY <1>2, <1>3 DEF Refresh

\* The idle job and the closed modal have the shape of the others.
LEMMA NoActionIsAction ==
  NoAction \in Actions /\ NoModal \in Modals
BY DEF Actions, Modals

\* Actions as explicit records.
LEMMA ActionRecord ==
  ASSUME NEW kind, NEW x
  PROVE  /\ Action(kind) = [kind |-> kind, ids |-> {}, endpoint |-> FALSE, named |-> "nothing"]
         /\ [Action(kind) EXCEPT !.ids = x]
            = [kind |-> kind, ids |-> x, endpoint |-> FALSE, named |-> "nothing"]
         /\ [Action(kind) EXCEPT !.endpoint = TRUE]
            = [kind |-> kind, ids |-> {}, endpoint |-> TRUE, named |-> "nothing"]
         /\ [Action(kind) EXCEPT !.named = x]
            = [kind |-> kind, ids |-> {}, endpoint |-> FALSE, named |-> x]
<1> DEFINE e == FALSE
           t == TRUE
           r == [kind |-> "none", ids |-> {}, endpoint |-> e, named |-> "nothing"]
<1>1. Action(kind) = [r EXCEPT !.kind = kind]
  BY DEF Action
<1> HIDE DEF e, t
<1>2. Action(kind) = [kind |-> kind, ids |-> {}, endpoint |-> e, named |-> "nothing"]
  BY <1>1
<1> HIDE DEF r
<1>3. /\ [Action(kind) EXCEPT !.ids = x]
         = [kind |-> kind, ids |-> x, endpoint |-> e, named |-> "nothing"]
      /\ [Action(kind) EXCEPT !.endpoint = t]
         = [kind |-> kind, ids |-> {}, endpoint |-> t, named |-> "nothing"]
      /\ [Action(kind) EXCEPT !.named = x]
         = [kind |-> kind, ids |-> {}, endpoint |-> e, named |-> x]
  BY <1>2
<1> QED BY <1>2, <1>3 DEF e, t

(***************************************************************************)
(* Starting an operation                                                   *)
(***************************************************************************)

\* What RequestAction and its callers leave alone.
LEMMA StartKeepsInv ==
  ASSUME TuiInv, NEW action \in Actions, action.kind # "none",
         job = NoAction, ~quit, action.named = "local" => ~action.endpoint,
         StartAction(action), OffScreen, UNCHANGED quit
  PROVE  TuiInv'
<1> DEFINE w == [action |-> action, left |-> action.ids, n |-> jobs]
<1>1. /\ workers = {} /\ events = <<>> /\ workers' = {w} /\ w.action = action
      /\ w = [action |-> w.action, left |-> w.left, n |-> w.n]
  BY DEF TuiInv, JobIsAlone, StartAction
<1>2. /\ job' = action /\ modal' = NoModal
      /\ UNCHANGED <<queue, destination, screen, events, quit, outside, current, sent>>
  BY DEF StartAction, OffScreen
<1> HIDE DEF w
<1>3. modal' \in Modals
  BY <1>2, NoActionIsAction DEF Modals
<1>4. TuiShape'
  BY <1>1, <1>2, <1>3 DEF TuiInv, TuiShape
<1>5. JobIsAlone'
  BY <1>1, <1>2 DEF JobIsAlone
<1>6. LocalHasNoConsent'
  BY <1>1, <1>2 DEF LocalHasNoConsent
<1>7. OperatorDecides'
  BY <1>2 DEF TuiInv, OperatorDecides, ShownIsCurrent, ChecksArePending, SentWithConsent, Listed
<1> QED BY <1>4, <1>5, <1>6, <1>7 DEF TuiInv

(***************************************************************************)
(* The other steps                                                         *)
(***************************************************************************)

\* A step of the loop that moves over the lists or a modal view of them.
LEMMA ScreenKeepsInv ==
  ASSUME TuiInv, UNCHANGED <<queue, destination, workers, events, jobs, sent>>,
         UNCHANGED <<modal, job>>, quit' => quit \/ job = NoAction,
         IsScreen(screen'), screen'.checked \subseteq Pending(screen'.list),
         \/ UNCHANGED current /\ screen'.list = screen.list /\ screen'.all = screen.all
         \/ ShowsQueue
  PROVE  TuiInv'
<1>1. TuiShape'
  BY DEF TuiInv, TuiShape
<1>2. JobIsAlone' /\ LocalHasNoConsent'
  BY DEF TuiInv, JobIsAlone, LocalHasNoConsent
<1>3. OperatorDecides'
  BY DEF TuiInv, OperatorDecides, ShownIsCurrent, ChecksArePending, SentWithConsent, ShowsQueue,
         Listed
<1> QED BY <1>1, <1>2, <1>3 DEF TuiInv

\* A step that opens or closes a modal view over an idle interface.
LEMMA ModalKeepsInv ==
  ASSUME TuiInv, OffScreen, UNCHANGED <<job, workers>>, modal' \in Modals,
         modal'.kind \in {"confirm", "dialog"} => job = NoAction /\ modal'.action.kind # "none",
         modal'.action.named = "local" => ~modal'.action.endpoint /\ ~modal'.required
  PROVE  TuiInv'
<1>1. TuiShape'
  BY DEF TuiInv, TuiShape, OffScreen
<1>2. JobIsAlone' /\ LocalHasNoConsent'
  BY DEF TuiInv, JobIsAlone, LocalHasNoConsent, OffScreen
<1>3. OperatorDecides'
  BY DEF TuiInv, OperatorDecides, ShownIsCurrent, ChecksArePending, SentWithConsent, OffScreen,
         Listed
<1> QED BY <1>1, <1>2, <1>3 DEF TuiInv

\* A request starts its action, asks for confirmation or is refused.
LEMMA RequestKeepsInv ==
  ASSUME TuiInv, NEW action \in Actions, action.kind # "none", action.named = "nothing",
         ~quit, RequestAction(action), OffScreen
  PROVE  TuiInv'
<1>1. CASE job # NoAction
  <2>1. UNCHANGED <<job, workers, modal>>
    BY <1>1 DEF RequestAction, DoNothing
  <2>2. modal \in Modals /\ modal.kind \notin {"confirm", "dialog"}
    BY <1>1 DEF TuiInv, TuiShape, JobIsAlone
  <2> QED BY <2>1, <2>2, ModalKeepsInv DEF TuiInv, LocalHasNoConsent
<1>2. CASE job = NoAction /\ action.kind = "index"
  BY <1>2, StartKeepsInv DEF RequestAction, OffScreen
<1>3. CASE job = NoAction /\ action.kind # "index"
  <2>1. /\ UNCHANGED <<job, workers>>
        /\ modal' = [NoModal EXCEPT !.kind = "confirm", !.action = action]
    BY <1>3 DEF RequestAction, Confirm
  <2>2. modal' = [kind |-> "confirm", action |-> action, required |-> FALSE]
    BY <2>1
  <2>3. modal' \in Modals
    BY <2>2 DEF Modals
  <2> QED BY <1>3, <2>1, <2>2, <2>3, ModalKeepsInv
<1> QED BY <1>1, <1>2, <1>3

\* The interface starts idle, over the queue as it is.
LEMMA InitTuiInv ==
  TuiInit => TuiInv
<1> SUFFICES ASSUME TuiInit PROVE TuiInv
  OBVIOUS
<1> USE DEF TuiInit
<1>1. queue \in Lists /\ screen.list \in Lists
  BY DEF Lists, Statuses
<1>2. IsScreen(screen)
  BY <1>1 DEF IsScreen
<1>3. modal \in Modals
  BY NoActionIsAction DEF Modals
<1>4. TuiShape
  BY <1>1, <1>2, <1>3, NoActionIsAction DEF TuiShape
<1>5. JobIsAlone /\ LocalHasNoConsent
  BY DEF JobIsAlone, LocalHasNoConsent
<1>6. screen.list = Listed(screen.all)
  BY DEF Listed
<1>7. OperatorDecides
  BY <1>6 DEF OperatorDecides, ShownIsCurrent, ChecksArePending, SentWithConsent
<1> QED BY <1>4, <1>5, <1>7 DEF TuiInv

\* Polling the workers, reading the queue again, help and quit.
LEMMA LoopKeepsInv ==
  ASSUME TuiInv, PollWorkers \/ NoInput \/ Reload \/ Help \/ RequestQuit
  PROVE  TuiInv'
<1>1. CASE PollWorkers
  <2> USE <1>1 DEF PollWorkers
  <2>1. CASE events = <<>>
    <3>1. TuiShape' /\ JobIsAlone' /\ LocalHasNoConsent'
      BY <2>1 DEF TuiInv, TuiShape, JobIsAlone, LocalHasNoConsent
    <3>2. OperatorDecides'
      BY <2>1 DEF TuiInv, OperatorDecides, ShownIsCurrent, ChecksArePending, SentWithConsent, Listed
    <3> QED BY <3>1, <3>2 DEF TuiInv
  <2>2. CASE events # <<>>
    <3>1. job' = NoAction /\ Refresh(screen) /\ events' = <<>>
      BY <2>2
    <3>2. /\ IsScreen(screen') /\ ShowsQueue
          /\ screen'.checked \subseteq Pending(screen'.list)
      BY <3>1, RefreshedScreen DEF TuiInv, TuiShape
    <3>3. TuiShape'
      BY <3>1, <3>2, NoActionIsAction DEF TuiInv, TuiShape
    <3>4. workers = {} /\ job # NoAction
      BY <2>2 DEF TuiInv, JobIsAlone
    <3>5. JobIsAlone' /\ LocalHasNoConsent'
      BY <3>1, <3>4 DEF TuiInv, JobIsAlone, LocalHasNoConsent
    <3>6. OperatorDecides'
      BY <3>2 DEF TuiInv, OperatorDecides, ShownIsCurrent, ChecksArePending, SentWithConsent,
                  Listed, ShowsQueue
    <3> QED BY <3>3, <3>5, <3>6 DEF TuiInv
  <2> QED BY <2>1, <2>2
<1>2. CASE NoInput
  BY <1>2, ScreenKeepsInv
  DEF NoInput, OnScreen, TuiInv, TuiShape, OperatorDecides, ChecksArePending
<1>3. CASE Reload
  <2>1. PICK all \in BOOLEAN : Refresh([screen EXCEPT !.all = all])
    BY <1>3 DEF Reload
  <2> DEFINE s == [screen EXCEPT !.all = all]
  <2>2. IsScreen(s)
    BY DEF TuiInv, TuiShape, IsScreen
  <2> HIDE DEF s
  <2>3. IsScreen(screen') /\ ShowsQueue /\ screen'.checked \subseteq Pending(screen'.list)
    BY <2>1, <2>2, RefreshedScreen DEF TuiInv, TuiShape, s
  <2> QED BY <1>3, <2>3, ScreenKeepsInv DEF Reload
<1>4. CASE Help
  <2>1. modal' = NoModal \/ modal' = [kind |-> "help", action |-> NoAction, required |-> FALSE]
    BY <1>4 DEF Help
  <2>2. [kind |-> "help", action |-> NoAction, required |-> FALSE] \in Modals
    BY NoActionIsAction DEF Modals
  <2>3. modal' \in Modals
    BY <2>1, <2>2, NoActionIsAction
  <2> QED BY <2>3, <1>4, <2>1, <2>2, ModalKeepsInv DEF Help, OnScreen, OffScreen
<1>5. CASE RequestQuit
  BY <1>5, ScreenKeepsInv
  DEF RequestQuit, OnScreen, TuiInv, TuiShape, OperatorDecides, ChecksArePending
<1> QED BY <1>1, <1>2, <1>3, <1>4, <1>5

\* Moving over the lists and checking items.
LEMMA BrowseKeepsInv ==
  ASSUME TuiInv, Browse
  PROVE  TuiInv'
<1>1. /\ IsScreen(screen) /\ screen.checked \subseteq Pending(screen.list)
      /\ OnScreen /\ UNCHANGED <<modal, job, quit, current>>
  BY DEF TuiInv, TuiShape, OperatorDecides, ChecksArePending, Browse
<1> DEFINE Same(s) == /\ IsScreen(s) /\ s.list = screen.list /\ s.all = screen.all
                      /\ s.checked \subseteq Pending(s.list)
<1>2. ASSUME Same(screen') PROVE TuiInv'
  BY <1>1, <1>2, ScreenKeepsInv DEF OnScreen
<1>3. ASSUME NEW n, screen' = Clamped([screen EXCEPT !.selected = n])
      PROVE  Same(screen')
  <2> DEFINE s == [screen EXCEPT !.selected = n]
  <2>1. Same(s)
    BY <1>1 DEF IsScreen
  <2> HIDE DEF s
  <2> QED BY <1>3, <2>1, ClampedScreen DEF s
<1>4. ASSUME NEW i \in Pending(screen.list), NEW n,
             screen' = [screen EXCEPT !.checked = IF i \in @ THEN @ \ {i} ELSE @ \cup {i},
                                      !.selected = n]
      PROVE  Same(screen')
  <2> DEFINE C == IF i \in screen.checked THEN screen.checked \ {i} ELSE screen.checked \cup {i}
             s == [screen EXCEPT !.checked = C]
  <2>1. C \subseteq Pending(screen.list) /\ C \subseteq Reviews
    BY <1>1 DEF Pending
  <2> HIDE DEF C
  <2>2. Same(s)
    BY <1>1, <2>1 DEF IsScreen
  <2>3. screen' = [s EXCEPT !.selected = n]
    BY <1>4 DEF C
  <2> HIDE DEF s
  <2> QED BY <2>2, <2>3 DEF IsScreen
<1>5. ASSUME NEW shown, shown \subseteq Pending(screen.list),
             screen' = [screen EXCEPT !.checked = IF shown \subseteq @ THEN @ \ shown
                                                  ELSE @ \cup shown]
      PROVE  Same(screen')
  <2> DEFINE C == IF shown \subseteq screen.checked THEN screen.checked \ shown
                  ELSE screen.checked \cup shown
  <2>1. C \subseteq Pending(screen.list) /\ C \subseteq Reviews
    BY <1>1, <1>5 DEF Pending
  <2>2. screen' = [screen EXCEPT !.checked = C]
    BY <1>5
  <2> HIDE DEF C
  <2> QED BY <1>1, <2>1, <2>2 DEF IsScreen
<1>6. ASSUME screen' = Clamped([screen EXCEPT !.filter = ~@])
      PROVE  Same(screen')
  <2> DEFINE b == ~screen.filter
             s == [screen EXCEPT !.filter = b]
  <2>1. screen' = Clamped(s)
    BY <1>6
  <2> HIDE DEF b
  <2>2. Same(s)
    BY <1>1 DEF IsScreen
  <2> HIDE DEF s
  <2> QED BY <2>1, <2>2, ClampedScreen
<1>7. CASE \E k \in {1, 2} :
             screen' = Clamped([screen EXCEPT !.selected =
                                    IF k = 1 THEN @ + 1 ELSE IF @ = 0 THEN 0 ELSE @ - 1])
  <2>1. PICK k \in {1, 2} :
             screen' = Clamped([screen EXCEPT !.selected =
                                    IF k = 1 THEN @ + 1 ELSE IF @ = 0 THEN 0 ELSE @ - 1])
    BY <1>7
  <2> QED BY <1>2, <1>3, <2>1
<1>8. CASE \E i \in Filtered(screen) :
             /\ screen.list[i] = "pending"
             /\ screen' = [screen EXCEPT
                    !.checked = IF i \in @ THEN @ \ {i} ELSE @ \cup {i},
                    !.selected = Cardinality({j \in Filtered(screen) : j < i})]
  <2>1. PICK i \in Filtered(screen) :
             /\ screen.list[i] = "pending"
             /\ screen' = [screen EXCEPT
                    !.checked = IF i \in @ THEN @ \ {i} ELSE @ \cup {i},
                    !.selected = Cardinality({j \in Filtered(screen) : j < i})]
    BY <1>8
  <2>2. i \in Pending(screen.list)
    BY <2>1 DEF Filtered, Pending
  <2> QED BY <1>2, <1>4, <2>1, <2>2
<1>9. CASE LET shown == Filtered(screen) \cap Pending(screen.list)
           IN  screen' = [screen EXCEPT !.checked = IF shown \subseteq @ THEN @ \ shown
                                                    ELSE @ \cup shown]
  BY <1>2, <1>5, <1>9
<1>10. CASE screen' = Clamped([screen EXCEPT !.filter = ~@])
  BY <1>2, <1>6, <1>10
<1> QED BY <1>7, <1>8, <1>9, <1>10 DEF Browse

\* The requests, the confirmation and the dialog.
LEMMA OperationsKeepInv ==
  ASSUME TuiInv,
         \/ RequestIndex \/ RequestSelected \/ RequestById \/ RequestPropose
         \/ AcceptConfirmation \/ Cancel \/ OpenProposeDialog \/ ToggleEndpoint \/ SubmitDialog
  PROVE  TuiInv'
<1> USE DEF FreeInput, Input
<1>1. CASE RequestIndex
  <2> DEFINE a == Action("index")
  <2>1. a = [kind |-> "index", ids |-> {}, endpoint |-> FALSE, named |-> "nothing"]
    BY ActionRecord
  <2> HIDE DEF a
  <2>2. a \in Actions /\ a.kind # "none" /\ a.named = "nothing"
    BY <2>1 DEF Actions
  <2> QED BY <1>1, <2>2, RequestKeepsInv DEF RequestIndex, a
<1>2. ASSUME NEW kind \in {"approve", "reject"}, NEW ids \in SUBSET Reviews, OffScreen, ~quit,
             RequestAction([Action(kind) EXCEPT !.ids = ids])
      PROVE  TuiInv'
  <2> DEFINE a == [Action(kind) EXCEPT !.ids = ids]
  <2>1. a = [kind |-> kind, ids |-> ids, endpoint |-> FALSE, named |-> "nothing"]
    BY ActionRecord
  <2>2. a \in Actions /\ a.kind # "none" /\ a.named = "nothing"
    BY <2>1 DEF Actions
  <2> HIDE DEF a
  <2> QED BY <1>2, <2>2, RequestKeepsInv DEF a
<1>3. CASE RequestSelected
  <2>1. ApprovalIds \in SUBSET Reviews /\ \A i \in Selected(screen) : {i} \in SUBSET Reviews
    BY DEF ApprovalIds, Selected, Filtered, Pending
  <2> QED BY <1>2, <1>3, <2>1 DEF RequestSelected
<1>4. CASE RequestById
  <2>1. PICK i \in Reviews, kind \in {"approve", "reject"} :
             RequestAction([Action(kind) EXCEPT !.ids = {i}])
    BY <1>4 DEF RequestById
  <2> QED BY <1>2, <1>4, <2>1 DEF RequestById
<1>5. CASE RequestPropose
  <2> DEFINE a == [Action("propose") EXCEPT !.endpoint = TRUE]
  <2>1. a = [kind |-> "propose", ids |-> {}, endpoint |-> TRUE, named |-> "nothing"]
    BY ActionRecord
  <2>2. a \in Actions /\ a.kind # "none" /\ a.named = "nothing"
    BY <2>1 DEF Actions
  <2> HIDE DEF a
  <2> QED BY <1>5, <2>2, RequestKeepsInv DEF RequestPropose, a
<1>6. ASSUME StartAction(modal.action), OffScreen, ~quit, modal.kind \in {"confirm", "dialog"}
      PROVE  TuiInv'
  <2>1. /\ modal.action \in Actions /\ modal.action.kind # "none" /\ job = NoAction
        /\ modal.action.named = "local" => ~modal.action.endpoint
    BY <1>6 DEF TuiInv, TuiShape, Modals, JobIsAlone, LocalHasNoConsent
  <2> QED BY <1>6, <2>1, StartKeepsInv DEF OffScreen
<1>7. CASE AcceptConfirmation
  BY <1>6, <1>7 DEF AcceptConfirmation
<1>8. CASE Cancel
  <2>1. NoModal \in Modals
    BY NoActionIsAction DEF Modals
  <2> QED BY <1>8, <2>1, ModalKeepsInv DEF Cancel
<1>9. CASE OpenProposeDialog
  <2>1. CASE job # NoAction
    <3>1. UNCHANGED <<job, workers, modal>>
      BY <1>9, <2>1 DEF OpenProposeDialog, DoNothing
    <3> QED BY <1>9, <2>1, <3>1, ModalKeepsInv
        DEF OpenProposeDialog, TuiInv, TuiShape, JobIsAlone, LocalHasNoConsent
  <2>2. CASE job = NoAction
    <3> DEFINE name == IF destination = 0 THEN "local" ELSE "endpoint"
               a == [Action("propose") EXCEPT !.named = name]
    <3>1. a = [kind |-> "propose", ids |-> {}, endpoint |-> FALSE, named |-> name]
      BY ActionRecord
    <3>2. a \in Actions /\ a.kind # "none" /\ ~a.endpoint
          /\ (a.named = "local" => destination = 0)
      BY <3>1 DEF Actions
    <3>3. /\ modal' = [kind |-> "dialog", required |-> destination # 0, action |-> a]
          /\ UNCHANGED <<job, workers>> /\ OffScreen
      BY <1>9, <2>2 DEF OpenProposeDialog
    <3> HIDE DEF a
    <3>4. modal' \in Modals
      BY <3>2, <3>3 DEF Modals
    <3> QED BY <2>2, <3>2, <3>3, <3>4, ModalKeepsInv
  <2> QED BY <2>1, <2>2
<1>10. CASE ToggleEndpoint
  <2>1. /\ modal.kind = "dialog" /\ modal.required /\ modal \in Modals
        /\ modal' = [modal EXCEPT !.action.endpoint = ~@]
        /\ UNCHANGED <<job, workers>> /\ OffScreen
    BY <1>10 DEF ToggleEndpoint, TuiInv, TuiShape
  <2> DEFINE a == [modal.action EXCEPT !.endpoint = ~@]
  <2>2. modal.action \in Actions
    BY <2>1 DEF Modals
  <2>3. a = [kind |-> modal.action.kind, ids |-> modal.action.ids,
             endpoint |-> ~modal.action.endpoint, named |-> modal.action.named]
    BY <2>2 DEF Actions
  <2>4. a \in Actions
    BY <2>2, <2>3 DEF Actions
  <2>5. a.kind # "none" /\ a.named # "local"
    BY <2>1, <2>3 DEF TuiInv, LocalHasNoConsent, JobIsAlone
  <2>6. modal' = [kind |-> "dialog", action |-> a, required |-> TRUE]
    BY <2>1 DEF Modals
  <2> HIDE DEF a
  <2>7. modal' \in Modals
    BY <2>4, <2>6 DEF Modals
  <2>8. job = NoAction
    BY <2>1 DEF TuiInv, JobIsAlone
  <2> QED BY <2>1, <2>5, <2>6, <2>7, <2>8, ModalKeepsInv
<1>11. CASE SubmitDialog
  <2>1. CASE CanRun
    BY <1>6, <1>11, <2>1 DEF SubmitDialog, DialogAction
  <2>2. CASE ~CanRun
    <3>1. UNCHANGED <<job, workers, modal>> /\ OffScreen
      BY <1>11, <2>2 DEF SubmitDialog, DoNothing
    <3> QED BY <3>1, ModalKeepsInv DEF TuiInv, TuiShape, JobIsAlone, LocalHasNoConsent
  <2> QED BY <2>1, <2>2
<1> QED BY <1>1, <1>3, <1>4, <1>5, <1>7, <1>8, <1>9, <1>10, <1>11

\* The worker threads and other processes.
LEMMA OthersKeepInv ==
  ASSUME TuiInv, WorkerStep \/ OutsideChange
  PROVE  TuiInv'
<1>1. CASE WorkerActs
  <2> USE <1>1 DEF WorkerActs, WorkerOnly
  <2>1. PICK w \in workers :
        \/ /\ \E i \in w.left :
                /\ queue' = [queue EXCEPT ![i] = IF @ = "pending" THEN "resolved" ELSE @]
                /\ workers' = (workers \ {w}) \cup {[w EXCEPT !.left = @ \ {i}]}
           /\ UNCHANGED sent
        \/ /\ w.action.kind = "propose" /\ (destination = 0 \/ w.action.endpoint)
           /\ \E i \in Reviews :
                 /\ queue[i] = "absent" /\ queue' = [queue EXCEPT ![i] = "pending"]
           /\ sent' = IF destination = 0 THEN sent ELSE sent \cup {w.action}
           /\ UNCHANGED workers
    OBVIOUS
  <2>2. workers = {w} /\ job # NoAction /\ events = <<>> /\ ~quit /\ w.action \in Actions
    BY DEF TuiInv, TuiShape, JobIsAlone
  <2>3. \E v : /\ workers' = {v} /\ v.action = w.action
               /\ v = [action |-> v.action, left |-> v.left, n |-> v.n]
    <3>1. CASE \E i \in w.left : workers' = (workers \ {w}) \cup {[w EXCEPT !.left = @ \ {i}]}
      <4>1. PICK i \in w.left : workers' = (workers \ {w}) \cup {[w EXCEPT !.left = @ \ {i}]}
        BY <3>1
      <4>2. w = [action |-> w.action, left |-> w.left, n |-> w.n]
        BY DEF TuiInv, TuiShape
      <4> DEFINE l == w.left \ {i}
      <4>3. workers' = {[w EXCEPT !.left = l]}
        BY <2>2, <4>1
      <4> HIDE DEF l
      <4>4. [w EXCEPT !.left = l] = [action |-> w.action, left |-> l, n |-> w.n]
        BY <4>2
      <4> QED BY <4>3, <4>4
    <3>2. CASE UNCHANGED workers
      BY <2>2, <3>2 DEF TuiInv, TuiShape
    <3> QED BY <2>1, <3>1, <3>2
  <2>4. queue' \in Lists
    BY <2>1 DEF TuiInv, TuiShape, Lists, Statuses
  <2>5. TuiShape'
    BY <2>2, <2>3, <2>4 DEF TuiInv, TuiShape
  <2>6. JobIsAlone' /\ LocalHasNoConsent'
    BY <2>2, <2>3 DEF TuiInv, JobIsAlone, LocalHasNoConsent
  <2>7. SentWithConsent'
    BY <2>1, <2>2 DEF TuiInv, LocalHasNoConsent, OperatorDecides, SentWithConsent
  <2>8. ShownIsCurrent' /\ ChecksArePending'
    BY <2>2 DEF TuiInv, OperatorDecides, ShownIsCurrent, ChecksArePending
  <2> QED BY <2>5, <2>6, <2>7, <2>8 DEF TuiInv, OperatorDecides
<1>2. CASE WorkerFinishes
  <2> USE <1>2 DEF WorkerFinishes, WorkerOnly
  <2>0. workers' = {} /\ events = <<>> /\ job # NoAction /\ UNCHANGED job
    BY DEF TuiInv, JobIsAlone
  <2>1. events' \in Seq({"finished"}) /\ Len(events') = 1
    BY <2>0
  <2>2. TuiShape'
    BY <2>0, <2>1 DEF TuiInv, TuiShape
  <2>3. JobIsAlone' /\ LocalHasNoConsent'
    BY <2>0, <2>1 DEF TuiInv, JobIsAlone, LocalHasNoConsent
  <2>4. OperatorDecides'
    BY <2>0 DEF TuiInv, OperatorDecides, ShownIsCurrent, ChecksArePending, SentWithConsent
  <2> QED BY <2>2, <2>3, <2>4 DEF TuiInv
<1>3. CASE OutsideChange
  <2> USE <1>3 DEF OutsideChange
  <2>1. queue' \in Lists /\ ((UNCHANGED queue /\ UNCHANGED current) \/ current' = FALSE)
    BY DEF TuiInv, TuiShape, Lists, Statuses
  <2>2. TuiShape' /\ JobIsAlone' /\ LocalHasNoConsent'
    BY <2>1 DEF TuiInv, TuiShape, JobIsAlone, LocalHasNoConsent
  <2>3. OperatorDecides'
    BY <2>1 DEF TuiInv, OperatorDecides, ShownIsCurrent, ChecksArePending, SentWithConsent, Listed
  <2> QED BY <2>2, <2>3 DEF TuiInv
<1> QED BY <1>1, <1>2, <1>3 DEF WorkerStep

(***************************************************************************)
(* Theorems                                                                *)
(***************************************************************************)

\* No step of the loop, of a worker or of another process leaves the
\* invariant.
THEOREM TuiInvAlways ==
  TuiSpec => []TuiInv
<1>1. TuiInv /\ [TuiNext]_tuiVars => TuiInv'
  <2> SUFFICES ASSUME TuiInv, [TuiNext]_tuiVars PROVE TuiInv'
    OBVIOUS
  <2>1. CASE PollWorkers \/ NoInput \/ Reload \/ Help \/ RequestQuit
    BY <2>1, LoopKeepsInv
  <2>2. CASE Browse
    BY <2>2, BrowseKeepsInv
  <2>3. CASE \/ RequestIndex \/ RequestSelected \/ RequestById \/ RequestPropose
             \/ AcceptConfirmation \/ Cancel \/ OpenProposeDialog \/ ToggleEndpoint \/ SubmitDialog
    BY <2>3, OperationsKeepInv
  <2>4. CASE WorkerStep \/ OutsideChange
    BY <2>4, OthersKeepInv
  <2>5. CASE TuiRest \/ UNCHANGED tuiVars
    <3>1. UNCHANGED tuiVars
      BY <2>5 DEF TuiRest
    <3>2. TuiShape' /\ JobIsAlone' /\ LocalHasNoConsent'
      BY <3>1 DEF tuiVars, TuiInv, TuiShape, JobIsAlone, LocalHasNoConsent
    <3>3. OperatorDecides'
      BY <3>1 DEF tuiVars, TuiInv, OperatorDecides, ShownIsCurrent, ChecksArePending,
                  SentWithConsent, Listed
    <3> QED BY <3>2, <3>3 DEF TuiInv
  <2> QED BY <2>1, <2>2, <2>3, <2>4, <2>5 DEF TuiNext, TuiInput
<1> QED BY InitTuiInv, <1>1, PTL DEF TuiSpec

\* One operation at a time, and no thread is killed by leaving the interface:
\* start_action is reached only from an idle interface, and Finished is the
\* last event of a worker.
THEOREM OneOperationAlways ==
  TuiSpec => []OneOperation
<1>1. TuiInv => OneOperation
  <2> SUFFICES ASSUME TuiInv PROVE OneOperation
    OBVIOUS
  <2>1. Cardinality(workers) + Len(events) = IF job = NoAction THEN 0 ELSE 1
    <3>1. Cardinality({}) = 0 /\ \A w : Cardinality({w}) = 1
      BY FS_EmptySet, FS_Singleton
    <3>2. CASE job = NoAction /\ workers = {} /\ events = <<>>
      BY <3>1, <3>2
    <3>3. CASE job # NoAction /\ (\E w \in workers : workers = {w}) /\ events = <<>>
      <4>1. Cardinality(workers) = 1 /\ Len(events) = 0
        BY <3>1, <3>3
      <4> QED BY <3>3, <4>1
    <3>4. CASE job # NoAction /\ workers = {} /\ Len(events) = 1
      BY <3>1, <3>4
    <3> QED BY <3>2, <3>3, <3>4 DEF TuiInv, JobIsAlone
  <2> QED BY <2>1 DEF TuiInv, JobIsAlone, OneOperation
<1> QED BY TuiInvAlways, <1>1, PTL

\* What the operator decides is what he saw: refresh_reviews drops a check
\* together with the pending item it was put on, the last event of a worker
\* reads the queue again, and a dialog that named a local provider asks for no
\* consent and starts an action that has none.
THEOREM OperatorDecidesAlways ==
  TuiSpec => []OperatorDecides
<1>1. TuiInv => OperatorDecides
  BY DEF TuiInv
<1> QED BY TuiInvAlways, <1>1, PTL

(***************************************************************************)
(* LspClient                                                               *)
(***************************************************************************)

(***************************************************************************)
(* The inductive invariant                                                 *)
(***************************************************************************)

RequestIds == Nat \X Nat \X Nat \X Nat
MessageKinds == {"token", "begin", "end", "error", "ask", "answer", "modified"}
Messages == [kind : MessageKinds, id : RequestIds \cup {NoId}, of : (Nat \X Nat) \cup {NoId},
             value : {Null, Part, Full}]
Polls == [of : (Nat \X Nat) \cup {NoId}, value : {Null, Part, Full}, polls : Nat,
          since : {"never", "now", "graced"}, retries : Nat, done : BOOLEAN]

Servers == [alive : BOOLEAN, heard : BOOLEAN, index : {"cold", "running", "done"},
            announced : {"no", "asked", "granted", "begun"},
            asked : SUBSET (RequestIds \X (Nat \X Nat)), open : BOOLEAN]
Clients == [generation : Nat, active : BOOLEAN, ended : {"never", "now", "before"}]
Calls == [pc : {"idle", "open", "ready", "round", "await", "judge", "sleep", "rename",
                "answered", "refused"},
          kind : {"batch", "rename"}, minimum : {Null, Part},
          waiting : SUBSET (RequestIds \X Nat), attempt : Nat]

PollTypes == Items \subseteq Nat /\ poll \in [Items -> Polls]
LspTypes ==
    /\ server \in Servers /\ client \in Clients /\ call \in Calls /\ PollTypes
    /\ pipe \in Seq(Messages) /\ generation \in Nat \ {0} /\ calls \in Nat

\* The ids given out so far: in a round that has sent nothing yet, none has the
\* number of its attempt.
Given(id) ==
    /\ id \in RequestIds /\ id[1] <= calls
    /\ call.pc \in {"open", "ready"} => id[1] # calls
    /\ call.pc \in {"await", "judge", "sleep", "rename"} /\ id[1] = calls => id[2] <= call.attempt
    /\ call.pc = "round" /\ id[1] = calls => id[2] < call.attempt

\* A request and what answers it name the call and the item in their number.
Tells(id, of) == of = <<id[1], id[3]>>

MessageIsTrue(m) ==
    /\ m.kind \in {"answer", "modified"} => Given(m.id) /\ Tells(m.id, m.of)
    /\ m.kind = "ask" => Given(m.id) /\ m.value = Null /\ m.of = NoId
    /\ m.kind \in {"token", "begin", "end", "error"} => m.id = NoId

AskedAreGiven == \A r \in server.asked : Given(r[1]) /\ Tells(r[1], r[2])
MessagesAreTrue == \A m \in Range(pipe) : MessageIsTrue(m)

\* What is waited for was asked in this round, for an item that is not done.
AwaitedAreOwn ==
    \A w \in call.waiting : /\ call.pc = "await" /\ w[2] \in Items /\ ~poll[w[2]].done
                            /\ w[1] \in RequestIds /\ w[1][1] = calls
                            /\ w[1][2] = call.attempt /\ w[1][3] = w[2]
NumbersInv == AskedAreGiven /\ MessagesAreTrue /\ AwaitedAreOwn

\* What clangd has reported of its index, and what of it the client knows.
EndIsTrue ==
    /\ client.ended # "never" => server.index = "done"
    /\ \A m \in Range(pipe) : m.kind = "end" => server.index = "done"
TokenIsAsked ==
    /\ server.index = "cold" => server.announced = "no"
    /\ \A k \in DOMAIN pipe : pipe[k].kind = "token" =>
           /\ server.announced = "asked"
           /\ \A j \in DOMAIN pipe : pipe[j].kind = "token" => j = k
BeginIsTold ==
    server.announced = "begun" /\ ~SawProgress => \E m \in Range(pipe) : m.kind = "begin"
ReportsInv == EndIsTrue /\ TokenIsAsked /\ BeginIsTold

\* What the client keeps of the items.
GracedIsReported ==
    \A i \in Items : poll[i].since = "graced" => server.index = "done" \/ server.announced = "begun"
\* An item that collided, in a call that asks for no minimum.
Spared(i) == call.minimum = Null /\ Collided(i)
DoneIsFull ==
    \A i \in Items : poll[i].done /\ poll[i].retries = 0 => poll[i].value = Full \/ Spared(i)
AnsweredIsDone == call.pc \in {"rename", "answered"} => \A i \in Items : poll[i].done
RenameIsOne == call.kind = "rename" => Items \subseteq {1}
ItemsInv == GracedIsReported /\ DoneIsFull /\ AnsweredIsDone /\ RenameIsOne

\* The messages and the items of the round that is under way.
OfRound(id) == id # NoId /\ id[1] = calls /\ id[2] = call.attempt
HeardOf == {i \in Items : ~poll[i].done /\ \A w \in call.waiting : w[2] # i}

\* The requests of the round were sent when the index was whole.
SentLate ==
    /\ server.index = "done"
    /\ \A m \in Range(pipe) : m.kind = "answer" /\ OfRound(m.id) => m.value = Full
    /\ \A i \in HeardOf :
          poll[i].retries # 0 \/ poll[i].value = Full \/ poll[i].since = "never" \/ Spared(i)

\* Their answers are behind the first report of the index.
BehindReport ==
    /\ ~SawProgress /\ HeardOf = {}
    /\ \E b \in DOMAIN pipe : /\ pipe[b].kind = "begin"
                              /\ \A k \in 1..b : ~OfRound(pipe[k].id)

\* One of the two holds whenever a judgement of the round may believe them.
MayBelieve ==
    \/ client.ended = "before"
    \/ ~SawProgress /\ \E i \in Items : poll[i].since = "graced"
RoundInv ==
    call.pc \in {"await", "judge"} /\ MayBelieve => SentLate \/ BehindReport

LspInv == LspTypes /\ NumbersInv /\ ReportsInv /\ ItemsInv /\ RoundInv
              /\ AnswersAreForTheirRequests /\ BatchClosesItsDocuments

USE DEF Null, Part, Full, NoId, Items, CallOnly, ServerOnly

(***************************************************************************)
(* Facts about the pipe and the types                                      *)
(***************************************************************************)
\* A message more at the end of the pipe.
LEMMA Appended ==
  ASSUME pipe \in Seq(Messages), NEW m \in Messages, pipe' = Append(pipe, m)
  PROVE  /\ pipe' \in Seq(Messages) /\ Range(pipe') = Range(pipe) \cup {m}
         /\ Len(pipe) \in Nat /\ DOMAIN pipe = 1..Len(pipe)
         /\ Len(pipe') = Len(pipe) + 1 /\ DOMAIN pipe' = 1..Len(pipe')
         /\ pipe'[Len(pipe')] = m /\ \A k \in DOMAIN pipe : pipe'[k] = pipe[k]
<1>1. /\ pipe' \in Seq(Messages) /\ Len(pipe) \in Nat /\ DOMAIN pipe = 1..Len(pipe)
      /\ Len(pipe') = Len(pipe) + 1 /\ DOMAIN pipe' = 1..Len(pipe')
      /\ pipe'[Len(pipe')] = m /\ \A k \in DOMAIN pipe : pipe'[k] = pipe[k]
  OBVIOUS
<1>2. Range(pipe') = Range(pipe) \cup {m}
  BY <1>1 DEF Range
<1> QED BY <1>1, <1>2

\* The first message of the pipe, and what is left behind it.
LEMMA Popped ==
  ASSUME pipe \in Seq(Messages), pipe # <<>>, pipe' = Tail(pipe)
  PROVE  /\ pipe' \in Seq(Messages) /\ Range(pipe') \subseteq Range(pipe)
         /\ Head(pipe) = pipe[1] /\ Head(pipe) \in Range(pipe) /\ Head(pipe) \in Messages
         /\ Range(pipe) = Range(pipe') \cup {Head(pipe)}
         /\ Len(pipe) \in Nat /\ DOMAIN pipe = 1..Len(pipe) /\ 1 \in DOMAIN pipe
         /\ Len(pipe') = Len(pipe) - 1 /\ DOMAIN pipe' = 1..Len(pipe')
         /\ \A k \in DOMAIN pipe' : k + 1 \in DOMAIN pipe /\ pipe'[k] = pipe[k + 1]
<1>1. /\ pipe' \in Seq(Messages) /\ Len(pipe) \in Nat /\ DOMAIN pipe = 1..Len(pipe)
      /\ Len(pipe') = Len(pipe) - 1 /\ DOMAIN pipe' = 1..Len(pipe') /\ Len(pipe) > 0
      /\ Head(pipe) = pipe[1] /\ Head(pipe) \in Messages
      /\ \A k \in DOMAIN pipe' : pipe'[k] = pipe[k + 1]
  OBVIOUS
<1>2. \A k \in DOMAIN pipe' : k + 1 \in DOMAIN pipe
  BY <1>1
<1>3. \A k \in DOMAIN pipe : k = 1 \/ (k - 1 \in DOMAIN pipe' /\ pipe'[k - 1] = pipe[k])
  BY <1>1
<1>4. Range(pipe) = Range(pipe') \cup {Head(pipe)}
  <2>1. Range(pipe') \subseteq Range(pipe)
    BY <1>1, <1>2 DEF Range
  <2>2. Range(pipe) \subseteq Range(pipe') \cup {pipe[1]}
    BY <1>3 DEF Range
  <2>3. pipe[1] \in Range(pipe)
    BY <1>1 DEF Range
  <2> QED BY <1>1, <2>1, <2>2, <2>3
<1> QED BY <1>1, <1>2, <1>4

\* A request's number, and the message that a sender writes.
LEMMA NumberTypes ==
  ASSUME LspTypes, NEW i \in Items
  PROVE  NextId(i) \in RequestIds /\ i \in Nat /\ poll[i] \in Polls
            /\ <<calls, call.attempt, i, poll[i].retries + 1>> \in RequestIds
            /\ <<calls, i>> \in Nat \X Nat
BY DEF LspTypes, PollTypes, Calls, Polls, NextId, RequestIds

\* The parts of a message.
LEMMA MessageTypes ==
  ASSUME NEW kind \in MessageKinds, NEW id \in RequestIds \cup {NoId},
         NEW of \in (Nat \X Nat) \cup {NoId}, NEW value \in {Null, Part, Full}
  PROVE  /\ Message(kind, id, of, value) \in Messages
         /\ Message(kind, id, of, value).kind = kind /\ Message(kind, id, of, value).id = id
         /\ Message(kind, id, of, value).of = of /\ Message(kind, id, of, value).value = value
BY DEF Message, Messages

\* What an answer leaves of its item.
LEMMA RecordTypes ==
  ASSUME NEW p \in Polls, NEW of \in (Nat \X Nat) \cup {NoId}, NEW value \in {Null, Part, Full}
  PROVE  /\ Record(p, of, value) \in Polls /\ Record(p, of, value).polls > 0
         /\ Record(p, of, value).of = of /\ Record(p, of, value).value = value
         /\ Record(p, of, value).retries = 0 /\ Record(p, of, value).done = p.done
         /\ value = Null /\ call.minimum = Part => Record(p, of, value).since = "never"
         /\ Record(p, of, value).since = "graced" => p.since = "graced"
<1> DEFINE n == IF p.polls > 0 /\ p.value = value
                THEN (IF p.polls < Stable THEN p.polls + 1 ELSE p.polls) ELSE 1
           t == IF value < call.minimum THEN "never"
                ELSE IF p.since = "never" THEN "now" ELSE p.since
<1>1. n \in Nat /\ n > 0 /\ t \in {"never", "now", "graced"}
  BY LspAssumption DEF Polls
<1>2. (value = Null /\ call.minimum = Part => t = "never") /\ (t = "graced" => p.since = "graced")
  BY DEF Polls
<1>3. Record(p, of, value) = [p EXCEPT !.of = of, !.value = value, !.retries = 0,
                                       !.polls = n, !.since = t]
  BY DEF Record
<1> HIDE DEF n, t
<1>4. Record(p, of, value) = [of |-> of, value |-> value, polls |-> n, since |-> t,
                              retries |-> 0, done |-> p.done]
  BY <1>3 DEF Polls
<1>5. p.done \in BOOLEAN
  BY DEF Polls
<1>6. Record(p, of, value) \in Polls
  BY <1>1, <1>4, <1>5 DEF Polls
<1> QED BY <1>1, <1>2, <1>4, <1>6

(***************************************************************************)
(* What the steps do                                                       *)
(***************************************************************************)

KeepsNumbers == UNCHANGED <<generation, calls>>
KeepsCall == UNCHANGED <<call, poll, generation, calls>>

\* A message that is not awaited is read.
Mine(m) == {w \in call.waiting : w[1] = m.id /\ m.kind \in {"ask", "answer", "modified"}}
Skips ==
    /\ call.pc \in {"ready", "round", "await"} /\ pipe # <<>> /\ pipe' = Tail(pipe)
    /\ call.pc = "await" => Mine(Head(pipe)) = {}
    /\ server' = Responded(Head(pipe)) /\ client' = Observed(Head(pipe)) /\ KeepsCall

\* A call gives up; a message that made it give up is a refused request's, or
\* breaks the connection.
Fails ==
    /\ call.pc \notin {"idle", "answered", "refused"}
    /\ FinishWith("failed", <<>>) /\ UNCHANGED client /\ KeepsNumbers
    /\ \/ pipe' = pipe
       \/ /\ pipe # <<>> /\ pipe' = Tail(pipe)
          /\ Head(pipe).kind \in {"modified", "error", "token", "ask"}

Opens ==
    /\ call.pc = "open" /\ server' = [server EXCEPT !.open = TRUE]
    /\ call' = [call EXCEPT !.pc = "ready"] /\ UNCHANGED <<poll, pipe, client>> /\ KeepsNumbers
Readies ==
    /\ call.pc = "ready" /\ call' = Ready /\ UNCHANGED <<server, pipe, client, poll>>
    /\ KeepsNumbers
Settles ==
    /\ call.pc = "round" /\ client.ended = "now"
    /\ client' = [client EXCEPT !.ended = "before"] /\ UNCHANGED <<server, pipe>> /\ KeepsCall
Sends ==
    /\ call.pc = "round" /\ Quiescent
    /\ server' = [server EXCEPT !.asked = @ \cup {<<NextId(i), <<calls, i>>>> : i \in Outstanding}]
    /\ call' = [call EXCEPT !.pc = "await", !.waiting = {<<NextId(i), i>> : i \in Outstanding}]
    /\ UNCHANGED <<poll, pipe, client>> /\ KeepsNumbers

\* The response that is awaited for an item.
Hears(w) ==
    /\ call.pc = "await" /\ pipe # <<>> /\ pipe' = Tail(pipe)
    /\ w \in call.waiting /\ Head(pipe).id = w[1]
    /\ UNCHANGED client /\ KeepsNumbers
Skipped(m) == SkipRound(call.waiting \ Mine(m))
Records(w) ==
    /\ Hears(w) /\ Head(pipe).kind \in {"ask", "answer"} /\ Skipped(Head(pipe))
    /\ poll' = [poll EXCEPT ![w[2]] = Record(@, Head(pipe).of, Head(pipe).value)]
Postpones(w) ==
    /\ Hears(w) /\ Head(pipe).kind = "modified" /\ Skipped(Head(pipe))
    /\ poll' = [poll EXCEPT ![w[2]].retries = @ + 1]
AsksAgain(w) ==
    /\ Hears(w) /\ Head(pipe).kind = "modified" /\ call.kind = "rename" /\ AskAgain(w[2])
    /\ poll' = [poll EXCEPT ![w[2]].retries = @ + 1]

Judged == [i \in Items |-> [poll[i] EXCEPT !.done = @ \/ Believed(i)]]
Judges ==
    /\ call.pc = "judge" /\ UNCHANGED <<pipe, client>> /\ KeepsNumbers
    /\ \/ (\A i \in Items : Judged[i].done) /\ FinishWith("ok", Judged)
       \/ /\ \A i \in Items : Judged[i].done
          /\ call' = [call EXCEPT !.pc = "rename"] /\ poll' = Judged /\ UNCHANGED server
       \/ call' = [call EXCEPT !.pc = "sleep"] /\ poll' = Judged /\ UNCHANGED server
Renames ==
    /\ call.pc = "rename" /\ FinishWith("ok", poll) /\ UNCHANGED <<pipe, client>> /\ KeepsNumbers

Idles == UNCHANGED <<server, pipe, client, call, poll, calls>> /\ generation' \in Nat \ {0}

\* Every step of the client and of clangd is one of these.
LEMMA Steps ==
  ASSUME LspTypes, [LspNext]_lspVars
  PROVE  \/ StartCall \/ Opens \/ Readies \/ Skips \/ Settles \/ Sends
         \/ \E w \in call.waiting : Records(w) \/ Postpones(w) \/ AsksAgain(w)
         \/ Fails \/ Judges \/ SleepBetweenPolls \/ Renames \/ Return
         \/ ServerStep \/ Idles
<1> USE DEF KeepsNumbers, KeepsCall, Finish
<1>1. CASE OpenDocument
  BY <1>1 DEF OpenDocument, Opens, Fails
<1>2. CASE AwaitDocument
  BY <1>2 DEF AwaitDocument, Skips, Readies, Fails, Hear, Breaks
<1>3. CASE AwaitQuiescence
  BY <1>3 DEF AwaitQuiescence, Skips, Settles, Fails, Hear, Breaks
<1>4. CASE Request
  BY <1>4 DEF Request, Sends, Fails
<1>5. CASE Receive
  <2>1. CASE Mine(Head(pipe)) = {}
    BY <1>5, <2>1 DEF Receive, Mine, Skips, Fails, Hear, Breaks
  <2>2. CASE Mine(Head(pipe)) # {}
    <3>1. PICK w \in Mine(Head(pipe)) :
             LET m == Head(pipe)  left == call.waiting \ Mine(m)
             IN  IF m.kind = "modified" /\ poll[w[2]].retries = Retries
                 THEN Finish("failed") /\ UNCHANGED client
                 ELSE IF m.kind = "modified"
                 THEN /\ poll' = [poll EXCEPT ![w[2]].retries = @ + 1]
                      /\ IF call.kind = "rename" THEN AskAgain(w[2]) ELSE SkipRound(left)
                 ELSE /\ poll' = [poll EXCEPT ![w[2]] = Record(@, m.of, m.value)]
                      /\ SkipRound(left)
      BY <1>5, <2>2 DEF Receive, Mine
    <3>2. /\ call.pc = "await" /\ pipe # <<>> /\ pipe' = Tail(pipe) /\ KeepsNumbers
          /\ w \in call.waiting /\ Head(pipe).id = w[1]
          /\ Head(pipe).kind \in {"ask", "answer", "modified"}
      BY <1>5 DEF Receive, Mine
    <3>3. CASE Head(pipe).kind = "modified" /\ poll[w[2]].retries = Retries
      BY <3>1, <3>2, <3>3 DEF Fails
    <3>4. CASE Head(pipe).kind = "modified" /\ poll[w[2]].retries # Retries
      BY <3>1, <3>2, <3>4 DEF Postpones, AsksAgain, Hears, Skipped, SkipRound, AskAgain
    <3>5. CASE Head(pipe).kind # "modified"
      BY <3>1, <3>2, <3>5 DEF Records, Hears, Skipped, SkipRound
    <3> QED BY <3>3, <3>4, <3>5
  <2> QED BY <2>1, <2>2
<1>6. CASE ReceiveTimesOut
  BY <1>6 DEF ReceiveTimesOut, Fails
<1>7. CASE Judge
  BY <1>7 DEF Judge, Judges, Judged, Fails
<1>8. CASE Rename
  BY <1>8 DEF Rename, Renames, Fails
<1>9. CASE LspRest \/ WorkspaceMoves \/ UNCHANGED lspVars
  BY <1>9 DEF LspRest, WorkspaceMoves, lspVars, Idles, LspTypes
<1> QED BY <1>1, <1>2, <1>3, <1>4, <1>5, <1>6, <1>7, <1>8, <1>9 DEF LspNext, CallStep

(***************************************************************************)
(* Types                                                                   *)
(***************************************************************************)
\* What the client changes of an item's state.
LEMMA PollEdits ==
  ASSUME NEW p \in Polls
  PROVE  /\ [p EXCEPT !.retries = @ + 1] \in Polls /\ [p EXCEPT !.since = "graced"] \in Polls
         /\ \A d \in BOOLEAN : [p EXCEPT !.done = @ \/ d] \in Polls
<1>1. p.done \in BOOLEAN
  BY DEF Polls
<1> QED BY <1>1 DEF Polls

\* The items stay a function of their numbers, whichever of them is edited.
LEMMA PollTypesStep ==
  ASSUME LspTypes, NumbersInv, [LspNext]_lspVars
  PROVE  PollTypes'
<1> USE DEF KeepsNumbers, KeepsCall
<1>t. Items \subseteq Nat /\ poll \in [Items -> Polls]
  BY DEF LspTypes, PollTypes
<1>0. (UNCHANGED poll \/ poll' = <<>>) => PollTypes'
  <2>1. CASE poll' = <<>>
    BY <2>1 DEF PollTypes
  <2>2. CASE poll' = poll
    BY <2>2, <1>t DEF PollTypes
  <2> QED BY <2>1, <2>2
<1>1. CASE StartCall
  <2>1. calls' \in Nat /\ BatchSize[calls'] \in Nat
    BY <1>1, LspAssumption DEF StartCall, LspTypes
  <2>2. PICK n \in Nat : poll' = [i \in 1 .. n |-> Unseen]
    BY <1>1, <2>1 DEF StartCall
  <2>3. Unseen \in Polls
    BY DEF Unseen, Polls
  <2>4. DOMAIN poll' = 1..n /\ poll' \in [1..n -> Polls] /\ 1..n \subseteq Nat
    BY <2>2, <2>3
  <2> QED BY <2>4 DEF PollTypes
<1>2. ASSUME NEW w \in call.waiting, Records(w) \/ Postpones(w) \/ AsksAgain(w)
      PROVE  PollTypes'
  <2> DEFINE k == w[2]
  <2>1. k \in Items /\ poll[k] \in Polls /\ Head(pipe) \in Messages
    BY <1>2, <1>t, Popped DEF NumbersInv, AwaitedAreOwn, LspTypes, Records, Postpones, AsksAgain,
           Hears
  <2>2. \E p \in Polls : poll' = [poll EXCEPT ![k] = p]
    <3>1. Record(poll[k], Head(pipe).of, Head(pipe).value) \in Polls
      BY <2>1, RecordTypes DEF Messages
    <3>2. [poll[k] EXCEPT !.retries = @ + 1] \in Polls
      BY <2>1, PollEdits
    <3>3. \/ poll' = [poll EXCEPT ![k] = Record(@, Head(pipe).of, Head(pipe).value)]
          \/ poll' = [poll EXCEPT ![k].retries = @ + 1]
      BY <1>2 DEF Records, Postpones, AsksAgain
    <3> HIDE DEF k
    <3> QED BY <3>1, <3>2, <3>3
  <2> HIDE DEF k
  <2> QED BY <1>t, <2>1, <2>2 DEF PollTypes
<1>3. CASE Judges
  <2>1. \A i \in Items : Judged[i] \in Polls
    BY <1>t, PollEdits DEF Judged, Believed
  <2>2. Judged \in [Items -> Polls]
    BY <2>1 DEF Judged
  <2> QED BY <1>t, <1>3, <2>2 DEF Judges, FinishWith, PollTypes
<1>4. CASE SleepBetweenPolls
  <2>1. PICK graced :
           poll' = [i \in Items |-> IF i \in graced THEN [poll[i] EXCEPT !.since = "graced"]
                                    ELSE poll[i]]
    BY <1>4 DEF SleepBetweenPolls
  <2>2. \A i \in Items : [poll[i] EXCEPT !.since = "graced"] \in Polls
    BY <1>t, PollEdits
  <2> QED BY <1>t, <2>1, <2>2 DEF PollTypes
<1>5. UNCHANGED poll \/ poll' = <<>> \/ StartCall \/ Judges \/ SleepBetweenPolls
      \/ \E w \in call.waiting : Records(w) \/ Postpones(w) \/ AsksAgain(w)
  BY Steps DEF Opens, Readies, Skips, Settles, Sends, Fails, FinishWith, Renames, Return, Idles,
               ServerStep, StartIndexing, BeginProgress, FinishIndexing, ServerAsks, Reply,
               ReaderFails, ServerDies
<1> QED BY <1>0, <1>1, <1>2, <1>3, <1>4, <1>5

\* The pipe holds messages.
LEMMA PipeTypesStep ==
  ASSUME LspTypes, [LspNext]_lspVars
  PROVE  (pipe \in Seq(Messages))'
<1> USE DEF KeepsNumbers, KeepsCall
<1>t. pipe \in Seq(Messages) /\ server.asked \subseteq RequestIds \X (Nat \X Nat)
      /\ call.waiting \subseteq RequestIds \X Nat
  BY DEF LspTypes, Servers, Calls
<1>1. CASE StartIndexing \/ BeginProgress \/ FinishIndexing \/ ReaderFails
  <2>1. pipe' = pipe \/ \E kind \in MessageKinds :
                           pipe' = Append(pipe, Message(kind, NoId, NoId, Null))
    BY <1>1 DEF StartIndexing, BeginProgress, FinishIndexing, ReaderFails, MessageKinds
  <2> QED BY <2>1, <1>t, MessageTypes
<1>2. CASE ServerAsks
  <2>1. PICK id \in RequestIds : pipe' = Append(pipe, Message("ask", id, NoId, Null))
    BY <1>2, <1>t DEF ServerAsks
  <2>2. Message("ask", id, NoId, Null) \in Messages
    BY MessageTypes DEF MessageKinds
  <2> QED BY <1>t, <2>1, <2>2
<1>3. CASE Reply
  <2>1. PICK request \in server.asked, kind \in {"answer", "modified"},
             value \in {Null, Part, Full} :
           pipe' = Append(pipe, Message(kind, request[1], request[2], value))
    BY <1>3 DEF Reply
  <2>2. request[1] \in RequestIds /\ request[2] \in Nat \X Nat
    BY <1>t
  <2>3. Message(kind, request[1], request[2], value) \in Messages
    BY <2>2, MessageTypes DEF MessageKinds
  <2> QED BY <1>t, <2>1, <2>3
<1>4. CASE UNCHANGED pipe \/ pipe' = <<>> \/ (pipe # <<>> /\ pipe' = Tail(pipe))
  <2>1. CASE pipe' = <<>>
    BY <2>1
  <2>2. CASE pipe # <<>> /\ pipe' = Tail(pipe)
    BY <2>2, <1>t
  <2> QED BY <1>4, <1>t, <2>1, <2>2
<1>5. UNCHANGED pipe \/ pipe' = <<>> \/ (pipe # <<>> /\ pipe' = Tail(pipe)) \/ ServerStep
  BY Steps DEF StartCall, Opens, Readies, Skips, Settles, Sends, Records, Postpones, AsksAgain,
               Hears, Fails, Judges, SleepBetweenPolls, Renames, Return, Idles
<1> QED BY <1>1, <1>2, <1>3, <1>4, <1>5 DEF ServerStep, ServerDies

\* A round is begun.
LEMMA NextRound ==
  ASSUME NEW c \in Calls, NEW n \in Nat
  PROVE  [c EXCEPT !.pc = "round", !.attempt = n] \in Calls
BY DEF Calls

\* A batch may ask for no minimum, or for one.
LEMMA NewMinimum ==
  ASSUME LspTypes, StartCall
  PROVE  \E kind \in {"batch", "rename"}, minimum \in {Null, Part} :
            /\ call' = [NoCall EXCEPT !.pc = "open", !.kind = kind, !.minimum = minimum]
            /\ poll' = [i \in 1 .. IF kind = "batch" THEN BatchSize[calls'] ELSE 1 |-> Unseen]
<1>1. calls' \in DOMAIN BatchSize
  BY LspAssumption DEF StartCall, LspTypes
<1>2. Minima[calls'] \subseteq {Null, Part}
  BY <1>1, LspAssumption
<1> QED BY <1>2 DEF StartCall

\* Every step keeps the server, the client, the call and the pipe well-formed.
LEMMA TypesStep ==
  ASSUME LspTypes, NumbersInv, [LspNext]_lspVars
  PROVE  LspTypes'
<1> USE DEF KeepsNumbers, KeepsCall
<1>t. server \in Servers /\ client \in Clients /\ call \in Calls /\ generation \in Nat \ {0}
      /\ calls \in Nat
  BY DEF LspTypes
<1>i. \A i \in Items : NextId(i) \in RequestIds /\ i \in Nat /\ <<calls, i>> \in Nat \X Nat
                       /\ <<calls, call.attempt, i, poll[i].retries + 1>> \in RequestIds
  BY NumberTypes
<1>w. \A w \in call.waiting : w[2] \in Items
  BY DEF NumbersInv, AwaitedAreOwn
<1>1. client' \in Clients
  <2>1. CASE Skips
    BY <1>t, <2>1 DEF Skips, Observed, Clients
  <2>2. CASE StartCall \/ Settles \/ SleepBetweenPolls
    BY <1>t, <2>2 DEF StartCall, Settles, SleepBetweenPolls, NoClient, Clients
  <2>3. UNCHANGED client \/ Skips \/ StartCall \/ Settles \/ SleepBetweenPolls
    BY Steps DEF Opens, Readies, Sends, Records, Postpones, AsksAgain, Hears, Fails, Judges,
                 Renames, Return, Idles, ServerStep, StartIndexing, BeginProgress,
                 FinishIndexing, ServerAsks, Reply, ReaderFails, ServerDies
  <2> QED BY <1>t, <2>1, <2>2, <2>3
<1>2. generation' \in Nat \ {0} /\ calls' \in Nat
  <2>1. CASE StartCall
    BY <1>t, <2>1 DEF StartCall
  <2>2. StartCall \/ (generation' \in Nat \ {0} /\ calls' = calls)
    BY <1>t, Steps
       DEF Settles, SleepBetweenPolls, Skips, Opens, Readies, Sends, Records, Postpones, AsksAgain,
           Hears, Fails, Judges, Renames, Return, Idles, ServerStep, StartIndexing, BeginProgress,
           FinishIndexing, ServerAsks, Reply, ReaderFails, ServerDies
  <2> QED BY <1>t, <2>1, <2>2
<1>3. server' \in Servers
  <2> DEFINE Requests == SUBSET (RequestIds \X (Nat \X Nat))
  <2>0. server.asked \in Requests /\ \A a \in Requests : [server EXCEPT !.asked = a] \in Servers
    BY <1>t DEF Servers
  <2>1. CASE Sends
    <3>0. \A i \in Outstanding : <<NextId(i), <<calls, i>>>> \in RequestIds \X (Nat \X Nat)
      BY <1>i DEF Outstanding
    <3>1. {<<NextId(i), <<calls, i>>>> : i \in Outstanding} \in Requests
      BY <3>0
    <3>2. server.asked \cup {<<NextId(i), <<calls, i>>>> : i \in Outstanding} \in Requests
      BY <2>0, <3>1
    <3> QED BY <2>0, <2>1, <3>2 DEF Sends
  <2>2. ASSUME NEW w \in call.waiting, AsksAgain(w) PROVE server' \in Servers
    <3> DEFINE i == w[2]
               added == IF server.alive
                        THEN {<<<<calls, call.attempt, i, poll[i].retries + 1>>, <<calls, i>>>>}
                        ELSE {}
    <3>1. <<<<calls, call.attempt, i, poll[i].retries + 1>>, <<calls, i>>>>
             \in RequestIds \X (Nat \X Nat)
      BY <1>i, <1>w, <2>2
    <3>2. added \in Requests
      BY <3>1
    <3>3. server.asked \cup added \in Requests
      BY <2>0, <3>2
    <3> QED BY <2>0, <2>2, <3>3 DEF AsksAgain, AskAgain
  <2>3. CASE StartCall \/ Opens \/ Skips \/ Fails \/ Judges \/ Renames
    <3>1. server' \in {server, Fresh, [server EXCEPT !.open = TRUE], [server EXCEPT !.open = FALSE],
                       [server EXCEPT !.announced = "granted"]}
      BY <2>3 DEF StartCall, Opens, Skips, Responded, Fails, Judges, Renames, FinishWith, Close,
                  CloseDocument
    <3>2. Fresh \in Servers
      BY DEF Fresh, Servers
    <3>3. /\ [server EXCEPT !.open = TRUE] \in Servers /\ [server EXCEPT !.open = FALSE] \in Servers
          /\ [server EXCEPT !.announced = "granted"] \in Servers
      BY <1>t DEF Servers
    <3> QED BY <1>t, <3>1, <3>2, <3>3
  <2>4. CASE ServerStep
    <3>1. CASE StartIndexing \/ BeginProgress
      BY <1>t, <3>1 DEF StartIndexing, BeginProgress, Servers
    <3>2. CASE FinishIndexing \/ ReaderFails \/ ServerDies
      BY <1>t, <3>2 DEF FinishIndexing, ReaderFails, ServerDies, Servers
    <3>3. CASE Reply
      <4>1. PICK request \in server.asked :
                server' = [server EXCEPT !.asked = @ \ {request}]
        BY <3>3 DEF Reply
      <4> QED BY <2>0, <4>1
    <3> QED BY <1>t, <2>4, <3>1, <3>2, <3>3 DEF ServerStep, ServerAsks
  <2>5. \/ UNCHANGED server \/ Sends \/ StartCall \/ Opens \/ Skips \/ Fails \/ Judges
        \/ Renames \/ ServerStep \/ \E w \in call.waiting : AsksAgain(w)
    BY Steps DEF Settles, SleepBetweenPolls, Readies, Records, Postpones, Skipped, SkipRound,
                 Return, Idles
  <2> QED BY <1>t, <2>1, <2>2, <2>3, <2>4, <2>5
<1>4. call' \in Calls
  <2> DEFINE Waiting == SUBSET (RequestIds \X Nat)
  <2>0. /\ call.waiting \in Waiting
        /\ \A a \in Waiting : /\ [call EXCEPT !.waiting = a] \in Calls
                              /\ [call EXCEPT !.waiting = a, !.pc = "judge"] \in Calls
                              /\ [call EXCEPT !.waiting = a, !.pc = "await"] \in Calls
    BY <1>t DEF Calls
  <2>1. CASE Sends
    <3>0. \A i \in Outstanding : <<NextId(i), i>> \in RequestIds \X Nat
      BY <1>i DEF Outstanding
    <3>1. {<<NextId(i), i>> : i \in Outstanding} \in Waiting
      BY <3>0
    <3>2. call' = [call EXCEPT !.waiting = {<<NextId(i), i>> : i \in Outstanding}, !.pc = "await"]
      BY <1>t, <2>1 DEF Sends, Calls
    <3> QED BY <2>0, <3>1, <3>2
  <2>2. ASSUME NEW w \in call.waiting, AsksAgain(w) PROVE call' \in Calls
    <3> DEFINE i == w[2]
    <3>1. <<<<calls, call.attempt, i, poll[i].retries + 1>>, i>> \in RequestIds \X Nat
      BY <1>i, <1>w, <2>2
    <3>2. {<<<<calls, call.attempt, i, poll[i].retries + 1>>, i>>} \in Waiting
      BY <3>1
    <3> QED BY <2>0, <2>2, <3>2 DEF AsksAgain, AskAgain
  <2>3. ASSUME NEW w \in call.waiting, Records(w) \/ Postpones(w) PROVE call' \in Calls
    <3>1. call.waiting \ Mine(Head(pipe)) \in Waiting
      BY <2>0
    <3> QED BY <2>0, <2>3, <3>1 DEF Records, Postpones, Skipped, SkipRound
  <2>4. CASE Opens \/ Readies \/ SleepBetweenPolls \/ Judges
    <3>1. \/ \E pc \in {"ready", "sleep", "rename"} : call' = [call EXCEPT !.pc = pc]
          \/ call' = [call EXCEPT !.pc = "round", !.attempt = 1]
          \/ call' = [call EXCEPT !.pc = "round", !.attempt = @ + 1]
          \/ call' = [call EXCEPT !.waiting = {}, !.pc = "answered"]
      BY <2>4 DEF Opens, Readies, Ready, SleepBetweenPolls, Judges, FinishWith
    <3>7. /\ call.attempt + 1 \in Nat /\ call.kind \in {"batch", "rename"}
          /\ call.waiting \in SUBSET (RequestIds \X Nat)
      BY <1>t DEF Calls
    <3>6. call.attempt + 1 \in Nat
          /\ \A n \in Nat : [call EXCEPT !.pc = "round", !.attempt = n] \in Calls
      BY <1>t, <3>7, NextRound
    <3>2. /\ [call EXCEPT !.pc = "round", !.attempt = 1] \in Calls
          /\ [call EXCEPT !.pc = "round", !.attempt = @ + 1] \in Calls
      BY <3>6
    <3>5. [call EXCEPT !.waiting = {}, !.pc = "answered"] \in Calls
      BY <1>t DEF Calls
    <3>3. \A pc \in {"ready", "sleep", "rename"} : [call EXCEPT !.pc = pc] \in Calls
      BY <1>t DEF Calls
    <3> QED BY <3>1, <3>2, <3>3, <3>5
  <2>6. CASE StartCall \/ Fails \/ Renames \/ Return
    <3>1. \/ call' = NoCall
          \/ \E pc \in {"answered", "refused"} : call' = [call EXCEPT !.waiting = {}, !.pc = pc]
          \/ \E kind \in {"batch", "rename"}, minimum \in {Null, Part} :
                call' = [NoCall EXCEPT !.pc = "open", !.kind = kind, !.minimum = minimum]
      BY <2>6, NewMinimum DEF Fails, Renames, FinishWith, Return
    <3>2. NoCall \in Calls
      BY DEF NoCall, Calls
    <3>3. \A kind \in {"batch", "rename"}, minimum \in {Null, Part} :
             [NoCall EXCEPT !.pc = "open", !.kind = kind, !.minimum = minimum] \in Calls
      BY DEF NoCall, Calls
    <3>4. \A pc \in {"answered", "refused"} : [call EXCEPT !.waiting = {}, !.pc = pc] \in Calls
      BY <1>t DEF Calls
    <3> QED BY <3>1, <3>2, <3>3, <3>4
  <2>5. \/ UNCHANGED call \/ Sends \/ StartCall \/ Opens \/ Readies \/ Fails \/ Judges
        \/ Renames \/ Return \/ SleepBetweenPolls
        \/ \E w \in call.waiting : Records(w) \/ Postpones(w) \/ AsksAgain(w)
    BY Steps DEF Settles, Skips, Idles, ServerStep, StartIndexing, BeginProgress,
                 FinishIndexing, ServerAsks, Reply, ReaderFails, ServerDies
  <2> QED BY <1>t, <2>1, <2>2, <2>3, <2>4, <2>5, <2>6
<1> QED BY <1>1, <1>2, <1>3, <1>4, PollTypesStep, PipeTypesStep DEF LspTypes

(***************************************************************************)
(* Numbers                                                                 *)
(***************************************************************************)
\* A call that has ended waits for nothing, and is what it was.
LEMMA EndedCall ==
  ASSUME LspTypes, NEW outcome, NEW answers, FinishWith(outcome, answers)
  PROVE  /\ call'.pc = (IF outcome = "ok" THEN "answered" ELSE "refused")
         /\ call'.pc \in {"answered", "refused"}
         /\ call'.kind = call.kind /\ call'.waiting = {} /\ poll' = answers
         /\ call'.attempt = call.attempt /\ call'.minimum = call.minimum
<1> DEFINE pc == IF outcome = "ok" THEN "answered" ELSE "refused"
<1>1. call' = [call EXCEPT !.waiting = {}, !.pc = pc] /\ poll' = answers
  BY DEF FinishWith
<1>2. call \in Calls
  BY DEF LspTypes
<1> HIDE DEF pc
<1>3. /\ call'.pc = pc /\ call'.kind = call.kind /\ call'.waiting = {}
      /\ call'.attempt = call.attempt /\ call'.minimum = call.minimum
  BY <1>1, <1>2 DEF Calls
<1> QED BY <1>1, <1>3 DEF pc

\* One that begins, and none, wait for nothing either.
LEMMA NewCall ==
  ASSUME StartCall \/ Return
  PROVE  /\ call'.waiting = {} /\ call'.pc = (IF StartCall THEN "open" ELSE "idle")
         /\ call'.pc \in {"open", "idle"}
<1>1. CASE StartCall
  <2>1. call'.pc = "open"
    BY <1>1 DEF StartCall, NoCall
  <2>2. call'.waiting = {}
    BY <1>1 DEF StartCall, NoCall
  <2> QED BY <1>1, <2>1, <2>2
<1>2. CASE Return /\ ~StartCall
  <2>1. call' = NoCall
    BY <1>2 DEF Return
  <2> QED BY <1>2, <2>1 DEF NoCall
<1> QED BY <1>1, <1>2

\* How a step changes what is awaited and where the call is.
LEMMA CallMoves ==
  ASSUME LspTypes, [LspNext]_lspVars
  PROVE  \/ UNCHANGED <<call, calls>>
         \/ calls' = calls + 1 /\ call'.pc = "open" /\ call'.waiting = {}
         \/ calls' = calls /\ call.pc = "open" /\ call'.pc = "ready"
               /\ call'.waiting = call.waiting
         \/ calls' = calls /\ call.pc = "ready" /\ call'.pc = "round" /\ call'.attempt = 1
               /\ call'.waiting = call.waiting
         \/ calls' = calls /\ Sends
         \/ calls' = calls /\ call.pc = "await" /\ call'.pc \in {"await", "judge"}
               /\ call'.attempt = call.attempt
         \/ calls' = calls /\ call.pc = "judge" /\ call'.pc \in {"rename", "sleep"}
               /\ call'.attempt = call.attempt /\ call'.waiting = call.waiting
         \/ calls' = calls /\ call.pc = "sleep" /\ call'.pc = "round"
               /\ call'.attempt = call.attempt + 1 /\ call'.waiting = call.waiting
         \/ calls' = calls /\ call'.pc \in {"answered", "refused", "idle"} /\ call'.waiting = {}
<1> USE DEF KeepsNumbers, KeepsCall
<1>t. /\ call = [pc |-> call.pc, kind |-> call.kind, minimum |-> call.minimum,
                 waiting |-> call.waiting, attempt |-> call.attempt]
  BY DEF LspTypes, Calls
<1>1. CASE StartCall
  BY <1>1, NewCall DEF StartCall
<1>2. CASE Opens \/ Readies \/ SleepBetweenPolls
  BY <1>2, <1>t DEF Opens, Readies, Ready, SleepBetweenPolls
<1>3. ASSUME NEW w \in call.waiting, Records(w) \/ Postpones(w) \/ AsksAgain(w)
      PROVE  calls' = calls /\ call.pc = "await" /\ call'.pc \in {"await", "judge"}
                 /\ call'.attempt = call.attempt
  BY <1>3, <1>t DEF Records, Postpones, AsksAgain, Hears, Skipped, SkipRound, AskAgain
<1>4. CASE Fails \/ Renames \/ Return
  <2>1. CASE Fails \/ Renames
    BY <2>1, EndedCall DEF Fails, Renames
  <2>2. CASE Return
    <3>1. call' = NoCall /\ calls' = calls
      BY <2>2 DEF Return
    <3> QED BY <3>1 DEF NoCall
  <2> QED BY <1>4, <2>1, <2>2
<1>5. CASE Judges
  <2>1. \/ call' = [call EXCEPT !.pc = "rename"] \/ call' = [call EXCEPT !.pc = "sleep"]
        \/ call' = [call EXCEPT !.waiting = {}, !.pc = "answered"]
    BY <1>5 DEF Judges, FinishWith
  <2> QED BY <1>5, <1>t, <2>1 DEF Judges
<1>6. CASE Skips \/ Settles \/ Idles \/ ServerStep
  BY <1>6 DEF Skips, Settles, Idles, ServerStep, StartIndexing, BeginProgress, FinishIndexing,
              ServerAsks, Reply, ReaderFails, ServerDies
<1>7. CASE Sends
  BY <1>7 DEF Sends
<1> QED BY <1>1, <1>2, <1>3, <1>4, <1>5, <1>6, <1>7, Steps

\* A number once given is one that no later round gives again.
LEMMA GivenStays ==
  ASSUME LspTypes, [LspNext]_lspVars
  PROVE  \A id \in RequestIds : Given(id) => Given(id)'
<1>1. call.attempt \in Nat /\ calls \in Nat /\ \A id \in RequestIds : id[1] \in Nat /\ id[2] \in Nat
  BY DEF LspTypes, Calls, RequestIds
<1>2. CASE Sends
  BY <1>1, <1>2 DEF Sends, KeepsNumbers, Given, LspTypes, Calls
<1>3. CASE ~Sends
  BY <1>1, <1>3, CallMoves DEF Given
<1> QED BY <1>2, <1>3

\* The numbers of a round that is being sent, or asked again.
LEMMA NewNumbers ==
  ASSUME LspTypes, call.pc \in {"round", "await"}, call'.pc = "await", calls' = calls,
         call'.attempt = call.attempt,
         NEW i \in Items, NEW n \in Nat
  PROVE  LET id == <<calls, call.attempt, i, n>>
         IN  /\ \A x \in RequestIds : x = id => Given(x)'
             /\ Tells(id, <<calls, i>>) /\ id \in RequestIds
             /\ id[1] = calls /\ id[2] = call.attempt /\ id[3] = i
<1>1. <<calls, call.attempt, i, n>> \in RequestIds /\ calls \in Nat /\ call.attempt \in Nat
  BY DEF LspTypes, Calls, PollTypes, RequestIds
<1>2. \A x \in RequestIds : x = <<calls, call.attempt, i, n>> => Given(x)'
  BY <1>1 DEF Given
<1> QED BY <1>1, <1>2 DEF Tells

\* The requests at the server are numbered requests of this client.
LEMMA AskedStep ==
  ASSUME LspTypes, NumbersInv, [LspNext]_lspVars
  PROVE  AskedAreGiven'
<1> USE DEF KeepsNumbers, KeepsCall
<1>0. \A r \in server.asked : r[1] \in RequestIds
  BY DEF LspTypes, Servers
<1>1. ASSUME server'.asked \subseteq server.asked PROVE AskedAreGiven'
  BY <1>0, <1>1, GivenStays DEF NumbersInv, AskedAreGiven, Tells
<1>2. CASE Sends
  <2>1. call.pc = "round" /\ call'.pc = "await" /\ call'.attempt = call.attempt /\ calls' = calls
    BY <1>2 DEF Sends, LspTypes, Calls
  <2>2. server'.asked = server.asked \cup {<<NextId(i), <<calls, i>>>> : i \in Outstanding}
    BY <1>2 DEF Sends, LspTypes, Servers
  <2>3. \A i \in Outstanding : \A x \in RequestIds :
           x = NextId(i) => Given(x)' /\ Tells(x, <<calls, i>>)
    <3>1. \A i \in Outstanding : i \in Items /\ poll[i].retries \in Nat
      BY DEF Outstanding, LspTypes, PollTypes, Polls
    <3> QED BY <2>1, <3>1, NewNumbers DEF NextId
  <2>4. \A i \in Outstanding : NextId(i) \in RequestIds
    BY NumberTypes DEF Outstanding
  <2>5. \A r \in server'.asked : Given(r[1])' /\ Tells(r[1], r[2])
    BY <1>0, <2>2, <2>3, <2>4, GivenStays DEF NumbersInv, AskedAreGiven
  <2> QED BY <2>5 DEF AskedAreGiven, Tells
<1>3. ASSUME NEW w \in call.waiting, AsksAgain(w) PROVE AskedAreGiven'
  <2> DEFINE i == w[2]
             id == <<calls, call.attempt, i, poll[i].retries + 1>>
  <2>1. call.pc = "await" /\ call'.pc = "await" /\ call'.attempt = call.attempt /\ calls' = calls
    BY <1>3 DEF AsksAgain, Hears, AskAgain, LspTypes, Calls
  <2>2. server'.asked \subseteq server.asked \cup {<<id, <<calls, i>>>>}
    BY <1>3 DEF AsksAgain, AskAgain, LspTypes, Servers
  <2>3. i \in Items /\ poll[i].retries + 1 \in Nat
    BY <1>3 DEF NumbersInv, AwaitedAreOwn, LspTypes, PollTypes, Polls
  <2>4. /\ \A x \in RequestIds : x = id => Given(x)'
        /\ Tells(id, <<calls, i>>) /\ id \in RequestIds
    BY <2>1, <2>3, NewNumbers
  <2> HIDE DEF i, id
  <2> QED BY <1>0, <2>2, <2>4, GivenStays DEF NumbersInv, AskedAreGiven, Tells
<1>4. \/ server'.asked \subseteq server.asked \/ Sends
      \/ \E w \in call.waiting : AsksAgain(w)
  <2>t. server \in Servers
    BY DEF LspTypes
  <2>1. CASE StartCall
    BY <2>1 DEF StartCall, Fresh
  <2>2. CASE Opens \/ Skips \/ Fails \/ Judges \/ Renames
    <3>1. server' \in {server, [server EXCEPT !.open = TRUE], [server EXCEPT !.open = FALSE],
                       [server EXCEPT !.announced = "granted"]}
      BY <2>2 DEF Opens, Skips, Responded, Fails, Judges, Renames, FinishWith, Close,
                  CloseDocument
    <3> QED BY <2>t, <3>1 DEF Servers
  <2>3. CASE StartIndexing \/ BeginProgress \/ FinishIndexing
    BY <2>t, <2>3 DEF StartIndexing, BeginProgress, FinishIndexing, Servers
  <2>4. CASE ServerAsks \/ ReaderFails \/ ServerDies
    BY <2>t, <2>4 DEF ServerAsks, ReaderFails, ServerDies, Servers
  <2>5. CASE Reply
    <3>1. PICK request \in server.asked : server' = [server EXCEPT !.asked = @ \ {request}]
      BY <2>5 DEF Reply
    <3> QED BY <2>t, <3>1 DEF Servers
  <2> QED BY <2>1, <2>2, <2>3, <2>4, <2>5, Steps
          DEF Settles, SleepBetweenPolls, Readies, Records, Postpones, Skipped, SkipRound, Return,
              Idles, ServerStep
<1> QED BY <1>1, <1>2, <1>3, <1>4

\* What is in the pipe tells of requests of this client, or of none.
LEMMA MessagesStep ==
  ASSUME LspTypes, NumbersInv, [LspNext]_lspVars
  PROVE  MessagesAreTrue'
<1> USE DEF KeepsNumbers, KeepsCall
<1>t. pipe \in Seq(Messages) /\ server.asked \subseteq RequestIds \X (Nat \X Nat)
      /\ call.waiting \subseteq RequestIds \X Nat
  BY DEF LspTypes, Servers, Calls
<1>0. \A m \in Messages : MessageIsTrue(m) => MessageIsTrue(m)'
  BY GivenStays DEF MessageIsTrue, Given, Tells
<1>1. \A m \in Range(pipe) : m \in Messages /\ MessageIsTrue(m)
  BY <1>t DEF NumbersInv, MessagesAreTrue, Range
<1>2. ASSUME Range(pipe') \subseteq Range(pipe) PROVE MessagesAreTrue'
  BY <1>0, <1>1, <1>2 DEF MessagesAreTrue
<1>3. ASSUME NEW m \in Messages, MessageIsTrue(m), pipe' = Append(pipe, m) PROVE MessagesAreTrue'
  <2>1. Range(pipe') = Range(pipe) \cup {m}
    BY <1>t, <1>3, Appended
  <2> QED BY <1>0, <1>1, <1>3, <2>1 DEF MessagesAreTrue
<1>4. CASE StartIndexing \/ BeginProgress \/ FinishIndexing \/ ReaderFails
  <2>1. pipe' = pipe \/ \E kind \in {"token", "begin", "end", "error"} :
                           pipe' = Append(pipe, Message(kind, NoId, NoId, Null))
    BY <1>4 DEF StartIndexing, BeginProgress, FinishIndexing, ReaderFails
  <2>2. \A kind \in {"token", "begin", "end", "error"} :
           LET m == Message(kind, NoId, NoId, Null) IN m \in Messages /\ MessageIsTrue(m)
    <3> TAKE kind \in {"token", "begin", "end", "error"}
    <3> DEFINE m == Message(kind, NoId, NoId, Null)
    <3>1. m \in Messages /\ m.kind = kind /\ m.id = NoId
      BY MessageTypes DEF MessageKinds
    <3> QED BY <3>1 DEF MessageIsTrue
  <2> QED BY <1>2, <1>3, <2>1, <2>2
<1>5. CASE ServerAsks
  <2>1. PICK w \in call.waiting : pipe' = Append(pipe, Message("ask", w[1], NoId, Null))
    BY <1>5 DEF ServerAsks
  <2> DEFINE m == Message("ask", w[1], NoId, Null)
  <2>2. w[1] \in RequestIds /\ m \in Messages /\ m.kind = "ask" /\ m.id = w[1] /\ m.value = Null
        /\ m.of = NoId
    BY <1>t, MessageTypes DEF MessageKinds
  <2>3. Given(w[1])
    BY <2>2 DEF Given, NumbersInv, AwaitedAreOwn, LspTypes, Calls
  <2>4. MessageIsTrue(m)
    BY <2>2, <2>3 DEF MessageIsTrue
  <2> QED BY <1>3, <2>1, <2>2, <2>4
<1>6. CASE Reply
  <2>1. PICK request \in server.asked, kind \in {"answer", "modified"},
             value \in {Null, Part, Full} :
           pipe' = Append(pipe, Message(kind, request[1], request[2], value))
    BY <1>6 DEF Reply
  <2> DEFINE m == Message(kind, request[1], request[2], value)
  <2>2. request[1] \in RequestIds /\ request[2] \in Nat \X Nat
    BY <1>t
  <2>3. m \in Messages /\ m.kind = kind /\ m.id = request[1] /\ m.of = request[2]
    BY <2>2, MessageTypes DEF MessageKinds
  <2>4. MessageIsTrue(m)
    BY <2>3 DEF MessageIsTrue, NumbersInv, AskedAreGiven
  <2> QED BY <1>3, <2>1, <2>3, <2>4
<1>7. CASE UNCHANGED pipe \/ pipe' = <<>> \/ (pipe # <<>> /\ pipe' = Tail(pipe))
  <2>1. CASE pipe' = <<>>
    BY <2>1 DEF MessagesAreTrue, Range
  <2>2. CASE pipe # <<>> /\ pipe' = Tail(pipe)
    BY <1>2, <1>t, <2>2, Popped
  <2> QED BY <1>2, <1>7, <2>1, <2>2
<1>8. UNCHANGED pipe \/ pipe' = <<>> \/ (pipe # <<>> /\ pipe' = Tail(pipe)) \/ ServerStep
  BY Steps DEF StartCall, Opens, Readies, Skips, Settles, Sends, Records, Postpones, AsksAgain,
               Hears, Fails, Judges, SleepBetweenPolls, Renames, Return, Idles
<1> QED BY <1>4, <1>5, <1>6, <1>7, <1>8 DEF ServerStep, ServerDies

\* What the call waits for are requests of its round, for items not done.
LEMMA AwaitedStep ==
  ASSUME LspTypes, NumbersInv, [LspNext]_lspVars
  PROVE  AwaitedAreOwn'
<1> USE DEF KeepsNumbers, KeepsCall
<1>t. /\ call.waiting \subseteq RequestIds \X Nat /\ call.attempt \in Nat /\ calls \in Nat
      /\ call = [pc |-> call.pc, kind |-> call.kind, minimum |-> call.minimum,
                 waiting |-> call.waiting, attempt |-> call.attempt]
      /\ Items \subseteq Nat /\ \A i \in Items : poll[i] \in Polls
  BY DEF LspTypes, Calls, PollTypes
<1>0. call.pc # "await" => call.waiting = {}
  BY DEF NumbersInv, AwaitedAreOwn
<1>1. ASSUME call'.waiting = {} PROVE AwaitedAreOwn'
  BY <1>1 DEF AwaitedAreOwn
<1>2. ASSUME UNCHANGED <<call, poll, calls>> PROVE AwaitedAreOwn'
  BY <1>2 DEF NumbersInv, AwaitedAreOwn
<1>3. CASE Sends
  <2>1. \A i \in Outstanding : /\ i \in Items /\ ~poll[i].done /\ NextId(i) \in RequestIds
                               /\ NextId(i)[1] = calls /\ NextId(i)[2] = call.attempt
                               /\ NextId(i)[3] = i
    <3> TAKE i \in Outstanding
    <3>1. i \in Items /\ ~poll[i].done
      BY DEF Outstanding
    <3>2. poll[i].retries \in Nat /\ NextId(i) \in RequestIds
      BY <1>t, <3>1, NumberTypes DEF Polls
    <3> QED BY <3>1, <3>2 DEF NextId
  <2>2. call' = [call EXCEPT !.pc = "await", !.waiting = {<<NextId(i), i>> : i \in Outstanding}]
        /\ UNCHANGED <<poll, calls>>
    BY <1>3 DEF Sends
  <2>3. call'.pc = "await" /\ call'.waiting = {<<NextId(i), i>> : i \in Outstanding}
        /\ call'.attempt = call.attempt
    BY <1>t, <2>2
  <2>4. \A w \in call'.waiting : \E i \in Outstanding : w = <<NextId(i), i>>
    BY <2>3
  <2>5. \A w \in call'.waiting : /\ w[2] \in Items /\ ~poll[w[2]].done
                                 /\ w[1] \in RequestIds /\ w[1][1] = calls
                                 /\ w[1][2] = call.attempt /\ w[1][3] = w[2]
    BY <2>1, <2>4
  <2> QED BY <2>2, <2>3, <2>5 DEF AwaitedAreOwn
<1>4. ASSUME NEW w \in call.waiting, Records(w) \/ Postpones(w) PROVE AwaitedAreOwn'
  <2> DEFINE left == call.waiting \ Mine(Head(pipe))
             k == w[2]
  <2>1. /\ call'.waiting = left /\ call'.attempt = call.attempt /\ calls' = calls
        /\ left # {} => call'.pc = "await"
    BY <1>t, <1>4 DEF Records, Postpones, Hears, Skipped, SkipRound
  <2>2. k \in Items /\ poll[k] \in Polls /\ Head(pipe) \in Messages
    BY <1>4, <1>t, Popped DEF NumbersInv, AwaitedAreOwn, LspTypes, Records, Postpones, Hears
  <2>3. Items' = Items /\ \A i \in Items : poll'[i].done = poll[i].done
    <3>1. \E p : poll' = [poll EXCEPT ![k] = p] /\ p.done = poll[k].done
      <4>1. Record(poll[k], Head(pipe).of, Head(pipe).value).done = poll[k].done
        <5>1. /\ Head(pipe).of \in (Nat \X Nat) \cup {NoId}
              /\ Head(pipe).value \in {Null, Part, Full}
          BY <2>2 DEF Messages
        <5> HIDE DEF k
        <5> QED BY <2>2, <5>1, RecordTypes
      <4>2. [poll[k] EXCEPT !.retries = @ + 1].done = poll[k].done
        BY <2>2 DEF Polls
      <4>3. \/ poll' = [poll EXCEPT ![k] = Record(@, Head(pipe).of, Head(pipe).value)]
            \/ poll' = [poll EXCEPT ![k].retries = @ + 1]
        BY <1>4 DEF Records, Postpones
      <4> HIDE DEF k
      <4> QED BY <4>1, <4>2, <4>3
    <3>2. poll \in [Items -> Polls]
      BY DEF LspTypes, PollTypes
    <3> HIDE DEF k
    <3> QED BY <2>2, <3>1, <3>2
  <2>4. \A x \in left : /\ x[2] \in Items /\ ~poll[x[2]].done
                        /\ x[1] \in RequestIds /\ x[1][1] = calls
                        /\ x[1][2] = call.attempt /\ x[1][3] = x[2]
    BY DEF NumbersInv, AwaitedAreOwn
  <2> HIDE DEF left
  <2> QED BY <2>1, <2>3, <2>4 DEF AwaitedAreOwn
<1>5. ASSUME NEW w \in call.waiting, AsksAgain(w) PROVE AwaitedAreOwn'
  <2> DEFINE i == w[2]
             id == <<calls, call.attempt, i, poll[i].retries + 1>>
  <2>1. i \in Items /\ poll[i] \in Polls /\ ~poll[i].done /\ call.pc = "await"
    BY <1>t DEF NumbersInv, AwaitedAreOwn
  <2>2. /\ call'.waiting = {<<id, i>>} /\ call'.attempt = call.attempt /\ calls' = calls
        /\ call'.pc = "await" /\ poll' = [poll EXCEPT ![i].retries = @ + 1]
    BY <1>t, <1>5, <2>1 DEF AsksAgain, Hears, AskAgain
  <2>3. id \in RequestIds /\ id[1] = calls /\ id[2] = call.attempt /\ id[3] = i
    BY <1>t, <2>1, NumberTypes DEF Polls
  <2>4. Items' = Items /\ poll'[i].done = poll[i].done
    <3>1. poll \in [Items -> Polls]
      BY DEF LspTypes, PollTypes
    <3> HIDE DEF i
    <3> QED BY <2>1, <2>2, <3>1 DEF Polls
  <2> HIDE DEF i, id
  <2> QED BY <2>1, <2>2, <2>3, <2>4 DEF AwaitedAreOwn
<1>6. \/ call'.waiting = {} \/ UNCHANGED <<call, poll, calls>> \/ Sends
      \/ \E w \in call.waiting : Records(w) \/ Postpones(w) \/ AsksAgain(w)
  <2>1. CASE StartCall \/ Fails \/ Renames \/ Return
    BY <2>1, NewCall, EndedCall DEF Fails, Renames
  <2>2. CASE Opens \/ Readies \/ SleepBetweenPolls
    <3>1. call.pc # "await" /\ (\/ call' = [call EXCEPT !.pc = "ready"]
                                \/ call' = [call EXCEPT !.pc = "round", !.attempt = 1]
                                \/ call' = [call EXCEPT !.pc = "round", !.attempt = @ + 1])
      BY <2>2 DEF Opens, Readies, Ready, SleepBetweenPolls
    <3> QED BY <1>t, <1>0, <3>1
  <2>3. CASE Judges
    <3>1. \/ call' = [call EXCEPT !.pc = "rename"] \/ call' = [call EXCEPT !.pc = "sleep"]
          \/ call' = [call EXCEPT !.waiting = {}, !.pc = "answered"]
      BY <2>3 DEF Judges, FinishWith
    <3> QED BY <1>t, <1>0, <2>3, <3>1 DEF Judges
  <2>4. CASE Skips \/ Settles \/ Idles \/ ServerStep
    BY <2>4 DEF Skips, Settles, Idles, ServerStep, StartIndexing, BeginProgress, FinishIndexing,
                ServerAsks, Reply, ReaderFails, ServerDies
  <2> QED BY <2>1, <2>2, <2>3, <2>4, Steps
<1> QED BY <1>1, <1>2, <1>3, <1>4, <1>5, <1>6

\* Every step keeps the numbers apart.
LEMMA NumbersStep ==
  ASSUME LspTypes, NumbersInv, [LspNext]_lspVars
  PROVE  NumbersInv'
BY AskedStep, MessagesStep, AwaitedStep DEF NumbersInv

(***************************************************************************)
(* A call's answers are its own                                            *)
(***************************************************************************)
\* What an item holds was answered to a request of this call for this item.
LEMMA AnswersStep ==
  ASSUME LspTypes, NumbersInv, AnswersAreForTheirRequests, [LspNext]_lspVars
  PROVE  AnswersAreForTheirRequests'
<1> USE DEF KeepsNumbers, KeepsCall
<1>t. poll \in [Items -> Polls]
  BY DEF LspTypes, PollTypes
<1>1. ASSUME poll' = <<>> PROVE AnswersAreForTheirRequests'
  BY <1>1 DEF AnswersAreForTheirRequests
<1>2. CASE StartCall
  BY <1>2 DEF StartCall, Unseen, AnswersAreForTheirRequests, Collided
<1>3. ASSUME calls' = calls, Items' = Items,
             \A i \in Items : /\ poll'[i].value = poll[i].value /\ poll'[i].of = poll[i].of
                               /\ poll'[i].polls = poll[i].polls
      PROVE  AnswersAreForTheirRequests'
  BY <1>3 DEF AnswersAreForTheirRequests, Collided
<1>4. ASSUME NEW w \in call.waiting, Records(w) PROVE AnswersAreForTheirRequests'
  <2> DEFINE k == w[2]  m == Head(pipe)
  <2>1. k \in Items /\ m \in Messages /\ m \in Range(pipe) /\ w[1][1] = calls /\ w[1][3] = k
        /\ m.id = w[1] /\ m.kind \in {"ask", "answer"} /\ calls' = calls
        /\ poll' = [poll EXCEPT ![k] = Record(@, m.of, m.value)]
    BY <1>4, <1>t, Popped DEF NumbersInv, AwaitedAreOwn, LspTypes, Records, Hears
  <2>2. m.of = <<calls, k>> \/ (m.of = NoId /\ m.value = Null)
    BY <2>1 DEF NumbersInv, MessagesAreTrue, MessageIsTrue, Tells
  <2> HIDE DEF k, m
  <2>3. /\ Record(poll[k], m.of, m.value).value = m.value
        /\ Record(poll[k], m.of, m.value).of = m.of
    BY <2>1, <1>t, RecordTypes DEF Messages
  <2> QED BY <2>1, <2>2, <2>3, <1>t DEF AnswersAreForTheirRequests, Collided
<1>5. ASSUME NEW w \in call.waiting, Postpones(w) \/ AsksAgain(w)
      PROVE  AnswersAreForTheirRequests'
  <2> DEFINE k == w[2]
  <2>1. k \in Items /\ poll' = [poll EXCEPT ![k].retries = @ + 1] /\ calls' = calls
    BY <1>5 DEF NumbersInv, AwaitedAreOwn, Postpones, AsksAgain, Hears
  <2> HIDE DEF k
  <2>2. \A i \in Items : poll[i] \in Polls
    BY <1>t
  <2>3. Items' = Items
        /\ \A i \in Items : /\ poll'[i].value = poll[i].value /\ poll'[i].of = poll[i].of
                             /\ poll'[i].polls = poll[i].polls
    BY <2>1, <2>2, <1>t DEF Polls
  <2> QED BY <2>1, <2>3, <1>3
<1>6. CASE Judges
  <2>1. \A i \in Items : /\ Judged[i].value = poll[i].value /\ Judged[i].of = poll[i].of
                          /\ Judged[i].polls = poll[i].polls
    BY <1>t DEF Judged, Polls
  <2> QED BY <1>6, <2>1, <1>3 DEF Judges, FinishWith, Judged
<1>7. CASE SleepBetweenPolls
  <2>1. PICK graced :
           poll' = [i \in Items |-> IF i \in graced THEN [poll[i] EXCEPT !.since = "graced"]
                                    ELSE poll[i]]
    BY <1>7 DEF SleepBetweenPolls
  <2>2. \A i \in Items : /\ poll'[i].value = poll[i].value /\ poll'[i].of = poll[i].of
                          /\ poll'[i].polls = poll[i].polls
    BY <1>t, <2>1 DEF Polls
  <2> QED BY <1>7, <2>1, <2>2, <1>3 DEF SleepBetweenPolls
<1>8. \/ UNCHANGED <<poll, calls>> \/ poll' = <<>> \/ StartCall \/ Judges \/ SleepBetweenPolls
      \/ \E w \in call.waiting : Records(w) \/ Postpones(w) \/ AsksAgain(w)
  BY Steps DEF Opens, Readies, Skips, Settles, Sends, Fails, FinishWith, Renames, Return, Idles,
               ServerStep, StartIndexing, BeginProgress, FinishIndexing, ServerAsks, Reply,
               ReaderFails, ServerDies
<1> QED BY <1>1, <1>2, <1>3, <1>4, <1>5, <1>6, <1>7, <1>8

\* A batch that ends after its first round leaves no document open, and
\* afterwards nothing opens one.
LEMMA ClosedStep ==
  ASSUME LspTypes, BatchClosesItsDocuments, [LspNext]_lspVars
  PROVE  BatchClosesItsDocuments'
<1> USE DEF KeepsNumbers, KeepsCall
<1>t. server \in Servers /\ call \in Calls
  BY DEF LspTypes
<1>1. ASSUME call'.pc \notin {"answered", "refused"} PROVE BatchClosesItsDocuments'
  BY <1>1 DEF BatchClosesItsDocuments
<1>2. ASSUME NEW outcome, NEW answers, FinishWith(outcome, answers)
      PROVE  BatchClosesItsDocuments'
  <2>1. call'.kind = call.kind /\ call'.attempt = call.attempt
    BY <1>2, EndedCall
  <2>2. call.kind = "batch" /\ Asked => server' = [server EXCEPT !.open = FALSE]
    BY <1>2 DEF FinishWith, Close, CloseDocument
  <2> QED BY <1>t, <2>1, <2>2 DEF BatchClosesItsDocuments, Asked, Servers
<1>3. ASSUME UNCHANGED call, call.pc \in {"answered", "refused"} PROVE BatchClosesItsDocuments'
  <2>1. server'.open = server.open /\ (server'.alive => server.alive)
    <3>1. CASE Idles
      BY <3>1 DEF Idles
    <3>2. CASE StartIndexing \/ BeginProgress \/ FinishIndexing
      BY <1>t, <3>2 DEF StartIndexing, BeginProgress, FinishIndexing, Servers
    <3>3. CASE ServerAsks \/ Reply \/ ReaderFails \/ ServerDies
      BY <1>t, <3>3 DEF ServerAsks, Reply, ReaderFails, ServerDies, Servers
    <3>4. ~StartCall /\ ~Return
      BY <1>3, NewCall
    <3>5. Idles \/ ServerStep
      BY <1>3, <3>4, Steps
         DEF Opens, Readies, Skips, Settles, Sends, Records, Postpones, AsksAgain, Hears, Fails,
             Judges, SleepBetweenPolls, Renames
    <3> QED BY <3>1, <3>2, <3>3, <3>5 DEF ServerStep
  <2> QED BY <1>3, <2>1 DEF BatchClosesItsDocuments, Asked
<1>4. \/ call'.pc \notin {"answered", "refused"}
      \/ UNCHANGED call /\ call.pc \in {"answered", "refused"}
      \/ FinishWith("failed", <<>>) \/ FinishWith("ok", Judged) \/ FinishWith("ok", poll)
  <2>1. CASE Fails \/ Judges \/ Renames
    BY <1>t, <2>1 DEF Fails, Judges, Renames, Calls
  <2>2. CASE StartCall \/ Return
    BY <2>2, NewCall
  <2>3. CASE Opens \/ Readies \/ SleepBetweenPolls \/ Sends
    <3>1. \/ call' = [call EXCEPT !.pc = "ready"]
          \/ call' = [call EXCEPT !.pc = "round", !.attempt = 1]
          \/ call' = [call EXCEPT !.pc = "round", !.attempt = @ + 1]
          \/ call' = [call EXCEPT !.pc = "await",
                                  !.waiting = {<<NextId(i), i>> : i \in Outstanding}]
      BY <2>3 DEF Opens, Readies, Ready, SleepBetweenPolls, Sends
    <3> QED BY <1>t, <3>1 DEF Calls
  <2>4. ASSUME NEW w \in call.waiting, Records(w) \/ Postpones(w) \/ AsksAgain(w)
        PROVE  call'.pc \notin {"answered", "refused"}
    BY <1>t, <2>4 DEF Records, Postpones, AsksAgain, Hears, Skipped, SkipRound, AskAgain, Calls
  <2>5. CASE Skips \/ Settles \/ Idles \/ ServerStep
    BY <2>5 DEF Skips, Settles, Idles, ServerStep, StartIndexing, BeginProgress, FinishIndexing,
                ServerAsks, Reply, ReaderFails, ServerDies
  <2> QED BY <2>1, <2>2, <2>3, <2>4, <2>5, Steps
<1> QED BY <1>1, <1>2, <1>3, <1>4

(***************************************************************************)
(* What clangd reports                                                     *)
(***************************************************************************)
\* A step that learns nothing of the index.
Quiet ==
    /\ server'.index = server.index /\ server'.announced = server.announced
    /\ client'.active = client.active /\ (client'.ended = "never" <=> client.ended = "never")
    /\ \/ pipe' = pipe
       \/ pipe # <<>> /\ pipe' = Tail(pipe) /\ Head(pipe).kind \notin {"begin", "end"}

\* Only these steps start or report an index, or read a report.
LEMMA Reporting ==
  ASSUME LspTypes, [LspNext]_lspVars
  PROVE  StartCall \/ Skips \/ ServerStep \/ Quiet
<1> USE DEF KeepsNumbers, KeepsCall
<1>t. server \in Servers /\ client \in Clients
  BY DEF LspTypes
<1>1. CASE Opens
  BY <1>t, <1>1 DEF Opens, Quiet, Servers
<1>2. CASE Readies \/ Return \/ Idles
  BY <1>2 DEF Readies, Return, Idles, Quiet
<1>3. CASE Settles \/ SleepBetweenPolls
  <2>1. UNCHANGED <<server, pipe>>
        /\ client' = [client EXCEPT !.ended = IF @ = "now" THEN "before" ELSE @]
    BY <1>t, <1>3 DEF Settles, SleepBetweenPolls, Clients
  <2> QED BY <1>t, <2>1 DEF Quiet, Clients
<1>4. CASE Sends
  BY <1>t, <1>4 DEF Sends, Quiet, Servers
<1>5. ASSUME NEW w \in call.waiting, Records(w) \/ Postpones(w) \/ AsksAgain(w) PROVE Quiet
  <2>1. server'.index = server.index /\ server'.announced = server.announced
    BY <1>t, <1>5 DEF Records, Postpones, AsksAgain, Skipped, SkipRound, AskAgain, Servers
  <2> QED BY <1>5, <2>1 DEF Records, Postpones, AsksAgain, Hears, Quiet
<1>6. CASE Fails \/ Judges \/ Renames
  <2>1. server' \in {server, [server EXCEPT !.open = FALSE]}
    BY <1>6 DEF Fails, Judges, Renames, FinishWith, Close, CloseDocument
  <2>2. server'.index = server.index /\ server'.announced = server.announced
    BY <1>t, <2>1 DEF Servers
  <2> QED BY <1>6, <2>2 DEF Fails, Judges, Renames, Quiet
<1> QED BY <1>1, <1>2, <1>3, <1>4, <1>5, <1>6, Steps

\* What a step of clangd appends, and what it makes of the index.
LEMMA ServerMoves ==
  ASSUME LspTypes, ServerStep
  PROVE  /\ UNCHANGED client
         /\ \/ server.index = "cold" /\ server'.index = "running" /\ server'.announced = "asked"
                  /\ pipe' = Append(pipe, Message("token", NoId, NoId, Null))
            \/ server.announced = "granted" /\ server'.announced = "begun"
                  /\ server.index = "running" /\ server'.index = server.index
                  /\ pipe' = Append(pipe, Message("begin", NoId, NoId, Null))
            \/ server.index = "running" /\ server'.index = "done"
                  /\ server'.announced = server.announced
                  /\ (pipe' = pipe \/ pipe' = Append(pipe, Message("end", NoId, NoId, Null)))
            \/ server'.index = server.index /\ server'.announced = server.announced
                  /\ \/ pipe' = pipe
                     \/ \E kind \in {"error", "ask", "answer", "modified"},
                           id \in RequestIds \cup {NoId},
                           of \in (Nat \X Nat) \cup {NoId}, value \in {Null, Part, Full} :
                           /\ kind = "answer" /\ server.index = "done" => value = Full
                           /\ pipe' = Append(pipe, Message(kind, id, of, value))
<1>t. server \in Servers /\ server.asked \subseteq RequestIds \X (Nat \X Nat)
      /\ call.waiting \subseteq RequestIds \X Nat
  BY DEF LspTypes, Servers, Calls
<1>0. UNCHANGED client
  BY DEF ServerStep, StartIndexing, BeginProgress, FinishIndexing, ServerAsks, Reply, ReaderFails,
         ServerDies
<1>1. CASE StartIndexing
  BY <1>0, <1>1, <1>t DEF StartIndexing, Servers
<1>2. CASE BeginProgress
  BY <1>0, <1>2, <1>t DEF BeginProgress, Servers
<1>3. CASE FinishIndexing
  BY <1>0, <1>3, <1>t DEF FinishIndexing, Servers
<1>4. CASE ServerAsks
  <2>1. PICK w \in call.waiting : pipe' = Append(pipe, Message("ask", w[1], NoId, Null))
    BY <1>4 DEF ServerAsks
  <2>2. w[1] \in RequestIds /\ UNCHANGED server
    BY <1>4, <1>t DEF ServerAsks
  <2> QED BY <1>0, <2>1, <2>2
<1>5. CASE Reply
  <2>1. PICK request \in server.asked :
           /\ server' = [server EXCEPT !.asked = @ \ {request}]
           /\ \/ \E value \in {Null, Part, Full} :
                    /\ server.index = "done" => value = Full
                    /\ pipe' = Append(pipe, Message("answer", request[1], request[2], value))
              \/ pipe' = Append(pipe, Message("modified", request[1], request[2], Null))
    BY <1>5 DEF Reply
  <2>2. request[1] \in RequestIds /\ request[2] \in (Nat \X Nat) \cup {NoId}
    BY <1>t
  <2>3. server'.index = server.index /\ server'.announced = server.announced
    BY <1>t, <2>1 DEF Servers
  <2>4. CASE pipe' = Append(pipe, Message("modified", request[1], request[2], Null))
    BY <1>0, <2>2, <2>3, <2>4
  <2>5. CASE \E value \in {Null, Part, Full} :
                /\ server.index = "done" => value = Full
                /\ pipe' = Append(pipe, Message("answer", request[1], request[2], value))
    BY <1>0, <2>2, <2>3, <2>5
  <2> QED BY <2>1, <2>4, <2>5
<1>6. CASE ServerDies
  BY <1>0, <1>6, <1>t DEF ServerDies, Servers
<1>7. CASE ReaderFails
  <2>1. server'.index = server.index /\ server'.announced = server.announced
    BY <1>7, <1>t DEF ReaderFails, Servers
  <2> QED BY <1>0, <1>7, <2>1 DEF ReaderFails
<1> QED BY <1>1, <1>2, <1>3, <1>4, <1>5, <1>6, <1>7 DEF ServerStep

\* What the client takes from a message that it skips.
LEMMA Reading ==
  ASSUME LspTypes, Skips
  PROVE  /\ pipe # <<>> /\ pipe' = Tail(pipe) /\ server'.index = server.index
         /\ server'.announced = server.announced
               \/ (Head(pipe).kind = "token" /\ server'.announced = "granted")
         /\ Head(pipe).kind = "begin" => client'.active /\ client'.ended = client.ended
         /\ Head(pipe).kind = "end" => ~client'.active /\ client'.ended = "now"
         /\ Head(pipe).kind \notin {"begin", "end"} => UNCHANGED client
         /\ UNCHANGED <<call, poll, calls>>
<1>t. server \in Servers /\ client \in Clients
  BY DEF LspTypes
<1>1. server' = Responded(Head(pipe)) /\ client' = Observed(Head(pipe)) /\ pipe # <<>>
      /\ pipe' = Tail(pipe) /\ UNCHANGED <<call, poll, calls>>
  BY DEF Skips, KeepsCall
<1>2. server'.index = server.index
      /\ (server'.announced = server.announced
             \/ (Head(pipe).kind = "token" /\ server'.announced = "granted"))
  <2>1. CASE Head(pipe).kind = "token"
    <3>1. server' = [server EXCEPT !.announced = "granted"]
      BY <1>1, <2>1 DEF Responded
    <3> QED BY <1>t, <2>1, <3>1 DEF Servers
  <2>2. CASE Head(pipe).kind # "token"
    <3>1. server' = server
      BY <1>1, <2>2 DEF Responded
    <3> QED BY <3>1
  <2> QED BY <2>1, <2>2
<1>3. CASE Head(pipe).kind = "begin"
  BY <1>t, <1>1, <1>2, <1>3 DEF Observed, Clients
<1>4. CASE Head(pipe).kind = "end"
  BY <1>t, <1>1, <1>2, <1>4 DEF Observed, Clients
<1>5. CASE Head(pipe).kind \notin {"begin", "end"}
  BY <1>t, <1>1, <1>2, <1>5 DEF Observed, Clients
<1> QED BY <1>3, <1>4, <1>5

\* An end is reported of an index that is done.
LEMMA EndStep ==
  ASSUME LspTypes, EndIsTrue, [LspNext]_lspVars
  PROVE  EndIsTrue'
<1> USE DEF EndIsTrue
<1>t. pipe \in Seq(Messages)
  BY DEF LspTypes
<1>1. CASE StartCall
  <2>1. \/ UNCHANGED <<client, server, pipe>>
        \/ client' = [NoClient EXCEPT !.generation = generation] /\ server' = Fresh /\ pipe' = <<>>
    BY <1>1 DEF StartCall
  <2>2. CASE UNCHANGED <<client, server, pipe>>
    BY <2>2
  <2>3. CASE client' = [NoClient EXCEPT !.generation = generation] /\ pipe' = <<>>
    BY <2>3 DEF NoClient, Range
  <2> QED BY <2>1, <2>2, <2>3
<1>2. CASE Skips
  <2>1. Range(pipe') \subseteq Range(pipe) /\ Head(pipe) \in Range(pipe)
    BY <1>2, <1>t, Popped DEF Skips
  <2> QED BY <1>2, <2>1, Reading
<1>3. CASE ServerStep
  <2>1. CASE \E m \in Messages : /\ pipe' = Append(pipe, m)
                                 /\ m.kind = "end" => server'.index = "done"
    <3>1. PICK m \in Messages : /\ pipe' = Append(pipe, m)
                                /\ m.kind = "end" => server'.index = "done"
      BY <2>1
    <3>2. Range(pipe') = Range(pipe) \cup {m}
      BY <1>t, <3>1, Appended
    <3>3. UNCHANGED client /\ (server.index = "done" => server'.index = "done")
      BY <1>3, ServerMoves
    <3> QED BY <3>1, <3>2, <3>3
  <2>2. CASE pipe' = pipe
    <3>1. UNCHANGED client /\ (server.index = "done" => server'.index = "done")
      BY <1>3, ServerMoves
    <3> QED BY <2>2, <3>1
  <2>3. \A kind \in MessageKinds, id \in RequestIds \cup {NoId},
           of \in (Nat \X Nat) \cup {NoId}, value \in {Null, Part, Full} :
           /\ Message(kind, id, of, value) \in Messages
           /\ Message(kind, id, of, value).kind = kind
    BY MessageTypes
  <2>4. CASE pipe' # pipe
    <3>1. \E kind \in MessageKinds, id \in RequestIds \cup {NoId},
             of \in (Nat \X Nat) \cup {NoId}, value \in {Null, Part, Full} :
             /\ kind = "end" => server'.index = "done"
             /\ pipe' = Append(pipe, Message(kind, id, of, value))
      <4>1. MessageKinds = {"token", "begin", "end", "error", "ask", "answer", "modified"}
            /\ NoId \in RequestIds \cup {NoId} /\ NoId \in (Nat \X Nat) \cup {NoId}
            /\ Null \in {Null, Part, Full}
        BY DEF MessageKinds
      <4>2. \/ pipe' = Append(pipe, Message("token", NoId, NoId, Null))
            \/ pipe' = Append(pipe, Message("begin", NoId, NoId, Null))
            \/ server'.index = "done" /\ pipe' = Append(pipe, Message("end", NoId, NoId, Null))
            \/ \E kind \in {"error", "ask", "answer", "modified"}, id \in RequestIds \cup {NoId},
                  of \in (Nat \X Nat) \cup {NoId}, value \in {Null, Part, Full} :
                  pipe' = Append(pipe, Message(kind, id, of, value))
        BY <1>3, <2>4, ServerMoves
      <4> QED BY <4>1, <4>2
    <3>2. PICK kind \in MessageKinds, id \in RequestIds \cup {NoId},
               of \in (Nat \X Nat) \cup {NoId}, value \in {Null, Part, Full} :
             /\ kind = "end" => server'.index = "done"
             /\ pipe' = Append(pipe, Message(kind, id, of, value))
      BY <3>1
    <3> DEFINE m == Message(kind, id, of, value)
    <3>3. m \in Messages /\ m.kind = kind
      BY <2>3
    <3> HIDE DEF m
    <3>4. pipe' = Append(pipe, m) /\ (m.kind = "end" => server'.index = "done")
      BY <3>2, <3>3 DEF m
    <3> QED BY <2>1, <3>3, <3>4
  <2> QED BY <2>1, <2>2, <2>4
<1>4. CASE Quiet
  <2>1. Range(pipe') \subseteq Range(pipe)
    BY <1>4, <1>t, Popped DEF Quiet
  <2> QED BY <1>4, <2>1 DEF Quiet
<1> QED BY <1>1, <1>2, <1>3, <1>4, Reporting

\* At most one request for a token is on its way, until it is granted.
LEMMA TokenStep ==
  ASSUME LspTypes, TokenIsAsked, [LspNext]_lspVars
  PROVE  TokenIsAsked'
<1> USE DEF TokenIsAsked
<1>t. pipe \in Seq(Messages) /\ Len(pipe) \in Nat /\ DOMAIN pipe = 1..Len(pipe)
  BY DEF LspTypes
<1>1. CASE StartCall
  <2>1. \/ UNCHANGED <<client, server, pipe>>
        \/ server' = Fresh /\ pipe' = <<>>
    BY <1>1 DEF StartCall
  <2> QED BY <2>1 DEF Fresh
<1>2. ASSUME pipe # <<>>, pipe' = Tail(pipe), server'.index = server.index,
             server'.announced = server.announced
                \/ (Head(pipe).kind = "token" /\ server'.announced = "granted")
      PROVE  TokenIsAsked'
  <2>1. /\ Head(pipe) = pipe[1] /\ 1 \in DOMAIN pipe /\ DOMAIN pipe' \subseteq Nat
        /\ \A k \in DOMAIN pipe' : k + 1 \in DOMAIN pipe /\ pipe'[k] = pipe[k + 1]
        /\ \A k \in DOMAIN pipe' : k \in Nat /\ k >= 1
    BY <1>t, <1>2, Popped
  <2>2. \A k \in DOMAIN pipe' : pipe'[k].kind = "token" =>
           /\ server.announced = "asked" /\ Head(pipe).kind # "token"
           /\ \A j \in DOMAIN pipe' : pipe'[j].kind = "token" => j = k
    <3> TAKE k \in DOMAIN pipe'
    <3> HAVE pipe'[k].kind = "token"
    <3>1. server.announced = "asked" /\ \A j \in DOMAIN pipe : pipe[j].kind = "token" => j = k + 1
      BY <2>1
    <3>2. Head(pipe).kind # "token"
      BY <2>1, <3>1
    <3>3. \A j \in DOMAIN pipe' : pipe'[j].kind = "token" => j = k
      BY <2>1, <3>1
    <3> QED BY <3>1, <3>2, <3>3
  <2>3. server'.index = "cold" => server'.announced = "no"
    <3>1. Head(pipe).kind = "token" => server.index # "cold"
      BY <2>1
    <3> QED BY <1>2, <3>1
  <2> QED BY <1>2, <2>2, <2>3
<1>3. CASE Skips
  BY <1>2, <1>3, Reading
<1>4. CASE Quiet
  <2>1. CASE pipe' = pipe
    <3>1. server'.index = server.index /\ server'.announced = server.announced
      BY <1>4 DEF Quiet
    <3> QED BY <2>1, <3>1
  <2>2. CASE pipe # <<>> /\ pipe' = Tail(pipe)
    BY <1>2, <1>4, <2>2 DEF Quiet
  <2> QED BY <1>4, <2>1, <2>2 DEF Quiet
<1>5. CASE ServerStep
  <2>1. ASSUME NEW m \in Messages, pipe' = Append(pipe, m), m.kind # "token",
               \A k \in DOMAIN pipe : pipe[k].kind = "token" => server'.announced = "asked",
               server'.index = "cold" => server'.announced = "no"
        PROVE  TokenIsAsked'
    <3>1. /\ DOMAIN pipe' = 1..(Len(pipe) + 1) /\ pipe'[Len(pipe) + 1] = m
          /\ \A k \in DOMAIN pipe : pipe'[k] = pipe[k]
      BY <1>t, <2>1, Appended
    <3>2. \A k \in DOMAIN pipe' :
             pipe'[k].kind = "token" => k \in DOMAIN pipe /\ pipe[k].kind = "token"
      BY <1>t, <2>1, <3>1
    <3> QED BY <2>1, <3>2
  <2>2. \A kind \in MessageKinds, id \in RequestIds \cup {NoId},
           of \in (Nat \X Nat) \cup {NoId}, value \in {Null, Part, Full} :
           /\ Message(kind, id, of, value) \in Messages
           /\ Message(kind, id, of, value).kind = kind
    BY MessageTypes
  <2>3. CASE /\ server.index = "cold" /\ server'.index = "running" /\ server'.announced = "asked"
             /\ pipe' = Append(pipe, Message("token", NoId, NoId, Null))
    <3> DEFINE m == Message("token", NoId, NoId, Null)
    <3>1. m \in Messages /\ m.kind = "token"
      BY <2>2 DEF MessageKinds
    <3>2. /\ DOMAIN pipe' = 1..(Len(pipe) + 1) /\ pipe'[Len(pipe) + 1] = m
          /\ \A k \in DOMAIN pipe : pipe'[k] = pipe[k]
      BY <1>t, <2>3, <3>1, Appended
    <3>3. \A k \in DOMAIN pipe : pipe[k].kind # "token"
      BY <2>3
    <3>4. \A k \in DOMAIN pipe' : pipe'[k].kind = "token" => k = Len(pipe) + 1
      BY <1>t, <3>2, <3>3
    <3> QED BY <2>3, <3>4
  <2>4. CASE /\ server.announced = "granted" /\ server'.announced = "begun"
             /\ server.index = "running" /\ server'.index = server.index
             /\ pipe' = Append(pipe, Message("begin", NoId, NoId, Null))
    BY <2>1, <2>2, <2>4 DEF MessageKinds
  <2>5. CASE /\ server.index = "running" /\ server'.index = "done"
             /\ server'.announced = server.announced
             /\ (pipe' = pipe \/ pipe' = Append(pipe, Message("end", NoId, NoId, Null)))
    <3>1. CASE pipe' = pipe
      BY <2>5, <3>1
    <3>2. CASE pipe' = Append(pipe, Message("end", NoId, NoId, Null))
      <4>1. /\ Message("end", NoId, NoId, Null) \in Messages
            /\ Message("end", NoId, NoId, Null).kind # "token"
        BY <2>2 DEF MessageKinds
      <4> QED BY <2>1, <2>5, <3>2, <4>1
    <3> QED BY <2>5, <3>1, <3>2
  <2>6. CASE /\ server'.index = server.index /\ server'.announced = server.announced
             /\ \/ pipe' = pipe
                \/ \E kind \in {"error", "ask", "answer", "modified"},
                      id \in RequestIds \cup {NoId},
                      of \in (Nat \X Nat) \cup {NoId}, value \in {Null, Part, Full} :
                      /\ kind = "answer" /\ server.index = "done" => value = Full
                      /\ pipe' = Append(pipe, Message(kind, id, of, value))
    <3>1. CASE pipe' = pipe
      BY <2>6, <3>1
    <3>2. CASE pipe' # pipe
      <4>1. PICK kind \in {"error", "ask", "answer", "modified"}, id \in RequestIds \cup {NoId},
                 of \in (Nat \X Nat) \cup {NoId}, value \in {Null, Part, Full} :
                 pipe' = Append(pipe, Message(kind, id, of, value))
        BY <2>6, <3>2
      <4>2. /\ Message(kind, id, of, value) \in Messages
            /\ Message(kind, id, of, value).kind # "token"
        BY <2>2 DEF MessageKinds
      <4> QED BY <2>1, <2>6, <4>1, <4>2
    <3> QED BY <3>1, <3>2
  <2> QED BY <1>5, <2>3, <2>4, <2>5, <2>6, ServerMoves
<1> QED BY <1>1, <1>3, <1>4, <1>5, Reporting

\* An index that clangd reports is one the client knows of, or will read of.
LEMMA BeginStep ==
  ASSUME LspTypes, BeginIsTold, [LspNext]_lspVars
  PROVE  BeginIsTold'
<1> USE DEF BeginIsTold, SawProgress
<1>t. pipe \in Seq(Messages)
  BY DEF LspTypes
<1>1. CASE StartCall
  <2>1. UNCHANGED <<client, server, pipe>> \/ server' = Fresh
    BY <1>1 DEF StartCall
  <2> QED BY <2>1 DEF Fresh
<1>2. CASE Skips
  <2>1. Range(pipe) = Range(pipe') \cup {Head(pipe)}
    BY <1>2, <1>t, Popped DEF Skips
  <2>2. CASE Head(pipe).kind \in {"begin", "end"}
    BY <1>2, <2>2, Reading
  <2>3. CASE Head(pipe).kind \notin {"begin", "end"}
    <3>1. UNCHANGED client /\ (server'.announced = "begun" => server.announced = "begun")
      BY <1>2, <2>3, Reading
    <3> QED BY <2>1, <2>3, <3>1
  <2> QED BY <2>2, <2>3
<1>3. CASE ServerStep
  <2>1. UNCHANGED client
    BY <1>3, ServerMoves
  <2>2. \/ pipe' = pipe \/ \E m \in Messages : pipe' = Append(pipe, m)
    BY <1>3, <1>t, PipeTypesStep, ServerMoves, MessageTypes DEF MessageKinds
  <2>3. Range(pipe) \subseteq Range(pipe')
    BY <1>t, <2>2, Appended
  <2>4. CASE server'.announced = "begun" /\ server.announced # "begun"
    <3> DEFINE m == Message("begin", NoId, NoId, Null)
    <3>1. pipe' = Append(pipe, m)
      BY <1>3, <2>4, ServerMoves
    <3>2. m \in Messages /\ m.kind = "begin"
      BY MessageTypes DEF MessageKinds
    <3>3. m \in Range(pipe')
      BY <1>t, <3>1, <3>2, Appended
    <3> QED BY <3>2, <3>3
  <2> QED BY <2>1, <2>3, <2>4
<1>4. CASE Quiet
  <2>1. \A m \in Range(pipe) : m.kind = "begin" => m \in Range(pipe')
    BY <1>4, <1>t, Popped DEF Quiet
  <2> QED BY <1>4, <2>1 DEF Quiet
<1> QED BY <1>1, <1>2, <1>3, <1>4, Reporting

(***************************************************************************)
(* What is believed of the items                                           *)
(***************************************************************************)
\* What clangd has reported stays reported as long as it is the same clangd.
LEMMA ReportsStay ==
  ASSUME LspTypes, TokenIsAsked, [LspNext]_lspVars, ~StartCall
  PROVE  /\ server.index = "done" => server'.index = "done"
         /\ server.announced = "begun" => server'.announced = "begun"
<1>1. CASE Skips
  <2>1. Head(pipe).kind = "token" => server.announced = "asked"
    <3>1. Head(pipe) = pipe[1] /\ 1 \in DOMAIN pipe
      BY <1>1, Popped DEF Skips, LspTypes
    <3> QED BY <3>1 DEF TokenIsAsked
  <2> QED BY <1>1, <2>1, Reading
<1>2. CASE ServerStep
  BY <1>2, ServerMoves DEF TokenIsAsked
<1>3. CASE Quiet
  BY <1>3 DEF Quiet
<1> QED BY <1>1, <1>2, <1>3, Reporting

\* How a step changes the items.
Marks == Items' = Items /\ \A i \in Items : /\ poll'[i].value = poll[i].value
                                            /\ poll'[i].of = poll[i].of
                                            /\ poll'[i].since = poll[i].since
                                            /\ poll'[i].retries = poll[i].retries
Graces ==
    /\ Items' = Items
    /\ \A i \in Items : /\ poll'[i].value = poll[i].value /\ poll'[i].done = poll[i].done
                        /\ poll'[i].of = poll[i].of /\ poll'[i].retries = poll[i].retries
                        /\ poll'[i].since = poll[i].since \/ GraceHolds

\* A message changes the item that it answers, which is not done.
Edits(k) ==
    /\ k \in Items /\ Items' = Items /\ ~poll'[k].done /\ ~poll[k].done
    /\ poll'[k].since = "graced" => poll[k].since = "graced"
    /\ \A i \in Items \ {k} : poll'[i] = poll[i]

\* A message that was awaited edits its item.
LEMMA HearEdits ==
  ASSUME LspTypes, NumbersInv,
         NEW w \in call.waiting, Records(w) \/ Postpones(w) \/ AsksAgain(w)
  PROVE  Edits(w[2])
<1>t. poll \in [Items -> Polls]
  BY DEF LspTypes, PollTypes
<1> DEFINE k == w[2]
<1>1. k \in Items /\ poll[k] \in Polls /\ ~poll[k].done /\ Head(pipe) \in Messages
  BY <1>t, Popped
     DEF NumbersInv, AwaitedAreOwn, LspTypes, Records, Postpones, AsksAgain, Hears
<1>2. \E p : poll' = [poll EXCEPT ![k] = p] /\ p.done = poll[k].done
             /\ (p.since = "graced" => poll[k].since = "graced")
  <2>1. LET p == Record(poll[k], Head(pipe).of, Head(pipe).value)
        IN  p.done = poll[k].done /\ (p.since = "graced" => poll[k].since = "graced")
    BY <1>1, RecordTypes DEF Messages
  <2>2. LET p == [poll[k] EXCEPT !.retries = @ + 1]
        IN  p.done = poll[k].done /\ p.since = poll[k].since
    BY <1>1 DEF Polls
  <2>3. \/ poll' = [poll EXCEPT ![k] = Record(@, Head(pipe).of, Head(pipe).value)]
        \/ poll' = [poll EXCEPT ![k].retries = @ + 1]
    BY DEF Records, Postpones, AsksAgain
  <2> HIDE DEF k
  <2> QED BY <2>1, <2>2, <2>3
<1> HIDE DEF k
<1>3. Edits(k)
  BY <1>1, <1>2, <1>t DEF Edits
<1> QED BY <1>3 DEF k

\* A judgement changes no item but what is done, the grace only since when.
LEMMA ItemMoves ==
  ASSUME LspTypes, NumbersInv, [LspNext]_lspVars
  PROVE  \/ UNCHANGED poll \/ poll' = <<>>
         \/ StartCall /\ \A i \in Items' : poll'[i] = Unseen
         \/ Judges /\ Marks /\ \A i \in Items : poll'[i].done = (poll[i].done \/ Believed(i))
         \/ SleepBetweenPolls /\ Graces
         \/ \E w \in call.waiting : (Records(w) \/ Postpones(w) \/ AsksAgain(w)) /\ Edits(w[2])
<1> USE DEF KeepsNumbers, KeepsCall
<1>t. poll \in [Items -> Polls]
  BY DEF LspTypes, PollTypes
<1>1. CASE StartCall
  <2>1. \A i \in Items' : poll'[i] = Unseen
    BY <1>1 DEF StartCall
  <2> QED BY <1>1, <2>1
<1>2. ASSUME NEW w \in call.waiting, Records(w) \/ Postpones(w) \/ AsksAgain(w) PROVE Edits(w[2])
  BY <1>2, HearEdits
<1>3. CASE Judges
  <2>1. poll' = Judged
    BY <1>3 DEF Judges, FinishWith
  <2>2. \A i \in Items : /\ Judged[i].value = poll[i].value /\ Judged[i].since = poll[i].since
                         /\ Judged[i].retries = poll[i].retries /\ Judged[i].of = poll[i].of
                         /\ Judged[i].done = (poll[i].done \/ Believed(i))
    BY <1>t DEF Judged, Polls
  <2>3. DOMAIN Judged = Items
    BY DEF Judged
  <2>4. Marks /\ \A i \in Items : poll'[i].done = (poll[i].done \/ Believed(i))
    BY <2>1, <2>2, <2>3 DEF Marks
  <2> QED BY <1>3, <2>4
<1>4. CASE SleepBetweenPolls
  <2>1. PICK graced \in {{}} \cup (IF GraceHolds THEN {{i \in Items : poll[i].since = "now"}}
                                   ELSE {}) :
           poll' = [i \in Items |-> IF i \in graced THEN [poll[i] EXCEPT !.since = "graced"]
                                    ELSE poll[i]]
    BY <1>4 DEF SleepBetweenPolls
  <2>2. graced # {} => GraceHolds
    BY <2>1
  <2>3. \A i \in Items : LET p == [poll[i] EXCEPT !.since = "graced"]
                         IN  p.value = poll[i].value /\ p.done = poll[i].done
                             /\ p.retries = poll[i].retries /\ p.of = poll[i].of
    BY <1>t DEF Polls
  <2>4. Graces
    BY <2>1, <2>2, <2>3 DEF Graces
  <2> QED BY <1>4, <2>4
<1>5. UNCHANGED poll \/ poll' = <<>> \/ StartCall \/ Judges \/ SleepBetweenPolls
      \/ \E w \in call.waiting : Records(w) \/ Postpones(w) \/ AsksAgain(w)
  BY Steps DEF Opens, Readies, Skips, Settles, Sends, Fails, FinishWith, Renames, Return, Idles,
               ServerStep, StartIndexing, BeginProgress, FinishIndexing, ServerAsks, Reply,
               ReaderFails, ServerDies
<1> QED BY <1>1, <1>2, <1>3, <1>4, <1>5

\* The grace passes over an index that is done, or whose begin was reported.
LEMMA GracedStep ==
  ASSUME LspTypes, NumbersInv, TokenIsAsked, GracedIsReported, [LspNext]_lspVars
  PROVE  GracedIsReported'
<1> USE DEF GracedIsReported
<1>1. CASE StartCall
  <2>1. \A i \in Items' : poll'[i].since = "never"
    BY <1>1 DEF StartCall, Unseen
  <2> QED BY <2>1
<1>2. CASE ~StartCall
  <2>1. server.index = "done" \/ server.announced = "begun"
           => server'.index = "done" \/ server'.announced = "begun"
    BY <1>2, ReportsStay
  <2>2. \A i \in Items' : poll'[i].since = "graced" =>
           GraceHolds \/ (i \in Items /\ poll[i].since = "graced")
    BY <1>2, ItemMoves DEF Marks, Graces, Edits
  <2> QED BY <2>1, <2>2 DEF GraceHolds
<1> QED BY <1>1, <1>2

\* A judgement believes an item only when the answers of its round were
\* computed from the whole index.
LEMMA BelievedIsFull ==
  ASSUME LspTypes, NumbersInv, RoundInv, Judges, NEW i \in Items, Believed(i), ~poll[i].done,
         poll[i].retries = 0
  PROVE  poll[i].value = Full \/ Spared(i)
<1>1. call.pc = "judge" /\ call.waiting = {}
  BY DEF Judges, NumbersInv, AwaitedAreOwn
<1>2. i \in HeardOf
  BY <1>1 DEF HeardOf
<1>3. client.ended \in {"never", "now", "before"}
  BY DEF LspTypes, Clients
<1>4. /\ poll[i].since # "never"
      /\ client.ended = "before" \/ (~SawProgress /\ poll[i].since = "graced")
  BY <1>3 DEF Believed, ProgressReady, Settled, SawProgress
<1>5. SentLate
  BY <1>1, <1>2, <1>4 DEF RoundInv, MayBelieve, BehindReport
<1> QED BY <1>2, <1>4, <1>5 DEF SentLate

\* A call asks for what it began with.
LEMMA SameCall ==
  ASSUME LspTypes, [LspNext]_lspVars, ~StartCall, ~Return
  PROVE  call'.kind = call.kind /\ call'.minimum = call.minimum
<1>t. call \in Calls
  BY DEF LspTypes
<1>1. CASE Fails \/ Renames
  BY <1>1, EndedCall DEF Fails, Renames
<1>2. CASE Judges
  BY <1>t, <1>2, EndedCall DEF Judges, Calls
<1>3. CASE Opens \/ Readies \/ SleepBetweenPolls \/ Sends
  <2>1. \/ call' = [call EXCEPT !.pc = "ready"]
        \/ call' = [call EXCEPT !.pc = "round", !.attempt = 1]
        \/ call' = [call EXCEPT !.pc = "round", !.attempt = @ + 1]
        \/ call' = [call EXCEPT !.pc = "await",
                                !.waiting = {<<NextId(i), i>> : i \in Outstanding}]
    BY <1>3 DEF Opens, Readies, Ready, SleepBetweenPolls, Sends
  <2> QED BY <1>t, <2>1 DEF Calls
<1>4. ASSUME NEW w \in call.waiting, Records(w) \/ Postpones(w) \/ AsksAgain(w)
      PROVE  call'.kind = call.kind /\ call'.minimum = call.minimum
  BY <1>t, <1>4 DEF Records, Postpones, AsksAgain, Skipped, SkipRound, AskAgain, Calls
<1>5. CASE Skips \/ Settles \/ Idles \/ ServerStep
  BY <1>5 DEF Skips, Settles, Idles, KeepsCall, ServerStep, StartIndexing, BeginProgress,
              FinishIndexing, ServerAsks, Reply, ReaderFails, ServerDies
<1> QED BY <1>1, <1>2, <1>3, <1>4, <1>5, Steps

\* What is done was answered from the whole index.
LEMMA DoneStep ==
  ASSUME LspTypes, NumbersInv, DoneIsFull, RoundInv, [LspNext]_lspVars
  PROVE  DoneIsFull'
<1> USE DEF DoneIsFull, Spared, Collided
<1>1. CASE StartCall
  <2>1. \A i \in Items' : poll'[i] = Unseen
    BY <1>1 DEF StartCall
  <2> QED BY <2>1 DEF Unseen
<1>2. CASE poll' = <<>>
  BY <1>2
<1>3. CASE ~StartCall /\ poll' # <<>>
  <2>1. call'.minimum = call.minimum
    BY <1>3, SameCall DEF Return
  <2>2. CASE Judges /\ Marks /\ \A i \in Items : poll'[i].done = (poll[i].done \/ Believed(i))
    BY <2>1, <2>2, BelievedIsFull DEF Marks
  <2>3. CASE UNCHANGED poll
    BY <2>1, <2>3
  <2>4. CASE Graces
    BY <2>1, <2>4 DEF Graces
  <2>5. ASSUME NEW k, Edits(k) PROVE DoneIsFull'
    BY <2>1, <2>5 DEF Edits
  <2> QED BY <1>3, <2>2, <2>3, <2>4, <2>5, ItemMoves
<1> QED BY <1>1, <1>2, <1>3

\* Only a call whose items are all done goes on to answer.
LEMMA AnsweredStep ==
  ASSUME LspTypes, NumbersInv, AnsweredIsDone, [LspNext]_lspVars
  PROVE  AnsweredIsDone'
<1> USE DEF AnsweredIsDone
<1>t. call \in Calls
  BY DEF LspTypes
<1>1. ASSUME call'.pc \notin {"rename", "answered"} PROVE AnsweredIsDone'
  BY <1>1
<1>2. CASE Judges
  <2>1. poll' = Judged
    BY <1>2 DEF Judges, FinishWith
  <2>2. DOMAIN Judged = Items
    BY DEF Judged
  <2>3. (\A i \in Items : Judged[i].done) \/ call'.pc \notin {"rename", "answered"}
    BY <1>2, <1>t DEF Judges, Calls
  <2> QED BY <2>1, <2>2, <2>3
<1>3. CASE Renames
  <2>1. poll' = poll /\ call.pc = "rename"
    BY <1>3 DEF Renames, FinishWith
  <2> QED BY <2>1
<1>4. CASE Fails
  <2>1. poll' = <<>>
    BY <1>4 DEF Fails, FinishWith
  <2> QED BY <2>1
<1>5. CASE StartCall \/ Return
  BY <1>1, <1>5, NewCall
<1>6. CASE Opens \/ Readies \/ SleepBetweenPolls \/ Sends
  <2>1. \/ call' = [call EXCEPT !.pc = "ready"]
        \/ call' = [call EXCEPT !.pc = "round", !.attempt = 1]
        \/ call' = [call EXCEPT !.pc = "round", !.attempt = @ + 1]
        \/ call' = [call EXCEPT !.pc = "await",
                                !.waiting = {<<NextId(i), i>> : i \in Outstanding}]
    BY <1>6 DEF Opens, Readies, Ready, SleepBetweenPolls, Sends
  <2>2. call'.pc \in {"ready", "round", "await"}
    BY <1>t, <2>1 DEF Calls
  <2> QED BY <1>1, <2>2
<1>7. ASSUME NEW w \in call.waiting, Records(w) \/ Postpones(w) \/ AsksAgain(w)
      PROVE  call'.pc \notin {"rename", "answered"}
  BY <1>t, <1>7 DEF Records, Postpones, AsksAgain, Hears, Skipped, SkipRound, AskAgain, Calls
<1>8. CASE Skips \/ Settles \/ Idles \/ ServerStep
  <2>1. UNCHANGED <<call, poll>>
    BY <1>8 DEF Skips, Settles, Idles, KeepsCall, ServerStep, StartIndexing, BeginProgress,
                FinishIndexing, ServerAsks, Reply, ReaderFails, ServerDies
  <2> QED BY <2>1
<1> QED BY <1>1, <1>2, <1>3, <1>4, <1>5, <1>6, <1>7, <1>8, Steps

\* A rename asks for one item.
LEMMA RenameStep ==
  ASSUME LspTypes, NumbersInv, RenameIsOne, [LspNext]_lspVars
  PROVE  RenameIsOne'
<1> USE DEF RenameIsOne
<1>t. call \in Calls
  BY DEF LspTypes
<1>1. CASE StartCall
  <2>1. PICK kind \in {"batch", "rename"}, minimum \in {Null, Part} :
           /\ call' = [NoCall EXCEPT !.pc = "open", !.kind = kind, !.minimum = minimum]
           /\ poll' = [i \in 1 .. IF kind = "batch" THEN BatchSize[calls'] ELSE 1 |-> Unseen]
    BY <1>1, NewMinimum
  <2>2. call'.kind = kind
    BY <2>1 DEF NoCall
  <2> QED BY <2>1, <2>2
<1>2. CASE Return
  <2>1. call' = NoCall
    BY <1>2 DEF Return
  <2>2. call'.kind = "batch"
    BY <2>1 DEF NoCall
  <2> QED BY <2>2
<1>3. CASE ~StartCall /\ ~Return
  <2>1. call'.kind = call.kind
    BY <1>3, SameCall
  <2>2. Items' \subseteq Items
    BY <1>3, ItemMoves DEF Marks, Graces, Edits
  <2> QED BY <2>1, <2>2
<1> QED BY <1>1, <1>2, <1>3

(***************************************************************************)
(* The round                                                               *)
(***************************************************************************)
\* What is sent is sent late, or behind a report that is still in the pipe.
LEMMA SendRound ==
  ASSUME LspTypes, NumbersInv, ReportsInv, ItemsInv, Sends
  PROVE  RoundInv'
<1> USE DEF KeepsNumbers
<1>1. UNCHANGED <<poll, pipe, client, calls>> /\ call.pc = "round" /\ server'.index = server.index
      /\ call' = [call EXCEPT !.pc = "await", !.waiting = {<<NextId(i), i>> : i \in Outstanding}]
  BY DEF Sends, LspTypes, Servers
<1>2. call'.attempt = call.attempt /\ call'.waiting = {<<NextId(i), i>> : i \in Outstanding}
  BY <1>1 DEF LspTypes, Calls
<1>3. \A m \in Range(pipe) : m.kind \in {"ask", "answer", "modified"} =>
          ~(m.id[1] = calls /\ m.id[2] = call.attempt)
  <2> TAKE m \in Range(pipe)
  <2> HAVE m.kind \in {"ask", "answer", "modified"}
  <2>1. Given(m.id)
    BY DEF NumbersInv, MessagesAreTrue, MessageIsTrue
  <2>2. m.id[1] = calls => m.id[2] < call.attempt
    BY <1>1, <2>1 DEF Given
  <2>3. m.id[2] \in Nat /\ call.attempt \in Nat
    BY <2>1 DEF Given, RequestIds, LspTypes, Calls
  <2> QED BY <2>2, <2>3
<1>4. \A m \in Range(pipe) : m.kind \in MessageKinds
  <2>1. \A m \in Range(pipe) : m \in Messages
    BY DEF LspTypes, Range
  <2> QED BY <2>1 DEF Messages
<1>5. \A m \in Range(pipe) : ~OfRound(m.id)
  <2>1. \A m \in Range(pipe) : m.kind \in {"token", "begin", "end", "error"} => m.id = NoId
    BY DEF NumbersInv, MessagesAreTrue, MessageIsTrue
  <2> QED BY <1>3, <1>4, <2>1 DEF OfRound, MessageKinds
<1>6. \A id : OfRound(id)' = OfRound(id)
  BY <1>1, <1>2 DEF OfRound
<1>7. HeardOf' = {}
  <2>1. \A i \in Outstanding : <<NextId(i), i>> \in call'.waiting
    BY <1>2
  <2>2. \A i \in Items : ~poll[i].done => \E w \in call'.waiting : w[2] = i
    <3> TAKE i \in Items
    <3> HAVE ~poll[i].done
    <3>1. i \in Outstanding
      BY DEF Outstanding
    <3>2. <<NextId(i), i>> \in call'.waiting /\ <<NextId(i), i>>[2] = i
      BY <2>1, <3>1
    <3> QED BY <3>2
  <2> QED BY <1>1, <2>2 DEF HeardOf
<1>8. CASE server.index = "done"
  <2>1. SentLate'
    BY <1>1, <1>5, <1>6, <1>7, <1>8 DEF SentLate
  <2> QED BY <2>1 DEF RoundInv
<1>9. CASE server.index # "done"
  <2>1. client.ended = "never"
    BY <1>9 DEF ReportsInv, EndIsTrue
  <2>2. SUFFICES ASSUME MayBelieve' PROVE BehindReport'
    BY DEF RoundInv
  <2>3. ~SawProgress /\ \E i \in Items : poll[i].since = "graced"
    BY <1>1, <2>1, <2>2 DEF MayBelieve, SawProgress
  <2>4. server.announced = "begun"
    BY <1>9, <2>3 DEF ItemsInv, GracedIsReported
  <2>5. \E m \in Range(pipe) : m.kind = "begin"
    BY <2>3, <2>4 DEF ReportsInv, BeginIsTold
  <2>6. PICK b \in DOMAIN pipe : pipe[b].kind = "begin"
    BY <2>5 DEF Range
  <2>7. \A k \in DOMAIN pipe : ~OfRound(pipe[k].id)
    BY <1>5 DEF Range
  <2>8. \A k \in 1..b : k \in DOMAIN pipe
    BY <2>6 DEF LspTypes
  <2> QED BY <1>1, <1>2, <1>7, <2>3, <2>6, <2>7, <2>8 DEF BehindReport, SawProgress, OfRound
<1> QED BY <1>8, <1>9

\* The messages that the client skips in a round leave the round as it was.
LEMMA SkipKeepsRound ==
  ASSUME LspTypes, RoundInv, Skips
  PROVE  RoundInv'
<1>1. /\ pipe \in Seq(Messages) /\ pipe # <<>> /\ pipe' = Tail(pipe)
      /\ UNCHANGED <<call, poll, calls>> /\ server'.index = server.index
  BY Reading DEF LspTypes
<1>2. /\ HeardOf' = HeardOf /\ \A id : OfRound(id)' = OfRound(id)
      /\ \A i : Spared(i)' = Spared(i)
  BY <1>1 DEF HeardOf, OfRound, Spared, Collided
<1>3. /\ Range(pipe') \subseteq Range(pipe) /\ Head(pipe) = pipe[1] /\ DOMAIN pipe = 1..Len(pipe)
      /\ Len(pipe) \in Nat /\ Len(pipe') = Len(pipe) - 1 /\ DOMAIN pipe' = 1..Len(pipe')
      /\ \A k \in DOMAIN pipe' : k + 1 \in DOMAIN pipe /\ pipe'[k] = pipe[k + 1]
  BY <1>1, Popped
<1>4. SentLate => SentLate'
  BY <1>1, <1>2, <1>3 DEF SentLate
<1>5. MayBelieve' => /\ MayBelieve
                     /\ client.ended # "before" => UNCHANGED client /\ Head(pipe).kind # "begin"
  <2>1. CASE Head(pipe).kind = "begin"
    BY <1>1, <2>1, Reading DEF MayBelieve, SawProgress
  <2>2. CASE Head(pipe).kind = "end"
    BY <1>1, <2>2, Reading DEF MayBelieve, SawProgress
  <2>3. CASE Head(pipe).kind \notin {"begin", "end"}
    BY <1>1, <2>3, Reading DEF MayBelieve, SawProgress
  <2> QED BY <2>1, <2>2, <2>3
<1>6. ASSUME BehindReport, MayBelieve' PROVE BehindReport'
  <2>1. UNCHANGED client /\ Head(pipe).kind # "begin" /\ ~SawProgress /\ HeardOf = {}
    BY <1>5, <1>6 DEF BehindReport, SawProgress
  <2>2. PICK b \in DOMAIN pipe : pipe[b].kind = "begin" /\ \A k \in 1..b : ~OfRound(pipe[k].id)
    BY <1>6 DEF BehindReport
  <2>3. b # 1 /\ b \in Nat /\ b - 1 \in DOMAIN pipe' /\ pipe'[b - 1] = pipe[b]
    BY <1>3, <2>1, <2>2
  <2>4. \A k \in 1..(b - 1) : ~OfRound(pipe'[k].id)
    <3> TAKE k \in 1..(b - 1)
    <3>1. k + 1 \in 1..b /\ k \in DOMAIN pipe'
      BY <1>3, <2>2, <2>3
    <3> QED BY <1>3, <2>2, <3>1
  <2>5. \E c \in DOMAIN pipe' : pipe'[c].kind = "begin" /\ \A k \in 1..c : ~OfRound(pipe'[k].id)
    BY <2>2, <2>3, <2>4
  <2> QED BY <1>1, <1>2, <2>1, <2>5 DEF BehindReport, SawProgress, OfRound
<1> QED BY <1>1, <1>4, <1>5, <1>6 DEF RoundInv

\* What clangd sends in a round that began late is late, and no message gets
\* in front of a report.
LEMMA ServerKeepsRound ==
  ASSUME LspTypes, TokenIsAsked, RoundInv, ServerStep
  PROVE  RoundInv'
<1>1. UNCHANGED <<client, call, poll, calls>>
  BY DEF ServerStep, StartIndexing, BeginProgress, FinishIndexing, ServerAsks, Reply, ReaderFails,
         ServerDies
<1>2. HeardOf' = HeardOf /\ (\A id : OfRound(id)' = OfRound(id)) /\ MayBelieve' = MayBelieve
      /\ SawProgress' = SawProgress /\ \A i : Spared(i)' = Spared(i)
  BY <1>1 DEF HeardOf, OfRound, MayBelieve, SawProgress, Spared, Collided
<1>t. pipe \in Seq(Messages) /\ DOMAIN pipe = 1..Len(pipe) /\ Len(pipe) \in Nat
  BY DEF LspTypes
<1>m. \A kind \in MessageKinds, id \in RequestIds \cup {NoId},
         of \in (Nat \X Nat) \cup {NoId}, value \in {Null, Part, Full} :
         /\ Message(kind, id, of, value) \in Messages
         /\ Message(kind, id, of, value).kind = kind
         /\ Message(kind, id, of, value).value = value
  BY MessageTypes
<1>3. \/ pipe' = pipe
      \/ \E m \in Messages : /\ pipe' = Append(pipe, m)
                             /\ m.kind = "answer" /\ server.index = "done" => m.value = Full
  <2>1. CASE /\ server'.index = server.index /\ server'.announced = server.announced
             /\ \/ pipe' = pipe
                \/ \E kind \in {"error", "ask", "answer", "modified"},
                      id \in RequestIds \cup {NoId},
                      of \in (Nat \X Nat) \cup {NoId}, value \in {Null, Part, Full} :
                      /\ kind = "answer" /\ server.index = "done" => value = Full
                      /\ pipe' = Append(pipe, Message(kind, id, of, value))
    <3>1. CASE pipe' # pipe
      <4>1. PICK kind \in {"error", "ask", "answer", "modified"}, id \in RequestIds \cup {NoId},
                 of \in (Nat \X Nat) \cup {NoId}, value \in {Null, Part, Full} :
                 /\ kind = "answer" /\ server.index = "done" => value = Full
                 /\ pipe' = Append(pipe, Message(kind, id, of, value))
        BY <2>1, <3>1
      <4>2. kind \in MessageKinds
        BY DEF MessageKinds
      <4> DEFINE m == Message(kind, id, of, value)
      <4>3. m \in Messages /\ m.kind = kind /\ m.value = value
        BY <1>m, <4>2
      <4> HIDE DEF m
      <4> QED BY <4>1, <4>3 DEF m
    <3> QED BY <3>1
  <2>2. \/ pipe' = pipe
        \/ \E kind \in {"token", "begin", "end"} :
              pipe' = Append(pipe, Message(kind, NoId, NoId, Null))
        \/ /\ server'.index = server.index /\ server'.announced = server.announced
           /\ \/ pipe' = pipe
              \/ \E kind \in {"error", "ask", "answer", "modified"}, id \in RequestIds \cup {NoId},
                    of \in (Nat \X Nat) \cup {NoId}, value \in {Null, Part, Full} :
                    /\ kind = "answer" /\ server.index = "done" => value = Full
                    /\ pipe' = Append(pipe, Message(kind, id, of, value))
    BY ServerMoves
  <2>3. CASE \E kind \in {"token", "begin", "end"} :
                pipe' = Append(pipe, Message(kind, NoId, NoId, Null))
    <3>1. PICK kind \in {"token", "begin", "end"} :
                pipe' = Append(pipe, Message(kind, NoId, NoId, Null))
      BY <2>3
    <3>2. Message(kind, NoId, NoId, Null) \in Messages
          /\ Message(kind, NoId, NoId, Null).kind # "answer"
      BY <1>m DEF MessageKinds
    <3> QED BY <3>1, <3>2
  <2> QED BY <2>1, <2>2, <2>3
<1>4. server.index = "done" => server'.index = "done"
  BY ServerMoves
<1>5. CASE pipe' = pipe
  <2>1. SentLate => SentLate'
    BY <1>1, <1>2, <1>4, <1>5 DEF SentLate
  <2>2. BehindReport => BehindReport'
    BY <1>1, <1>2, <1>5 DEF BehindReport
  <2> QED BY <1>1, <1>2, <2>1, <2>2 DEF RoundInv
<1>6. ASSUME NEW m \in Messages, pipe' = Append(pipe, m),
             m.kind = "answer" /\ server.index = "done" => m.value = Full
      PROVE  RoundInv'
  <2>1. /\ Range(pipe') = Range(pipe) \cup {m} /\ DOMAIN pipe \subseteq DOMAIN pipe'
        /\ \A k \in DOMAIN pipe : pipe'[k] = pipe[k]
    BY <1>t, <1>6, Appended
  <2>2. SentLate => SentLate'
    BY <1>1, <1>2, <1>4, <1>6, <2>1 DEF SentLate
  <2>3. ASSUME BehindReport PROVE BehindReport'
    <3>1. PICK b \in DOMAIN pipe : pipe[b].kind = "begin" /\ \A k \in 1..b : ~OfRound(pipe[k].id)
      BY <2>3 DEF BehindReport
    <3>2. \A k \in 1..b : k \in DOMAIN pipe
      BY <1>t, <3>1
    <3>3. b \in DOMAIN pipe' /\ pipe'[b].kind = "begin" /\ \A k \in 1..b : ~OfRound(pipe'[k].id)
      BY <2>1, <3>1, <3>2
    <3> QED BY <1>1, <1>2, <2>3, <3>3 DEF BehindReport, OfRound
  <2> QED BY <1>1, <1>2, <2>2, <2>3 DEF RoundInv
<1> QED BY <1>3, <1>5, <1>6

\* An answer of the round counts for its item as what it is; an item whose
\* content was modified counts for nothing.
LEMMA HearKeepsRound ==
  ASSUME LspTypes, NumbersInv, RenameIsOne, RoundInv,
         NEW w \in call.waiting, Records(w) \/ Postpones(w) \/ AsksAgain(w), Edits(w[2])
  PROVE  RoundInv'
<1> DEFINE k == w[2]  m == Head(pipe)
<1>1. /\ pipe \in Seq(Messages) /\ pipe # <<>> /\ pipe' = Tail(pipe) /\ call.pc = "await"
      /\ m.id = w[1] /\ UNCHANGED <<client, calls>> /\ m.kind \in {"ask", "answer", "modified"}
  BY DEF LspTypes, Records, Postpones, AsksAgain, Hears, KeepsNumbers
<1>2. server'.index = server.index /\ call'.attempt = call.attempt
      /\ call'.minimum = call.minimum
  <2>1. \/ UNCHANGED server \/ \E a : server' = [server EXCEPT !.asked = a]
    BY DEF Records, Postpones, AsksAgain, Skipped, SkipRound, AskAgain
  <2>2. \/ \E a, b : call' = [call EXCEPT !.waiting = a, !.pc = b]
        \/ \E a : call' = [call EXCEPT !.waiting = a]
    BY DEF Records, Postpones, AsksAgain, Skipped, SkipRound, AskAgain
  <2> QED BY <2>1, <2>2 DEF LspTypes, Servers, Calls
<1>3. \A id : OfRound(id)' = OfRound(id)
  BY <1>1, <1>2 DEF OfRound
<1>4. OfRound(m.id) /\ \A x \in call.waiting : x[1] = m.id => x[2] = k
  BY <1>1 DEF NumbersInv, AwaitedAreOwn, OfRound, RequestIds
<1>5. Range(pipe') \subseteq Range(pipe) /\ m \in Range(pipe) /\ m = pipe[1] /\ m \in Messages
      /\ 1 \in DOMAIN pipe /\ DOMAIN pipe \subseteq Nat \ {0}
  BY <1>1, Popped
<1>6. ~BehindReport
  <2>1. \A b \in DOMAIN pipe : 1 \in 1..b
    BY <1>5
  <2> QED BY <1>4, <1>5, <2>1 DEF BehindReport
<1>7. MayBelieve' => MayBelieve
  <2>1. \A i \in Items : poll'[i].since = "graced" => poll[i].since = "graced"
    BY DEF Edits
  <2> QED BY <1>1, <2>1 DEF MayBelieve, SawProgress, Edits
<1>8. HeardOf' \subseteq HeardOf \cup {k}
  <2>1. CASE AsksAgain(w)
    <3>1. Items \subseteq {1} /\ k \in Items
      BY <2>1 DEF RenameIsOne, AsksAgain, Edits
    <3> QED BY <3>1 DEF HeardOf, Edits
  <2>2. CASE Records(w) \/ Postpones(w)
    <3>1. call'.waiting = call.waiting \ Mine(m)
      BY <2>2 DEF LspTypes, Calls, Records, Postpones, Skipped, SkipRound
    <3>2. \A x \in Mine(m) : x[2] = k
      BY <1>4 DEF Mine
    <3>3. \A i \in Items \ {k} : poll'[i] = poll[i]
      BY DEF Edits
    <3> QED BY <3>1, <3>2, <3>3 DEF HeardOf, Edits
  <2> QED BY <2>1, <2>2
<1>9. ASSUME SentLate
      PROVE  \/ poll'[k].retries # 0 \/ poll'[k].value = Full
             \/ poll'[k].since = "never" \/ Spared(k)'
  <2>1. k \in Items /\ poll[k] \in Polls /\ poll \in [Items -> Polls]
    BY DEF Edits, LspTypes, PollTypes
  <2>2. CASE Postpones(w) \/ AsksAgain(w)
    <3>1. poll' = [poll EXCEPT ![k].retries = @ + 1]
      BY <2>2 DEF Postpones, AsksAgain
    <3>2. poll[k].retries \in Nat
      BY <2>1 DEF Polls
    <3> HIDE DEF k, m
    <3>3. poll'[k].retries = poll[k].retries + 1
      BY <2>1, <3>1 DEF Polls
    <3> QED BY <3>2, <3>3
  <2>3. CASE Records(w)
    <3>1. poll' = [poll EXCEPT ![k] = Record(@, m.of, m.value)] /\ m.kind \in {"ask", "answer"}
      BY <2>3 DEF Records
    <3>2. m.kind = "answer" => m.value = Full
      BY <1>4, <1>5, <1>9 DEF SentLate
    <3>3. m.kind = "ask" => m.value = Null /\ m.of = NoId
      BY <1>5 DEF NumbersInv, MessagesAreTrue, MessageIsTrue
    <3>4. m.of \in (Nat \X Nat) \cup {NoId} /\ m.value \in {Null, Part, Full}
      BY <1>5 DEF Messages
    <3> HIDE DEF k, m
    <3>5. /\ Record(poll[k], m.of, m.value).value = m.value
          /\ Record(poll[k], m.of, m.value).of = m.of
          /\ m.value = Null /\ call.minimum = Part
                => Record(poll[k], m.of, m.value).since = "never"
      BY <2>1, <3>4, RecordTypes
    <3>6. call.minimum \in {Null, Part}
      BY DEF LspTypes, Calls
    <3> QED BY <1>2, <2>1, <3>1, <3>2, <3>3, <3>5, <3>6 DEF Spared, Collided
  <2> QED BY <2>2, <2>3
<1>10. SentLate => SentLate'
  <2> HAVE SentLate
  <2>1. \A i \in HeardOf' : \/ poll'[i].retries # 0 \/ poll'[i].value = Full
                            \/ poll'[i].since = "never" \/ Spared(i)'
    <3> TAKE i \in HeardOf'
    <3>1. CASE i = k
      BY <1>9, <3>1
    <3>2. CASE i # k
      <4>1. i \in HeardOf /\ poll'[i] = poll[i]
        BY <1>8, <3>2 DEF HeardOf, Edits
      <4> QED BY <1>2, <4>1 DEF SentLate, Spared, Collided
    <3> QED BY <3>1, <3>2
  <2> QED BY <1>2, <1>3, <1>5, <2>1 DEF SentLate
<1> QED BY <1>1, <1>6, <1>7, <1>10 DEF RoundInv

\* In every round the client may only believe what was computed from the whole
\* index.
LEMMA RoundStep ==
  ASSUME LspTypes, NumbersInv, ReportsInv, ItemsInv, RoundInv, [LspNext]_lspVars
  PROVE  RoundInv'
<1> USE DEF KeepsNumbers, KeepsCall
<1>t. call \in Calls
  BY DEF LspTypes
<1>1. ASSUME call'.pc \notin {"await", "judge"} PROVE RoundInv'
  BY <1>1 DEF RoundInv
<1>2. CASE Fails \/ Renames
  BY <1>1, <1>2, EndedCall DEF Fails, Renames
<1>3. CASE StartCall \/ Return
  BY <1>1, <1>3, NewCall
<1>4. CASE Judges
  <2>1. call'.pc \in {"answered", "refused", "rename", "sleep"}
    BY <1>t, <1>4, EndedCall DEF Judges, Calls
  <2> QED BY <1>1, <2>1
<1>5. CASE Opens \/ Readies \/ SleepBetweenPolls
  <2>1. \/ call' = [call EXCEPT !.pc = "ready"]
        \/ call' = [call EXCEPT !.pc = "round", !.attempt = 1]
        \/ call' = [call EXCEPT !.pc = "round", !.attempt = @ + 1]
    BY <1>5 DEF Opens, Readies, Ready, SleepBetweenPolls
  <2>2. call'.pc \in {"ready", "round"}
    BY <1>t, <2>1 DEF Calls
  <2> QED BY <1>1, <2>2
<1>6. CASE Settles
  <2>1. call'.pc = "round"
    BY <1>6 DEF Settles
  <2> QED BY <1>1, <2>1
<1>7. CASE Idles
  BY <1>7 DEF Idles, RoundInv, MayBelieve, SawProgress, SentLate, BehindReport, HeardOf, OfRound,
             Spared, Collided
<1>8. CASE Skips
  BY <1>8, SkipKeepsRound
<1>9. CASE ServerStep
  BY <1>9, ServerKeepsRound DEF ReportsInv
<1>10. CASE Sends
  BY <1>10, SendRound
<1>11. ASSUME NEW w \in call.waiting, Records(w) \/ Postpones(w) \/ AsksAgain(w)
       PROVE  RoundInv'
  <2>1. Edits(w[2])
    BY <1>11, HearEdits
  <2> QED BY <1>11, <2>1, HearKeepsRound DEF ItemsInv
<1> QED BY <1>2, <1>3, <1>4, <1>5, <1>6, <1>7, <1>8, <1>9, <1>10, <1>11, Steps

(***************************************************************************)
(* The theorems                                                            *)
(***************************************************************************)
\* The client starts without a server.
LEMMA InitInv ==
  ASSUME LspInit
  PROVE  LspInv
<1>1. LspTypes
  <2>1. server \in Servers
    BY DEF LspInit, Fresh, Servers
  <2>2. client \in Clients /\ call \in Calls
    BY DEF LspInit, NoClient, NoCall, Clients, Calls
  <2>3. PollTypes /\ pipe \in Seq(Messages) /\ generation \in Nat \ {0} /\ calls \in Nat
    BY DEF LspInit, PollTypes
  <2> QED BY <2>1, <2>2, <2>3 DEF LspTypes
<1>2. server.asked = {} /\ server.index = "cold" /\ server.announced = "no"
      /\ pipe = <<>> /\ client.ended = "never" /\ call.pc = "idle" /\ call.waiting = {}
      /\ call.kind = "batch" /\ poll = <<>>
  BY DEF LspInit, Fresh, NoClient, NoCall
<1>3. NumbersInv
  BY <1>2 DEF NumbersInv, AskedAreGiven, MessagesAreTrue, AwaitedAreOwn, Range
<1>4. ReportsInv
  BY <1>2 DEF ReportsInv, EndIsTrue, TokenIsAsked, BeginIsTold, Range
<1>5. ItemsInv /\ RoundInv
  BY <1>2 DEF ItemsInv, GracedIsReported, DoneIsFull, AnsweredIsDone, RenameIsOne, RoundInv
<1>6. AnswersAreForTheirRequests /\ BatchClosesItsDocuments
  BY <1>2 DEF AnswersAreForTheirRequests, BatchClosesItsDocuments
<1> QED BY <1>1, <1>3, <1>4, <1>5, <1>6 DEF LspInv

\* The inductive invariant of the client: what is typed, numbered, reported,
\* kept of the items and in the round.
THEOREM ClientInvariant == LspSpec => []LspInv
<1>1. LspInit => LspInv
  BY InitInv
<1>2. LspInv /\ [LspNext]_lspVars => LspInv'
  <2> SUFFICES ASSUME LspInv, [LspNext]_lspVars PROVE LspInv'
    OBVIOUS
  <2>0. LspTypes /\ NumbersInv /\ ReportsInv /\ ItemsInv /\ RoundInv
        /\ AnswersAreForTheirRequests /\ BatchClosesItsDocuments
    BY DEF LspInv
  <2>1. LspTypes' /\ NumbersInv'
    BY <2>0, TypesStep, NumbersStep
  <2>2. ReportsInv'
    BY <2>0, EndStep, TokenStep, BeginStep DEF ReportsInv
  <2>3. ItemsInv'
    BY <2>0, GracedStep, DoneStep, AnsweredStep, RenameStep DEF ItemsInv, ReportsInv
  <2>4. RoundInv'
    BY <2>0, RoundStep
  <2>5. AnswersAreForTheirRequests' /\ BatchClosesItsDocuments'
    BY <2>0, AnswersStep, ClosedStep
  <2> QED BY <2>1, <2>2, <2>3, <2>4, <2>5 DEF LspInv
<1> QED BY <1>1, <1>2, PTL DEF LspSpec

\* No call takes what an earlier one left at the server or in the pipe, and a
\* batch leaves no document open.
THEOREM CallsAlwaysSeparate == LspSpec => []CallsAreSeparate
<1>1. LspInv => CallsAreSeparate
  BY DEF LspInv, CallsAreSeparate
<1> QED BY <1>1, ClientInvariant, PTL

\* A reference list is only taken over when it was computed from the whole
\* background index.
THEOREM AcceptedAlwaysComplete == LspSpec => []AcceptedIsComplete
<1>1. LspInv => AcceptedIsComplete
  <2> SUFFICES ASSUME LspInv, Answered, NEW i \in Items
               PROVE  \/ poll[i].value = Full \/ poll[i].retries > 0
                      \/ call.minimum = Null /\ Collided(i)
    BY DEF AcceptedIsComplete
  <2>1. poll[i].retries \in Nat
    BY DEF LspInv, LspTypes, PollTypes, Polls
  <2>2. poll[i].done
    BY DEF LspInv, ItemsInv, AnsweredIsDone, Answered
  <2> QED BY <2>1, <2>2 DEF LspInv, ItemsInv, DoneIsFull, Spared
<1> QED BY <1>1, ClientInvariant, PTL
=============================================================================
