------------------------------- MODULE Embed -------------------------------
(***************************************************************************)
(* The vector index over the mirror (src/embed.rs): embed-index, which     *)
(* reads each mirror file, asks the endpoint for its vectors without a     *)
(* lock and commits them under the exclusive one; semantic-search, which   *)
(* checks the whole index, embeds the query and then scans the vectors.    *)
(*                                                                         *)
(* Every section under the workspace lock is one step.  Between them       *)
(* indexing renders, adds and removes files, an agent saves or deletes     *)
(* mirror files, and the configuration names another model.                *)
(***************************************************************************)
EXTENDS Naturals, FiniteSets, FiniteSetsExt

CONSTANTS
    Docs,      \* files, in the order embed-index visits them
    Texts,     \* what a mirror file may hold
    Models,    \* embed fingerprints
    MaxShifts, MaxEmbeds, MaxSearches  \* bounds

ASSUME EmbedAssumption ==
    /\ Docs # {} /\ 0 \notin Texts
    /\ \A S \in SUBSET Docs : S # {} => \E f \in S : \A g \in S : f <= g

Gone == 0
NoVectors == [text |-> Gone, model |-> Gone]

VARIABLES
    docsTracked,  \* rows of the table files
    rendered,     \* the text of each mirror file, or Gone
    vectors,      \* embedding_state and embedding_chunks
    model,        \* the fingerprint of the configuration
    embedder, searcher,
    shifts, embeds, searches,
    shifted       \* history: files that changed since embed-index began

embedVars == <<docsTracked, rendered, vectors, model, embedder, searcher,
               shifts, embeds, searches, shifted>>

EmbedIdle == [pc |-> "idle", model |-> Gone, todo |-> {}, text |-> Gone]
SearchIdle == [pc |-> "idle", model |-> Gone, hits |-> {}, mixed |-> FALSE]

\* A new index, and one that an older release left with a row of no file.
EmbedInit ==
    /\ docsTracked \in {Docs, Docs \ {Min(Docs)}}
    /\ rendered = [f \in Docs |-> IF f \in docsTracked THEN Min(Texts) ELSE Gone]
    /\ vectors \in {[f \in Docs |-> NoVectors],
                    [f \in Docs |-> IF f \in docsTracked THEN NoVectors
                                    ELSE [text |-> Min(Texts), model |-> Max(Models)]]}
    /\ model = Min(Models)
    /\ embedder = EmbedIdle /\ searcher = SearchIdle
    /\ shifts = 0 /\ embeds = 0 /\ searches = 0 /\ shifted = {}

HasVectors(f) == vectors[f] # NoVectors
Current(f, m) == vectors[f] = [text |-> rendered[f], model |-> m]

\* Each is one transaction over a file's chunks and its state row.
ReplaceEmbeddings(f, text, m) ==
    vectors' = [vectors EXCEPT ![f] = [text |-> text, model |-> m]]
RemoveEmbeddings(files) ==
    vectors' = [f \in Docs |-> IF f \in files THEN NoVectors ELSE vectors[f]]
EmbeddedVectors == {<<f, vectors[f]>> : f \in {g \in Docs : HasVectors(g)}}

-----------------------------------------------------------------------------
(* Everything else in the workspace                                        *)

Shift(files) ==
    /\ shifts < MaxShifts /\ shifts' = shifts + 1
    /\ shifted' = shifted \cup files
    /\ searcher' = [searcher EXCEPT !.mixed = @ \/ searcher.pc \in {"query", "scan", "answered"}]
    /\ UNCHANGED <<embedder, embeds, searches>>

\* A rendering, an agent's save or its deletion.
MirrorChanges ==
    \E f \in docsTracked, t \in Texts \cup {Gone} :
        /\ t # rendered[f] /\ rendered' = [rendered EXCEPT ![f] = t]
        /\ Shift({f}) /\ UNCHANGED <<docsTracked, vectors, model>>

FileAppears ==
    \E f \in Docs \ docsTracked, t \in Texts :
        /\ docsTracked' = docsTracked \cup {f}
        /\ rendered' = [rendered EXCEPT ![f] = t]
        /\ Shift({f}) /\ UNCHANGED <<vectors, model>>

\* remove_file takes the vectors with the row.
FileGoes ==
    \E f \in docsTracked :
        /\ docsTracked' = docsTracked \ {f}
        /\ rendered' = [rendered EXCEPT ![f] = Gone]
        /\ RemoveEmbeddings({f})
        /\ Shift({f}) /\ UNCHANGED model

Reconfigure ==
    \E m \in Models \ {model} :
        /\ model' = m /\ Shift(Docs) /\ UNCHANGED <<docsTracked, rendered, vectors>>

-----------------------------------------------------------------------------
(* embed-index                                                             *)

EmbedderOnly == UNCHANGED <<docsTracked, rendered, model, searches, shifts>>

StartEmbed ==
    /\ embedder.pc \in {"idle", "done", "failed"} /\ embeds < MaxEmbeds
    /\ embeds' = embeds + 1
    /\ embedder' = [EmbedIdle EXCEPT !.pc = "sweep", !.model = model]
    /\ shifted' = {}
    /\ UNCHANGED <<vectors, searcher>> /\ EmbedderOnly

\* Vectors of files nothing tracks go; the tracked set is remembered.
SweepVectors ==
    /\ embedder.pc = "sweep"
    /\ RemoveEmbeddings({f \in Docs \ docsTracked : HasVectors(f)})
    /\ embedder' = [embedder EXCEPT !.pc = "read", !.todo = docsTracked]
    /\ UNCHANGED <<searcher, embeds, shifted>> /\ EmbedderOnly

Doc == Min(embedder.todo)
EmbedFails == embedder' = [EmbedIdle EXCEPT !.pc = "failed", !.model = embedder.model]
NextDoc == embedder' = [embedder EXCEPT !.pc = "read", !.todo = @ \ {Doc}, !.text = Gone]

UpToDate(f) == Current(f, embedder.model)

\* ensure_existing_path_inside fails before the read can find nothing.
ReadMirror ==
    /\ embedder.pc = "read" /\ embedder.todo # {}
    /\ IF rendered[Doc] = Gone THEN EmbedFails
       ELSE IF UpToDate(Doc) THEN NextDoc
       ELSE embedder' = [embedder EXCEPT !.pc = "ask", !.text = rendered[Doc]]
    /\ UNCHANGED <<vectors, searcher, embeds, shifted>> /\ EmbedderOnly

AskVectors ==
    /\ embedder.pc = "ask"
    /\ (EmbedFails \/ embedder' = [embedder EXCEPT !.pc = "commit"])
    /\ UNCHANGED <<vectors, searcher, embeds, shifted>> /\ EmbedderOnly

\* commit_file_embeddings compares the mirror with what was embedded.
CommitVectors ==
    /\ embedder.pc = "commit"
    /\ IF rendered[Doc] = Gone THEN EmbedFails ELSE NextDoc
    /\ IF rendered[Doc] # embedder.text THEN UNCHANGED vectors
       ELSE ReplaceEmbeddings(Doc, embedder.text, embedder.model)
    /\ searcher' = [searcher EXCEPT !.mixed = @ \/ searcher.pc \in {"query", "scan", "answered"}]
    /\ UNCHANGED <<embeds, shifted>> /\ EmbedderOnly

EmbedDone ==
    /\ embedder.pc = "read" /\ embedder.todo = {}
    /\ embedder' = [embedder EXCEPT !.pc = "done"]
    /\ UNCHANGED <<vectors, searcher, embeds, shifted>> /\ EmbedderOnly

EmbedStep == SweepVectors \/ ReadMirror \/ AskVectors \/ CommitVectors \/ EmbedDone

-----------------------------------------------------------------------------
(* semantic-search                                                         *)

SearcherOnly == UNCHANGED <<docsTracked, rendered, vectors, model, embedder, shifts,
                            embeds, shifted>>

NotEmpty(m) ==
    /\ \E f \in Docs : HasVectors(f)
    /\ \A f \in docsTracked : rendered[f] # Gone /\ vectors[f].text = rendered[f]

\* The index holds something, all of it of this fingerprint, and every
\* tracked mirror file is the text its vectors were computed from.
GatePasses(m) ==
    /\ \E f \in Docs : HasVectors(f)
    /\ \A f \in Docs : HasVectors(f) => vectors[f].model = m
    /\ \A f \in docsTracked : rendered[f] # Gone /\ Current(f, m)

StartSearch ==
    /\ searcher.pc \in {"idle", "answered"} /\ searches < MaxSearches
    /\ searches' = searches + 1
    /\ searcher' = [SearchIdle EXCEPT !.pc = "gate", !.model = model]
    /\ SearcherOnly

Gate ==
    /\ searcher.pc = "gate"
    /\ searcher' = IF GatePasses(searcher.model) THEN [searcher EXCEPT !.pc = "query"]
                   ELSE SearchIdle
    /\ UNCHANGED searches /\ SearcherOnly

EmbedQuery ==
    /\ searcher.pc = "query"
    /\ (searcher' = SearchIdle \/ searcher' = [searcher EXCEPT !.pc = "scan"])
    /\ UNCHANGED searches /\ SearcherOnly

\* Every vector is scored; an empty index is refused.
Scan ==
    /\ searcher.pc = "scan"
    /\ searcher' = IF EmbeddedVectors = {} THEN SearchIdle
                   ELSE [searcher EXCEPT !.pc = "answered", !.hits = EmbeddedVectors]
    /\ UNCHANGED searches /\ SearcherOnly

SearchStep == Gate \/ EmbedQuery \/ Scan

EmbedRest == embedder.pc \in {"idle", "done", "failed"}
             /\ searcher.pc \in {"idle", "answered"} /\ UNCHANGED embedVars

EmbedNext ==
    \/ MirrorChanges \/ FileAppears \/ FileGoes \/ Reconfigure
    \/ StartEmbed \/ EmbedStep \/ StartSearch \/ SearchStep \/ EmbedRest

EmbedSpec == EmbedInit /\ [][EmbedNext]_embedVars

-----------------------------------------------------------------------------
(* Properties                                                              *)

\* A run of embed-index that ends well leaves every file that nobody touched
\* meanwhile with the vectors of its mirror text and of this configuration,
\* and a search after it is not refused.
ConvergedIsSearchable ==
    embedder.pc = "done" /\ shifted = {} /\ docsTracked # {} => GatePasses(model)

\* "Stale vectors must not overwrite rows describing newer content"
\* (embed.rs, commit_file_embeddings): while a run goes on, a file's vectors
\* of this run's model never describe a text the mirror had already left
\* behind when they were stored.
NewerVectorsSurvive ==
    [][\A f \in Docs : vectors'[f] # vectors[f] /\ vectors'[f] # NoVectors
           => vectors'[f].text = rendered[f]]_embedVars

\* Every hit of a search was computed by the model that embedded the query
\* and from the text the mirror shows, unless the index or the mirror changed
\* after the gate: a query compared with the vectors of another model gives
\* plausible nonsense (embed.rs, the comment of the gate).
HitsAreComparable ==
    searcher.pc = "answered" /\ ~searcher.mixed =>
        \A h \in searcher.hits :
            /\ h[2].model = searcher.model
            /\ h[1] \in docsTracked => h[2].text = rendered[h[1]]

\* After embed-index a search is possible, and what it finds can be believed.
SearchIsTrustworthy == ConvergedIsSearchable /\ HitsAreComparable
=============================================================================
