---------------------------- MODULE Transaction ----------------------------
(***************************************************************************)
(* The semantic transactions of src/transaction.rs: an agent reads code at *)
(* a revision of the semantic index, previews structured edits against     *)
(* that revision and commits them later through the journal of patch.rs.   *)
(*                                                                         *)
(* A preview takes a shared lock twice and the exclusive lock once, with   *)
(* the language server at work in between, unlocked.  A commit holds the   *)
(* exclusive lock throughout.  Developers write real files at any moment.  *)
(*                                                                         *)
(* Edits name nodes of a syntax tree and byte ranges: they mean something  *)
(* only on the content they were made for, which a draft keeps per file.   *)
(* The journal is what ApplyJournal says of it: at most one apply is open, *)
(* and it blocks every command but recover.  Aliases, which also advance   *)
(* the revision, are left out.                                             *)
(***************************************************************************)
EXTENDS Naturals

CONSTANTS Files, Contents,
          Absent,      \* no such file, row, document or transaction
          MaxTx,       \* bound: transaction ids
          MaxRevision, \* bound: no command that indexes starts beyond it
          MaxEdits,    \* bound: writes by developers
          MaxMishaps,  \* bound: deaths and failing steps
          MishapKinds  \* which of them may happen

ASSUME ContentsAssumption == Absent \notin Contents
ASSUME BoundsAssumption ==
    /\ MaxTx \in Nat /\ MaxRevision \in Nat
    /\ MaxEdits \in Nat /\ MaxMishaps \in Nat
ASSUME MishapAssumption == MishapKinds \subseteq {"death", "io", "parse", "dbloss"}

VARIABLES
    real,         \* the repository
    row,          \* index_state: the content the lexical pass recorded
    mirror,       \* the content that mirror and span map render
    doc,          \* semantic_documents: the content the index parsed
    revision,     \* semantic_workspace.revision
    txs, nextId,  \* semantic_transactions
    entry,        \* the transaction whose journal entry is applying, or 0
    draft,        \* the preview under way
    pc, op, cur,  \* where the exclusive lock holder is, what it runs, for which id
    todo, done,   \* files of the transaction still to write, written
    good,         \* files whose mirror the commit derived its expectation from
    failed,       \* the last semantic index reported an error
    touched,      \* history: files developers wrote since the lock was taken
    edits, mishaps

disk   == <<real, row, mirror, doc, revision, txs, nextId, entry>>
locals == <<op, cur, todo, done, good, failed, touched>>
vars   == <<disk, draft, pc, locals, edits, mishaps>>

Ids  == 1..MaxTx
Blob == Contents \cup {Absent}
NoDraft == [stage |-> "none"]

\* files: what is edited; own: the file of the target; view: per file, the
\* content the ranges are of
Drafts(S) ==
    [stage : {"read", "captured", "located"}, base : Nat, own : S, view : [S -> Blob]]
      \cup [stage : {"planned"}, base : Nat, own : S, view : [S -> Blob],
            before : [S -> Contents], after : [S -> Contents]]
Txs(S) ==
    [status : {"previewed", "committed"}, base : Nat, own : S, view : [S -> Blob],
     before : [S -> Contents], after : [S -> Contents], proj : SUBSET S, committed : Nat]

TypeOK ==
    /\ real \in [Files -> Blob] /\ row \in [Files -> Blob] /\ doc \in [Files -> Blob]
    /\ mirror \in [Files -> Blob]
    /\ revision \in Nat
    /\ DOMAIN txs = Ids
    /\ \A t \in Ids : txs[t] = Absent \/ \E S \in SUBSET Files : txs[t] \in Txs(S)
    /\ nextId \in 1..(MaxTx + 1) /\ entry \in 0..MaxTx
    /\ draft = NoDraft \/ \E S \in SUBSET Files : draft \in Drafts(S)
    /\ pc \in {"idle", "lexical", "index", "apply", "check", "undo", "unseal", "mark"}
    /\ op \in {"none", "sync", "recover", "commit", "undo", "sealed", "reconcile"}
    /\ cur \in 0..MaxTx
    /\ todo \subseteq Files /\ done \subseteq Files /\ good \subseteq Files
    /\ failed \in BOOLEAN /\ touched \subseteq Files
    /\ edits \in 0..MaxEdits /\ mishaps \in 0..MaxMishaps

Working == {"commit", "undo", "sealed", "reconcile"}    \* commit_transaction
FilesOf(t) == DOMAIN txs[t].after
Known == {t \in Ids : txs[t] # Absent}
-----------------------------------------------------------------------------
NoJob ==
    /\ op = "none" /\ cur = 0 /\ todo = {} /\ done = {} /\ good = {}
    /\ failed = FALSE /\ touched = {}

(* An indexed workspace. *)
Init ==
    /\ real \in [Files -> Blob] /\ row = real /\ mirror = real /\ doc = real
    /\ revision = 1
    /\ txs = [t \in Ids |-> Absent] /\ nextId = 1
    /\ entry = 0
    /\ draft = NoDraft
    /\ pc = "idle" /\ NoJob
    /\ edits = 0 /\ mishaps = 0

Release ==
    /\ pc' = "idle" /\ op' = "none" /\ cur' = 0 /\ todo' = {} /\ done' = {}
    /\ good' = {} /\ failed' = FALSE /\ touched' = {}

Mishap(k) == k \in MishapKinds /\ mishaps < MaxMishaps /\ mishaps' = mishaps + 1
-----------------------------------------------------------------------------
(* read_code: the agent learns content, ids and revision.  It is refused   *)
(* unless file, document and mirror agree.                                 *)
ReadCode(f, S) ==
    /\ pc = "idle" /\ draft = NoDraft
    /\ f \in S /\ doc[f] # Absent /\ real[f] = doc[f] /\ mirror[f] = doc[f]
    /\ draft' = [stage |-> "read", base |-> revision, own |-> f,
                 view |-> [g \in S |-> IF g = f THEN doc[f] ELSE Absent]]
    /\ UNCHANGED <<disk, pc, locals, edits, mishaps>>

(* preview_transaction, first lock: the intents' targets are captured. *)
RevisionHolds == revision = draft.base

Capture ==
    /\ pc = "idle" /\ draft.stage = "read"
    /\ RevisionHolds
    /\ doc[draft.own] # Absent /\ real[draft.own] = doc[draft.own]
    /\ draft' = [draft EXCEPT !.stage = "captured"]
    /\ UNCHANGED <<disk, pc, locals, edits, mishaps>>

(* Without a lock, the language server finds the ranges in other files; it *)
(* reads those from disk.                                                  *)
Locate ==
    /\ draft.stage = "captured"
    /\ LET others == DOMAIN draft.view \ {draft.own}
       IN  /\ \A g \in others : real[g] # Absent
           /\ draft' = [draft EXCEPT !.stage = "located",
                          !.view = [g \in DOMAIN draft.view |->
                                      IF g \in others THEN real[g] ELSE draft.view[g]]]
    /\ UNCHANGED <<disk, pc, locals, edits, mishaps>>

(* Second lock: build_planned_files. *)
Plan(after) ==
    /\ pc = "idle" /\ draft.stage = "located"
    /\ RevisionHolds
    /\ DOMAIN after = DOMAIN draft.view
    /\ \A g \in DOMAIN after :
         doc[g] # Absent /\ real[g] = doc[g] /\ after[g] # real[g]
    /\ draft' = [stage |-> "planned", base |-> draft.base, own |-> draft.own,
                 view |-> draft.view, after |-> after,
                 before |-> [g \in DOMAIN after |-> real[g]]]
    /\ UNCHANGED <<disk, pc, locals, edits, mishaps>>

Unchanged(before) == \A g \in DOMAIN before : real[g] = before[g]
RenderedFrom(before) == {g \in DOMAIN before : mirror[g] = before[g]}

(* Third lock, exclusive: the preview is stored. *)
Save ==
    /\ pc = "idle" /\ draft.stage = "planned"
    /\ RevisionHolds /\ Unchanged(draft.before)
    /\ nextId <= MaxTx /\ nextId' = nextId + 1
    /\ txs' = [txs EXCEPT ![nextId] =
                 [status |-> "previewed", base |-> draft.base, own |-> draft.own,
                  view |-> draft.view, before |-> draft.before, after |-> draft.after,
                  proj |-> RenderedFrom(draft.before), committed |-> 0]]
    /\ draft' = NoDraft
    /\ UNCHANGED <<real, row, mirror, doc, revision, entry, pc, locals, edits, mishaps>>

(* Any refusal, or the client goes away. *)
GiveUp ==
    /\ draft # NoDraft /\ draft' = NoDraft
    /\ UNCHANGED <<disk, pc, locals, edits, mishaps>>
-----------------------------------------------------------------------------
(* commit_transaction. *)
MatchesSome(t) == \E f \in FilesOf(t) : real[f] = txs[t].after[f]    \* mutant
MatchesNever(t) == FALSE                                    \* mutant
AfterMatches(t) == \A f \in FilesOf(t) : real[f] = txs[t].after[f]

(* A crash left the exact result: index it and check the mirrors. *)
Pending(t) == entry = 0 /\ t \in Known /\ txs[t].status = "previewed"

StartReconcile(t) ==
    /\ pc = "idle" /\ revision < MaxRevision
    /\ Pending(t) /\ AfterMatches(t)
    /\ pc' = "index" /\ op' = "reconcile" /\ cur' = t
    /\ UNCHANGED <<disk, draft, todo, done, good, failed, touched, edits, mishaps>>

(* Check, journal the intent durably, begin to write. *)
MayCommit(t) == revision = txs[t].base /\ Unchanged(txs[t].before)

StartCommit(t) ==
    /\ pc = "idle"
    /\ Pending(t) /\ ~AfterMatches(t) /\ MayCommit(t)
    /\ entry' = t
    /\ pc' = "apply" /\ op' = "commit" /\ cur' = t
    /\ todo' = FilesOf(t) /\ good' = RenderedFrom(txs[t].before)
    /\ UNCHANGED <<real, row, mirror, doc, revision, txs, nextId, draft, done, failed,
                   touched, edits, mishaps>>

(* Answers that change nothing: a journal entry is applying, the id is     *)
(* unknown, committed already, the preview is stale (or the bound is hit). *)
AnswerCommit(t) ==
    /\ pc = "idle"
    /\ Pending(t) => IF AfterMatches(t) THEN revision = MaxRevision ELSE ~MayCommit(t)
    /\ UNCHANGED vars

(* set_file_state writes the real file and reindexes it. *)
Drive(f, c) ==
    /\ real' = [real EXCEPT ![f] = c]
    /\ row' = [row EXCEPT ![f] = c] /\ mirror' = [mirror EXCEPT ![f] = c]

ApplyWrite(f) ==
    /\ pc = "apply" /\ f \in todo
    /\ Drive(f, txs[cur].after[f])
    /\ todo' = todo \ {f} /\ done' = done \cup {f}
    /\ UNCHANGED <<doc, revision, txs, nextId, entry, draft, pc, op, cur, good, failed,
                   touched, edits, mishaps>>

ApplyDone ==
    /\ pc = "apply" /\ todo = {}
    /\ pc' = "index"
    /\ UNCHANGED <<disk, draft, locals, edits, mishaps>>

ApplyFails ==
    /\ pc = "apply" /\ Mishap("io")
    /\ pc' = "undo" /\ op' = "undo"
    /\ UNCHANGED <<disk, draft, cur, todo, done, good, failed, touched, edits>>

(* The refreshed mirrors must be the previewed ones. *)
Reproduced(t, from) == \A f \in FilesOf(t) : f \in from /\ mirror[f] = txs[t].after[f]

CheckPasses ==    \* the entry is sealed; other files may have to be rendered anew
    /\ pc = "check" /\ ~failed /\ Reproduced(cur, good)
    /\ entry' = 0
    /\ op' = "sealed" /\ pc' \in {"lexical", "index"}
    /\ UNCHANGED <<real, row, mirror, doc, revision, txs, nextId, draft, cur, todo, done,
                   good, failed, touched, edits, mishaps>>

CheckFails ==
    /\ pc = "check" /\ (failed \/ ~Reproduced(cur, good))
    /\ pc' = "undo" /\ op' = "undo"
    /\ UNCHANGED <<disk, draft, cur, todo, done, good, failed, touched, edits, mishaps>>

Undo(f) ==
    /\ pc = "undo" /\ f \in done
    /\ Drive(f, txs[cur].before[f])
    /\ done' = done \ {f}
    /\ UNCHANGED <<doc, revision, txs, nextId, entry, draft, pc, op, cur, todo, good,
                   failed, touched, edits, mishaps>>

UndoDone ==
    /\ pc = "undo" /\ done = {}
    /\ pc' \in {"lexical", "index"}
    /\ UNCHANGED <<disk, draft, locals, edits, mishaps>>

SealRolledBack ==
    /\ pc = "unseal"
    /\ entry' = 0
    /\ Release
    /\ UNCHANGED <<real, row, mirror, doc, revision, txs, nextId, draft, edits, mishaps>>

(* The transaction is over: mark it committed at the current revision. *)
Mark ==
    /\ pc = "mark"
    /\ op = "reconcile" => Reproduced(cur, txs[cur].proj)
    /\ txs' = [txs EXCEPT ![cur].status = "committed", ![cur].committed = revision]
    /\ Release
    /\ UNCHANGED <<real, row, mirror, doc, revision, nextId, entry, draft, edits, mishaps>>

(* The recovered files do not reproduce the preview: an error. *)
MarkRefused ==
    /\ pc = "mark" /\ op = "reconcile" /\ ~Reproduced(cur, txs[cur].proj)
    /\ Release
    /\ UNCHANGED <<disk, draft, edits, mishaps>>
-----------------------------------------------------------------------------
(* semantic_store::index_workspace_locked: parse what the rows say has     *)
(* changed, forget what is no longer tracked, advance the revision.        *)
NotIndexed == {f \in Files : row[f] # Absent /\ doc[f] = Absent}    \* mutant
Outdated == {f \in Files : row[f] # Absent /\ doc[f] # row[f]}
Gone     == {f \in Files : row[f] = Absent /\ doc[f] # Absent}

NoBump(S) == revision    \* mutant: the revision stays
Bump(S) == IF S = {} THEN revision ELSE revision + 1

AfterIndex == CASE op = "commit" -> "check"
                [] op = "undo"   -> "unseal"
                [] op \in {"sealed", "reconcile"} -> "mark"
                [] OTHER -> "idle"

SemanticIndex ==
    /\ pc = "index"
    /\ \E bad \in SUBSET Outdated :
         /\ IF bad = {} THEN UNCHANGED mishaps ELSE Mishap("parse")
         /\ LET parsed == {f \in Outdated \ bad : real[f] # Absent}
            IN  /\ doc' = [f \in Files |-> IF f \in parsed THEN real[f]
                                           ELSE IF f \in Gone THEN Absent ELSE doc[f]]
                /\ revision' = Bump(parsed \cup Gone)
                /\ IF AfterIndex = "idle"
                   THEN Release
                   ELSE /\ pc' = AfterIndex /\ failed' = (parsed # Outdated)
                        /\ UNCHANGED <<op, cur, todo, done, good, touched>>
    /\ UNCHANGED <<real, row, mirror, txs, nextId, entry, draft, edits>>

(* The lexical pass (MirrorSync has its steps). *)
Lexical(S) ==
    /\ pc = "lexical"
    /\ row'    = [f \in Files |-> IF f \in S THEN real[f] ELSE row[f]]
    /\ mirror' = [f \in Files |-> IF f \in S THEN real[f] ELSE mirror[f]]
    /\ pc' = "index"
    /\ UNCHANGED <<real, doc, revision, txs, nextId, entry, draft, locals, edits, mishaps>>

(* index, sync; sync --path takes one file. *)
StartSync ==
    /\ pc = "idle" /\ entry = 0 /\ revision < MaxRevision
    /\ pc' = "lexical" /\ op' = "sync"
    /\ UNCHANGED <<disk, draft, cur, todo, done, good, failed, touched, edits, mishaps>>

LexicalPass ==
    \/ Lexical(Files)
    \/ op = "sync" /\ \E f \in Files : Lexical({f})

(* recover drives the open entry forward or back (ApplyJournal has its     *)
(* steps), then indexes.                                                   *)
Recover(back, forced) ==
    /\ pc = "idle" /\ revision < MaxRevision /\ entry # 0 /\ entry \in Known
    /\ LET target == IF back THEN txs[entry].before ELSE txs[entry].after
           origin == IF back THEN txs[entry].after ELSE txs[entry].before
           driven == {f \in FilesOf(entry) : forced \/ real[f] \in {target[f], origin[f]}}
       IN  /\ real'   = [f \in Files |-> IF f \in driven THEN target[f] ELSE real[f]]
           /\ row'    = [f \in Files |-> IF f \in driven THEN target[f] ELSE row[f]]
           /\ mirror' = [f \in Files |-> IF f \in driven THEN target[f] ELSE mirror[f]]
           /\ entry' = IF driven = FilesOf(entry) THEN 0 ELSE entry
    /\ op' = "recover" /\ pc' \in {"lexical", "index"}
    /\ UNCHANGED <<doc, revision, txs, nextId, draft, cur, todo, done, good, failed,
                   touched, edits, mishaps>>
-----------------------------------------------------------------------------
DevEdit(f, c) ==
    /\ edits < MaxEdits /\ edits' = edits + 1
    /\ real[f] # c /\ real' = [real EXCEPT ![f] = c]
    /\ touched' = IF pc = "idle" THEN {} ELSE touched \cup {f}
    /\ UNCHANGED <<row, mirror, doc, revision, txs, nextId, entry, draft, pc, op, cur,
                   todo, done, good, failed, mishaps>>

Die ==
    /\ pc # "idle" /\ Mishap("death")
    /\ Release
    /\ UNCHANGED <<disk, draft, edits>>

(* db.sqlite is deleted, the remedy for a corrupt one (cli.rs:470); left    *)
(* out while an entry is applying, whose files the journal itself names.   *)
DatabaseLoss ==
    /\ pc = "idle" /\ entry = 0 /\ Mishap("dbloss")
    /\ row' = [f \in Files |-> Absent] /\ doc' = row' /\ revision' = 0
    /\ txs' = [t \in Ids |-> Absent]
    /\ UNCHANGED <<real, mirror, nextId, entry, draft, pc, locals, edits>>

Preview ==
    \/ \E S \in SUBSET Files : \E f \in S : ReadCode(f, S)
    \/ Capture \/ Locate \/ Save \/ GiveUp
    \/ \E S \in SUBSET Files : \E after \in [S -> Contents] : Plan(after)

Step ==
    \/ \E f \in Files : ApplyWrite(f) \/ Undo(f)
    \/ ApplyDone \/ ApplyFails \/ CheckPasses \/ CheckFails \/ UndoDone
    \/ SealRolledBack \/ Mark \/ MarkRefused \/ SemanticIndex \/ LexicalPass

Next ==
    \/ Preview
    \/ \E t \in Ids : StartCommit(t) \/ StartReconcile(t) \/ AnswerCommit(t)
    \/ Step \/ StartSync
    \/ \E back, forced \in BOOLEAN : Recover(back, forced)
    \/ \E f \in Files, c \in Blob : DevEdit(f, c)
    \/ Die \/ DatabaseLoss

Spec == Init /\ [][Next]_vars

(* A client that retries its commit until it is answered, and recovers the *)
(* workspace, forward, when a crash blocks it.                             *)
Retry(t) == StartCommit(t) \/ StartReconcile(t)

FairSpec ==
    /\ Spec /\ WF_vars(Step) /\ SF_vars(Recover(FALSE, FALSE))
    /\ \A t \in Ids : SF_vars(Retry(t))
-----------------------------------------------------------------------------
(* An edit hits the content it was computed for: a commit writes the file   *)
(* of its target only over what the agent read there, however long ago and  *)
(* whatever was indexed since, unless a developer writes it during the      *)
(* commit ("A mismatch is a conflict, never a fuzzy rebase",                *)
(* SEMANTIC_V2.md:52).  It takes a database that is never lost.             *)
EditHitsWhatWasRead ==
    [][\A f \in Files : pc = "apply" /\ f \in todo \ todo' /\ f = txs[cur].own
         => real[f] = txs[cur].view[f] \/ f \in touched]_vars

(* The same of the files the language server found ("CAS after slow LSP     *)
(* work: neither IDs nor byte ranges may have moved", transaction.rs:169).  *)
RangesHaveNotMoved ==
    [][\A f \in Files : pc = "apply" /\ f \in todo \ todo'
         => real[f] = txs[cur].view[f] \/ f \in touched]_vars

(* What makes TypeOK inductive: whoever works on a transaction has one.     *)
WorksOnKnown ==
    /\ pc = "idle" => op = "none" /\ todo = {} /\ done = {}
    /\ op \in Working => cur \in Known /\ todo \cup done \subseteq FilesOf(cur)
    /\ pc \in {"apply", "check", "undo", "unseal", "mark"} => op \in Working

TInv == TypeOK /\ WorksOnKnown

(* Why EditHitsWhatWasRead holds, while no database is lost: as long as the *)
(* revision is the draft's, the document of its target is what was read;    *)
(* a stored preview was taken of it; a commit writes over the preview.      *)
DraftFollowsIndex ==
    draft # NoDraft =>
      /\ draft.base <= revision
      /\ draft.base = revision => draft.view[draft.own] = doc[draft.own]
      /\ draft.stage = "planned" => draft.before[draft.own] = draft.view[draft.own]
PreviewOfWhatWasRead ==
    \A t \in Known : txs[t].before[txs[t].own] = txs[t].view[txs[t].own]
WritesOverPreview ==
    pc = "apply" => \A f \in todo \ touched : real[f] = txs[cur].before[f]

IInv == TInv /\ DraftFollowsIndex /\ PreviewOfWhatWasRead /\ WritesOverPreview

(* A transaction becomes committed only with all of its files at the        *)
(* previewed result, rendered in their mirrors; excepted are files that     *)
(* developers write during the commit (commit_transaction, both ways).      *)
CommittedMeansApplied ==
    [][\A t \in Known : txs'[t] # txs[t] /\ txs'[t] # Absent =>
         \A f \in FilesOf(t) \ touched : real[f] = txs[t].after[f] /\ mirror[f] = real[f]]_vars

(* Why it holds: an unfinished transaction has its result in every file it  *)
(* has left behind it, and once sealed in their mirrors; a new preview      *)
(* never takes the id of another.                                           *)
PhaseFitsJob ==
    /\ pc \in {"apply", "check"} => op = "commit"
    /\ pc \in {"undo", "unseal"} => op = "undo"
    /\ pc = "mark" => op \in {"sealed", "reconcile"}
    /\ op \in {"commit", "sealed", "reconcile"} /\ pc # "apply" => todo = {}
AppliedSoFar ==
    op \in {"commit", "sealed", "reconcile"} =>
      \A f \in FilesOf(cur) \ (todo \cup touched) :
        /\ real[f] = txs[cur].after[f]
        /\ op = "sealed" => mirror[f] = txs[cur].after[f]
FreshId == \A t \in Known : t < nextId

CInv == TInv /\ PhaseFitsJob /\ AppliedSoFar /\ FreshId

(* The revision a commit answers with names an index that contains the      *)
(* edit, so that a client may go on from it, unless the index met an error. *)
CommittedRevisionShowsEdit ==
    [][\A t \in Known : txs'[t] # txs[t] /\ txs'[t] # Absent /\ ~failed =>
         \A f \in FilesOf(t) \ touched : doc[f] = txs[t].after[f]]_vars

(* The semantic index reads the content the lexical pass recorded           *)
(* (debug_assert_eq! of the two hashes in index_workspace_locked).          *)
IndexReadsWhatWasRecorded ==
    [][\A f \in Outdated : doc'[f] # doc[f] => doc'[f] = row[f]]_vars

(* "An exact after-hash left by a crash is reconciled after journal         *)
(* recovery" (SEMANTIC_V2.md:182): where developers keep out, a crashed     *)
(* commit that is retried ends committed, or all of its files are as before.*)
CrashedCommitIsReconciled ==
    \A t \in Ids :
      entry = t /\ pc = "idle" /\ mishaps = MaxMishaps
        ~> /\ t \in Known
           /\ \/ txs[t].status = "committed"
              \/ (entry = 0 /\ Unchanged(txs[t].before))
=============================================================================
