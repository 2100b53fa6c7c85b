------------------------- MODULE TransactionProofs -------------------------
(***************************************************************************)
(* Transaction for every set of files and contents and every number of     *)
(* transactions, edits and mishaps: its types, that an edit lands only on  *)
(* the content its author had read, and that a transaction is marked       *)
(* committed only over its own result, which the index then shows.         *)
(***************************************************************************)
EXTENDS Transaction, TLAPS

(* The groups of variables that UNCHANGED names are always expanded. *)
USE DEF disk, locals, Ids, Blob, Known, FilesOf, Working

(* What the type of a draft says of its parts. *)
LEMMA DraftShape ==
  ASSUME TypeOK, draft # NoDraft
  PROVE  /\ draft.base \in Nat
         /\ DOMAIN draft.view \subseteq Files /\ draft.own \in DOMAIN draft.view
         /\ draft.view \in [DOMAIN draft.view -> Blob]
  BY DEF TypeOK, Drafts

(* What the type of a transaction says of its parts. *)
LEMMA TxShape ==
  ASSUME TypeOK, NEW t \in Known
  PROVE  /\ FilesOf(t) \subseteq Files /\ txs[t].own \in FilesOf(t)
         /\ txs[t].base \in Nat
         /\ txs[t].before \in [FilesOf(t) -> Contents]
         /\ txs[t].after \in [FilesOf(t) -> Contents]
  BY DEF TypeOK, Txs

(* Initially nothing runs and no transaction is known.  *)
LEMMA InitTInv == Init => TInv
<1> SUFFICES ASSUME Init PROVE TInv
  OBVIOUS
<1>1. nextId \in 1..(MaxTx + 1) /\ entry \in 0..MaxTx /\ cur \in 0..MaxTx
  BY BoundsAssumption DEF Init, NoJob
<1>2. edits \in 0..MaxEdits /\ mishaps \in 0..MaxMishaps /\ revision \in Nat
  BY BoundsAssumption DEF Init
<1>3. DOMAIN txs = Ids /\ \A t \in Ids : txs[t] = Absent
  BY DEF Init
<1>4. todo \subseteq Files /\ done \subseteq Files /\ good \subseteq Files
      /\ touched \subseteq Files /\ failed \in BOOLEAN
  BY DEF Init, NoJob
<1>5. TypeOK
  <2>1. real \in [Files -> Blob] /\ row \in [Files -> Blob]
        /\ doc \in [Files -> Blob] /\ mirror \in [Files -> Blob]
    BY DEF Init
  <2>2. draft = NoDraft /\ pc = "idle" /\ op = "none"
    BY DEF Init, NoJob
  <2> QED BY <1>1, <1>2, <1>3, <1>4, <2>1, <2>2 DEF TypeOK
<1>6. WorksOnKnown
  BY DEF Init, NoJob, WorksOnKnown
<1> QED BY <1>5, <1>6 DEF TInv

(* The steps of a preview keep the types: only draft and txs change. *)
LEMMA PreviewKeepsTInv == TInv /\ Preview => TInv'
<1> SUFFICES ASSUME TInv, Preview PROVE TInv'
  OBVIOUS
<1> USE DEF TInv
<1>1. ASSUME NEW S \in SUBSET Files, NEW f \in S, ReadCode(f, S) PROVE TInv'
  <2>1. draft' \in Drafts(S)
    <3>1. doc[f] \in Blob /\ revision \in Nat
      BY DEF TypeOK
    <3>2. [g \in S |-> IF g = f THEN doc[f] ELSE Absent] \in [S -> Blob]
      BY <3>1
    <3> QED BY <1>1, <3>1, <3>2 DEF ReadCode, Drafts
  <2> QED BY <1>1, <2>1 DEF ReadCode, TypeOK, WorksOnKnown
<1>2. CASE Capture
  <2>1. PICK S \in SUBSET Files : draft \in Drafts(S)
    BY <1>2 DEF Capture, TypeOK, NoDraft
  <2>2. draft' \in Drafts(S)
    BY <1>2, <2>1 DEF Capture, Drafts
  <2> QED BY <1>2, <2>2 DEF Capture, TypeOK, WorksOnKnown
<1>3. CASE Locate
  <2>1. PICK S \in SUBSET Files : draft \in Drafts(S)
    BY <1>3 DEF Locate, TypeOK, NoDraft
  <2>2. DOMAIN draft.view = S /\ draft.view \in [S -> Blob] /\ real \in [Files -> Blob]
    BY <2>1 DEF Drafts, TypeOK
  <2>3. draft' \in Drafts(S)
    BY <1>3, <2>1, <2>2 DEF Locate, Drafts
  <2> QED BY <1>3, <2>3 DEF Locate, TypeOK, WorksOnKnown
<1>4. ASSUME NEW S \in SUBSET Files, NEW after \in [S -> Contents], Plan(after)
      PROVE  TInv'
  <2>1. PICK T \in SUBSET Files : draft \in Drafts(T)
    BY <1>4 DEF Plan, TypeOK, NoDraft
  <2>2. DOMAIN draft.view = T /\ draft.base \in Nat /\ draft.own \in T
        /\ draft.view \in [T -> Blob]
    BY <2>1 DEF Drafts
  <2>3. DOMAIN after = T /\ after \in [T -> Contents]
    BY <1>4, <2>2 DEF Plan
  <2>4. [g \in T |-> real[g]] \in [T -> Contents]
    BY <1>4, <2>3 DEF Plan, TypeOK
  <2>5. draft' \in Drafts(T)
    BY <1>4, <2>2, <2>3, <2>4 DEF Plan, Drafts
  <2> QED BY <1>4, <2>5 DEF Plan, TypeOK, WorksOnKnown
<1>5. CASE Save
  <2>1. PICK S \in SUBSET Files : draft \in Drafts(S)
    BY <1>5 DEF Save, TypeOK, NoDraft
  <2>2. /\ draft.base \in Nat /\ draft.own \in S /\ draft.view \in [S -> Blob]
        /\ draft.before \in [S -> Contents] /\ draft.after \in [S -> Contents]
    BY <1>5, <2>1 DEF Save, Drafts
  <2>3. RenderedFrom(draft.before) \subseteq S
    BY <2>2 DEF RenderedFrom
  <2>4. nextId \in Ids /\ nextId' \in 1..(MaxTx + 1)
    BY <1>5, BoundsAssumption DEF Save, TypeOK
  <2>5. txs'[nextId] \in Txs(S)
    BY <1>5, <2>2, <2>3, <2>4 DEF Save, Txs, TypeOK
  <2>6. DOMAIN txs' = Ids /\ \A t \in Ids : t # nextId => txs'[t] = txs[t]
    BY <1>5, <2>4 DEF Save, TypeOK
  <2>7. TypeOK'
    BY <1>5, <2>4, <2>5, <2>6 DEF Save, TypeOK
  <2>8. WorksOnKnown'
    BY <1>5 DEF Save, WorksOnKnown
  <2> QED BY <2>7, <2>8
<1>6. CASE GiveUp
  BY <1>6 DEF GiveUp, TypeOK, WorksOnKnown
<1> QED BY <1>1, <1>2, <1>3, <1>4, <1>5, <1>6 DEF Preview
(* What the guard of a commit and of a reconciliation take: a known         *)
(* transaction.                                                            *)
LEMMA StartsKeepTInv ==
  ASSUME TInv, NEW t \in Ids, StartCommit(t) \/ StartReconcile(t) \/ AnswerCommit(t)
  PROVE  TInv'
<1> USE DEF TInv
<1>1. CASE StartCommit(t)
  <2>1. t \in Known /\ FilesOf(t) \subseteq Files
    BY <1>1, TxShape DEF StartCommit, Pending
  <2>2. RenderedFrom(txs[t].before) \subseteq Files
    BY <2>1, TxShape DEF RenderedFrom
  <2>3. t \in 0..MaxTx
    BY BoundsAssumption
  <2>4. TypeOK'
    BY <1>1, <2>1, <2>2, <2>3 DEF StartCommit, TypeOK
  <2>5. WorksOnKnown'
    BY <1>1, <2>1 DEF StartCommit, WorksOnKnown
  <2> QED BY <2>4, <2>5
<1>2. CASE StartReconcile(t)
  <2>1. t \in Known /\ t \in 0..MaxTx
    BY <1>2, BoundsAssumption DEF StartReconcile, Pending
  <2>2. TypeOK'
    BY <1>2, <2>1 DEF StartReconcile, TypeOK
  <2>3. WorksOnKnown'
    BY <1>2, <2>1 DEF StartReconcile, WorksOnKnown
  <2> QED BY <2>2, <2>3
<1>3. CASE AnswerCommit(t)
  BY <1>3 DEF AnswerCommit, vars, TypeOK, WorksOnKnown
<1> QED BY <1>1, <1>2, <1>3

(* Writing a file and rendering it keeps the types of the file states. *)
LEMMA DriveTypes ==
  ASSUME TypeOK, NEW f \in Files, NEW c \in Blob, Drive(f, c)
  PROVE  real' \in [Files -> Blob] /\ row' \in [Files -> Blob]
         /\ mirror' \in [Files -> Blob]
  BY DEF TypeOK, Drive

(* One more mishap stays within the bound. *)
LEMMA MishapType ==
  ASSUME TypeOK, NEW k, Mishap(k)
  PROVE  mishaps' \in 0..MaxMishaps
  BY BoundsAssumption DEF TypeOK, Mishap

(* The steps of whoever holds the exclusive lock keep the types. *)
LEMMA StepKeepsTInv == TInv /\ Step => TInv'
<1> SUFFICES ASSUME TInv, Step PROVE TInv'
  OBVIOUS
<1> USE DEF TInv
<1>1. ASSUME NEW f \in Files, ApplyWrite(f) PROVE TInv'
  <2>1. cur \in Known /\ f \in FilesOf(cur)
    BY <1>1 DEF ApplyWrite, WorksOnKnown
  <2>2. txs[cur].after[f] \in Blob
    BY <2>1, TxShape
  <2>3. real' \in [Files -> Blob] /\ row' \in [Files -> Blob] /\ mirror' \in [Files -> Blob]
    BY <1>1, <2>2, DriveTypes DEF ApplyWrite
  <2>4. TypeOK'
    BY <1>1, <2>3 DEF ApplyWrite, TypeOK
  <2>5. WorksOnKnown'
    BY <1>1, <2>1 DEF ApplyWrite, WorksOnKnown
  <2> QED BY <2>4, <2>5
<1>2. ASSUME NEW f \in Files, Undo(f) PROVE TInv'
  <2>1. cur \in Known /\ f \in FilesOf(cur)
    BY <1>2 DEF Undo, WorksOnKnown
  <2>2. txs[cur].before[f] \in Blob
    BY <2>1, TxShape
  <2>3. real' \in [Files -> Blob] /\ row' \in [Files -> Blob] /\ mirror' \in [Files -> Blob]
    BY <1>2, <2>2, DriveTypes DEF Undo
  <2>4. TypeOK'
    BY <1>2, <2>3 DEF Undo, TypeOK
  <2>5. WorksOnKnown'
    BY <1>2, <2>1 DEF Undo, WorksOnKnown
  <2> QED BY <2>4, <2>5
<1>3. CASE ApplyDone
  BY <1>3 DEF ApplyDone, TypeOK, WorksOnKnown
<1>4. CASE ApplyFails
  <2>1. mishaps' \in 0..MaxMishaps
    BY <1>4, MishapType DEF ApplyFails
  <2>2. TypeOK'
    BY <1>4, <2>1 DEF ApplyFails, TypeOK
  <2>3. WorksOnKnown'
    BY <1>4 DEF ApplyFails, WorksOnKnown
  <2> QED BY <2>2, <2>3
<1>5. CASE CheckPasses
  <2>1. 0 \in 0..MaxTx
    BY BoundsAssumption
  <2>2. TypeOK'
    BY <1>5, <2>1 DEF CheckPasses, TypeOK
  <2>3. WorksOnKnown'
    BY <1>5 DEF CheckPasses, WorksOnKnown
  <2> QED BY <2>2, <2>3
<1>6. CASE CheckFails
  BY <1>6 DEF CheckFails, TypeOK, WorksOnKnown
<1>7. CASE UndoDone
  BY <1>7 DEF UndoDone, TypeOK, WorksOnKnown
<1>8. CASE SealRolledBack
  <2>1. 0 \in 0..MaxTx
    BY BoundsAssumption
  <2>2. TypeOK'
    BY <1>8, <2>1 DEF SealRolledBack, Release, TypeOK
  <2>3. WorksOnKnown'
    BY <1>8 DEF SealRolledBack, Release, WorksOnKnown
  <2> QED BY <2>2, <2>3
<1>9. CASE Mark
  <2>1. cur \in Known
    BY <1>9 DEF Mark, WorksOnKnown
  <2>2. PICK S \in SUBSET Files : txs[cur] \in Txs(S)
    BY <2>1 DEF TypeOK
  <2>3. txs'[cur] = [txs[cur] EXCEPT !.status = "committed", !.committed = revision]
    BY <1>9, <2>1 DEF Mark, TypeOK
  <2>4. txs'[cur] \in Txs(S)
    BY <2>2, <2>3 DEF Txs, TypeOK
  <2>5. DOMAIN txs' = Ids /\ \A t \in Ids : t # cur => txs'[t] = txs[t]
    BY <1>9 DEF Mark, TypeOK
  <2>6. 0 \in 0..MaxTx
    BY BoundsAssumption
  <2>7. TypeOK'
    BY <1>9, <2>4, <2>5, <2>6 DEF Mark, Release, TypeOK
  <2>8. WorksOnKnown'
    BY <1>9 DEF Mark, Release, WorksOnKnown
  <2> QED BY <2>7, <2>8
<1>10. CASE MarkRefused
  <2>1. 0 \in 0..MaxTx
    BY BoundsAssumption
  <2>2. TypeOK'
    BY <1>10, <2>1 DEF MarkRefused, Release, TypeOK
  <2>3. WorksOnKnown'
    BY <1>10 DEF MarkRefused, Release, WorksOnKnown
  <2> QED BY <2>2, <2>3
<1>11. CASE SemanticIndex
  <2>1. doc' \in [Files -> Blob] /\ revision' \in Nat
    BY <1>11 DEF SemanticIndex, Bump, TypeOK
  <2>2. mishaps' \in 0..MaxMishaps
    BY <1>11, MishapType DEF SemanticIndex, TypeOK
  <2>3. \/ /\ pc' = "idle" /\ op' = "none" /\ cur' = 0 /\ todo' = {} /\ done' = {}
           /\ good' = {} /\ failed' = FALSE /\ touched' = {}
        \/ /\ pc' = AfterIndex /\ AfterIndex # "idle" /\ failed' \in BOOLEAN
           /\ UNCHANGED <<op, cur, todo, done, good, touched>>
    BY <1>11 DEF SemanticIndex, Release
  <2>4. AfterIndex \in {"check", "unseal", "mark", "idle"}
        /\ (AfterIndex # "idle" => op \in Working)
    BY DEF AfterIndex
  <2>5. 0 \in 0..MaxTx
    BY BoundsAssumption
  <2>6. UNCHANGED <<real, row, mirror, txs, nextId, entry, draft, edits>>
    BY <1>11 DEF SemanticIndex
  <2>7. TypeOK'
    BY <2>1, <2>2, <2>3, <2>4, <2>5, <2>6 DEF TypeOK
  <2>8. WorksOnKnown'
    BY <2>3, <2>4, <2>6 DEF WorksOnKnown
  <2> QED BY <2>7, <2>8
<1>12. CASE LexicalPass
  <2>1. PICK S \in SUBSET Files : Lexical(S)
    BY <1>12 DEF LexicalPass
  <2>2. row' \in [Files -> Blob] /\ mirror' \in [Files -> Blob]
    BY <2>1 DEF Lexical, TypeOK
  <2>3. TypeOK'
    BY <2>1, <2>2 DEF Lexical, TypeOK
  <2>4. WorksOnKnown'
    BY <2>1 DEF Lexical, WorksOnKnown
  <2> QED BY <2>3, <2>4
<1> QED
  BY <1>1, <1>2, <1>3, <1>4, <1>5, <1>6, <1>7, <1>8, <1>9, <1>10, <1>11, <1>12 DEF Step

(* Syncs, recoveries, developers, deaths and lost databases keep the types. *)
LEMMA OthersKeepTInv ==
  ASSUME TInv,
         \/ StartSync
         \/ \E back, forced \in BOOLEAN : Recover(back, forced)
         \/ \E f \in Files, c \in Blob : DevEdit(f, c)
         \/ Die \/ DatabaseLoss
  PROVE  TInv'
<1> USE DEF TInv
<1>1. CASE StartSync
  BY <1>1 DEF StartSync, TypeOK, WorksOnKnown
<1>2. ASSUME NEW back \in BOOLEAN, NEW forced \in BOOLEAN, Recover(back, forced)
      PROVE  TInv'
  <2> DEFINE target == IF back THEN txs[entry].before ELSE txs[entry].after
             origin == IF back THEN txs[entry].after ELSE txs[entry].before
             driven == {f \in FilesOf(entry) : forced \/ real[f] \in {target[f], origin[f]}}
  <2>1. entry \in Known
    BY <1>2 DEF Recover
  <2>2. \A f \in driven : target[f] \in Blob
    BY <2>1, TxShape
  <2>3. /\ real' = [f \in Files |-> IF f \in driven THEN target[f] ELSE real[f]]
        /\ row' = [f \in Files |-> IF f \in driven THEN target[f] ELSE row[f]]
        /\ mirror' = [f \in Files |-> IF f \in driven THEN target[f] ELSE mirror[f]]
        /\ (entry' = 0 \/ entry' = entry)
    BY <1>2 DEF Recover
  <2> HIDE DEF driven, target
  <2>4. real' \in [Files -> Blob] /\ row' \in [Files -> Blob] /\ mirror' \in [Files -> Blob]
    BY <2>2, <2>3 DEF TypeOK
  <2>5. entry' \in 0..MaxTx
    BY <2>3, BoundsAssumption DEF TypeOK
  <2>6. TypeOK'
    BY <1>2, <2>4, <2>5 DEF Recover, TypeOK
  <2>7. WorksOnKnown'
    BY <1>2 DEF Recover, WorksOnKnown
  <2> QED BY <2>6, <2>7
<1>3. ASSUME NEW f \in Files, NEW c \in Blob, DevEdit(f, c) PROVE TInv'
  <2>1. edits' \in 0..MaxEdits
    BY <1>3, BoundsAssumption DEF DevEdit, TypeOK
  <2>2. real' \in [Files -> Blob] /\ touched' \subseteq Files
    BY <1>3 DEF DevEdit, TypeOK
  <2>3. TypeOK'
    BY <1>3, <2>1, <2>2 DEF DevEdit, TypeOK
  <2>4. WorksOnKnown'
    BY <1>3 DEF DevEdit, WorksOnKnown
  <2> QED BY <2>3, <2>4
<1>4. CASE Die
  <2>1. mishaps' \in 0..MaxMishaps /\ 0 \in 0..MaxTx
    BY <1>4, MishapType, BoundsAssumption DEF Die
  <2>2. TypeOK'
    BY <1>4, <2>1 DEF Die, Release, TypeOK
  <2>3. WorksOnKnown'
    BY <1>4 DEF Die, Release, WorksOnKnown
  <2> QED BY <2>2, <2>3
<1>5. CASE DatabaseLoss
  <2>1. mishaps' \in 0..MaxMishaps
    BY <1>5, MishapType DEF DatabaseLoss
  <2>2. /\ row' \in [Files -> Blob] /\ doc' \in [Files -> Blob] /\ revision' \in Nat
        /\ DOMAIN txs' = Ids /\ \A t \in Ids : txs'[t] = Absent
    BY <1>5 DEF DatabaseLoss
  <2>3. TypeOK'
    BY <1>5, <2>1, <2>2 DEF DatabaseLoss, TypeOK
  <2>4. WorksOnKnown'
    BY <1>5 DEF DatabaseLoss, WorksOnKnown
  <2> QED BY <2>3, <2>4
<1> QED BY <1>1, <1>2, <1>3, <1>4, <1>5

(* Every step keeps the types. *)
LEMMA NextKeepsTInv == TInv /\ [Next]_vars => TInv'
<1> SUFFICES ASSUME TInv, [Next]_vars PROVE TInv'
  OBVIOUS
<1>1. CASE Preview
  BY <1>1, PreviewKeepsTInv
<1>2. ASSUME NEW t \in Ids, StartCommit(t) \/ StartReconcile(t) \/ AnswerCommit(t)
      PROVE  TInv'
  BY <1>2, StartsKeepTInv
<1>3. CASE Step
  BY <1>3, StepKeepsTInv
<1>4. CASE \/ StartSync
           \/ \E back, forced \in BOOLEAN : Recover(back, forced)
           \/ \E f \in Files, c \in Blob : DevEdit(f, c)
           \/ Die \/ DatabaseLoss
  BY <1>4, OthersKeepTInv
<1>5. CASE UNCHANGED vars
  BY <1>5 DEF vars, TInv, TypeOK, WorksOnKnown
<1> QED BY <1>1, <1>2, <1>3, <1>4, <1>5 DEF Next

(* The state of transactions, index and workspace keeps its shape, whatever *)
(* previews, commits, recoveries, developers and crashes do.                *)
THEOREM TypeCorrect == Spec => []TypeOK
<1>1. TInv => TypeOK
  BY DEF TInv
<1> QED BY <1>1, InitTInv, NextKeepsTInv, PTL DEF Spec

(***************************************************************************)
(* An edit hits the content it was computed for.  The revision counter may *)
(* not go back, so no database is lost here: TxRemedy shows what becomes   *)
(* of the property when one is.                                            *)
(***************************************************************************)

(* The index changes a document only together with the revision, so that a *)
(* draft of the current revision is a draft of the current documents.      *)
LEMMA IndexKeepsDraft ==
  ASSUME TInv, DraftFollowsIndex, SemanticIndex
  PROVE  DraftFollowsIndex'
<1>1. draft' = draft
  BY DEF SemanticIndex
<1>2. PICK parsed \in SUBSET Files :
        /\ doc' = [f \in Files |-> IF f \in parsed THEN real[f]
                                   ELSE IF f \in Gone THEN Absent ELSE doc[f]]
        /\ revision' = Bump(parsed \cup Gone)
  BY DEF SemanticIndex, Outdated
<1>3. revision \in Nat /\ doc \in [Files -> Blob]
  BY DEF TInv, TypeOK
<1>4. CASE parsed \cup Gone = {}
  <2>1. doc' = doc /\ revision' = revision
    BY <1>2, <1>3, <1>4 DEF Bump
  <2> QED BY <1>1, <2>1 DEF DraftFollowsIndex
<1>5. CASE parsed \cup Gone # {}
  <2>1. revision' = revision + 1
    BY <1>2, <1>5 DEF Bump
  <2>2. draft # NoDraft => draft.base \in Nat
    BY DraftShape DEF TInv
  <2> QED BY <1>1, <1>3, <2>1, <2>2 DEF DraftFollowsIndex
<1> QED BY <1>4, <1>5

(* A preview is taken of the document its agent has read. *)
LEMMA PreviewKeepsIInv == IInv /\ Preview => IInv'
<1> SUFFICES ASSUME IInv, Preview PROVE IInv'
  OBVIOUS
<1>1. TInv /\ TInv'
  BY PreviewKeepsTInv DEF IInv
<1>2. UNCHANGED <<real, doc, revision, pc, touched, todo, cur>>
  BY DEF Preview, ReadCode, Capture, Locate, Plan, Save, GiveUp
<1>3. DraftFollowsIndex'
  <2> USE DEF IInv, DraftFollowsIndex
  <2>1. revision \in Nat
    BY <1>1 DEF TInv, TypeOK
  <2>2. ASSUME NEW S \in SUBSET Files, NEW f \in S, ReadCode(f, S)
        PROVE  DraftFollowsIndex'
    BY <1>2, <2>1, <2>2 DEF ReadCode
  <2>3. CASE Capture
    <3>1. draft # NoDraft
      BY <2>3 DEF Capture, NoDraft
    <3>2. PICK S \in SUBSET Files : draft \in Drafts(S)
      BY <1>1, <3>1 DEF TInv, TypeOK
    <3>3. draft'.base = draft.base /\ draft'.own = draft.own /\ draft'.view = draft.view
          /\ draft'.stage = "captured"
      BY <2>3, <3>2 DEF Capture, Drafts
    <3> QED BY <1>2, <3>1, <3>3
  <2>4. CASE Locate
    <3>1. draft # NoDraft
      BY <2>4 DEF Locate, NoDraft
    <3>2. PICK S \in SUBSET Files : draft \in Drafts(S)
      BY <1>1, <3>1 DEF TInv, TypeOK
    <3>3. DOMAIN draft.view = S /\ draft.own \in S
      BY <3>2 DEF Drafts
    <3>4. draft'.base = draft.base /\ draft'.own = draft.own /\ draft'.stage = "located"
          /\ draft'.view[draft.own] = draft.view[draft.own]
      BY <2>4, <3>2, <3>3 DEF Locate, Drafts
    <3> QED BY <1>2, <3>1, <3>4
  <2>5. ASSUME NEW S \in SUBSET Files, NEW after \in [S -> Contents], Plan(after)
        PROVE  DraftFollowsIndex'
    <3>1. draft # NoDraft /\ draft.base = revision
      BY <2>5 DEF Plan, RevisionHolds, NoDraft
    <3>2. draft.own \in DOMAIN draft.view /\ draft.view[draft.own] = doc[draft.own]
      BY <1>1, <3>1, DraftShape DEF TInv
    <3>3. /\ draft'.base = draft.base /\ draft'.own = draft.own /\ draft'.view = draft.view
          /\ draft'.before[draft.own] = real[draft.own] /\ real[draft.own] = doc[draft.own]
      BY <2>5, <3>2 DEF Plan
    <3> QED BY <1>2, <2>1, <3>1, <3>2, <3>3
  <2>6. CASE Save \/ GiveUp
    BY <2>6 DEF Save, GiveUp
  <2> QED BY <2>2, <2>3, <2>4, <2>5, <2>6 DEF Preview
<1>4. PreviewOfWhatWasRead'
  <2>1. CASE Save
    <3>1. draft # NoDraft /\ nextId \in Ids
      BY <1>1, <2>1, BoundsAssumption DEF Save, NoDraft, TInv, TypeOK
    <3>2. draft.before[draft.own] = draft.view[draft.own]
      BY <2>1, <3>1 DEF Save, IInv, DraftFollowsIndex
    <3>3. DOMAIN txs = Ids
      BY <1>1 DEF TInv, TypeOK
    <3>4. /\ txs'[nextId].before = draft.before /\ txs'[nextId].view = draft.view
          /\ txs'[nextId].own = draft.own
          /\ \A t \in Ids : t # nextId => txs'[t] = txs[t]
      BY <2>1, <3>1, <3>3 DEF Save
    <3> QED BY <3>2, <3>4 DEF IInv, PreviewOfWhatWasRead
  <2>2. CASE ~Save
    <3>1. txs' = txs
      BY <2>2 DEF Preview, ReadCode, Capture, Locate, Plan, GiveUp
    <3> QED BY <3>1 DEF IInv, PreviewOfWhatWasRead
  <2> QED BY <2>1, <2>2
<1>5. WritesOverPreview'
  <2>1. CASE Save
    BY <1>2, <2>1 DEF Save, WritesOverPreview
  <2>2. CASE ~Save
    <3>1. txs' = txs
      BY <2>2 DEF Preview, ReadCode, Capture, Locate, Plan, GiveUp
    <3> QED BY <1>2, <3>1 DEF IInv, WritesOverPreview
  <2> QED BY <2>1, <2>2
<1> QED BY <1>1, <1>3, <1>4, <1>5 DEF IInv

(* A commit starts over the previewed content, file by file, and forgets    *)
(* each file as it is written.                                             *)
LEMMA CommandsKeepIInv ==
  ASSUME IInv,
         \/ \E t \in Ids : StartCommit(t) \/ StartReconcile(t) \/ AnswerCommit(t)
         \/ Step
         \/ StartSync \/ Die
         \/ \E back, forced \in BOOLEAN : Recover(back, forced)
         \/ \E f \in Files, c \in Blob : DevEdit(f, c)
  PROVE  IInv'
<1>0. TInv /\ TInv'
  BY StartsKeepTInv, StepKeepsTInv, OthersKeepTInv DEF IInv
<1>1. DraftFollowsIndex'
  <2>1. CASE SemanticIndex
    BY <2>1, IndexKeepsDraft DEF IInv
  <2>2. CASE ~SemanticIndex
    <3>1. draft' = draft /\ doc' = doc /\ revision' = revision
      BY <2>2 DEF StartCommit, StartReconcile, AnswerCommit, Step, StartSync, Die,
         Recover, DevEdit, ApplyWrite, Undo, ApplyDone, ApplyFails, CheckPasses,
         CheckFails, UndoDone, SealRolledBack, Mark, MarkRefused, LexicalPass, Lexical, vars
    <3> QED BY <3>1 DEF IInv, DraftFollowsIndex
  <2> QED BY <2>1, <2>2
<1>2. PreviewOfWhatWasRead'
  <2>1. CASE Mark
    <3>1. DOMAIN txs = Ids /\ cur \in Known
      BY <1>0, <2>1 DEF TInv, TypeOK, WorksOnKnown, Mark
    <3>2. PICK S \in SUBSET Files : txs[cur] \in Txs(S)
      BY <1>0, <3>1 DEF TInv, TypeOK
    <3>3. /\ txs'[cur].before = txs[cur].before /\ txs'[cur].view = txs[cur].view
          /\ txs'[cur].own = txs[cur].own
          /\ \A t \in Ids : t # cur => txs'[t] = txs[t]
      BY <2>1, <3>1, <3>2 DEF Mark, Txs
    <3> QED BY <3>1, <3>3 DEF IInv, PreviewOfWhatWasRead
  <2>2. CASE ~Mark
    <3>1. txs' = txs
      BY <2>2 DEF StartCommit, StartReconcile, AnswerCommit, Step, StartSync, Die,
         Recover, DevEdit, ApplyWrite, Undo, ApplyDone, ApplyFails, CheckPasses,
         CheckFails, UndoDone, SealRolledBack, MarkRefused, SemanticIndex, LexicalPass,
         Lexical, vars
    <3> QED BY <3>1 DEF IInv, PreviewOfWhatWasRead
  <2> QED BY <2>1, <2>2
<1>3. WritesOverPreview'
  <2>1. ASSUME NEW t \in Ids, StartCommit(t) PROVE WritesOverPreview'
    <3>1. t \in Known /\ DOMAIN txs[t].before = FilesOf(t)
      BY <1>0, <2>1, TxShape DEF StartCommit, Pending, TInv
    <3> QED BY <2>1, <3>1 DEF StartCommit, MayCommit, Unchanged, WritesOverPreview
  <2>2. ASSUME NEW f \in Files, ApplyWrite(f) PROVE WritesOverPreview'
    <3>1. /\ todo' = todo \ {f} /\ pc' = pc /\ pc = "apply" /\ UNCHANGED <<touched, txs, cur>>
          /\ \A g \in Files : g # f => real'[g] = real[g]
      BY <1>0, <2>2 DEF ApplyWrite, Drive, TInv, TypeOK
    <3>2. todo \subseteq Files
      BY <1>0 DEF TInv, TypeOK
    <3> QED BY <3>1, <3>2 DEF IInv, WritesOverPreview
  <2>3. ASSUME NEW f \in Files, NEW c \in Blob, DevEdit(f, c) PROVE WritesOverPreview'
    <3>1. /\ UNCHANGED <<todo, pc, txs, cur>>
          /\ pc = "apply" => touched' = touched \cup {f}
          /\ \A g \in Files : g # f => real'[g] = real[g]
      BY <1>0, <2>3 DEF DevEdit, TInv, TypeOK
    <3>2. todo \subseteq Files
      BY <1>0 DEF TInv, TypeOK
    <3> QED BY <3>1, <3>2 DEF IInv, WritesOverPreview
  <2>4. CASE UNCHANGED vars
    BY <2>4 DEF vars, IInv, WritesOverPreview
  <2>5. ASSUME pc' # "apply" PROVE WritesOverPreview'
    BY <2>5 DEF WritesOverPreview
  <2>6. ASSUME NEW t \in Ids, StartReconcile(t) PROVE pc' # "apply"
    BY <2>6 DEF StartReconcile
  <2>7. CASE StartSync \/ Die \/ \E back, forced \in BOOLEAN : Recover(back, forced)
    BY <2>5, <2>7 DEF StartSync, Die, Release, Recover
  <2>8. CASE Step
    <3>1. SUFFICES ASSUME \A f \in Files : ~ApplyWrite(f) PROVE pc' # "apply"
      BY <2>2, <2>5
    <3>2. CASE SemanticIndex
      BY <3>2 DEF SemanticIndex, AfterIndex, Release
    <3>3. ASSUME NEW f \in Files, Undo(f) PROVE pc' # "apply"
      BY <3>3 DEF Undo
    <3>4. CASE LexicalPass
      BY <3>4 DEF LexicalPass, Lexical
    <3> QED
      BY <2>8, <3>1, <3>2, <3>3, <3>4 DEF Step, ApplyDone, ApplyFails, CheckPasses,
         CheckFails, UndoDone, SealRolledBack, Mark, MarkRefused, Release
  <2> QED BY <2>1, <2>3, <2>4, <2>5, <2>6, <2>7, <2>8 DEF AnswerCommit
<1> QED BY <1>0, <1>1, <1>2, <1>3 DEF IInv

(* While no database is lost, every edit of a commit is written over the    *)
(* content its author had read.                                            *)
THEOREM EditsHit ==
  ASSUME "dbloss" \notin MishapKinds
  PROVE  Spec => EditHitsWhatWasRead
<1>1. Init => IInv
  <2> SUFFICES ASSUME Init PROVE IInv
    OBVIOUS
  <2>1. TInv /\ draft = NoDraft /\ pc = "idle" /\ Known = {}
    BY InitTInv DEF Init
  <2> QED BY <2>1 DEF IInv, DraftFollowsIndex, PreviewOfWhatWasRead, WritesOverPreview
<1>2. IInv /\ [Next]_vars => IInv'
  <2> SUFFICES ASSUME IInv, [Next]_vars PROVE IInv'
    OBVIOUS
  <2>1. ~DatabaseLoss
    BY DEF DatabaseLoss, Mishap
  <2>2. CASE UNCHANGED vars
    <3>1. TInv'
      BY NextKeepsTInv DEF IInv
    <3> QED BY <2>2, <3>1 DEF vars, IInv, DraftFollowsIndex, PreviewOfWhatWasRead, WritesOverPreview
  <2>3. CASE Preview
    BY <2>3, PreviewKeepsIInv
  <2>4. CASE Next /\ ~Preview
    BY <2>1, <2>4, CommandsKeepIInv DEF Next
  <2> QED BY <2>2, <2>3, <2>4
<1>3. IInv => \A f \in Files : pc = "apply" /\ f \in todo \ todo' /\ f = txs[cur].own
                 => real[f] = txs[cur].view[f] \/ f \in touched
  BY DEF IInv, TInv, WorksOnKnown, PreviewOfWhatWasRead, WritesOverPreview
<1> QED BY <1>1, <1>2, <1>3, PTL DEF Spec, EditHitsWhatWasRead

(***************************************************************************)
(* A transaction becomes committed only when its files hold the previewed  *)
(* result and their mirrors show it.                                       *)
(***************************************************************************)

(* Previews and lost databases do not reach the work of a commit. *)
LEMMA PreviewKeepsCInv == CInv /\ (Preview \/ DatabaseLoss) => CInv'
<1> SUFFICES ASSUME CInv, Preview \/ DatabaseLoss PROVE CInv'
  OBVIOUS
<1>1. TInv /\ TInv'
  BY PreviewKeepsTInv, OthersKeepTInv DEF CInv
<1>2. UNCHANGED <<pc, op, todo, touched, cur, real, mirror>>
  BY DEF Preview, ReadCode, Capture, Locate, Plan, Save, GiveUp, DatabaseLoss
<1>3. PhaseFitsJob'
  BY <1>2 DEF CInv, PhaseFitsJob
<1>4. AppliedSoFar'
  <2>1. CASE Save \/ DatabaseLoss
    BY <1>1, <1>2, <2>1 DEF Save, DatabaseLoss, AppliedSoFar, TInv, WorksOnKnown
  <2>2. CASE ~(Save \/ DatabaseLoss)
    <3>1. txs' = txs
      BY <2>2 DEF Preview, ReadCode, Capture, Locate, Plan, GiveUp
    <3> QED BY <1>2, <3>1 DEF CInv, AppliedSoFar
  <2> QED BY <2>1, <2>2
<1>5. FreshId'
  <2>1. CASE Save
    <3>1. nextId \in Ids /\ nextId \in Nat /\ nextId' = nextId + 1
          /\ \A t \in Ids : t # nextId => txs'[t] = txs[t]
      BY <1>1, <2>1, BoundsAssumption DEF Save, TInv, TypeOK
    <3>2. \A t \in Ids : t \in Nat
      BY BoundsAssumption
    <3> QED BY <3>1, <3>2 DEF CInv, FreshId
  <2>2. CASE DatabaseLoss
    BY <2>2 DEF DatabaseLoss, FreshId
  <2>3. CASE ~(Save \/ DatabaseLoss)
    <3>1. txs' = txs /\ nextId' = nextId
      BY <2>3 DEF Preview, ReadCode, Capture, Locate, Plan, GiveUp
    <3> QED BY <3>1 DEF CInv, FreshId
  <2> QED BY <2>1, <2>2, <2>3
<1> QED BY <1>1, <1>3, <1>4, <1>5 DEF CInv

(* Marking a transaction keeps the others, and which of them are known. *)
LEMMA MarkKeepsKnown ==
  ASSUME TInv, Mark
  PROVE  /\ cur \in Known /\ nextId' = nextId
         /\ \A t \in Ids : t # cur => txs'[t] = txs[t]
  BY DEF TInv, TypeOK, WorksOnKnown, Mark

(* What holds of the files a commit has behind it survives its own steps. *)
LEMMA CommandsKeepApplied ==
  ASSUME CInv, TInv',
         \/ \E t \in Ids : StartCommit(t) \/ StartReconcile(t) \/ AnswerCommit(t)
         \/ Step
         \/ StartSync \/ Die
         \/ \E back, forced \in BOOLEAN : Recover(back, forced)
         \/ \E f \in Files, c \in Blob : DevEdit(f, c)
  PROVE  AppliedSoFar' /\ PhaseFitsJob'
<1> USE DEF CInv, PhaseFitsJob
<1>0. TypeOK /\ WorksOnKnown
  BY DEF TInv
<1>1. ASSUME NEW t \in Ids, StartCommit(t) PROVE AppliedSoFar' /\ PhaseFitsJob'
  BY <1>1 DEF StartCommit, AppliedSoFar
<1>2. ASSUME NEW t \in Ids, StartReconcile(t) PROVE AppliedSoFar' /\ PhaseFitsJob'
  BY <1>0, <1>2 DEF StartReconcile, AfterMatches, WorksOnKnown, AppliedSoFar
<1>3. ASSUME NEW f \in Files, ApplyWrite(f) PROVE AppliedSoFar' /\ PhaseFitsJob'
  <2>1. /\ pc = "apply" /\ todo' = todo \ {f}
        /\ UNCHANGED <<pc, op, cur, touched, txs>>
    BY <1>3 DEF ApplyWrite
  <2>2. /\ real'[f] = txs[cur].after[f] /\ mirror'[f] = txs[cur].after[f]
        /\ \A g \in Files : g # f => real'[g] = real[g] /\ mirror'[g] = mirror[g]
    BY <1>0, <1>3 DEF ApplyWrite, Drive, TypeOK
  <2>3. FilesOf(cur) \subseteq Files
    BY <1>0, <2>1, TxShape DEF WorksOnKnown
  <2> QED BY <2>1, <2>2, <2>3 DEF AppliedSoFar
<1>4. ASSUME NEW f \in Files, Undo(f) PROVE AppliedSoFar' /\ PhaseFitsJob'
  BY <1>4 DEF Undo, AppliedSoFar
<1>5. CASE ApplyDone
  BY <1>5 DEF ApplyDone, AppliedSoFar
<1>6. CASE ApplyFails \/ CheckFails \/ UndoDone
  BY <1>6 DEF ApplyFails, CheckFails, UndoDone, AppliedSoFar
<1>7. CASE CheckPasses
  <2>1. \A f \in FilesOf(cur) : mirror[f] = txs[cur].after[f]
    BY <1>7 DEF CheckPasses, Reproduced
  <2>2. \A f \in FilesOf(cur) \ touched : real[f] = txs[cur].after[f]
    BY <1>7 DEF CheckPasses, AppliedSoFar
  <2> QED BY <1>7, <2>1, <2>2 DEF CheckPasses, AppliedSoFar
<1>8. CASE SealRolledBack \/ Mark \/ MarkRefused \/ Die
  BY <1>8 DEF SealRolledBack, Mark, MarkRefused, Die, Release, AppliedSoFar
<1>9. CASE SemanticIndex
  <2>1. UNCHANGED <<real, mirror, txs>>
    BY <1>9 DEF SemanticIndex
  <2>2. \/ pc' = "idle" /\ op' = "none"
        \/ pc' = AfterIndex /\ AfterIndex # "idle" /\ UNCHANGED <<op, cur, todo, touched>>
    BY <1>9 DEF SemanticIndex, Release
  <2> QED BY <1>9, <2>1, <2>2 DEF SemanticIndex, AfterIndex, AppliedSoFar
<1>10. CASE LexicalPass
  <2>1. PICK S \in SUBSET Files : Lexical(S)
    BY <1>10 DEF LexicalPass
  <2>2. /\ UNCHANGED <<real, txs, op, cur, todo, touched>> /\ pc = "lexical" /\ pc' = "index"
        /\ \A g \in Files : mirror'[g] = real[g] \/ mirror'[g] = mirror[g]
    BY <1>0, <2>1 DEF Lexical, TypeOK
  <2>3. op \in Working => FilesOf(cur) \subseteq Files
    BY <1>0, TxShape DEF WorksOnKnown
  <2> QED BY <2>2, <2>3 DEF AppliedSoFar
<1>11. CASE StartSync \/ \E back, forced \in BOOLEAN : Recover(back, forced)
  BY <1>0, <1>11 DEF StartSync, Recover, WorksOnKnown, AppliedSoFar
<1>12. ASSUME NEW f \in Files, NEW c \in Blob, DevEdit(f, c)
       PROVE  AppliedSoFar' /\ PhaseFitsJob'
  <2>1. /\ UNCHANGED <<pc, op, cur, todo, txs, mirror>>
        /\ pc # "idle" => touched' = touched \cup {f}
        /\ \A g \in Files : g # f => real'[g] = real[g]
    BY <1>0, <1>12 DEF DevEdit, TypeOK
  <2>2. op \in Working => FilesOf(cur) \subseteq Files /\ pc # "idle"
    BY <1>0, TxShape DEF WorksOnKnown
  <2> QED BY <2>1, <2>2 DEF AppliedSoFar
<1>13. CASE UNCHANGED vars
  BY <1>13 DEF vars, AppliedSoFar
<1> QED
  BY <1>1, <1>2, <1>3, <1>4, <1>5, <1>6, <1>7, <1>8, <1>9, <1>10, <1>11, <1>12, <1>13
  DEF Step, AnswerCommit

(* Ids are handed out in order: only a preview takes one. *)
LEMMA CommandsKeepFreshId ==
  ASSUME CInv,
         \/ \E t \in Ids : StartCommit(t) \/ StartReconcile(t) \/ AnswerCommit(t)
         \/ Step
         \/ StartSync \/ Die
         \/ \E back, forced \in BOOLEAN : Recover(back, forced)
         \/ \E f \in Files, c \in Blob : DevEdit(f, c)
  PROVE  FreshId'
<1>1. CASE Mark
  BY <1>1, MarkKeepsKnown DEF CInv, FreshId
<1>2. CASE ~Mark
  <2>1. txs' = txs /\ nextId' = nextId
    BY <1>2 DEF StartCommit, StartReconcile, AnswerCommit, Step, StartSync, Die,
       Recover, DevEdit, ApplyWrite, Undo, ApplyDone, ApplyFails, CheckPasses,
       CheckFails, UndoDone, SealRolledBack, MarkRefused, SemanticIndex, LexicalPass,
       Lexical, vars
  <2> QED BY <2>1 DEF CInv, FreshId
<1> QED BY <1>1, <1>2

(* Other steps leave the transactions as they are. *)
LEMMA TransactionsStay ==
  ASSUME [Next]_vars, ~Save, ~DatabaseLoss, ~Mark
  PROVE  txs' = txs
BY DEF Next, Preview, ReadCode, Capture, Locate, Plan, GiveUp, StartCommit, StartReconcile,
   AnswerCommit, Step, StartSync, Die, Recover, DevEdit, ApplyWrite, Undo, ApplyDone, ApplyFails,
   CheckPasses, CheckFails, UndoDone, SealRolledBack, MarkRefused, SemanticIndex, LexicalPass,
   Lexical, vars

(* Initially no transaction is known, so none is half done. *)
LEMMA InitCInv == Init => CInv
<1> SUFFICES ASSUME Init PROVE CInv
  OBVIOUS
<1>1. TInv /\ pc = "idle" /\ op = "none" /\ Known = {}
  BY InitTInv DEF Init, NoJob
<1> QED BY <1>1 DEF CInv, PhaseFitsJob, AppliedSoFar, FreshId

(* Every step keeps the invariant behind the marks of a commit. *)
LEMMA NextKeepsCInv == CInv /\ [Next]_vars => CInv'
<1> SUFFICES ASSUME CInv, [Next]_vars PROVE CInv'
  OBVIOUS
<1>1. TInv'
  BY NextKeepsTInv DEF CInv
<1>2. CASE UNCHANGED vars
  BY <1>1, <1>2 DEF vars, CInv, PhaseFitsJob, AppliedSoFar, FreshId
<1>3. CASE Preview \/ DatabaseLoss
  BY <1>3, PreviewKeepsCInv
<1>4. CASE Next /\ ~(Preview \/ DatabaseLoss)
  BY <1>1, <1>4, CommandsKeepApplied, CommandsKeepFreshId DEF CInv, Next
<1> QED BY <1>2, <1>3, <1>4

(* A known transaction changes, without being lost, only by its mark. *)
LEMMA OnlyMarkChanges ==
  ASSUME CInv, Next, NEW t \in Known, txs'[t] # txs[t], txs'[t] # Absent
  PROVE  t = cur /\ Mark
<1>1. CASE Mark
  BY <1>1, MarkKeepsKnown DEF CInv
<1>2. CASE Save
  <2>1. nextId \in Nat /\ t # nextId
    BY DEF CInv, FreshId, TInv, TypeOK
  <2> QED BY <1>2, <2>1 DEF Save, CInv, TInv, TypeOK
<1>3. CASE DatabaseLoss
  BY <1>3 DEF DatabaseLoss
<1> QED BY <1>1, <1>2, <1>3, TransactionsStay

(* A transaction is marked committed only over its own result, whatever     *)
(* crashes, recoveries, rollbacks and lost databases came before.           *)
THEOREM CommitsApply == Spec => CommittedMeansApplied
<1>1. CInv /\ [Next]_vars =>
        [\A t \in Known : txs'[t] # txs[t] /\ txs'[t] # Absent =>
           \A f \in FilesOf(t) \ touched :
             real[f] = txs[t].after[f] /\ mirror[f] = real[f]]_vars
  <2> SUFFICES ASSUME CInv, Next, NEW t \in Known, txs'[t] # txs[t], txs'[t] # Absent,
                      NEW f \in FilesOf(t) \ touched
               PROVE  real[f] = txs[t].after[f] /\ mirror[f] = real[f]
    BY DEF vars
  <2>1. t = cur /\ Mark
    BY OnlyMarkChanges
  <2>2. op \in {"sealed", "reconcile"} /\ todo = {}
    BY <2>1 DEF Mark, CInv, PhaseFitsJob
  <2>3. op = "reconcile" => mirror[f] = txs[cur].after[f]
    BY <2>1 DEF Mark, Reproduced
  <2> QED BY <2>1, <2>2, <2>3 DEF CInv, AppliedSoFar
<1> QED BY InitCInv, NextKeepsCInv, <1>1, PTL DEF Spec, CommittedMeansApplied

(***************************************************************************)
(* What the revision of a commit shows                                     *)
(***************************************************************************)

(* A plan changes each of its files. *)
EditsChange ==
    /\ draft # NoDraft /\ draft.stage = "planned" =>
         /\ DOMAIN draft.before = DOMAIN draft.after
         /\ \A f \in DOMAIN draft.after : draft.before[f] # draft.after[f]
    /\ \A t \in Known : \A f \in FilesOf(t) : txs[t].before[f] # txs[t].after[f]

(* A mirror that is no longer what it was at the preview has been written   *)
(* with its row, and so have the files a commit has behind it.              *)
RowsFollowMirrors ==
    /\ \A t \in Known : \A f \in txs[t].proj :
         mirror[f] = txs[t].before[f] \/ row[f] = mirror[f]
    /\ op \in {"commit", "sealed"} => \A f \in FilesOf(cur) \ todo : row[f] = mirror[f]

(* What row and mirror say of a file was indexed before the mark. *)
MarkIsIndexed ==
    pc = "mark" /\ ~failed =>
      \A f \in FilesOf(cur) \ touched :
        row[f] = mirror[f] /\ mirror[f] = txs[cur].after[f] => doc[f] = txs[cur].after[f]

VInv == EditsChange /\ RowsFollowMirrors /\ MarkIsIndexed

(* The workspace starts with no draft and no transaction. *)
LEMMA InitVInv == Init => VInv
BY DEF Init, NoJob, VInv, EditsChange, RowsFollowMirrors, MarkIsIndexed

(* The transactions change by a preview that is saved, the mark of the one  *)
(* at hand, and the loss of the database.                                   *)
LEMMA TransactionsStand ==
  ASSUME TInv, [Next]_vars, ~Save, ~DatabaseLoss
  PROVE  /\ Known' \subseteq Known
         /\ \A t \in Known : /\ txs'[t].before = txs[t].before /\ txs'[t].after = txs[t].after
                             /\ txs'[t].proj = txs[t].proj
<1>1. CASE Mark
  <2>1. cur \in Known /\ \A t \in Ids : t # cur => txs'[t] = txs[t]
    BY <1>1, MarkKeepsKnown
  <2>2. PICK S \in SUBSET Files : txs[cur] \in Txs(S)
    BY <2>1 DEF TInv, TypeOK
  <2>3. DOMAIN txs = Ids
    BY DEF TInv, TypeOK
  <2>4. /\ txs'[cur].before = txs[cur].before /\ txs'[cur].after = txs[cur].after
        /\ txs'[cur].proj = txs[cur].proj
    BY <1>1, <2>1, <2>2, <2>3 DEF Mark, Txs
  <2> QED BY <2>1, <2>4
<1>2. CASE ~Mark
  BY <1>2, TransactionsStay
<1> QED BY <1>1, <1>2

(* Whatever writes a mirror writes its row with it. *)
LEMMA RowsMoveWithMirrors ==
  ASSUME TInv, [Next]_vars, ~DatabaseLoss, NEW f \in Files
  PROVE  row'[f] = mirror'[f] \/ (row'[f] = row[f] /\ mirror'[f] = mirror[f])
<1>1. row \in [Files -> Blob] /\ mirror \in [Files -> Blob]
  BY DEF TInv, TypeOK
<1>2. CASE \E g \in Files : ApplyWrite(g) \/ Undo(g)
  BY <1>1, <1>2 DEF ApplyWrite, Undo, Drive
<1>3. CASE LexicalPass
  BY <1>3 DEF LexicalPass, Lexical
<1>4. CASE \E back, forced \in BOOLEAN : Recover(back, forced)
  BY <1>4 DEF Recover
<1>5. CASE ~((\E g \in Files : ApplyWrite(g) \/ Undo(g)) \/ LexicalPass
              \/ \E back, forced \in BOOLEAN : Recover(back, forced))
  BY <1>5 DEF Next, Preview, ReadCode, Capture, Locate, Plan, Save, GiveUp, StartCommit,
     StartReconcile, AnswerCommit, Step, StartSync, Die, DevEdit, ApplyDone, ApplyFails,
     CheckPasses, CheckFails, UndoDone, SealRolledBack, Mark, MarkRefused, SemanticIndex, vars
<1> QED BY <1>2, <1>3, <1>4, <1>5

(* A plan changes each of its files, and is saved as it is. *)
LEMMA NextKeepsEditsChange ==
  ASSUME TInv, TInv', EditsChange, [Next]_vars
  PROVE  EditsChange'
<1>1. ASSUME draft' # NoDraft, draft'.stage = "planned"
      PROVE  /\ DOMAIN draft'.before = DOMAIN draft'.after
             /\ \A f \in DOMAIN draft'.after : draft'.before[f] # draft'.after[f]
  <2>1. CASE \E S \in SUBSET Files : \E after \in [S -> Contents] : Plan(after)
    BY <2>1 DEF Plan
  <2>2. CASE draft' = draft
    BY <1>1, <2>2 DEF EditsChange
  <2>3. CASE Capture \/ Locate \/ \E S \in SUBSET Files : \E f \in S : ReadCode(f, S)
    <3>1. draft'.stage # "planned"
      <4>1. CASE Capture
        <5>1. PICK S \in SUBSET Files : draft \in Drafts(S)
          BY <4>1 DEF Capture, TInv, TypeOK, NoDraft
        <5> QED BY <4>1, <5>1 DEF Capture, Drafts
      <4>2. CASE Locate
        <5>0. draft # NoDraft
          BY <4>2 DEF Locate, NoDraft
        <5>1. PICK S \in SUBSET Files : draft \in Drafts(S)
          BY <5>0 DEF TInv, TypeOK
        <5> QED BY <4>2, <5>1 DEF Locate, Drafts
      <4>3. CASE \E S \in SUBSET Files : \E f \in S : ReadCode(f, S)
        BY <4>3 DEF ReadCode
      <4> QED BY <2>3, <4>1, <4>2, <4>3
    <3> QED BY <1>1, <3>1
  <2>4. CASE draft' = NoDraft
    BY <1>1, <2>4
  <2> QED
    BY <2>1, <2>2, <2>3, <2>4
    DEF Next, Preview, Save, GiveUp, StartCommit, StartReconcile, AnswerCommit, Step, StartSync,
        Die, Recover, DevEdit, DatabaseLoss, ApplyWrite, Undo, ApplyDone, ApplyFails, CheckPasses,
        CheckFails, UndoDone, SealRolledBack, Mark, MarkRefused, SemanticIndex, LexicalPass,
        Lexical, vars
<1>2. ASSUME NEW t \in Known', NEW f \in FilesOf(t)'
      PROVE  txs'[t].before[f] # txs'[t].after[f]
  <2>1. CASE Save
    <3>1. draft # NoDraft /\ draft.stage = "planned"
      BY <2>1 DEF Save, NoDraft
    <3>2. CASE t = nextId
      <4>1. txs'[t].before = draft.before /\ txs'[t].after = draft.after
        BY <2>1, <3>2 DEF Save, TInv, TypeOK
      <4> QED BY <1>2, <3>1, <4>1 DEF EditsChange
    <3>3. CASE t # nextId
      <4>1. txs'[t] = txs[t]
        BY <2>1, <3>3 DEF Save, TInv, TypeOK
      <4> QED BY <1>2, <4>1 DEF EditsChange
    <3> QED BY <3>2, <3>3
  <2>2. CASE DatabaseLoss
    BY <1>2, <2>2 DEF DatabaseLoss
  <2>3. CASE ~Save /\ ~DatabaseLoss
    BY <1>2, <2>3, TransactionsStand DEF EditsChange
  <2> QED BY <2>1, <2>2, <2>3
<1> QED BY <1>1, <1>2 DEF EditsChange

(* Rows follow the mirrors that commits and passes write. *)
LEMMA NextKeepsRows ==
  ASSUME CInv, TInv', RowsFollowMirrors, [Next]_vars
  PROVE  RowsFollowMirrors'
<1>0. TInv
  BY DEF CInv
<1>1. ASSUME NEW t \in Known', NEW f \in txs'[t].proj
      PROVE  mirror'[f] = txs'[t].before[f] \/ row'[f] = mirror'[f]
  <2>1. CASE Save
    <3>1. mirror' = mirror /\ row' = row
      BY <2>1 DEF Save
    <3>2. CASE t = nextId
      <4>1. txs'[t].before = draft.before /\ txs'[t].proj = RenderedFrom(draft.before)
        BY <1>0, <2>1, <3>2 DEF Save, TInv, TypeOK
      <4> QED BY <1>1, <3>1, <4>1 DEF RenderedFrom
    <3>3. CASE t # nextId
      <4>1. txs'[t] = txs[t]
        BY <1>0, <2>1, <3>3 DEF Save, TInv, TypeOK
      <4> QED BY <1>1, <3>1, <4>1 DEF RowsFollowMirrors
    <3> QED BY <3>2, <3>3
  <2>2. CASE DatabaseLoss
    BY <1>1, <2>2 DEF DatabaseLoss
  <2>3. CASE ~Save /\ ~DatabaseLoss
    <3>1. t \in Known /\ txs'[t].before = txs[t].before /\ f \in txs[t].proj
      BY <1>0, <1>1, <2>3, TransactionsStand
    <3>2. f \in Files
      BY <1>0, <3>1 DEF TInv, TypeOK, Txs
    <3> QED BY <1>0, <2>3, <3>1, <3>2, RowsMoveWithMirrors DEF RowsFollowMirrors
  <2> QED BY <2>1, <2>2, <2>3
<1>2. ASSUME op' \in {"commit", "sealed"}, NEW f \in (FilesOf(cur) \ todo)'
      PROVE  row'[f] = mirror'[f]
  <2>1. ~Save /\ ~DatabaseLoss /\ ~Mark
    BY <1>0, <1>2 DEF TInv, WorksOnKnown, Save, DatabaseLoss, Mark, Release
  <2>2. cur' \in Known' /\ cur' \in Known /\ txs' = txs
    BY <1>0, <1>2, <2>1, TransactionsStand, TransactionsStay DEF TInv, WorksOnKnown
  <2>3. f \in Files
    BY <1>0, <1>2, <2>2, TxShape DEF TInv
  <2>4. CASE \E t \in Ids : StartCommit(t)
    BY <1>2, <2>2, <2>4 DEF StartCommit
  <2>5. CASE \E g \in Files : ApplyWrite(g)
    <3>1. PICK g \in Files : ApplyWrite(g)
      BY <2>5
    <3>2. op = "commit" /\ cur' = cur /\ todo' = todo \ {g}
      BY <3>1 DEF ApplyWrite, CInv, PhaseFitsJob
    <3>3. CASE f = g
      BY <1>0, <3>1, <3>3 DEF ApplyWrite, Drive, TInv, TypeOK
    <3>4. CASE f # g
      BY <1>0, <1>2, <2>1, <2>2, <2>3, <3>2, <3>4, RowsMoveWithMirrors DEF RowsFollowMirrors
    <3> QED BY <3>3, <3>4
  <2>6. CASE ~(\E t \in Ids : StartCommit(t)) /\ ~\E g \in Files : ApplyWrite(g)
    <3>1. op \in {"commit", "sealed"} /\ cur' = cur /\ todo' = todo
      <4>1. CASE CheckPasses
        BY <4>1 DEF CheckPasses, CInv, PhaseFitsJob
      <4>2. CASE SemanticIndex
        BY <1>2, <4>2 DEF SemanticIndex, Release
      <4>3. CASE ~CheckPasses /\ ~SemanticIndex
        BY <1>2, <2>1, <2>6, <4>3
        DEF Next, Preview, ReadCode, Capture, Locate, Plan, GiveUp, StartReconcile, AnswerCommit,
            Step, StartSync, Die, Recover, DevEdit, Undo, ApplyDone, ApplyFails, CheckFails,
            UndoDone, SealRolledBack, MarkRefused, LexicalPass, Lexical, Release, vars
      <4> QED BY <4>1, <4>2, <4>3
    <3> QED BY <1>0, <1>2, <2>1, <2>2, <2>3, <3>1, RowsMoveWithMirrors DEF RowsFollowMirrors
  <2> QED BY <2>4, <2>5, <2>6
<1> QED BY <1>1, <1>2 DEF RowsFollowMirrors

(* The index shows what it read, up to the mark. *)
LEMMA NextKeepsMarkIsIndexed ==
  ASSUME CInv, TInv', VInv, [Next]_vars
  PROVE  MarkIsIndexed'
<1>0. TInv
  BY DEF CInv
<1>1. SUFFICES ASSUME pc' = "mark", ~failed', NEW f \in (FilesOf(cur) \ touched)',
                      row'[f] = mirror'[f], mirror'[f] = txs'[cur'].after[f]
               PROVE  doc'[f] = txs'[cur'].after[f]
  BY DEF MarkIsIndexed
<1>2. CASE SemanticIndex
  <2>1. /\ pc = "index" /\ op \in {"sealed", "reconcile"}
        /\ UNCHANGED <<real, row, mirror, txs, op, cur, todo, touched>>
    BY <1>1, <1>2 DEF SemanticIndex, AfterIndex, Release
  <2>2. cur \in Known /\ todo = {} /\ f \in FilesOf(cur) \ touched
    BY <1>0, <1>1, <2>1 DEF TInv, WorksOnKnown, CInv, PhaseFitsJob
  <2>3. f \in Files /\ txs[cur].after[f] \in Contents /\ real[f] = txs[cur].after[f]
    BY <1>0, <2>1, <2>2, TxShape DEF TInv, CInv, AppliedSoFar
  <2>4. row[f] = txs[cur].after[f] /\ row[f] # Absent /\ real[f] # Absent
    BY <1>1, <2>1, <2>3, ContentsAssumption
  <2>5. AfterIndex # "idle"
    BY <2>1 DEF AfterIndex
  <2>6. PICK parsed : /\ parsed = Outdated
                      /\ doc' = [g \in Files |-> IF g \in parsed THEN real[g]
                                                ELSE IF g \in Gone THEN Absent ELSE doc[g]]
    BY <1>1, <1>2, <2>5 DEF SemanticIndex
  <2> QED BY <2>1, <2>3, <2>4, <2>6 DEF Outdated, Gone
<1>3. CASE ~SemanticIndex
  <2>1. /\ pc = "mark" /\ ~failed /\ touched \subseteq touched'
        /\ UNCHANGED <<cur, row, mirror, doc, txs>>
    BY <1>1, <1>3
    DEF Next, Preview, ReadCode, Capture, Locate, Plan, Save, GiveUp, StartCommit, StartReconcile,
        AnswerCommit, Step, StartSync, Die, Recover, DevEdit, DatabaseLoss, ApplyWrite, Undo,
        ApplyDone, ApplyFails, CheckPasses, CheckFails, UndoDone, SealRolledBack, Mark,
        MarkRefused, LexicalPass, Lexical, Release, vars
  <2> QED BY <1>1, <2>1 DEF VInv, MarkIsIndexed
<1> QED BY <1>2, <1>3

(* The revision a commit answers with names an index that shows its edit,   *)
(* whatever crashes, recoveries and lost databases came before.             *)
THEOREM CommitsShow == Spec => CommittedRevisionShowsEdit
<1>1. CInv /\ VInv /\ CInv' /\ [Next]_vars => VInv'
  BY NextKeepsEditsChange, NextKeepsRows, NextKeepsMarkIsIndexed DEF CInv, VInv
<1>2. CInv /\ VInv /\ [Next]_vars =>
        [\A t \in Known : txs'[t] # txs[t] /\ txs'[t] # Absent /\ ~failed =>
           \A f \in FilesOf(t) \ touched : doc[f] = txs[t].after[f]]_vars
  <2> SUFFICES ASSUME CInv, VInv, Next, NEW t \in Known, txs'[t] # txs[t], txs'[t] # Absent,
                      ~failed, NEW f \in FilesOf(t) \ touched
               PROVE  doc[f] = txs[t].after[f]
    BY DEF vars
  <2>1. t = cur /\ Mark
    BY OnlyMarkChanges
  <2>2. op \in {"sealed", "reconcile"} /\ todo = {} /\ pc = "mark"
    BY <2>1 DEF Mark, CInv, PhaseFitsJob
  <2>3. mirror[f] = txs[cur].after[f] /\ row[f] = mirror[f]
    <3>1. CASE op = "sealed"
      BY <2>1, <2>2, <3>1 DEF CInv, AppliedSoFar, VInv, RowsFollowMirrors
    <3>2. CASE op = "reconcile"
      BY <2>1, <2>2, <3>2 DEF Mark, Reproduced, VInv, EditsChange, RowsFollowMirrors
    <3> QED BY <2>2, <3>1, <3>2
  <2> QED BY <2>1, <2>2, <2>3 DEF VInv, MarkIsIndexed
<1> QED BY InitCInv, NextKeepsCInv, InitVInv, <1>1, <1>2, PTL DEF Spec, CommittedRevisionShowsEdit
=============================================================================
