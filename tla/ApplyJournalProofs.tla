------------------------- MODULE ApplyJournalProofs -------------------------
(***************************************************************************)
(* ApplyJournal for every set of files and contents, every number of       *)
(* entries, deaths, faults and outside edits, in three parts: the journal  *)
(* and the locks; what a failed or interrupted apply leaves in the real    *)
(* files; and the refinement of AtomicApply.                               *)
(***************************************************************************)
EXTENDS ApplyJournal, FiniteSetTheorems, TLAPS

(* The groups of variables that UNCHANGED names are always expanded. *)
USE DEF files, journal, marks, durable, job, mode, scan, volatile, writes,
        history, Ids, Applying, Terminal

(* A plan has the same files before and after, and contents for each. *)
LEMMA PlanShape ==
  ASSUME NEW p \in Plans
  PROVE  /\ DOMAIN p.after \subseteq Files
         /\ DOMAIN p.before = DOMAIN p.after
         /\ \A f \in DOMAIN p.after : p.after[f] \in Blob /\ p.before[f] \in Blob
  BY DEF Plans

(* Snapshots of the same files make a plan. *)
LEMMA PlannedIsPlan ==
  ASSUME NEW S \in SUBSET Files, NEW b \in [S -> Blob], NEW a \in [S -> Blob]
  PROVE  LET p == [before |-> b, after |-> a] IN p \in Plans /\ DOMAIN p.after = S
  BY DEF Plans

LEMMA NoPlanIsPlan == NoPlan \in Plans /\ DOMAIN NoPlan.after = {}
<1>1. [f \in {} |-> Absent] \in [{} -> Blob]
  OBVIOUS
<1>2. NoPlan \in [before : [{} -> Blob], after : [{} -> Blob]]
  BY <1>1 DEF NoPlan
<1> QED BY <1>2 DEF Plans, NoPlan

(* Both kinds of initial workspace satisfy the invariant.  *)
LEMMA InitIInv == Init => IInv
<1> SUFFICES ASSUME Init PROVE IInv
  OBVIOUS
<1>1. pending \in [Ids -> Plans] /\ real \in [Files -> Blob]
  <2>1. CASE InitFresh
    BY <2>1, NoPlanIsPlan DEF InitFresh
  <2>2. CASE InitLegacy
    <3>1. PICK S \in (SUBSET Files) \ {{}} : \E b, a \in [S -> Blob] : Torn(S, b, a)
      BY <2>2 DEF InitLegacy
    <3>2. PICK b \in [S -> Blob] : \E a \in [S -> Blob] : Torn(S, b, a)
      BY <3>1
    <3>3. PICK a \in [S -> Blob] : Torn(S, b, a)
      BY <3>2
    <3>4. [before |-> b, after |-> a] \in Plans
      BY PlannedIsPlan
    <3> QED BY <2>2, <3>3, <3>4, NoPlanIsPlan DEF InitLegacy, Torn
  <2> QED BY <2>1, <2>2 DEF Init
<1>2. /\ nextId \in {1, 2} /\ begun \subseteq {1}
      /\ nextId = 1 => begun = {}
      /\ status = [i \in Ids |-> IF nextId = 2 /\ i = 1 THEN "applying" ELSE "none"]
  <2>1. CASE InitFresh
    BY <2>1 DEF InitFresh
  <2>2. CASE InitLegacy
    BY <2>2 DEF InitLegacy
  <2> QED BY <2>1, <2>2 DEF Init
<1>3. TypeOK
  <2>1. status \in [Ids -> Statuses]
    BY <1>2 DEF Statuses
  <2>2. nextId \in 1..(MaxEntries + 1) /\ begun \subseteq Ids /\ 0 \in 0..MaxMishaps
    BY <1>2, BoundsAssumption
  <2> QED BY <1>1, <2>1, <2>2, NoPlanIsPlan DEF Init, TypeOK
<1>4. MarkerNamesEntry /\ TornApplyIsMarked /\ OneMarkedApply
  BY <1>2 DEF Init, MarkerNamesEntry, TornApplyIsMarked, OneMarkedApply
<1>5. IdsFresh
  BY <1>2, BoundsAssumption DEF Init, IdsFresh
<1>6. FilesDriven /\ KindAtPc /\ MarkersAtPc /\ EntryAtPc /\ DrivenAtPc
  BY NoPlanIsPlan DEF Init, FilesDriven, KindAtPc, MarkersAtPc, EntryAtPc, DrivenAtPc
<1> QED BY <1>3, <1>4, <1>5, <1>6 DEF IInv

(* An operation that returns, fails or is killed without writing anything   *)
(* leaves a workspace the next one may start from.                          *)
LEMMA ReleaseKeepsIInv ==
  ASSUME IInv, Release, UNCHANGED <<durable, writes>>, mishaps' \in 0..MaxMishaps
  PROVE  IInv'
<1>1. TypeOK'
  BY NoPlanIsPlan DEF IInv, TypeOK, Release
<1>2. MarkerNamesEntry' /\ TornApplyIsMarked' /\ OneMarkedApply' /\ IdsFresh'
  BY DEF IInv, MarkerNamesEntry, TornApplyIsMarked, OneMarkedApply, IdsFresh
<1>3. FilesDriven' /\ KindAtPc' /\ MarkersAtPc' /\ EntryAtPc' /\ DrivenAtPc'
  BY DEF IInv, Release, FilesDriven, KindAtPc, MarkersAtPc, EntryAtPc, DrivenAtPc
<1> QED BY <1>1, <1>2, <1>3 DEF IInv

(* The reindex of one file keeps the type of the index.  *)
LEMMA RefreshTypes ==
  ASSUME TypeOK, NEW f \in Files, Refreshed(f)
  PROVE  indexed' \in [Files -> Blob]
BY DEF TypeOK, Refreshed, Blob

(* Every step keeps the invariant. *)
LEMMA StepKeepsIInv == IInv /\ [Next]_vars => IInv'
<1> SUFFICES ASSUME IInv, [Next]_vars PROVE IInv'
  OBVIOUS
<1>1. ASSUME NEW k \in {"apply", "sync"}, Start(k)
      PROVE  IInv'
  <2>1. TypeOK'
    BY <1>1, BoundsAssumption DEF IInv, TypeOK, Start, Statuses
  <2>2. FilesDriven'
    BY <1>1, PlanShape DEF IInv, TypeOK, FilesDriven, Start, KindAtPc
  <2>3. MarkerNamesEntry' /\ TornApplyIsMarked' /\ OneMarkedApply' /\
       IdsFresh' /\ KindAtPc' /\ MarkersAtPc' /\ EntryAtPc' /\
       DrivenAtPc'
    BY <1>1
       DEF IInv, TypeOK, MarkerNamesEntry, Start, TornApplyIsMarked,
           OneMarkedApply, IdsFresh, KindAtPc, MarkersAtPc, EntryAtPc,
           DrivenAtPc
  <2> QED
    BY <2>1, <2>2, <2>3 DEF IInv
<1>2. CASE StartRecover
  <2>1. TypeOK'
    BY <1>2, BoundsAssumption DEF IInv, TypeOK, StartRecover, Statuses
  <2>2. FilesDriven'
    BY <1>2, PlanShape DEF IInv, TypeOK, FilesDriven, StartRecover, KindAtPc
  <2>3. MarkerNamesEntry' /\ TornApplyIsMarked' /\ OneMarkedApply' /\
       IdsFresh' /\ KindAtPc' /\ MarkersAtPc' /\ EntryAtPc' /\
       DrivenAtPc'
    BY <1>2
       DEF IInv, TypeOK, MarkerNamesEntry, StartRecover, TornApplyIsMarked,
           OneMarkedApply, IdsFresh, KindAtPc, MarkersAtPc, EntryAtPc,
           DrivenAtPc
  <2> QED
    BY <2>1, <2>2, <2>3 DEF IInv
<1>3. CASE NoopWrite
  <2>1. TypeOK'
    BY <1>3, BoundsAssumption DEF IInv, TypeOK, NoopWrite, Statuses
  <2>2. EntryAtPc'
    BY <1>3 DEF IInv, TypeOK, EntryAtPc, NoopWrite, IdsFresh
  <2>3. MarkerNamesEntry' /\ TornApplyIsMarked' /\ OneMarkedApply' /\
       IdsFresh' /\ FilesDriven' /\ KindAtPc' /\ MarkersAtPc' /\
       DrivenAtPc'
    BY <1>3
       DEF IInv, TypeOK, MarkerNamesEntry, NoopWrite, TornApplyIsMarked,
           OneMarkedApply, IdsFresh, FilesDriven, KindAtPc, MarkersAtPc,
           DrivenAtPc
  <2> QED
    BY <2>1, <2>2, <2>3 DEF IInv
<1>4. ASSUME NEW i \in Ids, HealMarker(i)
      PROVE  IInv'
  <2>1. TypeOK'
    BY <1>4, BoundsAssumption DEF IInv, TypeOK, HealMarker, Stale, Statuses
  <2>2. MarkerNamesEntry' /\ TornApplyIsMarked' /\ OneMarkedApply' /\
       IdsFresh' /\ FilesDriven' /\ KindAtPc' /\ MarkersAtPc' /\
       EntryAtPc' /\ DrivenAtPc'
    BY <1>4
       DEF IInv, TypeOK, MarkerNamesEntry, HealMarker, Stale, TornApplyIsMarked,
           OneMarkedApply, IdsFresh, FilesDriven, KindAtPc, MarkersAtPc,
           EntryAtPc, DrivenAtPc
  <2> QED
    BY <2>1, <2>2 DEF IInv
<1>5. CASE EnsurePasses
  <2>1. TypeOK'
    BY <1>5, BoundsAssumption DEF IInv, TypeOK, EnsurePasses, Clear, Statuses
  <2>2. MarkerNamesEntry' /\ TornApplyIsMarked' /\ OneMarkedApply' /\
       IdsFresh' /\ FilesDriven' /\ KindAtPc' /\ MarkersAtPc' /\
       EntryAtPc' /\ DrivenAtPc'
    BY <1>5
       DEF IInv, TypeOK, MarkerNamesEntry, EnsurePasses, Clear,
           TornApplyIsMarked, OneMarkedApply, IdsFresh, FilesDriven, KindAtPc,
           MarkersAtPc, EntryAtPc, DrivenAtPc
  <2> QED
    BY <2>1, <2>2 DEF IInv
<1>6. CASE Sync
  <2>1. TypeOK'
    BY <1>6, BoundsAssumption, PlanShape, NoPlanIsPlan
       DEF IInv, TypeOK, Sync, Release, Statuses
  <2>2. MarkerNamesEntry' /\ TornApplyIsMarked' /\ OneMarkedApply' /\
       IdsFresh' /\ FilesDriven' /\ KindAtPc' /\ MarkersAtPc' /\
       EntryAtPc' /\ DrivenAtPc'
    BY <1>6
       DEF IInv, TypeOK, MarkerNamesEntry, Sync, Release, TornApplyIsMarked,
           OneMarkedApply, IdsFresh, FilesDriven, KindAtPc, MarkersAtPc,
           EntryAtPc, DrivenAtPc
  <2> QED
    BY <2>1, <2>2 DEF IInv
<1>7. ASSUME NEW S \in (SUBSET Files) \ {{}}, NEW after \in [S -> Blob], Planned(S, after)
      PROVE  IInv'
  <2>1. plan' \in Plans /\ DOMAIN plan'.after = S
    <3>1. Snapshot(S) \in [S -> Blob]
      BY DEF IInv, TypeOK, Snapshot
    <3> QED BY <1>7, <3>1, PlannedIsPlan DEF Planned
  <2>2. TypeOK'
    BY <1>7, <2>1 DEF IInv, TypeOK, Planned, Statuses
  <2>3. FilesDriven'
    BY <1>7, <2>1 DEF IInv, TypeOK, KindAtPc, FilesDriven, Planned
  <2>4. MarkerNamesEntry' /\ TornApplyIsMarked' /\ OneMarkedApply' /\
       IdsFresh' /\ KindAtPc' /\ MarkersAtPc' /\ EntryAtPc' /\ DrivenAtPc'
    BY <1>7
       DEF IInv, TypeOK, MarkerNamesEntry, TornApplyIsMarked, Planned, OneMarkedApply, IdsFresh,
           KindAtPc, MarkersAtPc, EntryAtPc, DrivenAtPc
  <2> QED
    BY <2>1, <2>2, <2>3, <2>4 DEF IInv
<1>8. CASE PlanConflict
  <2>1. status' \in [Ids -> Statuses] /\ nextId' \in 1..(MaxEntries + 1)
    BY <1>8, BoundsAssumption DEF IInv, TypeOK, PlanConflict, Statuses
  <2>2. indexed' \in [Files -> Blob]
    BY <1>8, RefreshTypes DEF IInv, TypeOK, PlanConflict
  <2>4. TypeOK'
    BY <1>8, <2>1, <2>2, NoPlanIsPlan DEF IInv, TypeOK, PlanConflict, Release
  <2>3. MarkerNamesEntry' /\ TornApplyIsMarked' /\ OneMarkedApply' /\
       IdsFresh' /\ FilesDriven' /\ KindAtPc' /\ MarkersAtPc' /\ EntryAtPc'
       /\ DrivenAtPc'
    BY <1>8
       DEF IInv, TypeOK, MarkerNamesEntry, TornApplyIsMarked, PlanConflict, Release,
           OneMarkedApply, IdsFresh, FilesDriven, KindAtPc, MarkersAtPc,
           EntryAtPc, DrivenAtPc
  <2> QED
    BY <2>3, <2>4 DEF IInv
<1>9. CASE WriteIntent
  <2>1. TypeOK'
    BY <1>9, BoundsAssumption DEF IInv, TypeOK, WriteIntent, Statuses
  <2>2. TornApplyIsMarked'
    BY <1>9 DEF IInv, TypeOK, TornApplyIsMarked, WriteIntent, IdsFresh
  <2>3. OneMarkedApply'
    BY <1>9 DEF IInv, TypeOK, OneMarkedApply, WriteIntent, IdsFresh
  <2>4. EntryAtPc'
    BY <1>9 DEF IInv, TypeOK, EntryAtPc, WriteIntent, IdsFresh
  <2>5. MarkerNamesEntry' /\ IdsFresh' /\ FilesDriven' /\ KindAtPc' /\
       MarkersAtPc' /\ DrivenAtPc'
    BY <1>9
       DEF IInv, TypeOK, MarkerNamesEntry, WriteIntent, IdsFresh, FilesDriven,
           KindAtPc, MarkersAtPc, DrivenAtPc
  <2> QED
    BY <2>1, <2>2, <2>3, <2>4, <2>5 DEF IInv
<1>10. CASE WriteMarker
  <2>1. TypeOK'
    BY <1>10, BoundsAssumption, PlanShape
       DEF IInv, TypeOK, WriteMarker, EntryAtPc, Statuses
  <2>2. MarkerNamesEntry'
    BY <1>10 DEF IInv, TypeOK, MarkerNamesEntry, WriteMarker, EntryAtPc
  <2>3. OneMarkedApply'
    BY <1>10 DEF IInv, TypeOK, OneMarkedApply, WriteMarker, MarkersAtPc
  <2>4. IdsFresh'
    BY <1>10 DEF IInv, TypeOK, IdsFresh, WriteMarker, EntryAtPc
  <2>5. DrivenAtPc'
    BY <1>10, PlanShape DEF IInv, TypeOK, DrivenAtPc, WriteMarker, FilesDriven
  <2>6. TornApplyIsMarked' /\ FilesDriven' /\ KindAtPc' /\ MarkersAtPc' /\
       EntryAtPc'
    BY <1>10
       DEF IInv, TypeOK, TornApplyIsMarked, WriteMarker, FilesDriven, KindAtPc,
           MarkersAtPc, EntryAtPc
  <2> QED
    BY <2>1, <2>2, <2>3, <2>4, <2>5, <2>6 DEF IInv
<1>11. ASSUME NEW f \in Files, ApplyWrite(f)
      PROVE  IInv'
  <2>1. TypeOK'
    BY <1>11, BoundsAssumption, PlanShape
       DEF IInv, TypeOK, ApplyWrite, Target, FilesDriven, EntryAtPc, Statuses
  <2>2. TornApplyIsMarked'
    BY <1>11
       DEF IInv, TypeOK, TornApplyIsMarked, ApplyWrite, Target, MarkersAtPc
  <2>3. IdsFresh'
    BY <1>11 DEF IInv, TypeOK, IdsFresh, ApplyWrite, Target, MarkersAtPc
  <2>4. MarkerNamesEntry' /\ OneMarkedApply' /\ FilesDriven' /\ KindAtPc' /\
       MarkersAtPc' /\ EntryAtPc' /\ DrivenAtPc'
    BY <1>11
       DEF IInv, TypeOK, MarkerNamesEntry, ApplyWrite, Target, OneMarkedApply,
           FilesDriven, KindAtPc, MarkersAtPc, EntryAtPc, DrivenAtPc
  <2> QED
    BY <2>1, <2>2, <2>3, <2>4 DEF IInv
<1>12. ASSUME NEW f \in Files, Reindex(f)
      PROVE  IInv'
  <2>1. TypeOK'
    BY <1>12, BoundsAssumption, PlanShape
       DEF IInv, TypeOK, Reindex, Target, FilesDriven, Statuses
  <2>2. MarkerNamesEntry' /\ TornApplyIsMarked' /\ OneMarkedApply' /\
       IdsFresh' /\ FilesDriven' /\ KindAtPc' /\ MarkersAtPc' /\
       EntryAtPc' /\ DrivenAtPc'
    BY <1>12
       DEF IInv, TypeOK, MarkerNamesEntry, Reindex, Target, TornApplyIsMarked,
           OneMarkedApply, IdsFresh, FilesDriven, KindAtPc, MarkersAtPc,
           EntryAtPc, DrivenAtPc
  <2> QED
    BY <2>1, <2>2 DEF IInv
<1>13. CASE AllDriven
  <2>1. TypeOK'
    BY <1>13, BoundsAssumption DEF IInv, TypeOK, AllDriven, Complete, Statuses
  <2>2. MarkerNamesEntry' /\ TornApplyIsMarked' /\ OneMarkedApply' /\
       IdsFresh' /\ FilesDriven' /\ KindAtPc' /\ MarkersAtPc' /\
       EntryAtPc' /\ DrivenAtPc'
    BY <1>13
       DEF IInv, TypeOK, MarkerNamesEntry, AllDriven, Complete,
           TornApplyIsMarked, OneMarkedApply, IdsFresh, FilesDriven, KindAtPc,
           MarkersAtPc, EntryAtPc, DrivenAtPc
  <2> QED
    BY <2>1, <2>2 DEF IInv
<1>14. CASE Seal
  <2>1. TypeOK'
    BY <1>14, BoundsAssumption, PlanShape, NoPlanIsPlan
       DEF IInv, TypeOK, Seal, Statuses
  <2>2. IdsFresh'
    BY <1>14 DEF IInv, TypeOK, IdsFresh, Seal, EntryAtPc
  <2>3. MarkerNamesEntry' /\ TornApplyIsMarked' /\ OneMarkedApply' /\
       FilesDriven' /\ KindAtPc' /\ MarkersAtPc' /\ EntryAtPc' /\
       DrivenAtPc'
    BY <1>14
       DEF IInv, TypeOK, MarkerNamesEntry, Seal, TornApplyIsMarked,
           OneMarkedApply, FilesDriven, KindAtPc, MarkersAtPc, EntryAtPc,
           DrivenAtPc
  <2> QED
    BY <2>1, <2>2, <2>3 DEF IInv
<1>15. CASE Unmark
  <2>1. TypeOK'
    BY <1>15, BoundsAssumption, PlanShape, NoPlanIsPlan
       DEF IInv, TypeOK, Unmark, Release, Statuses
  <2>2. TornApplyIsMarked'
    BY <1>15 DEF IInv, TypeOK, TornApplyIsMarked, Unmark, Release, EntryAtPc
  <2>3. EntryAtPc'
    <3>1. CASE kind = "recover"
      <4>1. pc' = "scan" /\ cur' = 0 /\ queue' = queue /\ status' = status
        BY <1>15, <3>1 DEF Unmark, Release
      <4>2. 0 \notin Ids
        BY BoundsAssumption
      <4> QED BY <4>1, <4>2 DEF IInv, EntryAtPc
    <3>2. CASE kind # "recover" /\ goal = "forward"
      BY <1>15, <3>2 DEF IInv, TypeOK, Unmark, EntryAtPc, Release
    <3>3. CASE kind # "recover" /\ goal # "forward"
      BY <1>15, <3>3 DEF IInv, TypeOK, Unmark, EntryAtPc, Release
    <3> QED BY <3>1, <3>2, <3>3
  <2>4. MarkerNamesEntry' /\ OneMarkedApply' /\ IdsFresh' /\ FilesDriven' /\
       KindAtPc' /\ MarkersAtPc' /\ DrivenAtPc'
    BY <1>15
       DEF IInv, TypeOK, MarkerNamesEntry, Unmark, Release, OneMarkedApply,
           IdsFresh, FilesDriven, KindAtPc, MarkersAtPc, DrivenAtPc
  <2> QED
    BY <2>1, <2>2, <2>3, <2>4 DEF IInv
<1>16. CASE PruneOne
  <2>1. TypeOK'
    BY <1>16, BoundsAssumption DEF IInv, TypeOK, PruneOne, Oldest, Statuses
  <2>2. MarkerNamesEntry'
    BY <1>16 DEF IInv, TypeOK, MarkerNamesEntry, PruneOne, Oldest, MarkersAtPc
  <2>3. TornApplyIsMarked' /\ OneMarkedApply' /\ IdsFresh' /\ FilesDriven' /\
       KindAtPc' /\ MarkersAtPc' /\ EntryAtPc' /\ DrivenAtPc'
    BY <1>16
       DEF IInv, TypeOK, TornApplyIsMarked, PruneOne, Oldest, OneMarkedApply,
           IdsFresh, FilesDriven, KindAtPc, MarkersAtPc, EntryAtPc, DrivenAtPc
  <2> QED
    BY <2>1, <2>2, <2>3 DEF IInv
<1>17. CASE RecoverEntry
  <2>1. TypeOK'
    <3>1. PICK i \in Ids :
            /\ i \in queue /\ queue' = queue \ {i}
            /\ cur' = i /\ plan' = pending[i] /\ todo' = DOMAIN pending[i].after
      BY <1>17 DEF RecoverEntry, Oldest, Rest
    <3>2. pending[i] \in Plans
      BY <3>1 DEF IInv, TypeOK
    <3>3. DOMAIN pending[i].after \subseteq Files
      BY <3>2, PlanShape
    <3> QED BY <1>17, <3>1, <3>2, <3>3 DEF IInv, TypeOK, RecoverEntry
  <2>2. FilesDriven'
    BY <1>17, PlanShape
       DEF IInv, TypeOK, FilesDriven, RecoverEntry, Oldest, Rest, KindAtPc
  <2>3. MarkersAtPc'
    BY <1>17 DEF IInv, TypeOK, MarkersAtPc, RecoverEntry, Oldest, Rest, KindAtPc
  <2>4. EntryAtPc'
    BY <1>17 DEF IInv, TypeOK, EntryAtPc, RecoverEntry, Oldest, Rest, IdsFresh
  <2>5. DrivenAtPc'
    BY <1>17, PlanShape
       DEF IInv, TypeOK, DrivenAtPc, RecoverEntry, Oldest, Rest, FilesDriven
  <2>6. MarkerNamesEntry' /\ TornApplyIsMarked' /\ OneMarkedApply' /\
       IdsFresh' /\ KindAtPc'
    BY <1>17
       DEF IInv, TypeOK, MarkerNamesEntry, RecoverEntry, Oldest, Rest,
           TornApplyIsMarked, OneMarkedApply, IdsFresh, KindAtPc
  <2> QED
    BY <2>1, <2>2, <2>3, <2>4, <2>5, <2>6 DEF IInv
<1>18. CASE LeaveApplying
  <2>1. TypeOK'
    BY <1>18, BoundsAssumption DEF IInv, TypeOK, LeaveApplying, Statuses
  <2>2. MarkerNamesEntry' /\ TornApplyIsMarked' /\ OneMarkedApply' /\
       IdsFresh' /\ FilesDriven' /\ KindAtPc' /\ MarkersAtPc' /\
       EntryAtPc' /\ DrivenAtPc'
    BY <1>18
       DEF IInv, TypeOK, MarkerNamesEntry, LeaveApplying, TornApplyIsMarked,
           OneMarkedApply, IdsFresh, FilesDriven, KindAtPc, MarkersAtPc,
           EntryAtPc, DrivenAtPc
  <2> QED
    BY <2>1, <2>2 DEF IInv
<1>19. ASSUME NEW f \in Files, RecoverCheck(f)
      PROVE  IInv'
  <2>1. TypeOK'
    BY <1>19, BoundsAssumption, PlanShape
       DEF IInv, TypeOK, RecoverCheck, MayDrive, Fresh, EntryAtPc, Statuses
  <2>2. DrivenAtPc'
    BY <1>19, PlanShape
       DEF IInv, TypeOK, DrivenAtPc, RecoverCheck, MayDrive, Fresh, FilesDriven
  <2>3. MarkerNamesEntry' /\ TornApplyIsMarked' /\ OneMarkedApply' /\
       IdsFresh' /\ FilesDriven' /\ KindAtPc' /\ MarkersAtPc' /\
       EntryAtPc'
    BY <1>19
       DEF IInv, TypeOK, MarkerNamesEntry, RecoverCheck, MayDrive, Fresh,
           TornApplyIsMarked, OneMarkedApply, IdsFresh, FilesDriven, KindAtPc,
           MarkersAtPc, EntryAtPc
  <2> QED
    BY <2>1, <2>2, <2>3 DEF IInv
<1>20. ASSUME NEW f \in Files, RecoverWrite(f)
      PROVE  IInv'
  <2>1. TypeOK'
    BY <1>20, BoundsAssumption, PlanShape
       DEF IInv, TypeOK, RecoverWrite, Target, FilesDriven, EntryAtPc, Statuses
  <2>2. MarkersAtPc'
    BY <1>20 DEF IInv, TypeOK, MarkersAtPc, RecoverWrite, Target, KindAtPc
  <2>3. DrivenAtPc'
    BY <1>20, PlanShape
       DEF IInv, TypeOK, DrivenAtPc, RecoverWrite, Target, FilesDriven
  <2>4. MarkerNamesEntry' /\ TornApplyIsMarked' /\ OneMarkedApply' /\
       IdsFresh' /\ FilesDriven' /\ KindAtPc' /\ EntryAtPc'
    BY <1>20
       DEF IInv, TypeOK, MarkerNamesEntry, RecoverWrite, Target,
           TornApplyIsMarked, OneMarkedApply, IdsFresh, FilesDriven, KindAtPc,
           EntryAtPc
  <2> QED
    BY <2>1, <2>2, <2>3, <2>4 DEF IInv
<1>21. CASE ReindexFindsNothing
  <2>1. TypeOK'
    BY <1>21, BoundsAssumption, PlanShape, NoPlanIsPlan
       DEF IInv, TypeOK, ReindexFindsNothing, Release, Undo, UndoList, Target,
           Statuses
  <2>2. OneMarkedApply'
    BY <1>21, BoundsAssumption, PlanShape, NoPlanIsPlan
       DEF IInv, TypeOK, OneMarkedApply, ReindexFindsNothing, Release, Undo,
           UndoList, Target, EntryAtPc, FilesDriven, KindAtPc
  <2>3. MarkerNamesEntry' /\ TornApplyIsMarked' /\ IdsFresh'
    BY <1>21
       DEF IInv, MarkerNamesEntry, TornApplyIsMarked, IdsFresh,
           ReindexFindsNothing, Release, Undo
  <2>4. CASE Undo
    BY <1>21, <2>1, <2>2, <2>3, <2>4
       DEF IInv, TypeOK, Undo, UndoList, ReindexFindsNothing, FilesDriven,
           KindAtPc, MarkersAtPc, EntryAtPc, DrivenAtPc
  <2>5. CASE Release /\ UNCHANGED <<durable, mishaps, writes>>
    BY <2>5, ReleaseKeepsIInv DEF IInv, TypeOK
  <2> QED
    BY <1>21, <2>4, <2>5 DEF ReindexFindsNothing
<1>22. CASE ApplyFails
  <2>1. TypeOK'
    BY <1>22, BoundsAssumption
       DEF IInv, TypeOK, ApplyFails, Undo, UndoList, Mishap, Statuses
  <2>2. MarkerNamesEntry' /\ TornApplyIsMarked' /\ OneMarkedApply' /\
       IdsFresh' /\ FilesDriven' /\ KindAtPc' /\ MarkersAtPc' /\
       EntryAtPc' /\ DrivenAtPc'
    BY <1>22
       DEF IInv, TypeOK, MarkerNamesEntry, ApplyFails, Undo, UndoList, Mishap,
           TornApplyIsMarked, OneMarkedApply, IdsFresh, FilesDriven, KindAtPc,
           MarkersAtPc, EntryAtPc, DrivenAtPc
  <2> QED
    BY <2>1, <2>2 DEF IInv
<1>23. ASSUME NEW f \in Files, NEW c \in Blob, OutsideEdit(f, c)
      PROVE  IInv'
  <2>1. TypeOK'
    BY <1>23, BoundsAssumption DEF IInv, TypeOK, OutsideEdit, Mishap, Statuses
  <2>2. DrivenAtPc'
    BY <1>23, PlanShape
       DEF IInv, TypeOK, DrivenAtPc, OutsideEdit, Mishap, Target, FilesDriven,
           KindAtPc
  <2>3. MarkerNamesEntry' /\ TornApplyIsMarked' /\ OneMarkedApply' /\
       IdsFresh' /\ FilesDriven' /\ KindAtPc' /\ MarkersAtPc' /\
       EntryAtPc'
    BY <1>23
       DEF IInv, TypeOK, MarkerNamesEntry, OutsideEdit, Mishap,
           TornApplyIsMarked, OneMarkedApply, IdsFresh, FilesDriven, KindAtPc,
           MarkersAtPc, EntryAtPc
  <2> QED
    BY <2>1, <2>2, <2>3 DEF IInv
<1>24. CASE EnsureRefuses
  BY <1>24, ReleaseKeepsIInv DEF EnsureRefuses, IInv, TypeOK
<1>25. CASE PlanBails
  BY <1>25, ReleaseKeepsIInv DEF PlanBails, IInv, TypeOK
<1>26. CASE PruneDone
  BY <1>26, ReleaseKeepsIInv DEF PruneDone, IInv, TypeOK
<1>27. CASE RecoverDone
  BY <1>27, ReleaseKeepsIInv DEF RecoverDone, IInv, TypeOK
<1>28. CASE Die
  BY <1>28, ReleaseKeepsIInv, BoundsAssumption DEF Die, Mishap, IInv, TypeOK
<1>29. ASSUME NEW f \in Files, RefreshBaseline(f)
      PROVE  IInv'
  <2>1. TypeOK'
    BY <1>29, RefreshTypes DEF IInv, TypeOK, RefreshBaseline
  <2>2. MarkerNamesEntry' /\ TornApplyIsMarked' /\ OneMarkedApply' /\
       IdsFresh' /\ FilesDriven' /\ KindAtPc' /\ MarkersAtPc' /\ EntryAtPc'
    BY <1>29
       DEF RefreshBaseline, IInv, MarkerNamesEntry, TornApplyIsMarked, OneMarkedApply,
           IdsFresh, FilesDriven, KindAtPc, MarkersAtPc, EntryAtPc
  <2>3. DrivenAtPc'
    BY <1>29 DEF RefreshBaseline, IInv, DrivenAtPc, Target
  <2> QED
    BY <2>1, <2>2, <2>3 DEF IInv
<1>30. CASE UNCHANGED vars
  <2>1. TypeOK' /\ MarkerNamesEntry' /\ TornApplyIsMarked' /\ OneMarkedApply'
    BY <1>30
       DEF vars, IInv, TypeOK, MarkerNamesEntry, TornApplyIsMarked,
           OneMarkedApply
  <2>2. IdsFresh' /\ FilesDriven' /\ KindAtPc'
    BY <1>30 DEF vars, IInv, IdsFresh, FilesDriven, KindAtPc
  <2>3. MarkersAtPc' /\ EntryAtPc' /\ DrivenAtPc'
    BY <1>30 DEF vars, IInv, MarkersAtPc, EntryAtPc, DrivenAtPc, Target
  <2> QED
    BY <2>1, <2>2, <2>3 DEF IInv
<1> QED
  BY <1>1, <1>2, <1>3, <1>4, <1>5, <1>6, <1>7, <1>8, <1>9, <1>10, <1>11, <1>12,
     <1>13, <1>14, <1>15, <1>16, <1>17, <1>18, <1>19, <1>20, <1>21, <1>22,
     <1>23, <1>24, <1>25, <1>26, <1>27, <1>28, <1>29, <1>30
     DEF Next, Step, ApplyStep, RecoverStep

(* The inductive invariant holds in every reachable state. *)
THEOREM InvariantHolds == Spec => []IInv
  BY InitIInv, StepKeepsIInv, PTL DEF Spec

(* Every variable keeps its type. *)
THEOREM TypeCorrect == Spec => []TypeOK
  BY InvariantHolds, PTL DEF IInv

(* Markers neither dangle nor miss a torn apply, and name one unfinished      *)
(* apply at most: what the check of every command rests on.                   *)
THEOREM MarkersSound == Spec => []MarkersAreSound
  BY InvariantHolds, PTL DEF IInv, MarkersAreSound

(* No apply or sync works over the half-written files of another apply.     *)
THEOREM NothingBuildsOnTornApply == Spec => []NoWorkOverTornApply
<1>1. IInv => NoWorkOverTornApply
  BY DEF IInv, TypeOK, NoWorkOverTornApply, TornApplyIsMarked, MarkersAtPc,
         EntryAtPc, KindAtPc
<1> QED BY <1>1, InvariantHolds, PTL

(* A sealed success means every file of the entry was written and indexed.  *)
THEOREM SuccessesAreComplete == Spec => SuccessIsComplete
<1> DEFINE A == \A i \in Ids : status[i] = "applying" /\ status'[i] = "success"
                  => \A f \in DOMAIN pending[i].after :
                       \/ f \in outside
                       \/ real[f] = pending[i].after[f] /\ indexed[f] = real[f]
<1>1. IInv /\ [Next]_vars => [A]_vars
  <2> SUFFICES ASSUME IInv, Next, NEW i \in Ids,
                      status[i] = "applying", status'[i] = "success",
                      NEW f \in DOMAIN pending[i].after
               PROVE  \/ f \in outside
                      \/ real[f] = pending[i].after[f] /\ indexed[f] = real[f]
    OBVIOUS
  <2>1. Seal /\ i = cur /\ goal = "forward"
    <3>1. status # status' /\ status \in [Ids -> Statuses]
      BY DEF IInv, TypeOK
    <3>2. i # nextId
      BY BoundsAssumption DEF IInv, TypeOK, IdsFresh
    <3>3. ~PlanConflict
      BY <3>1, <3>2 DEF PlanConflict
    <3>4. ~NoopWrite
      BY <3>1, <3>2 DEF NoopWrite
    <3>5. ~WriteIntent
      BY <3>1, <3>2 DEF WriteIntent
    <3>6. ~PruneOne
      BY <3>1 DEF PruneOne
    <3>7. Seal
      BY <3>1, <3>3, <3>4, <3>5, <3>6
         DEF Next, Step, ApplyStep, RecoverStep, Start, StartRecover, HealMarker,
             EnsureRefuses, EnsurePasses, Sync, Planned, PlanBails, WriteMarker,
             ApplyWrite, Reindex, AllDriven, Unmark, PruneDone, RecoverEntry,
             LeaveApplying, RecoverDone, RecoverCheck, RecoverWrite,
             ReindexFindsNothing, RefreshBaseline, ApplyFails, Undo, Die, OutsideEdit
    <3> QED BY <3>1, <3>7 DEF Seal
  <2> QED
    <3>1. pc = "seal" /\ plan = pending[cur] /\ ~clash /\ todo = {}
      BY <2>1 DEF IInv, FilesDriven, DrivenAtPc, Seal
    <3>2. \A g \in DOMAIN plan.after \ todo :
            g \in outside \/ (real[g] = plan.after[g] /\ indexed[g] = real[g])
      BY <2>1, <3>1 DEF IInv, DrivenAtPc
    <3>3. f \in DOMAIN plan.after \ todo
      BY <2>1, <3>1
    <3> QED BY <2>1, <3>1, <3>2, <3>3
<1> QED BY <1>1, InvariantHolds, PTL DEF Spec, SuccessIsComplete

(***************************************************************************)
(* What is left in the real files: a rollback leaves at most one file      *)
(* unrestored, and recover leaves newer work alone.                        *)
(***************************************************************************)

(***************************************************************************)
(* The inductive invariant, on top of IInv                                 *)
(***************************************************************************)

(* The file recover is about to write is as it found it, or was edited     *)
(* after it looked, or is to be written whatever it holds.                 *)
DriveIsFresh ==
    pc = "drive" => \A f \in busy : f \in outside \/ force \/ Fresh(f)

(* An apply on its way forward has not touched the files still to do, and  *)
(* has in `done` all the others, the one between its two writes excepted.  *)
IsBefore(f) == f \in outside \/ real[f] = plan.before[f]
NotYetTouched ==
    kind = "apply" /\ goal = "forward" =>
        /\ pc \in {"intent", "mark"} => done = {} /\ \A f \in DOMAIN plan.before : IsBefore(f)
        /\ pc \in {"next", "reindex"} => /\ \A f \in todo \ busy : IsBefore(f)
                                         /\ done = DOMAIN plan.before \ todo

(* On the way back all files but those still to do and one, whose reindex  *)
(* failed, are as they were.                                               *)
BackButOne ==
    goal = "back" /\ pc \in {"next", "drive", "reindex", "seal"} /\ ~clash =>
        \E g : \A f \in DOMAIN plan.before \ todo : f = g \/ IsBefore(f)

RInv == DriveIsFresh /\ NotYetTouched /\ BackButOne

(* Domains of the plan at hand, and where its files are.  *)
LEMMA PlanFacts ==
  ASSUME IInv
  PROVE  /\ plan \in Plans /\ DOMAIN plan.before = DOMAIN plan.after
         /\ todo \subseteq DOMAIN plan.before /\ busy \subseteq todo
         /\ \A f, g \in busy : f = g
         /\ real \in [Files -> Blob]
BY PlanShape DEF IInv, TypeOK, FilesDriven, DrivenAtPc

(* Elsewhere the invariant asks nothing. *)
LEMMA ElsewhereIsFree ==
  ASSUME pc' \notin {"intent", "mark", "next", "drive", "reindex", "seal"}
  PROVE  RInv'
BY DEF RInv, DriveIsFresh, NotYetTouched, BackButOne

(* The workspace starts without an operation. *)
LEMMA InitRInv == Init => RInv
BY DEF Init, RInv, DriveIsFresh, NotYetTouched, BackButOne

(* Every step keeps the invariant. *)
LEMMA StepKeepsRInv == IInv /\ RInv /\ [Next]_vars => RInv'
<1> SUFFICES ASSUME IInv, RInv, [Next]_vars PROVE RInv'
  OBVIOUS
<1> USE PlanFacts
<1>1. ASSUME UNCHANGED <<real, volatile, outside>>
      PROVE  RInv'
  BY <1>1 DEF RInv, DriveIsFresh, NotYetTouched, BackButOne, IsBefore, Fresh
<1>2. ASSUME NEW S \in (SUBSET Files) \ {{}}, NEW after \in [S -> Blob], Planned(S, after)
      PROVE  RInv'
  <2>1. /\ pc' = "intent" /\ plan'.before = [f \in S |-> real[f]]
        /\ done' = {} /\ UNCHANGED <<real, outside>>
    BY <1>2 DEF Planned, Snapshot, IInv, KindAtPc
  <2> QED BY <2>1 DEF RInv, DriveIsFresh, NotYetTouched, BackButOne, IsBefore
<1>3. CASE WriteIntent
  BY <1>3 DEF WriteIntent, RInv, DriveIsFresh, NotYetTouched, BackButOne, IsBefore
<1>4. CASE WriteMarker
  <2>1. /\ pc = "mark" /\ pc' = "next" /\ todo' = DOMAIN plan.before /\ busy = {}
        /\ UNCHANGED <<real, plan, done, busy, kind, goal, outside, clash>>
    BY <1>4 DEF WriteMarker, IInv, FilesDriven
  <2>2. NotYetTouched'
    BY <2>1 DEF RInv, NotYetTouched, IsBefore
  <2>3. BackButOne'
    BY <2>1 DEF BackButOne
  <2> QED BY <2>1, <2>2, <2>3 DEF RInv, DriveIsFresh
<1>5. ASSUME NEW f \in Files, ApplyWrite(f)
      PROVE  RInv'
  <2>1. /\ pc = "next" /\ pc' = "reindex" /\ f \in todo /\ busy = {} /\ busy' = {f}
        /\ \A g \in Files : g # f => real'[g] = real[g]
        /\ UNCHANGED <<plan, todo, done, kind, goal, outside, clash>>
    BY <1>5 DEF ApplyWrite, IInv, FilesDriven
  <2>2. DOMAIN plan.before \subseteq Files
    BY PlanShape
  <2>3. NotYetTouched'
    BY <2>1, <2>2 DEF RInv, NotYetTouched, IsBefore
  <2>4. BackButOne'
    BY <2>1, <2>2 DEF RInv, BackButOne, IsBefore
  <2> QED BY <2>1, <2>3, <2>4 DEF RInv, DriveIsFresh
<1>6. ASSUME NEW f \in Files, RecoverCheck(f)
      PROVE  RInv'
  <2>1. kind' = "recover" /\ UNCHANGED <<real, plan, goal, force, outside>>
    BY <1>6 DEF RecoverCheck
  <2>2. CASE MayDrive(f)
    BY <1>6, <2>1, <2>2
    DEF RecoverCheck, MayDrive, Fresh, RInv, DriveIsFresh, NotYetTouched, BackButOne, IsBefore
  <2>3. CASE ~MayDrive(f)
    BY <1>6, <2>1, <2>3 DEF RecoverCheck, RInv, DriveIsFresh, NotYetTouched, BackButOne
  <2> QED BY <2>2, <2>3
<1>7. ASSUME NEW f \in Files, RecoverWrite(f)
      PROVE  RInv'
  <2>1. /\ pc = "drive" /\ pc' = "reindex" /\ f \in todo /\ kind' = "recover"
        /\ \A g \in Files : g # f => real'[g] = real[g]
        /\ UNCHANGED <<plan, todo, goal, outside, clash>>
    BY <1>7 DEF RecoverWrite, IInv, KindAtPc
  <2>2. DOMAIN plan.before \subseteq Files
    BY PlanShape
  <2>3. BackButOne'
    BY <2>1, <2>2 DEF RInv, BackButOne, IsBefore
  <2> QED BY <2>1, <2>3 DEF RInv, DriveIsFresh, NotYetTouched
<1>8. ASSUME NEW f \in Files, Reindex(f)
      PROVE  RInv'
  <2>1. /\ pc = "reindex" /\ pc' = "next" /\ busy = {f} /\ busy' = {} /\ todo' = todo \ {f}
        /\ done' = IF kind = "apply" /\ goal = "forward" THEN done \cup {f} ELSE done
        /\ UNCHANGED <<real, plan, kind, goal, outside, clash>>
    BY <1>8 DEF Reindex
  <2>2. NotYetTouched'
    BY <2>1 DEF RInv, NotYetTouched, IsBefore
  <2>3. goal = "back" => IsBefore(f)
    BY <2>1 DEF IInv, DrivenAtPc, Target, IsBefore, TypeOK
  <2>4. BackButOne'
    BY <2>1, <2>3 DEF RInv, BackButOne, IsBefore
  <2> QED BY <2>1, <2>2, <2>4 DEF RInv, DriveIsFresh
<1>9. ASSUME Undo, kind = "apply", goal = "forward", pc \in {"next", "reindex"}
      PROVE  RInv'
  <2>1. /\ pc' = "next" /\ goal' = "back" /\ todo' = done
        /\ UNCHANGED <<real, plan, kind, outside, clash>>
    BY <1>9 DEF Undo, UndoList
  <2>2. DOMAIN plan.before \ done = todo /\ \A f \in todo \ busy : IsBefore(f)
    BY <1>9 DEF RInv, NotYetTouched
  <2>3. \E g : \A f \in todo : f = g \/ IsBefore(f)
    <3>1. CASE busy = {}
      BY <2>2, <3>1
    <3>2. CASE busy # {}
      <4>1. PICK g : g \in busy
        BY <3>2
      <4>2. \A f \in todo : f = g \/ IsBefore(f)
        BY <2>2, <4>1
      <4> QED BY <4>2
    <3> QED BY <3>1, <3>2
  <2>4. BackButOne'
    BY <2>1, <2>2, <2>3 DEF BackButOne, IsBefore
  <2> QED BY <2>1, <2>4 DEF RInv, DriveIsFresh, NotYetTouched
<1>10. CASE ReindexFindsNothing
  BY <1>9, <1>10, ElsewhereIsFree DEF ReindexFindsNothing, Release
<1>11. CASE ApplyFails
  BY <1>9, <1>11 DEF ApplyFails
<1>12. CASE AllDriven
  BY <1>12 DEF AllDriven, Complete, RInv, DriveIsFresh, NotYetTouched, BackButOne, IsBefore
<1>13. CASE RecoverEntry
  <2>1. PICK i \in Ids : plan' = pending[i] /\ todo' = DOMAIN pending[i].after
    BY <1>13 DEF RecoverEntry
  <2>2. DOMAIN plan'.before = todo'
    BY <2>1, PlanShape DEF IInv, TypeOK
  <2>3. kind' = "recover" /\ pc' = "next"
    BY <1>13 DEF RecoverEntry, IInv, KindAtPc
  <2> QED BY <2>2, <2>3 DEF RInv, DriveIsFresh, NotYetTouched, BackButOne
<1>14. ASSUME NEW f \in Files, NEW c \in Blob, OutsideEdit(f, c)
      PROVE  RInv'
  <2>1. CASE pc = "idle"
    BY <1>14, <2>1, ElsewhereIsFree DEF OutsideEdit
  <2>2. CASE pc # "idle"
    <3>1. /\ outside' = outside \cup {f} /\ \A g \in Files : g # f => real'[g] = real[g]
          /\ UNCHANGED volatile
      BY <1>14, <2>2 DEF OutsideEdit
    <3>2. DOMAIN plan.before \subseteq Files
      BY PlanShape
    <3>3. DriveIsFresh' /\ NotYetTouched' /\ BackButOne'
      BY <3>1, <3>2 DEF RInv, DriveIsFresh, NotYetTouched, BackButOne, IsBefore, Fresh
    <3> QED BY <3>3 DEF RInv
  <2> QED BY <2>1, <2>2
<1>15. CASE \/ \E k \in {"apply", "sync"} : Start(k)
            \/ StartRecover \/ EnsureRefuses \/ EnsurePasses \/ Sync \/ PlanConflict \/ PlanBails
            \/ Seal \/ Unmark \/ PruneDone \/ LeaveApplying \/ RecoverDone \/ Die
  BY <1>15, ElsewhereIsFree
  DEF Start, StartRecover, EnsureRefuses, EnsurePasses, Sync, PlanConflict, PlanBails, Seal, Unmark,
      PruneDone, LeaveApplying, RecoverDone, Die, Release
<1>16. CASE \/ \E i \in Ids : HealMarker(i)
            \/ \E f \in Files : RefreshBaseline(f)
            \/ NoopWrite \/ PruneOne \/ UNCHANGED vars
  BY <1>1, <1>16 DEF HealMarker, RefreshBaseline, NoopWrite, PruneOne, vars
<1> QED
  BY <1>2, <1>3, <1>4, <1>5, <1>6, <1>7, <1>8, <1>10, <1>11, <1>12, <1>13, <1>14, <1>15, <1>16
  DEF Next, Step, ApplyStep, RecoverStep

(* Both invariants hold in every reachable state. *)
LEMMA RecoveryInvariant == Spec => [](IInv /\ RInv)
  BY InitIInv, InitRInv, StepKeepsIInv, StepKeepsRInv, PTL DEF Spec

(***************************************************************************)
(* Theorems                                                                *)
(***************************************************************************)

(* An entry becomes rolled-back by Seal alone. *)
LEMMA RolledBackBySeal ==
  ASSUME IInv, Next, NEW i \in Ids, status[i] = "applying", status'[i] = "rolledback"
  PROVE  pc = "seal" /\ i = cur /\ goal = "back"
<1>1. status # status' /\ status \in [Ids -> Statuses]
  BY DEF IInv, TypeOK
<1>2. ~PlanConflict /\ ~NoopWrite
  BY <1>1 DEF PlanConflict, NoopWrite
<1>3. ~WriteIntent /\ ~PruneOne
  BY <1>1 DEF WriteIntent, PruneOne
<1>4. Seal
  BY <1>1, <1>2, <1>3
  DEF Next, Step, ApplyStep, RecoverStep, Start, StartRecover, HealMarker,
      EnsureRefuses, EnsurePasses, Sync, Planned, PlanBails, WriteMarker,
      ApplyWrite, Reindex, AllDriven, Unmark, PruneDone, RecoverEntry,
      LeaveApplying, RecoverDone, RecoverCheck, RecoverWrite,
      ReindexFindsNothing, RefreshBaseline, ApplyFails, Undo, Die, OutsideEdit
<1> QED BY <1>1, <1>4 DEF Seal, IInv, TypeOK

(* A rollback, of a failed apply or by recover, leaves at most the one file  *)
(* unrestored whose set_file_state failed after its real write.              *)
THEOREM RollbacksLeaveOne == Spec => RollbackLeavesAtMostOne
<1> DEFINE A == \A i \in Ids : status[i] = "applying" /\ status'[i] = "rolledback"
                  => Cardinality(Unrestored(i)) <= 1
<1>1. IInv /\ RInv /\ [Next]_vars => [A]_vars
  <2> SUFFICES ASSUME IInv, RInv, Next, NEW i \in Ids,
                      status[i] = "applying", status'[i] = "rolledback"
               PROVE  Cardinality(Unrestored(i)) <= 1
    OBVIOUS
  <2>1. pc = "seal" /\ i = cur /\ goal = "back"
    BY RolledBackBySeal
  <2>2. plan = pending[i] /\ ~clash /\ todo = {}
    BY <2>1 DEF IInv, FilesDriven, DrivenAtPc
  <2>3. PICK g : \A f \in DOMAIN plan.before : f = g \/ IsBefore(f)
    BY <2>1, <2>2 DEF RInv, BackButOne
  <2>4. Unrestored(i) \subseteq {g}
    BY <2>2, <2>3 DEF Unrestored, IsBefore
  <2>5. Unrestored(i) = {} \/ Unrestored(i) = {g}
    BY <2>4
  <2>6. Cardinality({}) = 0 /\ Cardinality({g}) = 1
    BY FS_EmptySet, FS_Singleton
  <2> QED BY <2>5, <2>6
<1> QED BY <1>1, RecoveryInvariant, PTL DEF Spec, RollbackLeavesAtMostOne

(* recover without --force replaces only content its entry recorded; what   *)
(* others write after it looked is theirs to answer for.                    *)
THEOREM RecoverSparesNewerWork == Spec => RecoverKeepsNewerWork
<1> DEFINE A == \A f \in Files : kind = "recover" /\ ~force /\ real'[f] # real[f]
                  => \/ f \in outside'
                     \/ real[f] \in {pending[cur].before[f], pending[cur].after[f]}
<1>1. IInv /\ RInv /\ [Next]_vars => [A]_vars
  <2> SUFFICES ASSUME IInv, RInv, Next, NEW f \in Files,
                      kind = "recover", ~force, real'[f] # real[f]
               PROVE  \/ f \in outside'
                      \/ real[f] \in {pending[cur].before[f], pending[cur].after[f]}
    OBVIOUS
  <2>1. CASE \E g \in Files, c \in Blob : OutsideEdit(g, c)
    BY <2>1 DEF OutsideEdit, IInv, TypeOK, KindAtPc
  <2>2. CASE \E g \in Files : RecoverWrite(g)
    <3>1. PICK g \in Files : RecoverWrite(g)
      BY <2>2
    <3>2. g = f /\ pc = "drive" /\ f \in busy /\ outside' = outside
      BY <3>1 DEF RecoverWrite, IInv, TypeOK
    <3>3. plan = pending[cur]
      BY <3>2 DEF IInv, DrivenAtPc
    <3> QED BY <3>2, <3>3 DEF RInv, DriveIsFresh, Fresh
  <2>3. ~\E g \in Files : ApplyWrite(g)
    BY DEF ApplyWrite
  <2> QED
    BY <2>1, <2>2, <2>3
    DEF Next, Step, ApplyStep, RecoverStep, Start, StartRecover, HealMarker,
        EnsureRefuses, EnsurePasses, Sync, Planned, PlanBails, WriteMarker,
        Reindex, AllDriven, Unmark, PruneDone, RecoverEntry, NoopWrite, WriteIntent,
        LeaveApplying, RecoverDone, RecoverCheck, PlanConflict, Seal, PruneOne,
        ReindexFindsNothing, RefreshBaseline, ApplyFails, Undo, Die
<1> QED BY <1>1, RecoveryInvariant, PTL DEF Spec, RecoverKeepsNewerWork

(***************************************************************************)
(* ApplyJournal implements AtomicApply, as long as nobody else writes a    *)
(* file and no reindex fails after a real write: the two things the design *)
(* leaves to a human.                                                      *)
(***************************************************************************)

(* The kinds of mishaps an apply is atomic under. *)
InsideOnly == MishapKinds \subseteq {"death", "write", "semantic"}

(***************************************************************************)
(* The inductive invariant, on top of IInv and RInv                        *)
(***************************************************************************)

(* Ids not allocated yet are of no entry that recover has driven. *)
RedoneIsOld == redone \subseteq Ids /\ \A i \in Ids : i >= nextId => i \notin redone

(* On the way back, all files but those still to do are as they were. *)
BackIsBefore ==
    goal = "back" /\ pc \in {"next", "drive", "reindex", "seal"} /\ ~clash =>
        \A f \in DOMAIN plan.before \ todo : real[f] = plan.before[f]

AInv == outside = {} /\ RedoneIsOld /\ BackIsBefore

(* The workspace starts without an operation. *)
LEMMA InitAInv == Init => AInv
BY DEF Init, AInv, RedoneIsOld, BackIsBefore

(* Elsewhere the invariant asks little. *)
LEMMA ElsewhereIsQuiet ==
  ASSUME outside' = {}, RedoneIsOld', pc' \notin {"next", "drive", "reindex", "seal"}
  PROVE  AInv'
BY DEF AInv, BackIsBefore

(* Every step keeps the invariant. *)
LEMMA StepKeepsAInv ==
  ASSUME InsideOnly
  PROVE  IInv /\ RInv /\ AInv /\ [Next]_vars => AInv'
<1> SUFFICES ASSUME IInv, RInv, AInv, [Next]_vars PROVE AInv'
  OBVIOUS
<1> USE PlanFacts
<1>0. outside = {} /\ RedoneIsOld /\ BackIsBefore /\ nextId \in Nat
  BY DEF AInv, IInv, TypeOK
<1>1. ASSUME UNCHANGED <<redone, outside>>, nextId' = nextId \/ nextId' = nextId + 1
      PROVE  RedoneIsOld' /\ outside' = {}
  BY <1>0, <1>1 DEF RedoneIsOld
<1>2. CASE WriteMarker
  BY <1>0, <1>1, <1>2 DEF WriteMarker, AInv, BackIsBefore
<1>3. ASSUME NEW f \in Files, ApplyWrite(f)
      PROVE  AInv'
  <2>1. /\ pc' = "reindex" /\ pc = "next" /\ f \in todo
        /\ \A g \in Files : g # f => real'[g] = real[g]
        /\ UNCHANGED <<plan, todo, goal, clash, redone, outside, nextId>>
    BY <1>3 DEF ApplyWrite
  <2>2. DOMAIN plan.before \subseteq Files
    BY PlanShape
  <2> QED BY <1>0, <1>1, <2>1, <2>2 DEF AInv, BackIsBefore
<1>4. ASSUME NEW f \in Files, RecoverCheck(f)
      PROVE  AInv'
  BY <1>0, <1>1, <1>4 DEF RecoverCheck, AInv, BackIsBefore
<1>5. ASSUME NEW f \in Files, RecoverWrite(f)
      PROVE  AInv'
  <2>1. /\ pc = "drive" /\ pc' = "reindex" /\ f \in todo
        /\ \A g \in Files : g # f => real'[g] = real[g]
        /\ redone' = redone \cup {cur}
        /\ UNCHANGED <<plan, todo, goal, clash, outside, nextId>>
    BY <1>5 DEF RecoverWrite
  <2>2. cur \in Ids /\ cur < nextId /\ DOMAIN plan.before \subseteq Files
    BY <2>1, PlanShape DEF IInv, EntryAtPc
  <2>3. RedoneIsOld'
    BY <1>0, <2>1, <2>2, BoundsAssumption DEF RedoneIsOld
  <2> QED BY <1>0, <2>1, <2>2, <2>3 DEF AInv, BackIsBefore
<1>6. ASSUME NEW f \in Files, Reindex(f)
      PROVE  AInv'
  <2>1. /\ pc = "reindex" /\ pc' = "next" /\ f \in busy /\ todo' = todo \ {f}
        /\ UNCHANGED <<real, plan, goal, clash, redone, outside, nextId>>
    BY <1>6 DEF Reindex
  <2>2. real[f] = Target(f)
    BY <1>0, <2>1 DEF IInv, DrivenAtPc
  <2> QED BY <1>0, <1>1, <2>1, <2>2 DEF AInv, BackIsBefore, Target, IInv, TypeOK
<1>7. ~ReindexFindsNothing
  BY <1>0 DEF ReindexFindsNothing, IInv, DrivenAtPc
<1>8. CASE ApplyFails
  <2>1. /\ pc = "next" /\ kind = "apply" /\ goal = "forward" /\ pc' = "next" /\ todo' = done
        /\ UNCHANGED <<real, plan, redone, outside, nextId, clash>>
    BY <1>8 DEF ApplyFails, Mishap, InsideOnly, Undo, UndoList
  <2>2. /\ busy = {} /\ done = DOMAIN plan.before \ todo
        /\ \A f \in todo : real[f] = plan.before[f]
    BY <1>0, <2>1 DEF IInv, FilesDriven, RInv, NotYetTouched, IsBefore
  <2> QED BY <1>0, <1>1, <2>1, <2>2 DEF AInv, BackIsBefore
<1>9. CASE AllDriven
  BY <1>0, <1>1, <1>9 DEF AllDriven, AInv, BackIsBefore
<1>10. CASE RecoverEntry
  <2>1. PICK i \in Ids : plan' = pending[i] /\ todo' = DOMAIN pending[i].after
    BY <1>10 DEF RecoverEntry
  <2>2. DOMAIN plan'.before = todo' /\ UNCHANGED <<redone, outside, nextId>>
    BY <1>10, <2>1, PlanShape DEF IInv, TypeOK, RecoverEntry
  <2> QED BY <1>1, <2>2 DEF AInv, BackIsBefore
<1>11. ~\E f \in Files, c \in Blob : OutsideEdit(f, c)
  BY DEF OutsideEdit, Mishap, InsideOnly
<1>12. CASE \/ \E k \in {"apply", "sync"} : Start(k)
            \/ \E S \in (SUBSET Files) \ {{}} : \E after \in [S -> Blob] : Planned(S, after)
            \/ StartRecover \/ EnsureRefuses \/ EnsurePasses \/ Sync \/ PlanConflict \/ PlanBails
            \/ WriteIntent
            \/ Seal \/ Unmark \/ PruneDone \/ LeaveApplying \/ RecoverDone \/ Die
  <2>1. /\ outside' = {} /\ redone' = redone
        /\ nextId' = nextId \/ nextId' = nextId + 1
        /\ pc' \notin {"next", "drive", "reindex", "seal"}
    BY <1>0, <1>12
    DEF Start, Planned, StartRecover, EnsureRefuses, EnsurePasses, Sync, PlanConflict, PlanBails,
        WriteIntent, Seal, Unmark, PruneDone, LeaveApplying, RecoverDone, Die, Release
  <2>2. RedoneIsOld'
    BY <1>0, <2>1 DEF RedoneIsOld
  <2> QED BY <2>1, <2>2, ElsewhereIsQuiet
<1>13. CASE \/ \E i \in Ids : HealMarker(i)
            \/ \E f \in Files : RefreshBaseline(f)
            \/ NoopWrite \/ PruneOne \/ UNCHANGED vars
  <2>1. /\ UNCHANGED <<real, volatile, redone, outside>>
        /\ nextId' = nextId \/ nextId' = nextId + 1
    BY <1>13 DEF HealMarker, RefreshBaseline, NoopWrite, PruneOne, vars
  <2> QED BY <1>0, <1>1, <2>1 DEF AInv, BackIsBefore
<1> QED
  BY <1>2, <1>3, <1>4, <1>5, <1>6, <1>7, <1>8, <1>9, <1>10, <1>11, <1>12, <1>13
  DEF Next, Step, ApplyStep, RecoverStep

(* The invariants hold in every reachable state. *)
LEMMA AtomicInvariant ==
  ASSUME InsideOnly
  PROVE  Spec => [](IInv /\ RInv /\ AInv)
BY InitIInv, InitRInv, InitAInv, StepKeepsIInv, StepKeepsRInv, StepKeepsAInv, PTL DEF Spec

(***************************************************************************)
(* The refinement                                                          *)
(***************************************************************************)

\* the entries in doubt, and what AtomicApply sees of those of I
InDoubtIds == (begun \cup redone) \cap Applying
Entry(p, i) == [id |-> i, before |-> p[i].before, after |-> p[i].after]
Entries(p, I) == {Entry(p, i) : i \in I}

\* a file of an entry of I
Held(p, I, f) == \E i \in I : f \in DOMAIN p[i].after

(* The fields of an entry, and so which entry it is. *)
LEMMA EntryFields ==
  ASSUME NEW p, NEW i
  PROVE  /\ Entry(p, i).id = i /\ Entry(p, i).before = p[i].before
         /\ Entry(p, i).after = p[i].after
BY DEF Entry

(* The files of the entries of I. *)
LEMMA HeldByEntries ==
  ASSUME NEW p, NEW I, NEW f
  PROVE  (\E d \in Entries(p, I) : f \in DOMAIN d.after) <=> Held(p, I, f)
BY EntryFields DEF Entries, Held

(* The abstract state in terms of the entries. *)
LEMMA AbstractState ==
  /\ Doubt = Entries(pending, InDoubtIds)
  /\ View = [f \in Files |-> IF Held(pending, InDoubtIds, f) THEN "in doubt" ELSE real[f]]
  /\ \A f : (\E d \in Doubt : f \in DOMAIN d.after) <=> Held(pending, InDoubtIds, f)
<1>1. Doubt = Entries(pending, InDoubtIds)
  BY DEF Doubt, Entries, Entry, InDoubtIds
<1>2. \A f : (\E d \in Doubt : f \in DOMAIN d.after) <=> Held(pending, InDoubtIds, f)
  BY <1>1, HeldByEntries
<1> QED BY <1>1, <1>2 DEF View

(* The same of the next state. *)
LEMMA AbstractNext ==
  /\ Doubt' = Entries(pending', InDoubtIds')
  /\ View' = [f \in Files |-> IF Held(pending', InDoubtIds', f) THEN "in doubt" ELSE real'[f]]
  /\ \A f : (\E d \in Doubt' : f \in DOMAIN d.after) <=> Held(pending', InDoubtIds', f)
<1>1. Doubt' = Entries(pending', InDoubtIds')
  BY DEF Doubt, Entries, Entry, InDoubtIds
<1>2. \A f : (\E d \in Doubt' : f \in DOMAIN d.after) <=> Held(pending', InDoubtIds', f)
  BY <1>1, HeldByEntries
<1> QED BY <1>1, <1>2 DEF View

(* Journaled plans are plans of AtomicApply. *)
LEMMA EntriesArePlans ==
  ASSUME NEW p \in [Ids -> Plans], NEW I \in SUBSET Ids
  PROVE  Entries(p, I) \subseteq Atomic!Plans
<1> SUFFICES ASSUME NEW i \in I PROVE Entry(p, i) \in Atomic!Plans
  BY DEF Entries
<1>1. PICK S \in SUBSET Files : p[i] \in [before : [S -> Blob], after : [S -> Blob]]
  BY DEF Plans
<1>2. p[i].before \in [S -> Blob] /\ p[i].after \in [S -> Blob]
  BY <1>1
<1>3. Entry(p, i) \in [id : 1..MaxEntries, before : [S -> Atomic!Blob], after : [S -> Atomic!Blob]]
  BY <1>2 DEF Entry, Blob, Atomic!Blob
<1> QED BY <1>3 DEF Atomic!Plans

(* The initial states map to initial states. *)
LEMMA InitRefines == Init => Atomic!Init
<1> SUFFICES ASSUME Init PROVE Atomic!Init
  OBVIOUS
<1>1. TypeOK
  BY InitIInv DEF IInv
<1>2. real \in [Files -> Atomic!Blob]
  BY <1>1 DEF TypeOK, Blob, Atomic!Blob
<1>3. View = Atomic!Seen(real, Doubt)
  BY AbstractState DEF Atomic!Seen
<1>4. Doubt \subseteq Atomic!Plans
  BY <1>1, AbstractState, EntriesArePlans DEF TypeOK, InDoubtIds
<1> QED BY <1>2, <1>3, <1>4 DEF Atomic!Init

(* Steps that change no file and put no entry in or out of doubt. *)
LEMMA QuietStep ==
  ASSUME real' = real, InDoubtIds' = InDoubtIds, \A i \in InDoubtIds : pending'[i] = pending[i]
  PROVE  UNCHANGED <<View, Doubt>>
<1>1. Entries(pending', InDoubtIds) = Entries(pending, InDoubtIds)
  BY DEF Entries, Entry
<1>2. \A f : Held(pending', InDoubtIds, f) <=> Held(pending, InDoubtIds, f)
  BY DEF Held
<1> QED BY <1>1, <1>2, AbstractState, AbstractNext

(* A real write of the entry worked on puts it in doubt, if it was not. *)
LEMMA WriteRefines ==
  ASSUME IInv, NEW f \in todo, pc \in {"next", "drive"},
         \A g \in Files : g # f => real'[g] = real[g],
         (begun \cup redone)' = begun \cup redone \cup {cur}, UNCHANGED <<status, pending>>
  PROVE  [Atomic!Next]_(<<View, Doubt>>)
<1>1. /\ cur \in Ids /\ status[cur] = "applying" /\ f \in DOMAIN pending[cur].after
      /\ f \in Files /\ pending \in [Ids -> Plans]
  BY PlanShape DEF IInv, EntryAtPc, DrivenAtPc, FilesDriven, TypeOK
<1>2. InDoubtIds' = InDoubtIds \cup {cur}
  BY <1>1 DEF InDoubtIds
<1>3. CASE cur \in InDoubtIds
  <2>1. InDoubtIds' = InDoubtIds /\ Held(pending, InDoubtIds, f)
    BY <1>1, <1>2, <1>3 DEF Held
  <2>2. Doubt' = Doubt
    BY <2>1, AbstractState, AbstractNext
  <2>3. View' = View
    BY <2>1, AbstractState, AbstractNext
  <2> QED BY <2>2, <2>3
<1>4. CASE cur \notin InDoubtIds
  <2>1. Doubt' = Doubt \cup {Entry(pending, cur)}
    BY <1>2, AbstractState, AbstractNext DEF Entries
  <2>2. Entry(pending, cur) \notin Doubt
    <3>1. \A i \in InDoubtIds : Entry(pending, i) # Entry(pending, cur)
      BY <1>4, EntryFields
    <3> QED BY <3>1, AbstractState DEF Entries
  <2>3. Doubt' \subseteq Atomic!Plans
    BY <1>1, <1>2, AbstractNext, EntriesArePlans DEF InDoubtIds
  <2>4. ASSUME NEW g \in Files, ~Held(pending, InDoubtIds', g)
        PROVE  View[g] = real'[g]
    BY <1>1, <1>2, <2>4, AbstractState DEF Held
  <2>5. View' = Atomic!Seen(View, Doubt')
    BY <1>1, <2>4, AbstractNext DEF Atomic!Seen
  <2> QED BY <2>1, <2>2, <2>3, <2>5 DEF Atomic!Next, Atomic!Begin
<1> QED BY <1>3, <1>4

(* The terminal entry resolves the doubt: every file of the plan is at its   *)
(* planned content, or every file is as it was.                              *)
LEMMA SealRefines ==
  ASSUME IInv, AInv, Seal
  PROVE  [Atomic!Next]_(<<View, Doubt>>)
<1>1. /\ pc = "seal" /\ real' = real /\ UNCHANGED <<begun, redone>>
      /\ cur \in Ids /\ status[cur] = "applying" /\ status'[cur] # "applying"
      /\ \A i \in Ids : i # cur => status'[i] = status[i] /\ pending'[i] = pending[i]
  BY DEF Seal, IInv, EntryAtPc, TypeOK
<1>2. plan = pending[cur] /\ todo = {} /\ ~clash /\ plan \in Plans
  BY <1>1 DEF IInv, FilesDriven, DrivenAtPc, TypeOK
<1>3. InDoubtIds' = InDoubtIds \ {cur}
  BY <1>1 DEF InDoubtIds
<1>4. CASE cur \notin InDoubtIds
  BY <1>1, <1>3, <1>4, QuietStep DEF InDoubtIds
<1>5. CASE cur \in InDoubtIds
  <2>1. PICK outcome \in {plan.after, plan.before} :
            DOMAIN outcome = DOMAIN plan.after /\ \A f \in DOMAIN outcome : real[f] = outcome[f]
    <3>1. goal \in {"forward", "back"} /\ outside = {} /\ BackIsBefore
      BY DEF IInv, TypeOK, AInv
    <3>2. CASE goal = "forward"
      BY <1>1, <1>2, <3>1, <3>2 DEF IInv, DrivenAtPc
    <3>3. CASE goal = "back"
      BY <1>1, <1>2, <3>1, <3>3, PlanShape DEF BackIsBefore
    <3> QED BY <3>1, <3>2, <3>3
  <2>2. Doubt' = Doubt \ {Entry(pending, cur)} /\ Entry(pending, cur) \in Doubt
    <3>1. \A i \in InDoubtIds : Entry(pending, i) = Entry(pending, cur) => i = cur
      BY EntryFields
    <3>2. \A i \in InDoubtIds \ {cur} : Entry(pending', i) = Entry(pending, i)
      BY <1>1 DEF Entry, InDoubtIds
    <3> QED BY <1>3, <1>5, <3>1, <3>2, AbstractState, AbstractNext DEF Entries
  <2> DEFINE content == [f \in Files |-> IF f \in DOMAIN outcome THEN outcome[f] ELSE View[f]]
  <2>3. ASSUME NEW f \in Files, ~Held(pending', InDoubtIds', f)
        PROVE  content[f] = real'[f]
    <3>1. CASE f \in DOMAIN outcome
      BY <1>1, <2>1, <3>1
    <3>2. CASE f \notin DOMAIN outcome
      <4>1. ~Held(pending, InDoubtIds, f)
        BY <1>1, <1>2, <1>3, <2>1, <2>3, <3>2 DEF Held, InDoubtIds
      <4> QED BY <1>1, <3>2, <4>1, AbstractState
    <3> QED BY <3>1, <3>2
  <2> HIDE DEF content
  <2>4. View' = Atomic!Seen(content, Doubt')
    BY <1>1, <2>3, AbstractNext DEF Atomic!Seen
  <2>5. outcome = Entry(pending, cur).before \/ outcome = Entry(pending, cur).after
    BY <1>2, <2>1, EntryFields
  <2>6. Atomic!Resolve(Entry(pending, cur), outcome)
    BY <2>2, <2>4, <2>5 DEF Atomic!Resolve, content
  <2> QED BY <2>2, <2>5, <2>6 DEF Atomic!Next
<1> QED BY <1>4, <1>5

(* Every step maps to a step or a stutter. *)
LEMMA StepRefines ==
  ASSUME InsideOnly
  PROVE  IInv /\ IInv' /\ AInv /\ [Next]_vars => [Atomic!Next]_(<<View, Doubt>>)
<1> SUFFICES ASSUME IInv, IInv', AInv, [Next]_vars PROVE [Atomic!Next]_(<<View, Doubt>>)
  OBVIOUS
<1>1. CASE \E f \in Files : ApplyWrite(f) \/ RecoverWrite(f)
  <2>1. PICK f \in Files : ApplyWrite(f) \/ RecoverWrite(f)
    BY <1>1
  <2>2. /\ f \in todo /\ pc \in {"next", "drive"}
        /\ \A g \in Files : g # f => real'[g] = real[g]
        /\ (begun \cup redone)' = begun \cup redone \cup {cur} /\ UNCHANGED <<status, pending>>
    BY <2>1, PlanFacts DEF ApplyWrite, RecoverWrite
  <2> QED BY <2>2, WriteRefines
<1>2. CASE Seal
  BY <1>2, SealRefines
<1>3. CASE WriteIntent \/ PlanConflict \/ NoopWrite
  <2>1. /\ UNCHANGED <<real, begun, redone>> /\ nextId \in Ids
        /\ \A i \in Ids : i # nextId => status'[i] = status[i] /\ pending'[i] = pending[i]
    BY <1>3 DEF WriteIntent, PlanConflict, NoopWrite, IInv, TypeOK
  <2>2. nextId \notin begun \cup redone
    BY <2>1, BoundsAssumption DEF IInv, IdsFresh, AInv, RedoneIsOld, TypeOK
  <2>3. InDoubtIds' = InDoubtIds /\ nextId \notin InDoubtIds
    BY <2>1, <2>2 DEF InDoubtIds
  <2> QED BY <2>1, <2>3, QuietStep DEF InDoubtIds
<1>4. CASE PruneOne
  <2>1. /\ UNCHANGED <<real, pending, begun, redone>>
        /\ \A i \in Ids : status'[i] = "applying" <=> status[i] = "applying"
    BY <1>4 DEF PruneOne, Oldest, IInv, TypeOK
  <2> QED BY <2>1, QuietStep DEF InDoubtIds
<1>5. ~\E f \in Files, c \in Blob : OutsideEdit(f, c)
  BY DEF OutsideEdit, Mishap, InsideOnly
<1>6. CASE \/ \E k \in {"apply", "sync"} : Start(k)
           \/ \E i \in Ids : HealMarker(i)
           \/ \E S \in (SUBSET Files) \ {{}} : \E after \in [S -> Blob] : Planned(S, after)
           \/ \E f \in Files : RefreshBaseline(f) \/ Reindex(f) \/ RecoverCheck(f)
           \/ StartRecover \/ EnsureRefuses \/ EnsurePasses \/ Sync \/ PlanBails \/ WriteMarker
           \/ AllDriven \/ Unmark \/ PruneDone \/ RecoverEntry \/ LeaveApplying \/ RecoverDone
           \/ ReindexFindsNothing \/ ApplyFails \/ Die \/ UNCHANGED vars
  <2>1. UNCHANGED <<real, status, pending, begun, redone>>
    BY <1>6
    DEF Start, HealMarker, Planned, RefreshBaseline, Reindex, RecoverCheck, StartRecover,
        EnsureRefuses, EnsurePasses, Sync, PlanBails, WriteMarker, AllDriven, Unmark, PruneDone,
        RecoverEntry, LeaveApplying, RecoverDone, ReindexFindsNothing, ApplyFails, Undo, Die, vars
  <2> QED BY <2>1, QuietStep DEF InDoubtIds
<1> QED
  BY <1>1, <1>2, <1>3, <1>4, <1>5, <1>6 DEF Next, Step, ApplyStep, RecoverStep

(***************************************************************************)
(* Theorem                                                                 *)
(***************************************************************************)

(* Seen from outside, a journaled apply takes all of its files from before   *)
(* to after or back, and is in doubt only in between, whatever dies or fails *)
(* inside the program (patch.rs, commit_planned_apply and recover).          *)
THEOREM AppliesAreAtomic ==
  ASSUME InsideOnly
  PROVE  Spec => ImplementsAtomicApply
BY InitRefines, StepRefines, AtomicInvariant, PTL
DEF Spec, ImplementsAtomicApply, Atomic!Spec, Atomic!vars
=============================================================================
