---------------------------- MODULE ApplyJournal ----------------------------
(***************************************************************************)
(* The durable multi-file apply of src/patch.rs and src/journal.rs: an     *)
(* intent entry and its in-flight marker are made durable, the real files  *)
(* are driven one by one to their planned content, and a terminal entry is *)
(* written before the marker goes.  A killed process leaves the entry      *)
(* "applying"; `recover` replays it or rolls it back.                      *)
(*                                                                         *)
(* Every step below runs under the exclusive workspace lock (lock.rs), so  *)
(* there is one operation at a time: pc, kind, cur, ... are the locals of  *)
(* the process that holds it, and pc = "idle" says the lock is free.  The  *)
(* kernel frees it when the process dies.  Editors outside the program do  *)
(* not take the lock: OutsideEdit may happen between any two steps.        *)
(*                                                                         *)
(* The order in which the files of one plan are driven is left open; the   *)
(* code uses patch order, one of the orders allowed here.                  *)
(***************************************************************************)
EXTENDS Naturals, FiniteSets

CONSTANTS Files,        \* real files a patch may touch
          Contents,     \* the contents a real file may have
          Absent,       \* what is read where no file is
          MaxEntries,   \* bound: journal ids that may be allocated
          Keep,         \* journal.max_entries, 0 = unlimited
          MaxMishaps,   \* bound: deaths, outside edits and failing steps
          MishapKinds   \* which of them may happen

ASSUME BoundsAssumption ==
    /\ MaxEntries \in Nat \ {0}
    /\ Keep \in Nat
    /\ MaxMishaps \in Nat
ASSUME AbsentAssumption == Absent \notin Contents
ASSUME MishapAssumption ==
    MishapKinds \subseteq {"death", "edit", "write", "reindex", "semantic"}

VARIABLES
    real,       \* the repository's files
    indexed,    \* per file, the content its mirror, map and db row render
    status,     \* journal/<id>.patch.json: its status, "none" if no such file
    pending,    \* the before/after snapshots of that entry
    markers,    \* ids with a file under journal/inflight/
    markerDir,  \* journal/inflight/ exists
    nextId,     \* the next time stamp used as an id
    pc, kind,   \* where the lock holder is, and what it runs
    cur,        \* the entry it works on, 0 if none
    plan,       \* its in-memory snapshots
    todo, done, \* files still to drive, files whose set_file_state returned Ok
    busy,       \* the file inside set_file_state (at most one)
    goal,       \* drive files forward to "after" or back to "before"
    force,      \* recover --force
    queue,      \* recover: entries of the listing still to look at
    clash,      \* recover: this entry met a freshness conflict
    mishaps,    \* how much of MaxMishaps is used
    begun,      \* history: entries some of whose files an apply has written
    redone,     \* history: entries some of whose files a recover has written
    contested,  \* history: entries a recover reported a conflict for
    outside     \* history: files edited outside since the lock was taken

files    == <<real, indexed>>
journal  == <<status, pending, nextId>>
marks    == <<markers, markerDir>>
durable  == <<files, journal, marks>>
job      == <<cur, plan, todo, done, busy>>
mode     == <<goal, force>>
scan     == <<queue, clash>>
volatile == <<pc, kind, job, mode, scan>>
writes   == <<begun, redone, contested>>
history  == <<writes, outside>>
vars     == <<durable, volatile, mishaps, history>>

Blob == Contents \cup {Absent}
Ids  == 1..MaxEntries
Plans == UNION {[before : [S -> Blob], after : [S -> Blob]] : S \in SUBSET Files}
NoPlan == [before |-> [f \in {} |-> Absent], after |-> [f \in {} |-> Absent]]

Statuses == {"none", "applying", "success", "conflict", "rolledback"}
Terminal == {i \in Ids : status[i] \in {"success", "conflict", "rolledback"}}
Applying == {i \in Ids : status[i] = "applying"}
Oldest(i, S) == i \in S /\ \A j \in S : i <= j

TypeOK ==
    /\ real \in [Files -> Blob] /\ indexed \in [Files -> Blob]
    /\ status \in [Ids -> Statuses] /\ pending \in [Ids -> Plans]
    /\ markers \subseteq Ids /\ markerDir \in BOOLEAN
    /\ nextId \in 1..(MaxEntries + 1)
    /\ pc \in {"idle", "ensure", "plan", "intent", "mark", "next", "drive",
               "reindex", "seal", "unmark", "prune", "sync", "scan"}
    /\ kind \in {"none", "apply", "sync", "recover"}
    /\ cur \in Ids \cup {0} /\ plan \in Plans
    /\ todo \subseteq Files /\ done \subseteq Files /\ busy \subseteq Files
    /\ goal \in {"forward", "back"} /\ force \in BOOLEAN /\ clash \in BOOLEAN
    /\ queue \subseteq Ids
    /\ mishaps \in 0..MaxMishaps
    /\ begun \subseteq Ids /\ redone \subseteq Ids /\ contested \subseteq Ids
    /\ outside \subseteq Files
-----------------------------------------------------------------------------
(* A workspace as `index` leaves it; the marker directory appears only at  *)
(* the first check.  Or a workspace of a release without markers, whose    *)
(* process was killed inside an apply.                                     *)
InitFresh ==
    /\ real \in [Files -> Blob]
    /\ status = [i \in Ids |-> "none"]
    /\ pending = [i \in Ids |-> NoPlan]
    /\ nextId = 1
    /\ begun = {}

Torn(S, b, a) ==
    /\ \A f \in S : b[f] # a[f] /\ real[f] \in {b[f], a[f]}
    /\ pending = [i \in Ids |-> IF i = 1 THEN [before |-> b, after |-> a]
                                         ELSE NoPlan]

InitLegacy ==
    /\ real \in [Files -> Blob]
    /\ status = [i \in Ids |-> IF i = 1 THEN "applying" ELSE "none"]
    /\ nextId = 2
    /\ begun = {1}
    /\ \E S \in (SUBSET Files) \ {{}} : \E b, a \in [S -> Blob] : Torn(S, b, a)

Init ==
    /\ InitFresh \/ InitLegacy
    /\ indexed = real
    /\ markers = {} /\ markerDir = FALSE
    /\ pc = "idle" /\ kind = "none" /\ cur = 0 /\ plan = NoPlan
    /\ todo = {} /\ done = {} /\ busy = {}
    /\ goal = "forward" /\ force = FALSE /\ queue = {} /\ clash = FALSE
    /\ mishaps = 0
    /\ redone = {} /\ contested = {} /\ outside = {}
-----------------------------------------------------------------------------
Mishap(k) ==
    k \in MishapKinds /\ mishaps < MaxMishaps /\ mishaps' = mishaps + 1

(* The process returns or dies: its locals go and the lock is free.  *)
Release ==
    /\ pc' = "idle" /\ kind' = "none" /\ cur' = 0 /\ plan' = NoPlan
    /\ todo' = {} /\ done' = {} /\ busy' = {}
    /\ goal' = "forward" /\ force' = FALSE /\ queue' = {} /\ clash' = FALSE
    /\ outside' = {}

(* An apply (patch, write, edit projection, rename, semantic transaction)  *)
(* or a sync takes the lock and checks for an interrupted apply first.     *)
Start(k) ==
    /\ pc = "idle"
    /\ pc' = "ensure" /\ kind' = k
    /\ UNCHANGED <<durable, job, mode, scan, mishaps, history>>

(* A marker whose entry is terminal is stale and is removed. *)
StaleAny(i) == i \in markers    \* mutant: the status is not looked at
Stale(i) == i \in markers /\ i \in Terminal

HealMarker(i) ==
    /\ pc = "ensure" /\ markerDir
    /\ Stale(i)
    /\ markers' = markers \ {i}
    /\ UNCHANGED <<files, journal, markerDir, volatile, mishaps, history>>

(* Refused: a marker names an applying entry, or an entry that cannot be   *)
(* read; without the directory, any applying entry of the full journal.    *)
EnsureRefuses ==
    /\ pc = "ensure"
    /\ IF markerDir
       THEN \/ \E i \in markers : status[i] = "none"
            \/ markers # {} /\ markers \subseteq Applying
       ELSE Applying # {}
    /\ Release
    /\ UNCHANGED <<durable, mishaps, writes>>

\* mutant: no scan of a journal without marker directory
ClearUnscanned == markers = {}
Clear == IF markerDir THEN markers = {} ELSE Applying = {}

EnsurePasses ==
    /\ pc = "ensure"
    /\ Clear
    /\ markerDir' = TRUE
    /\ pc' = IF kind = "sync" THEN "sync" ELSE "plan"
    /\ UNCHANGED <<files, journal, markers, kind, job, mode, scan, mishaps,
                   history>>

(* `sync`/`index` renders what the real files hold now. *)
Sync ==
    /\ pc = "sync"
    /\ indexed' = real
    /\ Release
    /\ UNCHANGED <<real, journal, marks, mishaps, writes>>
-----------------------------------------------------------------------------
(* Planning reads the real files.  A file that exists must be as indexed;  *)
(* a create needs its target absent.                                       *)
Snapshot(S) == [f \in S |-> real[f]]

Planned(S, after) ==
    /\ pc = "plan" /\ nextId \in Ids
    /\ \A f \in S : IF real[f] = Absent THEN after[f] # Absent
                                        ELSE real[f] = indexed[f]
    /\ plan' = [before |-> Snapshot(S), after |-> after]
    /\ pc' = "intent"
    /\ UNCHANGED <<durable, kind, cur, todo, done, busy, mode, scan, mishaps,
                   history>>

(* An edit of a mirror is projected from a fresh baseline: its file is      *)
(* indexed again first, whether the edit goes on (a file without a row) or  *)
(* ends as a conflict (a file that drifted).                                *)
Refreshed(f) == real[f] # Absent /\ indexed' = [indexed EXCEPT ![f] = real[f]]

RefreshBaseline(f) ==
    /\ pc = "plan" /\ indexed[f] = Absent
    /\ Refreshed(f)
    /\ UNCHANGED <<real, journal, marks, volatile, mishaps, history>>

(* A drifted file, a span, alias or create conflict: a terminal entry is   *)
(* recorded and no real file is touched.                                   *)
PlanConflict ==
    /\ pc = "plan" /\ nextId \in Ids
    /\ status' = [status EXCEPT ![nextId] = "conflict"]
    /\ nextId' = nextId + 1
    /\ Release
    /\ UNCHANGED indexed \/ \E f \in Files : indexed[f] # Absent /\ Refreshed(f)
    /\ UNCHANGED <<real, pending, marks, mishaps, writes>>

(* A patch that does not parse, names no tracked file, or is a dry run. *)
PlanBails ==
    /\ pc = "plan"
    /\ Release
    /\ UNCHANGED <<durable, mishaps, writes>>

(* Nothing to change: a success entry is recorded, with no check made. *)
NoopWrite ==
    /\ pc = "idle" /\ nextId \in Ids
    /\ status' = [status EXCEPT ![nextId] = "success"]
    /\ nextId' = nextId + 1
    /\ UNCHANGED <<files, pending, marks, volatile, mishaps, history>>

WriteIntent ==
    /\ pc = "intent" /\ nextId \in Ids
    /\ status' = [status EXCEPT ![nextId] = "applying"]
    /\ pending' = [pending EXCEPT ![nextId] = plan]
    /\ cur' = nextId /\ nextId' = nextId + 1
    /\ pc' = "mark"
    /\ UNCHANGED <<files, marks, kind, plan, todo, done, busy, mode, scan,
                   mishaps, history>>

WriteMarker ==
    /\ pc = "mark"
    /\ markers' = markers \cup {cur}
    /\ todo' = DOMAIN plan.after
    /\ pc' = "next"
    /\ UNCHANGED <<files, journal, markerDir, kind, cur, plan, done, busy,
                   mode, scan, mishaps, history>>
-----------------------------------------------------------------------------
(* set_file_state, the one primitive that changes real files: write or     *)
(* delete the real file, then refresh its mirror, map and row.             *)
Target(f) == IF goal = "forward" THEN plan.after[f] ELSE plan.before[f]

(* apply and its own rollback drive a file without looking at it again. *)
ApplyWrite(f) ==
    /\ pc = "next" /\ kind = "apply" /\ f \in todo
    /\ real' = [real EXCEPT ![f] = Target(f)]
    /\ busy' = {f} /\ pc' = "reindex"
    /\ begun' = begun \cup {cur}
    /\ UNCHANGED <<indexed, journal, marks, kind, cur, plan, todo, done, mode,
                   scan, mishaps, redone, contested, outside>>

(* recover looks first: the content must be the one the entry drives from, *)
(* or already the target.                                                  *)
Fresh(f) == real[f] \in {plan.before[f], plan.after[f]}
MayDriveAny(f) == TRUE         \* mutant: no freshness check
MayDriveFresh(f) == Fresh(f)   \* mutant: --force is ignored
MayDrive(f) == Fresh(f) \/ force

RecoverCheck(f) ==
    /\ pc = "next" /\ kind = "recover" /\ f \in todo
    /\ IF MayDrive(f)
       THEN busy' = {f} /\ pc' = "drive" /\ UNCHANGED <<todo, clash, contested>>
       ELSE /\ todo' = todo \ {f} /\ clash' = TRUE
            /\ contested' = contested \cup {cur}
            /\ UNCHANGED <<pc, busy>>
    /\ UNCHANGED <<durable, kind, cur, plan, done, mode, queue, mishaps, begun,
                   redone, outside>>

RecoverWrite(f) ==
    /\ pc = "drive" /\ f \in busy
    /\ real' = [real EXCEPT ![f] = Target(f)]
    /\ pc' = "reindex"
    /\ redone' = redone \cup {cur}
    /\ UNCHANGED <<indexed, journal, marks, kind, job, mode, scan, mishaps,
                   begun, contested, outside>>

(* The index reads the file again; what it finds missing it cannot index. *)
Reindex(f) ==
    /\ pc = "reindex" /\ f \in busy
    /\ Target(f) # Absent => real[f] # Absent
    /\ indexed' = [indexed EXCEPT ![f] = IF Target(f) = Absent THEN Absent
                                                               ELSE real[f]]
    /\ todo' = todo \ {f} /\ busy' = {}
    /\ done' = IF kind = "apply" /\ goal = "forward" THEN done \cup {f} ELSE done
    /\ pc' = "next"
    /\ UNCHANGED <<real, journal, marks, kind, cur, plan, mode, scan, mishaps,
                   history>>

(* An apply step fails: the files that were driven completely are driven   *)
(* back.  The one inside set_file_state is not among them.                 *)
UndoNone == {}    \* mutant: nothing is restored
UndoList == done

Undo ==
    /\ goal' = "back" /\ todo' = UndoList /\ done' = {} /\ busy' = {}
    /\ pc' = "next"
    /\ UNCHANGED <<durable, kind, cur, plan, force, scan, history>>

ApplyFails ==
    /\ kind = "apply" /\ goal = "forward"
    /\ \/ pc = "next" /\ todo # {} /\ Mishap("write")
       \/ pc = "reindex" /\ Mishap("reindex")
       \/ pc = "next" /\ todo = {} /\ Mishap("semantic")
    /\ Undo

(* The file just written is gone again: the reindex has nothing to read. *)
ReindexFindsNothing ==
    /\ pc = "reindex"
    /\ \E f \in busy : Target(f) # Absent /\ real[f] = Absent
    /\ \/ /\ kind = "apply" /\ goal = "forward"
          /\ Undo /\ UNCHANGED mishaps
       \/ /\ kind = "recover" \/ goal = "back"
          /\ Release
          /\ UNCHANGED <<durable, mishaps, writes>>

(* Every file is driven and the semantic index agrees. *)
CompleteAnyhow == todo = {}    \* mutant: conflicts do not keep it applying
Complete == todo = {} /\ ~clash

AllDriven ==
    /\ pc = "next" /\ Complete
    /\ pc' = "seal"
    /\ UNCHANGED <<durable, kind, job, mode, scan, mishaps, history>>

(* The terminal entry, without snapshots; then the marker goes. *)
Seal ==
    /\ pc = "seal"
    /\ status' = [status EXCEPT ![cur] = IF goal = "forward" THEN "success"
                                                             ELSE "rolledback"]
    /\ pending' = [pending EXCEPT ![cur] = NoPlan]
    /\ pc' = "unmark"
    /\ UNCHANGED <<files, nextId, marks, kind, job, mode, scan, mishaps,
                   history>>

Unmark ==
    /\ pc = "unmark"
    /\ markers' = markers \ {cur}
    /\ \/ /\ kind = "recover"
          /\ pc' = "scan" /\ cur' = 0
          /\ UNCHANGED <<kind, plan, todo, done, busy, mode, scan, outside>>
       \/ /\ kind = "apply" /\ goal = "forward"
          /\ pc' = "prune"
          /\ UNCHANGED <<kind, job, mode, scan, outside>>
       \/ kind = "apply" /\ goal = "back" /\ Release
    /\ UNCHANGED <<files, journal, markerDir, mishaps, writes>>

(* Retention: the oldest terminal entries beyond Keep, one file at a time. *)
PruneOne ==
    /\ pc = "prune" /\ Keep > 0 /\ Cardinality(Terminal) > Keep
    /\ \E i \in Ids : Oldest(i, Terminal) /\ status' = [status EXCEPT ![i] = "none"]
    /\ UNCHANGED <<files, pending, nextId, marks, volatile, mishaps, history>>

PruneDone ==
    /\ pc = "prune" /\ (Keep = 0 \/ Cardinality(Terminal) <= Keep)
    /\ Release
    /\ UNCHANGED <<durable, mishaps, writes>>
-----------------------------------------------------------------------------
(* recover [--rollback] [--force]: one listing, then its applying entries  *)
(* in id order.                                                            *)
StartRecover ==
    /\ pc = "idle"
    /\ pc' = "scan" /\ kind' = "recover"
    /\ queue' = Applying
    /\ goal' \in {"forward", "back"} /\ force' \in BOOLEAN
    /\ UNCHANGED <<durable, job, clash, mishaps, history>>

Rest(i) == queue \ {i}

(* The entries are those an apply wrote: the two branches that leave an       *)
(* entry applying, even under --force, because one of its paths escapes the   *)
(* repository, by name or by a link that moved since, are not here.           *)
RecoverEntry ==
    /\ pc = "scan"
    /\ \E i \in Ids :
         /\ Oldest(i, queue) /\ queue' = Rest(i)
         /\ cur' = i /\ plan' = pending[i] /\ todo' = DOMAIN pending[i].after
    /\ clash' = FALSE
    /\ pc' = "next"
    /\ UNCHANGED <<durable, kind, done, busy, mode, mishaps, history>>

(* Some file was not fresh: the entry stays applying, the next one is tried. *)
LeaveApplying ==
    /\ pc = "next" /\ todo = {} /\ clash
    /\ pc' = "scan" /\ cur' = 0
    /\ UNCHANGED <<durable, kind, plan, todo, done, busy, mode, scan, mishaps,
                   history>>

RecoverDone ==
    /\ pc = "scan" /\ queue = {}
    /\ Release
    /\ UNCHANGED <<durable, mishaps, writes>>
-----------------------------------------------------------------------------
(* A kill at any point, or an error of the journal's own I/O, of recover   *)
(* or of the rollback, which all return without another write.             *)
Die ==
    /\ pc # "idle"
    /\ Mishap("death")
    /\ Release
    /\ UNCHANGED <<durable, writes>>

(* Someone else writes a real file, lock or no lock. *)
OutsideEdit(f, c) ==
    /\ Mishap("edit")
    /\ real[f] # c
    /\ real' = [real EXCEPT ![f] = c]
    /\ outside' = IF pc = "idle" THEN outside ELSE outside \cup {f}
    /\ UNCHANGED <<indexed, journal, marks, volatile, writes>>

ApplyStep ==
    \/ \E S \in (SUBSET Files) \ {{}} : \E after \in [S -> Blob] : Planned(S, after)
    \/ PlanConflict \/ PlanBails \/ WriteIntent \/ WriteMarker
    \/ \E f \in Files : RefreshBaseline(f) \/ ApplyWrite(f) \/ Reindex(f)
    \/ AllDriven \/ Seal \/ Unmark \/ PruneOne \/ PruneDone

RecoverStep ==
    \/ RecoverEntry \/ LeaveApplying \/ RecoverDone
    \/ \E f \in Files : RecoverCheck(f) \/ RecoverWrite(f)

(* What the lock holder does by itself. *)
Step ==
    \/ \E i \in Ids : HealMarker(i)
    \/ EnsureRefuses \/ EnsurePasses \/ Sync
    \/ ApplyStep \/ RecoverStep
    \/ ReindexFindsNothing

Next ==
    \/ Start("apply") \/ Start("sync") \/ StartRecover \/ NoopWrite
    \/ Step \/ ApplyFails \/ Die
    \/ \E f \in Files, c \in Blob : OutsideEdit(f, c)

Spec == Init /\ [][Next]_vars

(* The code that holds the lock runs on by itself; nothing obliges a user  *)
(* to start a command, a step to fail or a process to die.                 *)
FairSpec == Spec /\ WF_vars(Step)
-----------------------------------------------------------------------------
(* A marker always names a journal entry that is there: pruning never takes *)
(* an entry from under its marker, which would refuse every later command   *)
(* (journal.rs, ensure_no_interrupted_apply and prune_terminal_entries).    *)
MarkerNamesEntry == \A i \in markers : status[i] # "none"

(* An apply that has written a real file and has no terminal entry is       *)
(* visible to the check every command makes: its marker is there, or the    *)
(* marker directory is not and the whole journal is read.                   *)
TornApplyIsMarked ==
    \A i \in begun : status[i] = "applying" => i \in markers \/ ~markerDir

(* At most one apply is in flight or interrupted by its marker.             *)
OneMarkedApply ==
    \A i, j \in markers : {i, j} \subseteq Applying => i = j

(* What the check every command makes rests on: markers neither dangle nor  *)
(* miss a torn apply, and name one unfinished apply at most.                *)
MarkersAreSound == MarkerNamesEntry /\ TornApplyIsMarked /\ OneMarkedApply

(* No apply plans or writes, and no sync renders, over the half-written     *)
(* files of another apply (patch.rs and index.rs call the check first).     *)
NoWorkOverTornApply ==
    pc \notin {"idle", "ensure"} /\ kind \in {"apply", "sync"}
      => \A i \in begun : status[i] = "applying" => i = cur

(* An entry becomes "success" only when every file it names holds the       *)
(* planned content and is indexed with it, unless someone else wrote the    *)
(* file meanwhile.                                                          *)
SuccessIsComplete ==
    [][\A i \in Ids : status[i] = "applying" /\ status'[i] = "success"
         => \A f \in DOMAIN pending[i].after :
              \/ f \in outside
              \/ real[f] = pending[i].after[f] /\ indexed[f] = real[f]]_vars

(* What the rollback of a failed apply, or recover --rollback, may leave    *)
(* unrestored: at most the one file whose set_file_state failed after its   *)
(* real write (commit_planned_apply undoes only the files it had pushed).   *)
Unrestored(i) ==
    {f \in DOMAIN pending[i].before \ outside : real[f] # pending[i].before[f]}

RollbackLeavesAtMostOne ==
    [][\A i \in Ids : status[i] = "applying" /\ status'[i] = "rolledback"
         => Cardinality(Unrestored(i)) <= 1]_vars

(* The documented rollback: "the changed real files are restored from the   *)
(* before-snapshots and the entry is marked rolled-back" (README.md:435).   *)
RollbackRestores ==
    [][\A i \in Ids : status[i] = "applying" /\ status'[i] = "rolledback"
         => Unrestored(i) = {}]_vars

(* "Leave the journal entry in applying so the workspace stays blocked      *)
(* until a human resolves it" (patch.rs:1175): after a recover that met a   *)
(* conflict, the next command's check refuses.                              *)
ContestedStaysBlocked ==
    \A i \in contested : status[i] = "applying" => i \in markers \/ ~markerDir

(* recover without --force replaces only content the entry recorded; newer  *)
(* work is left alone, edits made while recover runs excepted.              *)
RecoverKeepsNewerWork ==
    [][\A f \in Files : kind = "recover" /\ ~force /\ real'[f] # real[f]
         => \/ f \in outside'
            \/ real[f] \in {pending[cur].before[f], pending[cur].after[f]}]_vars

(* Whoever takes the lock gives it back: the check, the file loop, the      *)
(* rollback, the pruning loop and recover's queue all end.                  *)
LockIsReleased == pc # "idle" ~> pc = "idle"

(* Once nothing dies and nobody else edits, recover --force leaves no       *)
(* interrupted apply behind, whatever the files hold.                       *)
Quiet == mishaps = MaxMishaps
ForcedRecoveryUnblocks ==
    pc = "scan" /\ force /\ queue = Applying /\ Quiet ~> Applying = {}

(* No command and no interrupted apply keeps a workspace for ever.          *)
WorkspaceIsFreed == LockIsReleased /\ ForcedRecoveryUnblocks
-----------------------------------------------------------------------------
(* The inductive invariant behind the safety properties: what holds at each  *)
(* place of the program.                                                    *)
IdsFresh ==    \* an id is new when it is allocated
    \A i \in Ids : i >= nextId =>
        status[i] = "none" /\ i \notin markers /\ i \notin begun

FilesDriven ==    \* only files of the plan are driven, one at a time
    /\ todo \cup busy \cup done \subseteq DOMAIN plan.after
    /\ pc \notin {"drive", "reindex"} => busy = {}
    /\ \A f, g \in busy : f = g
    /\ kind # "apply" => done = {}
    /\ pc \notin {"next", "drive", "reindex"} => todo = {}

KindAtPc ==
    /\ pc = "idle" => kind = "none"
    /\ pc \in {"idle", "ensure", "plan"} => plan = NoPlan /\ todo = {} /\ done = {}
    /\ pc \in {"ensure", "plan", "intent", "mark", "prune", "sync"}
         => kind \in {"apply", "sync"}
    /\ pc \in {"plan", "intent", "mark", "prune"} => kind = "apply"
    /\ pc \in {"scan", "drive"} => kind = "recover"
    /\ pc \in {"next", "reindex", "seal", "unmark"} => kind \in {"apply", "recover"}
    /\ clash => kind = "recover"

(* Past the check, an apply sees no marker but its own. *)
MarkersAtPc ==
    /\ markers # {} => markerDir
    /\ pc \in {"plan", "intent", "mark", "prune", "sync"} => markerDir /\ markers = {}
    /\ pc \in {"next", "reindex", "seal", "unmark"} /\ kind = "apply"
         => markerDir /\ markers = {cur}

(* The entry worked on is applying until it is sealed. *)
EntryAtPc ==
    /\ pc \in {"mark", "next", "drive", "reindex", "seal", "unmark"}
         => cur \in Ids /\ cur < nextId
    /\ pc \in {"mark", "next", "drive", "reindex", "seal"} => status[cur] = "applying"
    /\ pc = "unmark" => cur \in Terminal
    /\ pc \in {"idle", "ensure", "plan", "intent", "scan", "sync"} => cur = 0
    /\ queue \subseteq Applying \ {cur}
    /\ pc = "mark" => cur \notin begun

(* Going forward, the files already driven hold the planned content. *)
DrivenAtPc ==
    /\ pc \in {"mark", "next", "drive", "reindex", "seal"} => plan = pending[cur]
    /\ pc = "seal" => ~clash
    /\ busy \subseteq todo
    /\ pc = "reindex" => \A f \in busy : f \in outside \/ real[f] = Target(f)
    /\ pc \in {"next", "drive", "reindex", "seal"} /\ goal = "forward" /\ ~clash
         => \A f \in DOMAIN plan.after \ todo :
              \/ f \in outside
              \/ real[f] = plan.after[f] /\ indexed[f] = real[f]

IInv ==
    /\ TypeOK
    /\ MarkerNamesEntry /\ TornApplyIsMarked /\ OneMarkedApply
    /\ IdsFresh /\ FilesDriven /\ KindAtPc /\ MarkersAtPc /\ EntryAtPc
    /\ DrivenAtPc
-----------------------------------------------------------------------------
(* Seen from outside, an apply is a plan that stays in doubt from its first *)
(* real write until its terminal entry.                                     *)
Doubt == {[id |-> i, before |-> pending[i].before, after |-> pending[i].after] :
            i \in (begun \cup redone) \cap Applying}

View == [f \in Files |-> IF \E d \in Doubt : f \in DOMAIN d.after
                         THEN "in doubt" ELSE real[f]]

Atomic == INSTANCE AtomicApply
            WITH view <- View, doubt <- Doubt, InDoubt <- "in doubt"

(* Every behaviour of the journal protocol is one of atomic applies.        *)
ImplementsAtomicApply == Atomic!Spec
=============================================================================
