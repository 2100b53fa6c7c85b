----------------------------- MODULE MirrorSync -----------------------------
(***************************************************************************)
(* The indexer of src/index.rs and the edit projection of src/patch.rs:    *)
(* what keeps, for each real file, a sanitized mirror the agent may edit,  *)
(* a span map and a database row in step with it.                          *)
(*                                                                         *)
(* All of the program's steps run under the exclusive workspace lock, so   *)
(* one operation is under way at a time.  Developers edit real files and   *)
(* the agent edits mirror files at any moment, without the lock.           *)
(*                                                                         *)
(* A rendering is a function of the text and of the logic fingerprint.  Of *)
(* the fingerprint only the part that one file can change for another is   *)
(* kept: whether some tracked file declares a protected identifier.  A     *)
(* file's mtime and size are one stamp that every write of it changes.     *)
(* An agent's edit of a mirror keeps the rendering it was made on and has  *)
(* an identity of its own.                                                 *)
(***************************************************************************)
EXTENDS Naturals

CONSTANTS Files,
          Contents,
          Absent,      \* no such file, map or row
          Public,      \* the contents that declare a protected identifier
          MaxTicks,    \* bound: writes of real files
          MaxMishaps,  \* bound: agent edits, failing reads, deaths, losses
          MishapKinds  \* which of them may happen

ASSUME ContentsAssumption == Public \subseteq Contents /\ Absent \notin Contents
ASSUME BoundsAssumption == MaxTicks \in Nat /\ MaxMishaps \in Nat
ASSUME MishapAssumption ==
    MishapKinds \subseteq {"agent", "unreadable", "death", "dbloss", "power"}

VARIABLES
    real, stamp,  \* the repository: content and (mtime, size) of each file
    ticks,        \* the clock behind the stamps: writes so far
    mirror,       \* the sanitized files, agent edits included
    map,          \* the span maps: which rendering they describe
    row,          \* files and index_state in the database
    settled,      \* per file, the mirror content a power loss may bring back
    kept,         \* edits with a copy under journal/discarded or in the journal
    pc, op, force,\* where the lock holder is, what it runs, force_mirror
    todo, seen,   \* files of this phase still to do, files the sweep spares
    missed,       \* files of directories that could not be read
    cand,         \* the candidates of a full pass
    logic,        \* the fingerprint this pass renders under
    cur, now, old,\* the file being rendered, what was read, the mirror seen
    edit, drifted,\* project_mirror_edit: the captured mirror, its drift check
    mishaps,
    made,         \* history: the agent's edits that no later one replaced
    landed,       \* history: edits that were projected onto the real file
    raced,        \* history: edits saved between the look at a mirror and its write
    dropped,      \* history: edits that went with a real file that was gone
    overlooked,   \* history: edits that went unseen, by a directory or a mirror
                  \* that could not be read
    vouched,      \* history: edits made on a mirror that its row described, and
                  \* that neither the row nor an older mirror was lost under
    touched       \* history: files written by others since the lock was taken

repo    == <<real, stamp, ticks>>
disk    == <<repo, mirror, map, row, settled, kept>>
job     == <<op, force, todo, seen, missed, cand, logic, cur, now, old, edit, drifted>>
history == <<made, landed, raced, dropped, overlooked, vouched>>
vars    == <<disk, pc, job, mishaps, history, touched>>

Nothing == [text |-> Absent, stamp |-> 0]
Edits   == 1..MaxMishaps    \* an agent edit is named by its turn
Renders == [text : Contents, logic : BOOLEAN, edit : Edits \cup {0}]
Render(c, l) == [text |-> c, logic |-> l, edit |-> 0]
Rows    == [sha : Contents, logic : BOOLEAN, stamp : 0..MaxTicks]
\* what a pass knows of a file before it renders it
Cands   == [text : Contents, stamp : 0..MaxTicks, fast : BOOLEAN]
ASSUME AbsentAssumption == Absent \notin Cands \cup Renders \cup Rows
Hash(r) == Render(r.sha, r.logic)    \* files.sanitized_hash of a row
\* kept only where a power loss may come
Unsynced(m) == IF "power" \in MishapKinds THEN m ELSE Absent
Recorded(f) == IF row[f] = Absent THEN {} ELSE {Hash(row[f])}
Tracked == {f \in Files : row[f] # Absent}
Protects(S) == S \cap Public # {}
EditOf(m) == IF m = Absent THEN {} ELSE {m.edit} \ {0}

TypeOK ==
    /\ real \in [Files -> Contents \cup {Absent}] /\ stamp \in [Files -> 0..MaxTicks]
    /\ ticks \in 0..MaxTicks
    /\ mirror \in [Files -> Renders \cup {Absent}]
    /\ settled \in [Files -> Renders \cup {Absent}]
    /\ map \in [Files -> Renders \cup {Absent}]
    /\ row \in [Files -> Rows \cup {Absent}]
    /\ kept \subseteq Edits
    /\ pc \in {"idle", "scan", "read", "files", "look", "stash", "mirror", "map",
               "upsert", "reconverge", "sweep", "dropmirror", "dropmap",
               "one", "drift", "apply", "end"}
    /\ op \in {"none", "full", "one", "project", "bridge"} /\ force \in BOOLEAN
    /\ todo \subseteq Files /\ seen \subseteq Files /\ missed \subseteq Files
    /\ cand \in [Files -> Cands \cup {Absent}]
    /\ logic \in BOOLEAN /\ drifted \in BOOLEAN
    /\ cur \in Files \cup {Absent}
    /\ now \in [text : Contents \cup {Absent}, stamp : 0..MaxTicks]
    /\ old \in Renders \cup {Absent} /\ edit \in Renders \cup {Absent}
    /\ mishaps \in 0..MaxMishaps
    /\ made \subseteq Edits /\ landed \subseteq Edits /\ raced \subseteq Edits
    /\ dropped \subseteq Edits /\ overlooked \subseteq Edits /\ vouched \subseteq Edits
    /\ touched \subseteq Files
-----------------------------------------------------------------------------
NoJob ==
    /\ op = "none" /\ force = FALSE /\ todo = {} /\ seen = {} /\ missed = {}
    /\ cand = [f \in Files |-> Absent] /\ logic = FALSE
    /\ cur = Absent /\ now = Nothing /\ old = Absent
    /\ edit = Absent /\ drifted = FALSE
    /\ touched = {}

(* `init` has run; nothing is indexed yet. *)
Init ==
    /\ real \in [Files -> Contents \cup {Absent}] /\ stamp = [f \in Files |-> 0]
    /\ ticks = 0
    /\ mirror = [f \in Files |-> Absent] /\ settled = mirror
    /\ map = [f \in Files |-> Absent] /\ row = [f \in Files |-> Absent]
    /\ kept = {}
    /\ pc = "idle" /\ NoJob
    /\ mishaps = 0
    /\ made = {} /\ landed = {} /\ raced = {} /\ dropped = {}
    /\ overlooked = {} /\ vouched = {}

(* A write of a real file, at the next tick of the clock. *)
Write(f, c) ==
    /\ ticks < MaxTicks /\ ticks' = ticks + 1
    /\ real' = [real EXCEPT ![f] = c] /\ stamp' = [stamp EXCEPT ![f] = ticks']

Mishap(k) == k \in MishapKinds /\ mishaps < MaxMishaps /\ mishaps' = mishaps + 1

Release ==
    /\ pc' = "idle" /\ op' = "none" /\ force' = FALSE /\ todo' = {} /\ seen' = {}
    /\ missed' = {} /\ cand' = [f \in Files |-> Absent] /\ logic' = FALSE
    /\ cur' = Absent /\ now' = Nothing /\ old' = Absent
    /\ edit' = Absent /\ drifted' = FALSE
    /\ touched' = {}

(* The rendering, or the removal, of one file is over. *)
Forget ==
    /\ now' = Nothing /\ old' = Absent
    /\ cur' = IF op = "project" THEN cur ELSE Absent

(* Where the rendering of a file returns to. *)
Return == IF op = "full" THEN "files" ELSE IF op = "project" THEN "apply" ELSE "end"
-----------------------------------------------------------------------------
(* A full pass, first phase: list the files, stat each, read those whose   *)
(* stamp the row does not know.                                            *)
Listing(forced) ==
    /\ pc' = "scan" /\ op' = "full" /\ force' = forced
    /\ todo' = {f \in Files : real[f] # Absent}
    /\ UNCHANGED <<disk, seen, missed, cand, logic, cur, now, old, edit, drifted,
                   mishaps, history, touched>>

StartFull(forced) == pc = "idle" /\ Listing(forced)

Fast(f) == row[f] # Absent /\ row[f].stamp = stamp[f]

Stat(f) ==
    /\ pc = "scan" /\ f \in todo
    /\ \/ /\ real[f] # Absent /\ Fast(f)
          /\ cand' = [cand EXCEPT ![f] = [text |-> row[f].sha, stamp |-> stamp[f],
                                          fast |-> TRUE]]
          /\ todo' = todo \ {f}
          /\ UNCHANGED <<pc, cur, now, seen>>
       \/ /\ real[f] # Absent /\ ~Fast(f)
          /\ pc' = "read" /\ cur' = f /\ now' = [now EXCEPT !.stamp = stamp[f]]
          /\ UNCHANGED <<cand, todo, seen>>
       \/ /\ real[f] = Absent    \* gone since the listing: reported, spared
          /\ seen' = seen \cup {f} /\ todo' = todo \ {f}
          /\ UNCHANGED <<pc, cur, now, cand>>
    /\ UNCHANGED <<disk, op, force, missed, logic, old, edit, drifted, mishaps,
                   history, touched>>

(* A directory cannot be read: one error for it, and none of its files is   *)
(* listed or spared.  (If it is the root, the pass ends, as by Die.)        *)
WalkFails(D) ==
    /\ pc = "scan" /\ D # {} /\ D \subseteq todo /\ Mishap("unreadable")
    /\ todo' = todo \ D /\ missed' = missed \cup D
    /\ UNCHANGED <<disk, pc, op, force, seen, cand, logic, cur, now, old, edit,
                   drifted, history, touched>>

(* Its metadata, probe or text cannot be read: reported, spared. *)
StatFails(f) ==
    /\ pc = "scan" /\ f \in todo /\ Mishap("unreadable")
    /\ seen' = seen \cup {f} /\ todo' = todo \ {f}
    /\ UNCHANGED <<disk, pc, op, force, missed, cand, logic, cur, now, old, edit,
                   drifted, history, touched>>

ReadCandidate ==
    /\ pc = "read"
    /\ IF real[cur] = Absent
       THEN seen' = seen \cup {cur} /\ UNCHANGED cand
       ELSE /\ cand' = [cand EXCEPT ![cur] = [text |-> real[cur], stamp |-> now.stamp,
                                              fast |-> FALSE]]
            /\ UNCHANGED seen
    /\ todo' = todo \ {cur}
    /\ pc' = "scan" /\ Forget
    /\ UNCHANGED <<disk, op, force, missed, logic, edit, drifted, mishaps, history,
                   touched>>

Candidates == {f \in Files : cand[f] # Absent}

\* mutant: the union is what the rows say before this pass
UnionStored == Protects({row[f].sha : f \in Tracked})
Union == Protects({cand[f].text : f \in Candidates})

ScanDone ==
    /\ pc = "scan" /\ todo = {}
    /\ logic' = Union
    /\ todo' = Candidates /\ seen' = seen \cup Candidates
    /\ pc' = "files"
    /\ UNCHANGED <<disk, op, force, missed, cand, cur, now, old, edit, drifted, mishaps,
                   history, touched>>

(* Second phase: skip what is unchanged by stamp, then by hash; render the rest. *)
RenderedForced(f) == row[f] # Absent /\ row[f].logic = logic    \* mutant
                     /\ mirror[f] # Absent /\ map[f] # Absent
Rendered(f) == ~force /\ row[f] # Absent /\ row[f].logic = logic
               /\ mirror[f] # Absent /\ map[f] # Absent

StampLate(f) == stamp[f]    \* mutant: the file is stat'ed again to be stored
StampRead(f) == cand[f].stamp

SkipFast(f) ==
    /\ pc = "files" /\ f \in todo
    /\ cand[f].fast /\ Rendered(f)
    /\ todo' = todo \ {f}
    /\ UNCHANGED <<disk, pc, op, force, seen, missed, cand, logic, cur, now, old,
                   edit, drifted, mishaps, history, touched>>

Load(f) ==
    /\ pc = "files" /\ f \in todo
    /\ ~(cand[f].fast /\ Rendered(f))
    /\ LET text == IF cand[f].fast THEN real[f] ELSE cand[f].text
           same == Rendered(f) /\ row[f].sha = text
       IN  \/ /\ text = Absent \* became unreadable: reported, spared
              /\ todo' = todo \ {f}
              /\ UNCHANGED <<row, pc, cur, now>>
           \/ /\ text # Absent /\ same
              /\ row' = [row EXCEPT ![f].stamp = StampRead(f)]
              /\ todo' = todo \ {f}
              /\ UNCHANGED <<pc, cur, now>>
           \/ /\ text # Absent /\ ~same
              /\ pc' = "look" /\ cur' = f
              /\ now' = [text |-> text, stamp |-> StampRead(f)]
              /\ UNCHANGED <<row, todo>>
    /\ UNCHANGED <<repo, mirror, map, settled, kept, op, force, seen, missed, cand,
                   logic, old, edit, drifted, mishaps, history, touched>>
-----------------------------------------------------------------------------
(* render_and_store.  A mirror that is neither the new rendering nor what  *)
(* the row recorded is taken for an edit of the agent.                     *)
PendingIfTracked(m) ==    \* mutant: without a row, the mirror is ours
    /\ m # Absent /\ m # Render(now.text, logic)
    /\ row[cur] # Absent /\ m \notin Recorded(cur)
PendingEdit(m) ==
    /\ m # Absent /\ m # Render(now.text, logic)
    /\ m \notin Recorded(cur)

Look ==
    /\ pc = "look"
    /\ \/ /\ ~PendingEdit(mirror[cur])
          /\ pc' = "mirror" /\ old' = mirror[cur] /\ UNCHANGED <<todo, cur, now>>
       \/ /\ PendingEdit(mirror[cur]) /\ force
          /\ pc' = "stash" /\ old' = mirror[cur] /\ UNCHANGED <<todo, cur, now>>
       \/ /\ PendingEdit(mirror[cur]) /\ ~force
          /\ pc' = Return /\ todo' = todo \ {cur} /\ Forget
    /\ UNCHANGED <<disk, op, force, seen, missed, cand, logic, edit, drifted, mishaps,
                   history, touched>>

(* The mirror is there but cannot be read, or is not UTF-8: it counts as    *)
(* absent, so that it is neither pending nor worth a copy.                  *)
LookFails ==
    /\ pc = "look" /\ mirror[cur] # Absent /\ Mishap("unreadable")
    /\ pc' = "mirror" /\ old' = Absent
    /\ UNCHANGED <<disk, op, force, todo, seen, missed, cand, logic, cur, now, edit,
                   drifted, history, touched>>

Stash ==
    /\ pc = "stash"
    /\ kept' = kept \cup EditOf(old)
    /\ pc' = "mirror"
    /\ UNCHANGED <<repo, mirror, map, row, settled, job, mishaps, history,
                   touched>>

WriteMirror ==
    /\ pc = "mirror"
    /\ mirror' = [mirror EXCEPT ![cur] = Render(now.text, logic)]
    /\ settled' = [settled EXCEPT ![cur] = Unsynced(mirror[cur])]
    /\ raced' = IF old \in {Absent, mirror[cur]} THEN raced
                ELSE raced \cup EditOf(mirror[cur])
    /\ overlooked' = IF old # Absent THEN overlooked
                     ELSE overlooked \cup EditOf(mirror[cur])
    /\ pc' = "map"
    /\ UNCHANGED <<repo, map, row, kept, job, mishaps, made, landed, dropped,
                   vouched, touched>>

WriteMap ==
    /\ pc = "map"
    /\ map' = [map EXCEPT ![cur] = Render(now.text, logic)]
    /\ pc' = "upsert"
    /\ UNCHANGED <<repo, mirror, row, settled, kept, job, mishaps, history,
                   touched>>

Declared(r) == r # Absent /\ r.sha \in Public
ProtectedChanged == Declared(row[cur]) # (now.text \in Public)

Upsert ==
    /\ pc = "upsert"
    /\ row' = [row EXCEPT ![cur] = [sha |-> now.text, logic |-> logic,
                                    stamp |-> now.stamp]]
    /\ pc' = IF op = "bridge" /\ ProtectedChanged THEN "reconverge" ELSE Return
    /\ todo' = todo \ {cur} /\ Forget
    /\ UNCHANGED <<repo, mirror, map, settled, kept, op, force, seen, missed, cand,
                   logic, edit, drifted, mishaps, history, touched>>

(* The patch bridge follows its reindex by a full pass if what the file    *)
(* declares has changed; sync of one file does not.                        *)
Reconverge == pc = "reconverge" /\ Listing(FALSE)
-----------------------------------------------------------------------------
(* Last phase: a tracked file the pass did not see loses row, mirror, map. *)
SparedRead == Candidates    \* mutant: a file that failed to read is not spared
Spared == seen

StartSweep ==
    /\ pc = "files" /\ todo = {}
    /\ todo' = Tracked \ Spared
    /\ pc' = "sweep"
    /\ UNCHANGED <<disk, op, force, seen, missed, cand, logic, cur, now, old, edit,
                   drifted, mishaps, history, touched>>

DropRow(f) ==
    /\ pc = "sweep" /\ f \in todo
    /\ row' = [row EXCEPT ![f] = Absent]
    /\ cur' = f /\ todo' = todo \ {f}
    /\ pc' = "dropmirror"
    /\ vouched' = vouched \ EditOf(mirror[f])
    /\ UNCHANGED <<repo, mirror, map, settled, kept, op, force, seen, missed, cand,
                   logic, now, old, edit, drifted, mishaps, made, landed, raced,
                   dropped, overlooked, touched>>

DropMirror ==
    /\ pc = "dropmirror"
    /\ mirror' = [mirror EXCEPT ![cur] = Absent]
    /\ settled' = [settled EXCEPT ![cur] = Unsynced(mirror[cur])]
    /\ dropped' = IF real[cur] = Absent \/ cur \in touched
                  THEN dropped \cup EditOf(mirror[cur]) ELSE dropped
    /\ overlooked' = IF cur \in missed
                     THEN overlooked \cup EditOf(mirror[cur]) ELSE overlooked
    /\ pc' = "dropmap"
    /\ UNCHANGED <<repo, map, row, kept, job, mishaps, made, landed, raced, vouched,
                   touched>>

DropMap ==
    /\ pc = "dropmap"
    /\ map' = [map EXCEPT ![cur] = Absent]
    /\ pc' = "sweep" /\ Forget
    /\ UNCHANGED <<repo, mirror, row, settled, kept, op, force, todo, seen, missed,
                   cand, logic, edit, drifted, mishaps, history, touched>>

SweepDone ==
    /\ pc = "sweep" /\ todo = {}
    /\ pc' = "end"
    /\ UNCHANGED <<disk, job, mishaps, history, touched>>
-----------------------------------------------------------------------------
(* sync --path f [--force].  Whether f is there is asked with exists(),     *)
(* which says no of a file in a directory that cannot be read.              *)
StartOne(f, forced) ==
    /\ pc = "idle"
    /\ op' = "one" /\ force' = forced
    /\ \/ /\ real[f] = Absent /\ ~forced
          /\ pc' = "sweep" /\ todo' = {f} /\ UNCHANGED <<cur, missed, mishaps>>
       \/ /\ real[f] # Absent /\ ~forced /\ Mishap("unreadable")
          /\ pc' = "sweep" /\ todo' = {f} /\ missed' = {f} /\ UNCHANGED cur
       \/ /\ real[f] # Absent
          /\ pc' = "one" /\ cur' = f /\ UNCHANGED <<todo, missed, mishaps>>
    /\ UNCHANGED <<disk, seen, cand, logic, now, old, edit, drifted, history,
                   touched>>

(* index_single_file_locked: a consistent read, and the union of the other *)
(* rows with what this file declares.  A file that is gone ends the run.   *)
Readable == real[cur] # Absent

ReadOne ==
    /\ pc = "one"
    /\ \/ ~Readable /\ Release
       \/ /\ Readable
          /\ now' = [text |-> real[cur], stamp |-> stamp[cur]]
          /\ logic' = Protects({row[f].sha : f \in Tracked \ {cur}} \cup {real[cur]})
          /\ pc' = "look"
          /\ UNCHANGED <<op, force, todo, seen, missed, cand, cur, old, edit, drifted,
                         touched>>
    /\ UNCHANGED <<disk, mishaps, history>>
-----------------------------------------------------------------------------
(* project_mirror_edit: capture the edited mirror, look whether the real   *)
(* file is the one the row knows, reset the mirror, then drive the edit    *)
(* through the patch bridge.                                               *)
StartProject(f) ==
    /\ pc = "idle"
    /\ mirror[f] # Absent /\ real[f] # Absent
    /\ pc' = "drift" /\ op' = "project" /\ force' = TRUE /\ cur' = f
    /\ edit' = mirror[f]
    /\ UNCHANGED <<disk, todo, seen, missed, cand, logic, now, old, drifted, mishaps,
                   history, touched>>

DriftNever == FALSE    \* mutant: the drift check is forgotten
Drift == row[cur] # Absent /\ row[cur].sha # real[cur]

CheckDrift ==
    /\ pc = "drift"
    /\ drifted' = Drift
    /\ pc' = "one"
    /\ UNCHANGED <<disk, op, force, todo, seen, missed, cand, logic, cur, now, old,
                   edit, mishaps, history, touched>>

(* Drifted: the edit goes to a conflict entry. *)
RecordEdit ==
    /\ pc = "apply" /\ drifted
    /\ kept' = kept \cup EditOf(edit)
    /\ pc' = "end"
    /\ UNCHANGED <<repo, mirror, map, row, settled, job, mishaps, history,
                   touched>>

(* Nothing to project, or the bridge reports a conflict. *)
NoProjection ==
    /\ pc = "apply" /\ ~drifted
    /\ pc' = "end"
    /\ UNCHANGED <<disk, job, mishaps, history, touched>>

(* The bridge checks real file and mirror against the row once more, then  *)
(* writes the real file and indexes it again (ApplyJournal has the steps). *)
Project(c) ==
    /\ pc = "apply" /\ ~drifted
    /\ edit # mirror[cur]
    /\ mirror[cur] \in Recorded(cur) /\ real[cur] = row[cur].sha
    /\ Write(cur, c)
    /\ landed' = landed \cup EditOf(edit)
    /\ pc' = "one" /\ op' = "bridge"
    /\ UNCHANGED <<mirror, map, row, settled, kept, force, todo, seen, missed, cand,
                   logic, cur, now, old, edit, drifted, mishaps, made, raced, dropped,
                   overlooked, vouched, touched>>

Finish ==
    /\ pc = "end"
    /\ Release
    /\ UNCHANGED <<disk, mishaps, history>>
-----------------------------------------------------------------------------
Touch(f) == touched' = IF pc = "idle" THEN {} ELSE touched \cup {f}

(* A developer writes, creates or deletes a real file. *)
DevEdit(f, c) ==
    /\ real[f] # c /\ Write(f, c)
    /\ Touch(f)
    /\ UNCHANGED <<mirror, map, row, settled, kept, pc, job, mishaps, history>>

(* The agent saves an edit of a mirror file, on top of an earlier one if   *)
(* there is one.                                                           *)
AgentEdit(f) ==
    /\ mirror[f] # Absent /\ Mishap("agent")
    /\ mirror' = [mirror EXCEPT ![f].edit = mishaps']
    /\ settled' = [settled EXCEPT ![f] = Unsynced(mirror'[f])]
    /\ made' = (made \ EditOf(mirror[f])) \cup {mishaps'}
    /\ vouched' = IF \/ EditOf(mirror[f]) \cap vouched # {}
                     \/ mirror[f] \in Recorded(f)
                  THEN vouched \cup {mishaps'} ELSE vouched
    /\ Touch(f)
    /\ UNCHANGED <<repo, map, row, kept, pc, job, landed, raced, dropped, overlooked>>

(* The process dies, or an error other than the above ends its command: of  *)
(* the database, of a write, of the root of the walk.                       *)
Die ==
    /\ pc # "idle" /\ Mishap("death")
    /\ Release
    /\ UNCHANGED <<disk, history>>

(* Someone deletes db.sqlite, the documented remedy for a corrupt one. *)
DatabaseLoss ==
    /\ pc = "idle" /\ Mishap("dbloss")
    /\ row' = [f \in Files |-> Absent] /\ vouched' = {}
    /\ UNCHANGED <<repo, mirror, map, settled, kept, pc, job, made, landed, raced,
                   dropped, overlooked, touched>>

(* Mirrors are renamed into place without fsync: the last rename of some   *)
(* may be lost.                                                            *)
PowerLoss ==
    /\ Mishap("power")
    /\ \E S \in SUBSET Files :
         mirror' = [f \in Files |-> IF f \in S THEN settled[f] ELSE mirror[f]]
    /\ settled' = [f \in Files |-> Unsynced(mirror'[f])]
    /\ vouched' = vouched \ UNION {EditOf(mirror'[f]) :
                                      f \in {g \in Files : mirror'[g] # mirror[g]}}
    /\ Release
    /\ UNCHANGED <<repo, map, row, kept, made, landed, raced, dropped, overlooked>>

Step ==
    \/ \E f \in Files : Stat(f) \/ StatFails(f) \/ SkipFast(f) \/ Load(f) \/ DropRow(f)
    \/ \E D \in SUBSET Files : WalkFails(D)
    \/ ReadCandidate \/ ScanDone \/ Look \/ LookFails \/ Stash \/ WriteMirror \/ WriteMap
    \/ Upsert \/ Reconverge \/ StartSweep \/ DropMirror \/ DropMap \/ SweepDone
    \/ ReadOne \/ CheckDrift \/ RecordEdit \/ NoProjection \/ Finish
    \/ \E c \in Contents : Project(c)

Outside ==
    \/ \E f \in Files, c \in Contents \cup {Absent} : DevEdit(f, c)
    \/ \E f \in Files : AgentEdit(f)

Next ==
    \/ \E forced \in BOOLEAN :
         StartFull(forced) \/ \E f \in Files : StartOne(f, forced)
    \/ \E f \in Files : StartProject(f)
    \/ Step \/ Outside \/ Die \/ DatabaseLoss \/ PowerLoss

Spec == Init /\ [][Next]_vars
-----------------------------------------------------------------------------
(* What verify reports (verify.rs): a tracked file whose mirror or map is   *)
(* not what it renders to under the real files, a mirror nobody tracks.     *)
RealUnion == Protects({real[f] : f \in Tracked})
VerifyFile(f) ==
    /\ real[f] # Absent
    /\ mirror[f] = Render(real[f], RealUnion)
    /\ map[f] = mirror[f]
UntrackedMirrors == {f \in Files \ Tracked : mirror[f] # Absent}
VerifyFailures == {f \in Tracked : ~VerifyFile(f)} \cup UntrackedMirrors
-----------------------------------------------------------------------------
(* The stamp pre-check never hides a change: a row whose stamp is the       *)
(* file's holds the file's content (index.rs, fast_path_matches).           *)
FastPathIsSound ==
    \A f \in Tracked : real[f] # Absent /\ row[f].stamp = stamp[f]
                         => row[f].sha = real[f]

(* An edit the agent saved is in the mirror, in a stash or conflict entry,  *)
(* or in the real file, at every moment and whoever dies, but for three     *)
(* cases: it was saved while its mirror was being written; its real file    *)
(* was deleted (and perhaps written again while the pass ran); or the       *)
(* program overlooked it, because the directory of the real file or the     *)
(* mirror itself could not be read and was taken for a missing one          *)
(* (index_workspace_locked, render_and_store, sync_single_file, project_mirror_edit).    *)
NoEditIsLost ==
    \A e \in made :
      \/ \E f \in Files : e \in EditOf(mirror[f])
      \/ e \in kept \cup landed \cup raced \cup dropped \cup overlooked

Now(f) == [sha |-> real[f], logic |-> Protects({real[g] : g \in Files})]

\* A command is over that met no error and that nobody wrote into.
Ended(o) == /\ pc = "end" /\ op = o
            /\ touched = {} /\ seen = Candidates /\ missed = {}

(* After a full pass, the mirror of a file is either what the real files    *)
(* render to now or one the patch bridge refuses (plan_modify compares it   *)
(* with the row): no patch is ever taken against a stale view.              *)
AcceptedMirrorIsCurrent ==
    Ended("full") => \A f \in Tracked :
      real[f] # Absent /\ mirror[f] = Hash(row[f]) => mirror[f] = Hash(Now(f))

(* sync --force converges, whatever deaths, losses and edits came before:   *)
(* verify has nothing to say of a file that is there, and its row vouches   *)
(* for its mirror, so that the patch bridge accepts edits of it ("it        *)
(* re-renders everything and resets pending mirror files", README.md:240).  *)
ForcedSyncConverges ==
    Ended("full") /\ force => \A f \in Files : real[f] # Absent =>
      f \in Tracked /\ f \notin VerifyFailures /\ mirror[f] = Hash(row[f])

(* The sweep takes row, mirror and map of no file that is there, a file     *)
(* whose metadata, type or text could not be read included, unless it came  *)
(* back during the pass or the walk could not read its directory            *)
(* (index.rs:173, an error that `seen` knows nothing of).                   *)
SweepSparesFiles ==
    [][\A f \in Files : pc = "sweep" /\ op = "full" /\ row'[f] # row[f]
         => real[f] = Absent \/ f \in touched \cup missed]_vars

(* "`seen` ... must include files that errored: an unreadable file keeps    *)
(* its previous mirror/map/db row instead of being swept as if it were      *)
(* deleted" (index.rs:159): SweepSparesFiles with no directory excepted.    *)
UnreadableIsKept ==
    [][\A f \in Files : pc = "sweep" /\ op = "full" /\ row'[f] # row[f]
         => real[f] = Absent \/ f \in touched]_vars

(* An edit made on a mirror that its row described lands only on the        *)
(* content it was made against, unless someone writes the file during the   *)
(* projection.  The two have stayed together since: db.sqlite was not       *)
(* deleted, no sweep took the row, no power loss brought back an older      *)
(* mirror (project_mirror_edit).                                            *)
EditLandsOnItsBase ==
    [][\A f \in Files : pc = "apply" /\ real'[f] # real[f] /\ f \notin touched'
         /\ EditOf(edit) \cap vouched # {} => real[f] = edit.text]_vars

(* "Blindly diffing against a refreshed baseline would silently revert the  *)
(* external change" (patch.rs:799): the same of any edit.                   *)
EveryEditLandsOnItsBase ==
    [][\A f \in Files : pc = "apply" /\ real'[f] # real[f] /\ f \notin touched'
         /\ EditOf(edit) # {} => real[f] = edit.text]_vars

(* "Mirror files holding a pending agent edit are never clobbered by        *)
(* sync/index" (README.md:236).                                             *)
PendingIsNeverClobbered ==
    [][pc = "mirror" /\ ~force /\ mirror' # mirror
         => EditOf(mirror[cur]) \subseteq kept]_vars

(* A mirror that cannot be shown to be the program's own rendering "counts  *)
(* as pending too: fail safe ... Only `sync --force` may reset it, and that *)
(* stashes" (index.rs:1112): what the look lets pass uncopied is no edit.   *)
UnreadIsKept ==
    [][pc = "look" /\ pc' = "mirror" => EditOf(mirror[cur]) = {}]_vars

(* "A file that disappeared takes its targets with it" (README.md:229).     *)
VanishedTakesItsTargets ==
    Ended("full") => \A f \in Files : real[f] = Absent => mirror[f] = Absent

(* "Derived state (mirror, span maps) where a lost rename after power loss  *)
(* is repaired by sync" (fsutil.rs:9-12), in a workspace no agent edits.    *)
SyncRepairsMirrors ==
    Ended("full") => \A f \in Files : real[f] # Absent => mirror[f] = Hash(Now(f))

(* When the protected set of one file changes, "other files' renderings are *)
(* stale and the caller owes a reconverge pass" (index.rs:538): after       *)
(* sync --path no mirror the patch bridge accepts has a stale rendering.    *)
SingleSyncReconverges ==
    Ended("one") => \A f \in Tracked :
      mirror[f] = Hash(row[f]) => row[f].logic = Protects({row[g].sha : g \in Tracked})
=============================================================================
