-------------------------- MODULE MirrorSyncProofs --------------------------
(***************************************************************************)
(* MirrorSync for every set of files and contents, any number of writes,   *)
(* edits, deaths and losses: the stamp pre-check hides no change, the sweep *)
(* spares what is there and was not missed, no edit is lost but for three   *)
(* named cases, what a full pass promises of mirrors holds, and an edit     *)
(* that its row vouches for is projected onto the content it was made       *)
(* against.                                                                 *)
(***************************************************************************)
EXTENDS MirrorSync, TLAPS

(* The groups of variables that UNCHANGED names are always expanded. *)
USE DEF repo, disk, job, history

(***************************************************************************)
(* The inductive invariant                                                 *)
(***************************************************************************)

(* What the steps need to know of the shape of the state. *)
MirrorShape ==
    /\ real \in [Files -> Contents \cup {Absent}] /\ stamp \in [Files -> 0..MaxTicks]
    /\ ticks \in 0..MaxTicks
    /\ row \in [Files -> Rows \cup {Absent}]
    /\ cand \in [Files -> Cands \cup {Absent}]
    /\ now \in [text : Contents \cup {Absent}, stamp : 0..MaxTicks]
    /\ logic \in BOOLEAN
    /\ pc \in {"read", "look", "stash", "mirror", "map", "upsert", "one", "drift", "apply"}
         => cur \in Files
    /\ pc \in {"look", "stash", "mirror", "map", "upsert"} => now.text \in Contents
    /\ pc \in {"scan", "read", "files"} => op = "full"
    /\ pc \in {"one", "drift", "apply"} => op # "full"
    /\ op = "full" /\ pc \in {"files", "look", "stash", "mirror", "map", "upsert"}
         => todo \subseteq Candidates

(* A stamp is of the past, and the file's own stamp is of its own content. *)
Known(text, s, f) == s <= ticks /\ (s = stamp[f] => text = real[f])

(* All that the program remembers of real files is known in this sense, at *)
(* rest and in the middle of a pass.                                       *)
StampsAreKnown ==
    /\ \A f \in Files : stamp[f] <= ticks
    /\ \A f \in Files : row[f] # Absent => Known(row[f].sha, row[f].stamp, f)
    /\ \A f \in Files : cand[f] # Absent => Known(cand[f].text, cand[f].stamp, f)
    /\ pc = "read" => now.stamp <= ticks
    /\ pc \in {"look", "stash", "mirror", "map", "upsert"} => Known(now.text, now.stamp, cur)

(* A pass has every file that is there on its list, or has seen it, unless *)
(* somebody wrote it meanwhile or its directory could not be read; the     *)
(* sweep is for the others.                                                *)
FilesAreSeen ==
    /\ op = "full" /\ pc \in {"scan", "read"} =>
         \A f \in Files : real[f] # Absent =>
           f \in todo \cup seen \cup Candidates \cup touched \cup missed
    /\ op = "full" /\ pc \in {"files", "look", "stash", "mirror", "map", "upsert", "sweep",
                              "dropmirror", "dropmap"} =>
         \A f \in Files : real[f] # Absent => f \in seen \cup touched \cup missed
    /\ op = "full" /\ pc \in {"sweep", "dropmirror", "dropmap"} => todo \cap seen = {}

(* Of every command, the sweep takes what is gone, came back or was missed. *)
Gone(f) == real[f] = Absent \/ f \in touched \cup missed
SweptAreGone ==
    /\ pc \in {"sweep", "dropmirror", "dropmap"} => \A f \in todo : Gone(f)
    /\ pc = "dropmirror" => cur \in Files /\ Gone(cur)

MirrorInv == MirrorShape /\ StampsAreKnown /\ FilesAreSeen /\ SweptAreGone

(***************************************************************************)
(* The invariant is inductive                                              *)
(***************************************************************************)

(* What has been read before there is anything to read. *)
LEMMA NothingFits ==
  Nothing \in [text : Contents \cup {Absent}, stamp : 0..MaxTicks]
BY BoundsAssumption DEF Nothing

(* A candidate is one. *)
LEMMA CandFits ==
  ASSUME NEW t \in Contents, NEW s \in 0..MaxTicks, NEW b \in BOOLEAN
  PROVE  /\ [text |-> t, stamp |-> s, fast |-> b] \in Cands
         /\ [text |-> t, stamp |-> s, fast |-> b] # Absent
BY AbsentAssumption DEF Cands

(* A write is of a new tick, which nobody remembers. *)
LEMMA WriteKeepsKnown ==
  ASSUME MirrorShape, \A g \in Files : stamp[g] <= ticks, NEW f \in Files, NEW c, Write(f, c)
  PROVE  /\ \A g \in Files : (stamp[g] <= ticks)'
         /\ \A g \in Files, s \in 0..MaxTicks : \A t :
              Known(t, s, g) => s <= ticks' /\ (s = stamp'[g] => t = real'[g])
<1>1. /\ ticks \in Nat /\ ticks' = ticks + 1
      /\ \A g \in Files : /\ stamp[g] \in Nat
                          /\ stamp'[g] = IF g = f THEN ticks + 1 ELSE stamp[g]
                          /\ g # f => real'[g] = real[g]
  BY BoundsAssumption DEF MirrorShape, Write
<1>2. ASSUME NEW g \in Files, NEW s \in 0..MaxTicks, NEW t, Known(t, s, g)
      PROVE  s <= ticks' /\ (s = stamp'[g] => t = real'[g])
  BY <1>1, <1>2, BoundsAssumption DEF Known
<1> QED BY <1>1, <1>2

(* It holds at the start. *)
LEMMA InitMirrorInv == Init => MirrorInv
<1> SUFFICES ASSUME Init PROVE MirrorInv
  OBVIOUS
<1>0. SweptAreGone
  BY DEF Init, SweptAreGone
<1>1. MirrorShape
  <2>1. /\ real \in [Files -> Contents \cup {Absent}] /\ stamp \in [Files -> 0..MaxTicks]
        /\ ticks \in 0..MaxTicks
    BY BoundsAssumption DEF Init
  <2>2. row \in [Files -> Rows \cup {Absent}] /\ cand \in [Files -> Cands \cup {Absent}]
    BY DEF Init, NoJob
  <2>3. now \in [text : Contents \cup {Absent}, stamp : 0..MaxTicks] /\ logic \in BOOLEAN
    BY NothingFits DEF Init, NoJob
  <2> QED BY <2>1, <2>2, <2>3 DEF Init, MirrorShape
<1>2. StampsAreKnown
  BY DEF Init, NoJob, StampsAreKnown, Known
<1>3. FilesAreSeen
  BY DEF Init, NoJob, FilesAreSeen
<1> QED BY <1>0, <1>1, <1>2, <1>3 DEF MirrorInv

(* Every step keeps the sweep to what is gone. *)
LEMMA StepKeepsSwept == MirrorInv /\ [Next]_vars => SweptAreGone'
<1> SUFFICES ASSUME MirrorInv, [Next]_vars PROVE SweptAreGone'
  OBVIOUS
<1>0. MirrorShape /\ FilesAreSeen /\ SweptAreGone
  BY DEF MirrorInv
<1> USE DEF SweptAreGone, Gone
<1>1. CASE StartSweep
  BY <1>0, <1>1 DEF StartSweep, Spared, Tracked, FilesAreSeen, MirrorShape
<1>2. ASSUME NEW f \in Files, DropRow(f)
      PROVE  SweptAreGone'
  BY <1>0, <1>2 DEF DropRow
<1>3. CASE DropMirror \/ DropMap \/ SweepDone
  BY <1>0, <1>3 DEF DropMirror, DropMap, SweepDone
<1>4. ASSUME NEW f \in Files, NEW forced, StartOne(f, forced)
      PROVE  SweptAreGone'
  BY <1>4 DEF StartOne
<1>5. ASSUME NEW f \in Files, NEW c, DevEdit(f, c)
      PROVE  SweptAreGone'
  BY <1>0, <1>5 DEF DevEdit, Write, Touch, MirrorShape
<1>6. ASSUME NEW f \in Files, AgentEdit(f)
      PROVE  SweptAreGone'
  BY <1>0, <1>6 DEF AgentEdit, Touch
<1>7. CASE DatabaseLoss \/ UNCHANGED vars
  BY <1>0, <1>7 DEF DatabaseLoss, vars
<1>8. CASE \/ \E forced \in BOOLEAN : StartFull(forced)
           \/ \E f \in Files : StartProject(f)
           \/ \E f \in Files : Stat(f) \/ StatFails(f) \/ SkipFast(f) \/ Load(f)
           \/ \E D \in SUBSET Files : WalkFails(D)
           \/ ReadCandidate \/ ScanDone \/ Look \/ LookFails \/ Stash \/ WriteMirror
           \/ WriteMap \/ Upsert \/ Reconverge
  <2>1. pc' \notin {"sweep", "dropmirror", "dropmap"}
    BY <1>0, <1>8
    DEF StartFull, StartProject, Stat, StatFails, SkipFast, Load, WalkFails, ReadCandidate,
        ScanDone, Look, LookFails, Stash, WriteMirror, WriteMap, Upsert, Return, Reconverge,
        Listing
  <2> QED BY <2>1
<1>9. CASE \/ ReadOne \/ CheckDrift \/ RecordEdit \/ NoProjection \/ Finish
           \/ \E c \in Contents : Project(c)
           \/ Die \/ PowerLoss
  <2>1. pc' \notin {"sweep", "dropmirror", "dropmap"}
    BY <1>9
    DEF ReadOne, CheckDrift, RecordEdit, NoProjection, Finish, Project, Die, PowerLoss, Release
  <2> QED BY <2>1
<1> QED
  BY <1>1, <1>2, <1>3, <1>4, <1>5, <1>6, <1>7, <1>8, <1>9 DEF Next, Step, Outside

(* Every step keeps the invariant. *)
LEMMA StepKeepsMirrorInv == MirrorInv /\ [Next]_vars => MirrorInv'
<1> DEFINE Inv == MirrorShape /\ StampsAreKnown /\ FilesAreSeen
<1> SUFFICES ASSUME MirrorInv, [Next]_vars PROVE Inv'
  BY StepKeepsSwept DEF MirrorInv
<1> USE BoundsAssumption, ContentsAssumption, AbsentAssumption DEF MirrorInv
<1>0. ASSUME Release, UNCHANGED <<repo, row>>
      PROVE  Inv'
  <2>1. MirrorShape'
    BY <1>0, NothingFits DEF MirrorShape, Release
  <2>2. StampsAreKnown'
    BY <1>0 DEF StampsAreKnown, Known, Release
  <2>3. FilesAreSeen'
    BY <1>0 DEF FilesAreSeen, Release
  <2> QED BY <2>1, <2>2, <2>3
<1>1. ASSUME NEW forced \in BOOLEAN, pc = "idle" \/ pc = "reconverge", Listing(forced)
      PROVE  Inv'
  <2>1. MirrorShape'
    BY <1>1 DEF MirrorShape, Candidates, Listing
  <2>2. StampsAreKnown'
    BY <1>1 DEF MirrorShape, StampsAreKnown, Known, Listing
  <2>3. FilesAreSeen'
    BY <1>1, <2>1 DEF MirrorShape, FilesAreSeen, Candidates, Listing
  <2> QED BY <2>1, <2>2, <2>3
<1>2. ASSUME NEW f \in Files, Stat(f)
      PROVE  Inv'
  <2>1. row[f] # Absent => row[f].sha \in Contents
    BY DEF MirrorShape, Rows
  <2>2. CASE real[f] # Absent /\ Fast(f)
    <3> DEFINE c == [text |-> row[f].sha, stamp |-> stamp[f], fast |-> TRUE]
    <3>1. c \in Cands /\ c # Absent /\ c.text = row[f].sha /\ c.stamp = stamp[f]
      BY <2>1, <2>2, CandFits DEF MirrorShape, Fast
    <3> HIDE DEF c
    <3>2. /\ cand' = [cand EXCEPT ![f] = c] /\ todo' = todo \ {f}
          /\ UNCHANGED <<disk, pc, cur, now, seen, op, logic, missed, touched>>
      BY <1>2, <2>2 DEF Stat, c
    <3>3. MirrorShape'
      BY <1>2, <3>1, <3>2 DEF MirrorShape, Stat
    <3>4. StampsAreKnown'
      BY <2>2, <3>1, <3>2 DEF MirrorShape, StampsAreKnown, Known, Fast
    <3>5. Candidates' = Candidates \cup {f}
      BY <3>1, <3>2 DEF MirrorShape, Candidates
    <3>6. FilesAreSeen'
      BY <1>2, <3>2, <3>5 DEF FilesAreSeen, Stat
    <3> QED BY <3>3, <3>4, <3>6
  <2>3. CASE real[f] # Absent /\ ~Fast(f)
    <3>1. /\ pc = "scan" /\ pc' = "read" /\ cur' = f /\ now' = [now EXCEPT !.stamp = stamp[f]]
          /\ UNCHANGED <<disk, cand, todo, seen, op, logic, missed, touched>>
      BY <1>2, <2>3 DEF Stat
    <3>2. now' \in [text : Contents \cup {Absent}, stamp : 0..MaxTicks] /\ now'.stamp = stamp[f]
      BY <3>1 DEF MirrorShape
    <3>3. MirrorShape' /\ StampsAreKnown'
      BY <3>1, <3>2 DEF MirrorShape, StampsAreKnown, Known
    <3>4. FilesAreSeen'
      BY <3>1 DEF FilesAreSeen, Candidates
    <3> QED BY <3>3, <3>4
  <2>4. CASE real[f] = Absent
    BY <1>2, <2>4 DEF Stat, MirrorShape, StampsAreKnown, Known, FilesAreSeen, Candidates
  <2> QED BY <2>2, <2>3, <2>4
<1>3. ASSUME NEW f \in Files, StatFails(f)
      PROVE  Inv'
  <2>1. MirrorShape'
    BY <1>3 DEF MirrorShape, Candidates, StatFails
  <2>2. StampsAreKnown'
    BY <1>3 DEF MirrorShape, StampsAreKnown, Known, StatFails
  <2>3. FilesAreSeen'
    BY <1>3, <2>1 DEF MirrorShape, FilesAreSeen, Candidates, StatFails
  <2> QED BY <2>1, <2>2, <2>3
<1>30. ASSUME NEW D \in SUBSET Files, WalkFails(D)
      PROVE  Inv'
  <2>1. MirrorShape'
    BY <1>30 DEF MirrorShape, Candidates, WalkFails
  <2>2. StampsAreKnown'
    BY <1>30 DEF MirrorShape, StampsAreKnown, Known, WalkFails
  <2>3. FilesAreSeen'
    BY <1>30, <2>1 DEF MirrorShape, FilesAreSeen, Candidates, WalkFails
  <2> QED BY <2>1, <2>2, <2>3
<1>4. ASSUME NEW f \in Files, SkipFast(f)
      PROVE  Inv'
  <2>1. MirrorShape'
    BY <1>4 DEF MirrorShape, Candidates, SkipFast
  <2>2. StampsAreKnown'
    BY <1>4 DEF MirrorShape, StampsAreKnown, Known, SkipFast
  <2>3. FilesAreSeen'
    BY <1>4, <2>1 DEF MirrorShape, FilesAreSeen, Candidates, SkipFast
  <2> QED BY <2>1, <2>2, <2>3
<1>5. ASSUME NEW f \in Files, Load(f)
      PROVE  Inv'
  <2> DEFINE text == IF cand[f].fast THEN real[f] ELSE cand[f].text
             s == cand[f].stamp
             same == Rendered(f) /\ row[f].sha = text
  <2>0. /\ pc = "files" /\ op = "full" /\ f \in todo /\ cand[f] \in Cands
        /\ UNCHANGED <<repo, seen, cand, logic, op, missed, touched>>
    BY <1>5 DEF Load, MirrorShape, Candidates
  <2>1. CASE text = Absent
    <3>1. todo' = todo \ {f} /\ UNCHANGED <<row, pc, cur, now>>
      BY <1>5, <2>1 DEF Load
    <3> QED
      BY <2>0, <3>1 DEF MirrorShape, StampsAreKnown, Known, FilesAreSeen, Candidates
  <2>2. ASSUME text # Absent
        PROVE  text \in Contents /\ s \in 0..MaxTicks /\ Known(text, s, f)
    BY <2>0, <2>2 DEF MirrorShape, Cands, StampsAreKnown, Known
  <2>3. CASE text # Absent /\ same
    <3>1. /\ row' = [row EXCEPT ![f].stamp = s] /\ todo' = todo \ {f}
          /\ row[f] # Absent /\ row[f].sha = text /\ UNCHANGED <<pc, cur, now>>
      BY <1>5, <2>3 DEF Load, StampRead, Rendered
    <3>2. /\ row[f] \in Rows /\ row'[f] \in Rows /\ row'[f].sha = text /\ row'[f].stamp = s
          /\ row' \in [Files -> Rows \cup {Absent}]
          /\ \A g \in Files : g # f => row'[g] = row[g]
      BY <2>2, <2>3, <3>1 DEF MirrorShape, Rows
    <3>3. Known(text, s, f)
      BY <2>2, <2>3
    <3> HIDE DEF text, s, same
    <3>4. MirrorShape'
      BY <2>0, <3>1, <3>2 DEF MirrorShape, Candidates
    <3>5. StampsAreKnown'
      BY <2>0, <3>1, <3>2, <3>3 DEF StampsAreKnown, Known
    <3>6. FilesAreSeen'
      BY <2>0, <3>1 DEF FilesAreSeen, Candidates
    <3> QED BY <3>4, <3>5, <3>6
  <2>4. CASE text # Absent /\ ~same
    <3>1. /\ pc' = "look" /\ cur' = f /\ now' = [text |-> text, stamp |-> s]
          /\ UNCHANGED <<row, todo>>
      BY <1>5, <2>4 DEF Load, StampRead
    <3>2. text \in Contents /\ s \in 0..MaxTicks /\ Known(text, s, f)
      BY <2>2, <2>4
    <3> HIDE DEF text, s, same
    <3>4. MirrorShape'
      BY <2>0, <3>1, <3>2 DEF MirrorShape, Candidates
    <3>5. StampsAreKnown'
      BY <2>0, <3>1, <3>2 DEF StampsAreKnown, Known
    <3>6. FilesAreSeen'
      BY <2>0, <3>1 DEF FilesAreSeen, Candidates
    <3> QED BY <3>4, <3>5, <3>6
  <2> QED BY <2>1, <2>3, <2>4
<1>6. ASSUME NEW f \in Files, DropRow(f)
      PROVE  Inv'
  <2>1. MirrorShape'
    BY <1>6 DEF MirrorShape, Candidates, DropRow
  <2>2. StampsAreKnown'
    BY <1>6 DEF MirrorShape, StampsAreKnown, Known, DropRow
  <2>3. FilesAreSeen'
    BY <1>6, <2>1 DEF MirrorShape, FilesAreSeen, Candidates, DropRow
  <2> QED BY <2>1, <2>2, <2>3
<1>7. ASSUME ReadCandidate
      PROVE  Inv'
  <2> DEFINE c == [text |-> real[cur], stamp |-> now.stamp, fast |-> FALSE]
  <2>0. /\ pc = "read" /\ pc' = "scan" /\ op = "full" /\ todo' = todo \ {cur} /\ now' = Nothing
        /\ cur \in Files /\ UNCHANGED <<disk, op, logic, missed, touched>>
    BY <1>7 DEF ReadCandidate, Forget, MirrorShape
  <2>1. CASE real[cur] = Absent
    <3>1. cand' = cand /\ seen' = seen \cup {cur}
      BY <1>7, <2>1 DEF ReadCandidate
    <3> QED
      BY <2>0, <2>1, <3>1, NothingFits
      DEF MirrorShape, StampsAreKnown, Known, FilesAreSeen, Candidates
  <2>2. CASE real[cur] # Absent
    <3>1. cand' = [cand EXCEPT ![cur] = c] /\ seen' = seen
      BY <1>7, <2>2 DEF ReadCandidate
    <3>2. c \in Cands /\ c # Absent /\ c.text = real[cur] /\ c.stamp = now.stamp
      BY <2>0, <2>2, CandFits DEF MirrorShape
    <3> HIDE DEF c
    <3>3. Candidates' = Candidates \cup {cur}
      BY <2>0, <3>1, <3>2 DEF MirrorShape, Candidates
    <3>4. MirrorShape'
      BY <2>0, <3>1, <3>2, NothingFits DEF MirrorShape
    <3>5. StampsAreKnown'
      BY <2>0, <3>1, <3>2 DEF MirrorShape, StampsAreKnown, Known
    <3>6. FilesAreSeen'
      BY <2>0, <3>1, <3>3 DEF FilesAreSeen
    <3> QED BY <3>4, <3>5, <3>6
  <2> QED BY <2>1, <2>2
<1>8. ASSUME ScanDone
      PROVE  Inv'
  <2>1. MirrorShape'
    BY <1>8 DEF MirrorShape, Candidates, ScanDone, Union, Protects
  <2>2. StampsAreKnown'
    BY <1>8 DEF MirrorShape, StampsAreKnown, Known, ScanDone
  <2>3. FilesAreSeen'
    BY <1>8, <2>1 DEF MirrorShape, FilesAreSeen, Candidates, ScanDone
  <2> QED BY <2>1, <2>2, <2>3
<1>9. ASSUME Look
      PROVE  Inv'
  <2>1. MirrorShape'
    BY <1>9, NothingFits DEF MirrorShape, Candidates, Look, Forget, Return
  <2>2. StampsAreKnown'
    BY <1>9 DEF MirrorShape, StampsAreKnown, Known, Look, Forget, Return
  <2>3. FilesAreSeen'
    BY <1>9, <2>1 DEF MirrorShape, FilesAreSeen, Candidates, Look, Forget, Return
  <2> QED BY <2>1, <2>2, <2>3
<1>31. ASSUME LookFails
      PROVE  Inv'
  <2>1. MirrorShape'
    BY <1>31 DEF MirrorShape, Candidates, LookFails
  <2>2. StampsAreKnown'
    BY <1>31 DEF MirrorShape, StampsAreKnown, Known, LookFails
  <2>3. FilesAreSeen'
    BY <1>31, <2>1 DEF MirrorShape, FilesAreSeen, Candidates, LookFails
  <2> QED BY <2>1, <2>2, <2>3
<1>10. ASSUME Stash
      PROVE  Inv'
  <2>1. MirrorShape'
    BY <1>10 DEF MirrorShape, Candidates, Stash
  <2>2. StampsAreKnown'
    BY <1>10 DEF MirrorShape, StampsAreKnown, Known, Stash
  <2>3. FilesAreSeen'
    BY <1>10, <2>1 DEF MirrorShape, FilesAreSeen, Candidates, Stash
  <2> QED BY <2>1, <2>2, <2>3
<1>11. ASSUME WriteMirror
      PROVE  Inv'
  <2>1. MirrorShape'
    BY <1>11 DEF MirrorShape, Candidates, WriteMirror
  <2>2. StampsAreKnown'
    BY <1>11 DEF MirrorShape, StampsAreKnown, Known, WriteMirror
  <2>3. FilesAreSeen'
    BY <1>11, <2>1 DEF MirrorShape, FilesAreSeen, Candidates, WriteMirror
  <2> QED BY <2>1, <2>2, <2>3
<1>12. ASSUME WriteMap
      PROVE  Inv'
  <2>1. MirrorShape'
    BY <1>12 DEF MirrorShape, Candidates, WriteMap
  <2>2. StampsAreKnown'
    BY <1>12 DEF MirrorShape, StampsAreKnown, Known, WriteMap
  <2>3. FilesAreSeen'
    BY <1>12, <2>1 DEF MirrorShape, FilesAreSeen, Candidates, WriteMap
  <2> QED BY <2>1, <2>2, <2>3
<1>13. ASSUME Upsert
      PROVE  Inv'
  <2>1. MirrorShape'
    <3> DEFINE new == [sha |-> now.text, logic |-> logic, stamp |-> now.stamp]
    <3>1. /\ pc = "upsert" /\ row' = [row EXCEPT ![cur] = new] /\ now' = Nothing
          /\ UNCHANGED <<repo, cand, logic, op>> /\ todo' = todo \ {cur}
      BY <1>13 DEF Upsert, Forget
    <3>2. new \in Rows /\ cur \in Files
      BY <3>1 DEF MirrorShape, Rows
    <3> HIDE DEF new
    <3>3. row' \in [Files -> Rows \cup {Absent}]
      BY <3>1, <3>2 DEF MirrorShape
    <3>4. /\ pc' \in {"reconverge", "files", "apply", "end"}
          /\ pc' = "files" => op = "full"
          /\ pc' = "apply" => op = "project" /\ cur' = cur
      BY <1>13 DEF Upsert, Return, Forget
    <3> QED
      BY <3>1, <3>2, <3>3, <3>4, NothingFits DEF MirrorShape, Candidates
  <2>2. StampsAreKnown'
    BY <1>13 DEF MirrorShape, StampsAreKnown, Known, Upsert, Forget, Return
  <2>3. FilesAreSeen'
    BY <1>13, <2>1 DEF MirrorShape, FilesAreSeen, Candidates, Upsert, Forget, Return
  <2> QED BY <2>1, <2>2, <2>3
<1>14. ASSUME StartSweep
      PROVE  Inv'
  <2>1. MirrorShape'
    BY <1>14 DEF MirrorShape, Candidates, StartSweep, Spared
  <2>2. StampsAreKnown'
    BY <1>14 DEF MirrorShape, StampsAreKnown, Known, StartSweep, Spared
  <2>3. FilesAreSeen'
    BY <1>14, <2>1 DEF MirrorShape, FilesAreSeen, Candidates, StartSweep, Spared
  <2> QED BY <2>1, <2>2, <2>3
<1>15. ASSUME DropMirror
      PROVE  Inv'
  <2>1. MirrorShape'
    BY <1>15 DEF MirrorShape, Candidates, DropMirror
  <2>2. StampsAreKnown'
    BY <1>15 DEF MirrorShape, StampsAreKnown, Known, DropMirror
  <2>3. FilesAreSeen'
    BY <1>15, <2>1 DEF MirrorShape, FilesAreSeen, Candidates, DropMirror
  <2> QED BY <2>1, <2>2, <2>3
<1>16. ASSUME DropMap
      PROVE  Inv'
  <2>1. MirrorShape'
    BY <1>16, NothingFits DEF MirrorShape, Candidates, DropMap, Forget
  <2>2. StampsAreKnown'
    BY <1>16 DEF MirrorShape, StampsAreKnown, Known, DropMap, Forget
  <2>3. FilesAreSeen'
    BY <1>16, <2>1 DEF MirrorShape, FilesAreSeen, Candidates, DropMap, Forget
  <2> QED BY <2>1, <2>2, <2>3
<1>17. ASSUME SweepDone
      PROVE  Inv'
  <2>1. MirrorShape'
    BY <1>17 DEF MirrorShape, Candidates, SweepDone
  <2>2. StampsAreKnown'
    BY <1>17 DEF MirrorShape, StampsAreKnown, Known, SweepDone
  <2>3. FilesAreSeen'
    BY <1>17, <2>1 DEF MirrorShape, FilesAreSeen, Candidates, SweepDone
  <2> QED BY <2>1, <2>2, <2>3
<1>18. ASSUME ReadOne
      PROVE  Inv'
  <2>1. CASE ~Readable
    BY <1>18, <2>1, <1>0 DEF ReadOne
  <2>2. CASE Readable
    <3> DEFINE l == Protects({row[f].sha : f \in Tracked \ {cur}} \cup {real[cur]})
    <3>1. /\ pc = "one" /\ pc' = "look" /\ real[cur] # Absent
          /\ now' = [text |-> real[cur], stamp |-> stamp[cur]] /\ logic' = l
          /\ UNCHANGED <<disk, op, todo, seen, cand, cur, missed, touched>>
      BY <1>18, <2>2 DEF ReadOne, Readable, Release
    <3>2. l \in BOOLEAN
      BY DEF Protects
    <3> HIDE DEF l
    <3>3. /\ cur \in Files /\ real[cur] \in Contents
          /\ now' \in [text : Contents \cup {Absent}, stamp : 0..MaxTicks]
          /\ now'.text = real[cur] /\ op # "full"
      BY <3>1 DEF MirrorShape
    <3>6. MirrorShape'
      BY <3>1, <3>2, <3>3 DEF MirrorShape
    <3>4. StampsAreKnown'
      BY <3>1 DEF MirrorShape, StampsAreKnown, Known
    <3>5. FilesAreSeen'
      BY <3>1 DEF MirrorShape, FilesAreSeen, Candidates
    <3> QED BY <3>4, <3>5, <3>6
  <2> QED BY <2>1, <2>2
<1>19. ASSUME CheckDrift
      PROVE  Inv'
  <2>1. MirrorShape'
    BY <1>19 DEF MirrorShape, Candidates, CheckDrift
  <2>2. StampsAreKnown'
    BY <1>19 DEF MirrorShape, StampsAreKnown, Known, CheckDrift
  <2>3. FilesAreSeen'
    BY <1>19, <2>1 DEF MirrorShape, FilesAreSeen, Candidates, CheckDrift
  <2> QED BY <2>1, <2>2, <2>3
<1>20. ASSUME RecordEdit
      PROVE  Inv'
  <2>1. MirrorShape'
    BY <1>20 DEF MirrorShape, Candidates, RecordEdit
  <2>2. StampsAreKnown'
    BY <1>20 DEF MirrorShape, StampsAreKnown, Known, RecordEdit
  <2>3. FilesAreSeen'
    BY <1>20, <2>1 DEF MirrorShape, FilesAreSeen, Candidates, RecordEdit
  <2> QED BY <2>1, <2>2, <2>3
<1>21. ASSUME NoProjection
      PROVE  Inv'
  <2>1. MirrorShape'
    BY <1>21 DEF MirrorShape, Candidates, NoProjection
  <2>2. StampsAreKnown'
    BY <1>21 DEF MirrorShape, StampsAreKnown, Known, NoProjection
  <2>3. FilesAreSeen'
    BY <1>21, <2>1 DEF MirrorShape, FilesAreSeen, Candidates, NoProjection
  <2> QED BY <2>1, <2>2, <2>3
<1>22. ASSUME NEW c \in Contents, Project(c)
      PROVE  Inv'
  <2>1. MirrorShape'
    BY <1>22 DEF MirrorShape, Candidates, Project, Write
  <2>2. StampsAreKnown'
    <3>1. /\ \A g \in Files : (stamp[g] <= ticks)'
          /\ \A g \in Files, s \in 0..MaxTicks : \A t :
               Known(t, s, g) => s <= ticks' /\ (s = stamp'[g] => t = real'[g])
      BY <1>22, WriteKeepsKnown DEF Project, MirrorShape, StampsAreKnown
    <3>2. \A g \in Files : row[g] # Absent => (Known(row[g].sha, row[g].stamp, g))'
      <4>1. ASSUME NEW g \in Files, row[g] # Absent
            PROVE  (Known(row[g].sha, row[g].stamp, g))'
        <5>1. Known(row[g].sha, row[g].stamp, g) /\ row[g].stamp \in 0..MaxTicks
          BY <4>1 DEF StampsAreKnown, MirrorShape, Rows
        <5>2. row' = row
          BY <1>22 DEF Project
        <5> QED BY <3>1, <5>1, <5>2 DEF Known
      <4> QED BY <4>1
    <3>3. \A g \in Files : cand[g] # Absent => (Known(cand[g].text, cand[g].stamp, g))'
      <4>1. ASSUME NEW g \in Files, cand[g] # Absent
            PROVE  (Known(cand[g].text, cand[g].stamp, g))'
        <5>1. Known(cand[g].text, cand[g].stamp, g) /\ cand[g].stamp \in 0..MaxTicks
          BY <4>1 DEF StampsAreKnown, MirrorShape, Cands
        <5>2. cand' = cand
          BY <1>22 DEF Project
        <5> QED BY <3>1, <5>1, <5>2 DEF Known
      <4> QED BY <4>1
    <3> QED
      BY <1>22, <3>1, <3>2, <3>3 DEF StampsAreKnown, Project
  <2>3. FilesAreSeen'
    BY <1>22, <2>1 DEF MirrorShape, FilesAreSeen, Candidates, Project, Write
  <2> QED BY <2>1, <2>2, <2>3
<1>23. ASSUME NEW f \in Files, NEW c \in Contents \cup {Absent}, DevEdit(f, c)
      PROVE  Inv'
  <2>1. MirrorShape'
    BY <1>23 DEF MirrorShape, Candidates, DevEdit, Write, Touch
  <2>2. StampsAreKnown'
    <3>1. /\ \A g \in Files : (stamp[g] <= ticks)'
          /\ \A g \in Files, s \in 0..MaxTicks : \A t :
               Known(t, s, g) => s <= ticks' /\ (s = stamp'[g] => t = real'[g])
      BY <1>23, WriteKeepsKnown DEF DevEdit, MirrorShape, StampsAreKnown
    <3>2. \A g \in Files : row[g] # Absent => (Known(row[g].sha, row[g].stamp, g))'
      <4>1. ASSUME NEW g \in Files, row[g] # Absent
            PROVE  (Known(row[g].sha, row[g].stamp, g))'
        <5>1. Known(row[g].sha, row[g].stamp, g) /\ row[g].stamp \in 0..MaxTicks
          BY <4>1 DEF StampsAreKnown, MirrorShape, Rows
        <5>2. row' = row
          BY <1>23 DEF DevEdit
        <5> QED BY <3>1, <5>1, <5>2 DEF Known
      <4> QED BY <4>1
    <3>3. \A g \in Files : cand[g] # Absent => (Known(cand[g].text, cand[g].stamp, g))'
      <4>1. ASSUME NEW g \in Files, cand[g] # Absent
            PROVE  (Known(cand[g].text, cand[g].stamp, g))'
        <5>1. Known(cand[g].text, cand[g].stamp, g) /\ cand[g].stamp \in 0..MaxTicks
          BY <4>1 DEF StampsAreKnown, MirrorShape, Cands
        <5>2. cand' = cand
          BY <1>23 DEF DevEdit
        <5> QED BY <3>1, <5>1, <5>2 DEF Known
      <4> QED BY <4>1
    <3>4. pc = "read" => (now.stamp <= ticks)'
      BY <1>23 DEF DevEdit, Write, StampsAreKnown, MirrorShape
    <3>5. ASSUME pc \in {"look", "stash", "mirror", "map", "upsert"}
          PROVE  Known(now.text, now.stamp, cur)'
      <4>1. Known(now.text, now.stamp, cur) /\ now.stamp \in 0..MaxTicks /\ cur \in Files
        BY <3>5 DEF StampsAreKnown, MirrorShape
      <4>2. now' = now /\ cur' = cur
        BY <1>23 DEF DevEdit
      <4> QED BY <3>1, <4>1, <4>2 DEF Known
    <3> QED
      BY <1>23, <3>1, <3>2, <3>3, <3>4, <3>5 DEF StampsAreKnown, DevEdit
  <2>3. FilesAreSeen'
    BY <1>23, <2>1 DEF MirrorShape, FilesAreSeen, Candidates, DevEdit, Write, Touch
  <2> QED BY <2>1, <2>2, <2>3
<1>24. ASSUME NEW f \in Files, AgentEdit(f)
      PROVE  Inv'
  <2>1. MirrorShape'
    BY <1>24 DEF MirrorShape, Candidates, AgentEdit, Touch
  <2>2. StampsAreKnown'
    BY <1>24 DEF MirrorShape, StampsAreKnown, Known, AgentEdit, Touch
  <2>3. FilesAreSeen'
    BY <1>24, <2>1 DEF MirrorShape, FilesAreSeen, Candidates, AgentEdit, Touch
  <2> QED BY <2>1, <2>2, <2>3
<1>25. ASSUME DatabaseLoss
      PROVE  Inv'
  <2>1. MirrorShape'
    BY <1>25 DEF MirrorShape, Candidates, DatabaseLoss
  <2>2. StampsAreKnown'
    BY <1>25 DEF MirrorShape, StampsAreKnown, Known, DatabaseLoss
  <2>3. FilesAreSeen'
    BY <1>25, <2>1 DEF MirrorShape, FilesAreSeen, Candidates, DatabaseLoss
  <2> QED BY <2>1, <2>2, <2>3
<1>26. ASSUME NEW f \in Files, NEW forced \in BOOLEAN, StartOne(f, forced)
      PROVE  Inv'
  <2>1. MirrorShape'
    BY <1>26 DEF MirrorShape, Candidates, StartOne
  <2>2. StampsAreKnown'
    BY <1>26 DEF MirrorShape, StampsAreKnown, Known, StartOne
  <2>3. FilesAreSeen'
    BY <1>26, <2>1 DEF MirrorShape, FilesAreSeen, Candidates, StartOne
  <2> QED BY <2>1, <2>2, <2>3
<1>27. ASSUME NEW f \in Files, StartProject(f)
      PROVE  Inv'
  <2>1. MirrorShape'
    BY <1>27 DEF MirrorShape, Candidates, StartProject
  <2>2. StampsAreKnown'
    BY <1>27 DEF MirrorShape, StampsAreKnown, Known, StartProject
  <2>3. FilesAreSeen'
    BY <1>27, <2>1 DEF MirrorShape, FilesAreSeen, Candidates, StartProject
  <2> QED BY <2>1, <2>2, <2>3
<1>28. CASE UNCHANGED vars
  BY <1>28 DEF vars, MirrorShape, StampsAreKnown, Known, FilesAreSeen, Candidates
<1>29. CASE Finish \/ Die \/ PowerLoss
  BY <1>0, <1>29 DEF Finish, Die, PowerLoss
<1> QED
  BY <1>1, <1>2, <1>3, <1>4, <1>5, <1>6, <1>7, <1>8, <1>9, <1>10, <1>11, <1>12, <1>13, <1>14,
     <1>15, <1>16, <1>17, <1>18, <1>19, <1>20, <1>21, <1>22, <1>23, <1>24, <1>25, <1>26, <1>27,
     <1>28, <1>29, <1>30, <1>31
  DEF Next, Step, Outside, StartFull, Reconverge

(* The invariant holds in every reachable state. *)
LEMMA MirrorInvHolds == Spec => []MirrorInv
  BY InitMirrorInv, StepKeepsMirrorInv, PTL DEF Spec

(***************************************************************************)
(* Theorems                                                                *)
(***************************************************************************)

(* fast_path_matches (index.rs) never hides a change of a real file.  *)
THEOREM FastPathHidesNothing == Spec => []FastPathIsSound
<1>1. MirrorInv => FastPathIsSound
  BY DEF MirrorInv, StampsAreKnown, Known, FastPathIsSound, Tracked
<1> QED BY <1>1, MirrorInvHolds, PTL

(* The sweep of a full pass removes no file that is there, whether its      *)
(* metadata, type and text could be read or not, unless it came back while   *)
(* the pass ran or the walk could not read its directory (index.rs:173).     *)
THEOREM SweepSpares == Spec => SweepSparesFiles
<1> DEFINE A == \A f \in Files : pc = "sweep" /\ op = "full" /\ row'[f] # row[f]
                  => real[f] = Absent \/ f \in touched \cup missed
<1>1. MirrorInv /\ [Next]_vars => [A]_vars
  <2> SUFFICES ASSUME MirrorInv, Next, NEW f \in Files,
                      pc = "sweep", op = "full", row'[f] # row[f]
               PROVE  real[f] = Absent \/ f \in touched \cup missed
    OBVIOUS
  <2>1. CASE \E g \in Files : DropRow(g)
    <3>1. PICK g \in Files : DropRow(g)
      BY <2>1
    <3>2. f = g /\ f \in todo
      BY <3>1 DEF DropRow, MirrorInv, MirrorShape
    <3> QED BY <3>2 DEF MirrorInv, SweptAreGone, Gone
  <2> QED
    BY <2>1
    DEF Next, Step, Outside, StartFull, StartOne, StartProject, Listing, Stat, StatFails,
        WalkFails, SkipFast, Load, ReadCandidate, ScanDone, Look, LookFails, Stash, WriteMirror,
        WriteMap, Upsert, Reconverge, StartSweep, DropMirror, DropMap, SweepDone, ReadOne,
        CheckDrift, RecordEdit, NoProjection, Finish, Project, DevEdit, AgentEdit, Die,
        DatabaseLoss, PowerLoss
<1> QED BY <1>1, MirrorInvHolds, PTL DEF Spec, SweepSparesFiles

(***************************************************************************)
(* The agent's edits                                                       *)
(***************************************************************************)

(* An edit is safe, the mirror seen before it is replaced holds none       *)
(* without a copy, and a mirror with an edit is also what a power loss     *)
(* would leave.                                                            *)
EditShape ==
    /\ mirror \in [Files -> Renders \cup {Absent}]
    /\ settled \in [Files -> Renders \cup {Absent}]
    /\ mishaps \in 0..MaxMishaps
ReplacedIsKept == pc = "mirror" => EditOf(old) \subseteq kept
EditsAreSettled ==
    \A f \in Files : EditOf(mirror[f]) # {} => settled[f] = Unsynced(mirror[f])
EditInv == EditShape /\ NoEditIsLost /\ ReplacedIsKept /\ EditsAreSettled

(* A mirror the program rendered carries no edit. *)
LEMMA RenderIsClean == \A c, l : EditOf(Render(c, l)) = {}
BY DEF EditOf, Render

(* Steps that leave the mirrors alone and forget nothing. *)
LEMMA MirrorsAlone ==
  ASSUME EditInv, UNCHANGED <<mirror, settled, made>>, mishaps' \in 0..MaxMishaps,
         kept \subseteq kept', landed \subseteq landed', raced \subseteq raced',
         dropped \subseteq dropped', overlooked \subseteq overlooked',
         pc' = "mirror" => EditOf(old') \subseteq kept'
  PROVE  EditInv'
<1>1. EditShape' /\ ReplacedIsKept' /\ EditsAreSettled'
  BY DEF EditInv, EditShape, ReplacedIsKept, EditsAreSettled, EditOf, Unsynced
<1>2. NoEditIsLost'
  BY DEF EditInv, NoEditIsLost, EditOf
<1> QED BY <1>1, <1>2 DEF EditInv

(* It holds at the start. *)
LEMMA InitEditInv == Init => EditInv
BY BoundsAssumption
DEF Init, EditInv, EditShape, NoEditIsLost, ReplacedIsKept, EditsAreSettled, EditOf

(* Every step keeps the edits. *)
LEMMA StepKeepsEditInv == MirrorInv /\ EditInv /\ [Next]_vars => EditInv'
<1> SUFFICES ASSUME MirrorInv, EditInv, [Next]_vars PROVE EditInv'
  OBVIOUS
<1> USE BoundsAssumption
<1>0. mishaps \in 0..MaxMishaps
  BY DEF EditInv, EditShape
<1>1. CASE Look
  <2>1. /\ UNCHANGED <<mirror, settled, made, mishaps, kept, landed, raced, dropped, overlooked>>
        /\ pc' = "mirror" => ~PendingEdit(mirror[cur]) /\ old' = mirror[cur]
    BY <1>1 DEF Look, Return
  <2>2. ~PendingEdit(mirror[cur]) => EditOf(mirror[cur]) = {}
    BY RenderIsClean DEF PendingEdit, Recorded, Hash, EditOf
  <2> QED BY <1>0, <2>1, <2>2, MirrorsAlone
<1>10. CASE LookFails
  <2>1. /\ UNCHANGED <<mirror, settled, made, kept, landed, raced, dropped, overlooked>>
        /\ mishaps' \in 0..MaxMishaps /\ old' = Absent
    BY <1>0, <1>10 DEF LookFails, Mishap
  <2> QED BY <2>1, MirrorsAlone DEF EditOf
<1>2. CASE Stash
  BY <1>0, <1>2, MirrorsAlone DEF Stash
<1>3. CASE WriteMirror
  <2> DEFINE r == Render(now.text, logic)
  <2>1. /\ pc = "mirror" /\ pc' = "map" /\ mirror' = [mirror EXCEPT ![cur] = r]
        /\ settled' = [settled EXCEPT ![cur] = Unsynced(mirror[cur])]
        /\ raced' = IF old \in {Absent, mirror[cur]} THEN raced
                    ELSE raced \cup EditOf(mirror[cur])
        /\ overlooked' = IF old # Absent THEN overlooked
                         ELSE overlooked \cup EditOf(mirror[cur])
        /\ UNCHANGED <<made, mishaps, kept, landed, dropped>>
    BY <1>3 DEF WriteMirror
  <2>2. r \in Renders /\ EditOf(r) = {} /\ cur \in Files
    BY <2>1, RenderIsClean DEF MirrorInv, MirrorShape, Renders, Render
  <2> HIDE DEF r
  <2>3. Unsynced(mirror[cur]) \in Renders \cup {Absent}
    BY <2>2 DEF EditInv, EditShape, Unsynced
  <2>4. EditShape'
    BY <2>1, <2>2, <2>3 DEF EditInv, EditShape
  <2>5. EditOf(mirror[cur]) \subseteq kept \cup raced' \cup overlooked'
    BY <2>1 DEF EditInv, ReplacedIsKept
  <2>9. raced \subseteq raced' /\ overlooked \subseteq overlooked'
    BY <2>1
  <2>6. \A f \in Files : mirror'[f] = IF f = cur THEN r ELSE mirror[f]
    BY <2>1 DEF EditInv, EditShape
  <2>7. NoEditIsLost'
    BY <2>1, <2>5, <2>6, <2>9 DEF EditInv, NoEditIsLost, EditOf
  <2>8. EditsAreSettled'
    <3>1. ASSUME NEW f \in Files, EditOf(mirror'[f]) # {}
          PROVE  settled'[f] = Unsynced(mirror'[f])
      BY <2>1, <2>2, <2>6, <3>1 DEF EditInv, EditShape, EditsAreSettled
    <3> QED BY <3>1 DEF EditsAreSettled, EditOf, Unsynced
  <2> QED BY <2>1, <2>4, <2>7, <2>8 DEF EditInv, ReplacedIsKept
<1>4. CASE DropMirror
  <2>1. /\ pc' = "dropmap" /\ mirror' = [mirror EXCEPT ![cur] = Absent]
        /\ settled' = [settled EXCEPT ![cur] = Unsynced(mirror[cur])]
        /\ pc = "dropmirror"
        /\ dropped' = IF real[cur] = Absent \/ cur \in touched
                      THEN dropped \cup EditOf(mirror[cur]) ELSE dropped
        /\ overlooked' = IF cur \in missed
                         THEN overlooked \cup EditOf(mirror[cur]) ELSE overlooked
        /\ UNCHANGED <<made, mishaps, kept, landed, raced>>
    BY <1>4 DEF DropMirror
  <2>7. /\ dropped \subseteq dropped' /\ overlooked \subseteq overlooked'
        /\ EditOf(mirror[cur]) \subseteq dropped' \cup overlooked'
    BY <2>1 DEF MirrorInv, SweptAreGone, Gone
  <2>2. \A f \in Files : mirror'[f] = IF f = cur THEN Absent ELSE mirror[f]
    BY <2>1 DEF EditInv, EditShape
  <2>3. \A f \in Files : settled'[f] = IF f = cur THEN Unsynced(mirror[cur]) ELSE settled[f]
    BY <2>1 DEF EditInv, EditShape
  <2>4. EditShape'
    BY <2>1, <2>3 DEF EditInv, EditShape, Unsynced
  <2>5. NoEditIsLost'
    BY <2>1, <2>2, <2>7 DEF EditInv, NoEditIsLost, EditOf
  <2>6. EditsAreSettled'
    BY <2>2, <2>3 DEF EditInv, EditsAreSettled, EditOf, Unsynced
  <2> QED BY <2>1, <2>4, <2>5, <2>6 DEF EditInv, ReplacedIsKept
<1>5. ASSUME NEW f \in Files, AgentEdit(f)
      PROVE  EditInv'
  <2> DEFINE m == [mirror[f] EXCEPT !.edit = mishaps']
  <2>1. /\ mirror[f] # Absent /\ mirror' = [mirror EXCEPT ![f] = m]
        /\ mishaps < MaxMishaps /\ mishaps' = mishaps + 1
        /\ settled' = [settled EXCEPT ![f] = Unsynced(mirror'[f])]
        /\ made' = (made \ EditOf(mirror[f])) \cup {mishaps'}
        /\ UNCHANGED <<pc, old, kept, landed, raced, dropped, overlooked>>
    BY <1>5 DEF AgentEdit, Mishap
  <2>2. mishaps' \in Edits
    BY <1>0, <2>1 DEF Edits
  <2>3. m \in Renders /\ m.edit = mishaps'
    BY <2>1, <2>2 DEF EditInv, EditShape, Renders
  <2> HIDE DEF m
  <2>4. m # Absent /\ EditOf(m) = {mishaps'}
    BY <2>2, <2>3, AbsentAssumption DEF EditOf, Edits
  <2>5. \A g \in Files : mirror'[g] = IF g = f THEN m ELSE mirror[g]
    BY <2>1 DEF EditInv, EditShape
  <2>6. \A g \in Files : settled'[g] = IF g = f THEN Unsynced(m) ELSE settled[g]
    BY <2>1, <2>5 DEF EditInv, EditShape
  <2>7. EditShape'
    BY <1>0, <2>1, <2>3, <2>5, <2>6 DEF EditInv, EditShape, Unsynced
  <2>8. NoEditIsLost'
    BY <2>1, <2>4, <2>5 DEF EditInv, NoEditIsLost, EditOf
  <2>9. EditsAreSettled'
    BY <2>5, <2>6 DEF EditInv, EditsAreSettled, EditOf, Unsynced
  <2> QED BY <2>1, <2>7, <2>8, <2>9 DEF EditInv, ReplacedIsKept
<1>6. CASE PowerLoss
  <2>1. PICK S \in SUBSET Files :
          mirror' = [f \in Files |-> IF f \in S THEN settled[f] ELSE mirror[f]]
    BY <1>6 DEF PowerLoss
  <2>2. /\ "power" \in MishapKinds /\ mishaps' \in 0..MaxMishaps /\ pc' = "idle"
        /\ settled' = [f \in Files |-> Unsynced(mirror'[f])]
        /\ UNCHANGED <<made, kept, landed, raced, dropped, overlooked>>
    BY <1>0, <1>6 DEF PowerLoss, Mishap, Release
  <2>3. \A f \in Files : mirror'[f] \in Renders \cup {Absent} /\ settled'[f] = mirror'[f]
    BY <2>1, <2>2 DEF EditInv, EditShape, Unsynced
  <2>4. \A f \in Files : EditOf(mirror[f]) # {} => mirror'[f] = mirror[f]
    BY <2>1, <2>2 DEF EditInv, EditsAreSettled, Unsynced
  <2>5. EditShape'
    BY <2>1, <2>2, <2>3 DEF EditShape
  <2>6. NoEditIsLost'
    BY <2>2, <2>4 DEF EditInv, NoEditIsLost, EditOf
  <2>7. EditsAreSettled'
    BY <2>2, <2>3 DEF EditsAreSettled, Unsynced
  <2> QED BY <2>2, <2>5, <2>6, <2>7 DEF EditInv, ReplacedIsKept
<1>7. CASE \/ \E forced \in BOOLEAN : StartFull(forced)
           \/ \E f \in Files : StartProject(f)
           \/ \E f \in Files : Stat(f) \/ SkipFast(f) \/ Load(f) \/ DropRow(f)
           \/ ReadCandidate \/ ScanDone \/ Reconverge \/ StartSweep \/ SweepDone
  <2>1. /\ UNCHANGED <<mirror, settled, made, mishaps, kept, landed, raced, dropped, overlooked>>
        /\ pc' # "mirror"
    BY <1>7
    DEF StartFull, StartProject, Stat, SkipFast, Load, DropRow, ReadCandidate,
        ScanDone, Reconverge, Listing, StartSweep, SweepDone
  <2> QED BY <1>0, <2>1, MirrorsAlone
<1>8. CASE \/ WriteMap \/ Upsert \/ DropMap \/ ReadOne \/ CheckDrift \/ RecordEdit
           \/ NoProjection \/ Finish \/ \E c \in Contents : Project(c)
  <2>1. /\ UNCHANGED <<mirror, settled, made, mishaps, raced, dropped, overlooked>>
        /\ pc' # "mirror"
        /\ kept \subseteq kept' /\ landed \subseteq landed'
    BY <1>8
    DEF WriteMap, Upsert, Return, DropMap, ReadOne, Release, CheckDrift, RecordEdit,
        NoProjection, Finish, Project
  <2> QED BY <1>0, <2>1, MirrorsAlone
<1>9. CASE \/ \E f \in Files : StatFails(f)
           \/ \E D \in SUBSET Files : WalkFails(D)
           \/ \E f \in Files, forced \in BOOLEAN : StartOne(f, forced)
           \/ \E f \in Files, c \in Contents \cup {Absent} : DevEdit(f, c)
           \/ Die \/ DatabaseLoss \/ UNCHANGED vars
  <2>1. /\ UNCHANGED <<mirror, settled, made, kept, landed, raced, dropped, overlooked>>
        /\ mishaps' \in 0..MaxMishaps
        /\ pc' = "mirror" => pc = "mirror" /\ old' = old
    BY <1>0, <1>9
    DEF StatFails, WalkFails, StartOne, DevEdit, Die, DatabaseLoss, Mishap, Release, vars
  <2> QED BY <2>1, MirrorsAlone DEF EditInv, ReplacedIsKept
<1> QED
  BY <1>1, <1>2, <1>3, <1>4, <1>5, <1>6, <1>7, <1>8, <1>9, <1>10 DEF Next, Step, Outside

(* An edit the agent saved is in its mirror, in a copy or in the real file,  *)
(* whatever is edited, dies or is lost beside it, unless it was saved while  *)
(* its mirror was written, its real file was gone, or its directory or its   *)
(* mirror could not be read: render_and_store, project_mirror_edit.          *)
THEOREM NoEditIsLostEver == Spec => []NoEditIsLost
<1>1. EditInv => NoEditIsLost
  BY DEF EditInv
<1> QED BY <1>1, InitEditInv, StepKeepsEditInv, MirrorInvHolds, PTL DEF Spec

(***************************************************************************)
(* What a full pass that nobody disturbs leaves behind, whatever happened  *)
(* before it: a mirror the patch bridge accepts is current, and a forced   *)
(* pass leaves no other.                                                   *)
(***************************************************************************)

(***************************************************************************)
(* The inductive invariant                                                 *)
(***************************************************************************)

FilesPhase == {"files", "look", "stash", "mirror", "map", "upsert"}
SweepPhase == {"sweep", "dropmirror", "dropmap", "end"}

\* a full pass nobody wrote into, and one that met no error besides
Undisturbed == op = "full" /\ touched = {}
Clean == Undisturbed /\ seen = Candidates /\ missed = {}

(* Candidates and seen files are a full pass's alone. *)
PassShape ==
    /\ map \in [Files -> Renders \cup {Absent}] /\ force \in BOOLEAN
    /\ pc \in {"idle", "reconverge"} => op # "full"
    /\ op # "full" => seen = {} /\ Candidates = {}
    /\ pc = "reconverge" => op = "bridge"
    /\ op = "full" => pc \in {"scan", "read"} \cup FilesPhase \cup SweepPhase
    /\ op = "full" /\ pc \in {"read", "look", "stash", "mirror", "map", "upsert"} => cur \in todo
    /\ op = "full" /\ pc \in {"dropmirror", "dropmap"} => cur \notin seen

(* A file is on the list, a candidate or spared; a candidate has the text of  *)
(* its file, and one taken by its stamp that of its row.                      *)
ScanIsTrue ==
    Undisturbed /\ pc \in {"scan", "read"} =>
      /\ todo \cap seen = {} /\ todo \cap Candidates = {} /\ seen \cap Candidates = {}
      /\ \A f \in Candidates :
           /\ cand[f].text = real[f]
           /\ cand[f].fast => row[f] # Absent /\ row[f].sha = cand[f].text

(* After the scan the candidates are the files that are there, and the pass *)
(* renders under what they declare.                                         *)
PassIsTrue ==
    Clean /\ pc \in FilesPhase \cup SweepPhase =>
      /\ Candidates = {f \in Files : real[f] # Absent}
      /\ \A f \in Candidates : cand[f].text = real[f]
      /\ logic = Protects({real[f] : f \in Files})

(* What is still to do is as the scan left it; what is rendered comes from *)
(* the file.                                                               *)
TodoIsTrue ==
    Clean /\ pc \in FilesPhase =>
      /\ \A f \in todo : cand[f].fast => row[f] # Absent /\ row[f].sha = cand[f].text
      /\ pc # "files" => now.text = real[cur]
      /\ pc \in {"map", "upsert"} => mirror[cur] = Render(now.text, logic)
      /\ pc = "upsert" => map[cur] = mirror[cur]

Current(f) == row[f] # Absent /\ row[f].sha = real[f] /\ row[f].logic = logic

(* What is done is current where its row vouches for its mirror, and its    *)
(* row vouches for it after a forced pass.                                  *)
DoneIsCurrent ==
    Clean /\ pc \in FilesPhase \cup SweepPhase =>
      \A f \in Candidates : pc \in SweepPhase \/ f \notin todo =>
        /\ row[f] # Absent /\ mirror[f] = Hash(row[f]) => Current(f)
        /\ force => Current(f) /\ mirror[f] = Hash(row[f]) /\ map[f] = mirror[f]

(* The rows of other files are swept. *)
SweepIsTrue ==
    op = "full" /\ pc \in SweepPhase =>
      /\ Tracked \subseteq seen \cup todo
      /\ pc = "end" => todo = {}

PassInv == PassShape /\ ScanIsTrue /\ PassIsTrue /\ TodoIsTrue /\ DoneIsCurrent /\ SweepIsTrue

(***************************************************************************)
(* The invariant is inductive                                              *)
(***************************************************************************)

(* It holds at the start. *)
LEMMA InitPassInv == Init => PassInv
<1> SUFFICES ASSUME Init PROVE PassInv
  OBVIOUS
<1>1. op = "none" /\ pc = "idle" /\ seen = {} /\ Candidates = {} /\ force = FALSE
      /\ map = [f \in Files |-> Absent]
  BY DEF Init, NoJob, Candidates
<1> QED
  BY <1>1
  DEF PassInv, PassShape, ScanIsTrue, PassIsTrue, TodoIsTrue, DoneIsCurrent, SweepIsTrue, Clean,
      Undisturbed

(* A step keeps the shape. *)
LEMMA StepKeepsPassShape == MirrorInv /\ PassInv /\ [Next]_vars => PassShape'
<1> SUFFICES ASSUME MirrorInv, PassInv, [Next]_vars PROVE PassShape'
  OBVIOUS
<1> USE DEF PassShape, Candidates, FilesPhase, SweepPhase
<1>0. PassShape /\ MirrorShape
  BY DEF PassInv, MirrorInv
<1>1. ASSUME Release, map' = map
      PROVE  PassShape'
  BY <1>0, <1>1 DEF Release
<1>2. ASSUME NEW forced \in BOOLEAN, pc \in {"idle", "reconverge"}, Listing(forced)
      PROVE  PassShape'
  BY <1>0, <1>2 DEF Listing
<1>3. ASSUME NEW f \in Files, Stat(f) \/ StatFails(f)
      PROVE  PassShape'
  BY <1>0, <1>3 DEF Stat, StatFails, MirrorShape
<1>21. ASSUME NEW D \in SUBSET Files, WalkFails(D)
      PROVE  PassShape'
  BY <1>0, <1>21 DEF WalkFails
<1>4. ASSUME NEW f \in Files, SkipFast(f) \/ Load(f)
      PROVE  PassShape'
  BY <1>0, <1>4 DEF SkipFast, Load, MirrorShape
<1>5. ASSUME NEW f \in Files, DropRow(f)
      PROVE  PassShape'
  BY <1>0, <1>5 DEF DropRow, MirrorInv, FilesAreSeen
<1>6. CASE ReadCandidate \/ ScanDone
  BY <1>0, <1>6 DEF ReadCandidate, ScanDone, Forget, MirrorShape
<1>7. CASE Look \/ LookFails
  BY <1>0, <1>7 DEF Look, LookFails, Forget, Return
<1>8. CASE Stash \/ WriteMirror
  BY <1>0, <1>8 DEF Stash, WriteMirror
<1>9. CASE WriteMap
  <2>1. /\ pc = "map" /\ pc' = "upsert" /\ map' = [map EXCEPT ![cur] = Render(now.text, logic)]
        /\ UNCHANGED <<op, force, seen, cand, todo, cur>>
    BY <1>9 DEF WriteMap
  <2>2. Render(now.text, logic) \in Renders
    BY <1>0, <2>1 DEF MirrorShape, Render, Renders
  <2> QED BY <1>0, <2>1, <2>2
<1>10. CASE Upsert
  BY <1>0, <1>10 DEF Upsert, Forget, Return
<1>11. CASE StartSweep \/ SweepDone
  BY <1>0, <1>11 DEF StartSweep, SweepDone, MirrorShape
<1>12. CASE DropMirror \/ DropMap
  BY <1>0, <1>12 DEF DropMirror, DropMap, Forget
<1>13. ASSUME NEW f \in Files, NEW forced \in BOOLEAN, StartOne(f, forced)
      PROVE  PassShape'
  BY <1>0, <1>13 DEF StartOne
<1>14. ASSUME NEW f \in Files, StartProject(f)
      PROVE  PassShape'
  BY <1>0, <1>14 DEF StartProject
<1>15. CASE ReadOne
  BY <1>0, <1>1, <1>15 DEF ReadOne, MirrorShape
<1>16. CASE CheckDrift \/ RecordEdit \/ NoProjection
  BY <1>0, <1>16 DEF CheckDrift, RecordEdit, NoProjection, MirrorShape
<1>17. ASSUME NEW c \in Contents, Project(c)
      PROVE  PassShape'
  BY <1>0, <1>17 DEF Project, MirrorShape
<1>18. CASE Finish \/ Die \/ PowerLoss
  BY <1>1, <1>18 DEF Finish, Die, PowerLoss
<1>19. CASE DatabaseLoss \/ UNCHANGED vars
  BY <1>0, <1>19 DEF DatabaseLoss, vars
<1>20. CASE Outside
  BY <1>0, <1>20 DEF Outside, DevEdit, AgentEdit
<1> QED
  BY <1>2, <1>3, <1>4, <1>5, <1>6, <1>7, <1>8, <1>9, <1>10, <1>11, <1>12, <1>13, <1>14, <1>15,
     <1>16, <1>17, <1>18, <1>19, <1>20, <1>21
  DEF Next, Step, StartFull, Reconverge

(* Outside a full pass, the shape is all there is to show. *)
LEMMA OtherCommands == PassShape' /\ op' # "full" => PassInv'
BY DEF PassInv, ScanIsTrue, PassIsTrue, TodoIsTrue, DoneIsCurrent, SweepIsTrue, Clean, Undisturbed

(* Of a pass somebody wrote into, nothing is claimed but its sweep. *)
LEMMA DisturbedPass == PassShape' /\ SweepIsTrue' /\ touched' # {} => PassInv'
BY DEF PassInv, ScanIsTrue, PassIsTrue, TodoIsTrue, DoneIsCurrent, Clean, Undisturbed

(* Every step keeps the invariant. *)
LEMMA StepKeepsPassInv == MirrorInv /\ EditInv /\ PassInv /\ [Next]_vars => PassInv'
<1> SUFFICES ASSUME MirrorInv, EditInv, PassInv, [Next]_vars PROVE PassInv'
  OBVIOUS
<1> USE DEF FilesPhase, SweepPhase
<1>0. /\ PassShape /\ PassShape' /\ MirrorShape /\ FilesAreSeen /\ EditShape
      /\ ScanIsTrue /\ PassIsTrue /\ TodoIsTrue /\ DoneIsCurrent /\ SweepIsTrue
  BY StepKeepsPassShape DEF PassInv, MirrorInv, EditInv
<1>1. CASE op' # "full"
  BY <1>0, <1>1, OtherCommands
<1> SUFFICES ASSUME op' = "full" PROVE PassInv'
  BY <1>1
<1>2. ASSUME NEW forced \in BOOLEAN, pc \in {"idle", "reconverge"}, Listing(forced)
      PROVE  PassInv'
  <2>1. /\ pc' = "scan" /\ seen' = {} /\ cand' = cand /\ Candidates = {} /\ Candidates' = {}
    BY <1>0, <1>2 DEF Listing, PassShape, Candidates
  <2>2. ScanIsTrue'
    BY <2>1 DEF ScanIsTrue
  <2> QED
    BY <1>0, <2>1, <2>2 DEF PassInv, PassIsTrue, TodoIsTrue, DoneIsCurrent, SweepIsTrue
<1>3. ASSUME NEW f \in Files, Stat(f)
      PROVE  PassInv'
  <2>1. ScanIsTrue'
    <3>1. CASE real[f] # Absent /\ Fast(f)
      <4> DEFINE c == [text |-> row[f].sha, stamp |-> stamp[f], fast |-> TRUE]
      <4>1. /\ pc = "scan" /\ op = "full" /\ pc' = pc /\ f \in todo /\ row[f] # Absent
            /\ cand' = [cand EXCEPT ![f] = c] /\ todo' = todo \ {f}
            /\ UNCHANGED <<real, row, seen, op, missed, touched>>
        BY <1>0, <1>3, <3>1 DEF Stat, Fast, MirrorShape
      <4>2. c.text = row[f].sha /\ row[f].sha = real[f] /\ c # Absent
        BY <1>0, <3>1, <4>1, CandFits, BoundsAssumption
        DEF MirrorInv, StampsAreKnown, Known, MirrorShape, Fast, Rows
      <4> HIDE DEF c
      <4>3. \A g \in Files : cand'[g] = IF g = f THEN c ELSE cand[g]
        BY <1>0, <4>1 DEF MirrorShape
      <4>4. Candidates' = Candidates \cup {f}
        BY <4>2, <4>3 DEF Candidates
      <4> QED BY <1>0, <4>1, <4>2, <4>3, <4>4 DEF ScanIsTrue, Undisturbed, Candidates
    <3>2. CASE ~(real[f] # Absent /\ Fast(f))
      <4>1. /\ pc = "scan" /\ f \in todo /\ UNCHANGED <<real, row, cand, op, missed, touched>>
            /\ Candidates' = Candidates
            /\ \/ todo' = todo /\ seen' = seen
               \/ todo' = todo \ {f} /\ seen' = seen \cup {f}
        BY <1>3, <3>2 DEF Stat, Candidates
      <4> QED BY <1>0, <4>1 DEF ScanIsTrue, Undisturbed
    <3> QED BY <3>1, <3>2
  <2>2. pc' \in {"scan", "read"}
    BY <1>3 DEF Stat
  <2> QED
    BY <1>0, <2>1, <2>2 DEF PassInv, PassIsTrue, TodoIsTrue, DoneIsCurrent, SweepIsTrue
<1>4. ASSUME NEW f \in Files, StatFails(f)
      PROVE  PassInv'
  <2>1. /\ pc = "scan" /\ f \in todo /\ UNCHANGED <<real, row, cand, op, pc, missed, touched>>
        /\ Candidates' = Candidates /\ todo' = todo \ {f} /\ seen' = seen \cup {f}
    BY <1>4 DEF StatFails, Candidates
  <2>2. ScanIsTrue'
    BY <1>0, <2>1 DEF ScanIsTrue, Undisturbed
  <2> QED
    BY <1>0, <2>1, <2>2 DEF PassInv, PassIsTrue, TodoIsTrue, DoneIsCurrent, SweepIsTrue
<1>23. ASSUME NEW D \in SUBSET Files, WalkFails(D)
      PROVE  PassInv'
  <2>1. /\ pc = "scan" /\ UNCHANGED <<real, row, cand, op, pc, seen, touched>>
        /\ Candidates' = Candidates /\ todo' = todo \ D
    BY <1>23 DEF WalkFails, Candidates
  <2>2. ScanIsTrue'
    BY <1>0, <2>1 DEF ScanIsTrue, Undisturbed
  <2> QED
    BY <1>0, <2>1, <2>2 DEF PassInv, PassIsTrue, TodoIsTrue, DoneIsCurrent, SweepIsTrue
<1>5. ASSUME ReadCandidate
      PROVE  PassInv'
  <2> DEFINE c == [text |-> real[cur], stamp |-> now.stamp, fast |-> FALSE]
  <2>1. /\ pc = "read" /\ pc' = "scan" /\ op = "full" /\ cur \in Files /\ cur \in todo
        /\ todo' = todo \ {cur} /\ UNCHANGED <<real, row, op, missed, touched>>
    BY <1>0, <1>5 DEF ReadCandidate, PassShape, MirrorShape
  <2>2. ScanIsTrue'
    <3>1. CASE real[cur] = Absent
      <4>1. Candidates' = Candidates /\ cand' = cand /\ seen' = seen \cup {cur}
        BY <1>5, <3>1 DEF ReadCandidate, Candidates
      <4> QED BY <1>0, <2>1, <4>1 DEF ScanIsTrue, Undisturbed
    <3>2. CASE real[cur] # Absent
      <4>1. cand' = [cand EXCEPT ![cur] = c] /\ seen' = seen
        BY <1>5, <3>2 DEF ReadCandidate
      <4>2. c.text = real[cur] /\ c # Absent /\ c.fast = FALSE
        BY <1>0, <2>1, <3>2, CandFits DEF MirrorShape
      <4> HIDE DEF c
      <4>3. \A g \in Files : cand'[g] = IF g = cur THEN c ELSE cand[g]
        BY <1>0, <2>1, <4>1 DEF MirrorShape
      <4>4. Candidates' = Candidates \cup {cur}
        BY <2>1, <4>2, <4>3 DEF Candidates
      <4>5. ~c.fast
        BY <4>2
      <4> QED
        BY <1>0, <2>1, <4>1, <4>2, <4>3, <4>4, <4>5 DEF ScanIsTrue, Undisturbed, Candidates
    <3> QED BY <3>1, <3>2
  <2> QED
    BY <1>0, <2>1, <2>2 DEF PassInv, PassIsTrue, TodoIsTrue, DoneIsCurrent, SweepIsTrue
<1>6. ASSUME ScanDone
      PROVE  PassInv'
  <2>1. /\ pc = "scan" /\ pc' = "files" /\ todo = {} /\ op = "full" /\ logic' = Union
        /\ todo' = Candidates /\ seen' = seen \cup Candidates /\ Candidates' = Candidates
        /\ UNCHANGED <<real, row, cand, op, missed, touched>>
    BY <1>0, <1>6 DEF ScanDone, Candidates, MirrorShape
  <2>2. Clean' => Undisturbed /\ seen = {} /\ missed = {}
    BY <1>0, <2>1 DEF Clean, Undisturbed, ScanIsTrue
  <2>3. PassIsTrue'
    <3> SUFFICES ASSUME Clean'
                 PROVE  /\ Candidates = {f \in Files : real[f] # Absent}
                        /\ \A f \in Candidates : cand[f].text = real[f]
                        /\ Union = Protects({real[f] : f \in Files})
      BY <2>1 DEF PassIsTrue
    <3>2. \A f \in Candidates : f \in Files /\ cand[f].text = real[f] /\ real[f] # Absent
      BY <1>0, <2>1, <2>2, ContentsAssumption
      DEF ScanIsTrue, MirrorShape, Cands, Candidates
    <3>3. \A f \in Files : real[f] # Absent => f \in Candidates
      BY <1>0, <2>1, <2>2 DEF FilesAreSeen, Undisturbed
    <3>4. Union = Protects({real[f] : f \in Files})
      BY <3>2, <3>3, ContentsAssumption DEF Union, Protects
    <3> QED BY <3>2, <3>3, <3>4 DEF Candidates
  <2>4. TodoIsTrue'
    BY <1>0, <2>1, <2>2 DEF TodoIsTrue, ScanIsTrue
  <2>5. DoneIsCurrent'
    BY <2>1 DEF DoneIsCurrent
  <2> QED
    BY <1>0, <2>1, <2>3, <2>4, <2>5 DEF PassInv, ScanIsTrue, SweepIsTrue
<1>7. ASSUME NEW f \in Files, SkipFast(f)
      PROVE  PassInv'
  <2>1. /\ pc = "files" /\ f \in todo /\ todo' = todo \ {f}
        /\ cand[f].fast /\ ~force /\ row[f] # Absent /\ row[f].logic = logic
        /\ UNCHANGED <<disk, pc, cur, now, force, logic, seen, cand, op, missed, touched>>
        /\ Candidates' = Candidates
    BY <1>7 DEF SkipFast, Rendered, Candidates
  <2>2. PassIsTrue' /\ TodoIsTrue'
    BY <1>0, <2>1 DEF PassIsTrue, TodoIsTrue, Clean, Undisturbed
  <2>3. DoneIsCurrent'
    BY <1>0, <2>1 DEF DoneIsCurrent, PassIsTrue, TodoIsTrue, Clean, Undisturbed, Current
  <2> QED
    BY <1>0, <2>1, <2>2, <2>3 DEF PassInv, ScanIsTrue, SweepIsTrue
<1>8. ASSUME NEW f \in Files, Load(f)
      PROVE  PassInv'
  <2> DEFINE text == IF cand[f].fast THEN real[f] ELSE cand[f].text
             same == Rendered(f) /\ row[f].sha = text
  <2>1. /\ pc = "files" /\ f \in todo /\ f \in Candidates
        /\ UNCHANGED <<repo, mirror, map, force, logic, seen, cand, op, missed, touched>>
        /\ Candidates' = Candidates
    BY <1>0, <1>8 DEF Load, Candidates, MirrorShape
  <2>2. Clean => text = real[f] /\ text # Absent
    BY <1>0, <2>1 DEF PassIsTrue
  <2>3. PassIsTrue'
    <3>1. pc' \in {"files", "look"}
      BY <1>8 DEF Load
    <3> QED BY <1>0, <2>1, <3>1 DEF PassIsTrue, Clean, Undisturbed
  <2>4. CASE text = Absent
    <3>1. UNCHANGED <<row, pc, cur, now>> /\ ~Clean /\ ~Clean'
      BY <1>8, <2>1, <2>2, <2>4 DEF Load, Clean, Undisturbed
    <3> QED
      BY <1>0, <2>1, <2>3, <3>1 DEF PassInv, ScanIsTrue, TodoIsTrue, DoneIsCurrent, SweepIsTrue
  <2>5. CASE text # Absent /\ same
    <3>1. /\ row' = [row EXCEPT ![f].stamp = cand[f].stamp] /\ todo' = todo \ {f}
          /\ row[f] # Absent /\ row[f].sha = text /\ row[f].logic = logic /\ ~force
          /\ UNCHANGED <<pc, cur, now>>
      BY <1>8, <2>5 DEF Load, StampRead, Rendered
    <3>2. /\ row'[f].sha = row[f].sha /\ row'[f].logic = row[f].logic
          /\ \A g \in Files : g # f => row'[g] = row[g]
      BY <1>0, <3>1 DEF MirrorShape, Rows
    <3> HIDE DEF text, same
    <3>3. TodoIsTrue'
      BY <1>0, <2>1, <3>1, <3>2 DEF TodoIsTrue, Clean, Undisturbed, MirrorShape, Candidates
    <3>4. DoneIsCurrent'
      BY <1>0, <2>1, <2>2, <3>1, <3>2
      DEF DoneIsCurrent, Clean, Undisturbed, Current, Candidates
    <3> QED BY <1>0, <2>1, <2>3, <3>1, <3>3, <3>4 DEF PassInv, ScanIsTrue, SweepIsTrue
  <2>6. CASE text # Absent /\ ~same
    <3>1. /\ pc' = "look" /\ cur' = f /\ now'.text = text /\ UNCHANGED <<row, todo>>
      BY <1>8, <2>6 DEF Load
    <3> HIDE DEF text, same
    <3>2. TodoIsTrue'
      BY <1>0, <2>1, <2>2, <3>1 DEF TodoIsTrue, Clean, Undisturbed
    <3>3. DoneIsCurrent'
      BY <1>0, <2>1, <3>1 DEF DoneIsCurrent, Clean, Undisturbed, Current
    <3> QED BY <1>0, <2>1, <2>3, <3>1, <3>2, <3>3 DEF PassInv, ScanIsTrue, SweepIsTrue
  <2> QED BY <2>4, <2>5, <2>6
<1>9. ASSUME Look
      PROVE  PassInv'
  <2>1. /\ pc = "look" /\ op = "full" /\ cur \in Files
        /\ UNCHANGED <<disk, force, logic, seen, cand, op, missed, touched>>
        /\ Candidates' = Candidates
    BY <1>0, <1>9 DEF Look, MirrorShape, Candidates
  <2>2. PassIsTrue'
    BY <1>0, <1>9, <2>1 DEF PassIsTrue, Clean, Undisturbed, Look, Return
  <2>3. CASE pc' \in {"mirror", "stash"}
    <3>1. UNCHANGED <<todo, cur, now>>
      BY <1>9, <2>1, <2>3 DEF Look, Return
    <3> QED
      BY <1>0, <2>1, <2>2, <2>3, <3>1
      DEF PassInv, ScanIsTrue, TodoIsTrue, DoneIsCurrent, SweepIsTrue, Clean, Undisturbed, Current
  <2>4. CASE pc' \notin {"mirror", "stash"}
    <3>1. pc' = "files" /\ todo' = todo \ {cur} /\ ~force /\ PendingEdit(mirror[cur])
      BY <1>9, <2>1, <2>4 DEF Look, Return
    <3>2. ~(row[cur] # Absent /\ mirror[cur] = Hash(row[cur]))
      BY <3>1 DEF PendingEdit, Recorded
    <3>3. TodoIsTrue' /\ DoneIsCurrent'
      BY <1>0, <2>1, <3>1, <3>2 DEF TodoIsTrue, DoneIsCurrent, Clean, Undisturbed, Current
    <3> QED BY <1>0, <2>1, <2>2, <3>1, <3>3 DEF PassInv, ScanIsTrue, SweepIsTrue
  <2> QED BY <2>3, <2>4
<1>24. ASSUME LookFails
      PROVE  PassInv'
  <2>1. /\ pc = "look" /\ pc' = "mirror" /\ Candidates' = Candidates
        /\ UNCHANGED <<disk, todo, cur, now, force, logic, seen, cand, op, missed, touched>>
    BY <1>24 DEF LookFails, Candidates
  <2> QED
    BY <1>0, <2>1
    DEF PassInv, ScanIsTrue, PassIsTrue, TodoIsTrue, DoneIsCurrent, SweepIsTrue, Clean,
        Undisturbed, Current
<1>10. ASSUME Stash
      PROVE  PassInv'
  <2>1. /\ pc = "stash" /\ pc' = "mirror" /\ Candidates' = Candidates
        /\ UNCHANGED <<repo, mirror, map, row, job, touched>>
    BY <1>10 DEF Stash, Candidates
  <2> QED
    BY <1>0, <2>1
    DEF PassInv, ScanIsTrue, PassIsTrue, TodoIsTrue, DoneIsCurrent, SweepIsTrue, Clean,
        Undisturbed, Current
<1>11. ASSUME WriteMirror
      PROVE  PassInv'
  <2>1. /\ pc = "mirror" /\ pc' = "map" /\ Candidates' = Candidates /\ op = "full"
        /\ mirror' = [mirror EXCEPT ![cur] = Render(now.text, logic)]
        /\ UNCHANGED <<repo, map, row, job, touched>>
    BY <1>11 DEF WriteMirror, Candidates
  <2>2. cur \in todo /\ cur \in Files
    BY <1>0, <2>1 DEF PassShape, MirrorShape
  <2>3. \A g \in Files : mirror'[g] = IF g = cur THEN Render(now.text, logic) ELSE mirror[g]
    BY <1>0, <2>1 DEF EditShape
  <2>4. PassIsTrue' /\ TodoIsTrue'
    BY <1>0, <2>1, <2>2, <2>3 DEF PassIsTrue, TodoIsTrue, Clean, Undisturbed
  <2>5. DoneIsCurrent'
    BY <1>0, <2>1, <2>2, <2>3 DEF DoneIsCurrent, Clean, Undisturbed, Current, Candidates
  <2> QED BY <1>0, <2>1, <2>4, <2>5 DEF PassInv, ScanIsTrue, SweepIsTrue
<1>12. ASSUME WriteMap
      PROVE  PassInv'
  <2>1. /\ pc = "map" /\ pc' = "upsert" /\ Candidates' = Candidates /\ op = "full"
        /\ map' = [map EXCEPT ![cur] = Render(now.text, logic)]
        /\ UNCHANGED <<repo, mirror, row, job, touched>>
    BY <1>12 DEF WriteMap, Candidates
  <2>2. cur \in todo /\ cur \in Files
    BY <1>0, <2>1 DEF PassShape, MirrorShape
  <2>3. \A g \in Files : map'[g] = IF g = cur THEN Render(now.text, logic) ELSE map[g]
    BY <1>0, <2>1 DEF PassShape
  <2>4. PassIsTrue' /\ TodoIsTrue'
    BY <1>0, <2>1, <2>2, <2>3 DEF PassIsTrue, TodoIsTrue, Clean, Undisturbed
  <2>5. DoneIsCurrent'
    BY <1>0, <2>1, <2>2, <2>3 DEF DoneIsCurrent, Clean, Undisturbed, Current, Candidates
  <2> QED BY <1>0, <2>1, <2>4, <2>5 DEF PassInv, ScanIsTrue, SweepIsTrue
<1>13. ASSUME Upsert
      PROVE  PassInv'
  <2> DEFINE new == [sha |-> now.text, logic |-> logic, stamp |-> now.stamp]
  <2>1. /\ pc = "upsert" /\ op = "full" /\ pc' = "files" /\ Candidates' = Candidates
        /\ row' = [row EXCEPT ![cur] = new] /\ todo' = todo \ {cur}
        /\ UNCHANGED <<repo, mirror, map, force, logic, seen, cand, op, missed, touched>>
    BY <1>13 DEF Upsert, Return, Candidates
  <2>2. cur \in todo /\ cur \in Files /\ new \in Rows
    BY <1>0, <2>1 DEF PassShape, MirrorShape, Rows
  <2>3. new.sha = now.text /\ new.logic = logic /\ Hash(new) = Render(now.text, logic)
    BY DEF Hash
  <2> HIDE DEF new
  <2>4. \A g \in Files : row'[g] = IF g = cur THEN new ELSE row[g]
    BY <1>0, <2>1 DEF MirrorShape
  <2>5. PassIsTrue'
    BY <1>0, <2>1 DEF PassIsTrue, Clean, Undisturbed
  <2>6. TodoIsTrue'
    BY <1>0, <2>1, <2>2, <2>4 DEF TodoIsTrue, Clean, Undisturbed, Candidates, MirrorShape
  <2>7. DoneIsCurrent'
    <3> SUFFICES ASSUME Clean', NEW g \in Candidates, g \notin todo'
                 PROVE  /\ row'[g] # Absent /\ mirror[g] = Hash(row'[g]) => Current(g)'
                        /\ force => /\ Current(g)' /\ mirror[g] = Hash(row'[g])
                                    /\ map[g] = mirror[g]
      BY <2>1 DEF DoneIsCurrent, Hash
    <3>1. Clean /\ g \in Files
      BY <2>1 DEF Clean, Undisturbed, Candidates
    <3>2. CASE g = cur
      <4>1. mirror[cur] = Hash(new) /\ map[cur] = mirror[cur] /\ new.sha = real[cur]
        BY <1>0, <2>1, <2>3, <3>1 DEF TodoIsTrue
      <4>2. Current(g)' <=> new # Absent /\ new.sha = real[cur] /\ new.logic = logic
        BY <2>1, <2>2, <2>4, <3>2 DEF Current
      <4>3. new # Absent
        BY <2>2, AbsentAssumption
      <4> QED BY <2>2, <2>3, <2>4, <3>2, <4>1, <4>2, <4>3
    <3>3. CASE g # cur
      <4>1. row'[g] = row[g] /\ g \notin todo /\ (Current(g)' <=> Current(g))
        BY <2>1, <2>4, <3>1, <3>3 DEF Current
      <4> QED BY <1>0, <2>1, <3>1, <4>1 DEF DoneIsCurrent
    <3> QED BY <3>2, <3>3
  <2> QED BY <1>0, <2>1, <2>5, <2>6, <2>7 DEF PassInv, ScanIsTrue, SweepIsTrue
<1>14. ASSUME StartSweep
      PROVE  PassInv'
  <2>1. /\ pc = "files" /\ pc' = "sweep" /\ todo = {} /\ todo' = Tracked \ seen
        /\ Candidates' = Candidates /\ Tracked' = Tracked
        /\ UNCHANGED <<disk, force, logic, seen, cand, op, missed, touched>>
    BY <1>14 DEF StartSweep, Spared, Candidates, Tracked
  <2>2. PassIsTrue' /\ SweepIsTrue'
    BY <1>0, <2>1 DEF PassIsTrue, SweepIsTrue, Clean, Undisturbed
  <2>3. DoneIsCurrent'
    BY <1>0, <2>1 DEF DoneIsCurrent, Clean, Undisturbed, Current
  <2> QED BY <1>0, <2>1, <2>2, <2>3 DEF PassInv, ScanIsTrue, TodoIsTrue
<1>15. ASSUME NEW f \in Files, DropRow(f)
      PROVE  PassInv'
  <2>1. /\ pc = "sweep" /\ pc' = "dropmirror" /\ f \in todo /\ todo' = todo \ {f}
        /\ row' = [row EXCEPT ![f] = Absent] /\ op = "full" /\ Candidates' = Candidates
        /\ UNCHANGED <<repo, mirror, map, force, logic, seen, cand, op, missed, touched>>
    BY <1>15 DEF DropRow, Candidates
  <2>2. f \notin seen
    BY <1>0, <2>1 DEF FilesAreSeen
  <2>3. \A g \in Files : row'[g] = IF g = f THEN Absent ELSE row[g]
    BY <1>0, <2>1 DEF MirrorShape
  <2>4. PassIsTrue'
    BY <1>0, <2>1 DEF PassIsTrue, Clean, Undisturbed
  <2>5. SweepIsTrue'
    BY <1>0, <2>1, <2>3 DEF SweepIsTrue, Tracked
  <2>6. DoneIsCurrent'
    BY <1>0, <2>1, <2>2, <2>3 DEF DoneIsCurrent, Clean, Undisturbed, Current, Candidates
  <2> QED BY <1>0, <2>1, <2>4, <2>5, <2>6 DEF PassInv, ScanIsTrue, TodoIsTrue
<1>16. ASSUME DropMirror
      PROVE  PassInv'
  <2>1. /\ pc = "dropmirror" /\ pc' = "dropmap" /\ op = "full" /\ Candidates' = Candidates
        /\ mirror' = [mirror EXCEPT ![cur] = Absent] /\ Tracked' = Tracked /\ cur \notin seen
        /\ UNCHANGED <<repo, row, map, job, touched>>
    BY <1>0, <1>16 DEF DropMirror, Candidates, Tracked, PassShape
  <2>2. \A g \in Files : mirror'[g] = IF g = cur THEN Absent ELSE mirror[g]
    BY <1>0, <2>1 DEF EditShape
  <2>3. PassIsTrue' /\ SweepIsTrue'
    BY <1>0, <2>1 DEF PassIsTrue, SweepIsTrue, Clean, Undisturbed
  <2>4. DoneIsCurrent'
    BY <1>0, <2>1, <2>2 DEF DoneIsCurrent, Clean, Undisturbed, Current, Candidates
  <2> QED BY <1>0, <2>1, <2>3, <2>4 DEF PassInv, ScanIsTrue, TodoIsTrue
<1>17. ASSUME DropMap
      PROVE  PassInv'
  <2>1. /\ pc = "dropmap" /\ pc' = "sweep" /\ op = "full" /\ Candidates' = Candidates
        /\ map' = [map EXCEPT ![cur] = Absent] /\ Tracked' = Tracked /\ cur \notin seen
        /\ UNCHANGED <<repo, row, mirror, force, logic, todo, seen, cand, op, missed, touched>>
    BY <1>0, <1>17 DEF DropMap, Candidates, Tracked, PassShape
  <2>2. \A g \in Files : map'[g] = IF g = cur THEN Absent ELSE map[g]
    BY <1>0, <2>1 DEF PassShape
  <2>3. PassIsTrue' /\ SweepIsTrue'
    BY <1>0, <2>1 DEF PassIsTrue, SweepIsTrue, Clean, Undisturbed
  <2>4. DoneIsCurrent'
    BY <1>0, <2>1, <2>2 DEF DoneIsCurrent, Clean, Undisturbed, Current, Candidates
  <2> QED BY <1>0, <2>1, <2>3, <2>4 DEF PassInv, ScanIsTrue, TodoIsTrue
<1>18. ASSUME SweepDone
      PROVE  PassInv'
  <2>1. /\ pc = "sweep" /\ pc' = "end" /\ todo = {} /\ Candidates' = Candidates
        /\ Tracked' = Tracked /\ UNCHANGED <<disk, job, touched>>
    BY <1>18 DEF SweepDone, Candidates, Tracked
  <2> QED
    BY <1>0, <2>1
    DEF PassInv, ScanIsTrue, PassIsTrue, TodoIsTrue, DoneIsCurrent, SweepIsTrue, Clean,
        Undisturbed, Current
<1>19. pc = "idle" \/ pc \in {"one", "drift", "apply"} => op # "full"
  BY <1>0 DEF PassShape, MirrorShape
<1>20. CASE Outside
  <2>1. op = "full" /\ pc # "idle" /\ touched' # {} /\ UNCHANGED <<pc, op, row, seen, todo>>
    BY <1>0, <1>20 DEF Outside, DevEdit, AgentEdit, Touch, PassShape
  <2>2. SweepIsTrue'
    BY <1>0, <2>1 DEF SweepIsTrue, Tracked
  <2> QED BY <1>0, <2>1, <2>2, DisturbedPass
<1>21. CASE UNCHANGED vars
  BY <1>0, <1>21
  DEF vars, PassInv, ScanIsTrue, PassIsTrue, TodoIsTrue, DoneIsCurrent, SweepIsTrue, Clean,
      Undisturbed, Candidates, Current, Tracked
<1>22. CASE \/ \E f \in Files, forced \in BOOLEAN : StartOne(f, forced)
            \/ \E f \in Files : StartProject(f)
            \/ ReadOne \/ CheckDrift \/ RecordEdit \/ NoProjection \/ Finish
            \/ \E c \in Contents : Project(c)
            \/ Die \/ DatabaseLoss \/ PowerLoss
  <2>1. op' # "full"
    BY <1>19, <1>22
    DEF StartOne, StartProject, ReadOne, CheckDrift, RecordEdit, NoProjection, Finish, Project,
        Die, DatabaseLoss, PowerLoss, Release
  <2> QED BY <2>1
<1> QED
  BY <1>2, <1>3, <1>4, <1>5, <1>6, <1>7, <1>8, <1>9, <1>10, <1>11, <1>12, <1>13, <1>14, <1>15,
     <1>16, <1>17, <1>18, <1>20, <1>21, <1>22, <1>23, <1>24
  DEF Next, Step, StartFull, Reconverge

(* The invariant holds in every reachable state. *)
LEMMA PassInvHolds == Spec => [](MirrorInv /\ EditInv /\ PassInv)
BY InitMirrorInv, StepKeepsMirrorInv, InitEditInv, StepKeepsEditInv, InitPassInv,
   StepKeepsPassInv, PTL DEF Spec

(***************************************************************************)
(* Theorems                                                                *)
(***************************************************************************)

(* After a full pass nobody wrote into and that met no error, a mirror that  *)
(* its row vouches for, so that the patch bridge takes edits of it, shows    *)
(* its file as it is, under what all the files declare (index.rs).           *)
THEOREM AcceptedIsCurrentAlways == Spec => []AcceptedMirrorIsCurrent
<1>1. PassInv => AcceptedMirrorIsCurrent
  <2> SUFFICES ASSUME PassInv, Ended("full"), NEW f \in Tracked, real[f] # Absent,
                      mirror[f] = Hash(row[f])
               PROVE  mirror[f] = Hash(Now(f))
    BY DEF AcceptedMirrorIsCurrent
  <2>1. Clean /\ pc = "end" /\ pc \in SweepPhase /\ f \in Files /\ row[f] # Absent
    BY DEF Ended, Clean, Undisturbed, SweepPhase, Tracked
  <2>2. f \in Candidates /\ logic = Protects({real[g] : g \in Files})
    BY <2>1 DEF PassInv, PassIsTrue
  <2>3. row[f].sha = real[f] /\ row[f].logic = logic
    BY <2>1, <2>2 DEF PassInv, DoneIsCurrent, Current
  <2> QED BY <2>2, <2>3 DEF Hash, Now
<1> QED BY <1>1, PassInvHolds, PTL

(* After sync --force, every file that is there is tracked, verify has       *)
(* nothing to say of it and its row vouches for its mirror, whatever deaths, *)
(* losses and edits came before (README.md:240).                             *)
THEOREM ForcedSyncConvergesAlways == Spec => []ForcedSyncConverges
<1>1. MirrorInv /\ PassInv => ForcedSyncConverges
  <2> SUFFICES ASSUME MirrorInv, PassInv, Ended("full"), force, NEW f \in Files, real[f] # Absent
               PROVE  f \in Tracked /\ f \notin VerifyFailures /\ mirror[f] = Hash(row[f])
    BY DEF ForcedSyncConverges
  <2>1. Clean /\ pc = "end" /\ pc \in SweepPhase /\ op = "full"
    BY DEF Ended, Clean, Undisturbed, SweepPhase
  <2>2. /\ Candidates = {g \in Files : real[g] # Absent}
        /\ logic = Protects({real[g] : g \in Files})
    BY <2>1 DEF PassInv, PassIsTrue
  <2>3. \A g \in Candidates : Current(g) /\ mirror[g] = Hash(row[g]) /\ map[g] = mirror[g]
    BY <2>1 DEF PassInv, DoneIsCurrent
  <2>4. Tracked = Candidates
    BY <2>1, <2>2, <2>3 DEF PassInv, SweepIsTrue, Clean, Tracked, Current
  <2>5. RealUnion = logic
    BY <2>2, <2>4, ContentsAssumption DEF RealUnion, Protects
  <2>6. VerifyFile(f)
    BY <2>2, <2>3, <2>5 DEF VerifyFile, Current, Hash
  <2> QED BY <2>2, <2>3, <2>4, <2>6 DEF VerifyFailures, UntrackedMirrors
<1> QED BY <1>1, PassInvHolds, PTL

(***************************************************************************)
(* Edits that are projected                                                *)
(***************************************************************************)

(* m carries an edit that was made on what a row described.                *)
Edited(m) == EditOf(m) \cap vouched # {}

(* Edits are numbered in turn, and those there are, are of the past.        *)
Past(m, turn) == m # Absent => m.edit <= turn
TurnsArePast ==
    /\ edit \in Renders \cup {Absent} /\ Past(edit, mishaps)
    /\ \A f \in Files : Past(mirror[f], mishaps) /\ Past(settled[f], mishaps)
    /\ vouched \subseteq 1..mishaps

(* The mirror of the file that is being recorded has the text of its row to *)
(* be, edited or not.                                                       *)
RecordedIsShown ==
    pc \in {"map", "upsert"} => mirror[cur] # Absent /\ mirror[cur].text = now.text

(* A mirror edited on what its row described still has the text of the row. *)
EditedIsRecorded ==
    \A f \in Files : Edited(mirror[f]) => row[f] # Absent /\ row[f].sha = mirror[f].text

(* What the drift check lets pass was made against the real text, until      *)
(* somebody writes the file.                                                 *)
Passed ==
    /\ ~drifted
    /\ \/ op = "project" /\ pc \in {"one", "look", "stash", "mirror", "map", "upsert"}
       \/ pc = "apply"
CapturedIsTrue ==
    Edited(edit) =>
      /\ pc = "drift" => row[cur] # Absent /\ row[cur].sha = edit.text
      /\ Passed => real[cur] = edit.text \/ cur \in touched

LandInv == TurnsArePast /\ RecordedIsShown /\ EditedIsRecorded /\ CapturedIsTrue

(* An edit of the past was vouched for when it was made, or never.          *)
LEMMA PastIsSettled ==
  ASSUME NEW m \in Renders \cup {Absent}, Past(m, mishaps),
         mishaps \in Nat, vouched' \subseteq vouched \cup {mishaps + 1}
  PROVE  EditOf(m) \cap vouched' \subseteq EditOf(m) \cap vouched
BY BoundsAssumption DEF Past, EditOf, Renders, Edits

(* The turns of the edits stay in the past.                                 *)
LEMMA StepKeepsTurns ==
  ASSUME MirrorShape, EditShape, TurnsArePast, [Next]_vars
  PROVE  TurnsArePast'
<1> USE BoundsAssumption
<1>0. mishaps \in Nat /\ \A m \in Renders : m.edit \in Nat
  BY DEF EditShape, Renders, Edits
<1>1. ASSUME NEW m \in Renders \cup {Absent}, Past(m, mishaps)
      PROVE  Past(m, mishaps + 1) /\ Past(Unsynced(m), mishaps) /\ Past(Unsynced(m), mishaps + 1)
  BY <1>0, <1>1 DEF Past, Unsynced
<1>2. ASSUME UNCHANGED <<mirror, settled>>, vouched' \subseteq vouched, edit' \in {edit, Absent},
             mishaps' \in {mishaps, mishaps + 1}
      PROVE  TurnsArePast'
  <2>1. \A f \in Files : Past(mirror[f], mishaps') /\ Past(settled[f], mishaps')
    BY <1>1, <1>2 DEF TurnsArePast, EditShape
  <2>2. edit' \in Renders \cup {Absent} /\ Past(edit', mishaps')
    BY <1>0, <1>2 DEF TurnsArePast, Past
  <2>3. vouched' \subseteq 1..mishaps'
    BY <1>0, <1>2 DEF TurnsArePast
  <2> QED BY <1>2, <2>1, <2>2, <2>3 DEF TurnsArePast
<1>3. CASE WriteMirror \/ DropMirror
  <2>1. PICK r \in Renders \cup {Absent} : /\ Past(r, mishaps)
                                          /\ mirror' = [mirror EXCEPT ![cur] = r]
    <3>1. CASE WriteMirror
      <4>1. mirror' = [mirror EXCEPT ![cur] = Render(now.text, logic)] /\ pc = "mirror"
        BY <3>1 DEF WriteMirror
      <4>2. Render(now.text, logic) \in Renders /\ Render(now.text, logic).edit = 0
        BY <4>1 DEF MirrorShape, Renders, Render
      <4>3. Past(Render(now.text, logic), mishaps)
        BY <1>0, <4>2 DEF Past
      <4> QED BY <4>1, <4>2, <4>3
    <3>2. CASE DropMirror
      BY <3>2 DEF DropMirror, Past
    <3> QED BY <1>3, <3>1, <3>2
  <2>2. /\ settled' = [settled EXCEPT ![cur] = Unsynced(mirror[cur])]
        /\ UNCHANGED <<edit, mishaps, vouched>>
    BY <1>3 DEF WriteMirror, DropMirror
  <2>3. ASSUME NEW f \in Files
        PROVE  Past(mirror'[f], mishaps) /\ Past(settled'[f], mishaps)
    BY <1>1, <2>1, <2>2 DEF TurnsArePast, EditShape
  <2> QED BY <2>2, <2>3 DEF TurnsArePast
<1>4. ASSUME NEW f \in Files, AgentEdit(f)
      PROVE  TurnsArePast'
  <2> DEFINE m == [mirror[f] EXCEPT !.edit = mishaps']
  <2>1. /\ mirror[f] # Absent /\ mirror' = [mirror EXCEPT ![f] = m]
        /\ settled' = [settled EXCEPT ![f] = Unsynced(mirror'[f])]
        /\ mishaps < MaxMishaps /\ mishaps' = mishaps + 1 /\ UNCHANGED edit
        /\ vouched' \subseteq vouched \cup {mishaps'}
    BY <1>4 DEF AgentEdit, Mishap
  <2>2. m \in Renders /\ m.edit = mishaps'
    BY <1>0, <2>1 DEF EditShape, Renders, Edits
  <2> HIDE DEF m
  <2>3. Past(m, mishaps') /\ Past(Unsynced(m), mishaps')
    BY <1>0, <2>1, <2>2 DEF Past, Unsynced
  <2>4. mirror'[f] = m
    BY <2>1 DEF EditShape
  <2>5. ASSUME NEW g \in Files
        PROVE  Past(mirror'[g], mishaps') /\ Past(settled'[g], mishaps')
    BY <1>1, <2>1, <2>3, <2>4, <2>5 DEF TurnsArePast, EditShape
  <2>6. edit' \in Renders \cup {Absent} /\ Past(edit', mishaps')
    BY <1>1, <2>1 DEF TurnsArePast
  <2>7. vouched' \subseteq 1..mishaps'
    BY <1>0, <2>1 DEF TurnsArePast
  <2> QED BY <2>5, <2>6, <2>7 DEF TurnsArePast
<1>5. CASE PowerLoss
  <2>1. PICK S \in SUBSET Files :
          mirror' = [f \in Files |-> IF f \in S THEN settled[f] ELSE mirror[f]]
    BY <1>5 DEF PowerLoss
  <2>2. /\ settled' = [f \in Files |-> Unsynced(mirror'[f])] /\ edit' = Absent
        /\ mishaps' = mishaps + 1 /\ vouched' \subseteq vouched
    BY <1>5 DEF PowerLoss, Release, Mishap
  <2>3. ASSUME NEW f \in Files
        PROVE  Past(mirror'[f], mishaps') /\ Past(settled'[f], mishaps')
    <3>1. PICK m \in Renders \cup {Absent} : /\ Past(m, mishaps) /\ mirror'[f] = m
                                            /\ settled'[f] = Unsynced(m)
      BY <2>1, <2>2 DEF TurnsArePast, EditShape
    <3> QED BY <1>1, <2>2, <3>1
  <2>4. vouched' \subseteq 1..mishaps'
    BY <1>0, <2>2 DEF TurnsArePast
  <2> QED BY <2>2, <2>3, <2>4 DEF TurnsArePast, Past
<1>6. ASSUME NEW f \in Files, StartProject(f)
      PROVE  TurnsArePast'
  BY <1>6 DEF StartProject, TurnsArePast, EditShape
<1>7. CASE \/ \E forced \in BOOLEAN :
                StartFull(forced) \/ \E f \in Files : StartOne(f, forced)
           \/ \E f \in Files : Stat(f) \/ StatFails(f) \/ SkipFast(f) \/ Load(f) \/ DropRow(f)
           \/ \E D \in SUBSET Files : WalkFails(D)
           \/ ReadCandidate \/ ScanDone \/ Look \/ LookFails \/ Stash \/ WriteMap \/ Upsert
           \/ Reconverge \/ StartSweep
  <2>1. /\ UNCHANGED <<mirror, settled, edit>> /\ mishaps' \in {mishaps, mishaps + 1}
        /\ vouched' \subseteq vouched
    BY <1>7
    DEF StartFull, StartOne, Stat, StatFails, WalkFails, SkipFast, Load, DropRow, ReadCandidate,
        Mishap, ScanDone, Look, LookFails, Stash, WriteMap, Upsert, Reconverge, Listing,
        StartSweep
  <2> QED BY <1>2, <2>1
<1>8. CASE \/ DropMap \/ SweepDone \/ ReadOne \/ CheckDrift \/ RecordEdit \/ NoProjection
           \/ Finish \/ \E c \in Contents : Project(c)
           \/ \E f \in Files, c \in Contents \cup {Absent} : DevEdit(f, c)
           \/ Die \/ DatabaseLoss \/ UNCHANGED vars
  <2>1. /\ UNCHANGED <<mirror, settled>> /\ mishaps' \in {mishaps, mishaps + 1}
        /\ edit' \in {edit, Absent} /\ vouched' \subseteq vouched
    BY <1>8
    DEF DropMap, SweepDone, ReadOne, Release, CheckDrift, RecordEdit, NoProjection, Finish,
        Project, DevEdit, Die, DatabaseLoss, Mishap, vars
  <2> QED BY <1>2, <2>1
<1> QED
  BY <1>3, <1>4, <1>5, <1>6, <1>7, <1>8 DEF Next, Step, Outside

(* The mirror of the file that is being recorded keeps its text.            *)
LEMMA StepKeepsShown ==
  ASSUME MirrorShape, EditShape, RecordedIsShown, [Next]_vars
  PROVE  RecordedIsShown'
<1> USE DEF RecordedIsShown
<1>1. CASE WriteMirror
  <2> DEFINE r == Render(now.text, logic)
  <2>1. /\ r \in Renders /\ r.text = now.text /\ cur \in Files
        /\ mirror' = [mirror EXCEPT ![cur] = r] /\ UNCHANGED <<cur, now>>
    BY <1>1 DEF WriteMirror, MirrorShape, Renders, Render
  <2>2. mirror'[cur] = r
    BY <2>1 DEF EditShape
  <2> QED BY <2>1, <2>2, AbsentAssumption
<1>2. CASE WriteMap
  BY <1>2 DEF WriteMap
<1>3. ASSUME NEW f \in Files, AgentEdit(f)
      PROVE  RecordedIsShown'
  <2>1. /\ mirror' = [mirror EXCEPT ![f].edit = mishaps'] /\ UNCHANGED <<pc, cur, now>>
        /\ mirror[f] # Absent /\ mishaps' = mishaps + 1 /\ mishaps < MaxMishaps
    BY <1>3 DEF AgentEdit, Mishap
  <2>2. mirror[f] \in Renders /\ mishaps' \in Edits
    BY <2>1, BoundsAssumption DEF EditShape, Edits
  <2>3. mirror'[f] \in Renders /\ mirror'[f].text = mirror[f].text
    BY <2>1, <2>2 DEF EditShape, Renders
  <2>4. \A g \in Files \ {f} : mirror'[g] = mirror[g]
    BY <2>1 DEF EditShape
  <2> QED BY <2>1, <2>3, <2>4, AbsentAssumption DEF MirrorShape
<1>4. CASE \/ \E f \in Files, c \in Contents \cup {Absent} : DevEdit(f, c)
           \/ \E f \in Files : StatFails(f)
           \/ \E D \in SUBSET Files : WalkFails(D)
           \/ UNCHANGED vars
  BY <1>4 DEF DevEdit, StatFails, WalkFails, vars
<1>5. CASE \/ \E forced \in BOOLEAN :
                StartFull(forced) \/ \E f \in Files : StartOne(f, forced)
           \/ \E f \in Files :
                StartProject(f) \/ Stat(f) \/ SkipFast(f) \/ Load(f) \/ DropRow(f)
           \/ ReadCandidate \/ ScanDone \/ Look \/ LookFails \/ Stash \/ Upsert \/ Reconverge
           \/ StartSweep \/ DropMirror
  BY <1>5
  DEF StartFull, StartOne, StartProject, Stat, SkipFast, Load, DropRow, ReadCandidate, ScanDone,
      Look, LookFails, Stash, Upsert, Return, Reconverge, Listing, StartSweep, DropMirror
<1>6. CASE \/ DropMap \/ SweepDone \/ ReadOne \/ CheckDrift \/ RecordEdit \/ NoProjection
           \/ Finish \/ \E c \in Contents : Project(c)
           \/ Die \/ DatabaseLoss \/ PowerLoss
  BY <1>6
  DEF DropMap, SweepDone, ReadOne, Release, CheckDrift, RecordEdit, NoProjection, Finish, Project,
      Die, DatabaseLoss, PowerLoss
<1> QED BY <1>1, <1>2, <1>3, <1>4, <1>5, <1>6 DEF Next, Step, Outside

(* An edit vouched for by its row keeps the row's text beneath it.          *)
LEMMA StepKeepsRecorded ==
  ASSUME MirrorShape, EditShape, LandInv, [Next]_vars
  PROVE  EditedIsRecorded'
<1> USE DEF EditedIsRecorded, Edited
<1>0. EditedIsRecorded /\ TurnsArePast /\ RecordedIsShown
  BY DEF LandInv
<1>1. ASSUME UNCHANGED <<mirror, vouched, row>>
      PROVE  EditedIsRecorded'
  BY <1>0, <1>1
<1>2. CASE WriteMirror
  <2> DEFINE r == Render(now.text, logic)
  <2>1. /\ EditOf(r) = {} /\ pc = "mirror" /\ cur \in Files
        /\ mirror' = [mirror EXCEPT ![cur] = r] /\ UNCHANGED <<row, vouched>>
    BY <1>2, RenderIsClean DEF WriteMirror, MirrorShape
  <2> HIDE DEF r
  <2>2. \A f \in Files : mirror'[f] = IF f = cur THEN r ELSE mirror[f]
    BY <2>1 DEF EditShape
  <2> QED BY <1>0, <2>1, <2>2
<1>3. CASE DropMirror
  <2>1. mirror' = [mirror EXCEPT ![cur] = Absent] /\ UNCHANGED <<row, vouched>>
    BY <1>3 DEF DropMirror
  <2>2. \A f \in Files : mirror'[f] = IF f = cur THEN Absent ELSE mirror[f]
    BY <2>1 DEF EditShape
  <2> QED BY <1>0, <2>1, <2>2 DEF EditOf
<1>4. ASSUME NEW f \in Files, AgentEdit(f)
      PROVE  EditedIsRecorded'
  <2>1. /\ mirror' = [mirror EXCEPT ![f].edit = mishaps'] /\ UNCHANGED row
        /\ mirror[f] # Absent /\ mishaps' = mishaps + 1
        /\ vouched' = IF Edited(mirror[f]) \/ mirror[f] \in Recorded(f)
                      THEN vouched \cup {mishaps'} ELSE vouched
    BY <1>4 DEF AgentEdit, Mishap
  <2>2. mirror[f] \in Renders /\ mishaps \in Nat
    BY <2>1, BoundsAssumption DEF EditShape
  <2>3. /\ mirror'[f].text = mirror[f].text /\ mirror'[f].edit = mishaps'
        /\ \A g \in Files \ {f} : mirror'[g] = mirror[g]
    BY <2>1, <2>2 DEF EditShape, Renders
  <2>4. ASSUME NEW g \in Files \ {f}, Edited(mirror[g])'
        PROVE  Edited(mirror[g])
    <3>1. vouched' \subseteq vouched \cup {mishaps + 1}
      BY <2>1
    <3>2. mirror[g] \in Renders \cup {Absent} /\ Past(mirror[g], mishaps)
      BY <1>0 DEF EditShape, TurnsArePast
    <3>3. EditOf(mirror[g]) \cap vouched' \subseteq EditOf(mirror[g]) \cap vouched
      BY <2>2, <3>1, <3>2, PastIsSettled
    <3> QED BY <2>3, <2>4, <3>3
  <2>5. ASSUME Edited(mirror[f])'
        PROVE  Edited(mirror[f]) \/ mirror[f] \in Recorded(f)
    <3>1. SUFFICES ASSUME vouched' = vouched PROVE FALSE
      BY <2>1
    <3>2. mishaps + 1 \in 1..mishaps
      BY <1>0, <2>1, <2>3, <2>5, <3>1 DEF EditOf, TurnsArePast
    <3> QED BY <2>2, <3>2
  <2>6. mirror[f] \in Recorded(f) => row[f] # Absent /\ row[f].sha = mirror[f].text
    BY DEF Recorded, Hash, Render
  <2> QED BY <1>0, <2>1, <2>3, <2>4, <2>5, <2>6
<1>5. CASE Upsert
  <2>1. /\ pc = "upsert" /\ cur \in Files /\ UNCHANGED <<mirror, vouched>>
        /\ row' = [row EXCEPT ![cur] = [sha |-> now.text, logic |-> logic, stamp |-> now.stamp]]
    BY <1>5 DEF Upsert, MirrorShape
  <2>2. [sha |-> now.text, logic |-> logic, stamp |-> now.stamp] \in Rows
    BY <2>1 DEF MirrorShape, Rows
  <2>3. /\ row'[cur] # Absent /\ row'[cur].sha = now.text
        /\ \A g \in Files \ {cur} : row'[g] = row[g]
    BY <2>1, <2>2, AbsentAssumption DEF MirrorShape
  <2> QED BY <1>0, <2>1, <2>3 DEF RecordedIsShown
<1>6. ASSUME NEW f \in Files, Load(f)
      PROVE  EditedIsRecorded'
  <2>1. pc = "files" /\ UNCHANGED <<mirror, vouched>>
        /\ \/ row' = row
           \/ /\ f \in todo /\ row[f] # Absent
              /\ row' = [row EXCEPT ![f].stamp = StampRead(f)]
    BY <1>6 DEF Load, Rendered
  <2>2. CASE row' = row
    BY <1>1, <2>1, <2>2
  <2>3. CASE /\ f \in todo /\ row[f] # Absent
             /\ row' = [row EXCEPT ![f].stamp = StampRead(f)]
    <3>1. row[f] \in Rows /\ cand[f] \in Cands
      BY <2>1, <2>3 DEF MirrorShape, Candidates
    <3>2. StampRead(f) \in 0..MaxTicks
      BY <3>1 DEF StampRead, Cands
    <3>3. /\ row'[f] \in Rows /\ row'[f].sha = row[f].sha
          /\ \A g \in Files \ {f} : row'[g] = row[g]
      BY <2>3, <3>1, <3>2 DEF MirrorShape, Rows
    <3> QED BY <1>0, <2>1, <2>3, <3>3, AbsentAssumption
  <2> QED BY <2>1, <2>2, <2>3
<1>7. ASSUME NEW f \in Files, DropRow(f)
      PROVE  EditedIsRecorded'
  <2>1. /\ row' = [row EXCEPT ![f] = Absent] /\ mirror' = mirror
        /\ vouched' = vouched \ EditOf(mirror[f])
    BY <1>7 DEF DropRow
  <2>2. ~Edited(mirror[f])' /\ \A g \in Files \ {f} : row'[g] = row[g]
    BY <2>1 DEF MirrorShape, EditOf
  <2> QED BY <1>0, <2>1, <2>2 DEF EditOf
<1>8. CASE \/ \E f \in Files, c \in Contents \cup {Absent} : DevEdit(f, c)
           \/ UNCHANGED vars
  BY <1>1, <1>8 DEF DevEdit, vars
<1>9. CASE \/ \E forced \in BOOLEAN :
                StartFull(forced) \/ \E f \in Files : StartOne(f, forced)
           \/ \E f \in Files : StartProject(f) \/ Stat(f) \/ StatFails(f) \/ SkipFast(f)
           \/ \E D \in SUBSET Files : WalkFails(D)
           \/ ReadCandidate \/ ScanDone \/ Look \/ LookFails \/ Stash \/ WriteMap
           \/ Reconverge \/ StartSweep
  BY <1>1, <1>9
  DEF StartFull, StartOne, StartProject, Stat, StatFails, WalkFails, SkipFast, ReadCandidate,
      ScanDone, Look, LookFails, Stash, WriteMap, Reconverge, Listing, StartSweep
<1>10. CASE \/ DropMap \/ SweepDone \/ ReadOne \/ CheckDrift \/ RecordEdit \/ NoProjection
            \/ Finish \/ Die \/ \E c \in Contents : Project(c)
  BY <1>1, <1>10
  DEF DropMap, SweepDone, ReadOne, CheckDrift, RecordEdit, NoProjection, Finish, Project, Die
<1>11. CASE DatabaseLoss
  BY <1>11 DEF DatabaseLoss
<1>12. CASE PowerLoss
  <2>1. ASSUME NEW f \in Files, Edited(mirror[f])'
        PROVE  mirror'[f] = mirror[f] /\ Edited(mirror[f])
    BY <1>12, <2>1 DEF PowerLoss
  <2> QED BY <1>0, <1>12, <2>1 DEF PowerLoss
<1> QED
  BY <1>2, <1>3, <1>4, <1>5, <1>6, <1>7, <1>8, <1>9, <1>10, <1>11, <1>12
  DEF Next, Step, Outside

(* The text the drift check found stays beneath the captured edit.          *)
LEMMA StepKeepsCaptured ==
  ASSUME MirrorShape, EditShape, LandInv, [Next]_vars
  PROVE  CapturedIsTrue'
<1> USE DEF CapturedIsTrue, Edited, Passed
<1>0. CapturedIsTrue /\ TurnsArePast /\ EditedIsRecorded
  BY DEF LandInv
<1>1. CASE CheckDrift
  <2>1. /\ pc = "drift" /\ pc' = "one" /\ drifted' = Drift
        /\ UNCHANGED <<vouched, edit, cur, real, touched>>
    BY <1>1 DEF CheckDrift
  <2> QED BY <1>0, <2>1 DEF Drift
<1>2. ASSUME NEW f \in Files, StartProject(f)
      PROVE  CapturedIsTrue'
  <2>1. /\ pc = "idle" /\ pc' = "drift" /\ cur' = f /\ edit' = mirror[f]
        /\ UNCHANGED <<vouched, row>>
    BY <1>2 DEF StartProject
  <2> QED BY <1>0, <2>1 DEF EditedIsRecorded
<1>3. ASSUME NEW f \in Files, AgentEdit(f)
      PROVE  CapturedIsTrue'
  <2>1. /\ UNCHANGED <<pc, op, drifted, edit, cur, row, real>>
        /\ pc # "idle" => touched \subseteq touched'
        /\ vouched' \subseteq vouched \cup {mishaps + 1}
    BY <1>3 DEF AgentEdit, Mishap, Touch
  <2>2. mishaps \in Nat
    BY BoundsAssumption DEF EditShape
  <2>3. EditOf(edit) \cap vouched' \subseteq EditOf(edit) \cap vouched
    BY <1>0, <2>1, <2>2, PastIsSettled DEF TurnsArePast
  <2> QED BY <1>0, <2>1, <2>3
<1>4. ASSUME NEW f \in Files, NEW c, DevEdit(f, c)
      PROVE  CapturedIsTrue'
  <2>1. /\ UNCHANGED <<pc, op, drifted, edit, cur, row, vouched>>
        /\ real' = [real EXCEPT ![f] = c] /\ (pc # "idle" => touched' = touched \cup {f})
    BY <1>4 DEF DevEdit, Write, Touch
  <2> QED BY <1>0, <2>1 DEF MirrorShape
<1>5. CASE ReadOne \/ Look \/ LookFails \/ Stash \/ WriteMirror \/ WriteMap \/ Upsert
  <2>1. /\ UNCHANGED <<real, vouched>>
        /\ \/ pc' = "idle"
           \/ /\ UNCHANGED <<op, drifted, edit, touched>> /\ pc' # "drift"
              /\ pc \in {"one", "look", "stash", "mirror", "map", "upsert"}
              /\ op = "project" => cur' = cur
              /\ pc' = "apply" => op = "project"
    BY <1>5
    DEF ReadOne, Release, Look, LookFails, Stash, WriteMirror, WriteMap, Upsert, Return, Forget
  <2> QED BY <1>0, <2>1
<1>6. CASE \/ \E forced \in BOOLEAN :
                StartFull(forced) \/ \E f \in Files : StartOne(f, forced)
           \/ \E f \in Files : Stat(f) \/ SkipFast(f) \/ Load(f) \/ DropRow(f)
           \/ ReadCandidate \/ ScanDone \/ Reconverge \/ StartSweep \/ DropMirror \/ DropMap
           \/ SweepDone \/ RecordEdit \/ NoProjection \/ Finish \/ Die \/ PowerLoss
  <2>1. /\ pc' # "drift"
        /\ pc' \in {"one", "look", "stash", "mirror", "map", "upsert", "apply"}
             => pc' # "apply" /\ op' # "project"
    BY <1>6
    DEF StartFull, StartOne, Stat, SkipFast, Load, DropRow, ReadCandidate, ScanDone, Reconverge,
        Listing, StartSweep, DropMirror, DropMap, SweepDone, RecordEdit, NoProjection, Finish,
        Die, PowerLoss, Release, MirrorShape
  <2> QED BY <2>1
<1>7. ASSUME NEW c \in Contents, Project(c)
      PROVE  CapturedIsTrue'
  BY <1>7 DEF Project
<1>8. CASE \/ \E f \in Files : StatFails(f)
           \/ \E D \in SUBSET Files : WalkFails(D)
           \/ UNCHANGED vars
  BY <1>0, <1>8 DEF StatFails, WalkFails, vars
<1>9. CASE DatabaseLoss
  BY <1>9 DEF DatabaseLoss
<1> QED
  BY <1>1, <1>2, <1>3, <1>4, <1>5, <1>6, <1>7, <1>8, <1>9 DEF Next, Step, Outside

(* An edit made on a mirror that its row described, and that neither the row  *)
(* nor an older mirror was lost under, lands only on the content it was made  *)
(* against, unless the file is written meanwhile: patch.rs,                   *)
(* project_mirror_edit.                                                       *)
THEOREM EditsLandOnTheirBase == Spec => EditLandsOnItsBase
<1> DEFINE A == \A f \in Files : pc = "apply" /\ real'[f] # real[f] /\ f \notin touched'
                  /\ EditOf(edit) \cap vouched # {} => real[f] = edit.text
<1>1. Init => LandInv
  BY DEF Init, NoJob, LandInv, TurnsArePast, Past, RecordedIsShown, EditedIsRecorded, Edited,
         CapturedIsTrue, Passed, EditOf
<1>2. MirrorInv /\ EditInv /\ LandInv /\ [Next]_vars => LandInv'
  BY StepKeepsTurns, StepKeepsShown, StepKeepsRecorded, StepKeepsCaptured
  DEF MirrorInv, EditInv, LandInv
<1>3. MirrorInv /\ LandInv /\ [Next]_vars => [A]_vars
  <2> SUFFICES ASSUME MirrorInv, LandInv, Next, NEW f \in Files, pc = "apply",
                      real'[f] # real[f], f \notin touched', EditOf(edit) \cap vouched # {}
               PROVE  real[f] = edit.text
    OBVIOUS
  <2>1. PICK c \in Contents : Project(c)
    <3>1. ASSUME NEW g \in Files, NEW c, DevEdit(g, c) PROVE FALSE
      BY <3>1 DEF DevEdit, Write, Touch, MirrorInv, MirrorShape
    <3>2. \E c \in Contents : Project(c)
      BY <3>1
      DEF Next, Step, Outside, StartFull, StartOne, StartProject, Listing, Stat, StatFails,
          WalkFails, SkipFast, Load, DropRow, ReadCandidate, ScanDone, Look, LookFails, Stash,
          WriteMirror, WriteMap, Upsert, Reconverge, StartSweep, DropMirror, DropMap, SweepDone,
          ReadOne, CheckDrift, RecordEdit, NoProjection, Finish, AgentEdit, Die, DatabaseLoss,
          PowerLoss
    <3> QED BY <3>2
  <2>2. f = cur /\ ~drifted /\ touched' = touched
    BY <2>1 DEF Project, Write, MirrorInv, MirrorShape
  <2> QED BY <2>2 DEF LandInv, CapturedIsTrue, Edited, Passed
<1>4. Spec => [](MirrorInv /\ EditInv)
  BY InitMirrorInv, StepKeepsMirrorInv, InitEditInv, StepKeepsEditInv, PTL DEF Spec
<1> QED BY <1>1, <1>2, <1>3, <1>4, PTL DEF Spec, EditLandsOnItsBase
=============================================================================
