----------------------------- MODULE AtomicApply -----------------------------
(***************************************************************************)
(* What a journaled apply promises: once any of its files may have changed *)
(* a plan is in doubt, and it leaves doubt with all of its files at their  *)
(* planned content or all of them at their content before.  Nothing else   *)
(* changes a file.                                                         *)
(***************************************************************************)
EXTENDS Naturals

CONSTANTS Files, Contents, Absent, MaxEntries,
          InDoubt     \* what an onlooker may assume of a file in doubt

VARIABLES view,       \* per file, its content or InDoubt
          doubt       \* the plans in doubt

vars == <<view, doubt>>
Blob  == Contents \cup {Absent}
Plans == UNION {[id : 1..MaxEntries, before : [S -> Blob], after : [S -> Blob]] :
                  S \in SUBSET Files}

TypeOK ==
    /\ view \in [Files -> Blob \cup {InDoubt}]
    /\ doubt \subseteq Plans

(* What is seen when the plans D are in doubt and the rest holds content. *)
Seen(content, D) ==
    [f \in Files |-> IF \E d \in D : f \in DOMAIN d.after THEN InDoubt
                                                         ELSE content[f]]

Init ==
    /\ doubt \subseteq Plans
    /\ \E content \in [Files -> Blob] : view = Seen(content, doubt)

(* One more plan is in doubt.  (Stated of doubt' rather than by a choice   *)
(* among all plans, which TLC would try one by one at every step.)         *)
Begin ==
    /\ doubt' \subseteq Plans
    /\ \E d \in doubt' \ doubt : doubt' = doubt \cup {d}
    /\ view' = Seen(view, doubt')

(* All files of the plan take one of its two snapshots, together. *)
Resolve(d, outcome) ==
    /\ d \in doubt /\ outcome \in {d.before, d.after}
    /\ doubt' = doubt \ {d}
    /\ view' = Seen([f \in Files |-> IF f \in DOMAIN outcome THEN outcome[f]
                                                          ELSE view[f]], doubt')

Next ==
    \/ Begin
    \/ \E d \in doubt : Resolve(d, d.before) \/ Resolve(d, d.after)

Spec == Init /\ [][Next]_vars
=============================================================================
