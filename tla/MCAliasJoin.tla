---------------------------- MODULE MCAliasJoin ----------------------------
(***************************************************************************)
(* A function defined in three files, with no header, each definition with *)
(* its own proposed alias; the second file also uses it, in one version.   *)
(* In another version the first and the third file do not define it.  The  *)
(* instance has more edits, passes and deaths than MCAliasReview, so only  *)
(* the histories of Story are explored.                                    *)
(***************************************************************************)
EXTENDS AliasReview, TLC

MCName == 1 :> 7 @@ 2 :> 7 @@ 3 :> 7
MCFileOf == 1 :> 1 @@ 2 :> 2 @@ 3 :> 3
MCHeaders == {}
MCDeclares == 1 :> (1 :> {1} @@ 2 :> {}) @@ 2 :> (1 :> {2} @@ 2 :> {2})
              @@ 3 :> (1 :> {3} @@ 2 :> {})
MCMentions == 1 :> (1 :> {} @@ 2 :> {}) @@ 2 :> (1 :> {7} @@ 2 :> {})
              @@ 3 :> (1 :> {} @@ 2 :> {})
MCConfidence == 1 :> 1 @@ 2 :> 1 @@ 3 :> 1

Item(t, a) == [target |-> t, alias |-> a, status |-> "pending"]
MCQueues == {1 :> Item(1, 11) @@ 2 :> Item(2, 12) @@ 3 :> Item(3, 13)}
MCLegacy == {[s \in Symbols |-> Unnamed]}

SourcesAre(a, b, c) == disk = (1 :> a @@ 2 :> b @@ 3 :> c)
Approved(i) == ledger[i].verdict = "approved"

\* A bulk approval takes 2 and 3, each alone; the second file changes and a pass dies with
\* 2 stale; a reviewer of 1 gets its closure while the third file is away; then
\* the third is back, the first away, and a second pass dies with 2 linked to
\* 3 again; the first is back before the reviewer takes the lock.
Story ==
    /\ bulk.pc # "idle" => bulk.ids = {2, 3} /\ edits = 0
    /\ edits > 0 => Approved(2) /\ Approved(3)
    /\ edits = 1 => SourcesAre(1, 2, 1)
    /\ faults > 0 => Stale # {}
    /\ reviews > 0 => faults > 0 /\ single.item = 1 /\ single.approve
    /\ edits = 2 => SourcesAre(1, 2, 2) /\ faults = 1
    /\ edits >= 2 => reviews = 1
    /\ edits = 3 => SourcesAre(1, 2, 1) /\ SinglePc("lock")
    /\ edits = 4 => SourcesAre(2, 2, 1) /\ SinglePc("lock") /\ pass.pc # "replace"
    /\ edits = 5 => SourcesAre(1, 2, 1) /\ faults = 2
    /\ passes > 0 => edits > 0
    /\ passes = 2 => edits >= 3
=============================================================================
