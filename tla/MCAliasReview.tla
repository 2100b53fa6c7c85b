--------------------------- MODULE MCAliasReview ---------------------------
(***************************************************************************)
(* A function with two definitions (1, 2) and a local of a third file (3). *)
(* In another version the first becomes a header declaration of the second *)
(* and the second disappears; the third file comes to mention it.          *)
(***************************************************************************)
EXTENDS AliasReview, TLC

MCName == 1 :> 7 @@ 2 :> 7 @@ 3 :> 8
MCFileOf == 1 :> 1 @@ 2 :> 2 @@ 3 :> 3
MCHeaders == {<<1, 2>>}
MCDeclares == 1 :> (1 :> {1} @@ 2 :> {1}) @@ 2 :> (1 :> {2} @@ 2 :> {})
              @@ 3 :> (1 :> {3} @@ 2 :> {3})
MCMentions == 1 :> (1 :> {} @@ 2 :> {}) @@ 2 :> (1 :> {} @@ 2 :> {})
              @@ 3 :> (1 :> {} @@ 2 :> {7})
MCConfidence == 1 :> 1 @@ 2 :> 2 @@ 3 :> 1

Item(t, a) == [target |-> t, alias |-> a, status |-> "pending"]
MCQueues == {1 :> Item(1, 11) @@ 2 :> Item(2, 12) @@ 3 :> Item(3, 11)}

Row(a) == [name |-> a, status |-> "accepted"]
MCLegacy == {[s \in Symbols |-> Unnamed],
             [s \in Symbols |-> IF s = 3 THEN Row(11) ELSE Unnamed]}
=============================================================================
