----------------------------- MODULE MCCrowded -----------------------------
(***************************************************************************)
(* A real file of one word in which two occurrences of a term overlap, and *)
(* an occurrence of a longer term takes the place of the first of them.    *)
(***************************************************************************)
EXTENDS BackProjection, TLC

MCCapital == "a" :> "A" @@ "d" :> "D" @@ "k" :> "K" @@ "m" :> "M"
MCRegistry == << << <<"d", "a">>, <<"k">> >> >>
MCDictionary == << << <<"a", "a">>, <<"m">> >> >>
MCDenylist == << >>
MCRealTexts == {<<"d", "a", "a", "a">>}
=============================================================================
