---------------------------- MODULE MCTransaction ----------------------------
(* Small instances of Transaction for TLC. *)
EXTENDS Transaction, TLC

CONSTANTS f1, f2, x, y

MCFiles  == {f1, f2}
TwoTexts  == {x, y}

NoMishaps  == {}
AllMishaps == {"death", "io", "parse"}
LossOnly   == {"dbloss"}
DeathOrLoss == {"death", "dbloss"}

Symmetry == Permutations(MCFiles) \cup Permutations(TwoTexts)
=============================================================================
