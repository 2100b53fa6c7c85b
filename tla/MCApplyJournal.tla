--------------------------- MODULE MCApplyJournal ---------------------------
(* Small instances of ApplyJournal for TLC. *)
EXTENDS ApplyJournal, TLC

CONSTANTS f1, f2, x, y

MCFiles    == {f1, f2}
MCContents == {x, y}
AllMishaps == {"death", "edit", "write", "reindex", "semantic"}
\* no file is written from outside, no reindex fails after the real write
InsideMishaps == {"death", "write", "semantic"}

Symmetry == Permutations(MCFiles) \cup Permutations(MCContents)
=============================================================================
