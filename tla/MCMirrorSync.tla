---------------------------- MODULE MCMirrorSync ----------------------------
(* Small instances of MirrorSync for TLC: two files; "pub" declares a       *)
(* protected identifier, "own" does not.                                    *)
EXTENDS MirrorSync, TLC

CONSTANTS f1, f2, own, pub

MCFiles    == {f1, f2}
MCContents == {own, pub}
MCPublic   == {pub}

NoMishaps    == {}
EditMishaps  == {"agent", "power"}
StoreMishaps == {"agent", "unreadable", "death", "dbloss"}
DeathOnly    == {"death"}
AgentOnly    == {"agent"}
PowerOnly    == {"power"}
RemedyOnly   == {"agent", "dbloss"}
SweepMishaps == {"agent", "death"}
ReadMishaps  == {"agent", "unreadable"}
UnreadableOnly == {"unreadable"}

Symmetry == Permutations(MCFiles)
=============================================================================
