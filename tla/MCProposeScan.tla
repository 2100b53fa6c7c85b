--------------------------- MODULE MCProposeScan ---------------------------
(* Three symbols, two of them spelled alike, in two files; one path term.  *)
EXTENDS ProposeScan

Proposes(t, a, c) == [t |-> t, a |-> a, c |-> c]

MCSpelling == <<"x", "x", "y">>
MCBatches == <<{4}>>
MCChunks == <<[file |-> "f", seen |-> {1, 3}, core |-> {1, 3}],
              [file |-> "g", seen |-> {1, 3}, core |-> {1, 3}],
              [file |-> "f", seen |-> {2, 3}, core |-> {2, 3}]>>
MCAnswers == {{Proposes(1, 2, 1), Proposes(3, 1, 2)},
              {Proposes(1, 3, 1), Proposes(3, 2, 1), Proposes(2, 1, 1),
               Proposes(4, 1, 1), Proposes(4, 2, 2)}}
=============================================================================
