--------------------------- MODULE MCSubmitBatch ---------------------------
(* Where the two submits of the run are started.                           *)
EXTENDS SubmitBatch

CONSTANTS c1, c2, s1, s2

TwoCheckouts == {c1, c2}

TwoSubmits == {s1, s2}

(* From one checkout, or from two that share the remote tree.              *)
SameOrNot == { [s \in TwoSubmits |-> c1],
               [s \in TwoSubmits |-> IF s = s1 THEN c1 ELSE c2] }
===========================================================================
