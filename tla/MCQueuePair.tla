---------------------------- MODULE MCQueuePair -----------------------------
(* Instances of QueuePair for TLC: see the .cfg files and the README.       *)
EXTENDS QueuePair, TLC

CONSTANTS p1, p2

TwoProcs == {p1, p2}
Symmetry == Permutations(TwoProcs)
=============================================================================
