------------------------------ MODULE MCTdRing ------------------------------
(* Instances of TdRing for TLC: see the .cfg files and the README.          *)
EXTENDS TdRing

CONSTANTS w1, w2

OneWriter == {w1}
TwoWriters == {w1, w2}
=============================================================================
