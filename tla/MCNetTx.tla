------------------------------ MODULE MCNetTx -------------------------------
(* Instances of NetTx for TLC: see the .cfg files and the README.           *)
EXTENDS NetTx
=============================================================================
