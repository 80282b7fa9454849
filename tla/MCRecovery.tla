----------------------------- MODULE MCRecovery -----------------------------
(* Instances of Recovery for TLC: see the .cfg files and the README.        *)
EXTENDS Recovery
=============================================================================
