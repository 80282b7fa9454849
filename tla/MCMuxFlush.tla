----------------------------- MODULE MCMuxFlush -----------------------------
(* An instance of MuxFlush for TLC: see MuxFlush.cfg and the README.        *)
EXTENDS MuxFlush
=============================================================================
