-------------------------------- MODULE Fifo --------------------------------
(***************************************************************************)
(* What one direction of a queue pair promises: a bounded, lossless,       *)
(* in-order channel.  A message that was accepted is handed over exactly   *)
(* once, after every message accepted before it; at most Capacity messages *)
(* are under way.  TdRing implements it twice, for the TX and the RX ring. *)
(***************************************************************************)
EXTENDS Naturals, Sequences

CONSTANTS Msg,       \* what a transfer descriptor's page can hold
          Capacity   \* how many messages the channel holds (at least one)

VARIABLES queue,     \* accepted and not yet handed over
          got        \* handed over, in order

fifoVars == <<queue, got>>

FifoInit == queue = << >> /\ got = << >>

Put(m) ==
  /\ Len(queue) < Capacity
  /\ queue' = Append(queue, m)
  /\ UNCHANGED got

Get ==
  /\ queue # << >>
  /\ got' = Append(got, Head(queue))
  /\ queue' = Tail(queue)

FifoNext == Get \/ \E m \in Msg : Put(m)

FifoSpec == FifoInit /\ [][FifoNext]_fifoVars
=============================================================================
