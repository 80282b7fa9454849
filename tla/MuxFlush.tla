------------------------------ MODULE MuxFlush ------------------------------
(***************************************************************************)
(* How wwan0 coalesces packets into frames, step by step: net_flush with   *)
(* each call that can fail, called by net_xmit or the deadline callback    *)
(* under xn->lock; mux_control, under the same lock; and net_open, which   *)
(* resets the counters and empties the queue without it, so that a         *)
(* deadline left over from before the interface was closed may be packing  *)
(* the same queue at the same time.  The stack calls net_xmit only on an   *)
(* open interface; NetTx adds the timer and what net_xmit does outside the *)
(* lock.                                                                   *)
(*                                                                         *)
(* A packet is its length.  The history is that of the batch: the packets  *)
(* queued since the queue was last flushed or emptied.  The i-th ends      *)
(* ends[i] bytes behind the first one's beginning, its padding included,   *)
(* and gone of them have left the queue again.                             *)
(***************************************************************************)
EXTENDS MuxFormat, Sequences

CONSTANTS Lens,      \* packet lengths the stack hands to wwan0
          SeqMod,    \* the header's sequence field has 16 bits: 65536
          IntSize    \* xn->sequence is an int, which wraps in the kernel: 2^32

ASSUME LensAssumption == Lens \subseteq Nat \ {0}
\* wwan0's MTU: any single packet fits into a frame of its own.
ASSUME MtuAssumption == \A len \in Lens : ~must_flush(0, 0, len)
ASSUME SeqAssumption == SeqMod \in Nat \ {0} /\ IntSize \in Nat \ {0}

VARIABLES queue,                       \* xn->queue
          queued_packets, queued_bytes,
          sequence,                    \* xn->sequence
          stopped,                     \* netif_queue_stopped(wwan0)
          ifPc,                        \* interface: down, up, or inside net_open
          pc, new,                     \* net_flush's progress; xmit's packet
          n_packets, n_bytes, bounds,  \* xn->frame
          next, adthLength,            \* first header's next, ADTH's length
          pushed,                      \* history: what the last push carried
          ends, gone                   \* history: the batch

batch == <<ends, gone>>
queueVars == <<queue, queued_packets, queued_bytes, batch>>
frameVars == <<n_packets, n_bytes, bounds, next, adthLength>>
vars == <<queueVars, frameVars, sequence, stopped, ifPc, pc, new, pushed>>

NoPacket == 0
EmptyFrame == [bounds |-> << >>, seq |-> 0, next |-> 0, adthLength |-> 0, n_bytes |-> 0]

Init ==
  /\ queue = << >> /\ queued_packets = 0 /\ queued_bytes = 0
  /\ ends = << >> /\ gone = 0
  /\ sequence = 0 /\ stopped = FALSE /\ ifPc = "down"
  /\ pc = "idle" /\ new = NoPacket
  /\ n_packets = 0 /\ n_bytes = 0 /\ bounds = << >> /\ next = 0 /\ adthLength = 0
  /\ pushed = EmptyFrame
-----------------------------------------------------------------------------
\* Where the packet before the i-th of the batch ends.
Before(i) == IF i = 1 THEN 0 ELSE ends[i - 1]
\* The history of a dequeue, and of an empty queue that starts a new batch.
Dequeued == gone' = gone + 1 /\ UNCHANGED ends
NewBatch == IF queue = << >> THEN ends' = << >> /\ gone' = 0 ELSE UNCHANGED batch

\* The end of net_xmit's critical section.
Enqueue(len) ==
  /\ queued_packets' = queued_packets + 1
  /\ queued_bytes' = queued_bytes + 16 + len
  /\ queue' = Append(queue, len)
  /\ ends' = Append(ends, Before(Len(ends) + 1) + 16 + len) /\ UNCHANGED gone

\* net_xmit with room in the frame.
Xmit(len) ==
  /\ ifPc = "up" /\ pc = "idle" /\ ~stopped
  /\ ~must_flush(queued_packets, queued_bytes, len)
  /\ Enqueue(len)
  /\ UNCHANGED <<frameVars, sequence, stopped, ifPc, pc, new, pushed>>

\* net_xmit with a full frame: flush first when the TX ring has room, else
\* stop the queue and return NETDEV_TX_BUSY.
XmitFull(len) ==
  /\ ifPc = "up" /\ pc = "idle" /\ ~stopped
  /\ must_flush(queued_packets, queued_bytes, len)
  /\ \/ pc' = "start" /\ new' = len /\ UNCHANGED stopped
     \/ stopped' = TRUE /\ UNCHANGED <<pc, new>>
  /\ UNCHANGED <<queueVars, frameVars, sequence, ifPc, pushed>>

\* net_deadline_cb
Deadline ==
  /\ pc = "idle"
  /\ pc' = "start" /\ new' = NoPacket
  /\ UNCHANGED <<queueVars, frameVars, sequence, stopped, ifPc, pushed>>

\* net_flush returns to its caller: net_xmit goes on to queue its packet.
Return ==
  /\ pc = "return"
  /\ pc' = "idle" /\ new' = NoPacket
  /\ IF new = NoPacket THEN UNCHANGED queueVars ELSE Enqueue(new)
  /\ UNCHANGED <<frameVars, sequence, stopped, ifPc, pushed>>

\* net_flush: nothing queued.
FlushEmpty ==
  /\ pc = "start" /\ queue = << >>
  /\ pc' = "return"
  /\ UNCHANGED <<queueVars, frameVars, sequence, stopped, ifPc, new, pushed>>

\* xn->sequence++ comes before mux_frame_init, which reads xn->sequence; the
\* header keeps 16 bits of it.
NextSequence == (sequence + 1) % IntSize
HeaderSequence_Int == sequence
HeaderSequence == sequence % SeqMod

\* net_flush: mux_frame_init and the ADBH tag (whose result nobody tests).
FlushBegin ==
  /\ pc = "start" /\ queue # << >>
  /\ sequence' = NextSequence
  /\ n_packets' = 0 /\ bounds' = << >> /\ next' = 0 /\ adthLength' = 0
  /\ n_bytes' = IF TagFits(0, 0) THEN TagEnd(0, 0) ELSE 0
  /\ pc' = "append"
  /\ UNCHANGED <<queueVars, stopped, ifPc, new, pushed>>

\* net_flush's loop: dequeue one packet and append it, padding first.
FlushAppend ==
  /\ pc = "append" /\ queue # << >>
  /\ LET len == Head(queue) IN
       IF PacketFits(n_packets, n_bytes, len)
         THEN /\ bounds' = Append(bounds, [offset |-> n_bytes, length |-> len + 16])
              /\ n_packets' = n_packets + 1
              /\ n_bytes' = n_bytes + Pad + len
              /\ UNCHANGED pc
         ELSE pc' = "drop" /\ UNCHANGED <<bounds, n_packets, n_bytes>>
  /\ queue' = Tail(queue) /\ Dequeued
  /\ UNCHANGED <<queued_packets, queued_bytes, next, adthLength,
                 sequence, stopped, ifPc, new, pushed>>

\* The queue is empty, by net_flush's doing or net_open's: the ADTH tag and its
\* word.
FlushAdth ==
  /\ pc = "append" /\ queue = << >>
  /\ IF TagFits(n_bytes, AdthWord)
       THEN /\ next' = Align(n_bytes)
            /\ adthLength' = NextHeader + AdthWord
            /\ n_bytes' = TagEnd(n_bytes, AdthWord)
            /\ pc' = "bounds"
       ELSE pc' = "drop" /\ n_bytes' = Align(n_bytes) /\ UNCHANGED <<next, adthLength>>
  /\ UNCHANGED <<queueVars, n_packets, bounds, sequence, stopped, ifPc, new, pushed>>

\* The bounds table, which also grows the ADTH's length field.
FlushBounds ==
  /\ pc = "bounds"
  /\ LET size == BoundsSize * n_packets IN
       IF DataFits(n_bytes, size)
         THEN adthLength' = adthLength + size /\ n_bytes' = n_bytes + size /\ pc' = "push"
         ELSE pc' = "drop" /\ UNCHANGED <<adthLength, n_bytes>>
  /\ UNCHANGED <<queueVars, n_packets, bounds, next, sequence, stopped, ifPc, new, pushed>>

\* mux_frame_push: qp_write takes the frame, finds the ring full (which looks
\* the same to net_flush), or returns xmm->error.
FlushPush ==
  /\ pc = "push"
  /\ \/ pushed' = [bounds |-> bounds, seq |-> HeaderSequence, next |-> next,
                   adthLength |-> adthLength, n_bytes |-> n_bytes]
     \/ UNCHANGED pushed
  /\ queued_packets' = 0 /\ queued_bytes' = 0 /\ NewBatch
  /\ pc' = "return"
  /\ UNCHANGED <<queue, frameVars, sequence, stopped, ifPc, new>>
FlushPushFails ==
  /\ pc = "push"
  /\ pc' = "error"
  /\ UNCHANGED <<queueVars, frameVars, sequence, stopped, ifPc, new, pushed>>

\* What upstream did before the local patch: log and return.
FlushDrop_Upstream ==
  /\ pc \in {"drop", "error"}
  /\ pc' = "return"
  /\ UNCHANGED <<queueVars, frameVars, sequence, stopped, ifPc, new, pushed>>

\* The drop label.  "drop" is reached when packing fails, "error" when the
\* push does; the code is the same.
FlushDrop ==
  /\ pc \in {"drop", "error"}
  /\ queued_packets' = 0 /\ queued_bytes' = 0
  /\ stopped' = TRUE
  /\ pc' = "return" /\ NewBatch
  /\ UNCHANGED <<queue, frameVars, sequence, ifPc, new, pushed>>

\* net_poll sees room on the TX ring.
Wake ==
  /\ stopped /\ stopped' = FALSE
  /\ UNCHANGED <<queueVars, frameVars, sequence, ifPc, pc, new, pushed>>
-----------------------------------------------------------------------------
(* ndo_stop and ndo_open.  The stack lets a net_xmit under way finish before *)
(* ndo_stop, and starts none before ndo_open has returned.                   *)

Close ==
  /\ ifPc = "up" /\ (pc = "idle" \/ new = NoPacket)
  /\ ifPc' = "down" /\ stopped' = TRUE
  /\ UNCHANGED <<queueVars, frameVars, sequence, pc, new, pushed>>

\* net_open, without the lock: the counters, then one skb after the other.
OpenReset ==
  /\ ifPc = "down"
  /\ ifPc' = "drain"
  /\ queued_packets' = 0 /\ queued_bytes' = 0
  /\ UNCHANGED <<queue, batch, frameVars, sequence, stopped, pc, new, pushed>>

OpenDrain ==
  /\ ifPc = "drain" /\ queue # << >>
  /\ queue' = Tail(queue) /\ Dequeued
  /\ UNCHANGED <<queued_packets, queued_bytes, frameVars, sequence, stopped, ifPc,
                 pc, new, pushed>>

OpenStart ==
  /\ ifPc = "drain" /\ queue = << >>
  /\ ifPc' = "control" /\ stopped' = FALSE
  /\ UNCHANGED <<queueVars, frameVars, sequence, pc, new, pushed>>

\* mux_control, under the lock: the ACBH and CMDH tags, built in the same
\* frame.  The interface is up unless the push fails.
OpenControl ==
  /\ ifPc = "control" /\ pc = "idle"
  /\ ifPc' \in {"up", "down"}
  /\ NewBatch
  /\ n_packets' = 0 /\ bounds' = << >> /\ adthLength' = 0
  /\ LET first == TagEnd(0, 0) IN
       IF TagFits(0, 0) /\ TagFits(first, CmdhArgs)
         THEN n_bytes' = TagEnd(first, CmdhArgs) /\ next' = Align(first)
         ELSE n_bytes' = 0 /\ next' = 0
  /\ UNCHANGED <<queue, queued_packets, queued_bytes, sequence, stopped, pc, new, pushed>>

Interface == Close \/ OpenReset \/ OpenDrain \/ OpenStart \/ OpenControl
Flush == \/ FlushEmpty \/ FlushBegin \/ FlushAppend \/ FlushAdth \/ FlushBounds
         \/ FlushPush \/ FlushPushFails \/ FlushDrop
Next == \/ \E len \in Lens : Xmit(len) \/ XmitFull(len)
        \/ Deadline \/ Flush \/ Return \/ Wake \/ Interface

Spec == Init /\ [][Next]_vars
-----------------------------------------------------------------------------
(* Properties                                                              *)

\* The shape of the state.
TypeOK ==
  /\ queue \in Seq(Lens) /\ ends \in Seq(Nat) /\ gone \in Nat
  /\ queued_packets \in Nat /\ queued_bytes \in Nat
  /\ sequence \in 0 .. IntSize - 1 /\ stopped \in BOOLEAN
  /\ ifPc \in {"down", "drain", "control", "up"}
  /\ pc \in {"idle", "start", "append", "bounds", "push", "drop", "error", "return"}
  /\ new \in Lens \cup {NoPacket}
  /\ n_packets \in Nat /\ n_bytes \in Nat /\ next \in Nat /\ adthLength \in Nat
  /\ bounds \in Seq([offset : Nat, length : Nat])
  /\ pushed \in [bounds : Seq([offset : Nat, length : Nat]), seq : 0 .. SeqMod - 1,
                 next : Nat, adthLength : Nat, n_bytes : Nat]

\* What net_must_flush lets into the queue always packs: of net_flush's ways
\* to the drop label, only a failing push is ever taken.
PackingNeverFails == pc # "drop"

\* Between two critical sections the counters describe the queue, but for the
\* time net_open takes to empty it.
CountersMatchQueue ==
  pc = "idle" /\ ifPc # "drain" =>
    /\ queued_packets = Len(queue)
    /\ queued_packets <= MaxPackets
    /\ queued_bytes = IF queue = << >> THEN 0 ELSE ends[Len(ends)]

\* A pushed frame can be read back the way net_mux_handle_frame reads one:
\* the first header points at the ADTH, the ADTH's length gives the number of
\* packets, and the bounds delimit consecutive packets between the two.  There
\* may be none: net_open has emptied the queue under net_flush's hands.
PushedFrameReadable ==
  pushed # EmptyFrame =>
    /\ (pushed.adthLength - NextHeader - 4) \div BoundsSize = Len(pushed.bounds)
    /\ pushed.next % 4 = 0 /\ pushed.next >= FirstHeader
    /\ pushed.n_bytes = pushed.next + pushed.adthLength
    /\ pushed.n_bytes <= MaxSize
    /\ \A i \in 1 .. Len(pushed.bounds) :
         LET end == pushed.bounds[i].offset + pushed.bounds[i].length IN
           /\ i = 1 => pushed.bounds[i].offset = FirstHeader
           /\ IF i < Len(pushed.bounds) THEN pushed.bounds[i + 1].offset = end
                                        ELSE end <= pushed.next
=============================================================================
