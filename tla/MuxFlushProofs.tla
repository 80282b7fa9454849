--------------------------- MODULE MuxFlushProofs ---------------------------
(***************************************************************************)
(* MuxFlush for every frame size, packet limit and set of packet lengths:  *)
(* what net_must_flush lets into the queue always packs into one frame,    *)
(* also while net_open takes packets from the same queue.                  *)
(*                                                                         *)
(* The induction needs to know, in the middle of net_flush's loop, how     *)
(* many bytes the packets still queued will take.  The history of the      *)
(* batch says it without a sum: the i-th packet of the batch ends ends[i]  *)
(* bytes behind the first header if net_flush packs all of them, and       *)
(* earlier if net_open took some away.                                     *)
(***************************************************************************)
EXTENDS MuxFlush, TLAPS

\* Where the last packet of the batch ends.
Total == Before(Len(ends) + 1)

\* The counters describe the batch, until net_open resets them.
Bookkeeping ==
  /\ ifPc \in {"up", "down"} => queued_packets = Len(ends) /\ queued_bytes = Total
  /\ ifPc \in {"drain", "control"} => queued_packets = 0 /\ queued_bytes = 0

\* net_must_flush answered no to everything in the batch.
Room ==
  /\ Len(ends) <= MaxPackets
  /\ ends # << >> => 32 + Total + 8 * Len(ends) <= MaxSize
  /\ \A i \in 1 .. Len(ends) : ends[i] <= Total

\* The queue holds the packets of the batch that are not gone.
Remaining ==
  /\ Len(queue) = Len(ends) - gone
  /\ \A j \in 1 .. Len(queue) : ends[gone + j] = Before(gone + j) + 16 + queue[j]

Progress ==
  /\ pc # "drop"
  /\ pc = "idle" => new = NoPacket
  /\ new # NoPacket => ifPc = "up"
  /\ ifPc = "control" => queue = << >>
  /\ ifPc \in {"up", "down"} /\ pc \in {"idle", "start", "return"} => gone = 0
  /\ pc = "append" => /\ ends # << >> /\ n_packets <= gone
                      /\ n_bytes <= 16 + Before(gone + 1) /\ n_bytes >= 16
  /\ pc \in {"bounds", "push", "error", "return"} => queue = << >>
  /\ pc = "bounds" => n_bytes + 8 * n_packets <= MaxSize

IInv == TypeOK /\ Bookkeeping /\ Room /\ Remaining /\ Progress

-----------------------------------------------------------------------------
\* Rounding up to a word never passes the end of a frame of whole words.
LEMMA AlignFits ==
  ASSUME NEW n \in Nat, NEW m \in Nat, m % 4 = 0, n <= m
  PROVE  Align(n) \in Nat /\ n <= Align(n) /\ Align(n) <= m
  BY SMTT(30) DEF Align

\* The batch's positions are numbers.
LEMMA Positions ==
  ASSUME ends \in Seq(Nat)
  PROVE  \A i \in 1 .. Len(ends) + 1 : Before(i) \in Nat
  BY DEF Before

\* The invariant holds of an interface that has just been created.
LEMMA InitInv == Init => IInv
<1> SUFFICES ASSUME Init PROVE IInv
  OBVIOUS
<1>1. TypeOK
  <2>1. /\ queue \in Seq(Lens) /\ ends \in Seq(Nat)
        /\ bounds \in Seq([offset : Nat, length : Nat])
    BY DEF Init
  <2>2. sequence \in 0 .. IntSize - 1 /\ 0 \in 0 .. SeqMod - 1 /\ new \in Lens \cup {NoPacket}
    BY SeqAssumption DEF Init
  <2>3. pushed \in [bounds : Seq([offset : Nat, length : Nat]), seq : 0 .. SeqMod - 1,
                    next : Nat, adthLength : Nat, n_bytes : Nat]
    BY <2>2 DEF Init, EmptyFrame
  <2>4. /\ queued_packets \in Nat /\ queued_bytes \in Nat /\ stopped \in BOOLEAN
        /\ pc = "idle" /\ n_packets \in Nat /\ n_bytes \in Nat
        /\ next \in Nat /\ adthLength \in Nat /\ gone \in Nat /\ ifPc = "down"
    BY DEF Init
  <2> QED BY <2>1, <2>2, <2>3, <2>4 DEF TypeOK
<1>2. Bookkeeping /\ Room /\ Remaining /\ Progress
  BY MaxPacketsAssumption DEF Init, Bookkeeping, Room, Progress, Remaining, Before, Total
<1> QED BY <1>1, <1>2 DEF IInv

\* What net_must_flush's no means.
LEMMA RoomFor ==
  ASSUME NEW p \in Nat, NEW q \in Nat, NEW len \in Nat, ~must_flush(p, q, len)
  PROVE  p + 1 <= MaxPackets /\ 32 + (q + 16 + len) + 8 * (p + 1) <= MaxSize
  BY MaxSizeAssumption, MaxPacketsAssumption DEF must_flush, FirstHeader, NextHeader, BoundsSize

\* Queueing one packet that net_must_flush admits.
LEMMA EnqueueInv ==
  ASSUME IInv, NEW len \in Lens, gone = 0, ifPc = "up", ifPc' = ifPc, Enqueue(len),
         ~must_flush(queued_packets, queued_bytes, len)
  PROVE  /\ queue' \in Seq(Lens) /\ ends' \in Seq(Nat) /\ gone' = 0
         /\ queued_packets' \in Nat /\ queued_bytes' \in Nat
         /\ Bookkeeping' /\ Room' /\ Remaining'
<1> USE LensAssumption, MaxPacketsAssumption, MaxSizeAssumption
<1> DEFINE n == Len(ends)
           b == Total + 16 + len
<1>1. /\ queue \in Seq(Lens) /\ ends \in Seq(Nat) /\ len \in Nat /\ n \in Nat
      /\ queued_packets = n /\ queued_bytes = Total /\ Len(queue) = n
  BY DEF IInv, TypeOK, Bookkeeping, Remaining
<1>2. Total \in Nat /\ b \in Nat
  BY <1>1 DEF Total, Before
<1>3. /\ queue' = Append(queue, len) /\ ends' = Append(ends, b) /\ gone' = 0
      /\ queued_packets' = n + 1 /\ queued_bytes' = b
  BY <1>1 DEF Enqueue, Total
<1>4. /\ queue' \in Seq(Lens) /\ ends' \in Seq(Nat)
      /\ Len(ends') = n + 1 /\ Len(queue') = n + 1
  BY <1>1, <1>2, <1>3
<1>5. /\ ends'[n + 1] = b
      /\ \A i \in 1 .. n : ends'[i] = ends[i]
      /\ queue'[n + 1] = len
      /\ \A i \in 1 .. n : queue'[i] = queue[i]
  BY <1>1, <1>2, <1>3
<1>6. Total' = b
  BY <1>1, <1>4, <1>5 DEF Total, Before
<1>7. Bookkeeping'
  BY <1>3, <1>4, <1>6 DEF Bookkeeping
<1>8. Room'
  <2>1. Len(ends') <= MaxPackets /\ 32 + b + 8 * (n + 1) <= MaxSize
    <3>1. ~must_flush(n, Total, len)
      BY <1>1
    <3>2. n + 1 <= MaxPackets /\ 32 + (Total + 16 + len) + 8 * (n + 1) <= MaxSize
      BY <1>1, <1>2, <3>1, RoomFor
    <3> QED BY <1>4, <3>2
  <2>2. \A i \in 1 .. n : ends[i] <= Total /\ ends[i] \in Nat
    BY <1>1 DEF IInv, Room
  <2>3. \A i \in 1 .. n + 1 : ends'[i] <= b
    <3>1. b >= Total /\ ends'[n + 1] <= b
      BY <1>1, <1>2, <1>5
    <3>2. \A i \in 1 .. n : ends'[i] <= b
      BY <1>1, <1>2, <1>5, <2>2, <3>1
    <3>3. \A i \in 1 .. n + 1 : i \in 1 .. n \/ i = n + 1
      BY <1>1
    <3> QED BY <3>1, <3>2, <3>3
  <2> QED BY <1>4, <1>6, <2>1, <2>3 DEF Room
<1>9. Remaining'
  <2> SUFFICES ASSUME NEW j \in 1 .. n + 1
               PROVE  ends'[j] = (IF j = 1 THEN 0 ELSE ends'[j - 1]) + 16 + queue'[j]
    <3>1. Len(queue') = Len(ends') - gone' /\ \A j \in 1 .. n + 1 : gone' + j = j
      BY <1>1, <1>3, <1>4
    <3> QED BY <1>4, <3>1 DEF Remaining, Before
  <2>1. CASE j \in 1 .. n
    <3>1. ends[j] = (IF j = 1 THEN 0 ELSE ends[j - 1]) + 16 + queue[j]
      BY <2>1, <1>1, SMTT(30) DEF IInv, Remaining, Before
    <3>2. j # 1 => j - 1 \in 1 .. n
      BY <2>1, <1>1
    <3> QED BY <2>1, <1>5, <3>1, <3>2
  <2>2. CASE j = n + 1
    BY <2>2, <1>1, <1>5 DEF Total, Before
  <2> QED BY <2>1, <2>2, <1>1
<1> QED BY <1>3, <1>4, <1>7, <1>8, <1>9, <1>1, <1>2

\* The packet at the head of the queue is the next one of the batch.
LEMMA HeadIs ==
  ASSUME IInv, queue # << >>
  PROVE  /\ Head(queue) \in Lens /\ Head(queue) \in Nat
         /\ gone + 1 \in 1 .. Len(ends) /\ Before(gone + 1) \in Nat
         /\ ends[gone + 1] = Before(gone + 1) + 16 + Head(queue)
         /\ Before((gone + 1) + 1) = ends[gone + 1]
         /\ ends[gone + 1] <= Total /\ ends[gone + 1] \in Nat /\ Total \in Nat
<1>1. queue \in Seq(Lens) /\ ends \in Seq(Nat) /\ gone \in Nat /\ Remaining /\ Room
  BY DEF IInv, TypeOK
<1>2. Len(queue) \in Nat \ {0} /\ Head(queue) = queue[1] /\ queue[1] \in Lens
  BY <1>1
<1>3. Head(queue) \in Nat
  BY <1>2, LensAssumption
<1>4. gone + 1 \in 1 .. Len(ends)
  BY <1>1, <1>2 DEF Remaining
<1>5. ends[gone + 1] = Before(gone + 1) + 16 + Head(queue)
  BY <1>1, <1>2 DEF Remaining
<1>6. Before(gone + 1) \in Nat /\ Total \in Nat
  BY <1>1, <1>4, Positions DEF Total
<1>7. Before((gone + 1) + 1) = ends[gone + 1]
  BY <1>1, <1>4 DEF Before
<1>8. ends[gone + 1] <= Total /\ ends[gone + 1] \in Nat
  BY <1>1, <1>4 DEF Room
<1> QED BY <1>2, <1>3, <1>4, <1>5, <1>6, <1>7, <1>8

\* Whoever dequeues, net_flush or net_open, leaves the rest of the batch.
LEMMA DequeueInv ==
  ASSUME IInv, queue # << >>, queue' = Tail(queue), Dequeued
  PROVE  queue' \in Seq(Lens) /\ ends' = ends /\ gone' = gone + 1 /\ gone' \in Nat /\ Remaining'
<1>1. queue \in Seq(Lens) /\ ends \in Seq(Nat) /\ gone \in Nat /\ Remaining
  BY DEF IInv, TypeOK
<1>2. ends' = ends /\ gone' = gone + 1
  BY DEF Dequeued
<1>3. /\ Len(queue') = Len(queue) - 1 /\ Len(queue') \in Nat /\ queue' \in Seq(Lens)
      /\ \A j \in 1 .. Len(queue') : queue'[j] = queue[j + 1]
  BY <1>1
<1>4. \A j \in 1 .. Len(queue') :
        ends[gone + (j + 1)] = Before(gone + (j + 1)) + 16 + queue[j + 1]
  <2>1. \A j \in 1 .. Len(queue') : j + 1 \in 1 .. Len(queue)
    BY <1>1, <1>3
  <2> QED BY <1>1, <2>1 DEF Remaining
<1>5. ASSUME NEW j \in 1 .. Len(queue')
      PROVE  ends'[gone' + j]
               = (IF gone' + j = 1 THEN 0 ELSE ends'[(gone' + j) - 1]) + 16 + queue'[j]
  <2>1. gone' + j = gone + (j + 1)
    BY <1>1, <1>2, <1>3
  <2>2. Before(gone + (j + 1)) = IF gone' + j = 1 THEN 0 ELSE ends'[(gone' + j) - 1]
    BY <1>2, <2>1 DEF Before
  <2>3. ends'[gone' + j] = ends[gone + (j + 1)] /\ queue'[j] = queue[j + 1]
    BY <1>2, <1>3, <2>1
  <2> QED BY <1>4, <2>2, <2>3
<1>6. Len(queue') = Len(ends') - gone'
  BY <1>1, <1>2, <1>3 DEF Remaining
<1>7. Remaining'
  BY <1>5, <1>6 DEF Remaining, Before
<1> QED BY <1>1, <1>2, <1>3, <1>7

\* What a step that leaves the queue and its batch alone preserves.
LEMMA QueueSame ==
  ASSUME IInv, UNCHANGED <<queue, batch>>
  PROVE  Room' /\ Remaining' /\ Total' = Total /\ Before(gone + 1)' = Before(gone + 1)
  BY DEF IInv, Room, Remaining, Total, Before, batch

\* An empty queue starts a new batch.
LEMMA NewBatchInv ==
  ASSUME IInv, queue = << >>, queue' = queue, NewBatch
  PROVE  ends' = << >> /\ gone' = 0 /\ Room' /\ Remaining' /\ Total' = 0
<1>1. ends' = << >> /\ gone' = 0 /\ queue' = << >>
  BY DEF NewBatch
<1> QED BY <1>1, MaxPacketsAssumption DEF Room, Remaining, Total, Before

-----------------------------------------------------------------------------
(* One lemma per step                                                       *)

LEMMA XmitInv ==
  ASSUME IInv, NEW len \in Lens, Xmit(len)
  PROVE  IInv'
<1>1. gone = 0 /\ ifPc = "up" /\ ifPc' = ifPc /\ Enqueue(len)
      /\ ~must_flush(queued_packets, queued_bytes, len)
  BY DEF IInv, Progress, Xmit
<1>2. /\ queue' \in Seq(Lens) /\ ends' \in Seq(Nat) /\ gone' = 0
      /\ queued_packets' \in Nat /\ queued_bytes' \in Nat
      /\ Bookkeeping' /\ Room' /\ Remaining'
  BY <1>1, EnqueueInv
<1>3. TypeOK'
  BY <1>2 DEF IInv, Xmit, TypeOK, frameVars
<1>4. Progress'
  BY <1>2 DEF IInv, Xmit, Progress
<1> QED BY <1>2, <1>3, <1>4 DEF IInv

\* Steps that move nothing but the place in the code.
LEMMA ControlInv ==
  ASSUME IInv, (\E len \in Lens : XmitFull(len)) \/ Deadline \/ FlushEmpty \/ FlushPushFails
               \/ Wake \/ Close
  PROVE  IInv'
<1>1. UNCHANGED <<queue, batch, queued_packets, queued_bytes, frameVars, sequence, pushed>>
  BY DEF XmitFull, Deadline, FlushEmpty, FlushPushFails, Wake, Close, queueVars
<1>2. Room' /\ Remaining' /\ Total' = Total /\ Before(gone + 1)' = Before(gone + 1)
  BY <1>1, QueueSame
<1>3. TypeOK'
  BY <1>1 DEF IInv, TypeOK, XmitFull, Deadline, FlushEmpty, FlushPushFails, Wake, Close,
     frameVars, batch
<1>4. Bookkeeping'
  <2>1. ifPc' = ifPc \/ (ifPc = "up" /\ ifPc' = "down")
    BY DEF XmitFull, Deadline, FlushEmpty, FlushPushFails, Wake, Close
  <2>2. Len(ends') = Len(ends)
    BY <1>1 DEF batch
  <2> QED BY <1>1, <1>2, <2>1, <2>2 DEF IInv, Bookkeeping
<1>5. Progress'
  <2>1. CASE FlushEmpty
    <3>1. queue = << >> /\ pc = "start" /\ pc' = "return" /\ UNCHANGED <<ifPc, new>>
      BY <2>1 DEF FlushEmpty
    <3> QED BY <1>1, <3>1 DEF IInv, Progress, batch
  <2>2. CASE FlushPushFails \/ Wake
    BY <1>1, <1>2, <2>2 DEF IInv, Progress, FlushPushFails, Wake, frameVars, batch, Before
  <2>3. CASE Close
    BY <1>1, <1>2, <2>3 DEF IInv, Progress, Close, frameVars, batch, Before
  <2>4. CASE (\E len \in Lens : XmitFull(len)) \/ Deadline
    BY <1>1, <1>2, <2>4 DEF IInv, Progress, XmitFull, Deadline, frameVars, batch, Before
  <2> QED BY <2>1, <2>2, <2>3, <2>4
<1> QED BY <1>2, <1>3, <1>4, <1>5 DEF IInv

LEMMA ReturnInv ==
  ASSUME IInv, Return
  PROVE  IInv'
<1>1. pc = "return" /\ pc' = "idle" /\ new' = NoPacket /\ queue = << >> /\ ifPc' = ifPc
  BY DEF IInv, Return, Progress
<1>2. CASE new = NoPacket
  <2>1. UNCHANGED <<queueVars, frameVars, sequence, stopped, ifPc, pushed>>
    BY <1>2 DEF Return
  <2>2. Room' /\ Remaining' /\ Total' = Total
    BY <2>1, QueueSame DEF queueVars
  <2>3. TypeOK'
    BY <1>1, <2>1 DEF IInv, TypeOK, queueVars, batch, frameVars
  <2>4. Bookkeeping' /\ Progress'
    BY <1>1, <2>1, <2>2 DEF IInv, Bookkeeping, Progress, queueVars, batch
  <2> QED BY <2>2, <2>3, <2>4 DEF IInv
<1>3. CASE new # NoPacket
  <2>1. new \in Lens /\ Enqueue(new) /\ ifPc = "up" /\ gone = 0
    BY <1>1, <1>3 DEF IInv, TypeOK, Return, Progress
  <2>2. ends = << >>
    BY <1>1, <2>1 DEF IInv, TypeOK, Remaining
  <2>3. queued_packets = 0 /\ queued_bytes = 0
    BY <2>1, <2>2 DEF IInv, Bookkeeping, Total, Before
  <2>4. ~must_flush(queued_packets, queued_bytes, new)
    BY <2>1, <2>3, MtuAssumption
  <2>5. /\ queue' \in Seq(Lens) /\ ends' \in Seq(Nat) /\ gone' = 0
        /\ queued_packets' \in Nat /\ queued_bytes' \in Nat
        /\ Bookkeeping' /\ Room' /\ Remaining'
    BY <1>1, <2>1, <2>4, EnqueueInv
  <2>6. TypeOK' /\ Progress'
    BY <1>1, <2>1, <2>5 DEF IInv, Return, TypeOK, Progress, frameVars
  <2> QED BY <2>5, <2>6 DEF IInv
<1> QED BY <1>2, <1>3

LEMMA FlushBeginInv ==
  ASSUME IInv, FlushBegin
  PROVE  IInv'
<1> USE MaxSizeAssumption
<1>1. /\ UNCHANGED <<queue, batch, queued_packets, queued_bytes, stopped, ifPc, new, pushed>>
      /\ pc = "start" /\ pc' = "append" /\ queue # << >>
  BY DEF FlushBegin, queueVars
<1>2. Room' /\ Remaining' /\ Total' = Total /\ Before(gone + 1)' = Before(gone + 1)
  BY <1>1, QueueSame
<1>3. ends # << >> /\ Before(gone + 1) \in Nat /\ Total \in Nat /\ gone \in Nat
  BY <1>1, HeadIs DEF IInv, TypeOK
<1>4. TagFits(0, 0) /\ TagEnd(0, 0) = 16
  <2>1. 32 + Total + 8 * Len(ends) <= MaxSize /\ Len(ends) \in Nat /\ MaxSize \in Nat
    BY <1>3 DEF IInv, TypeOK, Room
  <2>2. TagEnd(0, 0) = 16
    BY DEF TagEnd, Align, HeaderSize, FirstHeader
  <2>3. 16 <= MaxSize
    BY <1>3, <2>1
  <2> QED BY <2>2, <2>3 DEF TagFits, TagEnd
<1>5. n_bytes' = 16 /\ n_packets' = 0 /\ bounds' = << >> /\ next' = 0 /\ adthLength' = 0
  BY <1>4 DEF FlushBegin
<1>6. sequence' \in 0 .. IntSize - 1
  BY SeqAssumption DEF IInv, TypeOK, FlushBegin, NextSequence
<1>7. TypeOK'
  BY <1>1, <1>5, <1>6 DEF IInv, TypeOK, batch
<1>8. Bookkeeping'
  BY <1>1, <1>2 DEF IInv, Bookkeeping, batch
<1>9. Progress'
  BY <1>1, <1>2, <1>3, <1>5 DEF IInv, Progress, batch, Before
<1> QED BY <1>2, <1>7, <1>8, <1>9 DEF IInv

\* A packet of the batch always fits.
LEMMA HeadFits ==
  ASSUME IInv, pc = "append", queue # << >>
  PROVE  PacketFits(n_packets, n_bytes, Head(queue))
<1>1. /\ n_packets \in Nat /\ n_bytes \in Nat /\ gone \in Nat /\ Len(ends) \in Nat
      /\ n_packets <= gone /\ n_bytes <= 16 + Before(gone + 1)
      /\ MaxSize \in Nat /\ MaxPackets \in Nat
  BY MaxSizeAssumption, MaxPacketsAssumption DEF IInv, TypeOK, Progress
<1>2. /\ Head(queue) \in Nat /\ gone + 1 \in 1 .. Len(ends) /\ Before(gone + 1) \in Nat
      /\ ends[gone + 1] = Before(gone + 1) + 16 + Head(queue)
      /\ ends[gone + 1] <= Total /\ Total \in Nat
  BY HeadIs
<1>3. Len(ends) <= MaxPackets /\ 32 + Total + 8 * Len(ends) <= MaxSize
  BY <1>2 DEF IInv, Room, TypeOK
<1>4. n_packets < MaxPackets
  BY <1>1, <1>2, <1>3
<1>5. n_bytes + Head(queue) + 16 <= 16 + Total
  BY <1>1, <1>2
<1>6. (n_packets + 1) * 8 <= 8 * Len(ends)
  BY <1>1, <1>2
<1>7. n_bytes + Head(queue) + 16 + 12 + 4 + (n_packets + 1) * 8 <= MaxSize
  BY <1>1, <1>2, <1>3, <1>5, <1>6, SMTT(30)
<1> QED BY <1>4, <1>7 DEF PacketFits, NextHeader, BoundsSize

LEMMA FlushAppendInv ==
  ASSUME IInv, FlushAppend
  PROVE  IInv'
<1> PICK len : len = Head(queue)
  OBVIOUS
<1>1. pc = "append" /\ queue # << >> /\ queue' = Tail(queue) /\ Dequeued
  BY DEF FlushAppend
<1>2. /\ len \in Nat /\ gone + 1 \in 1 .. Len(ends) /\ Before(gone + 1) \in Nat
      /\ ends[gone + 1] = Before(gone + 1) + 16 + len
      /\ Before((gone + 1) + 1) = ends[gone + 1]
  BY <1>1, HeadIs
<1>3. PacketFits(n_packets, n_bytes, len)
  BY <1>1, HeadFits
<1>4. /\ bounds' = Append(bounds, [offset |-> n_bytes, length |-> len + 16])
      /\ n_packets' = n_packets + 1 /\ n_bytes' = n_bytes + 16 + len /\ pc' = "append"
      /\ UNCHANGED <<queued_packets, queued_bytes, next, adthLength, sequence, stopped,
                     ifPc, new, pushed>>
  BY <1>1, <1>3 DEF FlushAppend, Pad
<1>5. queue' \in Seq(Lens) /\ ends' = ends /\ gone' = gone + 1 /\ gone' \in Nat /\ Remaining'
  BY <1>1, DequeueInv
<1>6. Total' = Total /\ Room' /\ Before(gone + 1)' = ends[gone + 1]
  <2>1. Room' /\ Total' = Total
    BY <1>5 DEF IInv, Room, Total, Before
  <2>2. Before(gone + 1)' = Before((gone + 1) + 1)
    BY <1>5 DEF Before
  <2> QED BY <1>2, <2>1, <2>2
<1>7. TypeOK'
  <2>1. n_packets' \in Nat /\ n_bytes' \in Nat
    <3>1. n_packets \in Nat /\ n_bytes \in Nat
      BY DEF IInv, TypeOK
    <3> QED BY <1>2, <1>4, <3>1, SMTT(30)
  <2>2. bounds' \in Seq([offset : Nat, length : Nat])
    <3>1. [offset |-> n_bytes, length |-> len + 16] \in [offset : Nat, length : Nat]
      <4>1. n_bytes \in Nat /\ len + 16 \in Nat
        <5>1. n_bytes \in Nat
          BY DEF IInv, TypeOK
        <5> QED BY <1>2, <5>1
      <4> QED BY <4>1
    <3>2. bounds \in Seq([offset : Nat, length : Nat])
      BY DEF IInv, TypeOK
    <3> QED BY <1>4, <3>1, <3>2
  <2> QED BY <1>4, <1>5, <2>1, <2>2 DEF IInv, TypeOK
<1>8. Bookkeeping'
  BY <1>4, <1>5, <1>6 DEF IInv, Bookkeeping
<1>9. Progress'
  <2>1. n_packets' <= gone' /\ n_bytes' <= 16 + ends[gone + 1] /\ n_bytes' >= 16
    <3>1. /\ n_packets \in Nat /\ n_bytes \in Nat /\ gone \in Nat
          /\ n_packets <= gone /\ n_bytes <= 16 + Before(gone + 1) /\ n_bytes >= 16
      BY <1>1 DEF IInv, TypeOK, Progress
    <3>2. n_packets' <= gone' /\ n_bytes' >= 16
      BY <1>2, <1>4, <1>5, <3>1
    <3>3. n_bytes' <= 16 + (Before(gone + 1) + 16 + len)
      BY <1>2, <1>4, <3>1, SMTT(30)
    <3> QED BY <1>2, <3>2, <3>3
  <2>2. ifPc = "control" => queue = << >>
    BY DEF IInv, Progress
  <2> QED BY <1>1, <1>4, <1>5, <1>6, <2>1, <2>2 DEF IInv, Progress
<1> QED BY <1>5, <1>6, <1>7, <1>8, <1>9 DEF IInv

LEMMA FlushAdthInv ==
  ASSUME IInv, FlushAdth
  PROVE  IInv'
<1> DEFINE m == MaxSize - 16 - 8 * Len(ends)
<1>1. /\ pc = "append" /\ queue = << >> /\ ends # << >> /\ n_packets <= gone
      /\ n_bytes <= 16 + Before(gone + 1) /\ n_bytes >= 16
      /\ ends \in Seq(Nat) /\ gone \in Nat /\ n_packets \in Nat /\ n_bytes \in Nat
      /\ Len(ends) \in Nat /\ MaxSize \in Nat /\ MaxSize % 4 = 0
  BY MaxSizeAssumption DEF IInv, TypeOK, Progress, FlushAdth
<1>2. gone = Len(ends)
  BY <1>1 DEF IInv, Remaining
<1>3. Total \in Nat /\ n_bytes <= 16 + Total /\ 32 + Total + 8 * Len(ends) <= MaxSize
  <2>1. Total \in Nat
    BY <1>1, Positions DEF Total
  <2> QED BY <1>1, <1>2, <2>1 DEF IInv, Room, Total
<1>4. m \in Nat /\ m % 4 = 0 /\ n_bytes <= m
  BY <1>1, <1>3
<1>5. Align(n_bytes) \in Nat /\ Align(n_bytes) <= m
  BY <1>1, <1>4, AlignFits
<1>6. TagFits(n_bytes, AdthWord) /\ TagEnd(n_bytes, AdthWord) = Align(n_bytes) + 16
  BY <1>1, <1>5 DEF TagFits, TagEnd, HeaderSize, NextHeader, AdthWord
<1>7. /\ next' = Align(n_bytes) /\ adthLength' = 16 /\ n_bytes' = Align(n_bytes) + 16
      /\ pc' = "bounds"
      /\ UNCHANGED <<queue, batch, queued_packets, queued_bytes, n_packets, bounds, sequence,
                     stopped, ifPc, new, pushed>>
  BY <1>1, <1>6 DEF FlushAdth, queueVars, NextHeader, AdthWord
<1>8. Room' /\ Remaining' /\ Total' = Total
  BY <1>7, QueueSame
<1>9. TypeOK'
  BY <1>5, <1>7 DEF IInv, TypeOK, batch
<1>10. Bookkeeping'
  BY <1>7, <1>8 DEF IInv, Bookkeeping, batch
<1>11. Progress'
  BY <1>1, <1>2, <1>5, <1>7, SMTT(30) DEF IInv, Progress, batch
<1> QED BY <1>8, <1>9, <1>10, <1>11 DEF IInv

LEMMA FlushBoundsInv ==
  ASSUME IInv, FlushBounds
  PROVE  IInv'
<1>1. /\ DataFits(n_bytes, BoundsSize * n_packets) /\ queue = << >> /\ pc = "bounds"
      /\ n_bytes \in Nat /\ n_packets \in Nat /\ adthLength \in Nat
  BY DEF IInv, TypeOK, Progress, FlushBounds, DataFits, BoundsSize
<1>2. /\ n_bytes' = n_bytes + 8 * n_packets /\ adthLength' = adthLength + 8 * n_packets
      /\ pc' = "push"
      /\ UNCHANGED <<queue, batch, queued_packets, queued_bytes, n_packets, bounds, next,
                     sequence, stopped, ifPc, new, pushed>>
  BY <1>1 DEF FlushBounds, queueVars, BoundsSize
<1>3. Room' /\ Remaining' /\ Total' = Total
  BY <1>2, QueueSame
<1>4. TypeOK'
  BY <1>1, <1>2 DEF IInv, TypeOK, batch
<1>5. Bookkeeping' /\ Progress'
  BY <1>1, <1>2, <1>3 DEF IInv, Bookkeeping, Progress, batch
<1> QED BY <1>3, <1>4, <1>5 DEF IInv

\* The end of net_flush, successful or not.
LEMMA FlushEndInv ==
  ASSUME IInv, FlushPush \/ FlushDrop
  PROVE  IInv'
<1>1. /\ queue = << >> /\ queue' = queue /\ NewBatch /\ pc' = "return"
      /\ queued_packets' = 0 /\ queued_bytes' = 0
      /\ UNCHANGED <<frameVars, sequence, ifPc, new>> /\ stopped' \in BOOLEAN
  BY DEF IInv, TypeOK, Progress, FlushPush, FlushDrop
<1>2. ends' = << >> /\ gone' = 0 /\ Room' /\ Remaining' /\ Total' = 0
  BY <1>1, NewBatchInv
<1>3. pushed' \in [bounds : Seq([offset : Nat, length : Nat]), seq : 0 .. SeqMod - 1,
                   next : Nat, adthLength : Nat, n_bytes : Nat]
  <2>1. HeaderSequence \in 0 .. SeqMod - 1
    BY SeqAssumption DEF IInv, TypeOK, HeaderSequence
  <2> QED BY <2>1 DEF IInv, TypeOK, FlushPush, FlushDrop
<1>4. TypeOK'
  BY <1>1, <1>2, <1>3 DEF IInv, TypeOK, frameVars
<1>5. Bookkeeping' /\ Progress'
  BY <1>1, <1>2 DEF IInv, Bookkeeping, Progress
<1> QED BY <1>2, <1>4, <1>5 DEF IInv

LEMMA OpenResetInv ==
  ASSUME IInv, OpenReset
  PROVE  IInv'
<1>1. /\ UNCHANGED <<queue, batch, frameVars, sequence, stopped, pc, new, pushed>>
      /\ ifPc = "down" /\ ifPc' = "drain" /\ queued_packets' = 0 /\ queued_bytes' = 0
  BY DEF OpenReset
<1>2. Room' /\ Remaining' /\ Before(gone + 1)' = Before(gone + 1)
  BY <1>1, QueueSame
<1>3. TypeOK'
  BY <1>1 DEF IInv, TypeOK, frameVars, batch
<1>4. Bookkeeping' /\ Progress'
  BY <1>1, <1>2 DEF IInv, Bookkeeping, Progress, frameVars, batch, Before
<1> QED BY <1>2, <1>3, <1>4 DEF IInv

\* net_open takes a packet from the queue: net_flush's frame may end earlier.
LEMMA OpenDrainInv ==
  ASSUME IInv, OpenDrain
  PROVE  IInv'
<1>1. /\ ifPc = "drain" /\ queue # << >> /\ queue' = Tail(queue) /\ Dequeued
      /\ UNCHANGED <<queued_packets, queued_bytes, frameVars, sequence, stopped, ifPc,
                     pc, new, pushed>>
  BY DEF OpenDrain
<1>2. /\ Head(queue) \in Nat /\ gone + 1 \in 1 .. Len(ends) /\ Before(gone + 1) \in Nat
      /\ ends[gone + 1] = Before(gone + 1) + 16 + Head(queue)
      /\ Before((gone + 1) + 1) = ends[gone + 1]
  BY <1>1, HeadIs
<1>3. queue' \in Seq(Lens) /\ ends' = ends /\ gone' = gone + 1 /\ gone' \in Nat /\ Remaining'
  BY <1>1, DequeueInv
<1>4. Room' /\ Before(gone + 1)' = ends[gone + 1]
  <2>1. Room'
    BY <1>3 DEF IInv, Room, Total, Before
  <2>2. Before(gone + 1)' = Before((gone + 1) + 1)
    BY <1>3 DEF Before
  <2> QED BY <1>2, <2>1, <2>2
<1>5. TypeOK'
  BY <1>1, <1>3 DEF IInv, TypeOK, frameVars
<1>6. Bookkeeping'
  BY <1>1 DEF IInv, Bookkeeping
<1>7. Progress'
  <2>1. pc = "append" => n_packets <= gone + 1 /\ n_bytes <= 16 + ends[gone + 1]
    <3>1. /\ n_packets \in Nat /\ n_bytes \in Nat /\ gone \in Nat
          /\ pc = "append" => n_packets <= gone /\ n_bytes <= 16 + Before(gone + 1)
      BY DEF IInv, TypeOK, Progress
    <3> QED BY <1>2, <3>1
  <2>2. /\ pc # "drop" /\ (pc = "idle" => new = NoPacket) /\ new = NoPacket
        /\ (pc = "append" => ends # << >> /\ n_bytes >= 16)
        /\ pc \notin {"bounds", "push", "error", "return"}
    BY <1>1 DEF IInv, Progress
  <2> QED BY <1>1, <1>3, <1>4, <2>1, <2>2 DEF Progress, frameVars
<1> QED BY <1>3, <1>4, <1>5, <1>6, <1>7 DEF IInv

LEMMA OpenStartInv ==
  ASSUME IInv, OpenStart
  PROVE  IInv'
<1>1. /\ UNCHANGED <<queue, batch, queued_packets, queued_bytes, frameVars, sequence, pc, new,
                     pushed>>
      /\ ifPc = "drain" /\ ifPc' = "control" /\ queue = << >> /\ stopped' = FALSE
  BY DEF OpenStart, queueVars
<1>2. Room' /\ Remaining' /\ Before(gone + 1)' = Before(gone + 1)
  BY <1>1, QueueSame
<1>3. TypeOK'
  BY <1>1 DEF IInv, TypeOK, frameVars, batch
<1>4. Bookkeeping' /\ Progress'
  BY <1>1, <1>2 DEF IInv, Bookkeeping, Progress, frameVars, batch, Before
<1> QED BY <1>2, <1>3, <1>4 DEF IInv

LEMMA OpenControlInv ==
  ASSUME IInv, OpenControl
  PROVE  IInv'
<1>1. /\ queue = << >> /\ queue' = queue /\ NewBatch /\ pc = "idle" /\ ifPc' \in {"up", "down"}
      /\ queued_packets = 0 /\ queued_bytes = 0
      /\ UNCHANGED <<queued_packets, queued_bytes, sequence, stopped, pc, new, pushed>>
      /\ n_packets' = 0 /\ bounds' = << >> /\ adthLength' = 0
  BY DEF IInv, Bookkeeping, Progress, OpenControl
<1>2. ends' = << >> /\ gone' = 0 /\ Room' /\ Remaining' /\ Total' = 0
  BY <1>1, NewBatchInv
<1>3. n_bytes' \in Nat /\ next' \in Nat
  <2>1. TagEnd(0, 0) = 16 /\ TagEnd(16, CmdhArgs) = 44 /\ Align(16) = 16
    BY DEF TagEnd, Align, HeaderSize, FirstHeader, NextHeader, CmdhArgs
  <2> QED BY <2>1 DEF OpenControl
<1>4. TypeOK'
  BY <1>1, <1>2, <1>3 DEF IInv, TypeOK
<1>5. Bookkeeping' /\ Progress'
  BY <1>1, <1>2 DEF IInv, Bookkeeping, Progress
<1> QED BY <1>2, <1>4, <1>5 DEF IInv

LEMMA StutterInv ==
  ASSUME IInv, UNCHANGED vars
  PROVE  IInv'
<1>1. UNCHANGED <<queue, batch>>
  BY DEF vars, queueVars
<1>2. Room' /\ Remaining' /\ Total' = Total /\ Before(gone + 1)' = Before(gone + 1)
  BY <1>1, QueueSame
<1>3. TypeOK'
  BY DEF IInv, TypeOK, vars, queueVars, batch, frameVars
<1>4. Bookkeeping' /\ Progress'
  BY <1>2 DEF IInv, Bookkeeping, Progress, vars, queueVars, batch, frameVars, Before
<1> QED BY <1>2, <1>3, <1>4 DEF IInv

\* Every step of the interface preserves the invariant.
LEMMA NextInv ==
  ASSUME IInv, [Next]_vars
  PROVE  IInv'
<1>1. CASE \E len \in Lens : Xmit(len) \/ XmitFull(len)
  BY <1>1, XmitInv, ControlInv
<1>2. CASE Flush
  BY <1>2, ControlInv, FlushBeginInv, FlushAppendInv, FlushAdthInv, FlushBoundsInv, FlushEndInv
     DEF Flush
<1>3. CASE Deadline \/ Wake \/ Return
  BY <1>3, ControlInv, ReturnInv
<1>4. CASE Interface
  BY <1>4, ControlInv, OpenResetInv, OpenDrainInv, OpenStartInv, OpenControlInv DEF Interface
<1>5. CASE UNCHANGED vars
  BY <1>5, StutterInv
<1> QED BY <1>1, <1>2, <1>3, <1>4, <1>5 DEF Next

\* The strengthened invariant holds throughout.
LEMMA Inductive == Spec => []IInv
<1>1. IInv /\ [Next]_vars => IInv'
  BY NextInv
<1> QED BY <1>1, InitInv, PTL DEF Spec

\* The type invariant of the coalescing queue and its frame: the header's
\* sequence number fits its 16 bits although xn->sequence does not.
THEOREM TypeCorrect == Spec => []TypeOK
<1>1. IInv => TypeOK
  BY DEF IInv
<1> QED BY <1>1, Inductive, PTL

\* Whatever packets the stack sends and whenever net_open empties the queue,
\* net_flush never reaches its drop label because
\* mux_frame_append_packet, mux_frame_add_tag or the bounds table ran out of
\* room: what net_must_flush admitted always packs.
THEOREM PackingSafe == Spec => []PackingNeverFails
<1>1. IInv => PackingNeverFails
  BY DEF IInv, Progress, PackingNeverFails
<1> QED BY <1>1, Inductive, PTL

\* Between critical sections queued_packets and queued_bytes describe
\* xn->queue, also after a frame was dropped or the interface reopened, with
\* the time net_open takes to empty the queue excepted.
THEOREM CountersCorrect == Spec => []CountersMatchQueue
<1>1. IInv => CountersMatchQueue
  <2> SUFFICES ASSUME IInv, pc = "idle", ifPc # "drain" PROVE CountersMatchQueue
    BY DEF CountersMatchQueue
  <2>1. /\ ends \in Seq(Nat) /\ queue \in Seq(Lens) /\ gone \in Nat
        /\ ifPc \in {"down", "control", "up"} /\ MaxPackets \in Nat
    BY MaxPacketsAssumption DEF IInv, TypeOK
  <2>2. CASE ifPc = "control"
    <3>1. queue = << >> /\ queued_packets = 0 /\ queued_bytes = 0
      BY <2>2 DEF IInv, Progress, Bookkeeping
    <3> QED BY <2>1, <3>1 DEF CountersMatchQueue
  <2>3. CASE ifPc \in {"up", "down"}
    <3>1. queued_packets = Len(ends) /\ queued_bytes = Total /\ gone = 0
      BY <2>3 DEF IInv, Progress, Bookkeeping
    <3>2. Len(queue) = Len(ends) /\ Len(ends) <= MaxPackets
      BY <2>1, <3>1 DEF IInv, Remaining, Room
    <3>3. Total = IF queue = << >> THEN 0 ELSE ends[Len(ends)]
      BY <2>1, <3>2 DEF Total, Before
    <3> QED BY <3>1, <3>2, <3>3 DEF CountersMatchQueue
  <2> QED BY <2>1, <2>2, <2>3
<1> QED BY <1>1, Inductive, PTL
-----------------------------------------------------------------------------
(* What a pushed frame looks like.  The bounds table is written one entry  *)
(* at a time while packets are appended, and the two headers' fields only  *)
(* afterwards, so the frame being built needs an invariant of its own.     *)

\* Where the i-th packet of the frame ends; the first one begins right behind
\* the ADBH.
EndOf(i) == IF i = 0 THEN 16 ELSE bounds[i].offset + bounds[i].length

\* The bounds table has an entry for each packet, and they are consecutive.
Packed ==
  /\ Len(bounds) = n_packets
  /\ \A i \in 1 .. n_packets : bounds[i].offset = EndOf(i - 1)

Building ==
  /\ pc \in {"append", "bounds", "push"} => Packed
  /\ pc = "append" => n_bytes = EndOf(n_packets)
  /\ pc \in {"bounds", "push"} =>
       next >= 16 /\ EndOf(n_packets) <= next /\ next % 4 = 0
  /\ pc = "bounds" => adthLength = 16 /\ n_bytes = next + 16
  /\ pc = "push" => /\ adthLength = 16 + 8 * n_packets /\ n_bytes = next + adthLength
                    /\ n_bytes <= MaxSize

\* A new interface has pushed nothing.
LEMMA InitBuilding == Init => Building /\ PushedFrameReadable
  BY DEF Init, Building, PushedFrameReadable

\* mux_frame_append_packet adds one entry behind the last.
LEMMA AppendBuilding == IInv /\ IInv' /\ Building /\ FlushAppend => Building'
<1> SUFFICES ASSUME IInv, IInv', Building, FlushAppend PROVE Building'
  OBVIOUS
<1> PICK len : len = Head(queue)
  OBVIOUS
<1> PICK k : k = n_packets
  OBVIOUS
<1> PICK b : b = n_bytes
  OBVIOUS
<1>1. /\ pc = "append" /\ queue \in Seq(Lens) /\ queue # << >>
      /\ k \in Nat /\ b \in Nat /\ bounds \in Seq([offset : Nat, length : Nat])
      /\ len \in Nat /\ Len(bounds) = k /\ b = EndOf(k)
      /\ \A i \in 1 .. k : bounds[i].offset = EndOf(i - 1)
  <2>1. /\ pc = "append" /\ queue \in Seq(Lens) /\ queue # << >>
        /\ k \in Nat /\ b \in Nat /\ bounds \in Seq([offset : Nat, length : Nat])
    BY DEF FlushAppend, IInv, TypeOK
  <2>2. len \in Nat
    <3>1. len \in Lens
      BY <2>1
    <3> QED BY <3>1, LensAssumption
  <2>3. Packed /\ n_bytes = EndOf(n_packets)
    BY <2>1 DEF Building
  <2> QED BY <2>1, <2>2, <2>3 DEF Packed
<1>2. pc' # "drop"
  BY DEF IInv, Progress
<1>3. /\ bounds' = Append(bounds, [offset |-> b, length |-> len + 16])
      /\ n_packets' = k + 1 /\ n_bytes' = b + 16 + len /\ pc' = "append"
  BY <1>1, <1>2 DEF FlushAppend, Pad
<1>4. /\ Len(bounds') = k + 1
      /\ bounds'[k + 1] = [offset |-> b, length |-> len + 16]
      /\ \A i \in 1 .. k : bounds'[i] = bounds[i]
  <2>1. [offset |-> b, length |-> len + 16] \in [offset : Nat, length : Nat]
    BY <1>1
  <2> QED BY <1>1, <1>3, <2>1, SMTT(30)
<1>5. \A i \in 0 .. k : EndOf(i)' = EndOf(i)
  <2> SUFFICES ASSUME NEW i \in 0 .. k PROVE EndOf(i)' = EndOf(i)
    OBVIOUS
  <2>1. i = 0 \/ i \in 1 .. k
    BY <1>1
  <2>2. i = 0 \/ bounds'[i] = bounds[i]
    BY <2>1, <1>4
  <2> QED BY <2>2, Zenon DEF EndOf
<1>6. EndOf(k + 1)' = b + 16 + len
  <2>1. k + 1 # 0 /\ b + (len + 16) = b + 16 + len
    BY <1>1
  <2>2. bounds'[k + 1].offset = b /\ bounds'[k + 1].length = len + 16
    BY <1>4
  <2>3. EndOf(k + 1)' = bounds'[k + 1].offset + bounds'[k + 1].length
    BY <2>1 DEF EndOf
  <2> QED BY <2>1, <2>2, <2>3
<1>7. \A i \in 1 .. k + 1 : bounds'[i].offset = EndOf(i - 1)'
  <2> SUFFICES ASSUME NEW i \in 1 .. k + 1
               PROVE  bounds'[i].offset = EndOf(i - 1)'
    OBVIOUS
  <2>1. i - 1 \in 0 .. k /\ EndOf(i - 1)' = EndOf(i - 1)
    BY <1>1, <1>5
  <2>2. CASE i \in 1 .. k
    BY <1>1, <1>4, <2>1, <2>2
  <2>3. CASE i = k + 1
    <3>1. i - 1 = k /\ bounds'[i].offset = b
      BY <1>1, <1>4, <2>3
    <3> QED BY <1>1, <2>1, <3>1
  <2> QED BY <1>1, <2>2, <2>3
<1> QED BY <1>3, <1>4, <1>6, <1>7 DEF Building, Packed

\* The ADTH goes behind the last packet, if any, on a word boundary.
LEMMA AdthBuilding == IInv /\ IInv' /\ Building /\ FlushAdth => Building'
<1> SUFFICES ASSUME IInv, IInv', Building, FlushAdth PROVE Building'
  OBVIOUS
<1>1. /\ pc = "append" /\ pc' # "drop" /\ queue = << >> /\ Packed
      /\ n_bytes = EndOf(n_packets) /\ n_bytes \in Nat /\ n_packets \in Nat
      /\ n_bytes >= 16
  BY DEF FlushAdth, IInv, TypeOK, Progress, Building
<1>2. Align(n_bytes) \in Nat /\ n_bytes <= Align(n_bytes) /\ Align(n_bytes) % 4 = 0
  BY <1>1, SMTT(30) DEF Align
<1>3. /\ next' = Align(n_bytes) /\ adthLength' = 16 /\ pc' = "bounds"
      /\ n_bytes' = Align(n_bytes) + 16
      /\ bounds' = bounds /\ n_packets' = n_packets
  BY <1>1, <1>2 DEF FlushAdth, TagEnd, HeaderSize, NextHeader, AdthWord
<1>4. Packed' /\ EndOf(n_packets)' = EndOf(n_packets)
  BY <1>1, <1>3 DEF Packed, EndOf
<1> QED BY <1>1, <1>2, <1>3, <1>4 DEF Building

\* The bounds table grows the ADTH by one entry per packet.
LEMMA BoundsBuilding == IInv /\ IInv' /\ Building /\ FlushBounds => Building'
<1> SUFFICES ASSUME IInv, IInv', Building, FlushBounds PROVE Building'
  OBVIOUS
<1>1. /\ pc = "bounds" /\ pc' # "drop" /\ Packed /\ next >= 16
      /\ EndOf(n_packets) <= next /\ next % 4 = 0
      /\ adthLength = 16 /\ n_bytes = next + 16 /\ n_bytes + 8 * n_packets <= MaxSize
      /\ next \in Nat /\ n_packets \in Nat
  BY DEF FlushBounds, IInv, TypeOK, Progress, Building
<1>2. /\ pc' = "push" /\ adthLength' = 16 + 8 * n_packets
      /\ n_bytes' = n_bytes + 8 * n_packets
      /\ next' = next /\ bounds' = bounds /\ n_packets' = n_packets
  BY <1>1 DEF FlushBounds, BoundsSize
<1>3. Packed' /\ EndOf(n_packets)' = EndOf(n_packets)
  BY <1>1, <1>2 DEF Packed, EndOf
<1>4. n_bytes' = next' + adthLength' /\ n_bytes' <= MaxSize
  BY <1>1, <1>2
<1> QED BY <1>1, <1>2, <1>3, <1>4 DEF Building

\* What is pushed was built.
LEMMA PushReadable ==
  IInv /\ Building /\ PushedFrameReadable /\ FlushPush => PushedFrameReadable'
<1> SUFFICES ASSUME IInv, Building, PushedFrameReadable, FlushPush
             PROVE  PushedFrameReadable'
  OBVIOUS
<1>1. CASE pushed' = pushed
  BY <1>1 DEF PushedFrameReadable
<1>2. CASE pushed' = [bounds |-> bounds, seq |-> HeaderSequence, next |-> next,
                      adthLength |-> adthLength, n_bytes |-> n_bytes]
  <2> PICK k : k = n_packets
    OBVIOUS
  <2>1. /\ Len(bounds) = k /\ k \in Nat /\ EndOf(k) <= next /\ next >= 16
        /\ next \in Nat /\ next % 4 = 0 /\ adthLength = 16 + 8 * k
        /\ n_bytes = next + adthLength /\ n_bytes <= MaxSize
        /\ bounds \in Seq([offset : Nat, length : Nat])
        /\ \A i \in 1 .. k : bounds[i].offset = EndOf(i - 1)
    BY DEF FlushPush, IInv, TypeOK, Building, Packed
  <2>2. (adthLength - NextHeader - 4) \div BoundsSize = k
    BY <2>1 DEF NextHeader, BoundsSize
  <2>3. next >= FirstHeader /\ (1 \in 1 .. k => bounds[1].offset = FirstHeader)
    BY <2>1 DEF EndOf, FirstHeader
  <2>4. \A i \in 1 .. k :
          /\ bounds[i].offset + bounds[i].length = EndOf(i)
          /\ i < k => bounds[i + 1].offset = EndOf(i)
          /\ ~(i < k) => EndOf(i) <= next
    <3> SUFFICES ASSUME NEW i \in 1 .. k
                 PROVE  /\ bounds[i].offset + bounds[i].length = EndOf(i)
                        /\ i < k => bounds[i + 1].offset = EndOf(i)
                        /\ ~(i < k) => EndOf(i) <= next
      OBVIOUS
    <3>1. bounds[i].offset + bounds[i].length = EndOf(i)
      BY <2>1 DEF EndOf
    <3>2. ASSUME i < k PROVE bounds[i + 1].offset = EndOf(i)
      <4>1. i + 1 \in 1 .. k /\ (i + 1) - 1 = i
        BY <2>1, <3>2
      <4>2. bounds[i + 1].offset = EndOf((i + 1) - 1)
        BY <2>1, <4>1
      <4> QED BY <4>1, <4>2
    <3>3. ASSUME ~(i < k) PROVE EndOf(i) <= next
      <4>1. i = k
        BY <2>1, <3>3
      <4> QED BY <2>1, <4>1
    <3> QED BY <3>1, <3>2, <3>3
  <2> QED BY <1>2, <2>1, <2>2, <2>3, <2>4 DEF PushedFrameReadable
<1> QED BY <1>1, <1>2 DEF FlushPush

\* Every step keeps the frame being built, and the frame last pushed, in
\* shape.
LEMMA NextBuilding ==
  IInv /\ IInv' /\ Building /\ PushedFrameReadable /\ [Next]_vars
    => Building' /\ PushedFrameReadable'
<1> SUFFICES ASSUME IInv, IInv', Building, PushedFrameReadable, [Next]_vars
             PROVE  Building' /\ PushedFrameReadable'
  OBVIOUS
<1>1. ASSUME pushed' = pushed PROVE PushedFrameReadable'
  BY <1>1 DEF PushedFrameReadable
<1>2. ASSUME pc' \notin {"append", "bounds", "push"} PROVE Building'
  BY <1>2 DEF Building
<1>3. ASSUME UNCHANGED <<pc, frameVars>> PROVE Building'
  BY <1>3 DEF frameVars, Building, Packed, EndOf
<1>4. ASSUME NEW len \in Lens, Xmit(len) \/ XmitFull(len)
      PROVE  Building' /\ PushedFrameReadable'
  <2>1. pushed' = pushed
    BY <1>4 DEF Xmit, XmitFull
  <2>2. pc' \in {"idle", "start"}
    BY <1>4 DEF Xmit, XmitFull
  <2> QED BY <2>1, <2>2, <1>1, <1>2
<1>5. CASE FlushEmpty \/ FlushPushFails \/ FlushDrop \/ Deadline \/ Return \/ OpenControl
  <2>1. pushed' = pushed
    BY <1>5 DEF FlushEmpty, FlushPushFails, FlushDrop, Deadline, Return, OpenControl
  <2>2. pc' \in {"idle", "start", "return", "error"}
    BY <1>5 DEF FlushEmpty, FlushPushFails, FlushDrop, Deadline, Return, OpenControl
  <2> QED BY <2>1, <2>2, <1>1, <1>2
<1>6. CASE FlushBegin
  <2>1. pushed' = pushed /\ pc' = "append" /\ n_packets' = 0 /\ bounds' = << >>
    BY <1>6 DEF FlushBegin
  <2>2. n_bytes' = 16
    <3>1. n_bytes' >= 16
      BY <2>1 DEF IInv, Progress
    <3>2. TagEnd(0, 0) = 16
      BY DEF TagEnd, Align, HeaderSize, FirstHeader
    <3> QED BY <1>6, <3>1, <3>2 DEF FlushBegin
  <2>3. Building'
    BY <2>1, <2>2 DEF Building, Packed, EndOf
  <2> QED BY <2>1, <2>3, <1>1
<1>7. CASE FlushAppend
  BY <1>7, <1>1, AppendBuilding DEF FlushAppend
<1>8. CASE FlushAdth
  BY <1>8, <1>1, AdthBuilding DEF FlushAdth
<1>9. CASE FlushBounds
  BY <1>9, <1>1, BoundsBuilding DEF FlushBounds
<1>10. CASE FlushPush
  <2>1. pc' = "return"
    BY <1>10 DEF FlushPush
  <2> QED BY <2>1, <1>2, <1>10, PushReadable
<1>11. CASE Wake \/ Close \/ OpenReset \/ OpenDrain \/ OpenStart \/ UNCHANGED vars
  <2>1. pushed' = pushed /\ UNCHANGED <<pc, frameVars>>
    BY <1>11 DEF Wake, Close, OpenReset, OpenDrain, OpenStart, vars
  <2> QED BY <2>1, <1>1, <1>3
<1> QED BY <1>4, <1>5, <1>6, <1>7, <1>8, <1>9, <1>10, <1>11 DEF Next, Flush, Interface

\* Every frame the modem is given can be read back: the ADTH's length yields
\* the number of packets, its offset is the first header's, and the bounds
\* delimit consecutive packets between the two headers, whatever the packets'
\* lengths, however many flushes failed before, and also when net_open took
\* packets away while the frame was being built.
THEOREM FramesReadable == Spec => []PushedFrameReadable
<1>1. IInv /\ IInv' /\ Building /\ PushedFrameReadable /\ [Next]_vars
        => Building' /\ PushedFrameReadable'
  BY NextBuilding
<1> QED BY <1>1, InitBuilding, Inductive, PTL DEF Spec
=============================================================================
