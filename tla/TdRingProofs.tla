---------------------------- MODULE TdRingProofs ----------------------------
(***************************************************************************)
(* TdRing for every ring depth: type correctness, and, with one writer,    *)
(* that no BUG_ON fires and host and modem never share a page.  It         *)
(* implements Fifo twice: TX is a bounded lossless channel for what        *)
(* write() published, RX for what the modem sent, and a page under way     *)
(* does not change.  No wake-up and no doorbell is lost, with any number   *)
(* of writers.                                                             *)
(*                                                                         *)
(* The cursors move round the ring; the invariant says that they never     *)
(* overtake one another.  Between(a, b, c): going round from a, one meets  *)
(* b no later than c.  A channel's queue is a window of the ring: the      *)
(* pages of the slots from one cursor up to the next.                      *)
(***************************************************************************)
EXTENDS TdRing, SequenceTheorems, TLAPS

Between(a, b, c) == Dist(a, b) + Dist(b, c) = Dist(a, c)

-----------------------------------------------------------------------------
(* Arithmetic of the ring.  Reduce hides the % from all steps but one.     *)

Reduce(x) == x % Depth

\* One subtraction reduces what two slots can add up to.
LEMMA ModOnce ==
  ASSUME NEW x \in 0 .. 2 * Depth - 1
  PROVE  Reduce(x) = IF x < Depth THEN x ELSE x - Depth
<1>1. Depth \in Nat \ {0} /\ x \in Nat
  BY DepthAssumption
<1>2. CASE x < Depth
  BY <1>1, <1>2, SMTT(30) DEF Reduce
<1>3. CASE x >= Depth
  BY <1>1, <1>3, SMTT(30) DEF Reduce
<1> QED BY <1>1, <1>2, <1>3

\* The next slot, without the %: one more, or back to 0.
LEMMA SuccIs ==
  ASSUME NEW i \in Slot
  PROVE  Succ(i) = (IF i = Depth - 1 THEN 0 ELSE i + 1) /\ Succ(i) \in Slot
<1>1. i + 1 \in 0 .. 2 * Depth - 1
  BY DepthAssumption DEF Slot
<1>2. Succ(i) = Reduce(i + 1)
  BY DEF Succ, Reduce
<1> QED BY <1>1, <1>2, ModOnce, DepthAssumption DEF Slot

\* The distance between two slots, without the %.
LEMMA DistIs ==
  ASSUME NEW i \in Slot, NEW j \in Slot
  PROVE  Dist(i, j) = (IF i <= j THEN j - i ELSE j - i + Depth) /\ Dist(i, j) \in Slot
<1>1. j - i + Depth \in 0 .. 2 * Depth - 1
  BY DepthAssumption DEF Slot
<1>2. Dist(i, j) = Reduce(j - i + Depth)
  BY DEF Dist, Reduce
<1> QED BY <1>1, <1>2, ModOnce, DepthAssumption DEF Slot

\* The slot k steps on, without the %.
LEMMA PlusIs ==
  ASSUME NEW i \in Slot, NEW k \in Slot
  PROVE  /\ (i + k) % Depth = (IF i + k < Depth THEN i + k ELSE i + k - Depth)
         /\ (i + k) % Depth \in Slot
<1>1. i + k \in 0 .. 2 * Depth - 1
  BY DepthAssumption DEF Slot
<1>2. (i + k) % Depth = Reduce(i + k)
  BY DEF Reduce
<1> QED BY <1>1, <1>2, ModOnce, DepthAssumption DEF Slot

\* The cursor in the middle moves on, short of the last one.
LEMMA MoveMiddle ==
  ASSUME NEW a \in Slot, NEW b \in Slot, NEW c \in Slot, Between(a, b, c), b # c
  PROVE  Between(a, Succ(b), c) /\ Dist(a, Succ(b)) = Dist(a, b) + 1
<1>1. Succ(b) \in Slot
  BY SuccIs
<1>2. Succ(b) = IF b = Depth - 1 THEN 0 ELSE b + 1
  BY SuccIs
<1>3. /\ Dist(a, b) = (IF a <= b THEN b - a ELSE b - a + Depth)
      /\ Dist(b, c) = (IF b <= c THEN c - b ELSE c - b + Depth)
      /\ Dist(a, c) = (IF a <= c THEN c - a ELSE c - a + Depth)
      /\ Dist(a, Succ(b)) = (IF a <= Succ(b) THEN Succ(b) - a ELSE Succ(b) - a + Depth)
      /\ Dist(Succ(b), c) = (IF Succ(b) <= c THEN c - Succ(b) ELSE c - Succ(b) + Depth)
  BY <1>1, DistIs
<1>4. /\ a \in 0 .. Depth - 1 /\ b \in 0 .. Depth - 1 /\ c \in 0 .. Depth - 1 /\ Depth \in Nat
      /\ Dist(a, b) + Dist(b, c) = Dist(a, c)
  BY DepthAssumption DEF Slot, Between
<1> QED BY <1>2, <1>3, <1>4 DEF Between

\* The first cursor moves on, short of the middle one.
LEMMA MoveFirst ==
  ASSUME NEW a \in Slot, NEW b \in Slot, NEW c \in Slot, Between(a, b, c), a # b
  PROVE  Between(Succ(a), b, c) /\ Dist(Succ(a), c) = Dist(a, c) - 1 /\ a # c
<1>1. Succ(a) \in Slot
  BY SuccIs
<1>2. Succ(a) = IF a = Depth - 1 THEN 0 ELSE a + 1
  BY SuccIs
<1>3. /\ Dist(a, b) = (IF a <= b THEN b - a ELSE b - a + Depth)
      /\ Dist(b, c) = (IF b <= c THEN c - b ELSE c - b + Depth)
      /\ Dist(a, c) = (IF a <= c THEN c - a ELSE c - a + Depth)
      /\ Dist(Succ(a), b) = (IF Succ(a) <= b THEN b - Succ(a) ELSE b - Succ(a) + Depth)
      /\ Dist(Succ(a), c) = (IF Succ(a) <= c THEN c - Succ(a) ELSE c - Succ(a) + Depth)
  BY <1>1, DistIs
<1>4. /\ a \in 0 .. Depth - 1 /\ b \in 0 .. Depth - 1 /\ c \in 0 .. Depth - 1 /\ Depth \in Nat
      /\ Dist(a, b) + Dist(b, c) = Dist(a, c)
  BY DepthAssumption DEF Slot, Between
<1> QED BY <1>2, <1>3, <1>4 DEF Between

\* The last cursor moves on, short of the first one.
LEMMA MoveLast ==
  ASSUME NEW a \in Slot, NEW b \in Slot, NEW c \in Slot, Between(a, b, c), Succ(c) # a
  PROVE  Between(a, b, Succ(c)) /\ Dist(a, Succ(c)) = Dist(a, c) + 1
<1>1. Succ(c) \in Slot
  BY SuccIs
<1>2. Succ(c) = IF c = Depth - 1 THEN 0 ELSE c + 1
  BY SuccIs
<1>3. /\ Dist(a, b) = (IF a <= b THEN b - a ELSE b - a + Depth)
      /\ Dist(b, c) = (IF b <= c THEN c - b ELSE c - b + Depth)
      /\ Dist(a, c) = (IF a <= c THEN c - a ELSE c - a + Depth)
      /\ Dist(a, Succ(c)) = (IF a <= Succ(c) THEN Succ(c) - a ELSE Succ(c) - a + Depth)
      /\ Dist(b, Succ(c)) = (IF b <= Succ(c) THEN Succ(c) - b ELSE Succ(c) - b + Depth)
  BY <1>1, DistIs
<1>4. /\ a \in 0 .. Depth - 1 /\ b \in 0 .. Depth - 1 /\ c \in 0 .. Depth - 1 /\ Depth \in Nat
      /\ Dist(a, b) + Dist(b, c) = Dist(a, c)
  BY DepthAssumption DEF Slot, Between
<1> QED BY <1>2, <1>3, <1>4 DEF Between

\* A distance is a number below the depth of the ring.
LEMMA DistNat ==
  ASSUME NEW i \in Slot, NEW j \in Slot
  PROVE  Dist(i, j) \in Nat /\ Dist(i, j) < Depth
<1>1. Dist(i, j) \in 0 .. Depth - 1
  BY DistIs DEF Slot
<1> QED BY <1>1, DepthAssumption

\* Two slots as far from a third are the same slot.
LEMMA DistSame ==
  ASSUME NEW a \in Slot, NEW i \in Slot, NEW j \in Slot, Dist(a, i) = Dist(a, j)
  PROVE  i = j
<1>1. /\ Dist(a, i) = (IF a <= i THEN i - a ELSE i - a + Depth)
      /\ Dist(a, j) = (IF a <= j THEN j - a ELSE j - a + Depth)
  BY DistIs
<1>2. (IF a <= i THEN i - a ELSE i - a + Depth) = (IF a <= j THEN j - a ELSE j - a + Depth)
  BY <1>1
<1>3. a \in 0 .. Depth - 1 /\ i \in 0 .. Depth - 1 /\ j \in 0 .. Depth - 1 /\ Depth \in Nat
  BY DepthAssumption DEF Slot
<1> QED BY <1>2, <1>3

\* Seen from the next slot everything is one step nearer, the slot itself
\* farthest of all.
LEMMA DistNext ==
  ASSUME NEW a \in Slot, NEW i \in Slot
  PROVE  Dist(Succ(a), i) = IF i = a THEN Depth - 1 ELSE Dist(a, i) - 1
<1>1. Succ(a) \in Slot /\ Succ(a) = IF a = Depth - 1 THEN 0 ELSE a + 1
  BY SuccIs
<1>2. /\ Dist(a, i) = (IF a <= i THEN i - a ELSE i - a + Depth)
      /\ Dist(Succ(a), i) = (IF Succ(a) <= i THEN i - Succ(a) ELSE i - Succ(a) + Depth)
  BY <1>1, DistIs
<1> QED BY <1>1, <1>2, DepthAssumption DEF Slot

\* No two slots have the same next slot, and none is its own.
LEMMA SuccSame ==
  ASSUME NEW i \in Slot, NEW j \in Slot
  PROVE  (Succ(i) = Succ(j) => i = j) /\ Succ(i) # i
<1>1. /\ Succ(i) = IF i = Depth - 1 THEN 0 ELSE i + 1
      /\ Succ(j) = IF j = Depth - 1 THEN 0 ELSE j + 1
  BY SuccIs
<1> QED BY <1>1, DepthAssumption DEF Slot

\* A slot is at distance 0 from itself alone.
LEMMA DistZero ==
  ASSUME NEW i \in Slot, NEW j \in Slot
  PROVE  Dist(i, i) = 0 /\ (i # j => Dist(i, j) > 0)
<1>1. /\ Dist(i, i) = (IF i <= i THEN i - i ELSE i - i + Depth)
      /\ Dist(i, j) = (IF i <= j THEN j - i ELSE j - i + Depth)
  BY DistIs
<1> QED BY <1>1, DepthAssumption DEF Slot

-----------------------------------------------------------------------------
(* The inductive invariant                                                 *)

\* cdev_write is entered by one thread: the file is opened exclusively
\* (QueuePair) and rpc.py is single-threaded.
OneWriter == \A v, w \in Writers : v = w

\* A writer past qp_write's checks still has room, fills the slot s_wptr
\* points at, and has filled it when it publishes.
WriterInv ==
  \A w \in Writers :
    /\ wrPc[w] # "dead"
    /\ wrPc[w] \in {"copy", "publish", "ding"} => wrMsg[w] \in TxMsg
    /\ wrPc[w] \in {"copy", "publish"} => Succ(s_wptr[TX]) # s_rptr[TX]
    /\ wrPc[w] = "publish" => wrSlot[w] = s_wptr[TX] /\ txPage[s_wptr[TX]] \in TxMsg

\* The modem's view lies between the cursors; what it owns holds messages.
TxInv ==
  /\ Between(s_rptr[TX], seen[TX], s_wptr[TX])
  /\ \A i \in Slot : Dist(s_rptr[TX], i) < Dist(s_rptr[TX], s_wptr[TX]) => txPage[i] \in TxMsg

\* The reader's cursor trails the modem's; s_wptr is the slot behind
\* last_handled except between posting a page and moving last_handled on.
RxInv ==
  /\ rdPc # "dead"
  /\ rdPc \in {"copy", "post", "ding", "done"} => rdIdx = last_handled
  /\ rdPc = "copy" => s_rptr[RX] # last_handled
  /\ rdPc \in {"ding", "done"} => s_wptr[RX] = last_handled
  /\ rdPc \notin {"ding", "done"} => Succ(s_wptr[RX]) = last_handled
  /\ Between(Handled, s_rptr[RX], s_wptr[RX])
  /\ Between(s_rptr[RX], seen[RX], s_wptr[RX])
  /\ \A i \in Slot : Dist(Handled, i) < Dist(Handled, s_rptr[RX]) => rxPage[i] \in RxMsg

IInv == TypeOK /\ bugOn = {} /\ WriterInv /\ TxInv /\ RxInv

\* Steps that leave one side of the queue pair alone.
LEMMA WriterSame ==
  ASSUME WriterInv, UNCHANGED <<s_wptr, s_rptr, txPage, wrPc, wrMsg, wrSlot>>
  PROVE  WriterInv'
  BY DEF WriterInv

\* What leaves the TX cursors and pages alone preserves TxInv.
LEMMA TxSame ==
  ASSUME TxInv, s_wptr'[TX] = s_wptr[TX], s_rptr'[TX] = s_rptr[TX],
         seen'[TX] = seen[TX], UNCHANGED txPage
  PROVE  TxInv'
  BY DEF TxInv

\* What leaves the RX cursors, the RX pages and the reader alone preserves RxInv.
LEMMA RxSame ==
  ASSUME RxInv, s_wptr'[RX] = s_wptr[RX], s_rptr'[RX] = s_rptr[RX],
         seen'[RX] = seen[RX], UNCHANGED <<rxPage, rdPc, rdIdx, last_handled>>
  PROVE  RxInv'
  BY DEF RxInv, Handled

\* The state qp_start leaves behind: TX empty, RX filled until td_ring_full.
LEMMA InitInv == Init => IInv
<1> SUFFICES ASSUME Init PROVE IInv
  OBVIOUS
<1>1. 0 \in Slot /\ Depth - 1 \in Slot
  BY DepthAssumption DEF Slot
<1>2. TypeOK
  <2>1. sent \in Seq(TxMsg) /\ taken \in Seq(TxMsg) /\ delivered \in Seq(RxMsg)
    BY DEF Init
  <2>2. calls \in 0 .. MaxTx /\ filled \in 0 .. MaxRx
    BY BoundAssumption DEF Init
  <2> QED BY <1>1, <2>1, <2>2 DEF Init, TypeOK, Ring, TX, RX
<1>3. /\ s_wptr[TX] = 0 /\ s_rptr[TX] = 0 /\ seen[TX] = 0
      /\ s_wptr[RX] = Depth - 1 /\ s_rptr[RX] = 0 /\ seen[RX] = 0
  BY DEF Init, Ring, TX, RX
<1>4. Dist(0, 0) = 0 /\ Dist(0, Depth - 1) = Depth - 1 /\ Succ(Depth - 1) = 0
  BY <1>1, DistIs, SuccIs, DepthAssumption DEF Slot
<1>5. Depth - 1 \in Nat /\ \A i \in Slot : ~(Dist(0, i) < 0)
  BY <1>1, DistIs, DepthAssumption DEF Slot
<1>6. WriterInv
  BY DEF Init, WriterInv
<1>7. TxInv
  BY <1>3, <1>4, <1>5 DEF TxInv, Between
<1>8. RxInv
  <2>1. Handled = 0 /\ rdPc = "idle" /\ last_handled = 0
    BY DEF Init, Handled
  <2> QED BY <1>3, <1>4, <1>5, <2>1 DEF RxInv, Between
<1> QED BY <1>2, <1>6, <1>7, <1>8 DEF IInv, Init

\* What a write() call is given, and what is left of it in a page.
LEMMA MsgTypes ==
  ASSUME TypeOK
  PROVE  /\ calls < MaxTx => calls + 1 \in 0 .. MaxTx /\ NextMsg \subseteq TxMsg
         /\ \A m \in TxMsg : Truncate(m) \in TxMsg
<1>1. ASSUME calls < MaxTx
      PROVE  calls + 1 \in 0 .. MaxTx /\ calls + 1 \in 1 .. MaxTx
  BY <1>1, BoundAssumption DEF TypeOK
<1>2. ASSUME calls < MaxTx PROVE NextMsg \subseteq TxMsg
  BY <1>1, <1>2 DEF NextMsg, TxMsg
<1>3. ASSUME NEW m \in TxMsg PROVE Truncate(m) \in TxMsg
  BY DEF Truncate, TxMsg
<1> QED BY <1>1, <1>2, <1>3

\* The slots the cursors name.
LEMMA Cursors ==
  ASSUME TypeOK
  PROVE  /\ \A r \in Ring : s_wptr[r] \in Slot /\ s_rptr[r] \in Slot /\ seen[r] \in Slot
         /\ last_handled \in Slot /\ rdIdx \in Slot /\ Succ(rdIdx) \in Slot
         /\ Handled \in Slot
  BY SuccIs DEF TypeOK, Handled

-----------------------------------------------------------------------------
(* The writer's steps                                                      *)

\* A write() that finds the ring full touches no ring.
LEMMA WriteRefusedInv ==
  ASSUME OneWriter, IInv, NEW w \in Writers, WriteRefused(w)
  PROVE  IInv'
<1>1. TypeOK'
  BY MsgTypes DEF IInv, TypeOK, WriteRefused, rdVars, modemVars
<1>2. WriterInv' /\ TxInv' /\ RxInv'
  BY WriterSame, TxSame, RxSame DEF IInv, WriteRefused, rdVars, modemVars
<1> QED BY <1>1, <1>2 DEF IInv, WriteRefused

\* The check establishes the room the writer counts on.
LEMMA WriteCheckInv ==
  ASSUME OneWriter, IInv, NEW w \in Writers, WriteCheck(w)
  PROVE  IInv'
<1> PICK m \in NextMsg : wrMsg' = [wrMsg EXCEPT ![w] = m]
  BY DEF WriteCheck
<1>1. m \in TxMsg /\ calls + 1 \in 0 .. MaxTx
  BY MsgTypes DEF IInv, WriteCheck
<1>2. TypeOK'
  BY <1>1 DEF IInv, TypeOK, WriteCheck, rdVars, modemVars
<1>3. WriterInv'
  BY <1>1 DEF IInv, TypeOK, WriterInv, OneWriter, WriteCheck, qp_can_write, td_ring_full
<1>4. TxInv' /\ RxInv'
  BY TxSame, RxSame DEF IInv, WriteCheck, rdVars, modemVars
<1> QED BY <1>2, <1>3, <1>4 DEF IInv, WriteCheck

\* The copy fills the slot s_wptr points at, which no cursor has passed.
LEMMA WriteCopyInv ==
  ASSUME OneWriter, IInv, NEW w \in Writers, WriteCopy(w)
  PROVE  IInv'
<1>1. wrMsg[w] \in TxMsg /\ wrPc[w] = "copy"
  BY DEF IInv, WriterInv, WriteCopy
<1>2. Truncate(wrMsg[w]) \in TxMsg
  BY <1>1, MsgTypes DEF IInv
<1>3. s_wptr[TX] \in Slot /\ TX \in Ring
  BY DEF IInv, TypeOK, Ring
<1>4. TypeOK'
  BY <1>2, <1>3 DEF IInv, TypeOK, WriteCopy, rdVars, modemVars
<1>5. txPage'[s_wptr[TX]] \in TxMsg
  BY <1>2, <1>3 DEF IInv, TypeOK, WriteCopy
<1>6. WriterInv'
  BY <1>1, <1>3, <1>5 DEF IInv, TypeOK, WriterInv, OneWriter, WriteCopy
<1>7. TxInv'
  <2>1. Between(s_rptr[TX], seen[TX], s_wptr[TX])'
    BY DEF IInv, TxInv, WriteCopy, modemVars
  <2>2. ASSUME NEW i \in Slot, Dist(s_rptr[TX], i) < Dist(s_rptr[TX], s_wptr[TX])
        PROVE  txPage'[i] \in TxMsg
    BY <1>5, <2>2 DEF IInv, TypeOK, TxInv, WriteCopy
  <2> QED BY <2>1, <2>2 DEF TxInv, WriteCopy
<1>8. RxInv'
  BY RxSame DEF IInv, WriteCopy, rdVars, modemVars
<1> QED BY <1>4, <1>6, <1>7, <1>8 DEF IInv, WriteCopy

\* The last cursor moves on: there is still room, so no BUG_ON.
LEMMA WritePublishInv ==
  ASSUME OneWriter, IInv, NEW w \in Writers, WritePublish(w)
  PROVE  IInv'
<1>1. wrMsg[w] \in TxMsg /\ wrSlot[w] = s_wptr[TX] /\ wrPc[w] = "publish"
      /\ Succ(s_wptr[TX]) # s_rptr[TX] /\ txPage[s_wptr[TX]] \in TxMsg
  BY DEF IInv, WriterInv, WritePublish
<1>2. /\ s_wptr' = [s_wptr EXCEPT ![TX] = Succ(s_wptr[TX])]
      /\ sent' = Append(sent, Truncate(wrMsg[w]))
      /\ wrPc' = [wrPc EXCEPT ![w] = "ding"]
      /\ bugOn' = bugOn
      /\ UNCHANGED <<s_rptr, txPage, rxPage, error, bell, wakeup, irq, wrMsg, wrSlot, calls,
                 rdVars, modemVars>>
  BY <1>1 DEF WritePublish
<1>3. Truncate(wrMsg[w]) \in TxMsg
  BY <1>1, MsgTypes DEF IInv
<1>4. /\ s_wptr[TX] \in Slot /\ Succ(s_wptr[TX]) \in Slot /\ s_rptr[TX] \in Slot
      /\ seen[TX] \in Slot /\ TX \in Ring /\ TX # RX
  BY SuccIs, Cursors DEF IInv, Ring, TX, RX
<1>5. TypeOK'
  <2>1. sent' \in Seq(TxMsg)
    BY <1>2, <1>3 DEF IInv, TypeOK
  <2> QED BY <1>2, <1>4, <2>1 DEF IInv, TypeOK, rdVars, modemVars
<1>6. s_wptr'[TX] = Succ(s_wptr[TX]) /\ s_wptr'[RX] = s_wptr[RX]
  BY <1>2, <1>4 DEF IInv, TypeOK, Ring
<1>7. WriterInv'
  BY <1>1, <1>2 DEF IInv, TypeOK, WriterInv, OneWriter
<1>8. TxInv'
  <2>1. /\ Between(s_rptr[TX], seen[TX], Succ(s_wptr[TX]))
        /\ Dist(s_rptr[TX], Succ(s_wptr[TX])) = Dist(s_rptr[TX], s_wptr[TX]) + 1
    BY <1>1, <1>4, MoveLast DEF IInv, TxInv
  <2>2. ASSUME NEW i \in Slot, Dist(s_rptr[TX], i) < Dist(s_rptr[TX], Succ(s_wptr[TX]))
        PROVE  txPage[i] \in TxMsg
    <3>1. CASE Dist(s_rptr[TX], i) = Dist(s_rptr[TX], s_wptr[TX])
      <4>1. i = s_wptr[TX]
        BY <1>4, <3>1, DistSame
      <4> QED BY <1>1, <4>1
    <3>2. CASE Dist(s_rptr[TX], i) # Dist(s_rptr[TX], s_wptr[TX])
      <4>1. Dist(s_rptr[TX], i) \in Int /\ Dist(s_rptr[TX], s_wptr[TX]) \in Int
        BY <1>4, DistNat
      <4>2. Dist(s_rptr[TX], i) < Dist(s_rptr[TX], s_wptr[TX])
        BY <2>1, <2>2, <3>2, <4>1
      <4> QED BY <4>2 DEF IInv, TxInv
    <3> QED BY <3>1, <3>2
  <2> QED BY <1>2, <1>6, <2>1, <2>2 DEF TxInv, modemVars
<1>9. RxInv'
  BY <1>2, <1>6, RxSame DEF IInv, rdVars, modemVars
<1> QED BY <1>2, <1>5, <1>7, <1>8, <1>9 DEF IInv

\* The doorbell and the return to the caller move no cursor.
LEMMA WriteDingInv ==
  ASSUME OneWriter, IInv, NEW w \in Writers, WriteDing(w)
  PROVE  IInv'
<1>1. wrMsg[w] \in TxMsg
  BY DEF IInv, WriterInv, WriteDing
<1>2. TypeOK'
  BY <1>1 DEF IInv, TypeOK, WriteDing, ding, poll, rdVars, modemVars
<1>3. WriterInv'
  BY <1>1 DEF IInv, TypeOK, WriterInv, OneWriter, WriteDing
<1>4. TxInv' /\ RxInv'
  BY TxSame, RxSame DEF IInv, WriteDing, rdVars, modemVars
<1> QED BY <1>2, <1>3, <1>4 DEF IInv, WriteDing

-----------------------------------------------------------------------------
(* The reader's steps and the interrupt                                    *)

\* A reader that finds data starts on the slot of last_handled.
LEMMA ReadWaitInv ==
  ASSUME IInv, ReadWait
  PROVE  IInv'
<1>1. TypeOK'
  BY DEF IInv, TypeOK, ReadWait, txVars, modemVars
<1>2. WriterInv' /\ TxInv'
  BY WriterSame, TxSame DEF IInv, ReadWait, txVars, modemVars
<1>3. Handled = last_handled /\ Handled' = last_handled
  BY DEF Handled, ReadWait
<1>4. RxInv'
  BY <1>3 DEF IInv, RxInv, ReadWait, qp_has_data, modemVars
<1> QED BY <1>1, <1>2, <1>4 DEF IInv, ReadWait

\* A signal moves no cursor.
LEMMA ReadInterruptedInv ==
  ASSUME IInv, ReadInterrupted
  PROVE  IInv'
<1>1. TypeOK'
  BY DEF IInv, TypeOK, ReadInterrupted, txVars, modemVars
<1>2. WriterInv' /\ TxInv'
  BY WriterSame, TxSame DEF IInv, ReadInterrupted, txVars, modemVars
<1>3. Handled = last_handled /\ Handled' = last_handled
  BY DEF Handled, ReadInterrupted
<1>4. RxInv'
  BY <1>3 DEF IInv, RxInv, ReadInterrupted, modemVars
<1> QED BY <1>1, <1>2, <1>4 DEF IInv, ReadInterrupted

\* The reader's cursor moves on, short of the modem's.
LEMMA ReadCopyInv ==
  ASSUME IInv, ReadCopy
  PROVE  IInv'
<1>1. /\ rdIdx = last_handled /\ s_rptr[RX] # last_handled /\ Succ(s_wptr[RX]) = last_handled
      /\ Handled = last_handled /\ Handled' = Succ(last_handled)
      /\ Between(last_handled, s_rptr[RX], s_wptr[RX])
  BY DEF IInv, RxInv, ReadCopy, Handled
<1>2. last_handled \in Slot /\ s_rptr[RX] \in Slot /\ s_wptr[RX] \in Slot
  BY Cursors DEF IInv, Ring
<1>3. rxPage[last_handled] \in RxMsg
  <2>1. Dist(last_handled, last_handled) < Dist(last_handled, s_rptr[RX])
    BY <1>1, <1>2, DistZero
  <2> QED BY <1>1, <1>2, <2>1 DEF IInv, RxInv
<1>4. TypeOK'
  BY <1>1, <1>3 DEF IInv, TypeOK, ReadCopy, txVars, modemVars
<1>5. WriterInv' /\ TxInv'
  BY WriterSame, TxSame DEF IInv, ReadCopy, txVars, modemVars
<1>6. Between(Succ(last_handled), s_rptr[RX], s_wptr[RX])
  BY <1>1, <1>2, MoveFirst
<1>7. ASSUME NEW i \in Slot,
             Dist(Succ(last_handled), i) < Dist(Succ(last_handled), s_rptr[RX])
      PROVE  rxPage[i] \in RxMsg
  <2>1. /\ Dist(Succ(last_handled), i) = IF i = last_handled THEN Depth - 1 ELSE Dist(last_handled, i) - 1
        /\ Dist(Succ(last_handled), s_rptr[RX]) = Dist(last_handled, s_rptr[RX]) - 1
    BY <1>1, <1>2, DistNext
  <2>2. /\ Dist(last_handled, i) \in Nat /\ Dist(last_handled, s_rptr[RX]) \in Nat
        /\ Dist(last_handled, s_rptr[RX]) < Depth /\ Depth \in Nat
    BY <1>2, DistNat, DepthAssumption
  <2>3. Dist(last_handled, i) < Dist(last_handled, s_rptr[RX])
    BY <1>7, <2>1, <2>2
  <2> QED BY <1>1, <2>3 DEF IInv, RxInv
<1>8. RxInv'
  BY <1>1, <1>6, <1>7 DEF IInv, RxInv, ReadCopy, modemVars
<1> QED BY <1>4, <1>5, <1>8 DEF IInv, ReadCopy

\* There is room to post a page: the slot being returned is behind s_wptr,
\* and the modem's cursor has passed it.
LEMMA ReadPostInv ==
  ASSUME IInv, ReadPost
  PROVE  IInv'
<1>1. /\ rdPc = "post" /\ rdIdx = last_handled /\ Succ(s_wptr[RX]) = last_handled
      /\ Handled = Succ(last_handled)
      /\ Between(Handled, s_rptr[RX], s_wptr[RX])
      /\ Between(s_rptr[RX], seen[RX], s_wptr[RX])
  BY DEF IInv, RxInv, ReadPost, Handled
<1>2. /\ last_handled \in Slot /\ s_rptr[RX] \in Slot /\ s_wptr[RX] \in Slot
      /\ seen[RX] \in Slot /\ Handled \in Slot /\ RX \in Ring /\ TX # RX
  BY Cursors DEF IInv, Ring, TX, RX
<1>3. Dist(Handled, s_rptr[RX]) + Dist(s_rptr[RX], s_wptr[RX]) = Dist(Handled, s_wptr[RX])
  BY <1>1 DEF Between
<1>4. /\ Dist(Handled, s_rptr[RX]) \in Nat /\ Dist(s_rptr[RX], s_wptr[RX]) \in Nat
      /\ Dist(last_handled, s_wptr[RX]) \in Nat /\ Dist(last_handled, s_wptr[RX]) < Depth
      /\ Depth \in Nat
  BY <1>2, DistNat, DepthAssumption
<1>5. last_handled # s_rptr[RX]
  <2>1. s_wptr[RX] # last_handled
    BY <1>1, <1>2, SuccSame
  <2>2. Dist(Handled, s_wptr[RX]) = Dist(last_handled, s_wptr[RX]) - 1
    BY <1>1, <1>2, <2>1, DistNext
  <2>3. SUFFICES ASSUME last_handled = s_rptr[RX] PROVE FALSE
    OBVIOUS
  <2>4. Dist(Handled, s_rptr[RX]) = Depth - 1
    BY <1>1, <1>2, <2>3, DistNext
  <2> QED BY <1>3, <1>4, <2>2, <2>4
<1>6. /\ s_wptr' = [s_wptr EXCEPT ![RX] = last_handled] /\ bugOn' = bugOn /\ rdPc' = "ding"
      /\ rxPage' = [rxPage EXCEPT ![s_wptr[RX]] = None]
      /\ UNCHANGED <<s_rptr, txPage, error, bell, wakeup, irq, txVars, last_handled, rdIdx,
                      delivered, modemVars>>
  BY <1>1, <1>5 DEF ReadPost, Advance, td_ring_full
<1>7. s_wptr'[RX] = last_handled /\ s_wptr'[TX] = s_wptr[TX] /\ Handled' = Handled
  BY <1>1, <1>2, <1>6 DEF IInv, TypeOK, Ring, Handled
<1>8. TypeOK'
  BY <1>2, <1>6 DEF IInv, TypeOK, txVars, modemVars
<1>9. WriterInv' /\ TxInv'
  BY <1>6, <1>7, TxSame DEF IInv, WriterInv, txVars, modemVars
<1>10. /\ Between(Handled, s_rptr[RX], last_handled)
       /\ Between(s_rptr[RX], seen[RX], last_handled)
  <2>1. Succ(s_wptr[RX]) # Handled
    BY <1>1, <1>2, SuccSame
  <2> QED BY <1>1, <1>2, <1>5, <2>1, MoveLast
<1>11. ASSUME NEW i \in Slot, Dist(Handled, i) < Dist(Handled, s_rptr[RX])
       PROVE  rxPage'[i] \in RxMsg
  <2>1. i # s_wptr[RX]
    BY <1>3, <1>4, <1>11
  <2>2. rxPage[i] \in RxMsg
    BY <1>11 DEF IInv, RxInv
  <2> QED BY <1>6, <2>1, <2>2 DEF IInv, TypeOK
<1>12. RxInv'
  BY <1>1, <1>6, <1>7, <1>10, <1>11 DEF RxInv, modemVars
<1> QED BY <1>6, <1>8, <1>9, <1>12 DEF IInv

\* The doorbell after posting a page moves no cursor.
LEMMA ReadDingInv ==
  ASSUME IInv, ReadDing
  PROVE  IInv'
<1>1. TypeOK'
  BY DEF IInv, TypeOK, ReadDing, ding, poll, txVars, modemVars
<1>2. WriterInv' /\ TxInv'
  BY WriterSame, TxSame DEF IInv, ReadDing, txVars, modemVars
<1>3. Handled' = Handled
  BY DEF Handled, ReadDing
<1>4. RxInv'
  BY <1>3 DEF IInv, RxInv, ReadDing, modemVars
<1> QED BY <1>1, <1>2, <1>4 DEF IInv, ReadDing

\* last_handled catches up with what the reader has already copied.
LEMMA ReadDoneInv ==
  ASSUME IInv, ReadDone
  PROVE  IInv'
<1>1. TypeOK'
  BY Cursors DEF IInv, TypeOK, ReadDone, txVars, modemVars
<1>2. WriterInv' /\ TxInv'
  BY WriterSame, TxSame DEF IInv, ReadDone, txVars, modemVars
<1>3. Handled' = Handled
  BY DEF Handled, ReadDone
<1>4. RxInv'
  BY <1>3 DEF IInv, RxInv, ReadDone, modemVars
<1> QED BY <1>1, <1>2, <1>4 DEF IInv, ReadDone

\* The interrupt wakes the reader and moves no cursor.
LEMMA Irq0Inv ==
  ASSUME IInv, Irq0
  PROVE  IInv'
<1>1. TypeOK'
  BY DEF IInv, TypeOK, Irq0, poll, txVars, modemVars
<1>2. WriterInv' /\ TxInv'
  BY WriterSame, TxSame DEF IInv, Irq0, txVars, modemVars
<1>3. Handled' = Handled
  BY DEF Handled, Irq0
<1>4. RxInv'
  BY <1>3 DEF IInv, RxInv, Irq0, modemVars
<1> QED BY <1>1, <1>2, <1>4 DEF IInv, Irq0

-----------------------------------------------------------------------------
(* The modem's steps                                                       *)

\* What the modem now sees is exactly s_wptr.
LEMMA ModemBellInv ==
  ASSUME IInv, ModemBell
  PROVE  IInv'
<1>1. TypeOK'
  BY DEF IInv, TypeOK, ModemBell, txVars, rdVars
<1>2. WriterInv'
  BY WriterSame DEF IInv, ModemBell, txVars
<1>3. \A r \in Ring : Between(s_rptr[r], s_wptr[r], s_wptr[r])
  <2>1. ASSUME NEW r \in Ring PROVE Between(s_rptr[r], s_wptr[r], s_wptr[r])
    <3>1. s_rptr[r] \in Slot /\ s_wptr[r] \in Slot
      BY Cursors DEF IInv
    <3>2. Dist(s_wptr[r], s_wptr[r]) = 0 /\ Dist(s_rptr[r], s_wptr[r]) \in Nat
      BY <3>1, DistZero, DistNat
    <3> QED BY <3>2 DEF Between
  <2> QED BY <2>1
<1>4. Handled' = Handled
  BY DEF Handled, ModemBell, rdVars
<1>5. TxInv' /\ RxInv'
  BY <1>3, <1>4 DEF IInv, TxInv, RxInv, ModemBell, txVars, rdVars, Ring
<1> QED BY <1>1, <1>2, <1>5 DEF IInv, ModemBell

\* The modem fetches the oldest page it owns: s_rptr moves on, short of seen.
LEMMA ModemTakeInv ==
  ASSUME IInv, ModemTake
  PROVE  IInv'
<1>1. /\ s_rptr[TX] \in Slot /\ s_wptr[TX] \in Slot /\ seen[TX] \in Slot
      /\ Succ(s_rptr[TX]) \in Slot /\ TX \in Ring /\ TX # RX
  BY SuccIs, Cursors DEF IInv, Ring, TX, RX
<1>2. Between(s_rptr[TX], seen[TX], s_wptr[TX]) /\ s_rptr[TX] # seen[TX]
  BY DEF IInv, TxInv, ModemTake
<1>3. /\ Between(Succ(s_rptr[TX]), seen[TX], s_wptr[TX]) /\ s_rptr[TX] # s_wptr[TX]
      /\ Dist(Succ(s_rptr[TX]), s_wptr[TX]) = Dist(s_rptr[TX], s_wptr[TX]) - 1
  BY <1>1, <1>2, MoveFirst
<1>4. txPage[s_rptr[TX]] \in TxMsg
  <2>1. Dist(s_rptr[TX], s_rptr[TX]) < Dist(s_rptr[TX], s_wptr[TX])
    BY <1>1, <1>3, DistZero
  <2> QED BY <1>1, <2>1 DEF IInv, TxInv
<1>5. TypeOK'
  <2>1. taken' \in Seq(TxMsg)
    BY <1>4 DEF IInv, TypeOK, ModemTake
  <2> QED BY <1>1, <2>1 DEF IInv, TypeOK, ModemTake, txVars, rdVars
<1>6. s_rptr'[TX] = Succ(s_rptr[TX]) /\ s_rptr'[RX] = s_rptr[RX]
  BY <1>1 DEF IInv, TypeOK, Ring, ModemTake
<1>7. WriterInv'
  <2>1. Succ(s_wptr[TX]) # Succ(s_rptr[TX])
    BY <1>1, <1>3, SuccSame
  <2> QED BY <1>6, <2>1 DEF IInv, WriterInv, ModemTake, txVars
<1>8. TxInv'
  <2>1. ASSUME NEW i \in Slot, Dist(Succ(s_rptr[TX]), i) < Dist(Succ(s_rptr[TX]), s_wptr[TX])
        PROVE  txPage[i] \in TxMsg
    <3>1. Dist(Succ(s_rptr[TX]), i)
            = IF i = s_rptr[TX] THEN Depth - 1 ELSE Dist(s_rptr[TX], i) - 1
      BY <1>1, DistNext
    <3>2. /\ Dist(s_rptr[TX], i) \in Nat /\ Dist(s_rptr[TX], s_wptr[TX]) \in Nat
          /\ Dist(s_rptr[TX], s_wptr[TX]) < Depth /\ Depth \in Nat
      BY <1>1, DistNat, DepthAssumption
    <3>3. Dist(s_rptr[TX], i) < Dist(s_rptr[TX], s_wptr[TX])
      BY <1>3, <2>1, <3>1, <3>2
    <3> QED BY <3>3 DEF IInv, TxInv
  <2> QED BY <1>3, <1>6, <2>1 DEF TxInv, ModemTake
<1>9. RxInv'
  BY <1>6, RxSame DEF IInv, ModemTake, rdVars
<1> QED BY <1>5, <1>7, <1>8, <1>9 DEF IInv, ModemTake

\* The modem fills the oldest empty page: the middle cursor moves on.
LEMMA ModemFillInv ==
  ASSUME IInv, ModemFill
  PROVE  IInv'
<1>1. /\ s_rptr[RX] \in Slot /\ s_wptr[RX] \in Slot /\ seen[RX] \in Slot
      /\ Succ(s_rptr[RX]) \in Slot /\ Handled \in Slot /\ last_handled \in Slot
      /\ RX \in Ring /\ TX # RX
  BY SuccIs, Cursors DEF IInv, Ring, TX, RX
<1>2. /\ Between(s_rptr[RX], seen[RX], s_wptr[RX]) /\ s_rptr[RX] # seen[RX]
      /\ Between(Handled, s_rptr[RX], s_wptr[RX])
  BY DEF IInv, RxInv, ModemFill
<1>3. Between(Succ(s_rptr[RX]), seen[RX], s_wptr[RX]) /\ s_rptr[RX] # s_wptr[RX]
  BY <1>1, <1>2, MoveFirst
<1>4. /\ Between(Handled, Succ(s_rptr[RX]), s_wptr[RX])
      /\ Dist(Handled, Succ(s_rptr[RX])) = Dist(Handled, s_rptr[RX]) + 1
  BY <1>1, <1>2, <1>3, MoveMiddle
<1>5. filled + 1 \in RxMsg /\ filled + 1 \in 0 .. MaxRx
  BY BoundAssumption DEF IInv, TypeOK, ModemFill, RxMsg
<1>6. TypeOK'
  BY <1>1, <1>5 DEF IInv, TypeOK, ModemFill, txVars, rdVars
<1>7. s_rptr'[RX] = Succ(s_rptr[RX]) /\ s_rptr'[TX] = s_rptr[TX] /\ Handled' = Handled
  BY <1>1 DEF IInv, TypeOK, Ring, Handled, ModemFill, rdVars
<1>8. WriterInv' /\ TxInv'
  BY <1>7, TxSame DEF IInv, WriterInv, ModemFill, txVars
<1>9. ASSUME NEW i \in Slot, Dist(Handled, i) < Dist(Handled, Succ(s_rptr[RX]))
      PROVE  rxPage'[i] \in RxMsg
  <2>1. CASE i = s_rptr[RX]
    BY <1>5, <2>1 DEF IInv, TypeOK, ModemFill
  <2>2. CASE i # s_rptr[RX]
    <3>1. Dist(Handled, i) # Dist(Handled, s_rptr[RX])
      BY <1>1, <2>2, DistSame
    <3>2. Dist(Handled, i) \in Nat /\ Dist(Handled, s_rptr[RX]) \in Nat
      BY <1>1, DistNat
    <3>3. Dist(Handled, i) < Dist(Handled, s_rptr[RX])
      BY <1>4, <1>9, <3>1, <3>2
    <3>4. rxPage[i] \in RxMsg
      BY <3>3 DEF IInv, RxInv
    <3> QED BY <2>2, <3>4 DEF IInv, TypeOK, ModemFill
  <2> QED BY <2>1, <2>2
<1>10. rdPc = "copy" => Succ(s_rptr[RX]) # last_handled
  <2>1. Succ(s_rptr[RX]) # Succ(s_wptr[RX])
    BY <1>1, <1>3, SuccSame
  <2> QED BY <2>1 DEF IInv, RxInv
<1>11. RxInv'
  BY <1>3, <1>4, <1>7, <1>9, <1>10 DEF IInv, RxInv, ModemFill, rdVars
<1> QED BY <1>6, <1>8, <1>11 DEF IInv, ModemFill

\* A modem that dies, falls asleep or wakes up leaves the rings as they were.
LEMMA ModemStateInv ==
  ASSUME IInv, ModemCrash \/ ModemSleep \/ ModemWake
  PROVE  IInv'
<1>1. TypeOK'
  BY DEF IInv, TypeOK, ModemCrash, ModemSleep, ModemWake, txVars, rdVars
<1>2. WriterInv' /\ TxInv' /\ RxInv'
  BY WriterSame, TxSame, RxSame DEF IInv, ModemCrash, ModemSleep, ModemWake, txVars, rdVars
<1> QED BY <1>1, <1>2 DEF IInv, ModemCrash, ModemSleep, ModemWake

-----------------------------------------------------------------------------
(* The theorems                                                            *)

\* Every step of a queue pair with one writer preserves the invariant.
LEMMA NextInv ==
  ASSUME OneWriter, IInv, [Next]_vars
  PROVE  IInv'
<1>1. CASE \E w \in Writers : Write(w)
  BY <1>1, WriteRefusedInv, WriteCheckInv, WriteCopyInv, WritePublishInv, WriteDingInv DEF Write
<1>2. CASE Read
  BY <1>2, ReadWaitInv, ReadInterruptedInv, ReadCopyInv, ReadPostInv, ReadDingInv, ReadDoneInv
     DEF Read
<1>3. CASE Irq0
  BY <1>3, Irq0Inv
<1>4. CASE Modem
  BY <1>4, ModemBellInv, ModemTakeInv, ModemFillInv, ModemStateInv DEF Modem
<1>5. CASE UNCHANGED vars
  <2>1. TypeOK'
    BY <1>5 DEF IInv, TypeOK, vars, txVars, rdVars, modemVars
  <2>2. WriterInv' /\ TxInv' /\ RxInv'
    BY <1>5, WriterSame, TxSame, RxSame DEF IInv, vars, txVars, rdVars, modemVars
  <2> QED BY <1>5, <2>1, <2>2 DEF IInv, vars
<1> QED BY <1>1, <1>2, <1>3, <1>4, <1>5 DEF Next

\* The strengthened invariant holds throughout.
LEMMA Inductive == ASSUME OneWriter PROVE Spec => []IInv
<1>1. IInv /\ [Next]_vars => IInv'
  BY NextInv
<1> QED BY <1>1, InitInv, PTL DEF Spec

\* The shape of a queue pair's state, for any depth of its rings.
THEOREM TypeCorrect == ASSUME OneWriter PROVE Spec => []TypeOK
<1>1. IInv => TypeOK
  BY DEF IInv
<1> QED BY <1>1, Inductive, PTL

\* td_ring_write and td_ring_read never hit BUG_ON(wptr == s_rptr), however
\* long the copy between the check and the new s_wptr takes.
THEOREM BugFree == ASSUME OneWriter PROVE Spec => []NoBug
<1>1. IInv => NoBug
  BY DEF IInv, NoBug
<1> QED BY <1>1, Inductive, PTL

\* A slot the modem owns lies between its cursor and the host's.
LEMMA OwnedIs ==
  ASSUME NEW r \in Ring, s_rptr[r] \in Slot, s_wptr[r] \in Slot, NEW i \in Owned(r)
  PROVE  i \in Slot /\ Dist(s_rptr[r], i) < Dist(s_rptr[r], s_wptr[r])
<1> PICK b \in Slot : b = s_rptr[r]
  OBVIOUS
<1> PICK d \in Nat : d = Dist(s_rptr[r], s_wptr[r]) /\ d < Depth
  BY DistNat
<1>1. PICK k \in 0 .. d - 1 : i = (b + k) % Depth
  BY DEF Owned, InFlight
<1>2. k \in Slot /\ k < d
  BY DepthAssumption DEF Slot
<1>3. i \in Slot /\ i = IF b + k < Depth THEN b + k ELSE b + k - Depth
  BY <1>1, <1>2, PlusIs
<1>4. Dist(b, i) = IF b <= i THEN i - b ELSE i - b + Depth
  BY <1>3, DistIs
<1>5. b \in 0 .. Depth - 1 /\ k \in 0 .. Depth - 1 /\ Depth \in Nat
  BY <1>2, DepthAssumption DEF Slot
<1>6. Dist(b, i) = k
  BY <1>3, <1>4, <1>5
<1> QED BY <1>2, <1>3, <1>6

\* A page waiting for a read() lies between the reader's cursor and the
\* modem's.
LEMMA UnhandledIs ==
  ASSUME s_rptr[RX] \in Slot, Handled \in Slot, NEW i \in Unhandled
  PROVE  i \in Slot /\ Dist(Handled, i) < Dist(Handled, s_rptr[RX])
<1> PICK b \in Slot : b = Handled
  OBVIOUS
<1> PICK d \in Nat : d = Dist(Handled, s_rptr[RX]) /\ d < Depth
  BY DistNat
<1>1. PICK k \in 0 .. d - 1 : i = (b + k) % Depth
  BY DEF Unhandled
<1>2. k \in Slot /\ k < d
  BY DepthAssumption DEF Slot
<1>3. i \in Slot /\ i = IF b + k < Depth THEN b + k ELSE b + k - Depth
  BY <1>1, <1>2, PlusIs
<1>4. Dist(b, i) = IF b <= i THEN i - b ELSE i - b + Depth
  BY <1>3, DistIs
<1>5. b \in 0 .. Depth - 1 /\ k \in 0 .. Depth - 1 /\ Depth \in Nat
  BY <1>2, DepthAssumption DEF Slot
<1>6. Dist(b, i) = k
  BY <1>3, <1>4, <1>5
<1> QED BY <1>2, <1>3, <1>6

\* Going round from a, nothing is both before b and between b and c.
LEMMA Disjoint ==
  ASSUME NEW a \in Slot, NEW b \in Slot, NEW c \in Slot, NEW i \in Slot,
         Between(a, b, c), Dist(a, i) < Dist(a, b)
  PROVE  ~(Dist(b, i) < Dist(b, c))
<1>1. /\ Dist(a, b) = (IF a <= b THEN b - a ELSE b - a + Depth)
      /\ Dist(b, c) = (IF b <= c THEN c - b ELSE c - b + Depth)
      /\ Dist(a, c) = (IF a <= c THEN c - a ELSE c - a + Depth)
      /\ Dist(a, i) = (IF a <= i THEN i - a ELSE i - a + Depth)
      /\ Dist(b, i) = (IF b <= i THEN i - b ELSE i - b + Depth)
  BY DistIs
<1>2. /\ a \in 0 .. Depth - 1 /\ b \in 0 .. Depth - 1 /\ c \in 0 .. Depth - 1
      /\ i \in 0 .. Depth - 1 /\ Depth \in Nat
      /\ Dist(a, b) + Dist(b, c) = Dist(a, c) /\ Dist(a, i) < Dist(a, b)
  BY DepthAssumption DEF Slot, Between
<1> QED BY <1>1, <1>2

\* Host and modem never share a page: not the one a write() is filling, not
\* the one a read() is copying from, not one that waits to be read.
THEOREM PagesPrivate == ASSUME OneWriter PROVE Spec => []PrivatePages
<1>1. ASSUME IInv PROVE PrivatePages
  <2>1. \A r \in Ring : s_wptr[r] \in Slot /\ s_rptr[r] \in Slot
    BY <1>1, Cursors DEF IInv
  <2>2. ASSUME NEW w \in Writers, wrPc[w] = "publish"
        PROVE  wrSlot[w] \notin Owned(TX)
    <3>1. wrSlot[w] = s_wptr[TX] /\ TX \in Ring
      BY <1>1, <2>2 DEF IInv, WriterInv, Ring
    <3>2. SUFFICES ASSUME s_wptr[TX] \in Owned(TX) PROVE FALSE
      BY <3>1
    <3>3. Dist(s_rptr[TX], s_wptr[TX]) < Dist(s_rptr[TX], s_wptr[TX])
      BY <2>1, <3>1, <3>2, OwnedIs
    <3>4. Dist(s_rptr[TX], s_wptr[TX]) \in Nat
      BY <2>1, <3>1, DistNat
    <3> QED BY <3>3, <3>4
  <2>3. Handled \in Slot /\ RX \in Ring /\ Between(Handled, s_rptr[RX], s_wptr[RX])
    BY <1>1, Cursors DEF IInv, RxInv, Ring
  <2>4. ASSUME NEW i \in Slot, Dist(Handled, i) < Dist(Handled, s_rptr[RX])
        PROVE  i \notin Owned(RX)
    <3>1. ~(Dist(s_rptr[RX], i) < Dist(s_rptr[RX], s_wptr[RX]))
      BY <2>1, <2>3, <2>4, Disjoint
    <3> QED BY <2>1, <2>3, <3>1, OwnedIs
  <2>5. Unhandled \cap Owned(RX) = {}
    BY <2>1, <2>3, <2>4, UnhandledIs
  <2>6. ASSUME rdPc = "copy" PROVE rdIdx \notin Owned(RX)
    <3>1. rdIdx = Handled /\ s_rptr[RX] # Handled
      BY <1>1, <2>6 DEF IInv, RxInv, Handled
    <3>2. Dist(Handled, rdIdx) < Dist(Handled, s_rptr[RX])
      BY <2>1, <2>3, <3>1, DistZero
    <3> QED BY <2>3, <2>4, <3>1, <3>2
  <2> QED BY <2>2, <2>5, <2>6 DEF PrivatePages
<1> QED BY <1>1, Inductive, PTL

-----------------------------------------------------------------------------
(* Windows of a ring.                                                       *)

\* The slot k steps on from slot a.
At(a, k) == (a + k) % Depth
Window(page, a, n) == [k \in 1 .. n |-> page[At(a, k - 1)]]

\* The slot k steps on is at distance k.
LEMMA AtIs ==
  ASSUME NEW a \in Slot, NEW k \in Slot
  PROVE  At(a, k) \in Slot /\ Dist(a, At(a, k)) = k
<1>1. At(a, k) \in Slot /\ At(a, k) = IF a + k < Depth THEN a + k ELSE a + k - Depth
  BY PlusIs DEF At
<1>2. Dist(a, At(a, k)) = IF a <= At(a, k) THEN At(a, k) - a ELSE At(a, k) - a + Depth
  BY <1>1, DistIs
<1>3. a \in 0 .. Depth - 1 /\ k \in 0 .. Depth - 1 /\ Depth \in Nat
  BY DepthAssumption DEF Slot
<1> QED  BY <1>1, <1>2, <1>3

\* Going as far as slot i is away leads to i.
LEMMA AtDist ==
  ASSUME NEW a \in Slot, NEW i \in Slot
  PROVE  At(a, Dist(a, i)) = i
<1>1. Dist(a, i) \in Slot
  BY DistIs
<1>2. At(a, Dist(a, i)) \in Slot /\ Dist(a, At(a, Dist(a, i))) = Dist(a, i)
  BY <1>1, AtIs
<1> QED  BY <1>2, DistSame

\* No step on from a is a itself.
LEMMA AtZero ==
  ASSUME NEW a \in Slot
  PROVE  At(a, 0) = a
BY AtDist, DistZero

\* One step on from a, everything is one step nearer.
LEMMA AtNext ==
  ASSUME NEW a \in Slot, NEW k \in Slot, k > 0
  PROVE  At(Succ(a), k - 1) = At(a, k)
<1>1. At(a, k) \in Slot /\ Dist(a, At(a, k)) = k /\ Succ(a) \in Slot
  BY AtIs, SuccIs
<1>2. k \in Nat /\ k - 1 \in Slot
  BY DepthAssumption DEF Slot
<1>3. At(a, k) # a
  BY <1>1, <1>2, DistZero
<1>4. Dist(Succ(a), At(a, k)) = k - 1
  BY <1>1, <1>3, DistNext
<1>5. At(Succ(a), k - 1) \in Slot /\ Dist(Succ(a), At(Succ(a), k - 1)) = k - 1
  BY <1>1, <1>2, AtIs
<1> QED  BY <1>1, <1>4, <1>5, DistSame

\* TxQueue and RxQueue are written out with %: each is a window.
LEMMA WindowIs ==
  ASSUME NEW page, NEW a \in Slot, NEW n \in Nat
  PROVE  [k \in 1 .. n |-> page[(a + k - 1) % Depth]] = Window(page, a, n)
<1>1. a \in Int
  BY DepthAssumption DEF Slot
<1>2. ASSUME NEW k \in 1 .. n PROVE (a + k - 1) % Depth = At(a, k - 1)
  <2>1. a + k - 1 = a + (k - 1)
    BY <1>1
  <2> QED  BY <2>1 DEF At
<1> QED  BY <1>2 DEF Window

\* A window is a sequence of its length.
LEMMA WindowIsSeq ==
  ASSUME NEW page, NEW a, NEW n \in Nat
  PROVE  Len(Window(page, a, n)) = n /\ DOMAIN Window(page, a, n) = 1 .. n
BY DEF Window

\* The steps of a window stay within the ring.
LEMMA WindowSlots ==
  ASSUME NEW a \in Slot, NEW n \in Nat, n < Depth, NEW k \in 1 .. n
  PROVE  k - 1 \in Slot /\ At(a, k - 1) \in Slot /\ Dist(a, At(a, k - 1)) < n
<1>1. k - 1 \in Slot /\ k - 1 < n
  BY DepthAssumption DEF Slot
<1> QED  BY <1>1, AtIs

\* Writing pages outside a window leaves it as it was.
LEMMA WindowSame ==
  ASSUME NEW a \in Slot, NEW n \in Nat, n < Depth, NEW page, NEW page2,
         \A i \in Slot : Dist(a, i) < n => page2[i] = page[i]
  PROVE  Window(page2, a, n) = Window(page, a, n)
<1>1. \A k \in 1 .. n : page2[At(a, k - 1)] = page[At(a, k - 1)]
  BY WindowSlots
<1> QED  BY <1>1 DEF Window

\* Taking in the slot behind a window appends its page.
LEMMA WindowGrows ==
  ASSUME NEW a \in Slot, NEW n \in Nat, n + 1 < Depth, NEW page, NEW page2, NEW S,
         \A i \in Slot : Dist(a, i) < n => page2[i] = page[i] /\ page[i] \in S
  PROVE  Window(page2, a, n + 1) = Append(Window(page, a, n), page2[At(a, n)])
<1>0. n < Depth /\ Depth \in Nat
  BY DepthAssumption
<1>1. Window(page2, a, n) = Window(page, a, n)
  BY <1>0, WindowSame
<1>2. Window(page, a, n) \in Seq(S) /\ Len(Window(page, a, n)) = n
  <2>1. \A k \in 1 .. n : page[At(a, k - 1)] \in S
    BY <1>0, WindowSlots
  <2> QED  BY <2>1 DEF Window
<1>3. \A k \in 1 .. n : page2[At(a, k - 1)] = Window(page, a, n)[k]
  BY <1>1 DEF Window
<1>4. Append(Window(page, a, n), page2[At(a, n)])
        = [k \in 1 .. n + 1 |-> IF k = n + 1 THEN page2[At(a, n)] ELSE Window(page, a, n)[k]]
  BY <1>2
<1>5. ASSUME NEW k \in 1 .. n + 1
      PROVE  page2[At(a, k - 1)] = IF k = n + 1 THEN page2[At(a, n)] ELSE Window(page, a, n)[k]
  <2>1. CASE k = n + 1
    <3>1. k - 1 = n
      BY <2>1
    <3> QED  BY <2>1, <3>1
  <2>2. CASE k # n + 1
    <3>1. k \in 1 .. n
      BY <2>2
    <3> QED  BY <1>3, <2>2, <3>1
  <2> QED  BY <2>1, <2>2
<1> QED  BY <1>4, <1>5 DEF Window

\* Letting go of the first slot of a window drops its head.
LEMMA WindowShrinks ==
  ASSUME NEW a \in Slot, NEW n \in Nat, 0 < n, n < Depth, NEW page, NEW S,
         \A i \in Slot : Dist(a, i) < n => page[i] \in S
  PROVE  /\ Window(page, a, n) # <<>> /\ Head(Window(page, a, n)) = page[a]
         /\ Window(page, Succ(a), n - 1) = Tail(Window(page, a, n))
<1>1. Window(page, a, n) \in Seq(S) /\ Len(Window(page, a, n)) = n
  <2>1. \A k \in 1 .. n : page[At(a, k - 1)] \in S
    BY WindowSlots
  <2> QED  BY <2>1 DEF Window
<1>2. Window(page, a, n) # <<>>
  BY <1>1
<1>3. Head(Window(page, a, n)) = page[a]
  <2>1. Head(Window(page, a, n)) = Window(page, a, n)[1]
    BY <1>1, <1>2
  <2>2. Window(page, a, n)[1] = page[At(a, 0)]
    <3>1. 1 \in 1 .. n /\ 1 - 1 = 0
      OBVIOUS
    <3> QED  BY <3>1 DEF Window
  <2> QED  BY <2>1, <2>2, AtZero
<1>4. /\ Tail(Window(page, a, n)) \in Seq(S) /\ Len(Tail(Window(page, a, n))) = n - 1
      /\ \A k \in 1 .. n - 1 : Tail(Window(page, a, n))[k] = Window(page, a, n)[k + 1]
  BY <1>1, <1>2, HeadTailProperties
<1>5. ASSUME NEW k \in 1 .. n - 1
      PROVE  Window(page, a, n)[k + 1] = page[At(Succ(a), k - 1)]
  <2>1. k + 1 \in 1 .. n /\ (k + 1) - 1 = k /\ k \in Slot /\ k > 0
    BY DepthAssumption DEF Slot
  <2>2. Window(page, a, n)[k + 1] = page[At(a, k)]
    BY <2>1 DEF Window
  <2> QED  BY <2>1, <2>2, AtNext
<1>6. Tail(Window(page, a, n)) = [k \in 1 .. n - 1 |-> Tail(Window(page, a, n))[k]]
  <2>1. PICK s \in Seq(S) : s = Tail(Window(page, a, n)) /\ Len(s) = n - 1
    BY <1>4
  <2>2. s = [k \in 1 .. n - 1 |-> s[k]]
    <3>1. s \in [1 .. Len(s) -> S]
      BY LenProperties
    <3>2. s \in [1 .. n - 1 -> S]
      BY <2>1, <3>1
    <3> QED  BY <3>2
  <2> QED  BY <2>1, <2>2
<1> QED  BY <1>2, <1>3, <1>4, <1>5, <1>6 DEF Window

-----------------------------------------------------------------------------
(* The TX ring                                                              *)

\* Messages under way on TX: the pages from the modem's cursor to the host's.
LEMMA TxQueueIs ==
  ASSUME IInv, IInv'
  PROVE  /\ TxQueue = Window(txPage, s_rptr[TX], InFlight(TX))
         /\ TxQueue' = Window(txPage', s_rptr'[TX], InFlight(TX)')
         /\ InFlight(TX) = Dist(s_rptr[TX], s_wptr[TX])
         /\ InFlight(TX)' = Dist(s_rptr'[TX], s_wptr'[TX])
         /\ InFlight(TX) \in Nat /\ InFlight(TX) < Depth
         /\ InFlight(TX)' \in Nat /\ InFlight(TX)' < Depth
         /\ s_rptr[TX] \in Slot /\ s_wptr[TX] \in Slot
         /\ s_rptr'[TX] \in Slot /\ s_wptr'[TX] \in Slot
<1>1. /\ s_rptr[TX] \in Slot /\ s_wptr[TX] \in Slot
      /\ s_rptr'[TX] \in Slot /\ s_wptr'[TX] \in Slot
  BY DEF IInv, TypeOK, Ring
<1>2. /\ InFlight(TX) = Dist(s_rptr[TX], s_wptr[TX])
      /\ InFlight(TX)' = Dist(s_rptr'[TX], s_wptr'[TX])
  BY DEF InFlight
<1>3. /\ InFlight(TX) \in Nat /\ InFlight(TX) < Depth
      /\ InFlight(TX)' \in Nat /\ InFlight(TX)' < Depth
  BY <1>1, <1>2, DistNat
<1>4. TxQueue = Window(txPage, s_rptr[TX], InFlight(TX))
  BY <1>1, <1>3, WindowIs DEF TxQueue
<1>5. TxQueue' = Window(txPage', s_rptr'[TX], InFlight(TX)')
  BY <1>1, <1>3, WindowIs DEF TxQueue
<1> QED  BY <1>1, <1>2, <1>3, <1>4, <1>5

\* Both cursors stay and so do the pages between them: the channel stutters.
LEMMA TxStutters ==
  ASSUME IInv, IInv', s_rptr'[TX] = s_rptr[TX], s_wptr'[TX] = s_wptr[TX], taken' = taken,
         \A i \in Slot : Dist(s_rptr[TX], i) < InFlight(TX) => txPage'[i] = txPage[i]
  PROVE  UNCHANGED TxFifo!fifoVars
<1>1. InFlight(TX)' = InFlight(TX)
  BY TxQueueIs
<1>2. Window(txPage', s_rptr[TX], InFlight(TX)) = Window(txPage, s_rptr[TX], InFlight(TX))
  BY TxQueueIs, WindowSame
<1>3. TxQueue' = TxQueue
  BY <1>1, <1>2, TxQueueIs
<1> QED  BY <1>3 DEF TxFifo!fifoVars

\* Publishing the slot s_wptr points at puts its page into the channel.
LEMMA TxPuts ==
  ASSUME OneWriter, IInv, IInv', NEW w \in Writers, WritePublish(w)
  PROVE  \E m \in TxMsg : TxFifo!Put(m)
<1> DEFINE a == s_rptr[TX]  c == s_wptr[TX]  m == txPage[c]
<1>1. /\ wrSlot[w] = s_wptr[TX] /\ Succ(s_wptr[TX]) # s_rptr[TX]
      /\ txPage[s_wptr[TX]] \in TxMsg
  BY DEF IInv, WriterInv, WritePublish
<1>2. /\ s_wptr' = [s_wptr EXCEPT ![TX] = Succ(s_wptr[TX])]
      /\ UNCHANGED <<s_rptr, txPage, taken>>
  BY <1>1 DEF WritePublish, modemVars
<1>3. s_wptr'[TX] = Succ(c) /\ s_rptr'[TX] = a
  BY <1>2 DEF IInv, TypeOK, Ring
<1>4. a \in Slot /\ c \in Slot /\ seen[TX] \in Slot /\ Between(a, seen[TX], c)
  BY DEF IInv, TypeOK, Ring, TxInv
<1>5. Dist(a, Succ(c)) = Dist(a, c) + 1
  BY <1>1, <1>4, MoveLast
<1>6. InFlight(TX)' = InFlight(TX) + 1 /\ InFlight(TX) + 1 < Depth
  BY <1>3, <1>5, TxQueueIs
<1>7. At(a, InFlight(TX)) = c
  BY <1>4, AtDist, TxQueueIs
<1>8. \A i \in Slot : Dist(a, i) < InFlight(TX) => txPage[i] \in TxMsg
  BY TxQueueIs DEF IInv, TxInv
<1>9. Window(txPage, a, InFlight(TX) + 1) = Append(Window(txPage, a, InFlight(TX)), m)
  <2>1. PICK n \in Nat : n = InFlight(TX) /\ n + 1 < Depth
    BY <1>6, TxQueueIs
  <2>2. \A i \in Slot : Dist(a, i) < n => txPage[i] = txPage[i] /\ txPage[i] \in TxMsg
    BY <1>8, <2>1
  <2>3. Window(txPage, a, n + 1) = Append(Window(txPage, a, n), txPage[At(a, n)])
    BY <1>4, <2>1, <2>2, WindowGrows
  <2> QED  BY <1>7, <2>1, <2>3
<1>10. TxQueue' = Append(TxQueue, m)
  BY <1>2, <1>3, <1>6, <1>9, TxQueueIs
<1>11. Len(TxQueue) < Depth - 1
  BY <1>6, TxQueueIs, WindowIsSeq, DepthAssumption
<1> QED  BY <1>1, <1>2, <1>10, <1>11 DEF TxFifo!Put

\* What the modem fetches is the oldest message in the channel.
LEMMA TxGets ==
  ASSUME IInv, IInv', ModemTake
  PROVE  TxFifo!Get
<1> DEFINE a == s_rptr[TX]  c == s_wptr[TX]
<1>1. /\ s_rptr' = [s_rptr EXCEPT ![TX] = Succ(s_rptr[TX])] /\ s_rptr[TX] # seen[TX]
      /\ taken' = Append(taken, txPage[a])
      /\ UNCHANGED <<s_wptr, txPage>>
  BY DEF ModemTake
<1>2. s_wptr'[TX] = c /\ s_rptr'[TX] = Succ(a)
  BY <1>1 DEF IInv, TypeOK, Ring
<1>3. a \in Slot /\ c \in Slot /\ seen[TX] \in Slot /\ Between(a, seen[TX], c)
  BY DEF IInv, TypeOK, Ring, TxInv
<1>4. Dist(Succ(a), c) = Dist(a, c) - 1 /\ a # c
  BY <1>1, <1>3, MoveFirst
<1>5. InFlight(TX)' = InFlight(TX) - 1 /\ 0 < InFlight(TX)
  BY <1>2, <1>3, <1>4, DistZero, TxQueueIs
<1>6. \A i \in Slot : Dist(a, i) < InFlight(TX) => txPage[i] \in TxMsg
  BY TxQueueIs DEF IInv, TxInv
<1>7. /\ Window(txPage, a, InFlight(TX)) # <<>> /\ Head(Window(txPage, a, InFlight(TX))) = txPage[a]
      /\ Window(txPage, Succ(a), InFlight(TX) - 1) = Tail(Window(txPage, a, InFlight(TX)))
  BY <1>3, <1>5, <1>6, TxQueueIs, WindowShrinks
<1>8. TxQueue # <<>> /\ Head(TxQueue) = txPage[a] /\ TxQueue' = Tail(TxQueue)
  BY <1>1, <1>2, <1>5, <1>7, TxQueueIs
<1> QED  BY <1>1, <1>8 DEF TxFifo!Get

\* An empty ring is an empty channel.
LEMMA TxInit == Init => TxFifo!FifoInit
<1> SUFFICES ASSUME Init PROVE TxFifo!FifoInit
  OBVIOUS
<1>1. s_wptr[TX] = 0 /\ s_rptr[TX] = 0 /\ 0 \in Slot
  BY DepthAssumption DEF Init, Ring, Slot
<1>2. InFlight(TX) = 0
  BY <1>1, DistZero DEF InFlight
<1>3. TxQueue = <<>>
  BY <1>2 DEF TxQueue
<1> QED  BY <1>3 DEF TxFifo!FifoInit, Init

\* A write()'s steps short of publishing leave the channel alone: the slot it
\* copies into is not under way.
LEMMA TxWriter ==
  ASSUME OneWriter, IInv, IInv', NEW w \in Writers, Write(w)
  PROVE  [TxFifo!FifoNext]_(TxFifo!fifoVars)
<1>1. ASSUME WriteCopy(w) PROVE UNCHANGED TxFifo!fifoVars
  <2>1. txPage' = [txPage EXCEPT ![s_wptr[TX]] = Truncate(wrMsg[w])]
        /\ UNCHANGED <<s_rptr, s_wptr, taken>>
    BY <1>1 DEF WriteCopy, modemVars
  <2>2. ASSUME NEW i \in Slot, Dist(s_rptr[TX], i) < InFlight(TX) PROVE txPage'[i] = txPage[i]
    <3>1. i # s_wptr[TX]
      BY <2>2, TxQueueIs
    <3> QED  BY <2>1, <3>1 DEF IInv, TypeOK
  <2> QED  BY <2>1, <2>2, TxStutters
<1>2. ASSUME WriteRefused(w) \/ WriteCheck(w) \/ WriteDing(w) PROVE UNCHANGED TxFifo!fifoVars
  <2>1. UNCHANGED <<s_rptr, s_wptr, txPage, taken>>
    BY <1>2 DEF WriteRefused, WriteCheck, WriteDing, modemVars
  <2> QED  BY <2>1, TxStutters
<1>3. ASSUME WritePublish(w) PROVE TxFifo!FifoNext
  BY <1>3, TxPuts DEF TxFifo!FifoNext
<1> QED  BY <1>1, <1>2, <1>3 DEF Write

\* Every step of the queue pair is a step of the TX channel or leaves it alone.
LEMMA TxStep ==
  ASSUME OneWriter, IInv, IInv', [Next]_vars
  PROVE  [TxFifo!FifoNext]_(TxFifo!fifoVars)
<1>1. ASSUME NEW w \in Writers, Write(w) PROVE [TxFifo!FifoNext]_(TxFifo!fifoVars)
  BY <1>1, TxWriter
<1>2. ASSUME ModemTake PROVE TxFifo!FifoNext
  BY <1>2, TxGets DEF TxFifo!FifoNext
<1>3. ASSUME ModemFill PROVE UNCHANGED TxFifo!fifoVars
  <2>1. UNCHANGED <<s_wptr, txPage, taken>> /\ s_rptr'[TX] = s_rptr[TX]
    BY <1>3 DEF ModemFill, IInv, TypeOK, Ring, TX, RX
  <2> QED  BY <2>1, TxStutters
<1>4. ASSUME ReadPost PROVE UNCHANGED TxFifo!fifoVars
  <2>1. UNCHANGED <<s_rptr, txPage, taken>> /\ s_wptr'[TX] = s_wptr[TX]
    BY <1>4 DEF ReadPost, Advance, modemVars, IInv, TypeOK, Ring, TX, RX
  <2> QED  BY <2>1, TxStutters
<1>5. ASSUME ReadWait \/ ReadInterrupted \/ ReadCopy \/ ReadDing \/ ReadDone
      PROVE  UNCHANGED TxFifo!fifoVars
  <2>1. UNCHANGED <<s_rptr, s_wptr, txPage, taken>>
    BY <1>5 DEF ReadWait, ReadInterrupted, ReadCopy, ReadDing, ReadDone, txVars, modemVars
  <2> QED  BY <2>1, TxStutters
<1>6. ASSUME Irq0 \/ ModemBell \/ ModemCrash \/ ModemSleep \/ ModemWake \/ UNCHANGED vars
      PROVE  UNCHANGED TxFifo!fifoVars
  <2>1. UNCHANGED <<s_rptr, s_wptr, txPage, taken>>
    BY <1>6 DEF Irq0, ModemBell, ModemCrash, ModemSleep, ModemWake, vars, modemVars
  <2> QED  BY <2>1, TxStutters
<1> QED  BY <1>1, <1>2, <1>3, <1>4, <1>5, <1>6 DEF Next, Read, Modem

\* The TX ring is a bounded, lossless, in-order channel: what write()
\* published the modem fetches, each page once and as it was when published.
THEOREM TxImplementsFifo == ASSUME OneWriter PROVE Spec => TxIsFifo
<1>1. IInv /\ IInv' /\ [Next]_vars => [TxFifo!FifoNext]_(TxFifo!fifoVars)
  BY TxStep
<1> QED  BY <1>1, TxInit, Inductive, PTL DEF Spec, TxIsFifo, TxFifo!FifoSpec

-----------------------------------------------------------------------------
(* The RX ring                                                              *)

\* Messages under way on RX: the pages from the reader's cursor to the modem's.
LEMMA RxQueueIs ==
  ASSUME IInv, IInv'
  PROVE  LET n == Dist(Handled, s_rptr[RX]) IN
         /\ RxQueue = Window(rxPage, Handled, n)
         /\ RxQueue' = Window(rxPage', Handled', n')
         /\ n \in Nat /\ n < Depth /\ n' \in Nat /\ n' < Depth
         /\ s_rptr[RX] \in Slot /\ s_rptr'[RX] \in Slot
         /\ Handled \in Slot /\ Handled' \in Slot
<1> DEFINE n == Dist(Handled, s_rptr[RX])
<1>1. s_rptr[RX] \in Slot /\ Handled \in Slot
  BY Cursors DEF IInv, Ring
<1>2. s_rptr'[RX] \in Slot /\ last_handled' \in Slot /\ rdIdx' \in Slot
  BY DEF IInv, TypeOK, Ring
<1>3. Handled' \in Slot
  BY <1>2, SuccIs DEF Handled
<1>4. n \in Nat /\ n < Depth /\ n' \in Nat /\ n' < Depth
  BY <1>1, <1>2, <1>3, DistNat
<1>5. RxQueue = Window(rxPage, Handled, n)
  BY <1>1, <1>4, WindowIs DEF RxQueue
<1>6. RxQueue' = Window(rxPage', Handled', n')
  BY <1>2, <1>3, <1>4, WindowIs DEF RxQueue
<1> QED  BY <1>1, <1>2, <1>3, <1>4, <1>5, <1>6

\* Both cursors stay and so do the pages between them: the channel stutters.
LEMMA RxStutters ==
  ASSUME IInv, IInv', s_rptr'[RX] = s_rptr[RX], Handled' = Handled, delivered' = delivered,
         \A i \in Slot : Dist(Handled, i) < Dist(Handled, s_rptr[RX]) => rxPage'[i] = rxPage[i]
  PROVE  UNCHANGED RxFifo!fifoVars
<1> PICK n \in Nat : n = Dist(Handled, s_rptr[RX]) /\ n < Depth
  BY RxQueueIs
<1>1. RxQueue = Window(rxPage, Handled, n) /\ RxQueue' = Window(rxPage', Handled, n)
  BY RxQueueIs
<1>2. Window(rxPage', Handled, n) = Window(rxPage, Handled, n)
  BY RxQueueIs, WindowSame
<1> QED  BY <1>1, <1>2 DEF RxFifo!fifoVars

\* The page the modem fills is the next one of the channel.
LEMMA RxPuts ==
  ASSUME IInv, IInv', ModemFill
  PROVE  \E m \in RxMsg : RxFifo!Put(m)
<1> DEFINE h == Handled  r == s_rptr[RX]
<1>1. /\ s_rptr' = [s_rptr EXCEPT ![RX] = Succ(s_rptr[RX])]
      /\ rxPage' = [rxPage EXCEPT ![s_rptr[RX]] = filled + 1]
      /\ s_rptr[RX] # seen[RX] /\ Handled' = Handled /\ UNCHANGED delivered
  BY DEF ModemFill, rdVars, Handled
<1>2. filled + 1 \in RxMsg
  BY BoundAssumption DEF IInv, TypeOK, ModemFill, RxMsg
<1>3. /\ r \in Slot /\ h \in Slot /\ s_wptr[RX] \in Slot /\ seen[RX] \in Slot
      /\ Between(r, seen[RX], s_wptr[RX]) /\ Between(h, r, s_wptr[RX])
  BY Cursors DEF IInv, RxInv, Ring
<1>4. s_rptr'[RX] = Succ(r) /\ rxPage'[r] = filled + 1
  BY <1>1, <1>3 DEF IInv, TypeOK, Ring
<1>5. r # s_wptr[RX]
  BY <1>1, <1>3, MoveFirst
<1>6. Dist(h, Succ(r)) = Dist(h, r) + 1
  BY <1>3, <1>5, MoveMiddle
<1>7. PICK n \in Nat : n = Dist(h, r) /\ n + 1 < Depth /\ n + 1 = Dist(Handled', s_rptr'[RX])
  BY <1>1, <1>4, <1>6, RxQueueIs
<1>8. \A i \in Slot : Dist(h, i) < n => rxPage'[i] = rxPage[i] /\ rxPage[i] \in RxMsg
  <2>1. SUFFICES ASSUME NEW i \in Slot, Dist(h, i) < n
                 PROVE  rxPage'[i] = rxPage[i] /\ rxPage[i] \in RxMsg
    OBVIOUS
  <2>2. i # r /\ rxPage[i] \in RxMsg
    BY <1>7, <2>1 DEF IInv, RxInv
  <2> QED  BY <1>1, <2>2 DEF IInv, TypeOK
<1>9. Window(rxPage', h, n + 1) = Append(Window(rxPage, h, n), rxPage'[At(h, n)])
  <2>1. n \in Nat /\ n + 1 < Depth /\ Handled \in Slot
    BY <1>3, <1>7
  <2>2. \A i \in Slot : Dist(Handled, i) < n => rxPage'[i] = rxPage[i] /\ rxPage[i] \in RxMsg
    BY <1>8
  <2> HIDE DEF h, r
  <2>3. Window(rxPage', Handled, n + 1) = Append(Window(rxPage, Handled, n), rxPage'[At(Handled, n)])
    BY <2>1, <2>2, WindowGrows
  <2> QED  BY <2>3 DEF h
<1>10. At(h, n) = r
  BY <1>3, <1>7, AtDist
<1>11. RxQueue = Window(rxPage, h, n) /\ RxQueue' = Window(rxPage', h, n + 1)
  BY <1>1, <1>7, RxQueueIs
<1>12. RxQueue' = Append(RxQueue, filled + 1)
  BY <1>4, <1>9, <1>10, <1>11
<1>13. Len(RxQueue) < Depth - 1
  BY <1>7, <1>11, WindowIsSeq, DepthAssumption
<1> QED  BY <1>1, <1>2, <1>12, <1>13 DEF RxFifo!Put

\* What a read() copies is the oldest message in the channel.
LEMMA RxGets ==
  ASSUME IInv, IInv', ReadCopy
  PROVE  RxFifo!Get
<1> DEFINE h == Handled  r == s_rptr[RX]
<1>1. /\ Handled = rdIdx /\ Handled' = Succ(rdIdx) /\ r # h
      /\ delivered' = Append(delivered, rxPage[rdIdx])
      /\ UNCHANGED <<s_rptr, rxPage>>
  BY DEF ReadCopy, Handled, IInv, RxInv
<1>2. r \in Slot /\ h \in Slot
  BY RxQueueIs
<1>3. Dist(Succ(h), r) = Dist(h, r) - 1 /\ Dist(h, r) > 0
  BY <1>1, <1>2, DistNext, DistZero
<1>4. PICK n \in Nat : n = Dist(h, r) /\ n < Depth /\ 0 < n
  BY <1>3, RxQueueIs
<1>5. \A i \in Slot : Dist(h, i) < n => rxPage[i] \in RxMsg
  BY <1>4 DEF IInv, RxInv
<1>6. /\ Window(rxPage, h, n) # <<>> /\ Head(Window(rxPage, h, n)) = rxPage[h]
      /\ Window(rxPage, Succ(h), n - 1) = Tail(Window(rxPage, h, n))
  BY <1>2, <1>4, <1>5, WindowShrinks
<1>7. RxQueue = Window(rxPage, h, n) /\ RxQueue' = Window(rxPage, Succ(h), n - 1)
  BY <1>1, <1>3, <1>4, RxQueueIs
<1> QED  BY <1>1, <1>6, <1>7 DEF RxFifo!Get

\* Before the first message the channel is empty, though every page is posted.
LEMMA RxInit == Init => RxFifo!FifoInit
<1> SUFFICES ASSUME Init PROVE RxFifo!FifoInit
  OBVIOUS
<1>1. Handled = 0 /\ s_rptr[RX] = 0 /\ 0 \in Slot
  BY DepthAssumption DEF Init, Handled, Ring, Slot
<1>2. Dist(Handled, s_rptr[RX]) = 0
  BY <1>1, DistZero
<1>3. RxQueue = <<>>
  BY <1>2 DEF RxQueue
<1> QED  BY <1>3 DEF RxFifo!FifoInit, Init

\* The page a reader posts back is s_wptr's, behind all that wait to be read.
LEMMA PostedIsBehind ==
  ASSUME IInv, NEW i \in Slot, Dist(Handled, i) < Dist(Handled, s_rptr[RX])
  PROVE  i # s_wptr[RX]
<1>1. s_rptr[RX] \in Slot /\ s_wptr[RX] \in Slot /\ Handled \in Slot
  BY Cursors DEF IInv, Ring
<1>2. Dist(Handled, s_rptr[RX]) + Dist(s_rptr[RX], s_wptr[RX]) = Dist(Handled, s_wptr[RX])
  BY DEF IInv, RxInv, Between
<1>3. Dist(Handled, s_rptr[RX]) \in Nat /\ Dist(s_rptr[RX], s_wptr[RX]) \in Nat
  BY <1>1, DistNat
<1> QED  BY <1>2, <1>3

\* The reader's other steps leave the channel alone.
LEMMA RxReader ==
  ASSUME IInv, IInv', Read
  PROVE  [RxFifo!FifoNext]_(RxFifo!fifoVars)
<1>1. ASSUME ReadCopy PROVE RxFifo!FifoNext
  BY <1>1, RxGets DEF RxFifo!FifoNext
<1>2. ASSUME ReadPost PROVE UNCHANGED RxFifo!fifoVars
  <2>1. rdPc' # "dead"
    BY DEF IInv, RxInv
  <2>2. /\ UNCHANGED <<s_rptr, delivered>> /\ Handled' = Handled
        /\ rxPage' = [rxPage EXCEPT ![s_wptr[RX]] = None]
    BY <1>2, <2>1 DEF ReadPost, Handled
  <2>3. \A i \in Slot : Dist(Handled, i) < Dist(Handled, s_rptr[RX]) => rxPage'[i] = rxPage[i]
    BY <2>2, PostedIsBehind DEF IInv, TypeOK
  <2> QED  BY <2>2, <2>3, RxStutters
<1>3. ASSUME ReadWait \/ ReadInterrupted PROVE UNCHANGED RxFifo!fifoVars
  <2>1. UNCHANGED <<s_rptr, rxPage, delivered>> /\ Handled' = Handled
    BY <1>3 DEF ReadWait, ReadInterrupted, Handled
  <2> QED  BY <2>1, RxStutters
<1>4. ASSUME ReadDing \/ ReadDone PROVE UNCHANGED RxFifo!fifoVars
  <2>1. UNCHANGED <<s_rptr, rxPage, delivered>> /\ Handled' = Handled
    BY <1>4 DEF ReadDing, ReadDone, Handled
  <2> QED  BY <2>1, RxStutters
<1> QED  BY <1>1, <1>2, <1>3, <1>4 DEF Read

\* Every step of the queue pair is a step of the RX channel or leaves it alone.
LEMMA RxStep ==
  ASSUME IInv, IInv', [Next]_vars
  PROVE  [RxFifo!FifoNext]_(RxFifo!fifoVars)
<1>1. ASSUME NEW w \in Writers, Write(w) PROVE UNCHANGED RxFifo!fifoVars
  <2>1. /\ UNCHANGED <<s_rptr, rxPage, delivered, rdPc, rdIdx, last_handled>>
    BY <1>1 DEF Write, WriteRefused, WriteCheck, WriteCopy, WritePublish, WriteDing, rdVars
  <2> QED  BY <2>1, RxStutters DEF Handled
<1>2. ASSUME ModemFill PROVE RxFifo!FifoNext
  BY <1>2, RxPuts DEF RxFifo!FifoNext
<1>3. ASSUME ModemTake PROVE UNCHANGED RxFifo!fifoVars
  <2>1. UNCHANGED <<rxPage, delivered, rdPc, rdIdx, last_handled>> /\ s_rptr'[RX] = s_rptr[RX]
    BY <1>3 DEF ModemTake, rdVars, IInv, TypeOK, Ring, TX, RX
  <2> QED  BY <2>1, RxStutters DEF Handled
<1>4. ASSUME ModemBell \/ ModemCrash \/ ModemSleep \/ ModemWake \/ UNCHANGED vars
      PROVE  UNCHANGED RxFifo!fifoVars
  <2>1. UNCHANGED <<s_rptr, rxPage, delivered, rdPc, rdIdx, last_handled>>
    BY <1>4 DEF ModemBell, ModemCrash, ModemSleep, ModemWake, vars, rdVars
  <2> QED  BY <2>1, RxStutters DEF Handled
<1>5. ASSUME Irq0 PROVE UNCHANGED RxFifo!fifoVars
  <2>1. UNCHANGED <<s_rptr, rxPage, delivered>> /\ Handled' = Handled
    BY <1>5 DEF Irq0, Handled
  <2> QED  BY <2>1, RxStutters
<1> QED  BY <1>1, <1>2, <1>3, <1>4, <1>5, RxReader DEF Next, Modem

\* The RX ring is a bounded, lossless, in-order channel: what the modem sent
\* the reader gets, each buffer once, through any mix of sleeping,
\* interrupted and completed read() calls.
THEOREM RxImplementsFifo == ASSUME OneWriter PROVE Spec => RxIsFifo
<1>1. IInv /\ IInv' /\ [Next]_vars => [RxFifo!FifoNext]_(RxFifo!fifoVars)
  BY RxStep
<1> QED  BY <1>1, RxInit, Inductive, PTL DEF Spec, RxIsFifo, RxFifo!FifoSpec

-----------------------------------------------------------------------------
(* Pages under way are not touched                                          *)

\* No step writes a page the modem owns on TX: write() fills the one at
\* s_wptr, which is not among them.
LEMMA TxPagesKept ==
  ASSUME OneWriter, IInv, [Next]_vars, NEW i \in Owned(TX)
  PROVE  txPage'[i] = txPage[i]
<1>1. i \in Slot /\ i # s_wptr[TX]
  <2>1. TX \in Ring /\ s_rptr[TX] \in Slot /\ s_wptr[TX] \in Slot
    BY DEF IInv, TypeOK, Ring
  <2>2. i \in Slot /\ Dist(s_rptr[TX], i) < Dist(s_rptr[TX], s_wptr[TX])
    BY <2>1, OwnedIs
  <2>3. Dist(s_rptr[TX], s_wptr[TX]) \in Nat
    BY <2>1, DistNat
  <2> QED  BY <2>2, <2>3
<1>2. ASSUME NEW w \in Writers, Write(w) PROVE txPage'[i] = txPage[i]
  <2>1. CASE WriteCopy(w)
    BY <1>1, <2>1 DEF WriteCopy, IInv, TypeOK
  <2>2. CASE WriteRefused(w) \/ WriteCheck(w) \/ WritePublish(w) \/ WriteDing(w)
    BY <2>2 DEF WriteRefused, WriteCheck, WritePublish, WriteDing
  <2> QED  BY <1>2, <2>1, <2>2 DEF Write
<1>3. ASSUME Read \/ Irq0 \/ Modem \/ UNCHANGED vars PROVE txPage'[i] = txPage[i]
  BY <1>3 DEF Read, ReadWait, ReadInterrupted, ReadCopy, ReadPost, ReadDing, ReadDone, txVars,
     Irq0, Modem, ModemBell, ModemTake, ModemFill, ModemCrash, ModemSleep, ModemWake, vars
<1> QED  BY <1>2, <1>3 DEF Next

\* No step writes a page that waits to be read on RX: the reader posts the
\* one at s_wptr, the modem fills the one at s_rptr.
LEMMA RxPagesKept ==
  ASSUME IInv, [Next]_vars, NEW i \in Unhandled
  PROVE  rxPage'[i] = rxPage[i]
<1>1. s_rptr[RX] \in Slot /\ Handled \in Slot
  BY Cursors DEF IInv, Ring
<1>2. i \in Slot /\ Dist(Handled, i) < Dist(Handled, s_rptr[RX])
  BY <1>1, UnhandledIs
<1>3. i # s_wptr[RX]
  BY <1>2, PostedIsBehind
<1>4. i # s_rptr[RX]
  <2>1. Dist(Handled, s_rptr[RX]) \in Nat
    BY <1>1, DistNat
  <2> QED  BY <1>2, <2>1
<1>5. CASE ReadPost
  BY <1>2, <1>3, <1>5 DEF ReadPost, IInv, TypeOK
<1>6. CASE ModemFill
  BY <1>2, <1>4, <1>6 DEF ModemFill, IInv, TypeOK
<1>7. CASE \E w \in Writers : Write(w)
  BY <1>7 DEF Write, WriteRefused, WriteCheck, WriteCopy, WritePublish, WriteDing
<1>8. CASE ReadWait \/ ReadInterrupted \/ ReadCopy \/ ReadDing \/ ReadDone
  BY <1>8 DEF ReadWait, ReadInterrupted, ReadCopy, ReadDing, ReadDone
<1>9. CASE Irq0 \/ ModemBell \/ ModemTake \/ ModemCrash \/ ModemSleep \/ ModemWake \/ UNCHANGED vars
  BY <1>9 DEF Irq0, ModemBell, ModemTake, ModemCrash, ModemSleep, ModemWake, vars
<1> QED  BY <1>5, <1>6, <1>7, <1>8, <1>9 DEF Next, Read, Modem

\* A published page keeps what write() put into it until the modem has
\* fetched it, and a filled one until a read() has returned it.
THEOREM PagesStable == ASSUME OneWriter PROVE Spec => PublishedPagesStable
<1>1. IInv /\ [Next]_vars =>
        [/\ \A i \in Owned(TX) \cap Owned(TX)' : txPage'[i] = txPage[i]
         /\ \A i \in Unhandled \cap Unhandled' : rxPage'[i] = rxPage[i]]_vars
  BY TxPagesKept, RxPagesKept
<1> QED  BY <1>1, Inductive, PTL DEF Spec, PublishedPagesStable

-----------------------------------------------------------------------------
(* Wake-ups and doorbells, with any number of writers                       *)

\* A reader falls asleep only when there is nothing to read, and whatever
\* the modem does to s_rptr comes with an interrupt.
LEMMA WakeupStep ==
  ASSUME NoLostWakeup, [Next]_vars
  PROVE  NoLostWakeup'
<1>1. CASE \E w \in Writers : Write(w)
  BY <1>1 DEF NoLostWakeup, qp_has_data, Write, WriteRefused, WriteCheck, WriteCopy, WritePublish,
     WriteDing, rdVars
<1>2. CASE ReadWait
  BY <1>2 DEF NoLostWakeup, qp_has_data, ReadWait
<1>3. CASE ReadInterrupted \/ ReadCopy \/ ReadPost \/ ReadDing \/ ReadDone \/ Irq0
  BY <1>3 DEF NoLostWakeup, ReadInterrupted, ReadCopy, ReadPost, ReadDing, ReadDone, Irq0
<1>4. CASE ModemTake \/ ModemFill
  BY <1>4 DEF NoLostWakeup, ModemTake, ModemFill
<1>5. CASE ModemBell \/ ModemSleep \/ ModemWake \/ UNCHANGED vars
  BY <1>5 DEF NoLostWakeup, qp_has_data, ModemBell, ModemSleep, ModemWake, vars, rdVars
<1>6. CASE ModemCrash
  <2>1. UNCHANGED <<s_rptr, rdPc, last_handled>> /\ (irq' = irq \/ irq' = TRUE)
    BY <1>6 DEF ModemCrash, rdVars
  <2> QED  BY <2>1, Zenon DEF NoLostWakeup, qp_has_data
<1> QED  BY <1>1, <1>2, <1>3, <1>4, <1>5, <1>6 DEF Next, Read, Modem

\* cdev_read never sleeps through data that has come: an interrupt that will
\* wake it is pending.
THEOREM WakeupKept == Spec => []NoLostWakeup
<1>1. Init => NoLostWakeup
  BY DEF Init, NoLostWakeup
<1>2. NoLostWakeup /\ [Next]_vars => NoLostWakeup'
  BY WakeupStep
<1> QED  BY <1>1, <1>2, PTL DEF Spec

\* Every writer is somewhere in cdev_write.
WriterPcs == wrPc \in [Writers -> {"idle", "copy", "publish", "ding", "dead"}]

\* What the doorbell's theorem says, in two parts: a s_wptr that has moved is
\* rung for, and a bell is not slept through.
RungFor ==
  seen # s_wptr /\ alive => bell \/ rdPc = "ding" \/ \E w \in Writers : wrPc[w] = "ding"
NotSleptThrough == asleep /\ bell => wakeup

\* Whoever moves s_wptr goes on to ring.
LEMMA RungForStep ==
  ASSUME WriterPcs, RungFor, [Next]_vars
  PROVE  WriterPcs' /\ RungFor'
<1>1. ASSUME NEW w \in Writers, WritePublish(w) PROVE WriterPcs' /\ RungFor'
  BY <1>1 DEF WriterPcs, RungFor, WritePublish, rdVars, modemVars
<1>2. ASSUME NEW w \in Writers, WriteDing(w) PROVE WriterPcs' /\ RungFor'
  BY <1>2 DEF WriterPcs, RungFor, WriteDing, ding
<1>3. ASSUME NEW w \in Writers, WriteRefused(w) \/ WriteCheck(w) \/ WriteCopy(w)
      PROVE  WriterPcs' /\ RungFor'
  BY <1>3 DEF WriterPcs, RungFor, WriteRefused, WriteCheck, WriteCopy, rdVars, modemVars
<1>4. ASSUME Read PROVE WriterPcs' /\ RungFor'
  BY <1>4 DEF WriterPcs, RungFor, Read, ReadWait, ReadInterrupted, ReadCopy, ReadPost,
     ReadDing, ReadDone, ding, Advance, txVars, modemVars
<1>5. ASSUME ModemBell \/ ModemCrash PROVE WriterPcs' /\ RungFor'
  BY <1>5 DEF WriterPcs, RungFor, ModemBell, ModemCrash, txVars
<1>6. ASSUME Irq0 \/ ModemTake \/ ModemFill \/ ModemSleep \/ ModemWake \/ UNCHANGED vars
      PROVE  WriterPcs' /\ RungFor'
  <2>1. UNCHANGED <<s_wptr, seen, alive, bell, wrPc>> /\ (rdPc = "ding" => rdPc' = "ding")
    BY <1>6 DEF Irq0, ModemTake, ModemFill, ModemSleep, ModemWake, vars, txVars, rdVars, modemVars
  <2> QED  BY <2>1, Zenon DEF WriterPcs, RungFor
<1> QED  BY <1>1, <1>2, <1>3, <1>4, <1>5, <1>6 DEF Next, Write, Modem

\* Whoever rings for a modem that is asleep wakes it too, and the modem does
\* not fall asleep while its bell is ringing.
LEMMA NotSleptThroughStep ==
  ASSUME NotSleptThrough, [Next]_vars
  PROVE  NotSleptThrough'
<1>1. ASSUME UNCHANGED asleep, ding PROVE NotSleptThrough'
  BY <1>1, Zenon DEF NotSleptThrough, ding
<1>2. ASSUME UNCHANGED <<asleep, bell, wakeup>> PROVE NotSleptThrough'
  BY <1>2, Zenon DEF NotSleptThrough
<1>3. ASSUME NEW w \in Writers, Write(w) PROVE NotSleptThrough'
  BY <1>1, <1>2, <1>3 DEF Write, WriteRefused, WriteCheck, WriteCopy, WritePublish, WriteDing,
     modemVars
<1>4. ASSUME Read PROVE NotSleptThrough'
  BY <1>1, <1>2, <1>4 DEF Read, ReadWait, ReadInterrupted, ReadCopy, ReadPost, ReadDing,
     ReadDone, modemVars
<1>5. ASSUME ModemBell \/ ModemSleep \/ ModemWake PROVE NotSleptThrough'
  BY <1>5 DEF NotSleptThrough, ModemBell, ModemSleep, ModemWake
<1>6. ASSUME Irq0 \/ ModemTake \/ ModemFill \/ ModemCrash \/ UNCHANGED vars
      PROVE  NotSleptThrough'
  BY <1>2, <1>6 DEF Irq0, ModemTake, ModemFill, ModemCrash, vars, modemVars
<1> QED  BY <1>3, <1>4, <1>5, <1>6 DEF Next, Modem

\* When the modem has not seen the latest s_wptr the bell is ringing or will
\* be rung, and a modem that is asleep while it rings has been told to wake
\* up, however many threads write and read at once.
THEOREM DoorbellKept == Spec => []NoLostDoorbell
<1>1. Init => WriterPcs /\ RungFor
  BY DEF Init, WriterPcs, RungFor
<1>2. Init => NotSleptThrough
  BY DEF Init, NotSleptThrough
<1>3. (WriterPcs /\ RungFor) /\ [Next]_vars => (WriterPcs /\ RungFor)'
  BY RungForStep
<1>4. NotSleptThrough /\ [Next]_vars => NotSleptThrough'
  BY NotSleptThroughStep
<1>5. RungFor /\ NotSleptThrough => NoLostDoorbell
  BY DEF RungFor, NotSleptThrough, NoLostDoorbell
<1> QED  BY <1>1, <1>2, <1>3, <1>4, <1>5, PTL DEF Spec
=============================================================================
