------------------------------- MODULE TdRing -------------------------------
(***************************************************************************)
(* One open queue pair of the XMM7360 driver: the TX and the RX ring of    *)
(* transfer descriptors, the character device's write and read, the        *)
(* interrupt handler's wake-up of the reader, and the modem at the other   *)
(* end of the DMA rings.                                                   *)
(*                                                                         *)
(* s_wptr and s_rptr live in the control page both sides read: the host    *)
(* advances s_wptr, the modem s_rptr.  On the TX ring the host publishes   *)
(* filled pages; on the RX ring it publishes EMPTY pages, the modem fills  *)
(* them, and last_handled is the host's private cursor behind s_rptr.      *)
(* Steps are split where another context can see the difference: between   *)
(* the check for room, the copy, the new s_wptr and the doorbell.          *)
(*                                                                         *)
(* The modem is external; it is the weakest peer the driver relies on: it  *)
(* looks at s_wptr only when its doorbell has rung, transfers one buffer   *)
(* at a time in ring order, and interrupts after each one.  With nothing   *)
(* left to fetch it may fall asleep, and asleep it hears no doorbell: only *)
(* BAR0_WAKEUP is certain to wake it.  It may crash at any moment; the     *)
(* host learns of it only in xmm7360_poll.                                 *)
(***************************************************************************)
EXTENDS Integers, Sequences, FiniteSets

CONSTANTS Depth,     \* qp->depth: 8 (tty), 16 (cdev) or 128 (net)
          PageSize,  \* qp->page_size
          Sizes,     \* sizes of the buffers handed to write()
          Writers,   \* threads that hold the file open for writing
          None,      \* a page that holds no message
          MaxTx,     \* bound: write() calls that find no error
          MaxRx      \* bound: buffers the modem sends

\* td_ring_create insists on a power of two; one slot always stays empty.
ASSUME DepthAssumption == Depth \in Nat /\ Depth >= 2
ASSUME SizeAssumption  == PageSize \in Nat \ {0} /\ Sizes \subseteq Nat \ {0}
ASSUME BoundAssumption == MaxTx \in Nat /\ MaxRx \in Nat

TX == "tx"   \* ring 2 * num
RX == "rx"   \* ring 2 * num + 1
Ring == {TX, RX}
Slot == 0 .. Depth - 1
TxMsg == [id : 1 .. MaxTx, len : Sizes \cup {PageSize}]  \* what write() was given
RxMsg == 1 .. MaxRx                          \* the modem's buffers, numbered

VARIABLES s_wptr, s_rptr, \* control page: one cursor per ring
          txPage, rxPage, \* tds[] and pages[] of each ring
          last_handled,   \* RX: next slot to hand to a reader
          error,          \* xmm->error is -ENODEV
          alive,          \* modem: its status words are the good ones
          asleep,         \* modem: status.asleep
          bell,           \* modem: DOORBELL_TD rung and not yet served
          wakeup,         \* modem: BAR0_WAKEUP written and not yet obeyed
          seen,           \* modem: s_wptr as of the last doorbell
          irq,            \* an interrupt is pending
          wrPc, wrMsg, wrSlot,  \* each writer inside cdev_write
          rdPc, rdIdx,    \* the reader inside cdev_read
          calls,          \* history: number of write() calls so far
          sent,           \* history: published on TX, in order
          taken,          \* history: fetched by the modem from TX
          filled,         \* history: number of buffers the modem sent
          delivered,      \* history: copied to the reader
          bugOn           \* history: BUG_ONs that fired

txVars == <<wrPc, wrMsg, wrSlot, calls, sent>>
rdVars == <<last_handled, rdPc, rdIdx, delivered>>
modemVars == <<alive, asleep, seen, taken, filled>>
vars == <<s_wptr, s_rptr, txPage, rxPage, error, bell, wakeup, irq, bugOn,
          txVars, rdVars, modemVars>>
-----------------------------------------------------------------------------
\* (Operators named X_Y, with Y saying what is wrong, are not part of the
\* model: each is a plausible mistake in X that a property must notice.)
Succ_NoWrap(i) == i + 1
Succ(i) == (i + 1) % Depth               \* (i + 1) & (ring->depth - 1)
Dist(i, j) == (j - i + Depth) % Depth    \* steps from slot i to slot j

\* Slots the modem owns, oldest first, and slots it has filled on RX that no
\* read() has returned yet.
InFlight(r) == Dist(s_rptr[r], s_wptr[r])
Owned(r) == {(s_rptr[r] + k) % Depth : k \in 0 .. InFlight(r) - 1}
\* read() hands a page over when it copies it; last_handled follows later,
\* when the next empty page is posted.  Between the two, s_rptr can catch up
\* with last_handled although every slot is waiting to be read.
Handled == IF rdPc \in {"post", "ding", "done"} THEN Succ(rdIdx) ELSE last_handled
Unhandled == {(Handled + k) % Depth : k \in 0 .. Dist(Handled, s_rptr[RX]) - 1}

td_ring_full(r) == Succ(s_wptr[r]) = s_rptr[r]
qp_can_write_Unchecked == TRUE
qp_can_write == ~td_ring_full(TX)
qp_has_data_OffByOne == s_rptr[RX] # Succ(last_handled)
qp_has_data == s_rptr[RX] # last_handled

\* xmm7360_poll: the only place where a dead modem becomes xmm->error.
poll == error' = (error \/ ~alive)
ding_NoWakeup == bell' = TRUE /\ UNCHANGED wakeup /\ poll
\* xmm7360_ding: wake the modem if it says that it is asleep, ring, poll.
ding == wakeup' = (wakeup \/ asleep) /\ bell' = TRUE /\ poll

\* The tail of td_ring_write and td_ring_read: BUG_ON(wptr == s_rptr), else
\* publish the slot.
Advance(r) ==
  IF td_ring_full(r)
    THEN bugOn' = bugOn \cup {r} /\ UNCHANGED s_wptr
    ELSE s_wptr' = [s_wptr EXCEPT ![r] = Succ(@)] /\ UNCHANGED bugOn

\* After a successful qp_start: TX empty, RX filled until td_ring_full, bell.
Init ==
  /\ s_wptr = [r \in Ring |-> IF r = TX THEN 0 ELSE Depth - 1]
  /\ s_rptr = [r \in Ring |-> 0]
  /\ txPage = [i \in Slot |-> None] /\ rxPage = [i \in Slot |-> None]
  /\ last_handled = 0
  /\ error = FALSE /\ alive = TRUE
  /\ asleep \in BOOLEAN /\ wakeup = asleep /\ bell = TRUE /\ irq = FALSE
  /\ seen = [r \in Ring |-> 0]
  /\ wrPc = [w \in Writers |-> "idle"]
  /\ wrMsg = [w \in Writers |-> None]
  /\ wrSlot = [w \in Writers |-> 0]
  /\ rdPc = "idle" /\ rdIdx = 0
  /\ calls = 0 /\ sent = << >> /\ taken = << >> /\ filled = 0
  /\ delivered = << >> /\ bugOn = {}
-----------------------------------------------------------------------------
(* xmm7360_cdev_write -> qp_write_user -> qp_write -> td_ring_write -> ding *)

\* The next write() call: messages are numbered in the order of the calls.
NextMsg == {[id |-> calls + 1, len |-> n] : n \in Sizes}
Truncate(m) == IF m.len > PageSize THEN [m EXCEPT !.len = PageSize] ELSE m

\* qp_write finds the ring full and returns 0, which cdev_write turns into
\* size.  (When it finds xmm->error, write() fails and changes nothing.)
WriteRefused(w) ==
  /\ wrPc[w] = "idle"
  /\ ~error /\ ~qp_can_write
  /\ calls < MaxTx
  /\ calls' = calls + 1
  /\ UNCHANGED <<s_wptr, s_rptr, txPage, rxPage, error, bell, wakeup, irq, bugOn,
                 wrPc, wrMsg, wrSlot, sent, rdVars, modemVars>>

\* qp_write passes both checks.
WriteCheck(w) ==
  /\ wrPc[w] = "idle"
  /\ ~error /\ qp_can_write
  /\ calls < MaxTx
  /\ calls' = calls + 1
  /\ \E m \in NextMsg : wrMsg' = [wrMsg EXCEPT ![w] = m]
  /\ wrPc' = [wrPc EXCEPT ![w] = "copy"]
  /\ UNCHANGED <<s_wptr, s_rptr, txPage, rxPage, error, bell, wakeup, irq, bugOn,
                 wrSlot, sent, rdVars, modemVars>>

WriteCopy_LastSlot(w) ==
  /\ wrPc[w] = "copy"
  /\ txPage' = [txPage EXCEPT ![(s_wptr[TX] + Depth - 1) % Depth] = Truncate(wrMsg[w])]
  /\ wrSlot' = [wrSlot EXCEPT ![w] = s_wptr[TX]]
  /\ wrPc' = [wrPc EXCEPT ![w] = "publish"]
  /\ UNCHANGED <<s_wptr, s_rptr, rxPage, error, bell, wakeup, irq, bugOn,
                 wrMsg, calls, sent, rdVars, modemVars>>

\* td_ring_write reads s_wptr and copies at most page_size bytes.
WriteCopy(w) ==
  /\ wrPc[w] = "copy"
  /\ txPage' = [txPage EXCEPT ![s_wptr[TX]] = Truncate(wrMsg[w])]
  /\ wrSlot' = [wrSlot EXCEPT ![w] = s_wptr[TX]]
  /\ wrPc' = [wrPc EXCEPT ![w] = "publish"]
  /\ UNCHANGED <<s_wptr, s_rptr, rxPage, error, bell, wakeup, irq, bugOn,
                 wrMsg, calls, sent, rdVars, modemVars>>

\* td_ring_write's end, from the s_wptr it read before the copy.
WritePublish(w) ==
  /\ wrPc[w] = "publish"
  /\ IF Succ(wrSlot[w]) = s_rptr[TX]
       THEN /\ bugOn' = bugOn \cup {TX}
            /\ wrPc' = [wrPc EXCEPT ![w] = "dead"]
            /\ UNCHANGED <<s_wptr, sent>>
       ELSE /\ s_wptr' = [s_wptr EXCEPT ![TX] = Succ(wrSlot[w])]
            /\ sent' = Append(sent, Truncate(wrMsg[w]))
            /\ wrPc' = [wrPc EXCEPT ![w] = "ding"]
            /\ UNCHANGED bugOn
  /\ UNCHANGED <<s_rptr, txPage, rxPage, error, bell, wakeup, irq, wrMsg, wrSlot, calls,
                 rdVars, modemVars>>

\* qp_write rings; cdev_write returns size, whatever was written.
WriteDing(w) ==
  /\ wrPc[w] = "ding"
  /\ ding
  /\ wrPc' = [wrPc EXCEPT ![w] = "idle"]
  /\ UNCHANGED <<s_wptr, s_rptr, txPage, rxPage, irq, bugOn, wrMsg, wrSlot, calls, sent,
                 rdVars, modemVars>>
-----------------------------------------------------------------------------
(* xmm7360_cdev_read                                                       *)

\* wait_event_interruptible evaluates its condition after it has queued the
\* reader on qp->wq: no wake-up falls in between.
ReadWait ==
  /\ rdPc \in {"idle", "woken"}
  /\ rdPc' = IF error THEN "idle"            \* read() returns xmm->error
             ELSE IF qp_has_data THEN "copy" ELSE "asleep"
  /\ rdIdx' = IF qp_has_data /\ ~error THEN last_handled ELSE rdIdx
  /\ UNCHANGED <<s_wptr, s_rptr, txPage, rxPage, error, bell, wakeup, irq, bugOn, txVars,
                 last_handled, delivered, modemVars>>

\* A signal ends the wait: -ERESTARTSYS.
ReadInterrupted ==
  /\ rdPc = "asleep"
  /\ rdPc' = "idle"
  /\ UNCHANGED <<s_wptr, s_rptr, txPage, rxPage, error, bell, wakeup, irq, bugOn, txVars,
                 last_handled, rdIdx, delivered, modemVars>>

\* copy_to_user from the page at idx.
ReadCopy ==
  /\ rdPc = "copy"
  /\ delivered' = Append(delivered, rxPage[rdIdx])
  /\ rdPc' = "post"
  /\ UNCHANGED <<s_wptr, s_rptr, txPage, rxPage, error, bell, wakeup, irq, bugOn, txVars,
                 last_handled, rdIdx, modemVars>>

\* td_ring_read: give the modem one more empty page, at s_wptr.
ReadPost ==
  /\ rdPc = "post"
  /\ Advance(RX)
  /\ rxPage' = [rxPage EXCEPT ![s_wptr[RX]] = None]
  /\ rdPc' = IF td_ring_full(RX) THEN "dead" ELSE "ding"
  /\ UNCHANGED <<s_rptr, txPage, error, bell, wakeup, irq, txVars,
                 last_handled, rdIdx, delivered, modemVars>>

ReadDing ==
  /\ rdPc = "ding"
  /\ ding
  /\ rdPc' = "done"
  /\ UNCHANGED <<s_wptr, s_rptr, txPage, rxPage, irq, bugOn, txVars,
                 last_handled, rdIdx, delivered, modemVars>>

ReadDone_AllHandled ==
  /\ rdPc = "done"
  /\ last_handled' = s_rptr[RX]
  /\ rdPc' = "idle"
  /\ UNCHANGED <<s_wptr, s_rptr, txPage, rxPage, error, bell, wakeup, irq, bugOn, txVars,
                 rdIdx, delivered, modemVars>>

ReadDone ==
  /\ rdPc = "done"
  /\ last_handled' = Succ(rdIdx)
  /\ rdPc' = "idle"
  /\ UNCHANGED <<s_wptr, s_rptr, txPage, rxPage, error, bell, wakeup, irq, bugOn, txVars,
                 rdIdx, delivered, modemVars>>

Irq0_NoWake ==
  /\ irq
  /\ irq' = FALSE
  /\ poll
  /\ UNCHANGED <<s_wptr, s_rptr, txPage, rxPage, bell, wakeup, bugOn, txVars, rdVars,
                 modemVars>>

\* xmm7360_irq0, as far as this queue pair is concerned.
Irq0 ==
  /\ irq
  /\ irq' = FALSE
  /\ poll
  /\ rdPc' = IF rdPc = "asleep" THEN "woken" ELSE rdPc
  /\ UNCHANGED <<s_wptr, s_rptr, txPage, rxPage, bell, wakeup, bugOn, txVars,
                 last_handled, rdIdx, delivered, modemVars>>
-----------------------------------------------------------------------------
(* The modem                                                               *)

ModemBell ==
  /\ alive /\ ~asleep /\ bell
  /\ bell' = FALSE
  /\ seen' = s_wptr
  /\ UNCHANGED <<s_wptr, s_rptr, txPage, rxPage, error, wakeup, irq, bugOn, txVars, rdVars,
                 alive, asleep, taken, filled>>

ModemTake ==
  /\ alive /\ ~asleep /\ s_rptr[TX] # seen[TX]
  /\ taken' = Append(taken, txPage[s_rptr[TX]])
  /\ s_rptr' = [s_rptr EXCEPT ![TX] = Succ(@)]
  /\ irq' = TRUE
  /\ UNCHANGED <<s_wptr, txPage, rxPage, error, bell, wakeup, bugOn, txVars, rdVars,
                 alive, asleep, seen, filled>>

ModemFill ==
  /\ alive /\ ~asleep /\ s_rptr[RX] # seen[RX]
  /\ filled < MaxRx
  /\ filled' = filled + 1
  /\ rxPage' = [rxPage EXCEPT ![s_rptr[RX]] = filled + 1]
  /\ s_rptr' = [s_rptr EXCEPT ![RX] = Succ(@)]
  /\ irq' = TRUE
  /\ UNCHANGED <<s_wptr, txPage, error, bell, wakeup, bugOn, txVars, rdVars,
                 alive, asleep, seen, taken>>

\* The firmware dies; it may or may not raise a last interrupt.
ModemCrash ==
  /\ alive
  /\ alive' = FALSE
  /\ irq' \in {irq, TRUE}
  /\ UNCHANGED <<s_wptr, s_rptr, txPage, rxPage, error, bell, wakeup, bugOn, txVars, rdVars,
                 asleep, seen, taken, filled>>

\* The modem sleeps when it has served its doorbell and fetched everything.
ModemSleep ==
  /\ alive /\ ~asleep /\ ~bell /\ s_rptr[TX] = seen[TX]
  /\ asleep' = TRUE
  /\ UNCHANGED <<s_wptr, s_rptr, txPage, rxPage, error, bell, wakeup, irq, bugOn, txVars,
                 rdVars, alive, seen, taken, filled>>

\* It wakes when it is told to, or for reasons of its own.
ModemWake ==
  /\ alive /\ asleep
  /\ asleep' = FALSE /\ wakeup' = FALSE
  /\ UNCHANGED <<s_wptr, s_rptr, txPage, rxPage, error, bell, irq, bugOn, txVars,
                 rdVars, alive, seen, taken, filled>>
-----------------------------------------------------------------------------
Write(w) == WriteRefused(w) \/ WriteCheck(w) \/ WriteCopy(w) \/ WritePublish(w) \/ WriteDing(w)
Read == ReadWait \/ ReadInterrupted \/ ReadCopy \/ ReadPost \/ ReadDing \/ ReadDone
Modem == ModemBell \/ ModemTake \/ ModemFill \/ ModemCrash \/ ModemSleep \/ ModemWake
Next == (\E w \in Writers : Write(w)) \/ Read \/ Irq0 \/ Modem

Spec == Init /\ [][Next]_vars

\* A system call under way finishes, a pending interrupt is served, the modem
\* obeys BAR0_WAKEUP, serves its doorbell and the descriptors it has been
\* given, and the RPC client calls read() again and again.  Nobody has to call
\* write(), send a signal, let the modem send anything or wake it otherwise.
Fairness ==
  /\ \A w \in Writers : WF_vars(WriteCopy(w) \/ WritePublish(w) \/ WriteDing(w))
  /\ WF_vars(ReadWait \/ ReadCopy \/ ReadPost \/ ReadDing \/ ReadDone)
  /\ WF_vars(Irq0)
  /\ WF_vars(ModemBell) /\ WF_vars(ModemTake) /\ WF_vars(wakeup /\ ModemWake)

LiveSpec == Spec /\ Fairness
-----------------------------------------------------------------------------
(* Properties                                                              *)

\* The shape of the state.
TypeOK ==
  /\ s_wptr \in [Ring -> Slot] /\ s_rptr \in [Ring -> Slot]
  /\ seen \in [Ring -> Slot] /\ last_handled \in Slot
  /\ txPage \in [Slot -> TxMsg \cup {None}] /\ rxPage \in [Slot -> RxMsg \cup {None}]
  /\ error \in BOOLEAN /\ alive \in BOOLEAN /\ irq \in BOOLEAN
  /\ asleep \in BOOLEAN /\ bell \in BOOLEAN /\ wakeup \in BOOLEAN
  /\ wrPc \in [Writers -> {"idle", "copy", "publish", "ding", "dead"}]
  /\ wrMsg \in [Writers -> TxMsg \cup {None}]
  /\ wrSlot \in [Writers -> Slot]
  /\ rdPc \in {"idle", "asleep", "woken", "copy", "post", "ding", "done", "dead"}
  /\ rdIdx \in Slot
  /\ calls \in 0 .. MaxTx /\ filled \in 0 .. MaxRx
  /\ sent \in Seq(TxMsg) /\ taken \in Seq(TxMsg) /\ delivered \in Seq(RxMsg)
  /\ bugOn \subseteq Ring

\* None of the BUG_ONs of td_ring_write and td_ring_read fires: a writer that
\* saw room in qp_write still has it when it publishes, however long the copy
\* takes, and a reader that returns a page always has room to post one.
NoBug == bugOn = {}

\* Ownership of the pages: the slot a write() is filling and the slot a
\* read() is copying from are never ones the modem may touch by DMA.
PrivatePages ==
  /\ \A w \in Writers : wrPc[w] = "publish" => wrSlot[w] \notin Owned(TX)
  /\ rdPc = "copy" => rdIdx \notin Owned(RX)
  /\ Unhandled \cap Owned(RX) = {}

\* What the modem has been given and not yet fetched, and what it has sent
\* and no read() has returned, in order.
TxQueue == [k \in 1 .. InFlight(TX) |-> txPage[(s_rptr[TX] + k - 1) % Depth]]
RxQueue == [k \in 1 .. Dist(Handled, s_rptr[RX]) |-> rxPage[(Handled + k - 1) % Depth]]

\* Each ring is a bounded, lossless FIFO channel: TX for what was published,
\* RX for what the modem sent.
TxFifo == INSTANCE Fifo WITH Msg <- TxMsg, Capacity <- Depth - 1,
                             queue <- TxQueue, got <- taken
RxFifo == INSTANCE Fifo WITH Msg <- RxMsg, Capacity <- Depth - 1,
                             queue <- RxQueue, got <- delivered
TxIsFifo == TxFifo!FifoSpec
RxIsFifo == RxFifo!FifoSpec

\* A page handed to the modem does not change until the modem has fetched it,
\* and a page it filled does not change until a read() has returned it.
PublishedPagesStable ==
  [][/\ \A i \in Owned(TX) \cap Owned(TX)' : txPage'[i] = txPage[i]
     /\ \A i \in Unhandled \cap Unhandled' : rxPage'[i] = rxPage[i]]_vars

\* The wait of cdev_read loses no wake-up: a reader that sleeps although
\* there is data has an interrupt coming that will wake it.
NoLostWakeup == rdPc = "asleep" /\ qp_has_data => irq

\* No doorbell is lost: when the modem has not seen the latest s_wptr, the
\* bell is ringing or the thread that moved s_wptr is about to ring it; and a
\* modem that sleeps through a ringing bell has been told to wake up.
NoLostDoorbell ==
  /\ seen # s_wptr /\ alive =>
       bell \/ rdPc = "ding" \/ \E w \in Writers : wrPc[w] = "ding"
  /\ asleep /\ bell => wakeup

\* Every published message reaches the modem, unless the modem dies.
PublishedIsTaken ==
  \A n \in 1 .. MaxTx : Len(sent) >= n ~> (Len(taken) >= n \/ ~alive)

\* Every message from the modem reaches a reader that keeps calling read(),
\* unless the modem dies.
FilledIsDelivered ==
  \A n \in 1 .. MaxRx : filled >= n ~> (Len(delivered) >= n \/ ~alive)
=============================================================================
