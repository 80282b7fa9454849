------------------------------- MODULE NetTx --------------------------------
(***************************************************************************)
(* The transmit side of wwan0: net_xmit, the 100 us deadline timer, the    *)
(* interrupt handler's net_poll, ndo_open and ndo_stop, the modem draining *)
(* TX ring 0.  net_xmit and the timer callback share xn->lock; net_poll    *)
(* and net_open do not take it, so net_open may empty the queue that the   *)
(* callback is packing.                                                    *)
(*                                                                         *)
(* The TX ring is the bounded FIFO that TdRing implements; a frame is the  *)
(* sequence of its packets.  A frame holds FrameCap packets: MuxFlush      *)
(* shows that what net_must_flush admits always packs, so the drop label   *)
(* of net_flush is reached only when qp_write returns xmm->error.          *)
(***************************************************************************)
EXTENDS Integers, FiniteSets, SequencesExt

CONSTANTS FrameCap,   \* packets net_must_flush admits to one frame
          RingCap,    \* TX descriptors the ring holds: 127
          MaxPackets, \* bound: packets the stack sends
          MaxOpens    \* bound: times the interface is brought up

ASSUME CapAssumption == FrameCap \in Nat \ {0} /\ RingCap \in Nat \ {0}
ASSUME BoundAssumption == MaxPackets \in Nat /\ MaxOpens \in Nat

VARIABLES queue, queued_packets,   \* xn->queue, its counter
          frame,                   \* xn->frame: packets the callback has packed
          lock,                    \* xn->lock is held across a step
          stopped,                 \* __QUEUE_STATE_DRV_XOFF
          timer,                   \* "idle", "armed", "running", "packing", "flushed"
          xmPc, skb, fresh,        \* net_xmit: progress, its packet, next new packet
          ifPc, opens,             \* the interface: down, inside net_open, up
          ring, irq,               \* TX ring 0, a pending interrupt
          alive, error,            \* the modem; xmm->error
          taken,                   \* history: frames the modem fetched, as packets
          lostFull, lostError, drained  \* history: packets that never reached the ring

netVars == <<queue, queued_packets, frame, lock, stopped, timer>>
xmVars == <<xmPc, skb, fresh>>
ifVars == <<ifPc, opens>>
devVars == <<ring, irq, alive, error, taken>>
lossVars == <<lostFull, lostError, drained>>
vars == <<netVars, xmVars, ifVars, devVars, lossVars>>

None == 0
Packet == 1 .. MaxPackets
Flat(frames) == UNION {ToSet(frames[i]) : i \in 1 .. Len(frames)}

\* (Operators named X_Y, with Y saying what is wrong, are not part of the
\* model: each is a plausible mistake in X that a property must notice.)
can_write == Len(ring) < RingCap
must_flush == queued_packets >= FrameCap
hrtimer_active == timer # "idle"
xmit_running == xmPc # "idle"

Init ==
  /\ queue = << >> /\ queued_packets = 0 /\ frame = << >>
  /\ lock = FALSE /\ stopped = FALSE /\ timer = "idle"
  /\ xmPc = "idle" /\ skb = None /\ fresh = 1
  /\ ifPc = "down" /\ opens = 0
  /\ ring = << >> /\ irq = FALSE /\ alive = TRUE /\ error = FALSE /\ taken = << >>
  /\ lostFull = {} /\ lostError = {} /\ drained = {}
-----------------------------------------------------------------------------
\* mux_frame_push: qp_write, which also rings the bell and polls the device.
\* Its result is the number of bytes, 0 when the ring is full, or the error.
Push(packets) ==
  IF error \/ Len(ring) >= RingCap
    THEN UNCHANGED <<ring, error>>
    ELSE ring' = Append(ring, packets) /\ error' = (error \/ ~alive)

\* What net_flush makes of that: a full ring looks like success, an error takes
\* the drop label.
Ship(packets) ==
  /\ Push(packets)
  /\ stopped' = (stopped \/ error)
  /\ lostError' = IF error THEN lostError \cup ToSet(packets) ELSE lostError
  /\ lostFull' = IF ~error /\ Len(ring) >= RingCap
                 THEN lostFull \cup ToSet(packets) ELSE lostFull
-----------------------------------------------------------------------------
(* net_xmit.  The stack calls it for one packet at a time, and again with  *)
(* the packet it returned as NETDEV_TX_BUSY once the queue is not stopped. *)

XmitCall ==
  /\ ifPc = "up" /\ ~stopped /\ xmPc = "idle"
  /\ IF skb = None
       THEN fresh <= MaxPackets /\ skb' = fresh /\ fresh' = fresh + 1
       ELSE UNCHANGED <<skb, fresh>>
  /\ xmPc' = "enter"
  /\ UNCHANGED <<netVars, ifVars, devVars, lossVars>>

\* if (netif_queue_stopped(dev)) return NETDEV_TX_BUSY;
XmitEnter ==
  /\ xmPc = "enter"
  /\ xmPc' = IF stopped THEN "idle" ELSE "locking"
  /\ UNCHANGED <<netVars, skb, fresh, ifVars, devVars, lossVars>>

XmitQueue_AtHead ==
  /\ xmPc = "locking" /\ ~lock
  /\ ~must_flush
  /\ queue' = <<skb>> \o queue
  /\ queued_packets' = queued_packets + 1
  /\ xmPc' = "timer"
  /\ UNCHANGED <<frame, lock, stopped, timer, skb, fresh, ifVars, devVars, lossVars>>

\* The critical section, when the packet fits.
XmitQueue ==
  /\ xmPc = "locking" /\ ~lock
  /\ ~must_flush
  /\ queue' = Append(queue, skb)
  /\ queued_packets' = queued_packets + 1
  /\ xmPc' = "timer"
  /\ UNCHANGED <<frame, lock, stopped, timer, skb, fresh, ifVars, devVars, lossVars>>

\* The critical section, when the frame is full and the ring has room.  All of
\* net_flush in one step: net_open cannot run while the interface is up.  The
\* counters start afresh, whatever became of the frame.
XmitFlush ==
  /\ xmPc = "locking" /\ ~lock
  /\ must_flush /\ can_write
  /\ IF queue = << >>
       THEN /\ queued_packets' = queued_packets + 1
            /\ UNCHANGED <<ring, error, stopped, lostFull, lostError>>
       ELSE queued_packets' = 1 /\ Ship(queue)
  /\ queue' = <<skb>>
  /\ xmPc' = "timer"
  /\ UNCHANGED <<frame, lock, timer, skb, fresh, ifVars, irq, alive, taken, drained>>

\* The frame and the ring are full: the test, then the stop, under the lock.
XmitNoRoom ==
  /\ xmPc = "locking" /\ ~lock
  /\ must_flush /\ ~can_write
  /\ lock' = TRUE
  /\ xmPc' = "stopping"
  /\ UNCHANGED <<queue, queued_packets, frame, stopped, timer, skb, fresh, ifVars, devVars,
                 lossVars>>

XmitStop_Queues ==
  /\ xmPc = "stopping"
  /\ stopped' = TRUE
  /\ queue' = Append(queue, skb) /\ queued_packets' = queued_packets + 1
  /\ lock' = FALSE
  /\ xmPc' = "idle"
  /\ UNCHANGED <<frame, timer, skb, fresh, ifVars, devVars, lossVars>>

XmitStop ==
  /\ xmPc = "stopping"
  /\ stopped' = TRUE
  /\ lock' = FALSE
  /\ xmPc' = "idle"
  /\ UNCHANGED <<queue, queued_packets, frame, timer, skb, fresh, ifVars, devVars, lossVars>>

\* After the critical section: start the deadline unless it is active.
XmitTimer ==
  /\ xmPc = "timer"
  /\ timer' = IF hrtimer_active THEN timer ELSE "armed"
  /\ xmPc' = "idle" /\ skb' = None
  /\ UNCHANGED <<queue, queued_packets, frame, lock, stopped, fresh, ifVars, devVars, lossVars>>
-----------------------------------------------------------------------------
(* The deadline: the timer stays active until its callback has returned.   *)

TimerFire ==
  /\ timer = "armed"
  /\ timer' = "running"
  /\ UNCHANGED <<queue, queued_packets, frame, lock, stopped, xmVars, ifVars, devVars, lossVars>>

\* net_deadline_cb: under the lock, net_flush looks whether there is anything to
\* flush.  If there is not it leaves the counters alone.
DeadlineBegin_UnlessStopped ==
  /\ timer = "running" /\ ~lock
  /\ IF queue = << >> \/ stopped
       THEN timer' = "flushed" /\ UNCHANGED lock
       ELSE timer' = "packing" /\ lock' = TRUE
  /\ UNCHANGED <<queue, queued_packets, frame, stopped, xmVars, ifVars, devVars, lossVars>>

DeadlineBegin ==
  /\ timer = "running" /\ ~lock
  /\ IF queue = << >> THEN timer' = "flushed" /\ UNCHANGED lock
                      ELSE timer' = "packing" /\ lock' = TRUE
  /\ UNCHANGED <<queue, queued_packets, frame, stopped, xmVars, ifVars, devVars, lossVars>>

\* Packet after packet; net_open may be dequeuing too.
DeadlinePack ==
  /\ timer = "packing" /\ queue # << >>
  /\ frame' = Append(frame, Head(queue)) /\ queue' = Tail(queue)
  /\ UNCHANGED <<queued_packets, lock, stopped, timer, xmVars, ifVars, devVars, lossVars>>

\* The frame, with whatever is in it, goes to the ring or to the drop label;
\* the counters start afresh either way.
DeadlineShip ==
  /\ timer = "packing" /\ queue = << >>
  /\ Ship(frame)
  /\ queued_packets' = 0 /\ frame' = << >>
  /\ timer' = "flushed" /\ lock' = FALSE
  /\ UNCHANGED <<queue, xmVars, ifVars, irq, alive, taken, drained>>

DeadlineReturn ==
  /\ timer = "flushed"
  /\ timer' = "idle"
  /\ UNCHANGED <<queue, queued_packets, frame, lock, stopped, xmVars, ifVars, devVars, lossVars>>
-----------------------------------------------------------------------------
(* The interface goes up and down under RTNL; the stack calls ndo_open     *)
(* before it may call net_xmit, and ndo_stop after the last call returned. *)

\* net_open: the counters, one skb after the other, the state bit and the
\* control frame, none of it (but the last) under xn->lock.
OpenReset ==
  /\ ifPc = "down" /\ opens < MaxOpens
  /\ opens' = opens + 1
  /\ queued_packets' = 0
  /\ ifPc' = "drain"
  /\ UNCHANGED <<queue, frame, lock, stopped, timer, xmVars, devVars, lossVars>>

OpenDrain ==
  /\ ifPc = "drain" /\ queue # << >>
  /\ drained' = drained \cup {Head(queue)}
  /\ queue' = Tail(queue)
  /\ UNCHANGED <<queued_packets, frame, lock, stopped, timer, xmVars, ifVars, devVars,
                 lostFull, lostError>>

OpenStart_Undrained ==
  /\ ifPc = "drain"
  /\ stopped' = FALSE
  /\ ifPc' = "control"
  /\ UNCHANGED <<queue, queued_packets, frame, lock, timer, xmVars, opens, devVars, lossVars>>

OpenStart ==
  /\ ifPc = "drain" /\ queue = << >>
  /\ stopped' = FALSE
  /\ ifPc' = "control"
  /\ UNCHANGED <<queue, queued_packets, frame, lock, timer, xmVars, opens, devVars, lossVars>>

\* mux_control; an error return makes ndo_open fail.
OpenControl ==
  /\ ifPc = "control" /\ ~lock
  /\ Push(<< >>)
  /\ ifPc' = IF error THEN "down" ELSE "up"
  /\ UNCHANGED <<netVars, xmVars, opens, irq, alive, taken, lossVars>>

\* net_close; the qdisc frees the packet it was to retry.
Close ==
  /\ ifPc = "up" /\ ~xmit_running
  /\ stopped' = TRUE
  /\ ifPc' = "down" /\ skb' = None
  /\ drained' = drained \cup ({skb} \ {None})
  /\ UNCHANGED <<queue, queued_packets, frame, lock, timer, xmPc, fresh, opens, devVars,
                 lostFull, lostError>>
-----------------------------------------------------------------------------
\* irq0 -> poll, net_poll's wake-up (its receive side is in TdRing).
Irq ==
  /\ irq
  /\ irq' = FALSE
  /\ error' = (error \/ ~alive)
  /\ stopped' = (stopped /\ ~can_write)
  /\ UNCHANGED <<queue, queued_packets, frame, lock, timer, xmVars, ifVars, ring, alive, taken,
                 lossVars>>

ModemTake ==
  /\ alive /\ ring # << >>
  /\ ring' = Tail(ring)
  /\ taken' = taken \o Head(ring)
  /\ irq' = TRUE
  /\ UNCHANGED <<netVars, xmVars, ifVars, alive, error, lossVars>>

\* An interrupt for another ring or for received data.
ModemOther ==
  /\ alive /\ ~irq
  /\ irq' = TRUE
  /\ UNCHANGED <<netVars, xmVars, ifVars, ring, alive, error, taken, lossVars>>

ModemCrash ==
  /\ alive
  /\ alive' = FALSE
  /\ irq' \in {irq, TRUE}
  /\ UNCHANGED <<netVars, xmVars, ifVars, ring, error, taken, lossVars>>
-----------------------------------------------------------------------------
Xmit == XmitEnter \/ XmitQueue \/ XmitFlush \/ XmitNoRoom \/ XmitStop \/ XmitTimer
Deadline == TimerFire \/ DeadlineBegin \/ DeadlinePack \/ DeadlineShip \/ DeadlineReturn
Open == OpenDrain \/ OpenStart \/ OpenControl
Next == XmitCall \/ Xmit \/ Deadline \/ OpenReset \/ Open \/ Close
        \/ Irq \/ ModemTake \/ ModemOther \/ ModemCrash

Spec == Init /\ [][Next]_vars

\* What has begun goes on: a call of net_xmit or ndo_open, the timer, a
\* pending interrupt, the modem's work on its ring.  The stack need not send,
\* nobody need bring the interface up or down, and the modem need not
\* interrupt for anything but the frames it takes.
LiveSpec == /\ Spec
            /\ WF_vars(Xmit) /\ WF_vars(Deadline) /\ WF_vars(Open)
            /\ WF_vars(Irq) /\ WF_vars(ModemTake)
-----------------------------------------------------------------------------
(* Properties                                                              *)

\* The shape of the state.
TypeOK ==
  /\ queue \in Seq(Packet) /\ queued_packets \in 0 .. FrameCap /\ frame \in Seq(Packet)
  /\ lock \in BOOLEAN /\ stopped \in BOOLEAN /\ irq \in BOOLEAN
  /\ alive \in BOOLEAN /\ error \in BOOLEAN
  /\ timer \in {"idle", "armed", "running", "packing", "flushed"}
  /\ xmPc \in {"idle", "enter", "locking", "stopping", "timer"}
  /\ skb \in Packet \cup {None} /\ fresh \in 1 .. MaxPackets + 1
  /\ ifPc \in {"down", "drain", "control", "up"} /\ opens \in 0 .. MaxOpens
  /\ ring \in Seq(Seq(Packet)) /\ Len(ring) <= RingCap /\ taken \in Seq(Packet)
  /\ lostFull \subseteq Packet /\ lostError \subseteq Packet /\ drained \subseteq Packet

\* The unlocked reset in net_open, the timer callback and net_xmit never leave
\* the counter that net_must_flush trusts out of step with the queue.  It may be
\* while the queue is being emptied: net_must_flush cannot run then.
CounterMatchesQueue ==
  ifPc # "drain" /\ timer # "packing" => queued_packets = Len(queue)

\* Every packet net_xmit accepted is in exactly one place: queued, in the frame
\* being packed, on the ring, at the modem, lost to a full ring or a dead modem,
\* or freed as the interface went down or up; a packet returned as BUSY is in
\* none.
Accepted == {p \in Packet : p < fresh /\ ~(p = skb /\ xmPc # "timer")}
Conservation ==
  LET places == <<ToSet(queue), ToSet(frame), Flat(ring), ToSet(taken),
                  lostFull, lostError, drained>>
  IN /\ \A i, j \in 1 .. 7 : i # j => places[i] \cap places[j] = {}
     /\ UNION {places[i] : i \in 1 .. 7} = Accepted
     /\ Len(taken) = Cardinality(ToSet(taken))

\* Packets reach the modem in the order the stack sent them.
InOrder == \A i, j \in 1 .. Len(taken) : i < j => taken[i] < taken[j]

\* A packet that is queued while the deadline is armed leaves the queue.
DeadlineFlushes ==
  \A p \in Packet : (p \in ToSet(queue) /\ timer = "armed") ~> p \notin ToSet(queue)

\* net_flush's comment: the transmit queue is stopped as back-pressure when a
\* frame cannot be shipped.
UnshippedStops == [][lostFull' # lostFull => stopped']_vars

\* The same comment: a stopped queue is woken once the TX ring has room.
StoppedIsWoken == (stopped /\ ifPc = "up") ~> (~stopped \/ ifPc # "up" \/ ~alive)
=============================================================================
