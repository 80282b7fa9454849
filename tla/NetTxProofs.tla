---------------------------- MODULE NetTxProofs -----------------------------
(***************************************************************************)
(* Theorems about NetTx, for any frame and ring capacity, any number of    *)
(* packets and of times the interface is brought up.                       *)
(***************************************************************************)
EXTENDS NetTx, FiniteSetTheorems, TLAPS

-----------------------------------------------------------------------------
(* Sequences as sets.                                                       *)

\* No sequence, no elements.
LEMMA EmptyToSet == ToSet(<<>>) = {}
BY DEF ToSet

\* A sequence of one has that element.
LEMMA OneToSet == \A x : ToSet(<<x>>) = {x}
<1> SUFFICES ASSUME NEW x PROVE ToSet(<<x>>) = {x}
  OBVIOUS
<1>1. DOMAIN <<x>> = {1} /\ <<x>>[1] = x
  OBVIOUS
<1> QED  BY <1>1 DEF ToSet

\* Appending adds one element.
LEMMA AppendToSet ==
  ASSUME NEW S, NEW s \in Seq(S), NEW x
  PROVE  ToSet(Append(s, x)) = ToSet(s) \cup {x}
<1>1. DOMAIN Append(s, x) = 1 .. Len(s) + 1 /\ DOMAIN s = 1 .. Len(s) /\ Len(s) \in Nat
  OBVIOUS
<1>2. Append(s, x)[Len(s) + 1] = x /\ \A i \in 1 .. Len(s) : Append(s, x)[i] = s[i]
  OBVIOUS
<1> QED  BY <1>1, <1>2 DEF ToSet

\* A concatenation has the elements of both parts.
LEMMA ConcatToSet ==
  ASSUME NEW S, NEW s \in Seq(S), NEW t \in Seq(S)
  PROVE  ToSet(s \o t) = ToSet(s) \cup ToSet(t)
<1>1. /\ DOMAIN (s \o t) = 1 .. Len(s) + Len(t)
      /\ DOMAIN s = 1 .. Len(s) /\ DOMAIN t = 1 .. Len(t) /\ Len(s) \in Nat /\ Len(t) \in Nat
  OBVIOUS
<1>2. \A i \in 1 .. Len(s) + Len(t) :
        (s \o t)[i] = IF i <= Len(s) THEN s[i] ELSE t[i - Len(s)]
  OBVIOUS
<1>3. \A i \in 1 .. Len(s) : (s \o t)[i] = s[i]
  BY <1>1, <1>2
<1>4. \A i \in 1 .. Len(t) : Len(s) + i \in 1 .. Len(s) + Len(t) /\ (s \o t)[Len(s) + i] = t[i]
  BY <1>1, <1>2
<1>5. ToSet(s \o t) \subseteq ToSet(s) \cup ToSet(t)
  BY <1>1, <1>2 DEF ToSet
<1>6. ToSet(s) \cup ToSet(t) \subseteq ToSet(s \o t)
  <2>1. ToSet(s) \subseteq ToSet(s \o t)
    BY <1>1, <1>3 DEF ToSet
  <2>2. \A i \in 1 .. Len(t) : t[i] \in ToSet(s \o t)
    BY <1>1, <1>4 DEF ToSet
  <2>3. ToSet(t) \subseteq ToSet(s \o t)
    BY <1>1, <2>2 DEF ToSet
  <2> QED  BY <2>1, <2>3
<1> QED  BY <1>5, <1>6

\* The elements of a sequence are of its type.
LEMMA ElementsInSet ==
  ASSUME NEW S, NEW s \in Seq(S)
  PROVE  ToSet(s) \subseteq S /\ \A i \in 1 .. Len(s) : s[i] \in ToSet(s)
BY DEF ToSet

\* A sequence is its head and its tail.
LEMMA HeadToSet ==
  ASSUME NEW S, NEW s \in Seq(S), s # <<>>
  PROVE  Head(s) \in S /\ Tail(s) \in Seq(S) /\ ToSet(s) = {Head(s)} \cup ToSet(Tail(s))
<1>1. /\ Len(Tail(s)) = Len(s) - 1 /\ Len(s) \in Nat /\ Len(s) > 0 /\ Head(s) = s[1]
      /\ \A i \in 1 .. Len(s) - 1 : Tail(s)[i] = s[i + 1]
      /\ Tail(s) \in Seq(S) /\ Head(s) \in S
  OBVIOUS
<1>2. \A i \in 1 .. Len(s) : i = 1 \/ (i - 1 \in 1 .. Len(s) - 1 /\ Tail(s)[i - 1] = s[i])
  BY <1>1
<1>3. \A i \in 1 .. Len(s) - 1 : i + 1 \in 1 .. Len(s)
  BY <1>1
<1>4. DOMAIN s = 1 .. Len(s) /\ DOMAIN Tail(s) = 1 .. Len(s) - 1
  BY <1>1
<1>5. ToSet(s) \subseteq {Head(s)} \cup ToSet(Tail(s))
  <2> SUFFICES ASSUME NEW i \in 1 .. Len(s) PROVE s[i] \in {s[1]} \cup ToSet(Tail(s))
    BY <1>1, <1>4 DEF ToSet
  <2>1. CASE i = 1
    BY <2>1
  <2>2. CASE i # 1
    <3>1. i - 1 \in DOMAIN Tail(s) /\ Tail(s)[i - 1] = s[i]
      BY <1>2, <1>4, <2>2
    <3> QED  BY <3>1 DEF ToSet
  <2> QED  BY <2>1, <2>2
<1>6. {Head(s)} \cup ToSet(Tail(s)) \subseteq ToSet(s)
  <2>1. s[1] \in ToSet(s)
    BY <1>1, <1>4 DEF ToSet
  <2>2. \A i \in 1 .. Len(s) - 1 : Tail(s)[i] \in ToSet(s)
    BY <1>1, <1>3, <1>4 DEF ToSet
  <2>3. ToSet(Tail(s)) \subseteq ToSet(s)
    BY <1>4, <2>2 DEF ToSet
  <2> QED  BY <1>1, <2>1, <2>3
<1> QED  BY <1>1, <1>5, <1>6

\* No frames, no packets.
LEMMA EmptyFlat == Flat(<<>>) = {}
BY DEF Flat

\* One more frame adds its packets.
LEMMA AppendFlat ==
  ASSUME NEW S, NEW r \in Seq(Seq(S)), NEW f \in Seq(S)
  PROVE  Flat(Append(r, f)) = Flat(r) \cup ToSet(f)
<1>1. /\ Len(Append(r, f)) = Len(r) + 1 /\ Len(r) \in Nat
      /\ Append(r, f)[Len(r) + 1] = f /\ \A i \in 1 .. Len(r) : Append(r, f)[i] = r[i]
  OBVIOUS
<1>2. 1 .. Len(r) + 1 = 1 .. Len(r) \cup {Len(r) + 1}
  BY <1>1
<1> QED  BY <1>1, <1>2 DEF Flat

\* The packets are those of the first frame and of the others.
LEMMA TailFlat ==
  ASSUME NEW S, NEW r \in Seq(Seq(S)), r # <<>>
  PROVE  Flat(r) = ToSet(Head(r)) \cup Flat(Tail(r))
<1>1. /\ Len(Tail(r)) = Len(r) - 1 /\ Len(r) \in Nat /\ Len(r) > 0 /\ Head(r) = r[1]
      /\ \A i \in 1 .. Len(r) - 1 : Tail(r)[i] = r[i + 1]
  OBVIOUS
<1>2. \A i \in 1 .. Len(r) : i = 1 \/ (i - 1 \in 1 .. Len(r) - 1 /\ Tail(r)[i - 1] = r[i])
  BY <1>1
<1>3. \A i \in 1 .. Len(r) - 1 : i + 1 \in 1 .. Len(r)
  BY <1>1
<1>4. Flat(r) \subseteq ToSet(Head(r)) \cup Flat(Tail(r))
  BY <1>1, <1>2 DEF Flat
<1>5. ToSet(Head(r)) \cup Flat(Tail(r)) \subseteq Flat(r)
  BY <1>1, <1>3 DEF Flat
<1> QED  BY <1>4, <1>5
-----------------------------------------------------------------------------
(* Order.                                                                   *)

Before(A, B) == \A a \in A, b \in B : a < b
Sorted(s) == \A i, j \in 1 .. Len(s) : i < j => s[i] < s[j]

\* Up to one packet there is nothing to be out of order.
LEMMA EmptySorted == Sorted(<<>>) /\ \A x : Sorted(<<x>>)
BY DEF Sorted

\* A later packet may follow.
LEMMA AppendSorted ==
  ASSUME NEW S \in SUBSET Nat, NEW s \in Seq(S), NEW x \in S, Sorted(s), Before(ToSet(s), {x})
  PROVE  Sorted(Append(s, x))
<1>1. /\ Len(Append(s, x)) = Len(s) + 1 /\ Len(s) \in Nat
      /\ Append(s, x)[Len(s) + 1] = x /\ \A i \in 1 .. Len(s) : Append(s, x)[i] = s[i]
  OBVIOUS
<1>2. \A i \in 1 .. Len(s) : s[i] < x
  BY ElementsInSet DEF Before
<1> QED  BY <1>1, <1>2 DEF Sorted

\* Two ordered parts make an order when all of one come before the other.
LEMMA ConcatSorted ==
  ASSUME NEW S \in SUBSET Nat, NEW s \in Seq(S), NEW t \in Seq(S),
         Sorted(s), Sorted(t), Before(ToSet(s), ToSet(t))
  PROVE  Sorted(s \o t)
<1>1. /\ Len(s \o t) = Len(s) + Len(t) /\ Len(s) \in Nat /\ Len(t) \in Nat
      /\ \A i \in 1 .. Len(s) + Len(t) :
           (s \o t)[i] = IF i <= Len(s) THEN s[i] ELSE t[i - Len(s)]
  OBVIOUS
<1>2. \A i \in 1 .. Len(s), j \in 1 .. Len(t) : s[i] < t[j]
  BY ElementsInSet DEF Before
<1> SUFFICES ASSUME NEW i \in 1 .. Len(s \o t), NEW j \in 1 .. Len(s \o t), i < j
             PROVE  (s \o t)[i] < (s \o t)[j]
  BY DEF Sorted
<1>3. CASE j <= Len(s)
  BY <1>1, <1>3 DEF Sorted
<1>4. CASE i <= Len(s) /\ j > Len(s)
  BY <1>1, <1>2, <1>4
<1>5. CASE i > Len(s)
  BY <1>1, <1>5 DEF Sorted
<1> QED  BY <1>1, <1>3, <1>4, <1>5

\* What follows the head comes after it.
LEMMA TailSorted ==
  ASSUME NEW S \in SUBSET Nat, NEW s \in Seq(S), s # <<>>, Sorted(s)
  PROVE  Sorted(Tail(s)) /\ Before({Head(s)}, ToSet(Tail(s)))
<1>1. /\ Len(Tail(s)) = Len(s) - 1 /\ Len(s) \in Nat /\ Len(s) > 0 /\ Head(s) = s[1]
      /\ \A i \in 1 .. Len(s) - 1 : Tail(s)[i] = s[i + 1]
      /\ DOMAIN Tail(s) = 1 .. Len(s) - 1
  OBVIOUS
<1>2. \A i \in 1 .. Len(s) - 1 : i + 1 \in 1 .. Len(s) /\ 1 < i + 1
  BY <1>1
<1>3. Sorted(Tail(s))
  BY <1>1, <1>2 DEF Sorted
<1>4. \A i \in 1 .. Len(s) - 1 : Head(s) < Tail(s)[i]
  BY <1>1, <1>2 DEF Sorted
<1> QED  BY <1>1, <1>3, <1>4 DEF Before, ToSet

\* A sequence that increases has no element twice.
LEMMA SortedIsInjective ==
  ASSUME NEW S \in SUBSET Nat, NEW s \in Seq(S), Sorted(s)
  PROVE  Len(s) = Cardinality(ToSet(s))
<1>1. s \in [1 .. Len(s) -> ToSet(s)] /\ Len(s) \in Nat
  BY ElementsInSet
<1>2. s \in Surjection(1 .. Len(s), ToSet(s))
  BY <1>1 DEF Surjection, ToSet
<1>3. \A i \in 1 .. Len(s) : s[i] \in Nat
  BY ElementsInSet
<1>4. s \in Injection(1 .. Len(s), ToSet(s))
  <2> SUFFICES ASSUME NEW i \in 1 .. Len(s), NEW j \in 1 .. Len(s), s[i] = s[j], i # j
               PROVE  FALSE
    BY <1>1 DEF Injection, IsInjective
  <2>1. i < j \/ j < i
    BY <1>1
  <2> QED  BY <1>3, <2>1 DEF Sorted
<1>5. IsFiniteSet(1 .. Len(s)) /\ Cardinality(1 .. Len(s)) = Len(s)
  <2>1. Len(s) \in Int /\ 1 \in Int
    BY <1>1
  <2>2. /\ IsFiniteSet(1 .. Len(s))
        /\ Cardinality(1 .. Len(s)) = IF 1 > Len(s) THEN 0 ELSE Len(s) - 1 + 1
    BY <2>1, FS_Interval
  <2> QED  BY <1>1, <2>2
<1> QED  BY <1>2, <1>4, <1>5, FS_Surjection
-----------------------------------------------------------------------------
(* The inductive invariant.                                                 *)

\* net_xmit runs only while the interface is up, and always has a packet.
Calls == xmPc # "idle" => ifPc = "up" /\ skb # None

\* The packet in hand is the latest one the stack sent.
Latest == skb # None => skb = fresh - 1

Typed == TypeOK /\ Calls /\ Latest

\* The callback packs under the lock, and net_xmit stops the queue under it.
Held ==
  /\ timer # "packing" => frame = <<>>
  /\ timer = "packing" => lock /\ xmPc # "stopping"
  /\ xmPc = "stopping" => lock

\* The unlocked reset in net_open: until the queue is drained only the timer
\* callback can come, which clears the counter too.
Counted ==
  /\ CounterMatchesQueue
  /\ ifPc = "drain" => queued_packets = 0

Q == ToSet(queue)
F == ToSet(frame)
R == Flat(ring)
T == ToSet(taken)
Lost == lostFull \cup lostError \cup drained

\* Within each frame, from frame to frame and from one place to the next.
Ordered ==
  /\ Sorted(queue) /\ Sorted(frame) /\ Sorted(taken)
  /\ \A i \in 1 .. Len(ring) : Sorted(ring[i])
  /\ \A i, j \in 1 .. Len(ring) : i < j => Before(ToSet(ring[i]), ToSet(ring[j]))
  /\ Before(T, R) /\ Before(T, F) /\ Before(T, Q)
  /\ Before(R, F) /\ Before(R, Q) /\ Before(F, Q)

\* Nothing is in two places and nothing is nowhere.
Placed ==
  /\ Lost \cap (Q \cup F \cup R \cup T) = {}
  /\ lostFull \cap lostError = {} /\ lostFull \cap drained = {} /\ lostError \cap drained = {}
  /\ Q \cup F \cup R \cup T \cup Lost = Accepted

IInv == Typed /\ Held /\ Counted /\ Ordered /\ Placed
-----------------------------------------------------------------------------
(* Types, calls and counters.                                               *)

\* One more frame, one more in the ring.
LEMMA AppendFrame ==
  ASSUME NEW r \in Seq(Seq(Packet)), NEW f \in Seq(Packet), Len(r) < RingCap
  PROVE  Append(r, f) \in Seq(Seq(Packet)) /\ Len(Append(r, f)) <= RingCap
<1>1. Len(r) \in Nat /\ Len(Append(r, f)) = Len(r) + 1
  OBVIOUS
<1>2. RingCap \in Nat
  BY CapAssumption DEF CapAssumption
<1> QED  BY <1>1, <1>2

\* When net_xmit finds the frame full there is something to flush.
LEMMA XmitFlushes ==
  ASSUME Typed, Counted, Held, XmitFlush
  PROVE  queue # <<>> /\ frame = <<>> /\ timer # "packing" /\ ifPc = "up"
<1>1. timer # "packing" /\ ifPc = "up" /\ queued_packets >= FrameCap
  BY DEF Held, XmitFlush, Typed, Calls, must_flush
<1>2. queued_packets = Len(queue)
  BY <1>1 DEF Counted, CounterMatchesQueue
<1>3. Len(queue) # 0
  BY <1>1, <1>2, CapAssumption DEF CapAssumption
<1>4. queue # <<>>
  BY <1>3
<1> QED  BY <1>1, <1>4 DEF Held

\* No step leaves the types.
LEMMA TypedHolds == Typed /\ Counted /\ Held /\ [Next]_vars => Typed'
<1> SUFFICES ASSUME Typed, Counted, Held, [Next]_vars PROVE Typed'
  OBVIOUS
<1> USE CapAssumption, BoundAssumption DEF CapAssumption, BoundAssumption
<1>1. TypeOK /\ Calls /\ Latest /\ None = 0 /\ Packet = 1 .. MaxPackets
  BY DEF Typed, None, Packet
<1>2. CASE XmitCall \/ XmitEnter
  <2>1. TypeOK'
    <3>1. skb' \in Packet \cup {None} /\ fresh' \in 1 .. MaxPackets + 1
      BY <1>1, <1>2 DEF XmitCall, XmitEnter, TypeOK
    <3>2. xmPc' \in {"idle", "enter", "locking"} /\ UNCHANGED <<netVars, ifVars, devVars, lossVars>>
      BY <1>2 DEF XmitCall, XmitEnter
    <3> QED  BY <1>1, <3>1, <3>2 DEF TypeOK, netVars, ifVars, devVars, lossVars
  <2>2. Calls' /\ Latest'
    BY <1>1, <1>2 DEF XmitCall, XmitEnter, TypeOK, Calls, Latest, ifVars
  <2> QED  BY <2>1, <2>2 DEF Typed
<1>3. CASE XmitQueue
  <2>1. skb \in Packet /\ queued_packets' = queued_packets + 1 /\ queued_packets < FrameCap
    BY <1>1, <1>3 DEF XmitQueue, Calls, TypeOK, must_flush
  <2>2. queue' \in Seq(Packet) /\ queued_packets' \in 0 .. FrameCap
    BY <1>1, <1>3, <2>1 DEF XmitQueue, TypeOK
  <2> QED  BY <1>1, <1>3, <2>2
           DEF Typed, XmitQueue, TypeOK, Calls, Latest, ifVars, devVars, lossVars
<1>4. ASSUME NEW packets \in Seq(Packet), Ship(packets)
      PROVE  /\ stopped' \in BOOLEAN /\ error' \in BOOLEAN
             /\ ring' \in Seq(Seq(Packet)) /\ Len(ring') <= RingCap
             /\ lostFull' \subseteq Packet /\ lostError' \subseteq Packet
  <2>1. stopped' \in BOOLEAN /\ error' \in BOOLEAN
    BY <1>1, <1>4 DEF Ship, Push, TypeOK
  <2>2. ToSet(packets) \subseteq Packet
    BY <1>1, <1>4, ElementsInSet
  <2>3. lostFull' \subseteq Packet /\ lostError' \subseteq Packet
    BY <1>1, <1>4, <2>2 DEF Ship, TypeOK
  <2>4. ring' = ring \/ (Len(ring) < RingCap /\ ring' = Append(ring, packets))
    BY <1>1, <1>4 DEF Ship, Push, TypeOK
  <2>5. ring' \in Seq(Seq(Packet)) /\ Len(ring') <= RingCap
    BY <1>1, <1>4, <2>4, AppendFrame DEF TypeOK
  <2> QED  BY <2>1, <2>3, <2>5
<1>5. CASE XmitFlush
  <2>1. skb \in Packet /\ <<skb>> \in Seq(Packet) /\ Len(<<skb>>) = 1
    BY <1>1, <1>5 DEF XmitFlush, Calls, TypeOK
  <2>2. queue # <<>> /\ queue \in Seq(Packet)
    BY <1>1, <1>5, XmitFlushes DEF TypeOK
  <2>3. Ship(queue) /\ queued_packets' = 1 /\ queue' = <<skb>>
    BY <1>5, <2>2 DEF XmitFlush
  <2>4. /\ stopped' \in BOOLEAN /\ error' \in BOOLEAN
        /\ ring' \in Seq(Seq(Packet)) /\ Len(ring') <= RingCap
        /\ lostFull' \subseteq Packet /\ lostError' \subseteq Packet
    BY <2>2, <2>3, <1>4
  <2>5. queued_packets' \in 0 .. FrameCap
    BY <2>3
  <2> QED  BY <1>1, <1>5, <2>1, <2>3, <2>4, <2>5
           DEF Typed, XmitFlush, TypeOK, Calls, Latest, ifVars
<1>6. CASE DeadlineShip
  <2>1. frame \in Seq(Packet) /\ Ship(frame)
    BY <1>1, <1>6 DEF DeadlineShip, TypeOK
  <2>2. /\ stopped' \in BOOLEAN /\ error' \in BOOLEAN
        /\ ring' \in Seq(Seq(Packet)) /\ Len(ring') <= RingCap
        /\ lostFull' \subseteq Packet /\ lostError' \subseteq Packet
    BY <2>1, <1>4
  <2>3. queued_packets' \in 0 .. FrameCap /\ frame' \in Seq(Packet) /\ queue' \in Seq(Packet)
    BY <1>1, <1>6 DEF DeadlineShip, TypeOK
  <2> QED  BY <1>1, <1>6, <2>2, <2>3, ZenonT(60)
           DEF Typed, DeadlineShip, TypeOK, Calls, Latest, xmVars, ifVars
<1>18. CASE DeadlineBegin
  <2>1. timer' \in {"packing", "flushed"} /\ lock' \in BOOLEAN
    BY <1>1, <1>18 DEF DeadlineBegin, TypeOK
  <2> QED  BY <1>1, <1>18, <2>1, ZenonT(60)
           DEF Typed, DeadlineBegin, TypeOK, Calls, Latest, xmVars, ifVars, devVars, lossVars
<1>19. CASE DeadlinePack
  <2>1. queue' \in Seq(Packet) /\ frame' \in Seq(Packet)
    BY <1>1, <1>19 DEF DeadlinePack, TypeOK
  <2> QED  BY <1>1, <1>19, <2>1, ZenonT(60)
           DEF Typed, DeadlinePack, TypeOK, Calls, Latest, xmVars, ifVars, devVars, lossVars
<1>7. CASE XmitNoRoom \/ XmitStop \/ XmitTimer
  BY <1>1, <1>7 DEF Typed, XmitNoRoom, XmitStop, XmitTimer, TypeOK, Calls, Latest,
                    ifVars, devVars, lossVars
<1>8. CASE TimerFire \/ DeadlineReturn
  <2>1. CASE TimerFire
    BY <1>1, <2>1, ZenonT(60) DEF Typed, TimerFire, TypeOK, Calls, Latest, xmVars, ifVars, devVars, lossVars
  <2>2. CASE DeadlineReturn
    BY <1>1, <2>2, ZenonT(60) DEF Typed, DeadlineReturn, TypeOK, Calls, Latest, xmVars, ifVars, devVars, lossVars
  <2> QED  BY <1>8, <2>1, <2>2
<1>9. CASE OpenReset
  BY <1>1, <1>9 DEF Typed, OpenReset, TypeOK, Calls, Latest, xmVars, devVars, lossVars
<1>16. CASE OpenStart
  BY <1>1, <1>16 DEF Typed, OpenStart, TypeOK, Calls, Latest, xmVars, devVars, lossVars
<1>10. CASE OpenDrain
  <2>1. queue' \in Seq(Packet) /\ drained' \subseteq Packet
    <3>1. Head(queue) \in Packet /\ Tail(queue) \in Seq(Packet)
      BY <1>1, <1>10, HeadToSet DEF OpenDrain, TypeOK
    <3> QED  BY <1>1, <1>10, <3>1 DEF OpenDrain, TypeOK
  <2> QED  BY <1>1, <1>10, <2>1, ZenonT(60)
           DEF Typed, OpenDrain, TypeOK, Calls, Latest, xmVars, ifVars, devVars
<1>11. CASE OpenControl
  <2>1. ring' = ring \/ (Len(ring) < RingCap /\ ring' = Append(ring, <<>>))
    BY <1>1, <1>11 DEF OpenControl, Push, TypeOK
  <2>2. ring' \in Seq(Seq(Packet)) /\ Len(ring') <= RingCap
    <3>1. <<>> \in Seq(Packet)
      OBVIOUS
    <3> QED  BY <1>1, <2>1, <3>1, AppendFrame DEF TypeOK
  <2>3. error' \in BOOLEAN
    BY <1>1, <1>11 DEF OpenControl, Push, TypeOK
  <2> QED  BY <1>1, <1>11, <2>2, <2>3
           DEF Typed, OpenControl, TypeOK, Calls, Latest, netVars, xmVars, lossVars
<1>12. CASE Close
  BY <1>1, <1>12 DEF Typed, Close, xmit_running, TypeOK, Calls, Latest, devVars
<1>13. CASE Irq
  BY <1>1, <1>13 DEF Typed, Irq, TypeOK, Calls, Latest, xmVars, ifVars, lossVars
<1>14. CASE ModemTake
  <2>1. Head(ring) \in Seq(Packet) /\ Tail(ring) \in Seq(Seq(Packet)) /\ Len(Tail(ring)) <= RingCap
    BY <1>1, <1>14 DEF ModemTake, TypeOK
  <2>2. taken' \in Seq(Packet)
    BY <1>1, <1>14, <2>1 DEF ModemTake, TypeOK
  <2> QED  BY <1>1, <1>14, <2>1, <2>2
           DEF Typed, ModemTake, TypeOK, Calls, Latest, netVars, xmVars, ifVars, lossVars
<1>15. CASE ModemOther \/ ModemCrash
  <2>1. CASE ModemOther
    BY <1>1, <2>1, ZenonT(60) DEF Typed, ModemOther, TypeOK, Calls, Latest, netVars, xmVars, ifVars, lossVars
  <2>2. CASE ModemCrash
    BY <1>1, <2>2, ZenonT(60) DEF Typed, ModemCrash, TypeOK, Calls, Latest, netVars, xmVars, ifVars, lossVars
  <2> QED  BY <1>15, <2>1, <2>2
<1>17. CASE UNCHANGED vars
  BY <1>1, <1>17 DEF Typed, TypeOK, Calls, Latest, vars, netVars, xmVars, ifVars, devVars, lossVars
<1> QED  BY <1>2, <1>3, <1>5, <1>6, <1>7, <1>8, <1>9, <1>10, <1>11, <1>12, <1>13, <1>14, <1>15,
        <1>16, <1>17, <1>18, <1>19
         DEF Next, Xmit, Deadline, Open

\* The lock is taken and released by the same side.
LEMMA HeldHolds == Typed /\ Held /\ [Next]_vars => Held'
<1> SUFFICES ASSUME Typed, Held, [Next]_vars PROVE Held'
  OBVIOUS
<1>1. lock \in BOOLEAN
  BY DEF Typed, TypeOK
<1>2. CASE XmitNoRoom \/ XmitStop
  BY <1>2 DEF XmitNoRoom, XmitStop, Held
<1>3. CASE DeadlineBegin \/ DeadlinePack \/ DeadlineShip
  BY <1>1, <1>3 DEF DeadlineBegin, DeadlinePack, DeadlineShip, xmVars, Held
<1>4. CASE TimerFire \/ DeadlineReturn
  BY <1>4 DEF TimerFire, DeadlineReturn, xmVars, Held
<1>5. CASE XmitTimer
  BY <1>5 DEF XmitTimer, hrtimer_active, Held
<1>6. CASE XmitCall \/ XmitEnter \/ XmitQueue \/ XmitFlush
  <2>1. UNCHANGED <<frame, lock, timer>> /\ xmPc' # "stopping" /\ xmPc # "stopping"
    BY <1>6 DEF XmitCall, XmitEnter, XmitQueue, XmitFlush, netVars
  <2> QED  BY <2>1 DEF Held
<1>7. CASE \/ OpenReset \/ OpenDrain \/ OpenStart \/ OpenControl \/ Close \/ Irq \/ ModemTake
           \/ ModemOther \/ ModemCrash \/ UNCHANGED vars
  <2>1. UNCHANGED <<frame, lock, timer, xmPc>>
    BY <1>7 DEF OpenReset, OpenDrain, OpenStart, OpenControl, Close, Irq, ModemTake, ModemOther,
                ModemCrash, vars, netVars, xmVars
  <2> QED  BY <2>1 DEF Held
<1> QED  BY <1>2, <1>3, <1>4, <1>5, <1>6, <1>7 DEF Next, Xmit, Deadline, Open

\* No step loses count of the queue.
LEMMA CountedHolds == Typed /\ Counted /\ Held /\ [Next]_vars => Counted'
<1> SUFFICES ASSUME Typed, Counted, Held, [Next]_vars PROVE Counted'
  OBVIOUS
<1> USE DEF Counted, CounterMatchesQueue
<1>0. Len(<<>>) = 0
  OBVIOUS
<1>1. TypeOK /\ Calls
  BY DEF Typed
<1>2. CASE XmitQueue
  <2>1. /\ Len(queue') = Len(queue) + 1 /\ queued_packets' = queued_packets + 1
        /\ ifPc' = "up" /\ ifPc = "up" /\ timer # "packing"
    BY <1>1, <1>2 DEF XmitQueue, TypeOK, Calls, ifVars, Held
  <2> QED  BY <2>1
<1>3. CASE XmitFlush
  <2>1. Len(queue') = 1 /\ queued_packets' = 1 /\ ifPc' = "up"
    BY <1>3, XmitFlushes DEF XmitFlush, ifVars
  <2> QED  BY <2>1
<1>4. CASE DeadlineBegin
  BY <1>4 DEF DeadlineBegin, ifVars
<1>5. CASE DeadlinePack
  BY <1>5 DEF DeadlinePack, ifVars
<1>6. CASE DeadlineShip
  BY <1>0, <1>6 DEF DeadlineShip, ifVars
<1>7. CASE OpenReset \/ OpenDrain
  BY <1>7 DEF OpenReset, OpenDrain, ifVars
<1>8. CASE OpenStart
  BY <1>0, <1>8 DEF OpenStart
<1>9. CASE OpenControl \/ Close
  BY <1>9 DEF OpenControl, Close, netVars
<1>10. CASE TimerFire \/ DeadlineReturn \/ XmitTimer
  BY <1>10 DEF TimerFire, DeadlineReturn, XmitTimer, hrtimer_active, ifVars
<1>11. CASE \/ XmitCall \/ XmitEnter \/ XmitNoRoom \/ XmitStop \/ Irq \/ ModemTake
            \/ ModemOther \/ ModemCrash \/ UNCHANGED vars
  <2>1. UNCHANGED <<queue, queued_packets, timer, ifPc>>
    BY <1>11 DEF XmitCall, XmitEnter, XmitNoRoom, XmitStop, Irq, ModemTake, ModemOther,
                 ModemCrash, vars, netVars, ifVars
  <2> QED  BY <2>1
<1> QED  BY <1>2, <1>3, <1>4, <1>5, <1>6, <1>7, <1>8, <1>9, <1>10, <1>11
         DEF Next, Xmit, Deadline, Open
-----------------------------------------------------------------------------
(* Places and their order.                                                  *)

PlaceVars == <<queue, frame, ring, taken, lostFull, lostError, drained>>

\* What was accepted has a number that was given out.
LEMMA AcceptedIsBefore ==
  ASSUME Typed, Placed, skb # None, xmPc # "timer"
  PROVE  /\ skb \in Packet /\ Before(Q, {skb}) /\ Before(F, {skb})
         /\ Before(R, {skb}) /\ Before(T, {skb})
         /\ skb \notin Q \cup F \cup R \cup T \cup Lost
         /\ {skb} \cup Q \cup F \cup R \cup T \cup Lost = {p \in Packet : p < fresh}
<1>1. skb \in Packet /\ skb = fresh - 1 /\ fresh \in Nat /\ Packet \subseteq Nat
  BY BoundAssumption DEF Typed, TypeOK, Latest, Packet, BoundAssumption
<1>2. Accepted = {p \in Packet : p < fresh /\ p # skb}
  BY DEF Accepted
<1>3. \A p \in Accepted : p < skb
  BY <1>1, <1>2
<1>4. {skb} \cup Accepted = {p \in Packet : p < fresh}
  <2>1. skb < fresh
    BY <1>1
  <2> QED  BY <1>1, <1>2, <2>1
<1> QED  BY <1>1, <1>2, <1>3, <1>4 DEF Placed, Before

\* The next packet comes after all that were accepted.
LEMMA AcceptedLater ==
  ASSUME Typed, skb = None \/ xmPc = "timer"
  PROVE  Accepted = {p \in Packet : p < fresh}
<1>1. None \notin Packet
  BY BoundAssumption DEF None, Packet, BoundAssumption
<1> QED  BY <1>1 DEF Accepted

\* A step that moves no packet.
LEMMA NothingMoves ==
  ASSUME Ordered, Placed, UNCHANGED PlaceVars, Accepted' = Accepted
  PROVE  Ordered' /\ Placed'
BY DEF Ordered, Placed, PlaceVars, Q, F, R, T, Lost, Flat, ToSet, Sorted, Before

\* What is in order is apart.
LEMMA OrderedApart ==
  ASSUME Typed, Ordered, Placed
  PROVE  /\ Q \cap R = {} /\ Q \cap T = {} /\ R \cap T = {}
         /\ F \cap Q = {} /\ F \cap R = {} /\ F \cap T = {}
<1>1. Q \cup F \cup R \cup T \subseteq Nat
  BY BoundAssumption DEF Placed, Accepted, Packet, BoundAssumption
<1> QED  BY <1>1 DEF Ordered, Before

\* What a flush does with the packets of the queue, or of the frame it has moved
\* them to.
LEMMA ShipPlaces ==
  ASSUME Typed, Ordered, Placed, UNCHANGED <<taken, drained>>,
         NEW packets \in Seq(Packet), Ship(packets), Sorted(packets),
         ToSet(packets) = Q \cup F, frame' = <<>>,
         NEW rest \in Seq(Packet), queue' = rest, Sorted(rest),
         Before(R, ToSet(rest)), Before(T, ToSet(rest)), Before(Q \cup F, ToSet(rest)),
         ToSet(rest) \cap Lost = {}, ToSet(rest) \cap (Q \cup F \cup R \cup T) = {},
         Accepted' = Accepted \cup ToSet(rest)
  PROVE  Ordered' /\ Placed'
<1> DEFINE P == ToSet(packets)
<1>1. ring \in Seq(Seq(Packet)) /\ error \in BOOLEAN /\ Packet \subseteq Nat
  BY BoundAssumption DEF Typed, TypeOK, Packet, BoundAssumption
<1>2. Q' = ToSet(rest) /\ F' = {} /\ T' = T /\ taken' = taken /\ drained' = drained
  BY EmptyToSet DEF Q, F, T
<1>3. Before(R, P) /\ Before(T, P) /\ P \cap R = {} /\ P \cap T = {} /\ P \cap Lost = {}
  <2>1. Before(R, P) /\ Before(T, P)
    BY DEF Ordered, Before
  <2>2. P \cap R = {} /\ P \cap T = {}
    BY OrderedApart
  <2> QED  BY <2>1, <2>2 DEF Placed
<1>4. \/ ring' = Append(ring, packets) /\ UNCHANGED <<lostFull, lostError>>
      \/ UNCHANGED ring /\ lostError' = lostError \cup P /\ lostFull' = lostFull
      \/ UNCHANGED ring /\ lostFull' = lostFull \cup P /\ lostError' = lostError
  <2>1. CASE error
    BY <2>1 DEF Ship, Push
  <2>2. CASE ~error /\ Len(ring) >= RingCap
    BY <2>2 DEF Ship, Push
  <2>3. CASE ~error /\ ~(Len(ring) >= RingCap)
    BY <2>3 DEF Ship, Push
  <2> QED  BY <2>1, <2>2, <2>3
<1>5. CASE /\ UNCHANGED ring
           /\ \/ lostError' = lostError \cup P /\ lostFull' = lostFull
              \/ lostFull' = lostFull \cup P /\ lostError' = lostError
  <2>1. R' = R
    BY <1>5 DEF R, Flat
  <2>2. Sorted(queue') /\ Sorted(frame') /\ Sorted(taken')
    BY <1>2, EmptySorted DEF Ordered
  <2>3. /\ Before(T', R') /\ Before(T', F') /\ Before(T', Q')
        /\ Before(R', F') /\ Before(R', Q') /\ Before(F', Q')
    BY <1>2, <2>1 DEF Ordered, Before
  <2>4. Ordered'
    BY <1>5, <2>2, <2>3 DEF Ordered
  <2>5. Placed'
    BY <1>2, <1>3, <1>5, <2>1 DEF Placed, Lost
  <2> QED  BY <2>4, <2>5
<1>6. CASE ring' = Append(ring, packets) /\ UNCHANGED <<lostFull, lostError>>
  <2>1. R' = R \cup P
    BY <1>1, <1>6, AppendFlat DEF R
  <2>2. /\ Len(ring') = Len(ring) + 1 /\ Len(ring) \in Nat /\ ring'[Len(ring) + 1] = packets
        /\ \A i \in 1 .. Len(ring) : ring'[i] = ring[i]
    BY <1>1, <1>6
  <2>3. \A i \in 1 .. Len(ring) : ToSet(ring[i]) \subseteq R
    BY DEF R, Flat
  <2>4. \A i \in 1 .. Len(ring') : Sorted(ring'[i])
    BY <2>2 DEF Ordered
  <2>5. \A i, j \in 1 .. Len(ring') : i < j => Before(ToSet(ring'[i]), ToSet(ring'[j]))
    <3> SUFFICES ASSUME NEW i \in 1 .. Len(ring'), NEW j \in 1 .. Len(ring'), i < j
                 PROVE  Before(ToSet(ring'[i]), ToSet(ring'[j]))
      OBVIOUS
    <3>1. CASE j \in 1 .. Len(ring)
      BY <2>2, <3>1 DEF Ordered
    <3>2. CASE j = Len(ring) + 1
      <4>1. i \in 1 .. Len(ring) /\ ring'[i] = ring[i] /\ ring'[j] = packets
        BY <2>2, <3>2
      <4> QED  BY <1>3, <2>3, <4>1 DEF Before
    <3> QED  BY <2>2, <3>1, <3>2
  <2>6. /\ Before(T', R') /\ Before(T', F') /\ Before(T', Q')
        /\ Before(R', F') /\ Before(R', Q') /\ Before(F', Q')
    BY <1>2, <1>3, <2>1 DEF Ordered, Before
  <2>7. Sorted(queue') /\ Sorted(frame') /\ Sorted(taken')
    BY <1>2, EmptySorted DEF Ordered
  <2>8. Ordered'
    BY <2>4, <2>5, <2>6, <2>7 DEF Ordered
  <2>9. Placed'
    BY <1>2, <1>3, <1>6, <2>1 DEF Placed, Lost
  <2> QED  BY <2>8, <2>9
<1> QED  BY <1>4, <1>5, <1>6

\* No step loses, doubles or reorders a packet.
LEMMA PlacesHold ==
  Typed /\ Held /\ Counted /\ Ordered /\ Placed /\ [Next]_vars => Ordered' /\ Placed'
<1> SUFFICES ASSUME Typed, Held, Counted, Ordered, Placed, [Next]_vars
             PROVE  Ordered' /\ Placed'
  OBVIOUS
<1> USE DEF PlaceVars
<1>0. /\ queue \in Seq(Packet) /\ frame \in Seq(Packet) /\ ring \in Seq(Seq(Packet)) /\ taken \in Seq(Packet)
      /\ Packet \subseteq Nat /\ None \notin Packet /\ fresh \in Nat /\ Calls
      /\ Packet \in SUBSET Nat
  BY BoundAssumption DEF Typed, TypeOK, Packet, None, BoundAssumption
<1>1. CASE XmitCall
  <2>1. UNCHANGED PlaceVars
    BY <1>1 DEF XmitCall, netVars, devVars, lossVars
  <2>2. CASE skb = None
    <3>1. /\ skb' = fresh /\ fresh' = fresh + 1 /\ xmPc' # "timer"
      BY <1>1, <2>2 DEF XmitCall
    <3>2. Accepted = {p \in Packet : p < fresh}
      BY <2>2, AcceptedLater
    <3>3. Accepted' = {p \in Packet : p < fresh + 1 /\ p # fresh}
      BY <3>1 DEF Accepted
    <3>4. Accepted' = Accepted
      <4>1. \A p \in Packet : p < fresh + 1 /\ p # fresh <=> p < fresh
        BY <1>0
      <4> QED  BY <3>2, <3>3, <4>1
    <3> QED  BY <2>1, <3>4, NothingMoves
  <2>3. CASE skb # None
    <3>1. UNCHANGED <<skb, fresh>> /\ xmPc # "timer" /\ xmPc' # "timer"
      BY <1>1, <2>3 DEF XmitCall
    <3>2. Accepted' = Accepted
      BY <3>1 DEF Accepted
    <3> QED  BY <2>1, <3>2, NothingMoves
  <2> QED  BY <2>2, <2>3
<1>2. CASE XmitEnter \/ XmitNoRoom \/ XmitStop
  <2>1. UNCHANGED PlaceVars
    BY <1>2 DEF XmitEnter, XmitNoRoom, XmitStop, netVars, devVars, lossVars
  <2>2. UNCHANGED <<skb, fresh>> /\ xmPc # "timer" /\ xmPc' # "timer"
    BY <1>2 DEF XmitEnter, XmitNoRoom, XmitStop
  <2>3. Accepted' = Accepted
    BY <2>2 DEF Accepted
  <2> QED  BY <2>1, <2>3, NothingMoves
<1>3. CASE XmitQueue
  <2>1. skb # None /\ xmPc # "timer" /\ UNCHANGED <<skb, fresh>> /\ xmPc' = "timer"
    BY <1>0, <1>3 DEF XmitQueue, Calls
  <2>2. /\ skb \in Packet /\ Before(Q, {skb}) /\ Before(F, {skb})
        /\ Before(R, {skb}) /\ Before(T, {skb})
        /\ skb \notin Q \cup F \cup R \cup T \cup Lost
        /\ {skb} \cup Q \cup F \cup R \cup T \cup Lost = {p \in Packet : p < fresh}
    BY <2>1, AcceptedIsBefore
  <2>3. queue' = Append(queue, skb) /\ UNCHANGED <<frame, ring, taken, lostFull, lostError, drained>>
    BY <1>3 DEF XmitQueue, devVars, lossVars
  <2>4. Q' = Q \cup {skb} /\ F' = F /\ R' = R /\ T' = T /\ Lost' = Lost
    <3>1. Q' = Q \cup {skb}
      BY <1>0, <2>3, AppendToSet DEF Q
    <3> QED  BY <2>3, <3>1 DEF F, R, T, Lost, Flat
  <2>5. Sorted(queue')
    BY <1>0, <2>2, <2>3, AppendSorted DEF Ordered, Q
  <2>6. Ordered'
    <3>1. /\ Before(T', R') /\ Before(T', F') /\ Before(T', Q')
          /\ Before(R', F') /\ Before(R', Q') /\ Before(F', Q')
      BY <2>2, <2>4 DEF Ordered, Before
    <3> QED  BY <2>3, <2>5, <3>1 DEF Ordered
  <2>7. Accepted' = {p \in Packet : p < fresh}
    BY <2>1 DEF Accepted
  <2>8. Placed'
    BY <2>2, <2>3, <2>4, <2>7 DEF Placed
  <2> QED  BY <2>6, <2>8
<1>4. CASE XmitFlush
  <2>1. skb # None /\ xmPc # "timer" /\ UNCHANGED <<skb, fresh>> /\ xmPc' = "timer"
    BY <1>0, <1>4 DEF XmitFlush, Calls
  <2>2. /\ skb \in Packet /\ Before(Q, {skb}) /\ Before(F, {skb})
        /\ Before(R, {skb}) /\ Before(T, {skb})
        /\ skb \notin Q \cup F \cup R \cup T \cup Lost
        /\ {skb} \cup Q \cup F \cup R \cup T \cup Lost = {p \in Packet : p < fresh}
    BY <2>1, AcceptedIsBefore
  <2>3. queue # <<>> /\ frame = <<>> /\ F = {}
    BY <1>4, XmitFlushes, EmptyToSet DEF F
  <2>4. Ship(queue) /\ queue' = <<skb>> /\ frame' = <<>> /\ UNCHANGED <<taken, drained>>
    BY <1>4, <2>3 DEF XmitFlush
  <2>5. <<skb>> \in Seq(Packet) /\ Sorted(<<skb>>) /\ ToSet(<<skb>>) = {skb}
    BY <2>2, EmptySorted, OneToSet
  <2>6. Accepted' = Accepted \cup {skb}
    <3>1. Accepted' = {p \in Packet : p < fresh}
      BY <2>1 DEF Accepted
    <3> QED  BY <2>2, <3>1 DEF Placed
  <2>7. {skb} \cap Lost = {} /\ {skb} \cap (Q \cup F \cup R \cup T) = {}
    BY <2>2
  <2>8. Sorted(queue) /\ ToSet(queue) = Q \cup F /\ Before(Q \cup F, {skb})
    BY <2>2, <2>3 DEF Ordered, Q
  <2> QED  BY <1>0, <2>2, <2>4, <2>5, <2>6, <2>7, <2>8, ShipPlaces
<1>5. CASE DeadlineShip
  <2>1. /\ Ship(frame) /\ queue = <<>> /\ queue' = <<>> /\ frame' = <<>>
        /\ UNCHANGED <<taken, drained, skb, fresh, xmPc>>
    BY <1>5 DEF DeadlineShip, xmVars
  <2>2. <<>> \in Seq(Packet) /\ Sorted(<<>>) /\ ToSet(<<>>) = {}
    BY EmptySorted, EmptyToSet
  <2>3. Accepted' = Accepted \cup {}
    BY <2>1 DEF Accepted
  <2>4. Before(Q \cup F, {}) /\ Before(R, {}) /\ Before(T, {})
    BY DEF Before
  <2>5. Sorted(frame) /\ ToSet(frame) = Q \cup F
    BY <2>1, EmptyToSet DEF Ordered, Q, F
  <2> QED  BY <1>0, <2>1, <2>2, <2>3, <2>4, <2>5, ShipPlaces
<1>12. CASE DeadlinePack
  <2> PICK p : p = Head(queue)
    OBVIOUS
  <2>1. /\ queue # <<>> /\ frame' = Append(frame, p) /\ queue' = Tail(queue)
        /\ UNCHANGED <<ring, taken, lostFull, lostError, drained, skb, fresh, xmPc>>
    BY <1>12 DEF DeadlinePack, xmVars, devVars, lossVars
  <2>2. p \in Packet /\ Q = {p} \cup Q' /\ Sorted(queue') /\ Before({p}, Q')
    BY <1>0, <2>1, HeadToSet, TailSorted DEF Ordered, Q
  <2>3. F' = F \cup {p} /\ R' = R /\ T' = T /\ Lost' = Lost
    <3>1. F' = F \cup {p}
      BY <1>0, <2>1, <2>2, AppendToSet DEF F
    <3> QED  BY <2>1, <3>1 DEF R, T, Lost, Flat
  <2>4. Sorted(frame')
    <3>1. Before(ToSet(frame), {p})
      BY <2>2 DEF Ordered, Before, F
    <3> QED  BY <1>0, <2>1, <2>2, <3>1, AppendSorted DEF Ordered
  <2>5. Ordered'
    <3>1. /\ Before(T', R') /\ Before(T', F') /\ Before(T', Q')
          /\ Before(R', F') /\ Before(R', Q') /\ Before(F', Q')
      BY <2>2, <2>3 DEF Ordered, Before
    <3> QED  BY <2>1, <2>2, <2>4, <3>1 DEF Ordered
  <2>6. Accepted' = Accepted
    BY <2>1 DEF Accepted
  <2>7. Placed'
    BY <2>1, <2>2, <2>3, <2>6 DEF Placed
  <2> QED  BY <2>5, <2>7
<1>6. CASE XmitTimer
  <2>1. UNCHANGED PlaceVars
    BY <1>6 DEF XmitTimer, devVars, lossVars
  <2>2. xmPc = "timer" /\ skb' = None /\ fresh' = fresh
    BY <1>6 DEF XmitTimer
  <2>3. Accepted' = Accepted
    BY <1>0, <2>2 DEF Accepted
  <2> QED  BY <2>1, <2>3, NothingMoves
<1>7. CASE OpenDrain
  <2> PICK p : p = Head(queue)
    OBVIOUS
  <2>1. /\ queue # <<>> /\ queue' = Tail(queue) /\ drained' = drained \cup {p}
        /\ UNCHANGED <<frame, ring, taken, lostFull, lostError, skb, fresh, xmPc>>
    BY <1>7 DEF OpenDrain, xmVars, devVars
  <2>2. p \in Packet /\ Q = {p} \cup Q' /\ Sorted(queue') /\ Before({p}, Q')
    BY <1>0, <2>1, HeadToSet, TailSorted DEF Ordered, Q
  <2>3. F' = F /\ R' = R /\ T' = T /\ Lost' = Lost \cup {p}
    BY <2>1 DEF F, R, T, Lost, Flat
  <2>4. Ordered'
    <3>1. /\ Before(T', R') /\ Before(T', F') /\ Before(T', Q')
          /\ Before(R', F') /\ Before(R', Q') /\ Before(F', Q')
      BY <2>2, <2>3 DEF Ordered, Before
    <3> QED  BY <2>1, <2>2, <3>1 DEF Ordered
  <2>5. Accepted' = Accepted
    BY <2>1 DEF Accepted
  <2>6. p \notin R /\ p \notin T /\ p \notin F /\ p \notin Q' /\ p \notin Lost
    <3>1. p \in Nat /\ p \in Q
      BY <1>0, <2>2
    <3>2. p \notin Q'
      BY <2>2, <3>1 DEF Before
    <3> QED  BY <3>1, <3>2, OrderedApart DEF Placed
  <2>7. Placed'
    BY <2>1, <2>2, <2>3, <2>5, <2>6 DEF Placed, Lost
  <2> QED  BY <2>4, <2>7
<1>8. CASE OpenControl
  <2>1. UNCHANGED <<queue, frame, taken, lostFull, lostError, drained, skb, fresh, xmPc>>
    BY <1>8 DEF OpenControl, netVars, xmVars, lossVars
  <2>2. Accepted' = Accepted
    BY <2>1 DEF Accepted
  <2>3. CASE ring' = ring
    BY <2>1, <2>2, <2>3, NothingMoves
  <2>4. CASE ring' = Append(ring, <<>>)
    <3>1. <<>> \in Seq(Packet)
      OBVIOUS
    <3>2. R' = R /\ Q' = Q /\ F' = F /\ T' = T
      BY <1>0, <2>1, <2>4, <3>1, AppendFlat, EmptyToSet DEF R, Q, F, T
    <3>3. /\ Len(ring') = Len(ring) + 1 /\ Len(ring) \in Nat /\ ring'[Len(ring) + 1] = <<>>
          /\ \A i \in 1 .. Len(ring) : ring'[i] = ring[i]
      BY <1>0, <2>4, <3>1
    <3>4. \A i \in 1 .. Len(ring') : Sorted(ring'[i])
      BY <3>3, EmptySorted DEF Ordered
    <3>5. \A i, j \in 1 .. Len(ring') : i < j => Before(ToSet(ring'[i]), ToSet(ring'[j]))
      <4> SUFFICES ASSUME NEW i \in 1 .. Len(ring'), NEW j \in 1 .. Len(ring'), i < j
                   PROVE  Before(ToSet(ring'[i]), ToSet(ring'[j]))
        OBVIOUS
      <4>1. CASE j \in 1 .. Len(ring)
        BY <3>3, <4>1 DEF Ordered
      <4>2. CASE j = Len(ring) + 1
        BY <3>3, <4>2, EmptyToSet DEF Before
      <4> QED  BY <3>3, <4>1, <4>2
    <3>6. Ordered'
      BY <2>1, <3>2, <3>4, <3>5 DEF Ordered
    <3>7. Placed'
      BY <2>1, <2>2, <3>2 DEF Placed, Lost
    <3> QED  BY <3>6, <3>7
  <2> QED  BY <1>8, <2>3, <2>4 DEF OpenControl, Push
<1>9. CASE Close
  <2>1. /\ UNCHANGED <<queue, frame, ring, taken, lostFull, lostError, fresh, xmPc>> /\ xmPc = "idle"
        /\ skb' = None /\ drained' = drained \cup ({skb} \ {None})
    BY <1>9 DEF Close, xmit_running, devVars
  <2>2. Ordered' /\ Q' = Q /\ F' = F /\ R' = R /\ T' = T
    BY <2>1 DEF Ordered, Q, F, R, T, Flat
  <2>3. CASE skb = None
    <3>1. drained' = drained /\ Accepted' = Accepted
      BY <2>1, <2>3 DEF Accepted
    <3> QED  BY <2>1, <3>1, NothingMoves
  <2>4. CASE skb # None
    <3>1. /\ skb \notin Q \cup F \cup R \cup T \cup Lost
          /\ {skb} \cup Q \cup F \cup R \cup T \cup Lost = {p \in Packet : p < fresh}
      BY <2>1, <2>4, AcceptedIsBefore
    <3>2. Accepted' = {p \in Packet : p < fresh}
      BY <1>0, <2>1 DEF Accepted
    <3>3. drained' = drained \cup {skb} /\ Lost' = Lost \cup {skb}
      BY <2>1, <2>4 DEF Lost
    <3>4. Placed'
      BY <2>1, <2>2, <3>1, <3>2, <3>3 DEF Placed, Lost
    <3> QED  BY <2>2, <3>4
  <2> QED  BY <2>3, <2>4
<1>10. CASE ModemTake
  <2>1. /\ ring # <<>> /\ ring' = Tail(ring) /\ taken' = taken \o Head(ring)
        /\ UNCHANGED <<queue, frame, lostFull, lostError, drained, skb, fresh, xmPc>>
    BY <1>10 DEF ModemTake, netVars, xmVars, lossVars
  <2>2. /\ Len(Tail(ring)) = Len(ring) - 1 /\ Len(ring) \in Nat /\ Len(ring) > 0
        /\ Head(ring) = ring[1] /\ Head(ring) \in Seq(Packet)
        /\ \A i \in 1 .. Len(ring) - 1 : Tail(ring)[i] = ring[i + 1]
    BY <1>0, <2>1
  <2>3. R = ToSet(Head(ring)) \cup R' /\ T' = T \cup ToSet(Head(ring)) /\ Q' = Q /\ F' = F /\ Lost' = Lost
    <3>1. R = ToSet(Head(ring)) \cup R'
      BY <1>0, <2>1, TailFlat DEF R
    <3>2. T' = T \cup ToSet(Head(ring))
      BY <1>0, <2>1, <2>2, ConcatToSet DEF T
    <3> QED  BY <2>1, <3>1, <3>2 DEF Q, F, Lost
  <2>4. Before(ToSet(Head(ring)), R')
    <3> SUFFICES ASSUME NEW a \in ToSet(Head(ring)), NEW b \in R' PROVE a < b
      BY DEF Before
    <3>1. PICK i \in 1 .. Len(ring') : b \in ToSet(ring'[i])
      BY DEF R, Flat
    <3>2. i \in 1 .. Len(ring) - 1 /\ i + 1 \in 1 .. Len(ring) /\ 1 \in 1 .. Len(ring) /\ 1 < i + 1
      BY <2>1, <2>2
    <3>3. ring'[i] = ring[i + 1]
      BY <2>1, <2>2, <3>2
    <3>4. Before(ToSet(ring[1]), ToSet(ring[i + 1]))
      BY <3>2 DEF Ordered
    <3> QED  BY <2>2, <3>1, <3>3, <3>4 DEF Before
  <2>5. Sorted(taken')
    <3>1. Sorted(Head(ring)) /\ Sorted(taken)
      BY <2>2 DEF Ordered
    <3>2. Before(ToSet(taken), ToSet(Head(ring)))
      BY <2>3 DEF Ordered, Before, T
    <3> QED  BY <1>0, <2>1, <2>2, <3>1, <3>2, ConcatSorted
  <2>6. \A i \in 1 .. Len(ring') : Sorted(ring'[i])
    BY <2>1, <2>2 DEF Ordered
  <2>7. \A i, j \in 1 .. Len(ring') : i < j => Before(ToSet(ring'[i]), ToSet(ring'[j]))
    <3> SUFFICES ASSUME NEW i \in 1 .. Len(ring'), NEW j \in 1 .. Len(ring'), i < j
                 PROVE  Before(ToSet(ring'[i]), ToSet(ring'[j]))
      OBVIOUS
    <3>1. /\ i \in 1 .. Len(ring) - 1 /\ j \in 1 .. Len(ring) - 1
          /\ i + 1 \in 1 .. Len(ring) /\ j + 1 \in 1 .. Len(ring) /\ i + 1 < j + 1
      BY <2>1, <2>2
    <3>2. ring'[i] = ring[i + 1] /\ ring'[j] = ring[j + 1]
      BY <2>1, <2>2, <3>1
    <3> QED  BY <3>1, <3>2 DEF Ordered
  <2>8. /\ Before(T', R') /\ Before(T', F') /\ Before(T', Q')
        /\ Before(R', F') /\ Before(R', Q') /\ Before(F', Q')
    BY <2>3, <2>4 DEF Ordered, Before
  <2>9. Ordered'
    BY <2>1, <2>5, <2>6, <2>7, <2>8 DEF Ordered
  <2>10. Accepted' = Accepted
    BY <2>1 DEF Accepted
  <2>11. Placed'
    BY <2>1, <2>3, <2>10 DEF Placed
  <2> QED  BY <2>9, <2>11
<1>11. CASE \/ TimerFire \/ DeadlineBegin \/ DeadlineReturn \/ OpenReset \/ OpenStart \/ Irq
            \/ ModemOther \/ ModemCrash \/ UNCHANGED vars
  <2>1. UNCHANGED PlaceVars /\ UNCHANGED <<skb, fresh, xmPc>>
    BY <1>11 DEF TimerFire, DeadlineBegin, DeadlineReturn, OpenReset, OpenStart, Irq, ModemOther,
                 ModemCrash,                 vars, netVars, xmVars, ifVars, devVars, lossVars
  <2>2. Accepted' = Accepted
    BY <2>1 DEF Accepted
  <2> QED  BY <2>1, <2>2, NothingMoves
<1> QED  BY <1>1, <1>2, <1>3, <1>4, <1>5, <1>6, <1>7, <1>8, <1>9, <1>10, <1>11, <1>12
         DEF Next, Xmit, Deadline, Open
-----------------------------------------------------------------------------
(* The theorems.                                                            *)

\* The invariant holds before the interface is up.
LEMMA IInvAtFirst == Init => IInv
<1> SUFFICES ASSUME Init PROVE IInv
  OBVIOUS
<1>1. Typed /\ Held /\ Counted
  <2>1. FrameCap \in Nat \ {0} /\ RingCap \in Nat \ {0} /\ MaxPackets \in Nat /\ MaxOpens \in Nat
    BY CapAssumption, BoundAssumption DEF CapAssumption, BoundAssumption
  <2>2. /\ <<>> \in Seq(Packet) /\ <<>> \in Seq(Seq(Packet)) /\ Len(<<>>) = 0 /\ Len(<<>>) <= RingCap
        /\ 0 \in 0 .. FrameCap /\ 0 \in 0 .. MaxOpens /\ 1 \in 1 .. MaxPackets + 1
    BY <2>1
  <2>3. TypeOK
    BY <2>2 DEF Init, TypeOK
  <2>4. Counted
    BY <2>2 DEF Init, Counted, CounterMatchesQueue
  <2> QED  BY <2>3, <2>4 DEF Init, Typed, Calls, Latest, Held
<1>2. Q = {} /\ F = {} /\ R = {} /\ T = {} /\ Lost = {}
  BY EmptyToSet, EmptyFlat DEF Init, Q, F, R, T, Lost
<1>3. Ordered
  BY <1>2, EmptySorted DEF Init, Ordered, Before
<1>4. Accepted = {}
  BY BoundAssumption DEF Init, Accepted, Packet, BoundAssumption
<1> QED  BY <1>1, <1>2, <1>3, <1>4 DEF IInv, Placed, Lost

\* The strengthened invariant holds throughout.
LEMMA IInvHolds == Spec => []IInv
<1>1. IInv /\ [Next]_vars => IInv'
  BY TypedHolds, HeldHolds, CountedHolds, PlacesHold DEF IInv
<1> QED  BY <1>1, IInvAtFirst, PTL DEF Spec

\* Type correctness of the transmit side.
THEOREM TypeCorrect == Spec => []TypeOK
<1>1. IInv => TypeOK
  BY DEF IInv, Typed
<1> QED  BY <1>1, IInvHolds, PTL

\* The counter net_must_flush trusts is the length of xn->queue, whatever the
\* unlocked reset in net_open, the timer callback and net_xmit do to it; only while
\* the callback or net_open empties the queue it may differ.
THEOREM CounterCorrect == Spec => []CounterMatchesQueue
<1>1. IInv => CounterMatchesQueue
  BY DEF IInv, Counted
<1> QED  BY <1>1, IInvHolds, PTL

\* Packets reach the modem in the order the stack sent them, however net_xmit's
\* flushes, the deadline's, retries and the interface going down and up
\* interleave.
THEOREM OrderKept == Spec => []InOrder
<1>1. IInv => InOrder
  BY DEF IInv, Ordered, Sorted, InOrder
<1> QED  BY <1>1, IInvHolds, PTL

\* Every packet net_xmit accepted is in exactly one place, and one returned as
\* NETDEV_TX_BUSY in none.
THEOREM PacketsConserved == Spec => []Conservation
<1>1. IInv => Conservation
  <2> SUFFICES ASSUME IInv PROVE Conservation
    OBVIOUS
  <2> DEFINE places == <<ToSet(queue), ToSet(frame), Flat(ring), ToSet(taken),
                      lostFull, lostError, drained>>
  <2>1. Ordered /\ Placed /\ Typed
    BY DEF IInv
  <2>2. /\ Q \cap R = {} /\ Q \cap T = {} /\ R \cap T = {}
        /\ F \cap Q = {} /\ F \cap R = {} /\ F \cap T = {}
    BY <2>1, OrderedApart
  <2>3. /\ places[1] = Q /\ places[2] = F /\ places[3] = R /\ places[4] = T
        /\ places[5] = lostFull /\ places[6] = lostError /\ places[7] = drained
    BY DEF Q, F, R, T
  <2> HIDE DEF places
  <2>4. 1 .. 7 = {1, 2, 3, 4, 5, 6, 7}
    OBVIOUS
  <2>5. \A i, j \in 1 .. 7 : i # j => places[i] \cap places[j] = {}
    BY <2>1, <2>2, <2>3, <2>4 DEF Placed, Lost
  <2>6. UNION {places[i] : i \in 1 .. 7} = Q \cup F \cup R \cup T \cup lostFull \cup lostError \cup drained
    BY <2>3, <2>4
  <2>7. UNION {places[i] : i \in 1 .. 7} = Accepted
    BY <2>1, <2>6 DEF Placed, Lost
  <2>8. Len(taken) = Cardinality(ToSet(taken))
    <3>1. taken \in Seq(Packet) /\ Packet \in SUBSET Nat /\ Sorted(taken)
      BY <2>1, BoundAssumption DEF Typed, TypeOK, Ordered, Packet, BoundAssumption
    <3> QED  BY <3>1, SortedIsInjective
  <2> QED  BY <2>5, <2>7, <2>8 DEF Conservation, places
<1> QED  BY <1>1, IInvHolds, PTL
=============================================================================
