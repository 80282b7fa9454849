-------------------------- MODULE QueuePairProofs ---------------------------
(***************************************************************************)
(* Theorems about QueuePair, for any number of processes, opens and waits  *)
(* that are cut short, any depth, and character devices and ttys alike.    *)
(***************************************************************************)
EXTENDS QueuePair, SequenceTheorems, TLAPS

-----------------------------------------------------------------------------
(* Who has the queue pair.                                                  *)

Labels == {Idle, "reset", "request", "openwait", "undo", "undowait", "fill", "opened",
           "stop", "stopwait"}
Commands == [op : {"open", "close"}, ring : Ring]

Types ==
  /\ pc \in [Procs -> Labels] /\ at \in [Procs -> Ring]
  /\ exists \subseteq Ring /\ modemOpen \subseteq Ring
  /\ cmds \in Seq(Commands)
  /\ fails \in Nat

\* qp->lock is held from the first to the last step of qp_start and qp_stop,
\* and qp->open is set until the file is closed.
Owner ==
  /\ holder \in Procs \cup {None}
  /\ \A p \in Procs : pc[p] \notin {Idle, "opened"} <=> holder = p
  /\ \A p \in Procs : pc[p] \notin {Idle, "stop", "stopwait"} => open

Owned == Types /\ Owner /\ Exclusive

\* The steps that no process takes touch neither processes nor rings.
Elsewhere == Irq \/ ModemCommand \/ ModemFill \/ OtherIrq \/ ModemCrash \/ UNCHANGED vars

\* The last of a sequence of commands is the last of its tail, or its head.
LastIs(s, c) == Len(s) > 0 /\ s[Len(s)] = c

\* What the modem takes from the command ring, and what it leaves there.
\* What the modem takes from the command ring, and what it leaves there.
LEMMA CommandsAreShortened ==
  ASSUME NEW s \in Seq(Commands), s # <<>>
  PROVE  /\ Head(s) \in Commands /\ Tail(s) \in Seq(Commands)
         /\ \A c : LastIs(s, c) => LastIs(Tail(s), c) \/ (Tail(s) = <<>> /\ Head(s) = c)
<1>1. /\ Head(s) \in Commands /\ Tail(s) \in Seq(Commands)
      /\ Len(s) \in Nat /\ Len(s) > 0 /\ Len(Tail(s)) = Len(s) - 1
  OBVIOUS
<1>2. CASE Len(s) = 1
  <2>1. Len(Tail(s)) = 0
    BY <1>1, <1>2
  <2>2. Tail(s) = <<>>
    BY <1>1, <2>1, EmptySeq
  <2>3. Head(s) = s[1]
    OBVIOUS
  <2> QED  BY <1>1, <1>2, <2>2, <2>3 DEF LastIs
<1>3. CASE Len(s) # 1
  <2>1. Len(Tail(s)) > 0
    BY <1>1, <1>3
  <2>2. Tail(s)[Len(Tail(s))] = s[Len(s)]
    BY <1>1, <2>1
  <2> QED  BY <1>1, <2>1, <2>2 DEF LastIs
<1> QED  BY <1>1, <1>2, <1>3

\* The variables keep their types.
\* The variables keep their types.
LEMMA TypesHold == Types /\ [Next]_vars => Types'
<1> SUFFICES ASSUME Types, [Next]_vars PROVE Types'
  OBVIOUS
<1> USE DEF Types, Labels, Ring, TX, RX, Goto, Finish, Idle
<1>1. ASSUME NEW p \in Procs, Proc(p) PROVE Types'
  <2>1. CASE OpenBusy(p) \/ Read(p)
    BY <2>1 DEF OpenBusy, Read, procVars, boundVars
  <2>5. CASE OpenBegin(p)
    BY <2>5 DEF OpenBegin
  <2>6. CASE CloseBegin(p)
    BY <2>6 DEF CloseBegin, boundVars
  <2>2. CASE CreateRing(p) \/ Fill(p)
    BY <2>2 DEF CreateRing, Fill, boundVars
  <2>3. CASE OpenSucceeds(p)
    BY <2>3 DEF OpenSucceeds, boundVars
  <2>7. CASE OpenFails(p) \/ CloseRing(p)
    <3>1. fails' = fails \/ fails' = fails + 1
      BY <2>7 DEF OpenFails, CloseRing, WaitFails
    <3>2. pc' \in [Procs -> Labels] /\ at' \in [Procs -> Ring]
      BY <2>7 DEF OpenFails, CloseRing
    <3>3. exists' \subseteq Ring /\ UNCHANGED <<cmds, modemOpen>>
      BY <2>7 DEF OpenFails, CloseRing
    <3> QED  BY <3>1, <3>2, <3>3
  <2>4. CASE RequestOpen(p) \/ RequestClose(p)
    <3>1. /\ pc' \in [Procs -> Labels] /\ at' \in [Procs -> Ring]
          /\ UNCHANGED <<exists, modemOpen, fails>>
      BY <2>4 DEF RequestOpen, RequestClose, boundVars
    <3>2. cmds' = cmds \/ \E c \in Commands : cmds' = Append(cmds, c)
      BY <2>4 DEF RequestOpen, RequestClose, Request, Commands
    <3>3. cmds' \in Seq(Commands)
      BY <3>2
    <3> QED  BY <3>1, <3>3
  <2> QED  BY <1>1, <2>1, <2>2, <2>3, <2>4, <2>5, <2>6, <2>7 DEF Proc, Opening, Closing
<1>2. CASE ModemCommand
  BY <1>2, CommandsAreShortened DEF ModemCommand, procVars, boundVars, Commands
<1>3. CASE Irq \/ ModemFill \/ OtherIrq \/ ModemCrash \/ UNCHANGED vars
  BY <1>3 DEF Irq, ModemFill, OtherIrq, ModemCrash, vars, procVars, boundVars
<1> QED  BY <1>1, <1>2, <1>3 DEF Next

\* The one who is under way in open or close holds qp->lock or the file.
\* The one who is under way in open or close holds qp->lock or the file.
LEMMA OwnedHolds == Owned /\ [Next]_vars => Owned'
<1> SUFFICES ASSUME Owned, [Next]_vars PROVE (Owner /\ Exclusive)'
  BY TypesHold DEF Owned
<1> USE DEF Owned, Owner, Exclusive, Idle
<1>1. pc \in [Procs -> Labels] /\ at \in [Procs -> Ring] /\ None \notin Procs
  BY KindAssumption DEF Types, KindAssumption
<1>2. ASSUME NEW p \in Procs, Proc(p) PROVE (Owner /\ Exclusive)'
  <2>1. CASE OpenBusy(p) \/ Read(p)
    BY <2>1 DEF OpenBusy, Read, procVars
  <2>2. CASE OpenBegin(p)
    BY <1>1, <2>2 DEF OpenBegin, Goto
  <2>3. CASE CloseBegin(p)
    BY <1>1, <2>3 DEF CloseBegin, Goto
  <2>4. CASE CreateRing(p) \/ RequestOpen(p)
    <3>1. /\ pc[p] \in {"reset", "request"} /\ UNCHANGED <<open, holder>>
          /\ \E l \in {"request", "openwait"} : pc' = [pc EXCEPT ![p] = l]
      BY <2>4 DEF CreateRing, RequestOpen, Goto
    <3> QED  BY <1>1, <3>1
  <2>8. CASE OpenSucceeds(p)
    <3>1. /\ pc[p] = "openwait" /\ UNCHANGED <<open, holder>>
          /\ \E l \in {"reset", "fill"} : pc' = [pc EXCEPT ![p] = l]
      BY <2>8 DEF OpenSucceeds, Goto
    <3> QED  BY <1>1, <3>1
  <2>7. CASE RequestClose(p)
    BY <1>1, <2>7 DEF RequestClose, Goto
  <2>5. CASE OpenFails(p) \/ CloseRing(p)
    BY <1>1, <2>5 DEF OpenFails, CloseRing, Goto, Finish
  <2>6. CASE Fill(p)
    <3>1. /\ pc[p] = "fill" /\ pc' = [pc EXCEPT ![p] = "opened"]
          /\ holder' = None /\ open' = open
      BY <2>6 DEF Fill, Goto, Finish
    <3>2. open
      BY <3>1
    <3>3. open'
      BY <3>1, <3>2
    <3>4. \A q \in Procs \ {p} : pc[q] = Idle
      BY <3>1
    <3>5. \A q \in Procs : pc'[q] = IF q = p THEN "opened" ELSE Idle
      BY <1>1, <3>1, <3>4
    <3>6. Exclusive'
      BY <3>5
    <3>7. (\A q \in Procs : pc[q] \notin {Idle, "opened"} <=> holder = q)'
      BY <1>1, <3>1, <3>5
    <3> QED  BY <1>1, <3>1, <3>3, <3>6, <3>7
  <2> QED  BY <1>2, <2>1, <2>2, <2>3, <2>4, <2>5, <2>6, <2>7, <2>8 DEF Proc, Opening, Closing
<1>3. CASE Elsewhere
  <2>1. UNCHANGED <<pc, holder, open>>
    BY <1>3 DEF Elsewhere, Irq, ModemCommand, ModemFill, OtherIrq, ModemCrash, vars, procVars
  <2> QED  BY <2>1
<1> QED  BY <1>2, <1>3 DEF Next, Elsewhere

\* In the beginning nobody does.
\* In the beginning nobody does.
LEMMA OwnedAtFirst == Init => Owned
<1> SUFFICES ASSUME Init PROVE Owned
  OBVIOUS
<1>1. Types
  BY DEF Init, Types, Labels, Ring, TX, RX, Idle
<1>2. Owner /\ Exclusive
  BY KindAssumption DEF Init, Owner, Exclusive, Idle, KindAssumption
<1> QED  BY <1>1, <1>2 DEF Owned

\* At most one process is inside the driver's idea of an open file: qp_start
\* takes qp->lock, refuses an open queue pair with -EBUSY, and qp->open outlives
\* the lock.
THEOREM OneOwner == Spec => []Exclusive
<1>1. Init => Owned
  BY OwnedAtFirst
<1>2. Owned /\ [Next]_vars => Owned'
  BY OwnedHolds
<1>3. Owned => Exclusive
  BY DEF Owned
<1> QED  BY <1>1, <1>2, <1>3, PTL DEF Spec
-----------------------------------------------------------------------------
(* Which rings exist.                                                       *)

RingsFit(p) ==
  /\ pc[p] = "reset" => exists = IF at[p] = TX THEN {} ELSE {TX}
  /\ pc[p] \in {"request", "openwait"} => exists = IF at[p] = TX THEN {TX} ELSE Ring
  /\ pc[p] \in {"fill", "opened"} => exists = Ring
  /\ pc[p] \in {"undo", "undowait"} => exists = Ring /\ at[p] = TX
  /\ pc[p] \in {"stop", "stopwait"} => /\ exists = IF at[p] = TX THEN Ring ELSE {RX}
                                       /\ ~open

\* A queue pair that can be opened has no rings.
RingInv ==
  /\ Owned
  /\ \A p \in Procs : RingsFit(p)
  /\ ~open /\ holder = None => exists = {}
  /\ NoDoubleCreate

\* While one process has the queue pair, or nobody has, the others are idle.
\* While one process has the queue pair, or nobody has, the others are idle.
LEMMA OthersAreIdle ==
  ASSUME Owned, NEW p \in Procs, pc[p] # Idle \/ (~open /\ holder = None)
  PROVE  \A q \in Procs \ {p} : pc[q] = Idle
<1>1. CASE pc[p] # Idle
  BY <1>1 DEF Owned, Exclusive
<1>2. CASE ~open /\ holder = None
  <2>1. ASSUME NEW q \in Procs PROVE pc[q] = Idle
    BY <1>2, KindAssumption DEF Owned, Owner, KindAssumption, Idle
  <2> QED  BY <2>1
<1> QED  BY <1>1, <1>2

\* It is enough to look at the process that takes the step.
LEMMA OneRingUser ==
  ASSUME RingInv, Owned', NEW p \in Procs, pc'[p] # Idle \/ (~open' /\ holder' = None),
         RingsFit(p)', (~open /\ holder = None => exists = {})', NoDoubleCreate'
  PROVE  RingInv'
<1>1. \A q \in Procs \ {p} : pc'[q] = Idle
  <2>1. CASE pc'[p] # Idle
    BY <2>1 DEF Owned, Exclusive
  <2>2. CASE ~open' /\ holder' = None
    BY <2>2, KindAssumption DEF Owned, Owner, KindAssumption, Idle
  <2> QED  BY <2>1, <2>2
<1> QED  BY <1>1 DEF RingInv, RingsFit, Idle

\* Rings are made and freed by their owner only.
\* Rings are made and freed by their owner only.
LEMMA RingsHold == RingInv /\ [Next]_vars => RingInv'
<1> SUFFICES ASSUME RingInv, [Next]_vars PROVE RingInv'
  OBVIOUS
<1>1. Owned'
  BY OwnedHolds DEF RingInv
<1>2. /\ pc \in [Procs -> Labels] /\ at \in [Procs -> Ring] /\ Owner /\ Owner'
      /\ None \notin Procs /\ TX # RX
  BY <1>1, KindAssumption DEF RingInv, Owned, Types, KindAssumption, TX, RX
<1>3. ASSUME NEW p \in Procs, Proc(p) PROVE RingInv'
  <2>0. RingsFit(p) /\ NoDoubleCreate /\ (~open /\ holder = None => exists = {})
    BY DEF RingInv
  <2>1. CASE OpenBusy(p) \/ Read(p)
    <3>1. UNCHANGED <<pc, at, holder, open, exists, warned>>
      BY <2>1 DEF OpenBusy, Read, procVars
    <3> QED  BY <1>1, <3>1 DEF RingInv, RingsFit, NoDoubleCreate
  <2>2. CASE OpenBegin(p)
    <3>1. /\ pc'[p] = "reset" /\ at'[p] = TX /\ exists = {}
          /\ UNCHANGED <<exists, warned>> /\ holder' # None
      BY <1>2, <2>0, <2>2 DEF OpenBegin, Goto
    <3>2. RingsFit(p)' /\ NoDoubleCreate' /\ (~open /\ holder = None => exists = {})'
      BY <2>0, <3>1 DEF RingsFit, NoDoubleCreate
    <3> QED  BY <1>1, <3>1, <3>2, OneRingUser DEF Idle
  <2>3. CASE CreateRing(p)
    <3>1. /\ pc[p] = "reset" /\ pc'[p] = "request" /\ at'[p] = at[p]
          /\ exists' = exists \cup {at[p]} /\ at[p] \in Ring /\ holder' # None
          /\ warned' = IF at[p] \in exists THEN warned \cup {"BUG_ON depth"} ELSE warned
      BY <1>2, <2>3 DEF CreateRing, Goto, Owner, Idle
    <3>2. at[p] \notin exists
      BY <2>0, <3>1, <1>2 DEF RingsFit, Ring
    <3>3. RingsFit(p)' /\ NoDoubleCreate'
      BY <1>2, <2>0, <3>1, <3>2 DEF RingsFit, NoDoubleCreate, Ring
    <3> QED  BY <1>1, <3>1, <3>3, OneRingUser DEF Idle
  <2>4. CASE RequestOpen(p) \/ OpenSucceeds(p)
    <3>1. /\ UNCHANGED <<exists, warned>> /\ holder' # None /\ at[p] \in Ring
          /\ \/ pc[p] = "request" /\ pc'[p] = "openwait" /\ at'[p] = at[p]
             \/ pc[p] = "openwait" /\ pc'[p] = "reset" /\ at'[p] = RX /\ at[p] = TX
             \/ pc[p] = "openwait" /\ pc'[p] = "fill" /\ at'[p] = RX /\ at[p] # TX
      <4>1. pc[p] # Idle /\ pc[p] # "opened" /\ holder # None /\ at[p] \in Ring
        BY <1>2, <2>4 DEF RequestOpen, OpenSucceeds, Owner, Idle
      <4>2. CASE RequestOpen(p)
        BY <1>2, <4>1, <4>2 DEF RequestOpen, Goto
      <4>3. CASE OpenSucceeds(p)
        BY <1>2, <4>1, <4>3 DEF OpenSucceeds, Goto
      <4> QED  BY <2>4, <4>2, <4>3
    <3>2. exists' = exists /\ NoDoubleCreate'
      BY <2>0, <3>1 DEF NoDoubleCreate
    <3>3. RingsFit(p)'
      <4>1. CASE pc[p] = "request" /\ pc'[p] = "openwait" /\ at'[p] = at[p]
        BY <2>0, <3>2, <4>1 DEF RingsFit
      <4>2. CASE pc[p] = "openwait" /\ pc'[p] = "reset" /\ at'[p] = RX /\ at[p] = TX
        BY <1>2, <2>0, <3>2, <4>2 DEF RingsFit
      <4>3. CASE pc[p] = "openwait" /\ pc'[p] = "fill" /\ at'[p] = RX /\ at[p] # TX
        BY <2>0, <3>2, <4>3 DEF RingsFit
      <4> QED  BY <3>1, <4>1, <4>2, <4>3
    <3>4. pc'[p] # Idle
      BY <3>1 DEF Idle
    <3>5. holder' # None
      BY <3>1
    <3> QED  BY <1>1, <3>2, <3>3, <3>4, <3>5, OneRingUser
  <2>5. CASE OpenFails(p)
    <3>1. open
      BY <1>2, <2>5 DEF OpenFails, Owner, Idle
    <3>2. open'
      BY <3>1, <2>5 DEF OpenFails
    <3>3. /\ UNCHANGED <<exists, warned>> /\ pc[p] = "openwait" /\ at[p] \in Ring
          /\ \A q \in Procs \ {p} : pc[q] = Idle /\ pc'[q] = pc[q]
          /\ \/ pc'[p] = Idle
             \/ pc'[p] = "undo" /\ at'[p] = TX /\ at[p] # TX
      BY <1>2, <2>5, OthersAreIdle DEF OpenFails, Goto, Finish, RingInv, Idle
    <3>4. RingsFit(p)' /\ NoDoubleCreate'
      BY <1>2, <2>0, <3>3 DEF RingsFit, NoDoubleCreate, Ring, Idle
    <3> QED  BY <1>1, <3>2, <3>3, <3>4 DEF RingInv, RingsFit, Idle
  <2>6. CASE Fill(p)
    <3>1. /\ UNCHANGED <<exists, warned>> /\ pc[p] = "fill" /\ pc'[p] = "opened"
      BY <1>2, <2>6 DEF Fill, Goto, Finish
    <3>2. open
      BY <1>2, <3>1 DEF Owner, Idle
    <3>3. open'
      BY <3>2, <2>6 DEF Fill
    <3>4. RingsFit(p)' /\ NoDoubleCreate'
      BY <2>0, <3>1 DEF RingsFit, NoDoubleCreate
    <3> QED  BY <1>1, <3>1, <3>3, <3>4, OneRingUser DEF Idle
  <2>7. CASE CloseBegin(p)
    <3>1. /\ UNCHANGED <<exists, warned>> /\ pc[p] = "opened" /\ pc'[p] = "stop"
          /\ at'[p] = TX /\ ~open' /\ holder' # None
      BY <1>2, <2>7 DEF CloseBegin, Goto
    <3>4. RingsFit(p)' /\ NoDoubleCreate'
      BY <2>0, <3>1 DEF RingsFit, NoDoubleCreate
    <3> QED  BY <1>1, <3>1, <3>4, OneRingUser DEF Idle
  <2>8. CASE RequestClose(p)
    <3>1. /\ UNCHANGED <<exists, open>> /\ holder' # None /\ at'[p] = at[p] /\ at[p] \in Ring
          /\ \/ pc[p] = "stop" /\ pc'[p] = "stopwait"
             \/ pc[p] = "undo" /\ pc'[p] = "undowait"
          /\ at[p] \in exists => warned' = warned
      BY <1>2, <2>8 DEF RequestClose, Goto, Owner, Idle
    <3>2. at[p] \in exists
      BY <1>2, <2>0, <3>1 DEF RingsFit, Ring
    <3>3. NoDoubleCreate'
      BY <2>0, <3>1, <3>2 DEF NoDoubleCreate
    <3>4. RingsFit(p)'
      BY <2>0, <3>1 DEF RingsFit
    <3> QED  BY <1>1, <3>1, <3>3, <3>4, OneRingUser DEF Idle
  <2>9. CASE CloseRing(p)
    <3>1. /\ exists' = exists \ {at[p]} /\ UNCHANGED <<open, warned>> /\ at[p] \in Ring
          /\ \A q \in Procs \ {p} : pc[q] = Idle /\ pc'[q] = pc[q]
          /\ \/ pc[p] = "stopwait" /\ at[p] = TX /\ pc'[p] = "stop" /\ at'[p] = RX /\ UNCHANGED holder
             \/ pc[p] = "stopwait" /\ at[p] # TX /\ pc'[p] = Idle
             \/ pc[p] = "undowait" /\ pc'[p] = Idle
      BY <1>2, <2>9, OthersAreIdle DEF CloseRing, Goto, Finish, RingInv, Idle
    <3>2. RingsFit(p)'
      BY <1>2, <2>0, <3>1 DEF RingsFit, Ring, Idle
    <3>3. pc[p] = "undowait" => open
      BY <1>2 DEF Owner, Idle
    <3>4. (~open /\ holder = None => exists = {})'
      BY <1>2, <2>0, <3>1, <3>3 DEF RingsFit, Ring, Owner, Idle
    <3> QED  BY <1>1, <2>0, <3>1, <3>2, <3>4 DEF RingInv, RingsFit, NoDoubleCreate, Idle
  <2> QED  BY <1>3, <2>1, <2>2, <2>3, <2>4, <2>5, <2>6, <2>7, <2>8, <2>9 DEF Proc, Opening, Closing
<1>4. CASE Elsewhere
  <2>1. /\ UNCHANGED <<pc, at, holder, open, exists>>
        /\ warned' \subseteq warned \cup {"disabled ring", "stale cursor"}
    BY <1>4 DEF Elsewhere, Irq, ModemCommand, ModemFill, OtherIrq, ModemCrash, vars, procVars
  <2> QED  BY <1>1, <2>1 DEF RingInv, RingsFit, NoDoubleCreate
<1> QED  BY <1>3, <1>4 DEF Next, Elsewhere

\* However opens and closes fail, by timeout, signal or error, and however late
\* their commands are carried out, td_ring_create never meets a ring that exists
\* (BUG_ON) and td_ring_destroy never one that does not (WARN_ON).
THEOREM RingsAreCreatedOnce == Spec => []NoDoubleCreate
<1>1. Init => RingInv
  BY OwnedAtFirst DEF Init, RingInv, RingsFit, NoDoubleCreate, Idle
<1>2. RingInv /\ [Next]_vars => RingInv'
  BY RingsHold
<1>3. RingInv => NoDoubleCreate
  BY DEF RingInv
<1> QED  BY <1>1, <1>2, <1>3, PTL DEF Spec
-----------------------------------------------------------------------------
(* What the modem has opened.                                               *)

Cmd(op, r) == [op |-> op, ring |-> r]

\* RING_OPEN is the last command when its wait begins, and the wait only
\* succeeds when every command, late ones included, has been carried out.
Connecting(p) ==
  /\ pc[p] = "openwait" /\ at[p] = TX /\ ~error =>
       \/ cmds = <<>> /\ TX \in modemOpen
       \/ LastIs(cmds, Cmd("open", TX))
  /\ pc[p] \in {"reset", "request"} /\ at[p] # TX => cmds = <<>> /\ TX \in modemOpen
  /\ pc[p] = "openwait" /\ at[p] # TX /\ ~error =>
       /\ TX \in modemOpen
       /\ \/ cmds = <<>> /\ RX \in modemOpen
          \/ cmds = <<Cmd("open", RX)>>
  /\ pc[p] \in {"fill", "opened"} => cmds = <<>> /\ modemOpen = Ring

ConnInv == RingInv /\ error \in BOOLEAN /\ \A p \in Procs : Connecting(p)

\* An error is never taken back.
\* An error is never taken back.
LEMMA ErrorIsSticky ==
  ASSUME error \in BOOLEAN, [Next]_vars
  PROVE  error' \in BOOLEAN /\ (error => error')
<1>1. ASSUME NEW p \in Procs, Proc(p) PROVE error' \in BOOLEAN /\ (error => error')
  <2>1. error' = error \/ error' = (error \/ ~alive)
    BY <1>1 DEF Proc, Opening, Closing, OpenBusy, OpenBegin, CreateRing, RequestOpen,
                OpenSucceeds, OpenFails, Fill, CloseBegin, RequestClose, CloseRing, Read,
                Request, poll, devVars
  <2> QED  BY <2>1, Zenon
<1>2. CASE Elsewhere
  <2>1. error' = error \/ error' = (error \/ ~alive)
    BY <1>2 DEF Elsewhere, Irq, ModemCommand, ModemFill, OtherIrq, ModemCrash, poll, vars, devVars
  <2> QED  BY <2>1, Zenon
<1> QED  BY <1>1, <1>2 DEF Next, Elsewhere

\* A command that is sent is the last one.
LEMMA RequestIsLast ==
  ASSUME cmds \in Seq(Commands), ~error, NEW op \in {"open", "close"}, NEW r \in Ring,
         Request(op, r)
  PROVE  LastIs(cmds, Cmd(op, r))' /\ (cmds = <<>> => cmds' = <<Cmd(op, r)>>)
<1>1. cmds' = Append(cmds, Cmd(op, r)) /\ Cmd(op, r) \in Commands
  BY DEF Request, Cmd, Commands
<1>2. Len(cmds) \in Nat /\ Len(cmds') = Len(cmds) + 1 /\ cmds'[Len(cmds')] = Cmd(op, r)
  BY <1>1
<1>3. ASSUME cmds = <<>> PROVE cmds' = <<Cmd(op, r)>>
  BY <1>1, <1>3
<1> QED  BY <1>2, <1>3 DEF LastIs

\* What is on its way to the modem ends with what the owner wants.
\* What is on its way to the modem ends with what the owner wants.
LEMMA ConnectingHolds == ConnInv /\ [Next]_vars => ConnInv'
<1> SUFFICES ASSUME ConnInv, [Next]_vars PROVE ConnInv'
  OBVIOUS
<1>1. RingInv' /\ error' \in BOOLEAN /\ (error => error')
  BY RingsHold, ErrorIsSticky DEF ConnInv
<1>2. /\ pc \in [Procs -> Labels] /\ at \in [Procs -> Ring] /\ cmds \in Seq(Commands)
      /\ Owned /\ Owned' /\ TX # RX
  BY <1>1 DEF ConnInv, RingInv, Owned, Types, TX, RX
<1>3. ASSUME NEW p \in Procs, Proc(p) PROVE ConnInv'
  <2>0. Connecting(p)
    BY DEF ConnInv
  <2>1. CASE OpenBusy(p) \/ Read(p)
    <3>1. UNCHANGED <<pc, at, cmds, modemOpen>>
      BY <2>1 DEF OpenBusy, Read, procVars
    <3> QED  BY <1>1, <3>1 DEF ConnInv, Connecting, LastIs
  <2>2. CASE ~(OpenBusy(p) \/ Read(p))
    <3>1. \A q \in Procs \ {p} : pc'[q] = Idle
      <4>1. pc[p] # Idle \/ (~open /\ holder = None)
        BY <1>3, <2>2 DEF Proc, Opening, Closing, OpenBegin, CreateRing, RequestOpen,
              OpenSucceeds, OpenFails, Fill, CloseBegin, RequestClose, CloseRing, Idle
      <4>2. \A q \in Procs \ {p} : pc[q] = Idle
        BY <1>2, <4>1, OthersAreIdle
      <4>3. \A q \in Procs \ {p} : pc'[q] = pc[q]
        BY <1>2, <1>3, <2>2 DEF Proc, Opening, Closing, OpenBegin, CreateRing, RequestOpen,
              OpenSucceeds, OpenFails, Fill, CloseBegin, RequestClose, CloseRing, Goto, Finish
      <4> QED  BY <4>2, <4>3
    <3>2. Connecting(p)'
      <4>1. CASE OpenBegin(p) \/ CloseBegin(p) \/ RequestClose(p) \/ CloseRing(p) \/ OpenFails(p)
        <5>1. \/ pc'[p] \in {Idle, "stop", "stopwait", "undo", "undowait"}
              \/ pc'[p] = "reset" /\ at'[p] = TX
          BY <1>2, <4>1 DEF OpenBegin, CloseBegin, RequestClose, CloseRing, OpenFails, Goto, Finish
        <5> QED  BY <5>1 DEF Connecting, Idle
      <4>2. CASE CreateRing(p)
        <5>1. /\ pc[p] = "reset" /\ pc'[p] = "request" /\ at'[p] = at[p]
              /\ UNCHANGED <<cmds, modemOpen>>
          BY <1>2, <4>2 DEF CreateRing, Goto
        <5> QED  BY <2>0, <5>1 DEF Connecting
      <4>3. CASE RequestOpen(p)
        <5>1. /\ pc[p] = "request" /\ pc'[p] = "openwait" /\ at'[p] = at[p] /\ at[p] \in Ring
              /\ Request("open", at[p]) /\ modemOpen' = modemOpen
          BY <1>2, <4>3 DEF RequestOpen, Goto
        <5>2. CASE error
          BY <1>1, <5>1, <5>2 DEF Connecting
        <5>3. CASE ~error
          <6>1. /\ LastIs(cmds, Cmd("open", at[p]))'
                /\ cmds = <<>> => cmds' = <<Cmd("open", at[p])>>
            BY <1>2, <5>1, <5>3, RequestIsLast
          <6>2. CASE at[p] = TX
            BY <5>1, <6>1, <6>2 DEF Connecting
          <6>3. CASE at[p] # TX
            <7>1. at[p] = RX /\ cmds' = <<Cmd("open", RX)>> /\ TX \in modemOpen'
              BY <2>0, <5>1, <6>1, <6>3 DEF Connecting, Ring
            <7> QED  BY <5>1, <6>3, <7>1 DEF Connecting
          <6> QED  BY <6>2, <6>3
        <5> QED  BY <5>2, <5>3
      <4>4. CASE OpenSucceeds(p)
        <5>1. /\ pc[p] = "openwait" /\ cmds = <<>> /\ ~error /\ UNCHANGED <<cmds, modemOpen>>
              /\ modemOpen \subseteq Ring
              /\ \/ at[p] = TX /\ pc'[p] = "reset" /\ at'[p] = RX
                 \/ at[p] # TX /\ pc'[p] = "fill"
          BY <1>2, <4>4 DEF OpenSucceeds, WaitSucceeds, Goto, Owned, Types
        <5>2. Len(cmds) = 0
          BY <5>1, EmptySeq
        <5>3. ~LastIs(cmds, Cmd("open", TX)) /\ cmds # <<Cmd("open", RX)>>
          BY <5>2 DEF LastIs
        <5>4. TX \in modemOpen /\ (at[p] # TX => RX \in modemOpen)
          BY <2>0, <5>1, <5>3 DEF Connecting
        <5>5. at[p] # TX => modemOpen = Ring
          BY <5>1, <5>4 DEF Ring
        <5> QED  BY <1>2, <5>1, <5>4, <5>5 DEF Connecting
      <4>5. CASE Fill(p)
        <5>1. pc[p] = "fill" /\ pc'[p] = "opened" /\ UNCHANGED <<cmds, modemOpen>>
          BY <1>2, <4>5 DEF Fill, Goto, Finish
        <5> QED  BY <2>0, <5>1 DEF Connecting
      <4> QED  BY <1>3, <2>2, <4>1, <4>2, <4>3, <4>4, <4>5 DEF Proc, Opening, Closing
    <3> QED  BY <1>1, <3>1, <3>2 DEF ConnInv, Connecting, Idle
  <2> QED  BY <2>1, <2>2
<1>4. CASE ModemCommand
  <2> SUFFICES ASSUME NEW p \in Procs PROVE Connecting(p)'
    BY <1>1 DEF ConnInv
  <2>0. Connecting(p)
    BY DEF ConnInv
  <2>1. /\ cmds # <<>> /\ cmds' = Tail(cmds) /\ UNCHANGED <<pc, at, error>>
        /\ modemOpen' = IF Head(cmds).op = "open" THEN modemOpen \cup {Head(cmds).ring}
                                                  ELSE modemOpen \ {Head(cmds).ring}
    BY <1>4 DEF ModemCommand, procVars
  <2>2. ASSUME pc[p] = "openwait", at[p] = TX, ~error
        PROVE  (cmds' = <<>> /\ TX \in modemOpen') \/ LastIs(cmds, Cmd("open", TX))'
    <3>1. LastIs(cmds, Cmd("open", TX))
      BY <2>0, <2>1, <2>2 DEF Connecting
    <3>2. LastIs(Tail(cmds), Cmd("open", TX)) \/ (Tail(cmds) = <<>> /\ Head(cmds) = Cmd("open", TX))
      BY <1>2, <2>1, <3>1, CommandsAreShortened
    <3>3. CASE Head(cmds) = Cmd("open", TX)
      <4>1. TX \in modemOpen'
        BY <2>1, <3>3 DEF Cmd
      <4> QED  BY <2>1, <3>2, <4>1 DEF LastIs
    <3>4. CASE LastIs(Tail(cmds), Cmd("open", TX))
      BY <2>1, <3>4 DEF LastIs
    <3> QED  BY <3>2, <3>3, <3>4
  <2>3. ASSUME pc[p] = "openwait", at[p] # TX, ~error
        PROVE  TX \in modemOpen' /\ cmds' = <<>> /\ RX \in modemOpen'
    <3>1. TX \in modemOpen /\ cmds = <<Cmd("open", RX)>>
      BY <2>0, <2>1, <2>3 DEF Connecting
    <3>2. Head(cmds) = Cmd("open", RX) /\ Tail(cmds) = <<>>
      BY <3>1
    <3>3. modemOpen' = modemOpen \cup {RX}
      BY <2>1, <3>2 DEF Cmd
    <3> QED  BY <2>1, <3>1, <3>2, <3>3
  <2>4. /\ ~(pc[p] \in {"reset", "request"} /\ at[p] # TX)
        /\ pc[p] \notin {"fill", "opened"}
    BY <2>0, <2>1 DEF Connecting
  <2> QED  BY <2>1, <2>2, <2>3, <2>4 DEF Connecting
<1>5. CASE Irq \/ ModemFill \/ OtherIrq \/ ModemCrash \/ UNCHANGED vars
  <2>1. UNCHANGED <<pc, at, cmds, modemOpen>>
    BY <1>5 DEF Irq, ModemFill, OtherIrq, ModemCrash, vars, procVars
  <2> QED  BY <1>1, <2>1 DEF ConnInv, Connecting, LastIs
<1> QED  BY <1>3, <1>4, <1>5 DEF Next

\* In the beginning there are no rings.
\* In the beginning there are no rings.
LEMMA RingInvAtFirst == Init => RingInv
BY OwnedAtFirst DEF Init, RingInv, RingsFit, NoDoubleCreate, Idle

\* Whenever open() has succeeded the file has both rings and the modem has
\* opened both, even when commands of earlier calls timed out and were carried
\* out late: cmd_ring_wait waits for the whole command ring, not for its own
\* command.
THEOREM OpenFilesWork == Spec => []OpenFileWorks
<1>1. Init => ConnInv
  BY RingInvAtFirst DEF Init, ConnInv, Connecting, Idle
<1>2. ConnInv /\ [Next]_vars => ConnInv'
  BY ConnectingHolds
<1>3. ConnInv => OpenFileWorks
  BY DEF ConnInv, RingInv, RingsFit, Connecting, OpenFileWorks
<1> QED  BY <1>1, <1>2, <1>3, PTL DEF Spec
-----------------------------------------------------------------------------
(* What the modem uses while no wait has been cut short.                    *)

Undisturbed == fails = 0 /\ alive
Quiet(rings) == cmds = <<>> /\ modemOpen = rings
Sent(op, r, rings) == cmds = <<Cmd(op, r)>> /\ modemOpen = rings

\* Every command is waited for: host and modem are at most one command apart.
Synchronous(p) ==
  /\ pc[p] \in {"reset", "request"} => Quiet(IF at[p] = TX THEN {} ELSE {TX})
  /\ pc[p] = "openwait" /\ at[p] = TX => Sent("open", TX, {}) \/ Quiet({TX})
  /\ pc[p] = "openwait" /\ at[p] # TX => Sent("open", RX, {TX}) \/ Quiet(Ring)
  /\ pc[p] \in {"fill", "opened"} => Quiet(Ring)
  /\ pc[p] = "stop" => Quiet(IF at[p] = TX THEN Ring ELSE {RX})
  /\ pc[p] = "stopwait" /\ at[p] = TX => Sent("close", TX, Ring) \/ Quiet({RX})
  /\ pc[p] = "stopwait" /\ at[p] # TX => Sent("close", RX, {RX}) \/ Quiet({})
  /\ pc[p] \notin {"undo", "undowait"}

\* Nobody has the queue pair, or somebody has.
Settled ==
  /\ ~open /\ holder = None => Quiet({})
  /\ open => \E p \in Procs : pc[p] # Idle

SyncInv ==
  /\ RingInv /\ error \in BOOLEAN /\ open \in BOOLEAN /\ alive \in BOOLEAN
  /\ Undisturbed => ~error /\ (\A p \in Procs : Synchronous(p)) /\ Settled

\* What changed before a state that is undisturbed.
LEMMA StillUndisturbed ==
  ASSUME SyncInv, [Next]_vars, Undisturbed'
  PROVE  Undisturbed /\ ~error /\ ~error' /\ fails' = fails
<1>1. fails \in Nat /\ (fails' = fails \/ fails' = fails + 1) /\ (alive' => alive)
  <2>1. ASSUME NEW p \in Procs, Proc(p)
        PROVE  (fails' = fails \/ fails' = fails + 1) /\ alive' = alive
    <3>1. CASE OpenFails(p) \/ CloseRing(p)
      BY <3>1 DEF OpenFails, CloseRing, WaitFails, devVars
    <3>2. CASE OpenBusy(p) \/ OpenBegin(p) \/ CloseBegin(p)
      BY <3>2 DEF OpenBusy, OpenBegin, CloseBegin, devVars, boundVars
    <3>3. CASE CreateRing(p) \/ RequestOpen(p) \/ OpenSucceeds(p) \/ Fill(p) \/ RequestClose(p) \/ Read(p)
      BY <3>3 DEF CreateRing, RequestOpen, OpenSucceeds, Fill, RequestClose, Read, devVars, boundVars
    <3> QED  BY <2>1, <3>1, <3>2, <3>3 DEF Proc, Opening, Closing
  <2>2. ASSUME Elsewhere PROVE fails' = fails /\ (alive' => alive)
    <3>1. CASE ModemCrash
      BY <3>1 DEF ModemCrash, boundVars
    <3>2. CASE Irq \/ ModemCommand \/ ModemFill \/ OtherIrq \/ UNCHANGED vars
      <4>1. fails' = fails /\ alive' = alive
        BY <3>2 DEF Irq, ModemCommand, ModemFill, OtherIrq, vars, boundVars, devVars
      <4> QED  BY <4>1, Zenon
    <3> QED  BY <2>2, <3>1, <3>2 DEF Elsewhere
  <2>3. fails \in Nat
    BY DEF SyncInv, RingInv, Owned, Types
  <2>4. Elsewhere \/ \E p \in Procs : Proc(p)
    BY DEF Next, Elsewhere
  <2> QED  BY <2>1, <2>2, <2>3, <2>4
<1>2. Undisturbed /\ fails' = fails
  BY <1>1 DEF Undisturbed
<1>3. ~error /\ alive
  BY <1>2 DEF SyncInv, Undisturbed
<1>4. ASSUME NEW p \in Procs, Proc(p) PROVE ~error'
  <2>1. error' = error \/ error' = (error \/ ~alive)
    BY <1>4 DEF Proc, Opening, Closing, OpenBusy, OpenBegin, CreateRing, RequestOpen,
                OpenSucceeds, OpenFails, Fill, CloseBegin, RequestClose, CloseRing, Read,
                Request, poll, devVars
  <2> QED  BY <1>3, <2>1, Zenon
<1>5. ASSUME Elsewhere PROVE ~error'
  <2>1. error' = error \/ error' = (error \/ ~alive)
    BY <1>5 DEF Elsewhere, Irq, ModemCommand, ModemFill, OtherIrq, ModemCrash, poll, vars, devVars
  <2> QED  BY <1>3, <2>1, Zenon
<1>6. ~error'
  BY <1>4, <1>5 DEF Next, Elsewhere
<1> QED  BY <1>2, <1>3, <1>6

\* The flags of file and modem keep theirs.
\* The flags of file and modem keep theirs.
LEMMA BooleansHold ==
  ASSUME open \in BOOLEAN, alive \in BOOLEAN, [Next]_vars
  PROVE  open' \in BOOLEAN /\ alive' \in BOOLEAN
<1>1. ASSUME NEW p \in Procs, Proc(p) PROVE open' \in BOOLEAN /\ alive' \in BOOLEAN
  BY <1>1 DEF Proc, Opening, Closing, OpenBusy, OpenBegin, CreateRing, RequestOpen,
              OpenSucceeds, OpenFails, Fill, CloseBegin, RequestClose, CloseRing, Read, devVars
<1>2. CASE Elsewhere
  BY <1>2 DEF Elsewhere, Irq, ModemCommand, ModemFill, OtherIrq, ModemCrash, vars, devVars
<1> QED  BY <1>1, <1>2 DEF Next, Elsewhere

\* While no wait is cut short, host and modem stay one command apart at most.
\* While no wait is cut short, host and modem stay one command apart at most.
LEMMA SyncHolds == SyncInv /\ [Next]_vars => SyncInv'
<1> SUFFICES ASSUME SyncInv, [Next]_vars PROVE SyncInv'
  OBVIOUS
<1>1. RingInv' /\ error' \in BOOLEAN /\ open' \in BOOLEAN /\ alive' \in BOOLEAN
  BY RingsHold, ErrorIsSticky, BooleansHold DEF SyncInv
<1> SUFFICES ASSUME Undisturbed'
             PROVE  ~error' /\ (\A p \in Procs : Synchronous(p))' /\ Settled'
  BY <1>1 DEF SyncInv
<1>2. Undisturbed /\ ~error /\ ~error' /\ fails' = fails /\ fails = 0 /\ alive
  BY StillUndisturbed DEF Undisturbed
<1>3. ~WaitFails
  BY <1>2 DEF WaitFails
<1>4. /\ pc \in [Procs -> Labels] /\ at \in [Procs -> Ring] /\ cmds \in Seq(Commands)
      /\ Owned /\ Owned' /\ TX # RX /\ Settled /\ None \notin Procs
  BY <1>1, <1>2, KindAssumption
     DEF SyncInv, RingInv, Owned, Types, TX, RX, KindAssumption
<1>5. ASSUME NEW p \in Procs, Proc(p)
      PROVE  ~error' /\ (\A q \in Procs : Synchronous(q))' /\ Settled'
  <2>0. Synchronous(p) /\ RingsFit(p)
    BY <1>2 DEF SyncInv, RingInv
  <2>1. CASE OpenBusy(p) \/ Read(p)
    <3>1. UNCHANGED <<pc, at, open, holder, cmds, modemOpen>>
      BY <2>1 DEF OpenBusy, Read, procVars
    <3> QED  BY <1>2, <1>4, <3>1 DEF SyncInv, Synchronous, Settled, Quiet, Sent
  <2>2. CASE ~(OpenBusy(p) \/ Read(p))
    <3>1. \A q \in Procs \ {p} : pc'[q] = Idle
      <4>1. pc[p] # Idle \/ (~open /\ holder = None)
        BY <1>5, <2>2 DEF Proc, Opening, Closing, OpenBegin, CreateRing, RequestOpen,
              OpenSucceeds, OpenFails, Fill, CloseBegin, RequestClose, CloseRing, Idle
      <4>2. \A q \in Procs \ {p} : pc[q] = Idle
        BY <1>4, <4>1, OthersAreIdle
      <4>3. \A q \in Procs \ {p} : pc'[q] = pc[q]
        BY <1>4, <1>5, <2>2 DEF Proc, Opening, Closing, OpenBegin, CreateRing, RequestOpen,
              OpenSucceeds, OpenFails, Fill, CloseBegin, RequestClose, CloseRing, Goto, Finish
      <4> QED  BY <4>2, <4>3
    <3>2. Synchronous(p)' /\ (pc'[p] # Idle \/ (~open' /\ Quiet({})'))
      <4>1. CASE OpenBegin(p)
        <5>1. /\ pc'[p] = "reset" /\ at'[p] = TX /\ Quiet({}) /\ UNCHANGED <<cmds, modemOpen>>
          BY <1>4, <4>1 DEF OpenBegin, Goto, Settled
        <5> QED  BY <5>1 DEF Synchronous, Quiet, Idle
      <4>2. CASE CreateRing(p)
        <5>1. /\ pc[p] = "reset" /\ pc'[p] = "request" /\ at'[p] = at[p]
              /\ UNCHANGED <<cmds, modemOpen>>
          BY <1>4, <4>2 DEF CreateRing, Goto
        <5> QED  BY <2>0, <5>1 DEF Synchronous, Quiet, Idle
      <4>3. CASE RequestOpen(p)
        <5>1. /\ pc[p] = "request" /\ pc'[p] = "openwait" /\ at'[p] = at[p] /\ at[p] \in Ring
              /\ Request("open", at[p]) /\ modemOpen' = modemOpen
          BY <1>4, <4>3 DEF RequestOpen, Goto
        <5>2. Quiet(IF at[p] = TX THEN {} ELSE {TX})
          BY <2>0, <5>1 DEF Synchronous
        <5>3. cmds' = <<Cmd("open", at[p])>>
          BY <1>2, <1>4, <5>1, <5>2, RequestIsLast DEF Quiet
        <5>4. at[p] = TX => Sent("open", TX, {})'
          BY <5>1, <5>2, <5>3 DEF Quiet, Sent
        <5>5. at[p] # TX => Sent("open", RX, {TX})'
          BY <5>1, <5>2, <5>3 DEF Quiet, Sent, Ring
        <5> QED  BY <5>1, <5>4, <5>5 DEF Synchronous, Idle
      <4>4. CASE OpenSucceeds(p)
        <5>1. /\ pc[p] = "openwait" /\ cmds = <<>> /\ UNCHANGED <<cmds, modemOpen>>
              /\ \/ at[p] = TX /\ pc'[p] = "reset" /\ at'[p] = RX
                 \/ at[p] # TX /\ pc'[p] = "fill"
          BY <1>4, <4>4 DEF OpenSucceeds, WaitSucceeds, Goto
        <5>2. cmds # <<Cmd("open", TX)>> /\ cmds # <<Cmd("open", RX)>>
          BY <5>1
        <5>3. Quiet(IF at[p] = TX THEN {TX} ELSE Ring)
          BY <2>0, <5>1, <5>2 DEF Synchronous, Sent
        <5>4. CASE at[p] = TX
          BY <1>4, <5>1, <5>3, <5>4 DEF Synchronous, Quiet, Idle
        <5>5. CASE at[p] # TX
          BY <5>1, <5>3, <5>5 DEF Synchronous, Quiet, Idle
        <5> QED  BY <5>4, <5>5
      <4>5. CASE Fill(p)
        <5>1. pc[p] = "fill" /\ pc'[p] = "opened" /\ UNCHANGED <<cmds, modemOpen>>
          BY <1>4, <4>5 DEF Fill, Goto, Finish
        <5> QED  BY <2>0, <5>1 DEF Synchronous, Quiet, Idle
      <4>6. CASE CloseBegin(p)
        <5>1. /\ pc[p] = "opened" /\ pc'[p] = "stop" /\ at'[p] = TX
              /\ UNCHANGED <<cmds, modemOpen>>
          BY <1>4, <4>6 DEF CloseBegin, Goto
        <5> QED  BY <2>0, <5>1 DEF Synchronous, Quiet, Idle
      <4>7. CASE RequestClose(p)
        <5>0. pc[p] = "stop" /\ pc'[p] = "stopwait" /\ at'[p] = at[p] /\ modemOpen' = modemOpen
          BY <1>4, <2>0, <4>7 DEF RequestClose, Goto, Synchronous
        <5>1. at[p] \in exists /\ at[p] \in Ring
          BY <1>4, <2>0, <5>0 DEF RingsFit, Ring
        <5>2. Request("close", at[p])
          BY <4>7, <5>1 DEF RequestClose
        <5>3. Quiet(IF at[p] = TX THEN Ring ELSE {RX})
          BY <2>0, <5>0 DEF Synchronous
        <5>4. cmds' = <<Cmd("close", at[p])>>
          BY <1>2, <1>4, <5>1, <5>2, <5>3, RequestIsLast DEF Quiet
        <5>5. at[p] = TX => Sent("close", TX, Ring)'
          BY <5>0, <5>3, <5>4 DEF Quiet, Sent
        <5>6. at[p] # TX => Sent("close", RX, {RX})'
          BY <5>0, <5>1, <5>3, <5>4 DEF Quiet, Sent, Ring
        <5> QED  BY <5>0, <5>5, <5>6 DEF Synchronous, Idle
      <4>8. CASE CloseRing(p)
        <5>0. pc[p] = "stopwait" /\ cmds = <<>> /\ UNCHANGED <<cmds, modemOpen, open>>
          BY <1>3, <2>0, <4>8 DEF CloseRing, WaitSucceeds, Synchronous
        <5>1. \/ at[p] = TX /\ pc'[p] = "stop" /\ at'[p] = RX
              \/ at[p] # TX /\ pc'[p] = Idle
          BY <1>4, <4>8, <5>0 DEF CloseRing, Goto, Finish
        <5>2. cmds # <<Cmd("close", TX)>> /\ cmds # <<Cmd("close", RX)>>
          BY <5>0
        <5>3. Quiet(IF at[p] = TX THEN {RX} ELSE {})
          BY <2>0, <5>0, <5>2 DEF Synchronous, Sent
        <5>4. CASE at[p] = TX
          BY <1>4, <5>0, <5>1, <5>3, <5>4 DEF Synchronous, Quiet, Idle
        <5>5. CASE at[p] # TX
          <6>1. ~open
            BY <2>0, <5>0 DEF RingsFit
          <6>2. ~open'
            BY <5>0, <6>1
          <6> QED  BY <5>0, <5>1, <5>3, <5>5, <6>2 DEF Synchronous, Quiet, Idle
        <5> QED  BY <5>4, <5>5
      <4> QED  BY <1>3, <1>5, <2>2, <4>1, <4>2, <4>3, <4>4, <4>5, <4>6, <4>7, <4>8
               DEF Proc, Opening, Closing, OpenFails
    <3>3. (\A q \in Procs : Synchronous(q))'
      BY <3>1, <3>2 DEF Synchronous, Idle
    <3>4. Settled'
      <4>1. CASE pc'[p] # Idle
        <5>1. ~(~open' /\ holder' = None)
          BY <1>4, <4>1 DEF Owned, Owner, Idle
        <5> QED  BY <4>1, <5>1 DEF Settled
      <4>2. CASE ~open' /\ Quiet({})'
        BY <4>2 DEF Settled
      <4> QED  BY <3>2, <4>1, <4>2
    <3> QED  BY <1>2, <3>3, <3>4
  <2> QED  BY <2>1, <2>2
<1>6. CASE ModemCommand
  <2>1. /\ cmds # <<>> /\ cmds' = Tail(cmds) /\ UNCHANGED <<pc, at, open, holder>>
        /\ modemOpen' = IF Head(cmds).op = "open" THEN modemOpen \cup {Head(cmds).ring}
                                                  ELSE modemOpen \ {Head(cmds).ring}
    BY <1>6 DEF ModemCommand, procVars
  <2>2. Settled'
    BY <1>4, <2>1 DEF Settled, Quiet
  <2>3. ASSUME NEW op \in {"open", "close"}, NEW r \in Ring, NEW rings, Sent(op, r, rings)
        PROVE  Quiet(IF op = "open" THEN rings \cup {r} ELSE rings \ {r})'
    <3>1. Head(cmds) = Cmd(op, r) /\ Tail(cmds) = <<>>
      BY <2>3 DEF Sent
    <3>2. Head(cmds).op = op /\ Head(cmds).ring = r /\ modemOpen = rings
      BY <2>3, <3>1 DEF Sent, Cmd
    <3>3. modemOpen' = IF op = "open" THEN rings \cup {r} ELSE rings \ {r}
      BY <2>1, <3>2
    <3> QED  BY <2>1, <3>1, <3>3 DEF Quiet
  <2>4. /\ Sent("open", TX, {}) => Quiet({TX})'
        /\ Sent("open", RX, {TX}) => Quiet(Ring)'
        /\ Sent("close", TX, Ring) => Quiet({RX})'
        /\ Sent("close", RX, {RX}) => Quiet({})'
    <3>1. TX \in Ring /\ RX \in Ring
      BY DEF Ring
    <3>2. {} \cup {TX} = {TX} /\ {TX} \cup {RX} = Ring /\ Ring \ {TX} = {RX} /\ {RX} \ {RX} = {}
      BY <1>4 DEF Ring
    <3>3. Sent("open", TX, {}) => Quiet({} \cup {TX})'
      BY <2>3, <3>1
    <3>4. Sent("open", RX, {TX}) => Quiet({TX} \cup {RX})'
      BY <2>3, <3>1
    <3>5. Sent("close", TX, Ring) => Quiet(Ring \ {TX})'
      BY <2>3, <3>1
    <3>6. Sent("close", RX, {RX}) => Quiet({RX} \ {RX})'
      BY <2>3, <3>1
    <3> QED  BY <3>2, <3>3, <3>4, <3>5, <3>6
  <2>5. ASSUME NEW p \in Procs PROVE Synchronous(p)'
    <3>1. Synchronous(p)
      BY <1>2 DEF SyncInv
    <3>2. \A rings : ~Quiet(rings)
      BY <2>1 DEF Quiet
    <3> QED  BY <2>1, <2>4, <3>1, <3>2 DEF Synchronous
  <2> QED  BY <1>2, <2>2, <2>5
<1>7. CASE Irq \/ ModemFill \/ OtherIrq \/ ModemCrash \/ UNCHANGED vars
  <2>1. UNCHANGED <<pc, at, open, holder, cmds, modemOpen>>
    BY <1>7 DEF Irq, ModemFill, OtherIrq, ModemCrash, vars, procVars
  <2> QED  BY <1>2, <1>4, <2>1 DEF SyncInv, Synchronous, Settled, Quiet, Sent
<1> QED  BY <1>5, <1>6, <1>7 DEF Next

\* As long as no wait was cut short by a timeout or a signal and the modem is
\* alive, it never uses a ring whose pages the driver has freed: td_ring_destroy
\* frees only after RING_CLOSE was carried out.
THEOREM NoDmaAfterFree == Spec => []NoDmaToFreedPages
<1>1. Init => SyncInv
  BY RingInvAtFirst DEF Init, SyncInv, Undisturbed, Synchronous, Settled, Quiet, Idle
<1>2. SyncInv /\ [Next]_vars => SyncInv'
  BY SyncHolds
<1>3. SyncInv => NoDmaToFreedPages
  <2> SUFFICES ASSUME SyncInv, Undisturbed PROVE modemOpen \subseteq exists
    BY DEF NoDmaToFreedPages, Undisturbed
  <2>1. Settled /\ Owned /\ TX # RX /\ modemOpen \subseteq Ring
    BY DEF SyncInv, RingInv, Owned, Types, TX, RX
  <2>2. CASE \E p \in Procs : pc[p] # Idle
    <3>1. PICK p \in Procs : pc[p] # Idle
      BY <2>2
    <3>2. Synchronous(p) /\ RingsFit(p) /\ pc[p] \in Labels
      BY DEF SyncInv, RingInv, Owned, Types
    <3> QED  BY <2>1, <3>1, <3>2 DEF Synchronous, RingsFit, Quiet, Sent, Labels, Ring, Idle
  <2>3. CASE ~ \E p \in Procs : pc[p] # Idle
    BY <2>1, <2>3 DEF Settled, Quiet, Owned, Owner
  <2> QED  BY <2>2, <2>3
<1> QED  BY <1>1, <1>2, <1>3, PTL DEF Spec
=============================================================================
