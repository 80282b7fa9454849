----------------------------- MODULE QueuePair ------------------------------
(***************************************************************************)
(* The life of one queue pair: qp_start and qp_stop, called by the         *)
(* processes that open and close its character device or tty, the          *)
(* RING_OPEN and RING_CLOSE commands they send to the modem, and the       *)
(* interrupt handler, which takes no lock and looks only at qp->open.      *)
(*                                                                         *)
(* What the rings carry is in TdRing; here the RX ring's cursors are kept, *)
(* because they outlive a close.  A command can fail for the host (a       *)
(* timeout, a signal, xmm->error) and still be carried out later.          *)
(***************************************************************************)
EXTENDS Integers, Sequences, FiniteSets

CONSTANTS Procs,     \* processes that open and close the file
          Depth,     \* qp->depth
          Tty,       \* qp->port.ops is set: the interrupt handler reads
          MaxFail,   \* bound: waits that end in a timeout or a signal
          MaxOpens,  \* bound: calls of open()
          None       \* nobody

ASSUME DepthAssumption == Depth \in Nat /\ Depth >= 2
ASSUME KindAssumption == Tty \in BOOLEAN /\ None \notin Procs
ASSUME BoundAssumption == MaxFail \in Nat /\ MaxOpens \in Nat

TX == "tx"
RX == "rx"
Ring == {TX, RX}

VARIABLES open, holder,      \* qp->open; who holds qp->lock
          pc, at, result,    \* each process: progress, ring in hand, open()'s result
          exists,            \* rings whose td_ring.depth is not 0
          s_wptr, s_rptr, last_handled,  \* of the RX ring
          cmds,              \* command ring: sent, not yet carried out
          modemOpen,         \* rings the modem uses
          irq, alive, error,
          fails, opens,      \* bounds
          ptrsReset,         \* RX: s_rptr and s_wptr were reset since the memset
          warned             \* history: which assertion of the driver fired

procVars == <<pc, at, result>>
rxVars == <<s_wptr, s_rptr, last_handled, ptrsReset>>
devVars == <<irq, alive, error>>
boundVars == <<fails, opens>>
vars == <<open, holder, procVars, exists, rxVars, cmds, modemOpen, devVars, boundVars, warned>>

\* (Operators named X_Y, with Y saying what is wrong, are not part of the
\* model: each is a plausible mistake in X that a property must notice.)
Succ_NoWrap(i) == i + 1
Succ(i) == (i + 1) % Depth
has_data == s_rptr # last_handled
Idle == "closed"

Init ==
  /\ open = FALSE /\ holder = None
  /\ pc = [p \in Procs |-> Idle] /\ at = [p \in Procs |-> TX]
  /\ result = [p \in Procs |-> "none"]
  /\ exists = {} /\ cmds = << >> /\ modemOpen = {}
  /\ s_wptr = 0 /\ s_rptr = 0 /\ last_handled = 0 /\ ptrsReset = TRUE
  /\ irq = FALSE /\ alive = TRUE /\ error = FALSE
  /\ fails = 0 /\ opens = 0 /\ warned = {}

Goto(p, label, r) == pc' = [pc EXCEPT ![p] = label] /\ at' = [at EXCEPT ![p] = r]
Finish(p, label, res) ==
  /\ Goto(p, label, TX)
  /\ result' = [result EXCEPT ![p] = res]
  /\ holder' = None
-----------------------------------------------------------------------------
(* cmd_ring_execute: refused when the device is in error, else written and *)
(* rung; the wait ends when ALL commands are done, or in error, or when    *)
(* time is up or a signal arrives.                                         *)
poll == error' = (error \/ ~alive)
Request(op, r) ==
  IF error THEN UNCHANGED <<cmds, error>>
           ELSE cmds' = Append(cmds, [op |-> op, ring |-> r]) /\ poll
WaitSucceeds_Early == ~error
WaitSucceeds == cmds = << >> /\ ~error
WaitFails_NoTimeout == error /\ UNCHANGED fails
\* (Only a wait that a live modem would have ended counts towards MaxFail.)
WaitFails == IF error \/ ~alive THEN UNCHANGED fails ELSE fails < MaxFail /\ fails' = fails + 1
-----------------------------------------------------------------------------
(* qp_start                                                                *)

OpenBusy(p) ==
  /\ pc[p] = Idle /\ holder = None /\ opens < MaxOpens
  /\ open
  /\ opens' = opens + 1
  /\ result' = [result EXCEPT ![p] = "EBUSY"]
  /\ UNCHANGED <<open, holder, pc, at, exists, rxVars, cmds, modemOpen, devVars, fails, warned>>

OpenBegin_Unchecked(p) ==
  /\ pc[p] = Idle /\ holder = None /\ opens < MaxOpens
  /\ opens' = opens + 1
  /\ open' = TRUE /\ holder' = p
  /\ Goto(p, "reset", TX)
  /\ result' = [result EXCEPT ![p] = "none"]
  /\ UNCHANGED <<exists, rxVars, cmds, modemOpen, devVars, fails, warned>>

OpenBegin(p) ==
  /\ pc[p] = Idle /\ holder = None /\ opens < MaxOpens
  /\ ~open
  /\ opens' = opens + 1
  /\ open' = TRUE /\ holder' = p
  /\ Goto(p, "reset", TX)
  /\ result' = [result EXCEPT ![p] = "none"]
  /\ UNCHANGED <<exists, rxVars, cmds, modemOpen, devVars, fails, warned>>

\* td_ring_create: BUG_ON(ring->depth), memset, depth, allocations.
CreateRing(p) ==
  /\ pc[p] = "reset"
  /\ Goto(p, "request", at[p])
  /\ warned' = IF at[p] \in exists THEN warned \cup {"BUG_ON depth"} ELSE warned
  /\ exists' = exists \cup {at[p]}
  /\ IF at[p] = RX THEN last_handled' = 0 /\ ptrsReset' = FALSE
                   ELSE UNCHANGED <<last_handled, ptrsReset>>
  /\ UNCHANGED <<open, holder, result, s_wptr, s_rptr, cmds, modemOpen, devVars, boundVars>>

\* td_ring_create: the cursors, and RING_OPEN.
RequestOpen(p) ==
  /\ pc[p] = "request"
  /\ Goto(p, "openwait", at[p])
  /\ IF at[p] = RX THEN s_wptr' = 0 /\ s_rptr' = 0 /\ ptrsReset' = TRUE
                   ELSE UNCHANGED <<s_wptr, s_rptr, ptrsReset>>
  /\ Request("open", at[p])
  /\ UNCHANGED <<open, holder, result, exists, last_handled, modemOpen,
                 irq, alive, boundVars, warned>>

OpenSucceeds(p) ==
  /\ pc[p] = "openwait" /\ WaitSucceeds
  /\ IF at[p] = TX THEN Goto(p, "reset", RX) ELSE Goto(p, "fill", RX)
  /\ UNCHANGED <<open, holder, result, exists, rxVars, cmds, modemOpen, devVars, boundVars, warned>>

\* goto out: the first ring stays allocated; when it is the second, the first
\* is destroyed and the second stays.  qp->open stays set either way.
OpenFails_Reset(p) ==
  /\ pc[p] = "openwait" /\ WaitFails
  /\ open' = FALSE
  /\ IF at[p] = TX THEN Finish(p, Idle, "failed")
                   ELSE Goto(p, "undo", TX) /\ UNCHANGED <<result, holder>>
  /\ UNCHANGED <<exists, rxVars, cmds, modemOpen, devVars, opens, warned>>

OpenFails(p) ==
  /\ pc[p] = "openwait" /\ WaitFails
  /\ IF at[p] = TX THEN Finish(p, Idle, "failed")
                   ELSE Goto(p, "undo", TX) /\ UNCHANGED <<result, holder>>
  /\ UNCHANGED <<open, exists, rxVars, cmds, modemOpen, devVars, opens, warned>>

\* Post RX buffers until the ring is full, and ring.
Fill(p) ==
  /\ pc[p] = "fill"
  /\ s_wptr' = (s_rptr + Depth - 1) % Depth
  /\ poll
  /\ Finish(p, "opened", "ok")
  /\ UNCHANGED <<open, exists, s_rptr, last_handled, ptrsReset, cmds, modemOpen,
                 irq, alive, boundVars, warned>>
-----------------------------------------------------------------------------
(* qp_stop and td_ring_destroy                                             *)

CloseBegin(p) ==
  /\ pc[p] = "opened" /\ holder = None
  /\ open' = FALSE /\ holder' = p
  /\ Goto(p, "stop", TX)
  /\ UNCHANGED <<result, exists, rxVars, cmds, modemOpen, devVars, boundVars, warned>>

\* WARN_ON(1) for an empty ring, else RING_CLOSE.
RequestClose(p) ==
  /\ pc[p] \in {"stop", "undo"}
  /\ Goto(p, IF pc[p] = "stop" THEN "stopwait" ELSE "undowait", at[p])
  /\ IF at[p] \in exists
       THEN Request("close", at[p]) /\ UNCHANGED warned
       ELSE warned' = warned \cup {"empty ring"} /\ UNCHANGED <<cmds, error>>
  /\ UNCHANGED <<open, holder, result, exists, rxVars, modemOpen, irq, alive, boundVars>>

\* Whatever RING_CLOSE returned, the pages are freed and depth is zeroed;
\* last_handled and the cursors keep their values.
CloseRing(p) ==
  /\ pc[p] \in {"stopwait", "undowait"}
  /\ (WaitSucceeds /\ UNCHANGED fails) \/ WaitFails
  /\ exists' = exists \ {at[p]}
  /\ IF pc[p] = "stopwait" /\ at[p] = TX
       THEN Goto(p, "stop", RX) /\ UNCHANGED <<result, holder>>
       ELSE Finish(p, Idle, IF pc[p] = "undowait" THEN "failed" ELSE result[p])
  /\ UNCHANGED <<open, rxVars, cmds, modemOpen, devVars, opens, warned>>
-----------------------------------------------------------------------------
\* cdev_read by a process that has the file open (waiting is in TdRing).
Read(p) ==
  /\ ~Tty /\ pc[p] = "opened" /\ ~error /\ has_data
  /\ s_wptr' = Succ(s_wptr) /\ last_handled' = Succ(last_handled)
  /\ poll
  /\ UNCHANGED <<open, holder, procVars, exists, s_rptr, ptrsReset, cmds, modemOpen,
                 irq, alive, boundVars, warned>>

\* irq0 for this queue pair: poll; an open tty's RX ring is read until it has
\* no more data.  td_ring_read WARNs when the ring has no depth.
Irq ==
  /\ irq
  /\ irq' = FALSE
  /\ poll
  /\ IF Tty /\ open /\ has_data
       THEN /\ last_handled' = s_rptr
            /\ IF RX \in exists
                 THEN s_wptr' = (s_rptr + Depth - 1) % Depth
                 ELSE UNCHANGED s_wptr
            /\ warned' = warned \cup (IF RX \notin exists THEN {"disabled ring"} ELSE {})
                                \cup (IF RX \in exists /\ ~ptrsReset THEN {"stale cursor"} ELSE {})
       ELSE UNCHANGED <<last_handled, s_wptr, warned>>
  /\ UNCHANGED <<open, holder, procVars, exists, s_rptr, ptrsReset, cmds, modemOpen,
                 alive, boundVars>>

\* The modem carries out its commands in order and interrupts.
ModemCommand ==
  /\ alive /\ cmds # << >>
  /\ modemOpen' = IF Head(cmds).op = "open" THEN modemOpen \cup {Head(cmds).ring}
                                            ELSE modemOpen \ {Head(cmds).ring}
  /\ cmds' = Tail(cmds)
  /\ irq' = TRUE
  /\ UNCHANGED <<open, holder, procVars, exists, rxVars, alive, error, boundVars, warned>>

ModemFill ==
  /\ alive /\ RX \in modemOpen /\ s_rptr # s_wptr
  /\ s_rptr' = Succ(s_rptr)
  /\ irq' = TRUE
  /\ UNCHANGED <<open, holder, procVars, exists, s_wptr, last_handled, ptrsReset, cmds,
                 modemOpen, alive, error, boundVars, warned>>

\* Another queue pair's interrupt runs the same handler.
OtherIrq ==
  /\ alive /\ ~irq
  /\ irq' = TRUE
  /\ UNCHANGED <<open, holder, procVars, exists, rxVars, cmds, modemOpen, alive, error,
                 boundVars, warned>>

ModemCrash ==
  /\ alive
  /\ alive' = FALSE
  /\ irq' \in {irq, TRUE}
  /\ UNCHANGED <<open, holder, procVars, exists, rxVars, cmds, modemOpen, error, boundVars, warned>>
-----------------------------------------------------------------------------
Opening(p) == \/ CreateRing(p) \/ RequestOpen(p) \/ OpenSucceeds(p) \/ OpenFails(p) \/ Fill(p)
Closing(p) == RequestClose(p) \/ CloseRing(p)
Proc(p) == OpenBusy(p) \/ OpenBegin(p) \/ Opening(p) \/ CloseBegin(p) \/ Closing(p) \/ Read(p)
Next == (\E p \in Procs : Proc(p)) \/ Irq \/ ModemCommand \/ ModemFill \/ OtherIrq \/ ModemCrash

Spec == Init /\ [][Next]_vars

\* A system call goes on, the modem answers, an interrupt is served.
LiveSpec == /\ Spec
            /\ \A p \in Procs : WF_vars(Opening(p) \/ Closing(p))
            /\ WF_vars(ModemCommand) /\ WF_vars(Irq)
-----------------------------------------------------------------------------
(* Properties                                                              *)

\* The shape of the state.
TypeOK ==
  /\ open \in BOOLEAN /\ holder \in Procs \cup {None}
  /\ pc \in [Procs -> {Idle, "reset", "request", "openwait", "undo", "undowait", "fill",
                       "opened", "stop", "stopwait"}]
  /\ at \in [Procs -> Ring]
  /\ result \in [Procs -> {"none", "ok", "failed", "EBUSY"}]
  /\ exists \subseteq Ring /\ modemOpen \subseteq Ring
  /\ s_wptr \in 0 .. Depth - 1 /\ s_rptr \in 0 .. Depth - 1
  /\ last_handled \in 0 .. Depth - 1 /\ ptrsReset \in BOOLEAN
  /\ cmds \in Seq([op : {"open", "close"}, ring : Ring])
  /\ irq \in BOOLEAN /\ alive \in BOOLEAN /\ error \in BOOLEAN
  /\ fails \in 0 .. MaxFail /\ opens \in 0 .. MaxOpens

\* At most one process is inside the driver's idea of an open file.
Exclusive ==
  \A p, q \in Procs : pc[p] # Idle /\ pc[q] # Idle => p = q

\* However opens and closes fail, no ring is created twice and none is
\* destroyed that does not exist: neither BUG_ON(ring->depth) nor the WARN of
\* td_ring_destroy is ever reached from a character device.
NoDoubleCreate == warned \cap {"BUG_ON depth", "empty ring"} = {}

\* A file that is open has both rings, and the modem has opened both, even
\* when earlier commands timed out and are carried out late.
OpenFileWorks ==
  \A p \in Procs : pc[p] = "opened" => exists = Ring /\ (alive => modemOpen = Ring)

\* Unless a wait was cut short, the modem never uses a ring whose pages the
\* driver has given back.
NoDmaToFreedPages == fails = 0 /\ alive => modemOpen \subseteq exists

\* Every open() and close() returns, the modem dead or not.
CallsReturn ==
  \A p \in Procs : (pc[p] \notin {Idle, "opened"}) ~> (pc[p] \in {Idle, "opened"})

\* What the operator's tools take EBUSY for: somebody else holds the device.
BusyMeansHeld ==
  [][\A p \in Procs : result'[p] = "EBUSY" /\ result[p] # "EBUSY" =>
       \E q \in Procs \ {p} : pc[q] # Idle]_vars

\* The assertion of td_ring_read: it is never called on a disabled ring.
NoReadOnDisabledRing == "disabled ring" \notin warned
=============================================================================
