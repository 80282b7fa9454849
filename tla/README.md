# A TLA+ verification of xmm7360-mvp

This directory specifies the parts of xmm7360-mvp that are hard to test: the
kernel driver `src/src/xmm7360.c` for the Intel XMM7360 modem (Fibocom L850),
and the programs around it that bring its data session up and keep it up.
`PROJECT.json` lists the components, the runs, what each property is for, and,
definition by definition, the lines of the source that are modelled. Source
paths below are relative to the repository root.

## The system

    applications          rpc.py / open_xdatachannel.py       up-retry, watch, ctl,
         |                       |          |                  selfheal, panel
      wwan0 (net)         /dev/xmm0/rpc  /dev/ttyXMM*               |
         |                       |          |            modprobe, kill, /run markers
    ndo_open/stop/xmit     cdev open/read/write   tty open/write    |
         |                       |          |                       |
      frame mux              queue pairs 0..7: a TX and an RX ring each
         |                       |
         +------ TD rings -------+------ command ring ------ irq0 / poll
                         shared control page (DMA)
                                 |
                              modem firmware

The inventory, with each part's state, operations, interactions, hard
behaviours and what makes it correct:

| part | state | operations | interacts through | what is hard | correct means |
|---|---|---|---|---|---|
| transfer rings, cdev I/O | `s_wptr`, `s_rptr` in the control page, pages, `last_handled`, `qp->wq` | `td_ring_write/read/full`, `qp_write`, `cdev_read`, `cdev_write`, `irq0` | DMA with the modem, doorbell, interrupt | host, modem and interrupt move cursors concurrently; no lock | lossless FIFO each way; no shared page; no lost wake-up or doorbell; BUG_ONs unreachable |
| queue pair life cycle | `qp->open`, `td_ring.depth`, the cursors across sessions | `qp_start`, `qp_stop`, `td_ring_create/destroy` | command ring, `qp->lock`, interrupt | commands that time out and are carried out late; half-failed opens | one owner; no ring created or destroyed twice; an open file works |
| command ring | `c_wptr`, `c_rptr`, slots | `cmd_ring_init/execute/wait` | `xmm->wq`, DMA | unlocked executors of different queue pairs | each command is carried out once |
| frame multiplexer | `mux_frame`, `queued_packets`, `queued_bytes`, sequence | `mux_frame_*`, `net_must_flush`, `net_flush`, `mux_control` | TX ring 0 | two size computations that must agree; five failure exits | admitted packets fit; frames can be parsed; counters describe the queue |
| wwan0 transmit | skb queue, `xn->lock`, XOFF bit, hrtimer | `net_xmit`, `net_deadline_cb`, `net_poll`, `net_open`, `net_close` | network stack, timer, interrupt, TX ring | four contexts, two of them without the lock | packets are accounted for, in order, eventually flushed; a stopped queue is woken |
| wwan0 receive | RX ring 0 | `net_poll`, `net_mux_handle_frame` | RX ring, network stack | as the rings | as the rings |
| ttys | `tty_needs_wake`, RX ring | `tty_write`, `tty_poll_qp` | line discipline, interrupt | wake-up set after the short write | a writer that is short is woken |
| device life cycle | `xmm->error`, `cp`, `net`, the qps | `probe`, `dev_init`, `dev_deinit`, `remove`, `irq0` | PCI core, interrupt | teardown against a live interrupt; failed probes | nothing used before it exists or after it is gone |
| RPC client | file, `attach_allowed` | `execute`, `pump`, `handle_message`, `UtaModeSet`, `do_fcc_unlock` | `/dev/xmm0/rpc` | responses and indications interleave | an answer belongs to its call; no wait for what already came |
| bring-up | modem session, `wwan0` address and routes, NetworkManager's profile | `open_xdatachannel.py`, `xm_dbus.py`, `xmm-up` | RPC, netlink, D-Bus | retries, indications, a kill at any step and another run on what it left | success means a usable session; a run never trips over an earlier one |
| recovery | `/run` lock, marker, debounce stamp; unit state | `up-retry`, `watch`, `ctl`, `selfheal`, `rat`, resume units | systemd, flock, files, `modprobe` | many triggers, one modem; one-shot markers with a lifetime | one ensure at a time; a hard request is served once; recovery is reached |
| status, D-Bus daemon, panel | cached status; busy flag | query and toggle | RPC device, D-Bus, files | stale state, device contention | the panel shows what is so |
| user-space multiplexer | tun device, frame buffer | `mux.c`, `mux.py` | `/dev/xmm0/mux` | offsets patched by hand; deadline arithmetic | frames as the driver's |
| RPC formats and tables | none | `pack`, `unpack`, `handle_message`, the code tables | bytes on `/dev/xmm0/rpc` | lengths in several widths and byte orders | what was packed is unpacked; a code means one thing |
| trace dump | rest of the stream | `trace.py` | `/dev/xmm0/trace` | reads cut frames and escapes anywhere | each message once, in order |
| installers, units, examples | none | | | | |

`PROJECT.json` ("hazards") lists the hazards at the line where each bites, with
the properties that cover it.

## Plan

The order follows what would hurt most if it were wrong: data passing through
the driver first, then who may use it, then what keeps the session alive.

| stage | modules | theorems | state |
|---|---|---|---|
| 1 | `TdRing` with the abstract `Fifo`; `MuxFormat`, `MuxFlush`; `NetTx`; `QueuePair`; `Recovery` | `TdRingProofs`, `MuxFlushProofs`, `NetTxProofs`, `RecoveryProofs`, `QueuePairProofs` | done |
| 2 | `RpcClient` against a modem that interleaves what it sends; `NmProfile`; `BringUp` composed of both | `RpcClientProofs`, `BringUpProofs` | done |
| 3 | `RpcMessages`, `RpcCodec`, `MuxPacket`, `TraceDecode`, put to work by `Formats` | `FormatsProofs` | done |
| 4 | what is left: the wake-up of `tty_write`; executors of different queue pairs on one command ring; device removal | none planned beyond the safety of these | open |

Composition: `NetTx` takes from `TdRing` that a TX ring is a bounded FIFO of
frames, and from `MuxFlush` that what `net_must_flush` admits packs, so that a
flush ships one frame or loses it, with the counters reset; what is in that frame
`NetTx` works out itself, as `net_open` may be taking packets from the same
queue. `TdRing` runs between the open and the close that `QueuePair` describes.
`Recovery` takes a bring-up, once `xmm-up` has loaded the module, as one step
with any outcome, of which `BringUp` is the inside: its kill is what `up-retry`,
its timeout and systemd do to it. Its result is the exit status; `xmm-up` goes by
it (`ReadyMeansSession`), `up-retry` does not (its line 14) but looks at the link,
and so does `Judge`. The driver's sticky error comes from `xmm7360_poll`. `BringUp` extends `RpcClient` (the calls) and `NmProfile` (the
profile) and adds the script, the modem's session and `wwan0`. `RpcMessages`
is shared by the client at work and by the codec, so that a message has the
same type in `BringUp` as `RpcCodec` reads from its bytes. `Formats` holds
`mux.py`'s frames (`MuxPacket`) against the driver's layout (`MuxFormat`).
`Fifo` is what a ring promises its
users; `TdRing` implements it twice (TX and RX) under two refinement mappings.

## Modules

`TdRing` (with `Fifo`): one open queue pair. `s_wptr` and `s_rptr` are the
cursors in the control page, `seen` what the modem last read of `s_wptr`,
`bell`, `wakeup` and `irq` the doorbell, `BAR0_WAKEUP` and a pending
interrupt. `ding` is `xmm7360_ding`: it looks at `asleep` (the modem's status
word), wakes the modem if that is set, and rings. A `write()` is
`WriteCheck` (the test in `qp_write`), `WriteCopy`, `WritePublish`,
`WriteDing`, or `WriteRefused`; a `read()` is `ReadWait` (with the sleep on
`qp->wq`), `ReadCopy`, `ReadPost`, `ReadDing`, `ReadDone`, or
`ReadInterrupted`. `Irq0` wakes. `ModemBell`, `ModemTake`, `ModemFill`,
`ModemSleep`, `ModemWake` and `ModemCrash` are the other side. The modem falls
asleep only when it has served its bell and fetched everything, and asleep it
serves no bell until it is woken, or wakes for reasons of its own. The steps are those between which another
context can run, since no lock protects the ring. A `BUG_ON` that would fire
is recorded in `bugOn` and stops its thread. Messages are numbers with a
length; reading in pieces is not possible in the driver (it truncates), and
`Truncate` keeps that.

`MuxFormat`, `MuxFlush`: the wire format as sizes and offsets, and
`net_xmit`'s admission with `net_flush` as it packs one frame: header, packets
with alignment, bounds table, push, or one of the failure exits. Every failure
that the code tests for is in the model even though the proofs show that most
cannot happen; a full ring, `FlushDrop` and the return are separate steps.
`net_flush`, `net_xmit`'s critical section and `mux_control` have `xn->lock`;
`net_open` resets the counters and drains the queue without it (`OpenReset`,
`OpenDrain`), so a flush left over from the last session may lose its packets
to it one by one and push a frame with fewer, or with none: an ADBH, an ADTH and
an empty table. `sequence` is `xn->sequence`, an `int`, of which the header
keeps 16 bits (`HeaderSequence`). Bytes are not modelled, lengths are, exactly.

`NetTx`: the four contexts of wwan0's transmit side. `xmPc` is the progress of
`net_xmit` (one at a time: the stack's xmit lock), `timer` the hrtimer with
its callback, `ifPc` `net_open`'s progress and `Irq` the `net_poll` part of
`irq0`. `lock` is `xn->lock`. What does not take it (the reset and drain in
`net_open`, the test in `net_poll`) can come in between: the callback's
`net_flush` is therefore split into its test for an empty queue, one step for
each packet it takes, and the push (`DeadlineBegin`, `DeadlinePack`,
`DeadlineShip`), and `net_open` into one step for each packet it frees.
`net_xmit`'s flush is one step: `ndo_open` and `ndo_stop` run under RTNL, and
the stack calls `net_xmit` only on an interface that is up, so `net_open` is
never beside it. Test and stop are two steps (`XmitNoRoom`, `XmitStop`), as
`net_poll` reads both. History variables say where each packet went.

`QueuePair`: `qp_start` and `qp_stop` as the processes run them under
`qp->lock`, with each ring's create and destroy split at the command it waits
for. A wait ends when the modem has carried the command out, or is cut short
(timeout or signal) while the command stays in the ring and may be carried out
later. `Tty` switches to the variant whose ring the interrupt handler reads.

`Recovery`: the scripts, each a process. Ensure (`fibocom-l850-up-retry`) has
a program counter per unit it runs in; `ctx` says where `hard_requested` was
called from and `attempt` numbers the attempts of both loops. Callers
(the watcher's three sources, the panel, the self-heal timer, `rat`) have a
program counter each through `act` and `ctl on`. The steps are the commands
that read or write what is shared: `cat`, `rm`, the truncation and the write of
`date > file`, `is-active`/`pgrep`, `systemctl`, `modprobe`. `lock` is the
flock, which goes when its process ends or is killed (no unit sets `KillMode`,
so systemd's default holds: a restart kills the whole control group). systemd's
start limit is in `starts`. `module` says whether the driver is out, loaded
without a modem (`idle`: probing found none ready) or bound to one. `modprobe -r`
may be refused, because `/dev/xmm0/rpc` is open, and `modprobe` may fail or find no
modem, which the kernel log may tell (`ProbeFails`); the ladder goes on in each case
(`|| true`), with `xmm-up`'s own `modprobe` (`XmmUpLoads`) before the bring-up. A bring-up has any outcome. The
kernel log (`kmsg`) has lines that the watcher takes for hard events (a driver that goes
into error, an "unknown modem status" at probing) and lines that it takes for soft
ones. That a driver in error repeats itself in the log is left out. A driver in error may pass packets for a while
(`SessionDies` ends that), as `ctl` says (lines 86-90). `owed` is the history of
the hard request accepted last: carried out when the module goes, `refused`
when the kernel does not let it go.

`RpcMessages`: the codes of `rpc_call_ids.py` and `rpc_unsol_table.py`, as
sets, and how `handle_message` tells the type of a message.

`RpcClient`: `execute` and `pump` between a client and a modem. `call` is the
request that `execute` waits for, `requests`, `owed` and `inbox` are what is
written, not yet sent and not yet read. A message keeps its transaction word,
its code and its value; `of` and `current` are history: which request a
response answers, and whether it is the latest one. `PumpOther` and
`PumpResponse` are the iterations of `execute`'s loop, `PumpWaiting` those of
the loops outside it, `PumpRaises` the exception on a message that cannot be
parsed. The modem (`Serve`, `Swallow`, `ModemSend`, `Indicate`) is external:
it answers in the order of requests, and sends answers, acknowledgements,
callbacks and indications in any order. What it still owes when the process
goes is kept for the next one or forgotten, either way.

`NmProfile`: `xm_dbus.py`. `profiles` maps D-Bus paths, which are never used
twice, to the address a profile has, `connection_path` is the one the object
found. Users may delete a profile at any time.

`BringUp`: `open_xdatachannel.py`, one action per step; `at` names the call
or the step it is at. `On...` say what it does with the value of a call,
including `Misread` values, when the response was another call's. `Killed`
may happen anywhere, `Exit` ends a run, and a run begins where the last one
(or a reload of the driver, `Reload`) left the modem (`lock`, `mute`, `permitted`, `assigned`, `channel`), `wwan0`
(`addrs`, `routed`), NetworkManager and the device (`busy`). `Flush` and
`LinkUp` are two steps, and the address and the route follow in two more; between
any of them `Meddle` may add to `wwan0`: the default route, by `ctl`'s
`ensure_route`, or the address of a profile and a route, by NetworkManager.
`meddled` remembers that since the flush. `excuses` is history: what went wrong
in this session that the script cannot notice. Left
out: DNS servers and `resolv.conf`, the value of the managed flag, what is
printed. An address is a name; on an IPv6 network the first two of three are
parts of the IPv6 address. `HostFails` stands for everything that pyroute2 and
D-Bus can raise.

`RpcCodec`, `MuxPacket`, `TraceDecode`: packing and unpacking, byte by byte,
`mux.py`'s packets and `trace.py`'s main loop, each translated from its
program. `mux.py` takes a frame in one read of 8192 bytes (`ReadSize`), and the
rest of a longer one is gone. A trace message is `bad`, which `trace.py` prints as
`BAD PRINTF`, when its payload is too short for its format, when the format has a
conversion that `decode_printf` does not know, and when Python's `%` does not take
what stands before it (`PythonTakes`: `%5 d` and `%lld` are bad, `%p` is good and
`%08p` bad, as only a bare `%p` is replaced). How a line is formatted is left out, so
a muted word is looked for in the format and in each argument, not across
their borders. Loops over data are recursive functions (`after[k]` is the state after
`k` iterations) with a bound on the iterations that the data gives. `Formats`
writes with one side and reads with the other: fields, messages (`execute`'s
requests, and `Callback`, the modem's framing of what it sends by itself),
packets, and a trace stream that comes in reads of any size. Its constants
are what is written, its assumptions what the code takes without raising:
`FieldsAssumption` values that fit their width (`Packable`), `TidsAssumption`
transaction words that `handle_message` does not take for a response,
`PacketsAssumption` packets whose length fits the field of a tag (`MuxReadable`
says of a frame longer than a read only that it is laid out as the driver's).
`FramesAssumption` says of each frame of the trace what it prints and whether
it ends the program when it comes alone (`Alone`); `MCFormats` gives frames with
hand-decoded results, so TLC compares the decoding of single frames with those
when it evaluates the assumption, and `TraceDecodes` is about cutting
the stream into frames.

Operators named `X_Y` are deliberate mistakes in `X`, used only to see the
properties fail; no specification uses them. `MC*` modules and the `.cfg`
files are the instances. `PROJECT.json` names the mistake for each property.

## Runs

Passing runs:

| run | shows | bounds, and why they are enough |
|---|---|---|
| `TdRing` | no `BUG_ON`; page ownership; no lost wake-up; both rings are lossless FIFOs; published pages do not change; with a live modem, asleep or not, what is published is fetched, and what arrives reaches a reader that goes on reading | depth 4 and four messages each way, one more than a ring holds: cursors wrap, rings are full and empty several times, the modem sleeps in between. Buffers are of twice the page size, so every one is truncated. Depth matters only through wrapping and the distance of the cursors; the safety part is proved for every depth |
| `MuxFlush` | what `net_must_flush` admits fits; counters describe the queue; a pushed frame can be parsed, one that `net_open` left without packets included | 128-byte frames, three packets; lengths 1, 6, 20, 43 cover every remainder of alignment and sums on both sides of the limit. The header keeps sequence numbers modulo 2 (`SeqMod`, really 65536) of an `int` that wraps at 4 (`IntSize`, really 2^32), so the two differ |
| `NetTx` | counters, conservation and order of packets, an armed deadline flushes | two packets a frame, two frames on the ring, five packets, two openings: overfull ring, full queue and a timer that survives a close and flushes under `net_open` all occur |
| `QueuePair` | one owner, no double creation, an open file works, freed pages, calls return | two processes, four openings, three cut waits: a command of an earlier session is carried out in a later one |
| `Recovery` | hard before retry, error cleared, module comes back, ladder ends | kernel events and probe, no user, one fault (of the modem, or of a probe that the kernel log tells of), two rounds of two attempts, a start limit of two: rounds change, attempts end, restarts meet running recoveries and are refused. Refused unloads and failing `modprobe`s are not bounded |
| `RecoveryUnits` | one ensure works at a time | service and resume unit; panel, netlink, self-heal and `rat` as callers; one fault, two actions of the user, two rounds of one attempt |
| `BringUp` | answers belong to their calls; the permission to attach is not missed; a run after a killed or failed one does not trip over what it left, finds the one profile, and when it ends well leaves the session's address, route, channel and profile; the script ends by itself except where it says why not | two runs, and two messages owed or under way: an answer, its acknowledgement, a callback and indications of the same exchange overtake each other. Two init calls stand for the seven, which are alike; two addresses, one on an IPv6 network, show a stale one; one message nobody can parse; two profiles would be one too many. NetworkManager and `ctl` add to `wwan0` without a bound |
| `Formats` | what is packed is unpacked; codes and transaction words give the type; `mux.py`'s frames read back and are laid out as the driver's; a trace is decoded alike wherever reads cut it | strings of every element size on both sides of 128 and 256, empty, part-filled and full, alone and between neighbours; the requests of the bring-up; every code of both tables, callbacks with transaction word 0, a small one and one that differs from a response's in its upper bits; packets of 0 to 20 bytes (every remainder of the padding), and of 8136 and 8137, the largest whose frame one read takes and one more; streams of up to two frames of every kind, empty ones between two flags and formats Python rejects included, in reads of 1, 2, 7 and 30 bytes. All four properties are proved without these bounds |

All but `MuxFlush` may come to rest (`Formats` when everything is read): when the bounds are used up, or when a healthy system has
nothing to do. They therefore do not look for deadlock; what must go on
is said by liveness properties instead. No run uses symmetry, since most
check temporal properties.

Runs that end in a counterexample, each a disagreement of the code with what
the repository says of it (the quotation is in `PROJECT.json`, "findings"):

| run | said | counterexample |
|---|---|---|
| `NetTxBackpressure` | the queue stops when a frame cannot be shipped | the deadline flushes into a full ring, the frame is lost, the queue goes on |
| `NetTxWake` | a stopped queue is woken when there is room | the last interrupt comes between the test and the stop |
| `BringUpStatus` | `xmm-up` reports that `wwan0` is ready when there is a session | the RPC device is busy; the script logs that and ends with `exit()`, status 0 (`up-retry`, which ignores the status, is not misled) |

Further disagreements met while modelling, which no run shows:

- `qp_start` sets `qp->open` and does not clear it when a ring cannot be
  created, so every later open gets EBUSY although nobody holds the device.
  `QueuePair` states it as `BusyMeansHeld`; an open that fails half way
  violates it.
- The interrupt handler reads the ring of a tty that looks open, while it is
  being opened or closed or after its open failed (`td_ring_read`, line
  504, warns of a ring without depth). `NoReadOnDisabledRing` of
  `QueuePair` fails with `Tty = TRUE`.
- `fibocom-l850-up-retry` (lines 19-23) promises that after a hard request no
  attempt is wasted on a driver in error. When the kernel refuses `modprobe -r`, because
  somebody has `/dev/xmm0/rpc` open, hard recovery goes on all the same and so
  does the bring-up. `HardBeforeRetry` holds but for this case (`owed = "refused"`).
- A comment of `fibocom-l850-selfheal` (lines 25-26) says that killing the service
  does not kill its children. No unit sets `KillMode`, so systemd kills the whole
  control group, and the model lets a restart kill the ensure with all it runs.
- `fibocom-l850-ctl` (line 78) says that a running ensure is not interrupted.
  Test and restart are seconds apart: `NotInterrupted` of `Recovery` fails.
- `rpc.py` (line 29) sets up `tid_gen` to "loop over 1..255" and never asks
  it: every synchronous request has the same transaction word, and `execute`
  takes any response for its own. `AnswersMatch` says when this is harmless.
- Without `-d` the script ends with `sys.exit(1)` after it has set everything
  up (`open_xdatachannel.py`, lines 138-139), which `xmm-up` reports as a
  failure. The configuration it uses sets `dbus`.
- `BUG_ON(wptr == s_rptr)` in `td_ring_write` says that there is always room.
  Two threads that write through one descriptor both see the last slot, and
  the second one hits it. Nothing in the repository writes from two threads;
  an instance of `TdRing` with `Writers <- TwoWriters` and the invariant
  `NoBug` shows the trace.
- `cdev_write` returns the full size when the ring was full and nothing was
  queued, so the check for a short write in `rpc.py` (lines 72-74) never sees
  it. The cause, `qp_write` returning 0, is the one of `NetTxBackpressure`.
- `fibocom-l850-watch` says that a hard event must not be lost (line 81).
  `date > file` truncates before it writes: an ensure that reads and removes
  the marker in between loses the request (`Truncate`, `ReadMarker`,
  `RemoveMarker`, `Stamp`). `ErrorCleared` holds all the same, as the ladder
  reloads after its round.
- The same script says that it acts once in a debounce window (line 74). Its
  three sources read the stamp and write it later, without a lock (`Observe`,
  `Act`), so two can act in one window. `OneEnsure` holds all the same.
- `_pack_string` writes a length of 128 and more with its most significant byte
  first, `take_string` reads it with its least significant first (`rpc.py`, lines
  155-160 and 183-186). From 256 on they agree only about lengths that read
  the same both ways, such as the 257 zeros of the APN context; `Symmetric` excludes
  the others from `RoundTrip` and `FramesAgree`.
- `docs/MVP.md` (line 123) says that `ctl on` deletes the marker of a healthy
  link; `fibocom-l850-ctl` (lines 86-90) keeps it on purpose.

Observations that contradict nothing the repository says:

- After `ctl off` the link does not stay down: the netlink event of the
  change makes the watcher call `ctl on`, whose `try_up` raises it, and an ensure
  that is running ends its bring-up with the link up.
- A packet that is queued while `net_deadline_cb` is returning gets no deadline
  (line 1021: `hrtimer_active` is still true), and stays in the queue until another
  packet or the next opening comes: `TimerFire`, `DeadlineBegin`, `XmitQueue`,
  `XmitTimer`, `DeadlineReturn` in `NetTx` when the timer fires on an empty queue.
  `DeadlineFlushes` speaks of armed deadlines only.
- A wait that was cut short does not keep `td_ring_destroy` from freeing the pages:
  in `QueuePair` a RING_CLOSE times out, the pages go, and the modem still has the
  ring. `NoDmaToFreedPages` excludes just this.
- `UtaModeSet` waits for a callback that `execute` drops when it comes before the
  response (`rpc.py`, line 343); only the stall watchdog of `up-retry` ends that wait.
  `ScriptEnds` names the case.
- Recovery can be starved by its own start limit. With the self-heal timer beside the
  watcher (`Callers = {"probe", "selfheal"}`), both may find no ensure running, one
  starts it with the last start of the interval and the other one's restart kills it
  and is refused, interval after interval: `ModuleComesBack` fails. It takes two
  callers within the seconds between test and restart each time, but fairness alone
  does not exclude it. The run `Recovery` has one caller that asks again and again, the
  probe.
- An empty frame can be pushed (`net_open` beside a flush). Its table is empty,
  so the modem finds no packet in it.

## Fairness

Weak fairness is assumed of what goes on by itself once begun: a system call
in progress, a pending interrupt, a running timer callback, an armed hrtimer,
the modem's service of its doorbell and its descriptors while it is alive and
awake, its waking when told to, a
script between two commands, the watcher reading the kernel log and probing
(its unit has `Restart=always`), the ends of the debounce window and of
the start-limit interval, and the death of a session on a driver in error (`ctl`,
line 88: it may still ping once or twice). `Recovery` assumes strong fairness
of removing and of loading the module: tried again and again, they succeed in the
end. A kernel that refuses for ever is beyond what the scripts can mend. Each runs on a thread, an interrupt or a process
that the scheduler serves independently of the others. `TdRing` assumes in
addition a reader that keeps calling `read()`, as the RPC client does; without
it RX data may wait for ever, rightly. `BringUp` assumes that the script goes on
between two calls and reads what has come, that the modem carries out and
answers what it takes while it is alive, and that the network lets it attach
and gives it an address in the end (the script waits for both without a
limit, so it can end only then). Nothing is assumed of kills, crashes, users,
other users of the device, or messages that cannot be parsed. Not assumed: that anyone writes, that
the modem sends anything or survives, that a bring-up ever succeeds, that
users act, that the self-heal timer is enabled, or that a netlink event is ever read (the third `grep`
of that pipe buffers blocks). Commands are not fair against time: a wait may
be cut short, but a bounded number of times, and `CallsReturn` needs no
answer from a dead modem.

## Proofs

`TdRingProofs`, for every depth of at least two, every page and buffer size
and any number of messages, assuming `OneWriter` (at most one thread writes at
a time; without it the property fails, see the disagreement about `BUG_ON`):

- `TypeCorrect` (`TypeOK`), `BugFree` (`NoBug`), `PagesPrivate` (`PrivatePages`).

None of the three is inductive. The invariant adds where the cursors are:
walking round the ring from the reader one meets `last_handled`, the modem's
`s_rptr`, what the modem has seen and `s_wptr` in this order
(`Between(a, b, c) == Dist(a, b) + Dist(b, c) = Dist(a, c)`), a writer that
has passed the check still has its free slot, a reader's slot is the one
behind `last_handled`, and owned pages hold messages. `MoveFirst`,
`MoveMiddle` and `MoveLast` say when a cursor can move one slot and keep the
order; every action moves at most one cursor, so its proof cites one of them.
They rest on arithmetic modulo `Depth`, done once in `ModOnce`, `SuccIs`,
`DistIs`, `PlusIs`.

On the same invariant:

- `TxImplementsFifo` (`TxIsFifo`), `RxImplementsFifo` (`RxIsFifo`). A queue is
  the window of a ring from one cursor to the next (`Window`). Each action
  appends to a window (`WindowGrows`), takes its head (`WindowShrinks`), or
  writes a page outside it (`WindowSame`), so each maps to a `Put`, a `Get` or a
  stutter of `Fifo`. That a page written is outside is the order of the
  cursors. In RX the window begins behind the last buffer handed
  over (`Handled`), also in the moment when `s_wptr` has passed `last_handled`.
- `PagesStable` (`PublishedPagesStable`), from the same lemmas.
- `WakeupKept` (`NoLostWakeup`) and `DoorbellKept` (`NoLostDoorbell`) hold by induction on
  their own, given where the writers are (`WriterPcs`), and do not need
  `OneWriter`. `NoLostDoorbell` is the safety core of `PublishedIsTaken`, which the
  run checks in its place: a moved `s_wptr` is rung for (`RungFor`), and a bell that
  rings while the modem sleeps has `BAR0_WAKEUP` beside it (`NotSleptThrough`).

`MuxFlushProofs`, for every frame size divisible by four, every packet limit
and any packet lengths that fit a frame alone (`MtuAssumption`):

- `TypeCorrect`, `PackingSafe` (`PackingNeverFails`), `CountersCorrect`
  (`CountersMatchQueue`), `FramesReadable` (`PushedFrameReadable`).

The history is that of the batch: the packets queued since the queue was last
flushed or emptied, `ends` where the estimate says each of them ends, `gone` how many
have left the queue. The invariant relates it to the counters (`Bookkeeping`) and to
the queue (`Remaining`), bounds it by what `net_must_flush` let in (`Room`), and
says that a frame being packed is no longer than the batch up to the packets
that are gone (`Progress`): packets that `net_open` took only make it shorter. The
crux is `AlignFits`: rounding up to four stays within a size that is divisible by
four, so the estimate, which ignores alignment of the table, is still enough.
`FramesReadable` adds what the frame looks like while it is built (`Packed`,
`Building`): each bounds entry begins where the one before ends, and the two
headers' fields follow from the last entry and the number of entries, which may be
zero. It uses that packing never fails, as a frame abandoned half way and pushed
all the same would not be readable.

`NetTxProofs`, for any capacity of frame and ring, any number of packets and
openings:

- `CounterCorrect` (`CounterMatchesQueue`). Added (`Counted`): while `net_open`
  drains the queue the counter is zero; only the timer callback can come in
  between, and it too leaves queue and counter empty. `Held` says that it packs under
  the lock.
- `PacketsConserved` (`Conservation`) and `OrderKept` (`InOrder`). Added: the
  packets taken come before those on the ring, these before those in the frame
  being packed and these before the queued ones, frame by frame (`Ordered`);
  queue, frame, ring, taken and lost are all the packets accepted, and no lost
  packet is anywhere else (`Placed`); the packet `net_xmit` holds is the latest one
  the stack sent (`Latest`), and while `net_xmit` runs it holds one (`Calls`). That
  no packet is in two live places follows from their order, so conservation
  rests on it.

`RecoveryProofs`, for any units among service and resume, any callers, any
length of the ladder and any start limit:

- `TypeCorrect`, `OneAtATime` (`OneEnsure`), `HardComesFirst`
  (`HardBeforeRetry`).

The invariant adds that whoever works holds the flock (with it, "one" is the
uniqueness of `lock`), that an accepted request, until the module is out or the
kernel has refused that, is in the hands of the ensure that holds the flock and is
about to unload (`InHand`; a kill takes request and lock together), and that a
reload is only due while attempts are left.

`BringUpProofs`, for any addresses and options, any number of runs, messages
and profiles, and any calls between the two FCC unlocks that are not named
like another step or call (`InitAssumption`):

- `ResponsesBelong` (`AnswersMatch`). The invariant `InOrder` says that a
  script that goes on, in a session without an excuse, is either between calls
  with no answer owed or under way, or waits with exactly one of: the request
  not yet taken, one answer owed, one answer sent, or nothing (it was
  swallowed). `RpcClientProofs` proves for each operation of client and modem
  that it keeps this order; the sequence lemmas there say what appending,
  reading and sending do to "at most one answer, to the current request". A
  crash and an exception outside the early unlock end the script, which is why
  the invariant asks nothing of a script that cannot send any more.
- `RunsAreRestartable` (`Restartable`), with the invariant that `wwan0` is clear
  of addresses and routes when the script adds to it, or somebody else has added to
  it since the flush (`Clear`). That exception is real: when NetworkManager or
  `ensure_route` comes first, the script ends with "exists", and the next run
  begins with a flush.
- `PermissionIsSeen` (`NoMissedPermission`). Added (`Conversation`): while
  `execute` waits, the latest request is under way or an answer to it is
  (`Talk`), and an answer means what it says until it is read (`Means`): a
  refused attachment that no permission given since has got lost, an address
  that it is the assigned one, the setup of the data channel what it was given.
  A permission given is then noted or in the inbox (`Told`), and stays so
  whichever loop reads it.
- `HostGetsSession` (`HostMatchesSession`). Added, on top of `Conversation`:
  the script's address and handles are this session's from the step that
  learns them (`Session`), `wwan0` and the profile have them from the step that
  sets them (`Interface`), and nothing but its own call is under way after the
  attachment (`OneCall`). Each step extends the chain by one link; the last one
  compares nothing, so the invariant must carry every link to the end.
- `TypeCorrect` (`TypeOK`). Added: what `get_ip` picks from any answer is an
  address or none (`AddressAnswers`), which follows from what the modem sends.
- `ProfileIsUnique` (`OneProfile`), with the invariant that the step before a
  profile is added has seen that there is none, which no later step but this
  one can change.

`QueuePairProofs`, for any number of processes, openings and waits that are cut
short, any depth, and character devices and ttys alike:

- `OneOwner` (`Exclusive`). Added: `qp->lock` is held exactly between the first
  and the last step of `qp_start` and `qp_stop`, and `qp->open` is set from the
  first step of an open to the first of a close.
- `RingsAreCreatedOnce` (`NoDoubleCreate`). Added: which rings exist at each
  step (`RingsFit`), and that a queue pair that can be opened has none. An open
  that failed leaves rings behind, but also `qp->open`, which keeps everybody
  out.
- `OpenFilesWork` (`OpenFileWorks`). Added: while an open waits, its RING_OPEN is
  the last command or has been carried out (`Connecting`). A wait that succeeds
  found the whole command ring done, so late commands of earlier calls are over.
- `NoDmaAfterFree` (`NoDmaToFreedPages`). Added: before the first wait that is
  cut short, host and modem are at most one command apart, and which one is
  known at each step (`Synchronous`).

`FormatsProofs`, for any lists of fields, bodies, packets, sequence numbers and
transaction words that the code takes (the assumptions above), any frames, any
length of the stream and any sizes of the reads:

- `FieldsRoundTrip` (`RoundTrip`). The wire is looked at from its end: there is
  a chain of suffixes, each a packed field followed by the next one (`Chain`),
  and as far as the fields have been read both readers stand at the same suffix
  with the same values (`FieldsInv`). A step takes one field off
  (`TakesField`), which rests on what `BigEndian` writes `FromBigEndian` reads
  for each width, on the parts of a packed string (`StringParts`), and on its
  length being read as it was written (`LengthReads`), which is where `Symmetric`
  is needed.
- `FramesAgreeAlways` (`FramesAgree`). The parts of a message lie at fixed
  places (`FrameIs`), and `unpack_unknown` walks the same chain of suffixes over
  its body. That a response is told from a callback is arithmetic on the
  transaction word and disjointness of the two tables.
- `MuxReadableAlways` (`MuxReadable`). A frame is known by the bytes at its
  places (`Laid`): `append_tag` puts the second header and patches the pointer in
  the first one, and neither touches what the other has written. The driver's
  offsets are the same sums. The packet comes back from `read_mux` when the frame
  fits one read.
- `TraceDecodesAlways` (`TraceDecodes`). The stream is known by the places `e[k]`
  of its flags (`TraceIs`); no other byte of it is one. The invariant
  (`StreamInv`, `Held`) says what the decoder keeps: nothing before the first
  flag, then the bytes from the flag behind the last frame it has handled
  up to the last byte read, and what those frames say. `cut_one` takes off one frame if
  its flag is there (`CutOneNext`) and changes nothing otherwise
  (`CutOneEnd`), so `cut` reaches the last flag in the buffer
  (`CutReaches`). What a frame does to a decoder does not depend on what that has
  printed before (`FrameDoes`), which is why its effect alone is enough.

Induction over data, which the library's theorems offer only with an operator
as parameter, is done here over a set of numbers (`Climb`, from the
well-foundedness of `Nat`). A recursive function `f[k]`, and `FlattenSeq`, are a
`CHOOSE`; the lemmas first show that a function with that equation exists
(`FlattensExists`, `CutsExist`) and then climb along it.

`RpcClientProofs` has the lemmas that `BringUpProofs` cites: what each operation
of client and modem does to the messages under way, as sequences (order and
number of answers) and as sets (which messages there are).

Only model-checked:

- All liveness (`PublishedIsTaken`, `FilledIsDelivered`, `DeadlineFlushes`,
  `CallsReturn`, `ErrorCleared`, `ModuleComesBack`, `EnsureEnds`, `ScriptEnds`):
  reasoning under fairness needs `ENABLED`, which is out of their reach.
- How one frame of the trace is decoded (`unescape`, `handle_packet`,
  `decode_printf`): TLC compares it with results worked out by hand when it
  evaluates `FramesAssumption`; there is no second definition to prove it against.
- The counterexamples.

## Not modelled

- The command ring's slots and executors of different queue pairs at once
  (`cmd_ring_execute` takes no lock): `QueuePair` has one queue pair, whose
  commands `qp->lock` serialises.
- Device probe, `dev_init`, `dev_deinit` and removal: every model begins with a
  device that is up. Their hazards against a live interrupt are in
  `PROJECT.json`.
- `tty_write` and its wake-up; of a tty there are the open, the close and the
  reading by the interrupt handler.
- Delivery of received packets to the network stack. `net_poll` takes from the
  ring as `cdev_read` does.
- The panel's widget, GNOME Shell code: what its toggle runs is in `Recovery`.
- `mux.c`, an older alternative to the driver's own multiplexer.
- `fibocom-l850-status` and `fibocom-l850-daemon` query and change nothing; that
  the first takes the RPC device is `Other` in `BringUp`.
- In the models of the driver, contents of messages and packets, and frame
  parsing on receive beyond what `PushedFrameReadable` states of the format.
- How a trace line is formatted, and what the RPC client prints.
- Memory ordering between CPU and device: the driver uses coherent DMA, and its
  doorbell is a store through a `volatile` pointer (line 299) without a barrier before
  it; a cursor's store is taken to be visible in program order.
- A modem that falls asleep between `xmm7360_ding`'s look at `status.asleep` and its
  doorbell: `ding` is one step, and `ModemSleep` waits until no bell rings. Whether
  the firmware can do otherwise, and what it makes of such a doorbell, the source
  does not say.
- Allocation failures, except where they end a flush or an open.
- Snapshots, logging and the cellular network itself (its failures are steps of
  `Recovery`). Routes are in `BringUp` (`routed`, `EnsureRoute`), not in `Recovery`.
- Installers, units and examples: they keep no state.
