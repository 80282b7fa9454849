------------------------------ MODULE Recovery ------------------------------
(***************************************************************************)
(* How the data session is kept up: fibocom-l850-up-retry ("ensure"), the  *)
(* watcher with its three event sources, fibocom-l850-ctl, the self-heal   *)
(* timer, fibocom-l850-rat and the resume unit.  They are processes of     *)
(* their own that meet in a lock file, in the force-hard marker, in the    *)
(* watcher's debounce stamp and in systemd's unit fibocom-l850-up.         *)
(*                                                                         *)
(* Time is abstract: a marker is fresh until it is 120 s old, the debounce *)
(* stamp recent until it is 30 s old; either may end between any two steps *)
(* and so may a bring-up, which the stall watchdog bounds.                 *)
(***************************************************************************)
EXTENDS Integers, FiniteSets

CONSTANTS Units,     \* units that run ensure: "service", "resume"
          Callers,   \* who may ask for a recovery (see AllCallers)
          Tries,     \* TRIES_PER_ROUND
          Rounds,    \* ROUNDS
          Burst,     \* StartLimitBurst of fibocom-l850-up.service
          MaxFaults, \* bound: faults of the modem, and failing probes in the log
          MaxUser    \* bound: actions of the user, and resumes

Sources == {"kernel", "netlink", "probe"}   \* fibocom-l850-watch
AllCallers == Sources \cup {"panel", "selfheal", "rat"}

ASSUME UnitsAssumption == "service" \in Units /\ Units \subseteq {"service", "resume"}
ASSUME CallersAssumption == Callers \subseteq AllCallers
ASSUME BoundAssumption == Tries \in Nat \ {0} /\ Rounds \in Nat \ {0}
                          /\ Burst \in Nat \ {0} /\ MaxFaults \in Nat /\ MaxUser \in Nat

VARIABLES module,    \* "out", "idle" (loaded, but no modem was probed), "bound"
          drvError,  \* xmm->error: only a new probe clears it
          link,      \* wwan0 is up
          session,   \* "none", "stale" (an address, but nothing passes), "up"
          kmsg,      \* the kinds of lines in the kernel log not yet read
          netmsg,    \* a link or address change, not yet read
          marker,    \* force-hard: "none", "empty", "fresh", "stale"
          last,      \* the watcher's stamp: "recent" or "old"
          starts,    \* starts of the service in this StartLimitInterval
          lock,      \* who holds the flock
          pc, ctx, attempt, got,   \* each ensure
          cpc, window, mode,       \* each caller: progress, LAST as it read it,
                                   \* act's second argument
          faults, user,            \* bounds
          owed       \* history of the hard request accepted last: "none" (or
                     \* carried out), "owed", "refused" (by the kernel)

sysVars == <<module, drvError, link, session, kmsg, netmsg>>
fileVars == <<marker, last>>
ensVars == <<starts, lock, pc, ctx, attempt, got, owed>>
callVars == <<cpc, window, mode>>
histVars == <<faults, user>>
vars == <<sysVars, fileVars, ensVars, callVars, histVars>>

Nobody == "nobody"
Attempts == Tries * Rounds

\* Without a probed modem there is no wwan0.
loaded == module = "bound"
\* healthy() of all four scripts: an address, and ping gets through.  (For a
\* while it may even when the driver is in error: see SessionDies.)
healthy == loaded /\ link /\ session = "up"
\* systemctl is-active = activating, or pgrep finds an ensure process.
running == \E e \in Units : pc[e] # "off"

Init ==
  /\ module = "bound" /\ drvError = FALSE /\ link = FALSE /\ session = "none"
  /\ kmsg = {} /\ netmsg = FALSE /\ marker = "none" /\ last = "old"
  /\ starts = 1 /\ lock = Nobody /\ owed = "none"
  /\ pc = [e \in Units |-> IF e = "service" THEN "start" ELSE "off"]
  /\ ctx = [e \in Units |-> "fast"] /\ attempt = [e \in Units |-> 0]
  /\ got = [e \in Units |-> "none"]
  /\ cpc = [c \in Callers |-> "idle"] /\ window = [c \in Callers |-> "old"]
  /\ mode = [c \in Callers |-> "soft"]
  /\ faults = 0 /\ user = 0

\* A change of the link or the address reaches ip monitor, if it is modelled.
NetEvent(change) == netmsg' = ("netlink" \in Callers /\ (netmsg \/ change))

Goto(e, label) == pc' = [pc EXCEPT ![e] = label]
CallGoto(c, label) ==
  /\ cpc' = [cpc EXCEPT ![c] = label]
  /\ window' = IF label \in {"trunc", "stamp"} THEN window ELSE [window EXCEPT ![c] = "old"]
  /\ mode' = [mode EXCEPT ![c] = "soft"]
-----------------------------------------------------------------------------
(* fibocom-l850-up-retry                                                   *)

\* (Operators named X_Y, with Y saying what is wrong, are not part of the
\* model: each is a plausible mistake in X that a property must notice.)
Lock_Ignored(e) ==
  /\ pc[e] = "start"
  /\ lock' = e /\ Goto(e, "probe")
  /\ UNCHANGED <<sysVars, fileVars, starts, ctx, attempt, got, owed, callVars, histVars>>

\* flock -n: another instance is at work, so exit at once.
Lock(e) ==
  /\ pc[e] = "start"
  /\ IF lock = Nobody THEN lock' = e /\ Goto(e, "probe")
                      ELSE UNCHANGED lock /\ Goto(e, "off")
  /\ UNCHANGED <<sysVars, fileVars, starts, ctx, attempt, got, owed, callVars, histVars>>

Probe(e) ==
  /\ pc[e] = "probe"
  /\ ctx' = [ctx EXCEPT ![e] = IF healthy THEN "fast" ELSE "entry"]
  /\ attempt' = [attempt EXCEPT ![e] = 0]
  /\ Goto(e, "read")
  /\ UNCHANGED <<sysVars, fileVars, starts, lock, got, owed, callVars, histVars>>

\* What follows hard_requested in its three places.
AfterRequest_Ladder(e, yes) ==
  CASE ctx[e] = "fast"   -> Goto(e, "exit") /\ UNCHANGED <<ctx, attempt, owed>>
    [] ctx[e] = "entry"  -> /\ Goto(e, IF yes THEN "hard" ELSE "read")
                            /\ ctx' = [ctx EXCEPT ![e] = IF yes THEN @ ELSE "ladder"]
                            /\ attempt' = [attempt EXCEPT ![e] = IF yes THEN 0 ELSE 1]
                            /\ owed' = IF yes THEN "owed" ELSE owed
    [] ctx[e] = "ladder" -> /\ Goto(e, "bringup")
                            /\ owed' = IF yes THEN "owed" ELSE owed
                            /\ UNCHANGED <<ctx, attempt>>
AfterRequest(e, yes) ==
  CASE ctx[e] = "fast"   -> Goto(e, "exit") /\ UNCHANGED <<ctx, attempt, owed>>
    [] ctx[e] = "entry"  -> /\ Goto(e, IF yes THEN "hard" ELSE "read")
                            /\ ctx' = [ctx EXCEPT ![e] = IF yes THEN @ ELSE "ladder"]
                            /\ attempt' = [attempt EXCEPT ![e] = IF yes THEN 0 ELSE 1]
                            /\ owed' = IF yes THEN "owed" ELSE owed
    [] ctx[e] = "ladder" -> /\ Goto(e, IF yes THEN "hard" ELSE "bringup")
                            /\ owed' = IF yes THEN "owed" ELSE owed
                            /\ UNCHANGED <<ctx, attempt>>

\* hard_requested: cat the marker ...
ReadMarker(e) ==
  /\ pc[e] = "read"
  /\ got' = [got EXCEPT ![e] = marker]
  /\ IF marker = "none" THEN AfterRequest(e, FALSE)
                        ELSE Goto(e, "rm") /\ UNCHANGED <<ctx, attempt, owed>>
  /\ UNCHANGED <<sysVars, fileVars, starts, lock, callVars, histVars>>

\* ... rm it, whatever it is by now, and judge what was read.
RemoveMarker(e) ==
  /\ pc[e] = "rm"
  /\ marker' = "none"
  /\ AfterRequest(e, got[e] = "fresh")
  /\ got' = [got EXCEPT ![e] = "none"]
  /\ UNCHANGED <<sysVars, last, starts, lock, callVars, histVars>>

\* hard_recover calls rat without NORESTART: systemd kills this very process.
HardRecover_Restarts(e) ==
  /\ pc[e] = "hard"
  /\ Goto(e, "start") /\ lock' = Nobody /\ owed' = "none"
  /\ UNCHANGED <<sysVars, fileVars, starts, ctx, attempt, got, callVars, histVars>>

\* hard_recover: rat auto with NORESTART=1, kill_strays.
HardRecover(e) ==
  /\ pc[e] = "hard"
  /\ Goto(e, "unload")
  /\ UNCHANGED <<sysVars, fileVars, starts, lock, ctx, attempt, got, owed, callVars, histVars>>

\* modprobe -r: wwan0 and the driver's error go with the module.
Unload(e) ==
  /\ pc[e] = "unload"
  /\ module' = "out" /\ drvError' = FALSE /\ link' = FALSE /\ session' = "none"
  /\ owed' = "none"
  /\ NetEvent(loaded)
  /\ Goto(e, "load")
  /\ UNCHANGED <<kmsg, fileVars, starts, lock, ctx, attempt, got, callVars, histVars>>

\* modprobe -r fails while a status query has /dev/xmm0/rpc open, and the
\* script goes on.
UnloadRefused(e) ==
  /\ pc[e] = "unload" /\ loaded
  /\ owed' = IF owed = "owed" THEN "refused" ELSE owed
  /\ Goto(e, "load")
  /\ UNCHANGED <<sysVars, fileVars, starts, lock, ctx, attempt, got, callVars, histVars>>

\* modprobe: a loaded module stays as it is; otherwise the modem is probed, or
\* not ready yet, or loading fails.
ModprobeQuietly ==
  /\ module' \in IF module = "out" THEN {"out", "idle", "bound"} ELSE {module}
  /\ UNCHANGED <<kmsg, faults>>
\* A probe that fails is an error in the kernel log, and may have said "unknown
\* modem status" before, which the watcher takes for hard.  (Counted as a fault.)
ProbeFails ==
  /\ module = "out" /\ faults < MaxFaults
  /\ module' = "idle" /\ faults' = faults + 1
  /\ kmsg' \in {kmsg \cup {"soft"}, kmsg \cup {"soft", "hard"}}
Modprobe == ModprobeQuietly \/ ProbeFails

\* modprobe || true; then the attempt that was due, or the next round's
\* first.  Whether the kernel says "modem is ready" is only logged.
Load(e) ==
  /\ pc[e] = "load"
  /\ Modprobe
  /\ IF ctx[e] = "reload"
       THEN /\ ctx' = [ctx EXCEPT ![e] = "ladder"]
            /\ attempt' = [attempt EXCEPT ![e] = @ + 1]
            /\ Goto(e, "read")
       ELSE Goto(e, "bringup") /\ UNCHANGED <<ctx, attempt>>
  /\ UNCHANGED <<drvError, link, session, netmsg, fileVars, starts, lock, got, owed,
                 callVars, user>>

\* xmm-up loads a module that is missing, and fails when that fails.
XmmUpLoads(e) ==
  /\ pc[e] = "bringup" /\ module = "out"
  /\ Modprobe
  /\ Goto(e, IF module' = "out" THEN "judge" ELSE "bringup")
  /\ UNCHANGED <<drvError, link, session, netmsg, fileVars, starts, lock, ctx, attempt,
                 got, owed, callVars, user>>

\* kill_strays, run_bringup: success, no answer (killed by the stall watchdog
\* or the timeout), or an end after the address was set and before the
\* session was connected.
BringUp(e) ==
  /\ pc[e] = "bringup" /\ module # "out"
  /\ \/ /\ loaded /\ ~drvError
        /\ session' \in {"up", "stale"} /\ link' = TRUE /\ NetEvent(TRUE)
     \/ /\ session' \in IF session = "up" THEN {"up", "stale"} ELSE {session}
        /\ UNCHANGED <<link, netmsg>>
  /\ Goto(e, "judge")
  /\ UNCHANGED <<module, drvError, kmsg, fileVars, starts, lock, ctx, attempt, got, owed,
                 callVars, histVars>>

\* attempt_succeeded, and the two loops around it.
NextAttempt_OneMore(e) ==
  IF attempt[e] > Attempts
    THEN Goto(e, "exit") /\ UNCHANGED <<ctx, attempt>>
    ELSE /\ ctx' = [ctx EXCEPT ![e] = "ladder"]
         /\ attempt' = [attempt EXCEPT ![e] = @ + 1]
         /\ Goto(e, "read")
NextAttempt_NoReload(e) ==
  IF attempt[e] = Attempts
    THEN Goto(e, "exit") /\ UNCHANGED <<ctx, attempt>>
    ELSE /\ ctx' = [ctx EXCEPT ![e] = "ladder"]
         /\ attempt' = [attempt EXCEPT ![e] = @ + 1]
         /\ Goto(e, "read")
NextAttempt_StartsOver(e) ==
  IF attempt[e] % Tries = 0 /\ attempt[e] > 0
    THEN Goto(e, "hard") /\ ctx' = [ctx EXCEPT ![e] = "reload"]
         /\ attempt' = [attempt EXCEPT ![e] = 0]
    ELSE /\ ctx' = [ctx EXCEPT ![e] = "ladder"]
         /\ attempt' = [attempt EXCEPT ![e] = @ + 1]
         /\ Goto(e, "read")
NextAttempt(e) ==
  IF attempt[e] = Attempts
    THEN Goto(e, "exit") /\ UNCHANGED <<ctx, attempt>>
  ELSE IF attempt[e] % Tries = 0 /\ attempt[e] > 0
    THEN Goto(e, "hard") /\ ctx' = [ctx EXCEPT ![e] = "reload"] /\ UNCHANGED attempt
    ELSE /\ ctx' = [ctx EXCEPT ![e] = "ladder"]
         /\ attempt' = [attempt EXCEPT ![e] = @ + 1]
         /\ Goto(e, "read")

Judge(e) ==
  /\ pc[e] = "judge"
  /\ IF healthy THEN Goto(e, "exit") /\ UNCHANGED <<ctx, attempt>> ELSE NextAttempt(e)
  /\ UNCHANGED <<sysVars, fileVars, starts, lock, got, owed, callVars, histVars>>

\* The flock goes with the process.
Exit(e) ==
  /\ pc[e] = "exit"
  /\ Goto(e, "off") /\ lock' = Nobody
  /\ ctx' = [ctx EXCEPT ![e] = "fast"] /\ attempt' = [attempt EXCEPT ![e] = 0]
  /\ UNCHANGED <<sysVars, fileVars, starts, got, owed, callVars, histVars>>

\* The resume unit runs an ensure of its own, in a unit of its own.
Resume ==
  /\ "resume" \in Units /\ pc["resume"] = "off" /\ user < MaxUser
  /\ user' = user + 1
  /\ Goto("resume", "start")
  /\ UNCHANGED <<sysVars, fileVars, starts, lock, ctx, attempt, got, owed, callVars, faults>>
-----------------------------------------------------------------------------
(* fibocom-l850-watch: act, in each of the three event sources             *)

\* An event, and the stamp as it is now.  The kernel's lines that are taken
\* for a sticky driver error make it hard, the others soft.
Observe(c) ==
  /\ c \in Sources /\ cpc[c] = "idle"
  /\ CASE c = "kernel"  -> /\ mode' \in {[mode EXCEPT ![c] = kind] : kind \in kmsg}
                           /\ kmsg' = kmsg \ {mode'[c]}
                           /\ UNCHANGED netmsg
       [] c = "netlink" -> netmsg /\ netmsg' = FALSE /\ UNCHANGED <<kmsg, mode>>
       [] c = "probe"   -> ~healthy /\ UNCHANGED <<kmsg, netmsg, mode>>
  /\ window' = [window EXCEPT ![c] = last]
  /\ cpc' = [cpc EXCEPT ![c] = "act"]
  /\ UNCHANGED <<module, drvError, link, session, fileVars, ensVars, histVars>>

\* In the window only a hard event leaves its marker; else stamp, and ctl on.
Act(c) ==
  /\ cpc[c] = "act"
  /\ IF window[c] = "recent"
       THEN CallGoto(c, IF mode[c] = "hard" THEN "trunc" ELSE "idle") /\ UNCHANGED last
       ELSE /\ last' = "recent"
            /\ CallGoto(c, IF mode[c] = "hard" THEN "trunc" ELSE "check")
  /\ UNCHANGED <<sysVars, marker, ensVars, histVars>>

DebounceEnds ==
  /\ last = "recent" /\ last' = "old"
  /\ UNCHANGED <<sysVars, marker, ensVars, callVars, histVars>>
-----------------------------------------------------------------------------
(* fibocom-l850-ctl                                                        *)

\* date +%s > "$HARD_STAMP": the shell truncates the file ...
Truncate(c) ==
  /\ cpc[c] = "trunc"
  /\ marker' = "empty"
  /\ CallGoto(c, "stamp")
  /\ UNCHANGED <<sysVars, last, ensVars, histVars>>

\* ... and date writes to it, even when it has been unlinked meanwhile.
Stamp(c) ==
  /\ cpc[c] = "stamp"
  /\ marker' = IF marker = "none" THEN "none" ELSE "fresh"
  /\ CallGoto(c, IF window[c] = "recent" THEN "idle" ELSE "check")
  /\ UNCHANGED <<sysVars, last, ensVars, histVars>>

MarkerAges ==
  /\ marker = "fresh" /\ marker' = "stale"
  /\ UNCHANGED <<sysVars, last, ensVars, callVars, histVars>>

\* An ensure that is running is not disturbed.  (selfheal and rat make the
\* same test; they have no try_up.)
Check(c) ==
  /\ cpc[c] = "check"
  /\ CallGoto(c, IF running THEN "idle"
                 ELSE IF c \in {"selfheal", "rat"} THEN "restart" ELSE "tryup")
  /\ UNCHANGED <<sysVars, fileVars, ensVars, histVars>>

\* systemd accepts Burst starts of the service in an interval.
StartService ==
  /\ Goto("service", IF starts < Burst THEN "start" ELSE "off")
  /\ starts' = IF starts < Burst THEN starts + 1 ELSE starts

StartIntervalEnds ==
  /\ starts > 0 /\ starts' = 0
  /\ UNCHANGED <<sysVars, fileVars, lock, pc, ctx, attempt, got, owed, callVars, histVars>>

\* try_up: start the service when wwan0 is missing, raise the link.
TryUp(c) ==
  /\ cpc[c] = "tryup"
  /\ IF ~loaded /\ pc["service"] = "off" THEN StartService ELSE UNCHANGED <<pc, starts>>
  /\ link' = loaded
  /\ NetEvent(link' # link)
  /\ CallGoto(c, "test")
  /\ UNCHANGED <<module, drvError, session, kmsg, fileVars, lock, ctx, attempt, got, owed,
                 histVars>>

\* try_up's result, after five tests of link_is_up.  (On success ensure_route
\* adds the default route if there is none; BringUp models the routes.)
Test(c) ==
  /\ cpc[c] = "test"
  /\ CallGoto(c, IF healthy THEN "idle" ELSE "restart")
  /\ UNCHANGED <<sysVars, fileVars, ensVars, histVars>>

\* systemctl restart: what runs in the unit is killed, then it starts anew
\* (or stays dead, when the start limit is reached).
Restart(c) ==
  /\ cpc[c] = "restart"
  /\ StartService
  /\ lock' = IF lock = "service" THEN Nobody ELSE lock
  /\ owed' = IF lock = "service" THEN "none" ELSE owed
  /\ ctx' = [ctx EXCEPT !["service"] = "fast"]
  /\ attempt' = [attempt EXCEPT !["service"] = 0]
  /\ got' = [got EXCEPT !["service"] = "none"]
  /\ CallGoto(c, "idle")
  /\ UNCHANGED <<sysVars, fileVars, histVars>>

\* The panel's switch.
PanelOn ==
  /\ "panel" \in Callers /\ cpc["panel"] = "idle" /\ user < MaxUser
  /\ user' = user + 1
  /\ CallGoto("panel", "check")
  /\ UNCHANGED <<sysVars, fileVars, ensVars, faults>>

PanelOff ==
  /\ "panel" \in Callers /\ cpc["panel"] = "idle" /\ user < MaxUser
  /\ user' = user + 1
  /\ link' = FALSE /\ NetEvent(link)
  /\ UNCHANGED <<module, drvError, session, kmsg, fileVars, ensVars, callVars, faults>>

\* fibocom-l850-selfheal, from its timer.
SelfHeal ==
  /\ "selfheal" \in Callers /\ cpc["selfheal"] = "idle"
  /\ ~healthy
  /\ CallGoto("selfheal", "check")
  /\ UNCHANGED <<sysVars, fileVars, ensVars, histVars>>

\* fibocom-l850-rat, called by the user.
Rat ==
  /\ "rat" \in Callers /\ cpc["rat"] = "idle" /\ user < MaxUser
  /\ user' = user + 1
  /\ CallGoto("rat", "check")
  /\ UNCHANGED <<sysVars, fileVars, ensVars, faults>>
-----------------------------------------------------------------------------
(* The modem                                                               *)

\* The driver marks the device in error and says so in the kernel log, where
\* other lines may follow (that it may repeat the first is left out); the link may
\* still pass a packet or two.
Fault ==
  /\ loaded /\ ~drvError /\ faults < MaxFaults
  /\ faults' = faults + 1
  /\ drvError' = TRUE
  /\ kmsg' \in {kmsg \cup {"hard"} \cup other : other \in SUBSET {"soft"}}
  /\ session' \in {session, IF session = "up" THEN "stale" ELSE session}
  /\ UNCHANGED <<module, link, netmsg, fileVars, ensVars, callVars, user>>

\* It does not for long.
SessionDies ==
  /\ drvError /\ session = "up"
  /\ session' = "stale"
  /\ UNCHANGED <<module, drvError, link, kmsg, netmsg, fileVars, ensVars, callVars, histVars>>

\* The session dies by itself: nobody says so, or the kernel log has lines that
\* the watcher takes for soft.
SessionLost ==
  /\ session = "up" /\ faults < MaxFaults
  /\ faults' = faults + 1
  /\ session' = "stale"
  /\ kmsg' \in {kmsg \cup lines : lines \in SUBSET {"soft"}}
  /\ UNCHANGED <<module, drvError, link, netmsg, fileVars, ensVars, callVars, user>>
-----------------------------------------------------------------------------
Ensure(e) == \/ Lock(e) \/ Probe(e) \/ ReadMarker(e) \/ RemoveMarker(e)
             \/ HardRecover(e) \/ Unload(e) \/ UnloadRefused(e) \/ Load(e)
             \/ XmmUpLoads(e) \/ BringUp(e) \/ Judge(e) \/ Exit(e)
Call(c) == Act(c) \/ Truncate(c) \/ Stamp(c) \/ Check(c) \/ TryUp(c) \/ Test(c) \/ Restart(c)
User == PanelOn \/ PanelOff \/ Rat \/ Resume
Next == \/ \E e \in Units : Ensure(e)
        \/ \E c \in Callers : Observe(c) \/ Call(c)
        \/ SelfHeal \/ User \/ Fault \/ SessionDies \/ SessionLost \/ DebounceEnds \/ StartIntervalEnds \/ MarkerAges

Spec == Init /\ [][Next]_vars

\* Every script goes on once it has begun, the watcher (Restart=always) reads
\* the kernel log and probes every PROBE_INTERVAL, time passes, and a session
\* on a driver in error dies (ctl: it may still ping once or twice).  Removing
\* and loading the module, tried again and again, succeed in the end.  Bring-ups
\* need not succeed, users need not act, the self-heal timer may be disabled,
\* and netlink events wait in the buffer of a grep without --line-buffered.
LiveSpec ==
  /\ Spec
  /\ \A e \in Units : WF_vars(Ensure(e)) /\ SF_vars(Unload(e)) /\ SF_vars(Load(e) /\ loaded')
  /\ \A c \in Callers : WF_vars(Call(c)) /\ (c \in {"kernel", "probe"} => WF_vars(Observe(c)))
  /\ WF_vars(DebounceEnds) /\ WF_vars(StartIntervalEnds) /\ WF_vars(SessionDies)
-----------------------------------------------------------------------------
(* Properties                                                              *)

\* The shape of the state.
SystemTypes ==
  /\ module \in {"out", "idle", "bound"} /\ drvError \in BOOLEAN /\ link \in BOOLEAN
  /\ kmsg \subseteq {"soft", "hard"} /\ netmsg \in BOOLEAN /\ session \in {"none", "stale", "up"}
  /\ marker \in {"none", "empty", "fresh", "stale"} /\ last \in {"recent", "old"}
  /\ faults \in 0 .. MaxFaults /\ user \in 0 .. MaxUser
EnsureTypes ==
  /\ starts \in 0 .. Burst /\ lock \in Units \cup {Nobody}
  /\ owed \in {"none", "owed", "refused"}
  /\ pc \in [Units -> {"off", "start", "probe", "read", "rm", "hard", "unload", "load",
                       "bringup", "judge", "exit"}]
  /\ ctx \in [Units -> {"fast", "entry", "ladder", "reload"}]
  /\ attempt \in [Units -> 0 .. Attempts]
  /\ got \in [Units -> {"none", "empty", "fresh", "stale"}]
CallerTypes ==
  /\ cpc \in [Callers -> {"idle", "act", "trunc", "stamp", "check", "tryup", "test", "restart"}]
  /\ window \in [Callers -> {"recent", "old"}] /\ mode \in [Callers -> {"soft", "hard"}]
TypeOK == SystemTypes /\ EnsureTypes /\ CallerTypes

\* Past the flock there is one ensure: two would fight for /dev/xmm0/rpc and
\* reload the module under each other.
Working(e) == pc[e] \notin {"off", "start"}
OneEnsure == \A e, f \in Units : Working(e) /\ Working(f) => e = f

\* After an accepted hard request nobody tries the modem again before the
\* module is out, whatever else is asked and restarted meanwhile: while the
\* driver is in error every attempt is wasted.  Only a kernel that refuses to
\* remove the module, because it is in use, lets such an attempt happen.
HardBeforeRetry == owed = "owed" => \A e \in Units : pc[e] \notin {"bringup", "judge"}

\* The driver's error is sticky; whatever interrupts the recovery, and however
\* markers get lost, the module is reloaded in the end.
ErrorCleared == drvError ~> ~drvError

\* Even when the ensure that removed the module is killed before it loads it.
ModuleComesBack == ~loaded ~> loaded

\* The ladder is finite: an ensure ends, although it can be restarted.
EnsureEnds == \A e \in Units : (pc[e] # "off") ~> (pc[e] = "off")

\* ctl: a running ensure is not interrupted by another event.
NotInterrupted == [][\A c \in Callers : cpc[c] = "restart" /\ cpc'[c] = "idle"
                       => ~Working("service")]_vars
=============================================================================
