--------------------------- MODULE RecoveryProofs ---------------------------
(* Proofs about the recovery scripts, for any units and callers, any length *)
(* of the ladder and any start limit: at most one ensure works, and a hard  *)
(* request it accepted is carried out, or refused by the kernel, before its *)
(* next attempt.                                                            *)
EXTENDS Recovery, TLAPS

\* The ladder has at least one attempt.
LEMMA AttemptsIs == Attempts \in Nat /\ Attempts >= 1
<1>1. Tries \in Nat /\ Tries >= 1 /\ Rounds \in Nat /\ Rounds >= 1
  BY BoundAssumption
<1>2. Tries * Rounds \in Nat /\ Tries * Rounds >= 1
  BY <1>1
<1> QED BY <1>2 DEF Attempts

\* systemd's units are none of "nobody".
LEMMA UnitsAre == /\ "service" \in Units
                  /\ \A e \in Units : e \in {"service", "resume"} /\ e # Nobody
BY UnitsAssumption DEF Nobody

\* Who works holds the flock: it is taken at the start and leaves with the
\* process, whether that ends or is killed.
HoldsLock == \A e \in Units : Working(e) => lock = e

\* hard_requested runs in one of its three places; a reload is asked for by
\* the ladder only, when attempts are left.
Places ==
  \A e \in Units :
    /\ pc[e] \in {"read", "rm"} => ctx[e] # "reload"
    /\ ctx[e] = "reload" => attempt[e] < Attempts

\* An accepted hard request is in the hands of a working ensure until the
\* module is out or the kernel has refused to remove it.
InHand == owed = "owed" => \E e \in Units : lock = e /\ pc[e] \in {"hard", "unload"}

IInv == TypeOK /\ HoldsLock /\ Places /\ InHand

\* What follows hard_requested keeps the types of what it changes.
LEMMA AfterRequestTypes ==
  ASSUME EnsureTypes, NEW e \in Units, NEW yes \in BOOLEAN, AfterRequest(e, yes),
         ctx[e] # "reload"
  PROVE  /\ pc' \in [Units -> {"off", "start", "probe", "read", "rm", "hard", "unload", "load",
                               "bringup", "judge", "exit"}]
         /\ ctx' \in [Units -> {"fast", "entry", "ladder", "reload"}]
         /\ attempt' \in [Units -> 0 .. Attempts]
         /\ owed' \in {"none", "owed", "refused"}
<1>1. ctx[e] \in {"fast", "entry", "ladder"}
  BY DEF EnsureTypes
<1>2. 0 \in 0 .. Attempts /\ 1 \in 0 .. Attempts
  BY AttemptsIs
<1>3. CASE ctx[e] = "fast"
  BY <1>3 DEF AfterRequest, Goto, EnsureTypes
<1>4. CASE ctx[e] = "entry"
  <2>1. /\ pc' = [pc EXCEPT ![e] = IF yes THEN "hard" ELSE "read"]
        /\ ctx' = [ctx EXCEPT ![e] = IF yes THEN ctx[e] ELSE "ladder"]
        /\ attempt' = [attempt EXCEPT ![e] = IF yes THEN 0 ELSE 1]
        /\ owed' = IF yes THEN "owed" ELSE owed
    BY <1>4 DEF AfterRequest, Goto
  <2>2. pc' \in [Units -> {"off", "start", "probe", "read", "rm", "hard", "unload", "load",
                          "bringup", "judge", "exit"}]
        /\ ctx' \in [Units -> {"fast", "entry", "ladder", "reload"}]
    BY <2>1 DEF EnsureTypes
  <2>3. attempt' \in [Units -> 0 .. Attempts]
    BY <1>2, <2>1 DEF EnsureTypes
  <2>4. owed' \in {"none", "owed", "refused"}
    BY <2>1 DEF EnsureTypes
  <2> QED BY <2>2, <2>3, <2>4
<1>5. CASE ctx[e] = "ladder"
  <2>1. /\ pc' = [pc EXCEPT ![e] = IF yes THEN "hard" ELSE "bringup"]
        /\ UNCHANGED <<ctx, attempt>>
        /\ owed' = IF yes THEN "owed" ELSE owed
    BY <1>5 DEF AfterRequest, Goto
  <2>2. owed' \in {"none", "owed", "refused"}
    BY <2>1 DEF EnsureTypes
  <2> QED BY <2>1, <2>2 DEF EnsureTypes
<1> QED BY <1>1, <1>3, <1>4, <1>5

\* The boot timer has started the service; nobody works yet.
LEMMA InitInv == Init => IInv
<1> SUFFICES ASSUME Init PROVE IInv
  OBVIOUS
<1> USE AttemptsIs, UnitsAre DEF Init
<1>1. /\ starts \in 0 .. Burst /\ faults \in 0 .. MaxFaults /\ user \in 0 .. MaxUser
      /\ attempt \in [Units -> 0 .. Attempts]
  BY BoundAssumption
<1>2. /\ pc \in [Units -> {"off", "start", "probe", "read", "rm", "hard", "unload", "load",
                          "bringup", "judge", "exit"}]
      /\ ctx \in [Units -> {"fast", "entry", "ladder", "reload"}]
      /\ got \in [Units -> {"none", "empty", "fresh", "stale"}]
      /\ cpc \in [Callers -> {"idle", "act", "trunc", "stamp", "check", "tryup", "test",
                             "restart"}]
      /\ window \in [Callers -> {"recent", "old"}] /\ mode \in [Callers -> {"soft", "hard"}]
  OBVIOUS
<1>3. TypeOK
  BY <1>1, <1>2 DEF TypeOK, SystemTypes, EnsureTypes, CallerTypes
<1>4. HoldsLock /\ Places /\ InHand
  BY DEF HoldsLock, Working, Places, InHand
<1> QED BY <1>3, <1>4 DEF IInv

\* The flock is free before it is taken: nobody works then.
LEMMA LockInv == ASSUME IInv, NEW e \in Units, Lock(e) PROVE IInv'
<1> USE UnitsAre, AttemptsIs, BoundAssumption DEF IInv, TypeOK
<1>1. SystemTypes'
  BY DEF SystemTypes, Lock, Goto, sysVars, fileVars, callVars, histVars
<1>2. EnsureTypes'
  BY DEF EnsureTypes, Lock, Goto, sysVars, fileVars, callVars, histVars
<1>3. CallerTypes'
  BY DEF CallerTypes, Lock, Goto, sysVars, fileVars, callVars, histVars
<1>4. HoldsLock'
  BY DEF EnsureTypes, HoldsLock, Working, Lock, Goto, sysVars, fileVars, callVars,
         histVars
<1>5. Places'
  BY DEF EnsureTypes, Places, Lock, Goto, sysVars, fileVars, callVars, histVars
<1>6. InHand'
  BY DEF EnsureTypes, InHand, HoldsLock, Working, Lock, Goto, sysVars, fileVars, callVars,
         histVars
<1> QED BY <1>1, <1>2, <1>3, <1>4, <1>5, <1>6

\* The fast path's probe decides the place of the first hard_requested.
LEMMA ProbeInv == ASSUME IInv, NEW e \in Units, Probe(e) PROVE IInv'
<1> USE UnitsAre, AttemptsIs, BoundAssumption DEF IInv, TypeOK
<1>1. SystemTypes'
  BY DEF SystemTypes, Probe, Goto, sysVars, fileVars, callVars, histVars
<1>2. EnsureTypes'
  BY DEF EnsureTypes, Probe, Goto, sysVars, fileVars, callVars, histVars
<1>3. CallerTypes'
  BY DEF CallerTypes, Probe, Goto, sysVars, fileVars, callVars, histVars
<1>4. HoldsLock'
  BY DEF EnsureTypes, HoldsLock, Working, Probe, Goto, sysVars, fileVars, callVars,
         histVars
<1>5. Places'
  BY DEF EnsureTypes, Places, Probe, Goto, sysVars, fileVars, callVars, histVars
<1>6. InHand'
  BY DEF EnsureTypes, InHand, HoldsLock, Working, Probe, Goto, sysVars, fileVars,
         callVars, histVars
<1> QED BY <1>1, <1>2, <1>3, <1>4, <1>5, <1>6

\* Without a marker, hard_requested has its answer at once.
LEMMA ReadMarkerInv == ASSUME IInv, NEW e \in Units, ReadMarker(e) PROVE IInv'
<1> USE UnitsAre, AttemptsIs, BoundAssumption DEF IInv, TypeOK
<1>1. SystemTypes'
  BY DEF SystemTypes, ReadMarker, AfterRequest, Goto, sysVars, fileVars, callVars,
         histVars
<1>2. EnsureTypes'
  <2>1. ctx[e] # "reload" /\ FALSE \in BOOLEAN
    BY DEF ReadMarker, Places
  <2>2. got' \in [Units -> {"none", "empty", "fresh", "stale"}]
    BY DEF ReadMarker, SystemTypes, EnsureTypes
  <2>3. UNCHANGED <<starts, lock>>
    BY DEF ReadMarker
  <2>4. CASE marker = "none"
    BY <2>1, <2>2, <2>3, <2>4, AfterRequestTypes DEF ReadMarker, EnsureTypes
  <2>5. CASE marker # "none"
    BY <2>2, <2>3, <2>5 DEF ReadMarker, Goto, EnsureTypes
  <2> QED BY <2>4, <2>5
<1>3. CallerTypes'
  BY DEF CallerTypes, ReadMarker, AfterRequest, Goto, sysVars, fileVars, callVars,
         histVars
<1>4. HoldsLock'
  BY DEF EnsureTypes, HoldsLock, Working, Places, ReadMarker, AfterRequest, Goto, sysVars,
         fileVars, callVars, histVars
<1>5. Places'
  BY DEF EnsureTypes, Places, ReadMarker, AfterRequest, Goto, sysVars, fileVars, callVars,
         histVars
<1>6. InHand'
  BY DEF EnsureTypes, InHand, HoldsLock, Working, Places, ReadMarker, AfterRequest, Goto,
         sysVars, fileVars, callVars, histVars
<1> QED BY <1>1, <1>2, <1>3, <1>4, <1>5, <1>6

\* A fresh marker's request is taken in hand by the ensure that removes it.
LEMMA RemoveMarkerInv == ASSUME IInv, NEW e \in Units, RemoveMarker(e) PROVE IInv'
<1> USE UnitsAre, AttemptsIs, BoundAssumption DEF IInv, TypeOK
<1>1. SystemTypes'
  BY DEF SystemTypes, RemoveMarker, AfterRequest, Goto, sysVars, callVars, histVars
<1>2. EnsureTypes'
  <2>1. ctx[e] # "reload" /\ (got[e] = "fresh") \in BOOLEAN
    BY DEF RemoveMarker, Places
  <2>2. got' \in [Units -> {"none", "empty", "fresh", "stale"}]
    BY DEF RemoveMarker, EnsureTypes
  <2>3. UNCHANGED <<starts, lock>> /\ AfterRequest(e, got[e] = "fresh")
    BY DEF RemoveMarker
  <2> QED BY <2>1, <2>2, <2>3, AfterRequestTypes DEF EnsureTypes
<1>3. CallerTypes'
  BY DEF CallerTypes, RemoveMarker, AfterRequest, Goto, sysVars, callVars, histVars
<1>4. HoldsLock'
  BY ZenonT(60) DEF EnsureTypes, HoldsLock, Working, Places, RemoveMarker, AfterRequest, Goto,
           sysVars, callVars, histVars
<1>5. Places'
  BY DEF EnsureTypes, Places, RemoveMarker, AfterRequest, Goto, sysVars, callVars,
         histVars
<1>6. InHand'
  BY DEF EnsureTypes, InHand, HoldsLock, Working, Places, RemoveMarker, AfterRequest,
         Goto, sysVars, callVars, histVars
<1> QED BY <1>1, <1>2, <1>3, <1>4, <1>5, <1>6

\* The request stays in hand.
LEMMA HardRecoverInv == ASSUME IInv, NEW e \in Units, HardRecover(e) PROVE IInv'
<1> USE UnitsAre, AttemptsIs, BoundAssumption DEF IInv, TypeOK
<1>1. SystemTypes'
  BY DEF SystemTypes, HardRecover, Goto, sysVars, fileVars, callVars, histVars
<1>2. EnsureTypes'
  BY DEF EnsureTypes, HardRecover, Goto, sysVars, fileVars, callVars, histVars
<1>3. CallerTypes'
  BY DEF CallerTypes, HardRecover, Goto, sysVars, fileVars, callVars, histVars
<1>4. HoldsLock'
  BY DEF EnsureTypes, HoldsLock, Working, HardRecover, Goto, sysVars, fileVars, callVars,
         histVars
<1>5. Places'
  BY DEF EnsureTypes, Places, HardRecover, Goto, sysVars, fileVars, callVars, histVars
<1>6. InHand'
  BY DEF EnsureTypes, InHand, HoldsLock, Working, HardRecover, Goto, sysVars, fileVars,
         callVars, histVars
<1> QED BY <1>1, <1>2, <1>3, <1>4, <1>5, <1>6

\* The request is carried out when the module is out.
LEMMA UnloadInv == ASSUME IInv, NEW e \in Units, Unload(e) PROVE IInv'
<1> USE UnitsAre, AttemptsIs, BoundAssumption DEF IInv, TypeOK
<1>1. SystemTypes'
  BY DEF SystemTypes, Unload, Goto, NetEvent, fileVars, callVars, histVars
<1>2. EnsureTypes'
  BY DEF EnsureTypes, Unload, Goto, NetEvent, fileVars, callVars, histVars
<1>3. CallerTypes'
  BY DEF CallerTypes, Unload, Goto, NetEvent, fileVars, callVars, histVars
<1>4. HoldsLock'
  BY DEF EnsureTypes, HoldsLock, Working, Unload, Goto, NetEvent, fileVars, callVars,
         histVars
<1>5. Places'
  BY DEF EnsureTypes, Places, Unload, Goto, NetEvent, fileVars, callVars, histVars
<1>6. InHand'
  BY DEF EnsureTypes, InHand, HoldsLock, Working, Unload, Goto, NetEvent, fileVars,
         callVars, histVars
<1> QED BY <1>1, <1>2, <1>3, <1>4, <1>5, <1>6

\* A refused request is in nobody's hands.
LEMMA UnloadRefusedInv == ASSUME IInv, NEW e \in Units, UnloadRefused(e) PROVE IInv'
<1> USE UnitsAre, AttemptsIs, BoundAssumption DEF IInv, TypeOK
<1>1. SystemTypes'
  BY DEF SystemTypes, UnloadRefused, Goto, sysVars, fileVars, callVars, histVars
<1>2. EnsureTypes'
  BY DEF EnsureTypes, UnloadRefused, Goto, sysVars, fileVars, callVars, histVars
<1>3. CallerTypes'
  BY DEF CallerTypes, UnloadRefused, Goto, sysVars, fileVars, callVars, histVars
<1>4. HoldsLock'
  BY DEF EnsureTypes, HoldsLock, Working, UnloadRefused, Goto, sysVars, fileVars, callVars, histVars
<1>5. Places'
  BY DEF EnsureTypes, Places, UnloadRefused, Goto, sysVars, fileVars, callVars, histVars
<1>6. InHand'
  BY DEF EnsureTypes, InHand, HoldsLock, Working, UnloadRefused, Goto, sysVars, fileVars,
         callVars, histVars
<1> QED BY <1>1, <1>2, <1>3, <1>4, <1>5, <1>6

\* modprobe changes the module, and counts a probe that fails.
LEMMA ModprobeTypes ==
  ASSUME SystemTypes, Modprobe
  PROVE  /\ module' \in {"out", "idle", "bound"} /\ kmsg' \subseteq {"soft", "hard"}
         /\ faults' \in 0 .. MaxFaults
<1>1. CASE ModprobeQuietly
  BY <1>1 DEF SystemTypes, ModprobeQuietly
<1>2. CASE ProbeFails
  <2>1. faults' \in 0 .. MaxFaults
    BY <1>2, BoundAssumption DEF SystemTypes, ProbeFails
  <2> QED BY <1>2, <2>1 DEF SystemTypes, ProbeFails
<1> QED BY <1>1, <1>2 DEF Modprobe

\* By the time modprobe runs the request is carried out or refused.
LEMMA LoadInv == ASSUME IInv, NEW e \in Units, Load(e) PROVE IInv'
<1> USE UnitsAre, AttemptsIs, BoundAssumption DEF IInv, TypeOK
<1>1. SystemTypes'
  BY ModprobeTypes DEF SystemTypes, Load, fileVars
<1>2. EnsureTypes'
  <2>1. CASE ctx[e] = "reload"
    <3>1. attempt[e] \in 0 .. Attempts /\ attempt[e] < Attempts
      BY <2>1 DEF EnsureTypes, Places
    <3>2. attempt[e] + 1 \in 0 .. Attempts
      BY <3>1
    <3>3. attempt' \in [Units -> 0 .. Attempts]
      BY <2>1, <3>2 DEF Load, EnsureTypes
    <3>4. /\ ctx' \in [Units -> {"fast", "entry", "ladder", "reload"}]
          /\ pc' \in [Units -> {"off", "start", "probe", "read", "rm", "hard", "unload", "load",
                               "bringup", "judge", "exit"}]
          /\ owed' \in {"none", "owed", "refused"}
      BY <2>1 DEF Load, Goto, EnsureTypes
    <3> QED BY <3>3, <3>4 DEF Load, EnsureTypes
  <2>2. CASE ctx[e] # "reload"
    BY <2>2 DEF Load, Goto, EnsureTypes
  <2> QED BY <2>1, <2>2
<1>3. CallerTypes'
  BY DEF CallerTypes, Load, Goto, fileVars, callVars
<1>4. HoldsLock'
  BY DEF EnsureTypes, HoldsLock, Working, Load, Goto, fileVars, callVars
<1>5. Places'
  BY DEF EnsureTypes, Places, Load, Goto, fileVars, callVars
<1>6. InHand'
  BY DEF EnsureTypes, InHand, HoldsLock, Working, Load, Goto, fileVars, callVars
<1> QED BY <1>1, <1>2, <1>3, <1>4, <1>5, <1>6

\* xmm-up's loading changes the module only, and may end the attempt.
LEMMA XmmUpLoadsInv == ASSUME IInv, NEW e \in Units, XmmUpLoads(e) PROVE IInv'
<1> USE UnitsAre, AttemptsIs, BoundAssumption DEF IInv, TypeOK
<1>1. SystemTypes'
  BY ModprobeTypes DEF SystemTypes, XmmUpLoads, fileVars
<1>2. EnsureTypes'
  BY DEF EnsureTypes, XmmUpLoads, Goto, fileVars, callVars
<1>3. CallerTypes'
  BY DEF CallerTypes, XmmUpLoads, Goto, fileVars, callVars
<1>4. HoldsLock'
  BY DEF EnsureTypes, HoldsLock, Working, XmmUpLoads, Goto, fileVars, callVars
<1>5. Places'
  BY DEF EnsureTypes, Places, XmmUpLoads, Goto, fileVars, callVars
<1>6. InHand'
  BY DEF EnsureTypes, InHand, HoldsLock, Working, XmmUpLoads, Goto, fileVars, callVars
<1> QED BY <1>1, <1>2, <1>3, <1>4, <1>5, <1>6

\* A bring-up changes the system only.
LEMMA BringUpInv == ASSUME IInv, NEW e \in Units, BringUp(e) PROVE IInv'
<1> USE UnitsAre, AttemptsIs, BoundAssumption DEF IInv, TypeOK
<1>1. SystemTypes'
  BY DEF SystemTypes, BringUp, Goto, NetEvent, fileVars, callVars, histVars
<1>2. EnsureTypes'
  BY DEF EnsureTypes, BringUp, Goto, NetEvent, fileVars, callVars, histVars
<1>3. CallerTypes'
  BY DEF CallerTypes, BringUp, Goto, NetEvent, fileVars, callVars, histVars
<1>4. HoldsLock'
  BY DEF EnsureTypes, HoldsLock, Working, BringUp, Goto, NetEvent, fileVars, callVars,
         histVars
<1>5. Places'
  BY DEF EnsureTypes, Places, BringUp, Goto, NetEvent, fileVars, callVars, histVars
<1>6. InHand'
  BY DEF EnsureTypes, InHand, HoldsLock, Working, BringUp, Goto, NetEvent, fileVars,
         callVars, histVars
<1> QED BY <1>1, <1>2, <1>3, <1>4, <1>5, <1>6

\* A reload is due only when attempts are left.
LEMMA JudgeInv == ASSUME IInv, NEW e \in Units, Judge(e) PROVE IInv'
<1> USE UnitsAre, AttemptsIs, BoundAssumption DEF IInv, TypeOK
<1>1. SystemTypes'
  BY DEF SystemTypes, Judge, NextAttempt, Goto, sysVars, fileVars, callVars, histVars
<1>2. EnsureTypes'
  BY DEF EnsureTypes, Places, Judge, NextAttempt, Goto, sysVars, fileVars, callVars,
         histVars
<1>3. CallerTypes'
  BY DEF CallerTypes, Judge, NextAttempt, Goto, sysVars, fileVars, callVars, histVars
<1>4. HoldsLock'
  BY DEF EnsureTypes, HoldsLock, Working, Places, Judge, NextAttempt, Goto, sysVars,
         fileVars, callVars, histVars
<1>5. Places'
  BY DEF EnsureTypes, Places, Judge, NextAttempt, Goto, sysVars, fileVars, callVars,
         histVars
<1>6. InHand'
  BY DEF EnsureTypes, InHand, HoldsLock, Working, Places, Judge, NextAttempt, Goto,
         sysVars, fileVars, callVars, histVars
<1> QED BY <1>1, <1>2, <1>3, <1>4, <1>5, <1>6

\* The lock leaves with the process.
LEMMA ExitInv == ASSUME IInv, NEW e \in Units, Exit(e) PROVE IInv'
<1> USE UnitsAre, AttemptsIs, BoundAssumption DEF IInv, TypeOK
<1>1. SystemTypes'
  BY DEF SystemTypes, Exit, Goto, sysVars, fileVars, callVars, histVars
<1>2. EnsureTypes'
  BY DEF EnsureTypes, Exit, Goto, sysVars, fileVars, callVars, histVars
<1>3. CallerTypes'
  BY DEF CallerTypes, Exit, Goto, sysVars, fileVars, callVars, histVars
<1>4. HoldsLock'
  BY DEF EnsureTypes, HoldsLock, Working, Exit, Goto, sysVars, fileVars, callVars,
         histVars
<1>5. Places'
  BY DEF EnsureTypes, Places, Exit, Goto, sysVars, fileVars, callVars, histVars
<1>6. InHand'
  BY DEF EnsureTypes, InHand, HoldsLock, Working, Exit, Goto, sysVars, fileVars, callVars,
         histVars
<1> QED BY <1>1, <1>2, <1>3, <1>4, <1>5, <1>6

\* Events move nothing in the units.
LEMMA ObserveInv == ASSUME IInv, NEW c \in Callers, Observe(c) PROVE IInv'
<1> USE UnitsAre, AttemptsIs, BoundAssumption DEF IInv, TypeOK
<1>1. SystemTypes'
  <2>1. kmsg' \subseteq {"soft", "hard"} /\ netmsg' \in BOOLEAN
    BY DEF Observe, SystemTypes, Sources
  <2> QED BY <2>1 DEF Observe, SystemTypes, fileVars, histVars
<1>2. EnsureTypes'
  BY DEF EnsureTypes, Observe, fileVars, ensVars, histVars
<1>3. CallerTypes'
  <2>1. mode' \in [Callers -> {"soft", "hard"}]
    <3>1. CASE c = "kernel"
      <4>1. PICK kind \in kmsg : mode' = [mode EXCEPT ![c] = kind]
        BY <3>1 DEF Observe
      <4>2. kind \in {"soft", "hard"}
        BY <4>1 DEF SystemTypes
      <4> QED BY <4>1, <4>2 DEF CallerTypes
    <3>2. CASE c # "kernel"
      BY <3>2 DEF Observe, Sources, CallerTypes
    <3> QED BY <3>1, <3>2
  <2> QED BY <2>1 DEF Observe, SystemTypes, CallerTypes
<1>4. HoldsLock'
  BY DEF EnsureTypes, HoldsLock, Working, Observe, fileVars, ensVars, histVars
<1>5. Places'
  BY DEF EnsureTypes, Places, Observe, fileVars, ensVars, histVars
<1>6. InHand'
  BY DEF EnsureTypes, InHand, HoldsLock, Working, Observe, fileVars, ensVars, histVars
<1> QED BY <1>1, <1>2, <1>3, <1>4, <1>5, <1>6

\* The stamp moves nothing in the units.
LEMMA ActInv == ASSUME IInv, NEW c \in Callers, Act(c) PROVE IInv'
<1> USE UnitsAre, AttemptsIs, BoundAssumption DEF IInv, TypeOK
<1>1. SystemTypes'
  BY DEF SystemTypes, Act, CallGoto, sysVars, ensVars, histVars
<1>2. EnsureTypes'
  BY DEF EnsureTypes, Act, CallGoto, sysVars, ensVars
<1>3. CallerTypes'
  BY DEF CallerTypes, Act, CallGoto, sysVars, ensVars
<1>4. HoldsLock'
  BY DEF EnsureTypes, HoldsLock, Working, Act, CallGoto, sysVars, ensVars
<1>5. Places'
  BY DEF EnsureTypes, Places, Act, CallGoto, sysVars, ensVars
<1>6. InHand'
  BY DEF EnsureTypes, InHand, HoldsLock, Working, Act, CallGoto, sysVars, ensVars
<1> QED BY <1>1, <1>2, <1>3, <1>4, <1>5, <1>6

\* Markers move nothing in the units.
LEMMA TruncateInv == ASSUME IInv, NEW c \in Callers, Truncate(c) PROVE IInv'
<1> USE UnitsAre, AttemptsIs, BoundAssumption DEF IInv, TypeOK
<1>1. SystemTypes'
  BY DEF SystemTypes, Truncate, CallGoto, sysVars, ensVars, histVars
<1>2. EnsureTypes'
  BY DEF EnsureTypes, Truncate, CallGoto, sysVars, ensVars, histVars
<1>3. CallerTypes'
  BY DEF CallerTypes, Truncate, CallGoto, sysVars, ensVars, histVars
<1>4. HoldsLock'
  BY DEF EnsureTypes, HoldsLock, Working, Truncate, CallGoto, sysVars, ensVars, histVars
<1>5. Places'
  BY DEF EnsureTypes, Places, Truncate, CallGoto, sysVars, ensVars, histVars
<1>6. InHand'
  BY DEF EnsureTypes, InHand, HoldsLock, Working, Truncate, CallGoto, sysVars, ensVars,
         histVars
<1> QED BY <1>1, <1>2, <1>3, <1>4, <1>5, <1>6

\* Markers move nothing in the units.
LEMMA StampInv == ASSUME IInv, NEW c \in Callers, Stamp(c) PROVE IInv'
<1> USE UnitsAre, AttemptsIs, BoundAssumption DEF IInv, TypeOK
<1>1. SystemTypes'
  BY DEF SystemTypes, Stamp, CallGoto, sysVars, ensVars, histVars
<1>2. EnsureTypes'
  BY DEF EnsureTypes, Stamp, CallGoto, sysVars, ensVars, histVars
<1>3. CallerTypes'
  BY DEF CallerTypes, Stamp, CallGoto, sysVars, ensVars, histVars
<1>4. HoldsLock'
  BY DEF EnsureTypes, HoldsLock, Working, Stamp, CallGoto, sysVars, ensVars, histVars
<1>5. Places'
  BY DEF EnsureTypes, Places, Stamp, CallGoto, sysVars, ensVars, histVars
<1>6. InHand'
  BY DEF EnsureTypes, InHand, HoldsLock, Working, Stamp, CallGoto, sysVars, ensVars,
         histVars
<1> QED BY <1>1, <1>2, <1>3, <1>4, <1>5, <1>6

\* A test moves nothing in the units.
LEMMA CheckInv == ASSUME IInv, NEW c \in Callers, Check(c) PROVE IInv'
<1> USE UnitsAre, AttemptsIs, BoundAssumption DEF IInv, TypeOK
<1>1. SystemTypes'
  BY DEF SystemTypes, Check, CallGoto, sysVars, fileVars, ensVars, histVars
<1>2. EnsureTypes'
  BY DEF EnsureTypes, Check, CallGoto, sysVars, fileVars, ensVars, histVars
<1>3. CallerTypes'
  BY DEF CallerTypes, Check, CallGoto, sysVars, fileVars, ensVars, histVars
<1>4. HoldsLock'
  BY DEF EnsureTypes, HoldsLock, Working, Check, CallGoto, sysVars, fileVars, ensVars,
         histVars
<1>5. Places'
  BY DEF EnsureTypes, Places, Check, CallGoto, sysVars, fileVars, ensVars, histVars
<1>6. InHand'
  BY DEF EnsureTypes, InHand, HoldsLock, Working, Check, CallGoto, sysVars, fileVars,
         ensVars, histVars
<1> QED BY <1>1, <1>2, <1>3, <1>4, <1>5, <1>6

\* The service is started only when it is off, so it holds no lock.
LEMMA TryUpInv == ASSUME IInv, NEW c \in Callers, TryUp(c) PROVE IInv'
<1> USE UnitsAre, AttemptsIs, BoundAssumption DEF IInv, TypeOK
<1>1. SystemTypes'
  <2>1. link' \in BOOLEAN
    BY Zenon DEF TryUp, loaded
  <2>2. netmsg' \in BOOLEAN
    BY Zenon DEF TryUp, NetEvent
  <2>3. UNCHANGED <<module, drvError, session, kmsg, marker, last, faults, user>>
    BY DEF TryUp, fileVars, histVars
  <2> QED BY <2>1, <2>2, <2>3 DEF SystemTypes
<1>2. EnsureTypes'
  BY DEF EnsureTypes, TryUp, StartService, CallGoto, NetEvent, Goto, fileVars, histVars
<1>3. CallerTypes'
  BY DEF CallerTypes, TryUp, StartService, CallGoto, NetEvent, Goto, fileVars, histVars
<1>4. HoldsLock'
  BY DEF EnsureTypes, HoldsLock, Working, TryUp, StartService, CallGoto, NetEvent, Goto,
         fileVars, histVars
<1>5. Places'
  BY DEF EnsureTypes, Places, TryUp, StartService, CallGoto, NetEvent, Goto, fileVars,
         histVars
<1>6. InHand'
  BY DEF EnsureTypes, InHand, HoldsLock, Working, TryUp, StartService, CallGoto, NetEvent,
         Goto, fileVars, histVars
<1> QED BY <1>1, <1>2, <1>3, <1>4, <1>5, <1>6

\* A test moves nothing in the units.
LEMMA TestInv == ASSUME IInv, NEW c \in Callers, Test(c) PROVE IInv'
<1> USE UnitsAre, AttemptsIs, BoundAssumption DEF IInv, TypeOK
<1>1. SystemTypes'
  BY DEF SystemTypes, Test, CallGoto, sysVars, fileVars, ensVars, histVars
<1>2. EnsureTypes'
  BY DEF EnsureTypes, Test, CallGoto, sysVars, fileVars, ensVars, histVars
<1>3. CallerTypes'
  BY DEF CallerTypes, Test, CallGoto, sysVars, fileVars, ensVars, histVars
<1>4. HoldsLock'
  BY DEF EnsureTypes, HoldsLock, Working, Test, CallGoto, sysVars, fileVars, ensVars,
         histVars
<1>5. Places'
  BY DEF EnsureTypes, Places, Test, CallGoto, sysVars, fileVars, ensVars, histVars
<1>6. InHand'
  BY DEF EnsureTypes, InHand, HoldsLock, Working, Test, CallGoto, sysVars, fileVars,
         ensVars, histVars
<1> QED BY <1>1, <1>2, <1>3, <1>4, <1>5, <1>6

\* A killed ensure takes the lock and the request with it.
LEMMA RestartInv == ASSUME IInv, NEW c \in Callers, Restart(c) PROVE IInv'
<1> USE UnitsAre, AttemptsIs, BoundAssumption DEF IInv, TypeOK
<1>1. SystemTypes'
  BY DEF SystemTypes, Restart, StartService, CallGoto, Goto, sysVars, fileVars, histVars
<1>2. EnsureTypes'
  <2>1. /\ ctx' \in [Units -> {"fast", "entry", "ladder", "reload"}]
        /\ got' \in [Units -> {"none", "empty", "fresh", "stale"}]
        /\ lock' \in Units \cup {Nobody}
    BY DEF Restart, EnsureTypes
  <2>2. attempt' \in [Units -> 0 .. Attempts]
    <3>1. 0 \in 0 .. Attempts
      OBVIOUS
    <3> QED BY <3>1 DEF Restart, EnsureTypes
  <2>3. pc' \in [Units -> {"off", "start", "probe", "read", "rm", "hard", "unload", "load",
                          "bringup", "judge", "exit"}]
    BY DEF Restart, StartService, Goto, EnsureTypes
  <2>4. starts' \in 0 .. Burst
    BY DEF Restart, StartService, EnsureTypes
  <2>5. owed' \in {"none", "owed", "refused"}
    BY DEF Restart, EnsureTypes
  <2> QED BY <2>1, <2>2, <2>3, <2>4, <2>5 DEF EnsureTypes
<1>3. CallerTypes'
  BY DEF CallerTypes, Restart, StartService, CallGoto, Goto, sysVars, fileVars, histVars
<1>4. HoldsLock'
  BY DEF EnsureTypes, HoldsLock, Working, Restart, StartService, CallGoto, Goto, sysVars,
         fileVars, histVars
<1>5. Places'
  BY DEF EnsureTypes, Places, Restart, StartService, CallGoto, Goto, sysVars, fileVars,
         histVars
<1>6. InHand'
  BY DEF EnsureTypes, InHand, HoldsLock, Working, Restart, StartService, CallGoto, Goto,
         sysVars, fileVars, histVars
<1> QED BY <1>1, <1>2, <1>3, <1>4, <1>5, <1>6

\* An ensure that starts holds no lock yet.
LEMMA ResumeInv == ASSUME IInv, Resume PROVE IInv'
<1> USE UnitsAre, AttemptsIs, BoundAssumption DEF IInv, TypeOK
<1>1. SystemTypes'
  BY DEF SystemTypes, Resume, Goto, sysVars, fileVars, callVars
<1>2. EnsureTypes'
  BY DEF EnsureTypes, Resume, Goto, sysVars, fileVars, callVars
<1>3. CallerTypes'
  BY DEF CallerTypes, Resume, Goto, sysVars, fileVars, callVars
<1>4. HoldsLock'
  BY DEF EnsureTypes, HoldsLock, Working, Resume, Goto, sysVars, fileVars, callVars
<1>5. Places'
  BY DEF EnsureTypes, Places, Resume, Goto, sysVars, fileVars, callVars
<1>6. InHand'
  BY DEF EnsureTypes, InHand, HoldsLock, Working, Resume, Goto, sysVars, fileVars,
         callVars
<1> QED BY <1>1, <1>2, <1>3, <1>4, <1>5, <1>6

\* Time moves nothing in the units.
LEMMA DebounceEndsInv == ASSUME IInv, DebounceEnds PROVE IInv'
<1> USE UnitsAre, AttemptsIs, BoundAssumption DEF IInv, TypeOK
<1>1. SystemTypes'
  BY DEF SystemTypes, DebounceEnds, sysVars, ensVars, callVars, histVars
<1>2. EnsureTypes'
  BY DEF EnsureTypes, DebounceEnds, sysVars, ensVars, callVars
<1>3. CallerTypes'
  BY DEF CallerTypes, DebounceEnds, sysVars, ensVars, callVars
<1>4. HoldsLock'
  BY DEF EnsureTypes, HoldsLock, Working, DebounceEnds, sysVars, ensVars, callVars
<1>5. Places'
  BY DEF EnsureTypes, Places, DebounceEnds, sysVars, ensVars, callVars
<1>6. InHand'
  BY DEF EnsureTypes, InHand, HoldsLock, Working, DebounceEnds, sysVars, ensVars, callVars
<1> QED BY <1>1, <1>2, <1>3, <1>4, <1>5, <1>6

\* A new interval allows more starts.
LEMMA StartIntervalEndsInv == ASSUME IInv, StartIntervalEnds PROVE IInv'
<1> USE UnitsAre, AttemptsIs, BoundAssumption DEF IInv, TypeOK
<1>1. SystemTypes'
  BY DEF SystemTypes, StartIntervalEnds, sysVars, fileVars, callVars, histVars
<1>2. EnsureTypes'
  BY DEF EnsureTypes, StartIntervalEnds, sysVars, fileVars, callVars, histVars
<1>3. CallerTypes'
  BY DEF CallerTypes, StartIntervalEnds, sysVars, fileVars, callVars, histVars
<1>4. HoldsLock'
  BY DEF EnsureTypes, HoldsLock, Working, StartIntervalEnds, sysVars, fileVars, callVars,
         histVars
<1>5. Places'
  BY DEF EnsureTypes, Places, StartIntervalEnds, sysVars, fileVars, callVars, histVars
<1>6. InHand'
  BY DEF EnsureTypes, InHand, HoldsLock, Working, StartIntervalEnds, sysVars, fileVars,
         callVars, histVars
<1> QED BY <1>1, <1>2, <1>3, <1>4, <1>5, <1>6

\* Time moves nothing in the units.
LEMMA MarkerAgesInv == ASSUME IInv, MarkerAges PROVE IInv'
<1> USE UnitsAre, AttemptsIs, BoundAssumption DEF IInv, TypeOK
<1>1. SystemTypes'
  BY DEF SystemTypes, MarkerAges, sysVars, ensVars, callVars, histVars
<1>2. EnsureTypes'
  BY DEF EnsureTypes, MarkerAges, sysVars, ensVars, callVars, histVars
<1>3. CallerTypes'
  BY DEF CallerTypes, MarkerAges, sysVars, ensVars, callVars, histVars
<1>4. HoldsLock'
  BY DEF EnsureTypes, HoldsLock, Working, MarkerAges, sysVars, ensVars, callVars, histVars
<1>5. Places'
  BY DEF EnsureTypes, Places, MarkerAges, sysVars, ensVars, callVars, histVars
<1>6. InHand'
  BY DEF EnsureTypes, InHand, HoldsLock, Working, MarkerAges, sysVars, ensVars, callVars,
         histVars
<1> QED BY <1>1, <1>2, <1>3, <1>4, <1>5, <1>6

\* The user moves nothing in the units.
LEMMA PanelOnInv == ASSUME IInv, PanelOn PROVE IInv'
<1> USE UnitsAre, AttemptsIs, BoundAssumption DEF IInv, TypeOK
<1>1. SystemTypes'
  BY DEF SystemTypes, PanelOn, CallGoto, sysVars, fileVars, ensVars
<1>2. EnsureTypes'
  BY DEF EnsureTypes, PanelOn, CallGoto, sysVars, fileVars, ensVars
<1>3. CallerTypes'
  BY DEF CallerTypes, PanelOn, CallGoto, sysVars, fileVars, ensVars
<1>4. HoldsLock'
  BY DEF EnsureTypes, HoldsLock, Working, PanelOn, CallGoto, sysVars, fileVars, ensVars
<1>5. Places'
  BY DEF EnsureTypes, Places, PanelOn, CallGoto, sysVars, fileVars, ensVars
<1>6. InHand'
  BY DEF EnsureTypes, InHand, HoldsLock, Working, PanelOn, CallGoto, sysVars, fileVars,
         ensVars
<1> QED BY <1>1, <1>2, <1>3, <1>4, <1>5, <1>6

\* The user moves nothing in the units.
LEMMA PanelOffInv == ASSUME IInv, PanelOff PROVE IInv'
<1> USE UnitsAre, AttemptsIs, BoundAssumption DEF IInv, TypeOK
<1>1. SystemTypes'
  <2>1. netmsg' \in BOOLEAN
    BY Zenon DEF PanelOff, NetEvent
  <2>2. user' \in 0 .. MaxUser
    BY DEF PanelOff, SystemTypes
  <2>3. UNCHANGED <<module, drvError, session, kmsg, marker, last, faults>>
    BY DEF PanelOff, fileVars
  <2>4. link' = FALSE
    BY DEF PanelOff
  <2> QED BY <2>1, <2>2, <2>3, <2>4 DEF SystemTypes
<1>2. EnsureTypes'
  BY DEF EnsureTypes, PanelOff, NetEvent, fileVars, ensVars, callVars
<1>3. CallerTypes'
  BY DEF CallerTypes, PanelOff, NetEvent, fileVars, ensVars, callVars
<1>4. HoldsLock'
  BY DEF EnsureTypes, HoldsLock, Working, PanelOff, NetEvent, fileVars, ensVars, callVars
<1>5. Places'
  BY DEF EnsureTypes, Places, PanelOff, NetEvent, fileVars, ensVars, callVars
<1>6. InHand'
  BY DEF EnsureTypes, InHand, HoldsLock, Working, PanelOff, NetEvent, fileVars, ensVars,
         callVars
<1> QED BY <1>1, <1>2, <1>3, <1>4, <1>5, <1>6

\* The timer moves nothing in the units.
LEMMA SelfHealInv == ASSUME IInv, SelfHeal PROVE IInv'
<1> USE UnitsAre, AttemptsIs, BoundAssumption DEF IInv, TypeOK
<1>1. SystemTypes'
  BY DEF SystemTypes, SelfHeal, CallGoto, sysVars, fileVars, ensVars, histVars
<1>2. EnsureTypes'
  BY DEF EnsureTypes, SelfHeal, CallGoto, sysVars, fileVars, ensVars, histVars
<1>3. CallerTypes'
  BY DEF CallerTypes, SelfHeal, CallGoto, sysVars, fileVars, ensVars, histVars
<1>4. HoldsLock'
  BY DEF EnsureTypes, HoldsLock, Working, SelfHeal, CallGoto, sysVars, fileVars, ensVars,
         histVars
<1>5. Places'
  BY DEF EnsureTypes, Places, SelfHeal, CallGoto, sysVars, fileVars, ensVars, histVars
<1>6. InHand'
  BY DEF EnsureTypes, InHand, HoldsLock, Working, SelfHeal, CallGoto, sysVars, fileVars,
         ensVars, histVars
<1> QED BY <1>1, <1>2, <1>3, <1>4, <1>5, <1>6

\* The user moves nothing in the units.
LEMMA RatInv == ASSUME IInv, Rat PROVE IInv'
<1> USE UnitsAre, AttemptsIs, BoundAssumption DEF IInv, TypeOK
<1>1. SystemTypes'
  BY DEF SystemTypes, Rat, CallGoto, sysVars, fileVars, ensVars
<1>2. EnsureTypes'
  BY DEF EnsureTypes, Rat, CallGoto, sysVars, fileVars, ensVars
<1>3. CallerTypes'
  BY DEF CallerTypes, Rat, CallGoto, sysVars, fileVars, ensVars
<1>4. HoldsLock'
  BY DEF EnsureTypes, HoldsLock, Working, Rat, CallGoto, sysVars, fileVars, ensVars
<1>5. Places'
  BY DEF EnsureTypes, Places, Rat, CallGoto, sysVars, fileVars, ensVars
<1>6. InHand'
  BY DEF EnsureTypes, InHand, HoldsLock, Working, Rat, CallGoto, sysVars, fileVars,
         ensVars
<1> QED BY <1>1, <1>2, <1>3, <1>4, <1>5, <1>6

\* Faults move nothing in the units.
LEMMA FaultInv == ASSUME IInv, Fault PROVE IInv'
<1> USE UnitsAre, AttemptsIs, BoundAssumption DEF IInv, TypeOK
<1>1. SystemTypes'
  <2>1. kmsg' \subseteq {"soft", "hard"}
    BY DEF Fault, SystemTypes
  <2>2. session' \in {"none", "stale", "up"} /\ faults' \in 0 .. MaxFaults
    BY DEF Fault, SystemTypes
  <2>3. drvError' = TRUE /\ UNCHANGED <<module, link, netmsg, marker, last, user>>
    BY DEF Fault, fileVars
  <2> QED BY <2>1, <2>2, <2>3 DEF SystemTypes
<1>2. EnsureTypes'
  BY DEF EnsureTypes, Fault, fileVars, ensVars, callVars
<1>3. CallerTypes'
  BY DEF CallerTypes, Fault, fileVars, ensVars, callVars
<1>4. HoldsLock'
  BY DEF EnsureTypes, HoldsLock, Working, Fault, fileVars, ensVars, callVars
<1>5. Places'
  BY DEF EnsureTypes, Places, Fault, fileVars, ensVars, callVars
<1>6. InHand'
  BY DEF EnsureTypes, InHand, HoldsLock, Working, Fault, fileVars, ensVars, callVars
<1> QED BY <1>1, <1>2, <1>3, <1>4, <1>5, <1>6

\* Faults move nothing in the units.
LEMMA SessionLostInv == ASSUME IInv, SessionLost PROVE IInv'
<1> USE UnitsAre, AttemptsIs, BoundAssumption DEF IInv, TypeOK
<1>1. SystemTypes'
  <2>1. kmsg' \subseteq {"soft", "hard"}
    BY DEF SessionLost, SystemTypes
  <2>2. session' = "stale" /\ faults' \in 0 .. MaxFaults
    BY DEF SessionLost, SystemTypes
  <2>3. UNCHANGED <<module, drvError, link, netmsg, marker, last, user>>
    BY DEF SessionLost, fileVars
  <2> QED BY <2>1, <2>2, <2>3 DEF SystemTypes
<1>2. EnsureTypes'
  BY DEF EnsureTypes, SessionLost, fileVars, ensVars, callVars
<1>3. CallerTypes'
  BY DEF CallerTypes, SessionLost, fileVars, ensVars, callVars
<1>4. HoldsLock'
  BY DEF EnsureTypes, HoldsLock, Working, SessionLost, fileVars, ensVars, callVars
<1>5. Places'
  BY DEF EnsureTypes, Places, SessionLost, fileVars, ensVars, callVars
<1>6. InHand'
  BY DEF EnsureTypes, InHand, HoldsLock, Working, SessionLost, fileVars, ensVars, callVars
<1> QED BY <1>1, <1>2, <1>3, <1>4, <1>5, <1>6

\* Faults move nothing in the units.
LEMMA SessionDiesInv == ASSUME IInv, SessionDies PROVE IInv'
<1> USE UnitsAre, AttemptsIs, BoundAssumption DEF IInv, TypeOK
<1>1. SystemTypes'
  BY DEF SystemTypes, SessionDies, fileVars, ensVars, callVars, histVars
<1>2. EnsureTypes'
  BY DEF EnsureTypes, SessionDies, fileVars, ensVars, callVars, histVars
<1>3. CallerTypes'
  BY DEF CallerTypes, SessionDies, fileVars, ensVars, callVars, histVars
<1>4. HoldsLock'
  BY DEF EnsureTypes, HoldsLock, Working, SessionDies, fileVars, ensVars, callVars, histVars
<1>5. Places'
  BY DEF EnsureTypes, Places, SessionDies, fileVars, ensVars, callVars, histVars
<1>6. InHand'
  BY DEF EnsureTypes, InHand, HoldsLock, Working, SessionDies, fileVars, ensVars, callVars, histVars
<1> QED BY <1>1, <1>2, <1>3, <1>4, <1>5, <1>6

\* Every step preserves the invariant.
LEMMA NextInv == IInv /\ [Next]_vars => IInv'
<1> SUFFICES ASSUME IInv, [Next]_vars PROVE IInv'
  OBVIOUS
<1>1. ASSUME NEW e \in Units, Ensure(e) PROVE IInv'
  BY <1>1, LockInv, ProbeInv, ReadMarkerInv, RemoveMarkerInv, HardRecoverInv, UnloadInv,
     UnloadRefusedInv, LoadInv, XmmUpLoadsInv, BringUpInv, JudgeInv, ExitInv DEF Ensure
<1>2. ASSUME NEW c \in Callers, Observe(c) \/ Call(c) PROVE IInv'
  BY <1>2, ObserveInv, ActInv, TruncateInv, StampInv, CheckInv, TryUpInv, TestInv, RestartInv
     DEF Call
<1>3. ASSUME \/ SelfHeal \/ User \/ Fault \/ SessionDies \/ SessionLost
             \/ DebounceEnds \/ StartIntervalEnds \/ MarkerAges
      PROVE  IInv'
  BY <1>3, SelfHealInv, PanelOnInv, PanelOffInv, RatInv, ResumeInv, FaultInv, SessionDiesInv,
     SessionLostInv,
     DebounceEndsInv, StartIntervalEndsInv, MarkerAgesInv DEF User
<1>4. ASSUME UNCHANGED vars PROVE IInv'
  BY <1>4 DEF vars, sysVars, fileVars, ensVars, callVars, histVars, IInv, TypeOK, SystemTypes,
              EnsureTypes, CallerTypes, HoldsLock, Working, Places, InHand
<1> QED BY <1>1, <1>2, <1>3, <1>4 DEF Next

\* The invariant holds in every reachable state.
LEMMA Inductive == Spec => []IInv
<1> QED BY InitInv, NextInv, PTL DEF Spec

\* The shape of the state, for any units, callers and lengths of the ladder.
THEOREM TypeCorrect == Spec => []TypeOK
<1>1. IInv => TypeOK
  BY DEF IInv
<1> QED BY <1>1, Inductive, PTL

\* However the service is restarted and whoever else runs the script (boot,
\* resume, panel, watcher, self-heal), one ensure at a time is past the flock.
THEOREM OneAtATime == Spec => []OneEnsure
<1>1. IInv => OneEnsure
  BY DEF IInv, HoldsLock, OneEnsure
<1> QED BY <1>1, Inductive, PTL

\* After a hard request an ensure accepted (hard_requested returned 0 and the
\* link was not healthy) there is no bring-up before the module is out, whoever
\* starts, kills or asks meanwhile, unless the kernel refused to remove it.
THEOREM HardComesFirst == Spec => []HardBeforeRetry
<1>1. ASSUME IInv, owed = "owed", NEW f \in Units PROVE pc[f] \notin {"bringup", "judge"}
  <2>1. PICK e \in Units : lock = e /\ pc[e] \in {"hard", "unload"}
    BY <1>1 DEF IInv, InHand
  <2>2. CASE f = e
    BY <2>1, <2>2
  <2>3. CASE f # e
    BY <1>1, <2>1, <2>3 DEF IInv, HoldsLock, Working
  <2> QED BY <2>2, <2>3
<1>2. IInv => HardBeforeRetry
  BY <1>1 DEF HardBeforeRetry
<1> QED BY <1>2, Inductive, PTL
=============================================================================
