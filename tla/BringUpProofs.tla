--------------------------- MODULE BringUpProofs ----------------------------
(***************************************************************************)
(* Theorems about BringUp, for any addresses, any number of runs, of       *)
(* messages and of profiles, and any calls between the two FCC unlocks.    *)
(***************************************************************************)
EXTENDS BringUp, RpcClientProofs, FiniteSetTheorems, TLAPS

-----------------------------------------------------------------------------
(* The steps of the script that follow its calls.                           *)

\* The calls between the two unlocks are no pauses.
LEMMA InitCallsArePauseFree ==
  /\ Len(InitCalls) \in Nat \ {0}
  /\ \A i \in 1..Len(InitCalls) : InitCalls[i] \notin Pauses
  /\ InitCalls[1] \notin Pauses
<1>1. InitCalls \in Seq(STRING \ (Pauses \cup NamedCalls \cup {NoCall})) /\ InitCalls # <<>>
  BY InitAssumption DEF InitAssumption
<1> QED  BY <1>1

\* After one of them comes another, or the second unlock.
LEMMA AfterInitIsNoPause ==
  ASSUME NEW name \in ToSet(InitCalls)
  PROVE  AfterInit(name) \notin Pauses
<1>1. CASE name = Last(InitCalls)
  BY <1>1 DEF AfterInit, Pauses
<1>2. CASE name # Last(InitCalls)
  <2>1. PICK j \in 1..Len(InitCalls) : name = InitCalls[j]
    BY InitCallsArePauseFree DEF ToSet
  <2>2. j + 1 \in 2..Len(InitCalls) /\ InitCalls[(j + 1) - 1] = name
    BY <1>2, <2>1, InitCallsArePauseFree DEF Last
  <2>3. (CHOOSE i \in 2..Len(InitCalls) : InitCalls[i - 1] = name) \in 2..Len(InitCalls)
    BY <2>2
  <2> QED  BY <1>2, <2>3, InitCallsArePauseFree DEF AfterInit
<1> QED  BY <1>1, <1>2

-----------------------------------------------------------------------------
(* Most actions concern neither wwan0 nor NetworkManager.                   *)

OnHost == Flush \/ LinkUp \/ AddAddress \/ AddRoute \/ Meddle
OnProfiles ==
  \/ GetConnections \/ UpdateConnection \/ AddConnection \/ GetConnectionsAgain
  \/ Activate \/ ActivateFails

\* They leave both alone, and no step that adds to either comes next.
Elsewhere ==
  /\ UNCHANGED <<addrs, routed, meddled, profiles, paths>>
  /\ at' = at \/ at' \notin {"link", "addr", "route", "add_connection"}
  /\ \/ result' # "exists"
     \/ result' = result /\ (at \in {"off", "exit"} => at' \in {"off", "exit"})

\* The script between two calls, whatever a call returns.
LEMMA ResponseIsElsewhere == ReadResponse => Elsewhere
<1> SUFFICES ASSUME ReadResponse PROVE Elsewhere
  OBVIOUS
<1> USE DEF Elsewhere, Go, End, Attempt, Continue
<1>0. UNCHANGED <<addrs, routed, meddled, profiles, paths>>
  BY DEF ReadResponse, hostVars, nmVars
<1>1. \E m, v :
        IF v = Raises
        THEN IF EarlyFcc THEN Continue ELSE End("failed")
        ELSE \/ OnQuery(v) \/ OnChallenge \/ OnVerify(v) \/ OnInit \/ OnModeSet(v)
             \/ OnApn \/ OnAttach(v) \/ OnIp(v) \/ OnDns
             \/ OnConnect(m) \/ OnDatachannel(m) \/ OnSetup
  BY DEF ReadResponse
<1> PICK m, v :
      IF v = Raises
      THEN IF EarlyFcc THEN Continue ELSE End("failed")
      ELSE \/ OnQuery(v) \/ OnChallenge \/ OnVerify(v) \/ OnInit \/ OnModeSet(v)
           \/ OnApn \/ OnAttach(v) \/ OnIp(v) \/ OnDns
           \/ OnConnect(m) \/ OnDatachannel(m) \/ OnSetup
  BY <1>1
<1>2. InitCalls[1] \notin {"link", "addr", "route", "add_connection"}
  BY InitCallsArePauseFree DEF Pauses
<1>3. CASE v = Raises
  BY <1>0, <1>2, <1>3 DEF EarlyFcc
<1>4. CASE OnQuery(v) \/ OnChallenge \/ OnVerify(v)
  BY <1>0, <1>2, <1>4 DEF OnQuery, OnChallenge, OnVerify, Unlocked
<1>5. CASE OnInit
  <2>1. at \notin Pauses
    BY <1>5, InitCallsArePauseFree DEF OnInit, ToSet
  <2> QED  BY <1>0, <1>5, <2>1, AfterInitIsNoPause DEF OnInit, Pauses
<1>6. CASE OnModeSet(v) \/ OnApn \/ OnAttach(v) \/ OnIp(v) \/ OnDns
  BY <1>0, <1>6 DEF OnModeSet, OnApn, OnAttach, OnIp, OnDns
<1>7. CASE OnConnect(m) \/ OnDatachannel(m) \/ OnSetup
  BY <1>0, <1>7 DEF OnConnect, OnDatachannel, OnSetup, OnHandle
<1> QED  BY <1>3, <1>4, <1>5, <1>6, <1>7

\* So do all actions but the few named here.
LEMMA MostActionsAreElsewhere ==
  ASSUME Next, ~OnHost, ~OnProfiles, ~LinkDown, ~UserDeletes, ~Reload
  PROVE  Elsewhere
<1> USE DEF Elsewhere, Go, End, hostVars, nmVars, scriptVars
<1>0. InitCalls[1] \notin {"link", "addr", "route", "add_connection"}
  BY InitCallsArePauseFree DEF Pauses
<1>1. CASE Start \/ StartRefused
  BY <1>1 DEF Start, StartRefused
<1>2. CASE Killed \/ Exit
  BY <1>2 DEF Killed, Exit, Gone, fresh
<1>3. CASE Write \/ ReadOther \/ ModeWait \/ AttachWait \/ AttachAgain
  BY <1>3 DEF Write, ReadOther, ModeWait, AttachWait, AttachAgain, Attempt
<1>4. CASE PumpFails \/ RpcFails
  BY <1>0, <1>4 DEF PumpFails, RpcFails, Continue, EarlyFcc
<1>5. CASE HostFails \/ Other
  BY <1>5 DEF HostFails, Other
<1>6. CASE ReadResponse
  BY <1>6, ResponseIsElsewhere
<1>7. CASE ModemServe \/ ModemMute \/ ModemSwallows \/ ModemSends
           \/ Permit \/ Assign \/ Noise \/ ModemCrash
  BY <1>7 DEF ModemServe, ModemMute, ModemSwallows, ModemSends, Permit, Assign, Noise,
              ModemCrash, ModemIdle
<1> QED
  BY <1>1, <1>2, <1>3, <1>4, <1>5, <1>6, <1>7 DEF Next, Script, OnHost, OnProfiles

-----------------------------------------------------------------------------
(* A run does not trip over what an earlier one left on wwan0.              *)

\* wwan0 is clear of addresses and routes when the address is added, and of
\* routes when the route is, unless somebody has added to it since the flush.
Clear ==
  /\ at \in {"link", "addr"} => (addrs = {} /\ ~routed) \/ meddled
  /\ at = "route" => ~routed \/ meddled
  /\ result = "exists" => at \in {"off", "exit"}

\* Whatever became of earlier runs, adding the address and the route of a run
\* fails because they exist only if NetworkManager or fibocom-l850-ctl has
\* added to wwan0 since the flush, which clears it of both.
THEOREM RunsAreRestartable == Spec => []Restartable
<1> DEFINE IInv == Restartable /\ Clear
<1>1. Init => IInv
  BY DEF Init, Restartable, Clear
<1>2. IInv /\ [Next]_vars => IInv'
  <2> SUFFICES ASSUME IInv, [Next]_vars PROVE IInv'
    OBVIOUS
  <2> USE DEF Restartable, Clear
  <2>1. CASE Elsewhere
    BY <2>1 DEF Elsewhere
  <2>2. CASE Flush \/ LinkUp
    BY <2>2 DEF Flush, LinkUp, HostStep, Go
  <2>3. CASE AddAddress
    BY <2>3 DEF AddAddress, Go, End
  <2>4. CASE AddRoute
    BY <2>4 DEF AddRoute, Go, End
  <2>5. CASE Meddle \/ LinkDown \/ Reload
    BY <2>5 DEF Meddle, LinkDown, Reload, scriptVars
  <2>6. CASE OnProfiles
    BY <2>6 DEF OnProfiles, GetConnections, UpdateConnection, AddConnection,
                GetConnectionsAgain, Activate, ActivateFails, NmStep, Go, End, hostVars
  <2>7. CASE UserDeletes \/ UNCHANGED vars
    BY <2>7 DEF UserDeletes, vars, scriptVars, hostVars
  <2> QED
    BY <2>1, <2>2, <2>3, <2>4, <2>5, <2>6, <2>7, MostActionsAreElsewhere DEF OnHost
<1>3. IInv => Restartable
  OBVIOUS
<1> QED  BY <1>1, <1>2, <1>3, PTL DEF Spec

-----------------------------------------------------------------------------
(* Runs share one profile.                                                  *)

\* A profile is added only when there is none.
AddedToNone ==
  /\ paths \in Nat
  /\ DOMAIN profiles \subseteq 1..paths
  /\ \A p, q \in DOMAIN profiles : p = q
  /\ at = "add_connection" => DOMAIN profiles = {}

\* A listing that is empty is true until the profile is added.
LEMMA ProfilesAreAddedToNone == Spec => []AddedToNone
<1>1. Init => AddedToNone
  BY DEF Init, NmInit, AddedToNone
<1>2. AddedToNone /\ [Next]_vars => AddedToNone'
  <2> SUFFICES ASSUME AddedToNone, [Next]_vars PROVE AddedToNone'
    OBVIOUS
  <2> USE DEF AddedToNone
  <2>1. CASE Elsewhere
    BY <2>1 DEF Elsewhere
  <2>2. CASE OnHost
    BY <2>2 DEF OnHost, Flush, LinkUp, AddAddress, AddRoute, Meddle, HostStep, Go, End, nmVars,
                scriptVars
  <2>3. CASE GetConnections
    <3>1. UNCHANGED <<profiles, paths>>
      BY <2>3 DEF GetConnections, get_connections
    <3>2. ASSUME at' = "add_connection" PROVE DOMAIN profiles = {}
      <4>1. connection_path' = NoPath
        BY <2>3, <3>2 DEF GetConnections, NmStep, Go
      <4>2. profiles = <<>>
        BY <2>3, <4>1 DEF GetConnections, get_connections, NoPath
      <4> QED  BY <4>2
    <3> QED  BY <3>1, <3>2
  <2>4. CASE UpdateConnection
    <3>1. DOMAIN profiles' = DOMAIN profiles /\ paths' = paths /\ at' = "activate"
      BY <2>4 DEF UpdateConnection, update_connection, NmStep, Go, nmVars
    <3> QED  BY <3>1
  <2>5. CASE AddConnection
    <3>1. /\ DOMAIN profiles = {} /\ at' = "get_connections_again"
          /\ paths' = paths + 1 /\ DOMAIN profiles' = DOMAIN profiles \cup {paths'}
      BY <2>5 DEF AddConnection, add_connection, NmStep, Go
    <3> QED  BY <3>1
  <2>6. CASE GetConnectionsAgain \/ Activate \/ ActivateFails
    BY <2>6 DEF GetConnectionsAgain, Activate, ActivateFails, get_connections, NmStep,
                Go, End, nmVars
  <2>7. CASE UserDeletes
    <3>1. /\ DOMAIN profiles' \subseteq DOMAIN profiles
          /\ UNCHANGED <<paths, at>>
      BY <2>7 DEF UserDeletes, delete_profile, scriptVars
    <3> QED  BY <3>1
  <2>8. CASE LinkDown \/ Reload \/ UNCHANGED vars
    BY <2>8 DEF LinkDown, Reload, vars, scriptVars, nmVars
  <2> QED
    BY <2>1, <2>2, <2>3, <2>4, <2>5, <2>6, <2>7, <2>8, MostActionsAreElsewhere
    DEF OnProfiles
<1> QED  BY <1>1, <1>2, PTL DEF Spec

\* A listing that finds nothing means that there is nothing, as no path is
\* NoPath: however often the script is run, killed at any step, with users
\* deleting what it made, NetworkManager never has two profiles of it.
THEOREM ProfileIsUnique == Spec => []OneProfile
<1>1. AddedToNone => OneProfile
  <2> SUFFICES ASSUME AddedToNone PROVE Cardinality(DOMAIN profiles) <= 1
    BY DEF OneProfile
  <2>1. CASE DOMAIN profiles = {}
    BY <2>1, FS_EmptySet
  <2>2. CASE DOMAIN profiles # {}
    <3>1. PICK p : DOMAIN profiles = {p}
      BY <2>2 DEF AddedToNone
    <3> QED  BY <3>1, FS_Singleton
  <2> QED  BY <2>1, <2>2
<1> QED  BY <1>1, ProfilesAreAddedToNone, PTL

-----------------------------------------------------------------------------
(* Answers are those to the client's own requests.                          *)

\* An answer to a request that nobody waits for any more may be under way.
Stray == excuses \cap {"leftover", "caught"} # {}

InOrder ==
  /\ Tidy
  /\ at = "off" => requests = <<>> /\ inbox = <<>> /\ ~mismatched
  /\ call # NoCall => at \notin Pauses
  /\ mismatched => Stray
  \* A script that goes on has nothing under way that it did not ask for.
  /\ at \notin {"off", "exit"} /\ ~Stray /\ (Alive \/ call # NoCall) => Orderly

\* Steps of the script are calls or pauses, never both.
LEMMA CallsAreNoPauses == Calls \cap (Pauses \cup {NoCall}) = {}
<1>1. \A i \in 1..Len(InitCalls) : InitCalls[i] \notin Pauses \cup {NoCall}
  BY InitAssumption DEF InitAssumption
<1> QED  BY <1>1 DEF Calls, NamedCalls, Pauses, NoCall, ToSet

\* Steps that leave the messages alone.
LEMMA QuietIsInOrder ==
  ASSUME InOrder, UNCHANGED <<call, requests, owed, inbox, mismatched, excuses>>,
         at' = at \/ (at' # "off" /\ at \in Pauses \ {"off", "exit"})
  PROVE  InOrder'
<1> USE DEF InOrder
<1>1. Tidy' /\ (Orderly => Orderly')
  BY DEF Tidy, Orderly, Idle, Waiting
<1>2. Stray' = Stray /\ Alive' = Alive
  BY DEF Stray, Alive
<1> QED  BY <1>1, <1>2 DEF Pauses

\* Execute takes a response, whatever the script makes of it.
LEMMA ResponseIsInOrder == ASSUME InOrder, ReadResponse PROVE InOrder'
<1> USE DEF InOrder
<1>1. PICK m : PumpResponse(m)
  BY DEF ReadResponse
<1>2. /\ call # NoCall /\ call' = NoCall /\ UNCHANGED excuses
      /\ mismatched' = (mismatched \/ ~m.current)
      /\ UNCHANGED requests
  BY <1>1 DEF PumpResponse, Pump
<1>3. Tidy' /\ (Orderly => Orderly' /\ m.current)
  BY <1>1, PumpResponseIsOrderly
<1>4. at \notin Pauses
  BY <1>2
<1>5. at \notin {"off", "exit"}
  BY <1>4 DEF Pauses
<1>6. Stray' = Stray /\ Alive' = Alive
  BY <1>2 DEF Stray, Alive
<1>7. at' # "off"
  <2>1. InitCalls[1] # "off" /\ (\A name \in ToSet(InitCalls) : AfterInit(name) # "off")
    BY InitCallsArePauseFree, AfterInitIsNoPause DEF Pauses
  <2>2. PICK n, v :
        IF v = Raises
        THEN IF EarlyFcc THEN Continue ELSE End("failed")
        ELSE \/ OnQuery(v) \/ OnChallenge \/ OnVerify(v) \/ OnInit \/ OnModeSet(v)
             \/ OnApn \/ OnAttach(v) \/ OnIp(v) \/ OnDns
             \/ OnConnect(n) \/ OnDatachannel(n) \/ OnSetup
    BY DEF ReadResponse
  <2> USE DEF Go, End, Attempt, Continue, Unlocked
  <2>3. CASE v = Raises
    BY <2>1, <2>2, <2>3
  <2>4. CASE OnQuery(v) \/ OnChallenge \/ OnVerify(v) \/ OnInit
    BY <2>1, <2>4, <1>5 DEF OnQuery, OnChallenge, OnVerify, OnInit
  <2>5. CASE OnModeSet(v) \/ OnApn \/ OnAttach(v) \/ OnIp(v) \/ OnDns
    BY <2>5 DEF OnModeSet, OnApn, OnAttach, OnIp, OnDns
  <2>6. CASE OnConnect(n) \/ OnDatachannel(n) \/ OnSetup
    BY <2>6 DEF OnConnect, OnDatachannel, OnSetup, OnHandle
  <2> QED  BY <2>2, <2>3, <2>4, <2>5, <2>6
<1> QED  BY <1>2, <1>3, <1>5, <1>6, <1>7

\* The script writes, reads and waits.
LEMMA ClientIsInOrder ==
  ASSUME InOrder,
         Write \/ ReadOther \/ PumpFails \/ RpcFails \/ ModeWait \/ AttachWait
  PROVE  InOrder'
<1> USE DEF InOrder
<1>1. CASE Write
  <2>1. Send(at, Argument) /\ at \in Calls /\ Alive /\ UNCHANGED at
    BY <1>1 DEF Write, scriptVars
  <2>2. at \notin Pauses /\ at # NoCall /\ at # "off"
    BY <2>1, CallsAreNoPauses DEF Pauses
  <2>3. UNCHANGED <<mismatched, excuses>> /\ call' = at
    BY <2>1 DEF Send
  <2>4. Tidy' /\ (Orderly => Orderly')
    BY <2>1, <2>2, SendIsOrderly
  <2> QED  BY <2>1, <2>2, <2>3, <2>4 DEF Stray, Alive
<1>2. CASE ReadOther
  <2>1. PumpOther /\ UNCHANGED at
    BY <1>2 DEF ReadOther, scriptVars
  <2>2. /\ call # NoCall /\ UNCHANGED <<call, mismatched>>
        /\ excuses' = excuses \/ excuses' = excuses \cup {"callback"}
    BY <2>1 DEF PumpOther
  <2>3. Tidy' /\ (Orderly => Orderly')
    BY <2>1, PumpOtherIsOrderly
  <2>4. Stray' = Stray /\ at # "off"
    BY <2>2 DEF Stray, Pauses
  <2> QED  BY <2>1, <2>2, <2>3, <2>4
<1>3. CASE PumpFails
  <2>1. PumpRaises(EarlyFcc)
    BY <1>3 DEF PumpFails
  <2>2. /\ call' = NoCall /\ UNCHANGED mismatched
        /\ excuses' = (IF EarlyFcc /\ call # NoCall THEN excuses \cup {"caught"} ELSE excuses)
    BY <2>1 DEF PumpRaises
  <2>3. Tidy' /\ (Stray => Stray')
    BY <2>1, <2>2, PumpRaisesIsTidy DEF Stray
  <2>4. CASE EarlyFcc
    <3>1. call # NoCall /\ at' = InitCalls[1]
      BY <1>3, <2>4 DEF PumpFails, EarlyFcc, Continue
    <3>2. Stray'
      BY <2>2, <2>4, <3>1 DEF Stray
    <3> QED  BY <2>2, <2>3, <3>1, <3>2, InitCallsArePauseFree DEF Pauses
  <2>5. CASE ~EarlyFcc
    <3>1. at' = "exit"
      BY <1>3, <2>5 DEF PumpFails, End
    <3> QED  BY <2>2, <2>3, <3>1
  <2> QED  BY <2>4, <2>5
<1>4. CASE RpcFails
  <2>1. /\ ~Alive /\ call' = NoCall
        /\ UNCHANGED <<requests, owed, inbox, mismatched, excuses>>
        /\ at' = InitCalls[1] \/ at' = "exit"
    BY <1>4 DEF RpcFails, Continue, End
  <2>2. ~Alive' /\ Stray' = Stray /\ Tidy' /\ at' # "off"
    BY <2>1, InitCallsArePauseFree DEF Stray, Alive, Tidy, Pauses
  <2> QED  BY <2>1, <2>2
<1>5. CASE ModeWait \/ AttachWait
  <2>1. PICK m : PumpWaiting(m)
    BY <1>5 DEF ModeWait, AttachWait
  <2>2. call = NoCall /\ UNCHANGED <<call, mismatched, excuses>>
    BY <2>1 DEF PumpWaiting
  <2>3. Tidy' /\ (Orderly => Orderly')
    BY <2>1, PumpWaitingIsOrderly
  <2>4. at \in {"modeWait", "attachWait"} /\ at' # "off"
    BY <1>5 DEF ModeWait, AttachWait, Go, End, scriptVars
  <2> QED  BY <2>2, <2>3, <2>4 DEF Stray, Alive
<1> QED  BY <1>1, <1>2, <1>3, <1>4, <1>5

\* The modem answers, sends, falls silent or crashes.
LEMMA ModemIsInOrder ==
  ASSUME InOrder,
         ModemServe \/ ModemMute \/ ModemSwallows \/ ModemSends
           \/ Permit \/ Noise \/ ModemCrash
  PROVE  InOrder'
<1> USE DEF InOrder
<1>1. ASSUME UNCHANGED <<call, mismatched, at>>,
             Stray => Stray', Alive' => Alive,
             Tidy', Orderly => Orderly',
             at = "off" => UNCHANGED <<requests, inbox>>
      PROVE  InOrder'
  BY <1>1
<1>2. CASE ModemServe
  <2>1. PICK req :
          \E v, also :
            /\ also = <<>> \/ \E w : also = <<ModeSetRspCb(w)>>
            /\ Serve(req, v, also)
    <3>1. PICK req :
            CASE req.name = "CsiFccLockQueryReq" -> Serve(req, Answer(lock = Open), <<>>)
              [] req.name = "CsiFccLockVerChallengeReq" ->
                   Serve(req, Answer(lock = Open \/ lock \in req.arg), <<>>)
              [] req.name = "UtaModeSetReq" ->
                   Serve(req, Yes, <<ModeSetRspCb(Answer(lock = Open))>>)
              [] req.name = "UtaMsNetAttachReq" ->
                   Serve(req, IF permitted THEN Yes ELSE Refused, <<>>)
              [] req.name = "UtaMsCallPsGetNegIpAddrReq" -> Serve(req, IpValues, <<>>)
              [] OTHER -> Serve(req, Yes, <<>>)
      BY <1>2 DEF ModemServe
    <3>2. CASE req.name = "UtaModeSetReq"
      <4>1. Serve(req, Yes, <<ModeSetRspCb(Answer(lock = Open))>>)
        BY <3>1, <3>2
      <4> QED  BY <4>1
    <3>3. CASE req.name # "UtaModeSetReq"
      <4>1. \E v : Serve(req, v, <<>>)
        BY <3>1, <3>3
      <4> QED  BY <4>1
    <3> QED  BY <3>2, <3>3
  <2>2. PICK v, also :
          /\ also = <<>> \/ \E w : also = <<ModeSetRspCb(w)>>
          /\ Serve(req, v, also)
    BY <2>1
  <2>3. /\ UNCHANGED <<call, inbox, mismatched, excuses>> /\ requests # <<>>
        /\ UNCHANGED at
    BY <1>2, <2>2 DEF Serve, ModemServe, ModemIdle, scriptVars
  <2>4. Tidy' /\ (Orderly => Orderly')
    BY <2>2, ServeIsOrderly
  <2> QED  BY <1>1, <2>3, <2>4 DEF Stray, Alive
<1>3. CASE ModemMute \/ ModemSwallows
  <2>1. PICK why : Swallow(why) /\ why \subseteq {"silent"} /\ UNCHANGED at
    BY <1>3 DEF ModemMute, ModemSwallows, ModemIdle, scriptVars
  <2>2. /\ UNCHANGED <<call, inbox, mismatched>> /\ requests # <<>>
        /\ excuses' = excuses \cup why
    BY <2>1 DEF Swallow
  <2>3. Tidy' /\ (Orderly => Orderly')
    BY <2>1, SwallowIsOrderly
  <2> QED  BY <1>1, <2>1, <2>2, <2>3 DEF Stray, Alive
<1>4. CASE ModemSends
  <2>1. ModemSend /\ at # "off" /\ UNCHANGED at
    BY <1>4 DEF ModemSends, ModemIdle, scriptVars
  <2>2. UNCHANGED <<call, requests, mismatched, excuses>>
    BY <2>1 DEF ModemSend
  <2>3. Tidy' /\ (Orderly => Orderly')
    BY <2>1, ModemSendIsOrderly
  <2> QED  BY <1>1, <2>1, <2>2, <2>3 DEF Stray, Alive
<1>5. CASE Permit \/ Noise
  <2>1. /\ UNCHANGED at
        /\ \/ UNCHANGED clientVars
           \/ at # "off" /\ \E m \in {AttachAllowedInd(Yes), Malformed} : Indicate(m)
    BY <1>5 DEF Permit, Noise, ModemIdle, scriptVars
  <2>2. CASE UNCHANGED clientVars
    <3>1. UNCHANGED <<call, requests, owed, inbox, mismatched, excuses>>
      BY <2>2 DEF clientVars
    <3> QED  BY <2>1, <3>1, QuietIsInOrder
  <2>3. ASSUME at # "off", NEW m \in {AttachAllowedInd(Yes), Malformed}, Indicate(m)
        PROVE  InOrder'
    <3>1. IsMessage(m) /\ Type(m) # "response"
      BY <2>3, MessageTypes
    <3>2. Tidy' /\ (Orderly => Orderly')
      BY <2>3, <3>1, IndicateIsOrderly
    <3>3. UNCHANGED <<call, mismatched, excuses>>
      BY <2>3 DEF Indicate
    <3> QED  BY <1>1, <2>1, <2>3, <3>2, <3>3 DEF Stray, Alive
  <2> QED  BY <2>1, <2>2, <2>3
<1>6. CASE ModemCrash
  <2>1. /\ UNCHANGED <<call, requests, owed, inbox, mismatched, at>>
        /\ excuses' = excuses \cup {"dead"}
    BY <1>6 DEF ModemCrash, ModemIdle, scriptVars
  <2> QED  BY <1>1, <2>1 DEF Stray, Alive, Tidy, Orderly, Idle, Waiting
<1> QED  BY <1>2, <1>3, <1>4, <1>5, <1>6

\* The script begins and ends, and the driver is reloaded.
LEMMA SessionIsInOrder ==
  ASSUME InOrder, Start \/ StartRefused \/ Killed \/ Exit \/ Reload
  PROVE  InOrder'
<1> USE DEF InOrder
<1>1. CASE Start
  <2>1. /\ at = "off" /\ at' = "CsiFccLockQueryReq"
        /\ UNCHANGED <<call, requests, owed, inbox, mismatched>>
        /\ excuses' = (IF Answers(owed) THEN {"leftover"} ELSE {})
    BY <1>1 DEF Start, Connect
  <2>2. call = NoCall /\ requests = <<>> /\ inbox = <<>> /\ ~mismatched
    BY <2>1 DEF Pauses
  <2>3. Tidy'
    BY <2>1 DEF Tidy
  <2>4. ~Stray' => Orderly'
    <3>1. ~Stray' => NoAnswer(owed)
      BY <2>1 DEF Stray, Answers, NoAnswer
    <3> QED  BY <2>1, <2>2, <3>1, NothingSent DEF Orderly, Idle
  <2> QED  BY <2>1, <2>2, <2>3, <2>4
<1>2. CASE StartRefused
  <2>1. UNCHANGED <<call, requests, owed, inbox, mismatched, excuses, at>>
    BY <1>2 DEF StartRefused, clientVars
  <2> QED  BY <2>1, QuietIsInOrder
<1>3. CASE Killed \/ Exit
  <2>1. /\ at' = "off" /\ call' = NoCall /\ requests' = <<>> /\ inbox' = <<>>
        /\ owed' \in {owed, <<>>} /\ mismatched' = FALSE
    BY <1>3 DEF Killed, Exit, Gone, Disconnect
  <2>2. Tidy'
    BY <2>1, NothingSent DEF Tidy, AreMessages
  <2> QED  BY <2>1, <2>2
<1>4. CASE Reload
  <2>1. /\ at = "off" /\ owed' = <<>>
        /\ UNCHANGED <<call, requests, inbox, mismatched, at>>
    BY <1>4 DEF Reload, scriptVars
  <2>2. Tidy'
    BY <2>1, NothingSent DEF Tidy
  <2>3. ~mismatched
    BY <2>1
  <2> QED  BY <2>1, <2>2, <2>3
<1> QED  BY <1>1, <1>2, <1>3, <1>4

\* One exchange ends before the next begins.
LEMMA ExchangesAreInOrder == Spec => []InOrder
<1>1. Init => InOrder
  <2> SUFFICES ASSUME Init PROVE InOrder
    OBVIOUS
  <2>1. /\ call = NoCall /\ requests = <<>> /\ owed = <<>> /\ inbox = <<>>
        /\ mismatched = FALSE /\ at = "off"
    BY DEF Init, ClientInit
  <2> QED  BY <2>1, NothingSent DEF InOrder, Tidy, AreMessages
<1>2. InOrder /\ [Next]_vars => InOrder'
  <2> SUFFICES ASSUME InOrder, [Next]_vars PROVE InOrder'
    OBVIOUS
  <2> DEFINE AtRest == UNCHANGED <<call, requests, owed, inbox, mismatched, excuses>>
  <2>1. CASE Start \/ StartRefused \/ Killed \/ Exit \/ Reload
    BY <2>1, SessionIsInOrder
  <2>2. CASE Write \/ ReadOther \/ PumpFails \/ RpcFails \/ ModeWait \/ AttachWait
    BY <2>2, ClientIsInOrder
  <2>3. CASE ReadResponse
    BY <2>3, ResponseIsInOrder
  <2>4. CASE ModemServe \/ ModemMute \/ ModemSwallows \/ ModemSends
             \/ Permit \/ Noise \/ ModemCrash
    BY <2>4, ModemIsInOrder
  <2>5. CASE AttachAgain \/ Flush \/ LinkUp \/ AddAddress \/ AddRoute
    <3>1. AtRest /\ at' # "off" /\ at \in {"attachWait", "flush", "link", "addr", "route"}
      BY <2>5 DEF AttachAgain, Attempt, Flush, LinkUp, AddAddress, AddRoute, HostStep, Go, End,
                  clientVars
    <3> QED  BY <3>1, QuietIsInOrder DEF Pauses
  <2>6. CASE OnProfiles \/ HostFails
    <3>1. /\ AtRest /\ at' # "off"
          /\ at \in {"flush", "link", "addr", "route", "get_connections", "update_connection",
                     "add_connection", "get_connections_again", "activate"}
      BY <2>6 DEF OnProfiles, GetConnections, UpdateConnection, AddConnection,
                  GetConnectionsAgain, Activate, ActivateFails, HostFails, NmStep, Go, End,
                  clientVars
    <3> QED  BY <3>1, QuietIsInOrder DEF Pauses
  <2>7. CASE LinkDown \/ Other \/ UserDeletes \/ Meddle \/ Assign \/ UNCHANGED vars
    <3>1. AtRest /\ UNCHANGED at
      BY <2>7 DEF LinkDown, Other, UserDeletes, Meddle, Assign, ModemIdle, vars, clientVars,
                  scriptVars
    <3> QED  BY <3>1, QuietIsInOrder
  <2> QED
    BY <2>1, <2>2, <2>3, <2>4, <2>5, <2>6, <2>7 DEF Next, Script, OnProfiles
<1> QED  BY <1>1, <1>2, PTL DEF Spec

\* execute pairs requests and responses by nothing but their order.  That is
\* right as long as one exchange ends before the next begins: the invariant
\* says that a script that goes on has at most one answer under way, to the
\* call it waits for, and this fails only after a kill or a caught exception.
THEOREM ResponsesBelong == Spec => []AnswersMatch
<1>1. InOrder => AnswersMatch
  BY DEF InOrder, AnswersMatch, Stray
<1> QED  BY <1>1, ExchangesAreInOrder, PTL

-----------------------------------------------------------------------------
(* What the modem says, and when.                                           *)

AttachReq == "UtaMsNetAttachReq"
IpReq == "UtaMsCallPsGetNegIpAddrReq"
SetupReq == "UtaRPCPSConnectSetupReq"

IsRequest(r) == r = [name |-> r.name, arg |-> r.arg, current |-> r.current]

\* Every indication about attaching grants it.
Said ==
  /\ \A i \in 1..Len(requests) : IsRequest(requests[i])
  /\ \A m \in Msgs : m.code = UtaMsNetIsAttachAllowedIndCb => m.v = Yes

\* A permission is on its way to the script, or there.
Told == permitted => attach_allowed \/ AttachAllowedInd(Yes) \in ToSet(inbox)

CurrentAnswer(m) == m.current /\ Type(m) = "response"

\* What answers to three of the calls tell until the script has read them: a
\* refused attachment, that no permission got lost; an address, that it is
\* the one assigned; the setup of the data channel, what it was given.
Means(m) ==
  /\ m.of = AttachReq /\ m.v = Refused => Told
  /\ m.of = IpReq /\ Alive =>
       m.v # Raises /\ (picked(m.v) # NoAddress => assigned = picked(m.v))
  /\ m.of = SetupReq /\ Alive => (channel <=> handles = Handles)

\* While execute waits, the latest request is under way, or an answer to it is.
Talk ==
  call # NoCall =>
    /\ at = call
    /\ \A i \in 1..Len(requests) : requests[i].current =>
         /\ i = Len(requests) /\ requests[i].name = call
         /\ call = SetupReq => requests[i].arg = handles
    /\ \A m \in Msgs : CurrentAnswer(m) => requests = <<>> /\ m.of = call /\ Means(m)

\* pump hands the indication to handle_unsolicited.
LEMMA GrantIsUnsolicited == Type(AttachAllowedInd(Yes)) = "unsolicited"
BY DEF Type, TypeOf, AttachAllowedInd, Indication, UtaMsNetIsAttachAllowedIndCb,
       xmm7360_unsol, call_ids, SyncTid, AsyncTid, AckCode

\* Whichever loop reads the permission, pump notes it.
LEMMA PumpKeepsTold ==
  ASSUME Tidy, Said, NEW m, Pump(m), UNCHANGED permitted PROVE Told => Told'
<1>1. ToSet(inbox) = {m} \cup ToSet(inbox') /\ m \in Msgs
  BY PumpSet
<1>2. attach_allowed' = Allowed(m) /\ (m.code = UtaMsNetIsAttachAllowedIndCb => m.v = Yes)
  BY <1>1 DEF Pump, Said
<1>3. CASE Type(m) = "unsolicited" /\ m.code = UtaMsNetIsAttachAllowedIndCb
  <2>1. attach_allowed'
    BY <1>2, <1>3 DEF Allowed
  <2> QED  BY <2>1 DEF Told
<1>4. CASE ~(Type(m) = "unsolicited" /\ m.code = UtaMsNetIsAttachAllowedIndCb)
  <2>1. attach_allowed' = attach_allowed
    BY <1>2, <1>4, Zenon DEF Allowed
  <2>2. m # AttachAllowedInd(Yes)
    <3>1. AttachAllowedInd(Yes).code = UtaMsNetIsAttachAllowedIndCb
      BY DEF AttachAllowedInd, Indication
    <3> QED  BY <1>4, <3>1, GrantIsUnsolicited
  <2> QED  BY <1>1, <2>1, <2>2 DEF Told
<1> QED  BY <1>3, <1>4

\* A message that cannot be parsed is no permission.
LEMMA PumpRaisesKeepsTold ==
  ASSUME Tidy, NEW caught, PumpRaises(caught), UNCHANGED permitted PROVE Told => Told'
<1>1. ToSet(inbox) = {Head(inbox)} \cup ToSet(inbox')
  BY PumpRaisesSet
<1>2. Head(inbox).v = Garbage /\ UNCHANGED attach_allowed
  BY DEF PumpRaises
<1>3. AttachAllowedInd(Yes).v # Garbage
  BY DEF AttachAllowedInd, Indication, Yes, Garbage
<1> QED  BY <1>1, <1>2, <1>3 DEF Told

-----------------------------------------------------------------------------
(* The steps the script takes between its calls, and while it waits.        *)

\* Steps at which execute waits for nothing, and is not asked to begin.
LEMMA PausesAreQuiet ==
  ASSUME InOrder, at \in Pauses PROVE call = NoCall
BY DEF InOrder

\* Steps of the script and the host that leave client and modem alone.
Offline ==
  \/ AttachAgain \/ Flush \/ LinkUp \/ AddAddress \/ AddRoute \/ OnProfiles \/ HostFails
  \/ LinkDown \/ Other \/ StartRefused

\* They are taken between calls only.
LEMMA OfflineIsQuiet ==
  ASSUME Offline
  PROVE  at \in Pauses /\ UNCHANGED <<clientVars, modemVars, handles>>
<1> USE DEF Pauses, scriptVars, Go, End, Attempt
<1>1. CASE AttachAgain \/ Flush \/ LinkUp \/ AddAddress \/ AddRoute
  BY <1>1 DEF AttachAgain, Flush, LinkUp, AddAddress, AddRoute, HostStep
<1>2. CASE OnProfiles
  BY <1>2 DEF OnProfiles, GetConnections, UpdateConnection, AddConnection,
              GetConnectionsAgain, Activate, ActivateFails, NmStep
<1>3. CASE HostFails
  BY <1>3 DEF HostFails
<1>4. CASE LinkDown \/ Other \/ StartRefused
  BY <1>4 DEF LinkDown, Other, StartRefused
<1> QED  BY <1>1, <1>2, <1>3, <1>4 DEF Offline

\* Next, by what its steps concern.
LEMMA NextByConcern ==
  ASSUME [Next]_vars
  PROVE  \/ Offline
         \/ Start \/ Killed \/ Exit \/ Reload
         \/ Write \/ ReadOther \/ ReadResponse \/ PumpFails \/ RpcFails
         \/ ModeWait \/ AttachWait
         \/ ModemServe \/ ModemMute \/ ModemSwallows \/ ModemSends
         \/ Permit \/ Assign \/ Noise \/ ModemCrash
         \/ UserDeletes \/ Meddle \/ UNCHANGED vars
BY Zenon DEF Next, Script, Offline, OnProfiles

\* The modem's service: what it says to three of the calls, what it does then.
Service(req, v, also) ==
  /\ Serve(req, v, also)
  /\ \/ also = <<>>
     \/ req.name = "UtaModeSetReq" /\ \E w : also = <<ModeSetRspCb(w)>>
  /\ req.name = AttachReq => v = IF permitted THEN Yes ELSE Refused
  /\ req.name = IpReq => v = IpValues
  /\ req.name = SetupReq => channel' = (req.arg = Handles)
  /\ req.name # AttachReq => UNCHANGED assigned
  /\ req.name \notin {AttachReq, SetupReq} => UNCHANGED channel
  /\ assigned' \in {assigned, NoAddress}

\* Every answer of the modem is such a service.
LEMMA ModemServes ==
  ASSUME ModemServe
  PROVE  /\ UNCHANGED <<nmVars, scriptVars, hostVars, permitted>>
         /\ <<lock', mute'>> = <<Open, FALSE>> \/ UNCHANGED <<lock, mute>>
         /\ \E req, v, also : Service(req, v, also)
<1>1. PICK req \in ToSet(requests) :
        /\ CASE req.name = "CsiFccLockQueryReq" -> Serve(req, Answer(lock = Open), <<>>)
             [] req.name = "CsiFccLockVerChallengeReq" ->
                  Serve(req, Answer(lock = Open \/ lock \in req.arg), <<>>)
             [] req.name = "UtaModeSetReq" ->
                  Serve(req, Yes, <<ModeSetRspCb(Answer(lock = Open))>>)
             [] req.name = "UtaMsNetAttachReq" ->
                  Serve(req, IF permitted THEN Yes ELSE Refused, <<>>)
             [] req.name = "UtaMsCallPsGetNegIpAddrReq" -> Serve(req, IpValues, <<>>)
             [] OTHER -> Serve(req, Yes, <<>>)
        /\ IF req.name = "CsiFccLockVerChallengeReq" /\ lock \in req.arg
           THEN lock' = Open /\ mute' = FALSE
           ELSE UNCHANGED <<lock, mute>>
        /\ IF req.name = "UtaMsNetAttachReq" /\ permitted
           THEN assigned' \in {assigned, NoAddress} /\ channel' = FALSE
           ELSE /\ UNCHANGED assigned
                /\ channel' = (IF req.name = "UtaRPCPSConnectSetupReq"
                               THEN req.arg = Handles ELSE channel)
        /\ UNCHANGED permitted
        /\ ModemIdle
  BY Zenon DEF ModemServe
<1>2. /\ UNCHANGED <<nmVars, scriptVars, hostVars, permitted>>
      /\ <<lock', mute'>> = <<Open, FALSE>> \/ UNCHANGED <<lock, mute>>
  BY <1>1 DEF ModemIdle
<1>3. /\ req.name = SetupReq => channel' = (req.arg = Handles)
      /\ req.name # AttachReq => UNCHANGED assigned
      /\ req.name \notin {AttachReq, SetupReq} => UNCHANGED channel
      /\ assigned' \in {assigned, NoAddress}
  BY <1>1 DEF SetupReq, AttachReq
<1> USE <1>3 DEF Service
<1>4. CASE req.name = "CsiFccLockQueryReq"
  <2>1. Serve(req, Answer(lock = Open), <<>>)
    BY <1>1, <1>4
  <2>2. Service(req, Answer(lock = Open), <<>>)
    BY <1>4, <2>1 DEF AttachReq, IpReq
  <2> QED  BY <1>2, <2>2
<1>5. CASE req.name = "CsiFccLockVerChallengeReq"
  <2>1. Serve(req, Answer(lock = Open \/ lock \in req.arg), <<>>)
    BY <1>1, <1>5
  <2>2. Service(req, Answer(lock = Open \/ lock \in req.arg), <<>>)
    BY <1>5, <2>1 DEF AttachReq, IpReq
  <2> QED  BY <1>2, <2>2
<1>6. CASE req.name = "UtaModeSetReq"
  <2>1. Serve(req, Yes, <<ModeSetRspCb(Answer(lock = Open))>>)
    BY <1>1, <1>6
  <2>2. Service(req, Yes, <<ModeSetRspCb(Answer(lock = Open))>>)
    BY <1>6, <2>1 DEF AttachReq, IpReq
  <2> QED  BY <1>2, <2>2
<1>7. CASE req.name = AttachReq
  <2>1. Serve(req, IF permitted THEN Yes ELSE Refused, <<>>)
    BY <1>1, <1>7 DEF AttachReq
  <2>2. Service(req, IF permitted THEN Yes ELSE Refused, <<>>)
    BY <1>7, <2>1 DEF AttachReq, IpReq
  <2> QED  BY <1>2, <2>2
<1>8. CASE req.name = IpReq
  <2>1. Serve(req, IpValues, <<>>)
    BY <1>1, <1>8 DEF IpReq
  <2>2. Service(req, IpValues, <<>>)
    BY <1>8, <2>1 DEF AttachReq, IpReq
  <2> QED  BY <1>2, <2>2
<1>9. CASE req.name \notin {"CsiFccLockQueryReq", "CsiFccLockVerChallengeReq",
                            "UtaModeSetReq", AttachReq, IpReq}
  <2>1. Serve(req, Yes, <<>>)
    BY <1>1, <1>9 DEF AttachReq, IpReq
  <2>2. Service(req, Yes, <<>>)
    BY <1>9, <2>1
  <2> QED  BY <1>2, <2>2
<1> QED  BY <1>4, <1>5, <1>6, <1>7, <1>8, <1>9

\* What it adds to the messages.
LEMMA ServedMessages ==
  ASSUME Tidy, NEW req, NEW v, NEW also, Service(req, v, also), NEW m \in Msgs', m \notin Msgs
  PROVE  \/ m = Response(req, v)
         \/ Type(m) # "response" /\ m.of = NoCall /\ m.code # UtaMsNetIsAttachAllowedIndCb
<1>1. IsSeq(also) /\ \A e \in ToSet(also) : \E w : e = ModeSetRspCb(w)
  <2>1. CASE also = <<>>
    BY <2>1, NothingSent DEF AreMessages, ToSet
  <2>2. ASSUME NEW w, also = <<ModeSetRspCb(w)>>
        PROVE  IsSeq(also) /\ \A e \in ToSet(also) : e = ModeSetRspCb(w)
    <3>1. also \in Seq({ModeSetRspCb(w)})
      BY <2>2
    <3>2. IsSeq(also)
      BY <3>1, IsSeqOf
    <3> QED  BY <3>1, <3>2, SetOf
  <2> QED  BY <2>1, <2>2 DEF Service
<1>2. \/ m = Response(req, v) \/ m \in ToSet(also)
      \/ IsAsync(req.name) /\ m = Ack(req)
  BY <1>1, ServeSet DEF Service
<1>3. CASE m \in ToSet(also)
  <2>1. PICK w : m = ModeSetRspCb(w)
    BY <1>1, <1>3
  <2> QED
    BY <2>1, MessageTypes DEF ModeSetRspCb, Indication, UtaModeSetRspCb,
                              UtaMsNetIsAttachAllowedIndCb
<1>4. CASE IsAsync(req.name) /\ m = Ack(req)
  BY <1>4, MessageTypes DEF Ack, AckCode, UtaMsNetIsAttachAllowedIndCb
<1> QED  BY <1>2, <1>3, <1>4

\* The request that has been taken.
LEMMA TakenRequest ==
  ASSUME Tidy, requests # <<>>, requests' = Tail(requests)
  PROVE  /\ Len(requests) \in Nat \ {0} /\ Head(requests) = requests[1]
         /\ Len(requests') = Len(requests) - 1
         /\ \A i \in 1..Len(requests') : i + 1 \in 1..Len(requests) /\ requests'[i] = requests[i + 1]
<1>1. IsSeq(requests)
  BY DEF Tidy
<1>2. Len(requests) \in Nat
  BY <1>1, SeqLen
<1> QED  BY <1>1, <1>2, Shortened

\* A request that is no longer the latest is one still.
LEMMA OutdatedRequest ==
  ASSUME NEW r, IsRequest(r) PROVE IsRequest(Old(r)) /\ Old(r).current = FALSE
<1>1. r = [name |-> r.name, arg |-> r.arg, current |-> r.current]
  BY DEF IsRequest
<1>2. DOMAIN r = {"name", "arg", "current"}
  BY <1>1
<1>3. Old(r) = [x \in DOMAIN r |-> IF x = "current" THEN FALSE ELSE r[x]]
  BY Zenon DEF Old
<1>4. Old(r) = [x \in {"name", "arg", "current"} |-> IF x = "current" THEN FALSE ELSE r[x]]
  BY <1>2, <1>3
<1> HIDE DEF Old
<1>5. Old(r) = [name |-> Old(r).name, arg |-> Old(r).arg, current |-> Old(r).current]
  BY <1>4
<1>6. Old(r).current = FALSE
  BY <1>4
<1> QED  BY <1>5, <1>6 DEF IsRequest

\* The request that is written is the only current one.
LEMMA SentRequests ==
  ASSUME Tidy, Said, NEW name, NEW arg, Send(name, arg)
  PROVE  /\ Len(requests) \in Nat /\ Len(requests') = Len(requests) + 1
         /\ requests'[Len(requests) + 1] = [name |-> name, arg |-> arg, current |-> TRUE]
         /\ \A i \in 1..Len(requests) :
              requests'[i].current = FALSE /\ IsRequest(requests'[i])
<1> DEFINE request == [name |-> name, arg |-> arg, current |-> TRUE]
          old == Outdated(requests)
<1>1. Len(requests) \in Nat /\ \A i \in 1..Len(requests) : IsRequest(requests[i])
  BY SeqLen DEF Tidy, Said
<1>2. old = [i \in 1..Len(requests) |-> Old(requests[i])]
  BY Zenon DEF Outdated, Old
<1>3. requests' = Append(old, request)
  BY DEF Send
<1> HIDE DEF old, request
<1>4. /\ old \in Seq({Old(requests[i]) : i \in 1..Len(requests)}) /\ Len(old) = Len(requests)
      /\ \A i \in 1..Len(requests) : old[i] = Old(requests[i])
  BY <1>1, <1>2
<1>5. IsSeq(old)
  BY <1>4, IsSeqOf
<1>6. /\ Len(requests') = Len(requests) + 1 /\ requests'[Len(requests) + 1] = request
      /\ \A i \in 1..Len(requests) : requests'[i] = Old(requests[i])
  BY <1>3, <1>4, <1>5, Appended
<1> QED  BY <1>1, <1>6, OutdatedRequest DEF request

\* Nobody says anything else.
LEMMA SaidIsInductive == ASSUME InOrder, Said, [Next]_vars PROVE Said'
<1>0. Tidy
  BY DEF InOrder
<1>1. ASSUME requests' \in {requests, <<>>}, Msgs' \subseteq Msgs PROVE Said'
  <2>1. \A i \in 1..Len(<<>>) : FALSE
    OBVIOUS
  <2> QED  BY <1>1, <2>1 DEF Said
<1>2. ASSUME requests # <<>>, requests' = Tail(requests),
             \A m \in Msgs' \ Msgs : m.code = UtaMsNetIsAttachAllowedIndCb => m.v = Yes
      PROVE  Said'
  BY <1>0, <1>2, TakenRequest DEF Said
<1>3. ASSUME UNCHANGED <<requests, owed, inbox>> PROVE Said'
  BY <1>1, <1>3 DEF Msgs
<1>4. CASE Offline \/ UserDeletes \/ Meddle \/ UNCHANGED vars
  <2>1. UNCHANGED clientVars
    BY <1>4, OfflineIsQuiet DEF UserDeletes, Meddle, vars
  <2> QED  BY <1>3, <2>1 DEF clientVars
<1>5. CASE Start \/ RpcFails \/ Assign \/ ModemCrash
  BY <1>3, <1>5 DEF Start, Connect, RpcFails, Assign, ModemCrash, clientVars
<1>6. CASE Killed \/ Exit \/ Reload
  <2>1. requests' \in {requests, <<>>} /\ owed' \in {owed, <<>>} /\ inbox' \in {inbox, <<>>}
    BY <1>6 DEF Killed, Exit, Reload, Gone, Disconnect
  <2>2. ToSet(<<>>) = {}
    BY DEF ToSet
  <2>3. Msgs' \subseteq Msgs
    BY <2>1, <2>2 DEF Msgs
  <2> QED  BY <1>1, <2>1, <2>3
<1>7. CASE Write
  <2>1. Send(at, Argument)
    BY <1>7 DEF Write
  <2>2. \A n \in Msgs' : \E m \in Msgs : n = Old(m) /\ IsMessage(m)
    BY <1>0, <2>1, SendSet
  <2>3. ASSUME NEW m, IsMessage(m) PROVE Old(m).code = m.code /\ Old(m).v = m.v
    <3>1. m = [tid |-> m.tid, code |-> m.code, of |-> m.of, v |-> m.v, current |-> m.current]
      BY <2>3 DEF IsMessage
    <3>2. DOMAIN m = {"tid", "code", "of", "v", "current"}
      BY <3>1
    <3>3. Old(m) = [x \in DOMAIN m |-> IF x = "current" THEN FALSE ELSE m[x]]
      BY Zenon DEF Old
    <3> QED  BY <3>2, <3>3
  <2>4. \A n \in Msgs' : n.code = UtaMsNetIsAttachAllowedIndCb => n.v = Yes
    BY <2>2, <2>3 DEF Said
  <2>5. \A i \in 1..Len(requests') : i \in 1..Len(requests) \/ i = Len(requests) + 1
    <3>1. Len(requests) \in Nat /\ Len(requests') = Len(requests) + 1
      BY <1>0, <2>1, SentRequests
    <3> QED  BY <3>1
  <2>6. \A i \in 1..Len(requests') : IsRequest(requests'[i])
    BY <1>0, <2>1, <2>5, SentRequests DEF IsRequest
  <2> QED  BY <2>4, <2>6 DEF Said
<1>8. CASE ReadOther \/ ReadResponse \/ ModeWait \/ AttachWait
  <2>1. PICK m : Pump(m)
    BY <1>8 DEF ReadOther, ReadResponse, ModeWait, AttachWait, PumpOther, PumpResponse,
                PumpWaiting
  <2> QED  BY <1>0, <1>1, <2>1, PumpSet DEF Pump
<1>9. CASE PumpFails
  <2>1. PumpRaises(EarlyFcc)
    BY <1>9 DEF PumpFails
  <2> QED  BY <1>0, <1>1, <2>1, PumpRaisesSet DEF PumpRaises
<1>10. CASE ModemServe
  <2>1. PICK req, v, also : Service(req, v, also)
    BY <1>10, ModemServes
  <2>2. requests # <<>> /\ requests' = Tail(requests)
    BY <2>1 DEF Service, Serve
  <2>3. \A m \in Msgs' \ Msgs : m.code # UtaMsNetIsAttachAllowedIndCb
    BY <1>0, <2>1, ServedMessages DEF Response, SomeCode, UtaMsNetIsAttachAllowedIndCb
  <2> QED  BY <1>2, <2>2, <2>3
<1>11. CASE ModemMute \/ ModemSwallows
  BY <1>2, <1>11 DEF ModemMute, ModemSwallows, Swallow, Msgs
<1>12. CASE ModemSends
  BY <1>0, <1>1, <1>12, ModemSendSet DEF ModemSends, ModemSend
<1>13. CASE Permit \/ Noise
  <2>1. CASE UNCHANGED clientVars
    BY <1>3, <2>1 DEF clientVars
  <2>2. ASSUME NEW m \in {AttachAllowedInd(Yes), Malformed}, Indicate(m) PROVE Said'
    <3>1. Msgs' = Msgs \cup {m} /\ UNCHANGED requests
      BY <1>0, <2>2, IndicateSet DEF Indicate
    <3>2. m.code = UtaMsNetIsAttachAllowedIndCb => m.v = Yes
      BY <2>2 DEF AttachAllowedInd, Malformed, Indication, AckCode,
                  UtaMsNetIsAttachAllowedIndCb
    <3> QED  BY <3>1, <3>2 DEF Said
  <2> QED  BY <1>13, <2>1, <2>2 DEF Permit, Noise
<1> QED
  BY <1>4, <1>5, <1>6, <1>7, <1>8, <1>9, <1>10, <1>11, <1>12, <1>13, NextByConcern

\* get_ip picks the address the network assigned, as the last of the three.
LEMMA PickedAddress ==
  /\ picked(IpValues) # NoAddress => picked(IpValues) = assigned
  /\ IpValues # Raises
<1>1. CASE assigned = NoAddress
  <2>1. IpValues = <<NoAddress, NoAddress, NoAddress>>
    BY <1>1, AddressesAssumption DEF AddressesAssumption, IpValues, NoIp, NoAddress
  <2>2. Nonzero(IpValues) = {}
    BY <2>1 DEF Nonzero
  <2>3. IpValues # Raises
    BY <2>1 DEF Raises
  <2> QED  BY <2>2, <2>3 DEF picked
<1>2. CASE assigned # NoAddress /\ assigned \in Ipv6Addresses
  <2>1. IpValues = <<"v6", "v6", assigned>>
    BY <1>2 DEF IpValues
  <2>2. Nonzero(IpValues) = {1, 2, 3}
    BY <1>2, <2>1 DEF Nonzero, NoAddress
  <2>3. Max({1, 2, 3}) = 3
    BY DEF Max
  <2>4. picked(IpValues) = assigned
    BY <2>1, <2>2, <2>3 DEF picked
  <2>5. IpValues # Raises
    BY <2>1 DEF Raises
  <2> QED  BY <2>4, <2>5
<1>3. CASE assigned # NoAddress /\ assigned \notin Ipv6Addresses
  <2>1. IpValues = <<assigned, NoAddress, NoAddress>>
    BY <1>3 DEF IpValues
  <2>2. Nonzero(IpValues) = {1}
    BY <1>3, <2>1 DEF Nonzero
  <2>3. Max({1}) = 1
    BY DEF Max
  <2>4. picked(IpValues) = assigned
    BY <2>1, <2>2, <2>3 DEF picked
  <2>5. IpValues # Raises
    BY <2>1 DEF Raises
  <2> QED  BY <2>4, <2>5
<1> QED  BY <1>1, <1>2, <1>3

-----------------------------------------------------------------------------
(* While execute waits.                                                     *)

\* Steps of the others, and messages execute drops, leave Talk as it is.
LEMMA TalkKept ==
  ASSUME Tidy, Talk, UNCHANGED <<call, at, handles>>,
         requests' = requests \/ (requests # <<>> /\ requests' = Tail(requests)),
         Msgs' \subseteq Msgs \/ \A m \in Msgs' \ Msgs : Type(m) # "response",
         Told => Told', Alive' => Alive,
         Alive' => channel' = channel /\ (assigned' = assigned \/ assigned = NoAddress)
  PROVE  Talk'
<1> SUFFICES ASSUME call # NoCall PROVE Talk'
  BY DEF Talk
<1>1. /\ at = call
      /\ \A i \in 1..Len(requests) : requests[i].current =>
           /\ i = Len(requests) /\ requests[i].name = call
           /\ call = SetupReq => requests[i].arg = handles
      /\ \A m \in Msgs : CurrentAnswer(m) => requests = <<>> /\ m.of = call /\ Means(m)
  BY DEF Talk
<1>2. ASSUME NEW i \in 1..Len(requests'), requests'[i].current
      PROVE  /\ i = Len(requests') /\ requests'[i].name = call
             /\ call = SetupReq => requests'[i].arg = handles
  <2>1. CASE requests' = requests
    BY <1>1, <1>2, <2>1
  <2>2. CASE requests # <<>> /\ requests' = Tail(requests)
    <3>1. /\ Len(requests) \in Nat \ {0} /\ Len(requests') = Len(requests) - 1
          /\ i + 1 \in 1..Len(requests) /\ requests'[i] = requests[i + 1]
      BY <2>2, TakenRequest
    <3>2. i + 1 = Len(requests)
      BY <1>1, <1>2, <3>1
    <3> QED  BY <1>1, <1>2, <3>1, <3>2
  <2> QED  BY <2>1, <2>2
<1>3. ASSUME NEW m \in Msgs', CurrentAnswer(m)
      PROVE  requests' = <<>> /\ m.of = call /\ Means(m)'
  <2>1. m \in Msgs
    BY <1>3 DEF CurrentAnswer
  <2>2. requests = <<>> /\ m.of = call /\ Means(m)
    BY <1>1, <1>3, <2>1
  <2>3. Means(m)'
    <3>1. m.of = AttachReq /\ m.v = Refused => Told'
      BY <2>2 DEF Means
    <3>2. m.of = IpReq /\ Alive' =>
            m.v # Raises /\ (picked(m.v) # NoAddress => assigned' = picked(m.v))
      BY <2>2 DEF Means
    <3>3. m.of = SetupReq /\ Alive' => (channel' <=> handles' = Handles)
      BY <2>2 DEF Means
    <3> QED  BY <3>1, <3>2, <3>3 DEF Means
  <2> QED  BY <2>2, <2>3
<1> QED  BY <1>1, <1>2, <1>3 DEF Talk, CurrentAnswer

\* The call that is written becomes the one that is waited for.
LEMMA WriteStartsTalk ==
  ASSUME InOrder, Said, Write PROVE Talk'
<1>1. /\ Send(at, Argument) /\ Tidy /\ UNCHANGED <<at, handles>>
  BY DEF Write, InOrder, scriptVars
<1>2. call' = at
  BY <1>1 DEF Send
<1>3. ASSUME NEW i \in 1..Len(requests'), requests'[i].current
      PROVE  /\ i = Len(requests') /\ requests'[i].name = call'
             /\ call' = SetupReq => requests'[i].arg = handles'
  <2>1. /\ Len(requests) \in Nat /\ Len(requests') = Len(requests) + 1
        /\ requests'[Len(requests) + 1] = [name |-> at, arg |-> Argument, current |-> TRUE]
        /\ \A j \in 1..Len(requests) : requests'[j].current = FALSE
    BY <1>1, SentRequests
  <2>2. i = Len(requests) + 1
    BY <1>3, <2>1
  <2>3. at = SetupReq => Argument = handles
    BY DEF Argument, SetupReq
  <2> QED  BY <1>1, <1>2, <2>1, <2>2, <2>3
<1>4. ASSUME NEW n \in Msgs' PROVE ~CurrentAnswer(n)
  <2>1. PICK m \in Msgs : n = Old(m) /\ IsMessage(m)
    BY <1>1, SendSet
  <2>2. m = [tid |-> m.tid, code |-> m.code, of |-> m.of, v |-> m.v, current |-> m.current]
    BY <2>1 DEF IsMessage
  <2>3. n.current = FALSE
    <3>1. DOMAIN m = {"tid", "code", "of", "v", "current"}
      BY <2>2
    <3>2. n = [x \in DOMAIN m |-> IF x = "current" THEN FALSE ELSE m[x]]
      BY <2>1, Zenon DEF Old
    <3> QED  BY <3>1, <3>2
  <2> QED  BY <2>3 DEF CurrentAnswer
<1> QED  BY <1>1, <1>2, <1>3, <1>4 DEF Talk, CurrentAnswer

\* The modem answers the call that is waited for, and means it.
LEMMA ServeContinuesTalk ==
  ASSUME InOrder, Said, Talk, ModemServe PROVE Talk'
<1> SUFFICES ASSUME call # NoCall PROVE Talk'
  <2>1. UNCHANGED call
    BY ModemServes DEF Service, Serve
  <2> QED  BY <2>1 DEF Talk
<1>1. PICK req, v, also : Service(req, v, also)
  BY ModemServes
<1>2. /\ Tidy /\ requests # <<>> /\ req = Head(requests) /\ requests' = Tail(requests)
      /\ UNCHANGED <<call, at, handles, attach_allowed, inbox, permitted, excuses>>
  BY <1>1, ModemServes DEF InOrder, Service, Serve, scriptVars
<1>3. /\ Len(requests) \in Nat \ {0} /\ Head(requests) = requests[1]
      /\ Len(requests') = Len(requests) - 1
      /\ \A i \in 1..Len(requests') : i + 1 \in 1..Len(requests) /\ requests'[i] = requests[i + 1]
  BY <1>2, TakenRequest
<1>4. /\ at = call
      /\ \A i \in 1..Len(requests) : requests[i].current =>
           /\ i = Len(requests) /\ requests[i].name = call
           /\ call = SetupReq => requests[i].arg = handles
      /\ \A m \in Msgs : ~CurrentAnswer(m)
  BY <1>2 DEF Talk
<1>5. ASSUME NEW i \in 1..Len(requests'), requests'[i].current
      PROVE  /\ i = Len(requests') /\ requests'[i].name = call
             /\ call = SetupReq => requests'[i].arg = handles
  <2>1. i + 1 \in 1..Len(requests) /\ requests'[i] = requests[i + 1]
    BY <1>3
  <2>2. i + 1 = Len(requests)
    BY <1>4, <1>5, <2>1
  <2> QED  BY <1>3, <1>4, <1>5, <2>1, <2>2
<1>6. ASSUME NEW m \in Msgs', CurrentAnswer(m)
      PROVE  requests' = <<>> /\ m.of = call /\ Means(m)'
  <2>1. m = Response(req, v)
    BY <1>1, <1>2, <1>4, <1>6, ServedMessages DEF CurrentAnswer
  <2>2. req.current /\ m.of = req.name /\ m.v = v
    BY <1>6, <2>1 DEF CurrentAnswer, Response
  <2>3. 1 \in 1..Len(requests) /\ requests[1].current
    BY <1>2, <1>3, <2>2
  <2>4. 1 = Len(requests) /\ req.name = call /\ (call = SetupReq => req.arg = handles)
    BY <1>2, <1>3, <1>4, <2>3
  <2>5. requests' = <<>>
    BY <1>2, <2>4, EmptyTail DEF Tidy
  <2>6. m.of = AttachReq /\ m.v = Refused => Told'
    <3>1. Yes # Refused
      BY DEF Yes, Refused
    <3> QED  BY <1>1, <1>2, <2>2, <3>1 DEF Service, Told
  <2>7. m.of = IpReq =>
          m.v # Raises /\ (picked(m.v) # NoAddress => assigned' = picked(m.v))
    <3>1. m.of = IpReq => m.v = IpValues /\ UNCHANGED assigned
      BY <1>1, <2>2 DEF Service, IpReq, AttachReq
    <3> QED  BY <3>1, PickedAddress
  <2>8. m.of = SetupReq => (channel' <=> handles' = Handles)
    <3>1. m.of = SetupReq => channel' = (req.arg = Handles)
      BY <1>1, <2>2 DEF Service
    <3> QED  BY <1>2, <2>2, <2>4, <3>1
  <2> QED  BY <2>2, <2>4, <2>5, <2>6, <2>7, <2>8 DEF Means
<1> QED  BY <1>2, <1>4, <1>5, <1>6 DEF Talk, CurrentAnswer

\* So it goes on until execute has its answer.
LEMMA TalkIsInductive ==
  ASSUME InOrder, Said, Talk, [Next]_vars PROVE Talk'
<1>0. Tidy /\ (at \in Pauses => call = NoCall)
  BY PausesAreQuiet DEF InOrder
<1>1. ASSUME call' = NoCall PROVE Talk'
  BY <1>1 DEF Talk
<1>2. CASE Offline \/ Start \/ Reload
  <2>1. at \in Pauses /\ UNCHANGED call
    BY <1>2, OfflineIsQuiet DEF Start, Connect, Reload, Pauses, clientVars
  <2> QED  BY <1>0, <1>1, <2>1
<1>3. CASE Killed \/ Exit \/ ReadResponse \/ PumpFails \/ RpcFails \/ ModeWait \/ AttachWait
  BY <1>1, <1>3 DEF Killed, Exit, Gone, Disconnect, ReadResponse, PumpResponse, PumpFails,
                    PumpRaises, RpcFails, ModeWait, AttachWait, PumpWaiting
<1>4. CASE Write
  BY <1>4, WriteStartsTalk
<1>5. CASE ModemServe
  BY <1>5, ServeContinuesTalk
<1>6. CASE ReadOther
  <2>1. PICK m : Pump(m) /\ UNCHANGED call
                 /\ (excuses' = excuses \/ excuses' = excuses \cup {"callback"})
    BY <1>6 DEF ReadOther, PumpOther
  <2>2. UNCHANGED <<at, handles, permitted, assigned, channel>>
    BY <1>6 DEF ReadOther, scriptVars, modemVars
  <2>3. Told => Told'
    BY <1>0, <2>1, <2>2, PumpKeepsTold
  <2>4. Msgs' \subseteq Msgs /\ UNCHANGED requests
    BY <1>0, <2>1, PumpSet DEF Pump
  <2> QED  BY <1>0, <2>1, <2>2, <2>3, <2>4, TalkKept DEF Alive
<1>7. CASE ModemMute \/ ModemSwallows
  <2>1. PICK why : Swallow(why)
    BY <1>7 DEF ModemMute, ModemSwallows
  <2>2. UNCHANGED <<at, handles, permitted, assigned, channel>>
    BY <1>7 DEF ModemMute, ModemSwallows, ModemIdle, scriptVars, modemVars
  <2>3. /\ requests # <<>> /\ requests' = Tail(requests) /\ excuses' = excuses \cup why
        /\ UNCHANGED <<call, attach_allowed, owed, inbox>>
    BY <2>1 DEF Swallow
  <2>4. Msgs' = Msgs /\ (Told => Told')
    BY <2>2, <2>3 DEF Msgs, Told
  <2> QED  BY <1>0, <2>2, <2>3, <2>4, TalkKept DEF Alive
<1>8. CASE ModemSends
  <2>1. ModemSend /\ UNCHANGED <<at, handles, permitted, assigned, channel>>
    BY <1>8 DEF ModemSends, ModemIdle, scriptVars, modemVars
  <2>2. Msgs' \subseteq Msgs /\ ToSet(inbox) \subseteq ToSet(inbox')
    BY <1>0, <2>1, ModemSendSet
  <2>3. UNCHANGED <<call, attach_allowed, requests, excuses>>
    BY <2>1 DEF ModemSend
  <2>4. Told => Told'
    BY <2>1, <2>2, <2>3 DEF Told
  <2> QED  BY <1>0, <2>1, <2>2, <2>3, <2>4, TalkKept DEF Alive
<1>9. CASE Permit \/ Noise
  <2>1. UNCHANGED <<at, handles, assigned, channel>>
    BY <1>9 DEF Permit, Noise, ModemIdle, scriptVars, modemVars
  <2>2. CASE at = "off"
    <3>1. at' \in Pauses /\ UNCHANGED call
      BY <1>9, <2>1, <2>2 DEF Permit, Noise, Indicate, Pauses, clientVars
    <3> QED  BY <1>0, <1>1, <2>1, <3>1
  <2>3. CASE at # "off"
    <3>1. PICK m \in {AttachAllowedInd(Yes), Malformed} :
            /\ Indicate(m)
            /\ m = AttachAllowedInd(Yes) \/ UNCHANGED permitted
      BY <1>9, <2>3 DEF Permit, Noise, modemVars
    <3>2. Msgs' = Msgs \cup {m} /\ ToSet(inbox') = ToSet(inbox) \cup {m}
      BY <1>0, <3>1, IndicateSet
    <3>3. UNCHANGED <<call, attach_allowed, requests, excuses>>
      BY <3>1 DEF Indicate
    <3>4. Type(m) # "response"
      BY MessageTypes
    <3>5. Told => Told'
      BY <3>1, <3>2, <3>3 DEF Told
    <3>6. \A n \in Msgs' \ Msgs : Type(n) # "response"
      BY <3>2, <3>4
    <3> QED  BY <1>0, <2>1, <3>3, <3>5, <3>6, TalkKept DEF Alive
  <2> QED  BY <2>2, <2>3
<1>10. CASE Assign \/ ModemCrash
  <2>1. /\ UNCHANGED <<call, at, handles, requests, owed, inbox, attach_allowed, permitted>>
        /\ \/ UNCHANGED <<excuses, channel>> /\ assigned = NoAddress
           \/ excuses' = excuses \cup {"dead"}
    BY <1>10 DEF Assign, ModemCrash, ModemIdle, scriptVars, clientVars
  <2>2. Msgs' = Msgs /\ (Told => Told')
    BY <2>1 DEF Msgs, Told
  <2> QED  BY <1>0, <2>1, <2>2, TalkKept DEF Alive
<1>11. CASE UserDeletes \/ Meddle \/ UNCHANGED vars
  <2>1. UNCHANGED <<clientVars, scriptVars, modemVars>>
    BY <1>11 DEF UserDeletes, Meddle, vars
  <2>2. /\ UNCHANGED <<call, at, handles, requests, owed, inbox, attach_allowed, permitted>>
        /\ UNCHANGED <<excuses, assigned, channel>>
    BY <2>1 DEF clientVars, scriptVars, modemVars
  <2>3. Msgs' = Msgs /\ (Told => Told')
    BY <2>2 DEF Msgs, Told
  <2> QED  BY <1>0, <2>2, <2>3, TalkKept DEF Alive
<1> QED
  BY <1>2, <1>3, <1>4, <1>5, <1>6, <1>7, <1>8, <1>9, <1>10, <1>11, NextByConcern

-----------------------------------------------------------------------------
(* What the script makes of an answer.                                      *)

\* It takes value v of response m.
Takes(m, v) ==
  IF v = Raises
  THEN IF EarlyFcc THEN Continue ELSE End("failed")
  ELSE \/ OnQuery(v) \/ OnChallenge \/ OnVerify(v) \/ OnInit \/ OnModeSet(v)
       \/ OnApn \/ OnAttach(v) \/ OnIp(v) \/ OnDns
       \/ OnConnect(m) \/ OnDatachannel(m) \/ OnSetup

\* Unless answers are mistaken now, it is the one to the call.
Trusted(m, v) ==
  /\ ~mismatched /\ m.current /\ requests = <<>>
  /\ m.of = at /\ v = m.v /\ Means(m)

\* execute returns with such a value, and with the right one unless it erred.
LEMMA TakenAnswer ==
  ASSUME InOrder, Talk, ReadResponse
  PROVE  /\ UNCHANGED <<nmVars, modemVars, hostVars, requests, excuses>>
         /\ call # NoCall /\ call' = NoCall
         /\ \E m, v : /\ Pump(m) /\ Takes(m, v) /\ m \in Msgs
                      /\ v \in Values(m)
                      /\ mismatched' = (mismatched \/ ~m.current)
                      /\ ~mismatched' => Trusted(m, v)
<1>1. PICK m \in ToSet(inbox) : PumpResponse(m) /\ \E v \in Values(m) : Takes(m, v)
  BY Zenon DEF ReadResponse, Takes
<1>2. PICK v \in Values(m) : Takes(m, v)
  BY <1>1
<1>3. UNCHANGED <<nmVars, modemVars, hostVars>>
  BY DEF ReadResponse
<1>4. /\ call # NoCall /\ call' = NoCall /\ Pump(m) /\ Type(m) = "response"
      /\ mismatched' = (mismatched \/ ~m.current)
      /\ UNCHANGED <<requests, excuses>>
  BY <1>1 DEF PumpResponse, Pump
<1>5. m \in Msgs
  BY DEF Msgs
<1>6. m.of = at => v = m.v
  BY DEF Values
<1>7. ~mismatched' => Trusted(m, v)
  BY <1>4, <1>5, <1>6 DEF Talk, CurrentAnswer, Trusted
<1> QED  BY <1>2, <1>3, <1>4, <1>5, <1>7

-----------------------------------------------------------------------------
(* The permission to attach.                                                *)

\* Unless answers were mistaken, the refusal that makes the script wait was
\* given before any permission, whose indication is noted or still to be read.
Waits == at = "attachWait" /\ ~mismatched => Told

\* The permission stays noted or readable while the script waits for it.
LEMMA WaitsIsInductive ==
  ASSUME InOrder, Said, Talk, Waits, [Next]_vars PROVE Waits'
<1> USE DEF Waits
<1>0. Tidy
  BY DEF InOrder
<1>1. ASSUME UNCHANGED <<at, mismatched>>, Told => Told' PROVE Waits'
  BY <1>1
<1>2. CASE Offline
  <2>1. UNCHANGED <<mismatched, attach_allowed, inbox, permitted>>
    BY <1>2, OfflineIsQuiet DEF clientVars, modemVars
  <2>2. at' = at \/ at' # "attachWait"
    BY <1>2 DEF Offline, AttachAgain, Flush, LinkUp, AddAddress, AddRoute, OnProfiles, HostFails,
                GetConnections, UpdateConnection, AddConnection, GetConnectionsAgain,
                Activate, ActivateFails, HostStep, NmStep, Attempt, Go, End, LinkDown,
                Other, StartRefused, scriptVars
  <2> QED  BY <2>1, <2>2 DEF Told
<1>3. CASE Start \/ Killed \/ Exit \/ Reload \/ RpcFails \/ PumpFails
  <2>1. InitCalls[1] # "attachWait"
    BY InitCallsArePauseFree DEF Pauses
  <2>2. at' # "attachWait"
    BY <1>3, <2>1 DEF Start, Killed, Exit, Gone, Reload, RpcFails, PumpFails, Continue, End,
                      scriptVars
  <2> QED  BY <2>2
<1>4. CASE Write
  <2>1. at \in Calls /\ at' = at
    BY <1>4 DEF Write, scriptVars
  <2> QED  BY <2>1, CallsAreNoPauses DEF Pauses
<1>5. CASE ReadOther \/ ModeWait \/ AttachWait
  <2>1. PICK m : Pump(m) /\ UNCHANGED mismatched
    BY <1>5 DEF ReadOther, ModeWait, AttachWait, PumpOther, PumpWaiting
  <2>2. UNCHANGED permitted
    BY <1>5 DEF ReadOther, ModeWait, AttachWait, modemVars
  <2>3. Told => Told'
    BY <1>0, <2>1, <2>2, PumpKeepsTold
  <2>4. at' = at \/ at' # "attachWait"
    BY <1>5 DEF ReadOther, ModeWait, AttachWait, scriptVars, Go, End
  <2> QED  BY <2>1, <2>3, <2>4
<1>6. CASE ReadResponse
  <2> SUFFICES ASSUME at' = "attachWait", ~mismatched' PROVE Told'
    OBVIOUS
  <2>1. PICK m, v : Pump(m) /\ Takes(m, v) /\ Trusted(m, v) /\ UNCHANGED permitted
    BY <1>6, TakenAnswer DEF modemVars
  <2>2. at = AttachReq /\ v = Refused
    <3> USE DEF Go, End, Attempt, Continue, Unlocked
    <3>1. InitCalls[1] # "attachWait" /\ \A n \in ToSet(InitCalls) : AfterInit(n) # "attachWait"
      BY InitCallsArePauseFree, AfterInitIsNoPause DEF Pauses
    <3>2. v # Raises
      BY <2>1, <3>1 DEF Takes
    <3>3. CASE OnQuery(v) \/ OnChallenge \/ OnVerify(v) \/ OnInit
      BY <3>1, <3>3 DEF OnQuery, OnChallenge, OnVerify, OnInit
    <3>4. CASE OnModeSet(v) \/ OnApn \/ OnIp(v) \/ OnDns
      BY <3>4 DEF OnModeSet, OnApn, OnIp, OnDns
    <3>5. CASE OnAttach(v)
      BY <3>5 DEF OnAttach, AttachReq
    <3>6. CASE OnConnect(m) \/ OnDatachannel(m) \/ OnSetup
      BY <3>6 DEF OnConnect, OnDatachannel, OnSetup, OnHandle
    <3> QED  BY <2>1, <3>2, <3>3, <3>4, <3>5, <3>6 DEF Takes
  <2>3. Told
    BY <2>1, <2>2 DEF Trusted, Means
  <2> QED  BY <1>0, <2>1, <2>3, PumpKeepsTold
<1>7. CASE ModemServe
  <2>1. UNCHANGED <<at, mismatched, attach_allowed, inbox, permitted>>
    BY <1>7, ModemServes DEF Service, Serve, scriptVars
  <2> QED  BY <1>1, <2>1 DEF Told
<1>8. CASE ModemMute \/ ModemSwallows \/ Assign \/ ModemCrash
  <2>1. UNCHANGED <<at, mismatched, attach_allowed, inbox, permitted>>
    BY <1>8 DEF ModemMute, ModemSwallows, Swallow, Assign, ModemCrash, ModemIdle, scriptVars,
                clientVars, modemVars
  <2> QED  BY <1>1, <2>1 DEF Told
<1>9. CASE ModemSends
  <2>1. ModemSend /\ UNCHANGED <<at, permitted>>
    BY <1>9 DEF ModemSends, ModemIdle, scriptVars, modemVars
  <2>2. UNCHANGED <<mismatched, attach_allowed>> /\ ToSet(inbox) \subseteq ToSet(inbox')
    BY <1>0, <2>1, ModemSendSet DEF ModemSend
  <2> QED  BY <1>1, <2>1, <2>2 DEF Told
<1>10. CASE Permit \/ Noise
  <2>1. UNCHANGED <<at, mismatched>>
    BY <1>10 DEF Permit, Noise, Indicate, ModemIdle, scriptVars, clientVars
  <2>2. CASE at = "off"
    BY <2>1, <2>2
  <2>3. CASE at # "off"
    <3>1. PICK m : Indicate(m) /\ (m = AttachAllowedInd(Yes) \/ UNCHANGED permitted)
      BY <1>10, <2>3 DEF Permit, Noise, modemVars
    <3>2. ToSet(inbox') = ToSet(inbox) \cup {m} /\ UNCHANGED attach_allowed
      BY <1>0, <3>1, IndicateSet DEF Indicate
    <3> QED  BY <1>1, <2>1, <3>1, <3>2 DEF Told
  <2> QED  BY <2>2, <2>3
<1>11. CASE UserDeletes \/ Meddle \/ UNCHANGED vars
  <2>1. UNCHANGED <<at, mismatched, attach_allowed, inbox, permitted>>
    BY <1>11 DEF UserDeletes, Meddle, vars, clientVars, scriptVars, modemVars
  <2> QED  BY <1>1, <2>1 DEF Told
<1> QED
  BY <1>2, <1>3, <1>4, <1>5, <1>6, <1>7, <1>8, <1>9, <1>10, <1>11, NextByConcern

\* The conversation, for the theorems that follow.
Conversation == Said /\ Talk /\ Waits

\* It holds of every run, of a killed one's successors, too.
LEMMA ConversationHolds == Spec => []Conversation
<1>1. Init => Conversation
  <2> SUFFICES ASSUME Init PROVE Conversation
    OBVIOUS
  <2>1. /\ call = NoCall /\ requests = <<>> /\ owed = <<>> /\ inbox = <<>> /\ at = "off"
    BY DEF Init, ClientInit
  <2>2. ToSet(<<>>) = {} /\ \A i \in 1..Len(<<>>) : FALSE
    BY DEF ToSet
  <2> QED  BY <2>1, <2>2 DEF Conversation, Said, Talk, Waits, Msgs
<1>2. Conversation /\ InOrder /\ [Next]_vars => Conversation'
  BY SaidIsInductive, TalkIsInductive, WaitsIsInductive DEF Conversation
<1> QED  BY <1>1, <1>2, ExchangesAreInOrder, PTL DEF Spec

\* The script waits for permission on what pump has noted, and cannot miss it:
\* the refusal it waits after was given when there was none, and every loop
\* that reads the indication since then (execute's, too) notes it.
THEOREM PermissionIsSeen == Spec => []NoMissedPermission
<1>1. InOrder /\ Conversation => NoMissedPermission
  <2> SUFFICES ASSUME InOrder, Conversation, at = "attachWait", permitted, ~mismatched,
                      ~attach_allowed
               PROVE  \E i \in 1..Len(inbox) : inbox[i] = AttachAllowedInd(Yes)
    BY DEF NoMissedPermission
  <2>1. AttachAllowedInd(Yes) \in ToSet(inbox)
    BY DEF Conversation, Waits, Told
  <2>2. IsSeq(inbox)
    BY DEF InOrder, Tidy, AreMessages
  <2> QED  BY <2>1, <2>2, SetOf
<1> QED  BY <1>1, ExchangesAreInOrder, ConversationHolds, PTL

-----------------------------------------------------------------------------
(* What the script knows at each of its steps, once it is attached.         *)

AfterSetup == {"get_connections", "update_connection", "add_connection",
               "get_connections_again", "activate"}
AfterRoute == {"UtaMsCallPsConnectReq", "UtaRPCPsConnectToDatachannelReq", SetupReq}
                \cup AfterSetup
AfterDns == {"flush", "link", "addr", "route"} \cup AfterRoute
AfterIp == {"UtaMsCallPsGetNegotiatedDnsReq"} \cup AfterDns
AfterAttach == {IpReq} \cup AfterIp

\* No request but its own call is under way.
OneCall ==
  at \in AfterAttach /\ ~mismatched =>
    IF call = NoCall THEN requests = <<>>
    ELSE \A i \in 1..Len(requests) : requests[i].name = at

\* The address is the one assigned, the handles are this session's, and the
\* data channel is set up with them.
Session ==
  /\ at \in AfterIp /\ ~mismatched /\ Alive /\ ip_addr # NoAddress => assigned = ip_addr
  /\ at \in AfterDns => ip_addr # NoAddress
  /\ at = "UtaRPCPsConnectToDatachannelReq" /\ ~mismatched =>
       "UtaMsCallPsConnectReq" \in handles
  /\ at \in {SetupReq} \cup AfterSetup /\ ~mismatched => Handles \subseteq handles
  /\ handles \subseteq Handles
  /\ at \in AfterSetup /\ ~mismatched /\ Alive => channel

\* So are the address and the route of wwan0, and the profile.
Interface ==
  /\ at \in {"link", "addr"} => addrs = {} \/ meddled
  /\ at \in {"route"} \cup AfterRoute =>
       ip_addr \in addrs /\ (addrs = {ip_addr} \/ meddled)
  /\ at \in AfterRoute => routed \/ nodefaultroute
  /\ at = "get_connections_again" => \A p \in DOMAIN profiles : profiles[p] = ip_addr
  /\ at = "activate" /\ Activatable => profiles[connection_path] = ip_addr

\* Where the script goes on after an answer.  (The calls between the two FCC
\* unlocks come before all of these.)
LEMMA InitCallsComeFirst ==
  /\ InitCalls[1] \notin AfterAttach
  /\ \A name \in ToSet(InitCalls) : name \notin AfterAttach /\ AfterInit(name) \notin AfterAttach
<1>1. InitCalls \in Seq(STRING \ (Pauses \cup NamedCalls \cup {NoCall})) /\ InitCalls # <<>>
  BY InitAssumption DEF InitAssumption
<1>2. AfterAttach \subseteq Pauses \cup NamedCalls
  BY DEF AfterAttach, AfterIp, AfterDns, AfterRoute, AfterSetup, IpReq, SetupReq, Pauses,
         NamedCalls
<1>3. \A i \in 1..Len(InitCalls) : InitCalls[i] \notin AfterAttach
  BY <1>1, <1>2
<1>4. Len(InitCalls) \in Nat \ {0}
  BY <1>1
<1>5. \A name \in ToSet(InitCalls) : \E j \in 1..Len(InitCalls) : name = InitCalls[j]
  BY <1>4, InitCallsArePauseFree, <1>1 DEF ToSet
<1>6. ASSUME NEW name \in ToSet(InitCalls) PROVE AfterInit(name) \notin AfterAttach
  <2>1. CASE name = Last(InitCalls)
    BY <2>1 DEF AfterInit, AfterAttach, AfterIp, AfterDns, AfterRoute, AfterSetup, IpReq,
                SetupReq
  <2>2. CASE name # Last(InitCalls)
    <3>1. PICK j \in 1..Len(InitCalls) : name = InitCalls[j]
      BY <1>5
    <3>2. j + 1 \in 2..Len(InitCalls) /\ InitCalls[(j + 1) - 1] = name
      BY <1>4, <2>2, <3>1 DEF Last
    <3>3. (CHOOSE i \in 2..Len(InitCalls) : InitCalls[i - 1] = name) \in 2..Len(InitCalls)
      BY <3>2
    <3>4. (CHOOSE i \in 2..Len(InitCalls) : InitCalls[i - 1] = name) \in 1..Len(InitCalls)
      BY <1>4, <3>3
    <3> QED  BY <1>3, <2>2, <3>4 DEF AfterInit
  <2> QED  BY <2>1, <2>2
<1> QED  BY <1>3, <1>4, <1>5, <1>6

\* Only a few answers bring the script among the steps after the attachment.
LEMMA WhereAnswersLead ==
  ASSUME NEW m, NEW v, Takes(m, v)
  PROVE  \/ /\ at' \notin AfterAttach /\ UNCHANGED <<handles, ip_addr>>
         \/ v # Raises /\ \/ at' = IpReq /\ UNCHANGED <<handles, ip_addr>>
                          \/ OnIp(v) \/ OnDns \/ OnConnect(m) \/ OnDatachannel(m) \/ OnSetup
<1> USE DEF Go, End, Attempt, Continue, Unlocked
<1>0. \A step \in {"exit", "CsiFccLockQueryReq", "CsiFccLockGenChallengeReq",
                   "CsiFccLockVerChallengeReq", "UtaModeSetReq", "modeWait",
                   "UtaMsNetAttachReq", "attachWait"} : step \notin AfterAttach
  BY DEF AfterAttach, AfterIp, AfterDns, AfterRoute, AfterSetup, IpReq, SetupReq
<1>1. CASE v = Raises
  BY <1>0, <1>1, InitCallsComeFirst DEF Takes
<1>2. CASE v # Raises /\ (OnQuery(v) \/ OnChallenge \/ OnVerify(v) \/ OnInit)
  BY <1>0, <1>2, InitCallsComeFirst DEF OnQuery, OnChallenge, OnVerify, OnInit
<1>3. CASE v # Raises /\ (OnModeSet(v) \/ OnApn \/ OnAttach(v))
  BY <1>0, <1>3 DEF OnModeSet, OnApn, OnAttach, IpReq
<1> QED  BY <1>1, <1>2, <1>3 DEF Takes

\* The script has attached if it goes on among the steps after that.
LEMMA StepsAfterAttach ==
  ASSUME InOrder, [Next]_vars, ~ReadResponse, at' \in AfterAttach
  PROVE  /\ at \in AfterAttach
         /\ (UNCHANGED at) \/ Offline
         /\ ~(Start \/ Killed \/ Exit \/ Reload \/ PumpFails \/ RpcFails \/ ModeWait)
<1> USE DEF Go, End, Attempt, Continue, AfterAttach, AfterIp, AfterDns, AfterRoute, AfterSetup,
            IpReq, SetupReq
<1>1. ~(Start \/ Killed \/ Exit \/ Reload \/ PumpFails \/ RpcFails)
  BY InitCallsComeFirst DEF Start, Killed, Exit, Gone, Reload, PumpFails, RpcFails, scriptVars
<1>2. ~ModeWait
  BY DEF ModeWait
<1>3. CASE UNCHANGED at
  BY <1>1, <1>2, <1>3
<1>4. CASE Offline
  <2>1. ~AttachAgain
    BY DEF AttachAgain
  <2> QED  BY <1>1, <1>2, <1>4, <2>1
    DEF Offline, Flush, LinkUp, AddAddress, AddRoute, OnProfiles, HostFails, GetConnections,
        UpdateConnection, AddConnection, GetConnectionsAgain, Activate, ActivateFails,
        HostStep, NmStep, LinkDown, Other, StartRefused, scriptVars
<1>5. CASE Write \/ ReadOther \/ AttachWait
  <2>1. UNCHANGED at
    BY <1>5 DEF Write, ReadOther, AttachWait, scriptVars
  <2> QED  BY <1>3, <2>1
<1>6. CASE ModemServe \/ ModemMute \/ ModemSwallows \/ ModemSends
           \/ Permit \/ Assign \/ Noise \/ ModemCrash
           \/ UserDeletes \/ Meddle \/ UNCHANGED vars
  <2>1. UNCHANGED at
    BY <1>6 DEF ModemServe, ModemMute, ModemSwallows, ModemSends, Permit, Assign, Noise,
                ModemCrash, UserDeletes, Meddle, vars, ModemIdle, scriptVars
  <2> QED  BY <1>3, <2>1
<1> QED  BY <1>1, <1>2, <1>4, <1>5, <1>6, NextByConcern

\* Each call ends before the script goes on.
LEMMA OneCallIsInductive ==
  ASSUME InOrder, Conversation, OneCall, [Next]_vars PROVE OneCall'
<1>0. Tidy /\ Said /\ Talk /\ (at \in Pauses => call = NoCall)
  BY PausesAreQuiet DEF InOrder, Conversation
<1> SUFFICES ASSUME at' \in AfterAttach, ~mismatched'
             PROVE  IF call' = NoCall THEN requests' = <<>>
                    ELSE \A i \in 1..Len(requests') : requests'[i].name = at'
  BY DEF OneCall
<1>1. CASE ReadResponse
  <2>1. UNCHANGED requests /\ call' = NoCall /\ \E m, v : Trusted(m, v)
    BY <1>0, <1>1, TakenAnswer
  <2> QED  BY <2>1 DEF Trusted
<1> SUFFICES ASSUME ~ReadResponse
             PROVE  IF call' = NoCall THEN requests' = <<>>
                    ELSE \A i \in 1..Len(requests') : requests'[i].name = at'
  BY <1>1
<1>2. /\ at \in AfterAttach /\ ((UNCHANGED at) \/ Offline)
      /\ ~(Start \/ Killed \/ Exit \/ Reload \/ PumpFails \/ RpcFails \/ ModeWait)
  BY StepsAfterAttach
<1>3. ASSUME ~mismatched
      PROVE  IF call = NoCall THEN requests = <<>>
             ELSE \A i \in 1..Len(requests) : requests[i].name = at
  BY <1>2, <1>3 DEF OneCall
<1>4. ASSUME UNCHANGED <<call, requests, mismatched>>, call = NoCall \/ UNCHANGED at
      PROVE  IF call' = NoCall THEN requests' = <<>>
             ELSE \A i \in 1..Len(requests') : requests'[i].name = at'
  BY <1>3, <1>4
<1>5. CASE Offline
  BY <1>0, <1>4, <1>5, OfflineIsQuiet DEF clientVars
<1>6. CASE UserDeletes \/ Meddle \/ Assign \/ ModemCrash \/ UNCHANGED vars
  BY <1>4, <1>6 DEF UserDeletes, Meddle, Assign, ModemCrash, ModemIdle, scriptVars, vars, clientVars
<1>7. CASE ReadOther \/ AttachWait
  BY <1>4, <1>7 DEF ReadOther, AttachWait, PumpOther, PumpWaiting, Pump, scriptVars
<1>8. CASE ModemSends \/ Permit \/ Noise
  BY <1>4, <1>8 DEF ModemSends, Permit, Noise, ModemSend, Indicate, ModemIdle, scriptVars,
                    clientVars
<1>9. CASE Write
  <2>1. Send(at, Argument) /\ UNCHANGED at
    BY <1>9 DEF Write, scriptVars
  <2>2. call = NoCall /\ ~mismatched
    BY <2>1 DEF Send
  <2>3. requests = <<>>
    BY <1>3, <2>2
  <2>4. Len(requests) = 0
    BY <2>3
  <2>5. Len(requests') = 1 /\ requests'[1].name = at
    <3>1. /\ Len(requests') = Len(requests) + 1
          /\ requests'[Len(requests) + 1] = [name |-> at, arg |-> Argument, current |-> TRUE]
      BY <1>0, <2>1, SentRequests
    <3> QED  BY <2>4, <3>1
  <2>6. call' = at /\ at # NoCall
    BY <1>2, <2>1 DEF Send, NoCall, AfterAttach, AfterIp, AfterDns, AfterRoute, AfterSetup,
                      IpReq, SetupReq
  <2> QED  BY <2>1, <2>5, <2>6
<1>10. CASE ModemServe \/ ModemMute \/ ModemSwallows
  <2>1. /\ requests # <<>> /\ requests' = Tail(requests)
        /\ UNCHANGED <<call, mismatched, at>>
    BY <1>10, ModemServes DEF ModemMute, ModemSwallows, Swallow, Service, Serve, ModemIdle,
                              scriptVars
  <2>2. call # NoCall /\ \A i \in 1..Len(requests) : requests[i].name = at
    BY <1>3, <2>1
  <2> QED  BY <1>0, <2>1, <2>2, TakenRequest
<1> QED
  BY <1>2, <1>5, <1>6, <1>7, <1>8, <1>9, <1>10, NextByConcern

\* Where the script goes on between calls.
LEMMA OfflineSteps ==
  ASSUME Offline, at' \in AfterAttach
  PROVE  /\ at \in {"flush", "link", "addr", "route"} \cup AfterSetup
         /\ at' \in {"link", "addr", "route", "UtaMsCallPsConnectReq"} \cup AfterSetup
         /\ at' \in AfterSetup => at \in AfterSetup
         /\ UNCHANGED ip_addr
<1> USE DEF Go, End, Attempt, AfterAttach, AfterIp, AfterDns, AfterRoute, AfterSetup,
            IpReq, SetupReq
<1>1. CASE Flush \/ LinkUp \/ AddAddress \/ AddRoute
  BY <1>1 DEF Flush, LinkUp, AddAddress, AddRoute, HostStep
<1>2. CASE OnProfiles
  BY <1>2 DEF OnProfiles, GetConnections, UpdateConnection, AddConnection,
              GetConnectionsAgain, Activate, ActivateFails, NmStep
<1>3. ~AttachAgain
  BY DEF AttachAgain
<1>4. ~(HostFails \/ LinkDown \/ Other \/ StartRefused)
  BY DEF HostFails, LinkDown, Other, StartRefused, scriptVars
<1> QED  BY <1>1, <1>2, <1>3, <1>4 DEF Offline

\* The modem changes none of it behind the script's back.
LEMMA ModemKeepsSession ==
  ASSUME InOrder, OneCall, [Next]_vars, ~Reload, ~ReadResponse, at \in AfterIp,
         ~mismatched, Alive'
  PROVE  /\ UNCHANGED assigned \/ assigned = NoAddress
         /\ at \in AfterSetup => UNCHANGED channel
<1>1. CASE ModemServe
  <2>1. PICK req, v, also : Service(req, v, also)
    BY <1>1, ModemServes
  <2>2. requests # <<>> /\ req = Head(requests) /\ requests' = Tail(requests)
    BY <2>1 DEF Service, Serve
  <2>3. 1 \in 1..Len(requests) /\ req = requests[1]
    BY <2>2, TakenRequest DEF InOrder
  <2>4. call # NoCall /\ req.name = at
    BY <2>2, <2>3 DEF OneCall, AfterAttach
  <2>5. at # AttachReq
    BY DEF AttachReq, AfterIp, AfterDns, AfterRoute, AfterSetup, SetupReq
  <2>6. at \notin AfterSetup
    BY <2>4 DEF InOrder, AfterSetup, Pauses
  <2> QED  BY <2>1, <2>4, <2>5, <2>6 DEF Service
<1>2. CASE Assign
  BY <1>2 DEF Assign
<1>3. CASE ModemCrash
  BY <1>3 DEF ModemCrash, Alive
<1>4. CASE Offline \/ UserDeletes \/ Meddle \/ UNCHANGED vars
  BY <1>4, OfflineIsQuiet DEF UserDeletes, Meddle, vars, modemVars
<1>5. CASE Start \/ Killed \/ Exit \/ Write \/ ReadOther \/ PumpFails \/ RpcFails
           \/ ModeWait \/ AttachWait
  BY <1>5 DEF Start, Killed, Exit, Gone, Write, ReadOther, PumpFails, RpcFails, ModeWait,
              AttachWait, modemVars
<1>6. CASE ModemMute \/ ModemSwallows \/ ModemSends \/ Permit \/ Noise
  BY <1>6 DEF ModemMute, ModemSwallows, ModemSends, Permit, Noise, modemVars
<1> QED  BY <1>1, <1>2, <1>3, <1>4, <1>5, <1>6, NextByConcern

\* Nobody but execute finds answers mistaken, or the modem revived.
LEMMA MistakesStay ==
  ASSUME [Next]_vars, ~(Start \/ Killed \/ Exit \/ Reload)
  PROVE  (~mismatched' => ~mismatched) /\ (Alive' => Alive)
<1>1. CASE Offline \/ UserDeletes \/ Meddle \/ UNCHANGED vars
  BY <1>1, OfflineIsQuiet DEF UserDeletes, Meddle, vars, clientVars, Alive
<1>2. CASE Write \/ ReadOther \/ RpcFails \/ ModeWait \/ AttachWait
  <2>1. /\ UNCHANGED mismatched
        /\ excuses' = excuses \/ excuses' = excuses \cup {"callback"}
    BY <1>2 DEF Write, ReadOther, RpcFails, ModeWait, AttachWait, Send, PumpOther, PumpWaiting
  <2> QED  BY <2>1 DEF Alive
<1>6. CASE ReadResponse
  <2>1. PICK m : mismatched' = (mismatched \/ ~m.current) /\ UNCHANGED excuses
    BY <1>6 DEF ReadResponse, PumpResponse
  <2>2. mismatched => mismatched'
    BY <2>1
  <2> QED  BY <2>1, <2>2 DEF Alive
<1>3. CASE PumpFails
  BY <1>3 DEF PumpFails, PumpRaises, Alive
<1>4. CASE ModemServe
  <2>1. UNCHANGED <<mismatched, excuses>>
    BY <1>4, ModemServes DEF Service, Serve
  <2> QED  BY <2>1 DEF Alive
<1>5. CASE ModemMute \/ ModemSwallows \/ ModemSends \/ Permit \/ Assign \/ Noise \/ ModemCrash
  BY <1>5 DEF ModemMute, ModemSwallows, ModemSends, Permit, Assign, Noise, ModemCrash, Swallow,
              ModemSend, Indicate, clientVars, Alive
<1> QED  BY <1>1, <1>2, <1>3, <1>4, <1>5, <1>6, NextByConcern

\* What an answer tells the script becomes part of the session.
LEMMA AnswerKeepsSession ==
  ASSUME InOrder, Conversation, Session, ReadResponse PROVE Session'
<1> USE DEF AfterAttach, AfterIp, AfterDns, AfterRoute, AfterSetup, IpReq, SetupReq
<1>1. /\ UNCHANGED <<assigned, channel, excuses>>
      /\ \E m, v : Takes(m, v) /\ (~mismatched' => Trusted(m, v))
  BY TakenAnswer DEF Conversation, modemVars
<1>2. PICK m, v : Takes(m, v) /\ (~mismatched' => Trusted(m, v))
  BY <1>1
<1>3. Alive' = Alive
  BY <1>1 DEF Alive
<1>4. handles \subseteq Handles
  BY DEF Session
<1>5. CASE at' \notin AfterIp /\ UNCHANGED handles
  BY <1>4, <1>5 DEF Session
<1>6. CASE v # Raises /\ OnIp(v)
  <2>1. /\ at = IpReq /\ at' = "UtaMsCallPsGetNegotiatedDnsReq" /\ ip_addr' = picked(v)
        /\ UNCHANGED handles
    BY <1>6 DEF OnIp
  <2>2. ~mismatched' /\ Alive' /\ ip_addr' # NoAddress => assigned' = ip_addr'
    BY <1>1, <1>2, <1>3, <2>1 DEF Trusted, Means
  <2> QED  BY <1>4, <2>1, <2>2 DEF Session
<1>7. CASE OnDns
  <2>1. /\ at = "UtaMsCallPsGetNegotiatedDnsReq"
        /\ at' = IF ip_addr = NoAddress THEN IpReq ELSE "flush"
        /\ UNCHANGED <<handles, ip_addr>>
    BY <1>7 DEF OnDns, Go
  <2>2. ~mismatched' /\ Alive' /\ ip_addr' # NoAddress => assigned' = ip_addr'
    BY <1>1, <1>2, <1>3, <2>1 DEF Trusted, Session
  <2> QED  BY <1>4, <2>1, <2>2 DEF Session
<1>8. CASE OnConnect(m)
  <2>1. /\ at = "UtaMsCallPsConnectReq" /\ at' = "UtaRPCPsConnectToDatachannelReq"
        /\ handles' = (IF m.of = at /\ m.current THEN handles \cup {at} ELSE handles)
        /\ UNCHANGED ip_addr
    BY <1>8 DEF OnConnect, OnHandle
  <2>2. ~mismatched' /\ Alive' /\ ip_addr' # NoAddress => assigned' = ip_addr'
    BY <1>1, <1>2, <1>3, <2>1 DEF Trusted, Session
  <2>3. ~mismatched' => "UtaMsCallPsConnectReq" \in handles'
    BY <1>2, <2>1 DEF Trusted
  <2>4. handles' \subseteq Handles
    BY <1>4, <2>1 DEF Handles
  <2>5. ip_addr' # NoAddress
    BY <2>1 DEF Session
  <2> QED  BY <2>1, <2>2, <2>3, <2>4, <2>5 DEF Session
<1>9. CASE OnDatachannel(m)
  <2>1. /\ at = "UtaRPCPsConnectToDatachannelReq" /\ at' = SetupReq
        /\ handles' = (IF m.of = at /\ m.current THEN handles \cup {at} ELSE handles)
        /\ UNCHANGED ip_addr
    BY <1>9 DEF OnDatachannel, OnHandle
  <2>2. ~mismatched' /\ Alive' /\ ip_addr' # NoAddress => assigned' = ip_addr'
    BY <1>1, <1>2, <1>3, <2>1 DEF Trusted, Session
  <2>3. ~mismatched' => Handles \subseteq handles'
    BY <1>2, <2>1 DEF Trusted, Session, Handles
  <2>4. handles' \subseteq Handles
    BY <1>4, <2>1 DEF Handles
  <2>5. ip_addr' # NoAddress
    BY <2>1 DEF Session
  <2> QED  BY <2>1, <2>2, <2>3, <2>4, <2>5 DEF Session
<1>10. CASE OnSetup
  <2>1. /\ at = SetupReq /\ at' \in {"get_connections", "exit"}
        /\ UNCHANGED <<handles, ip_addr>>
    BY <1>10 DEF OnSetup, Go, End
  <2>2. ~mismatched' /\ Alive' /\ ip_addr' # NoAddress => assigned' = ip_addr'
    BY <1>1, <1>2, <1>3, <2>1 DEF Trusted, Session
  <2>3. ~mismatched' => Handles \subseteq handles
    BY <1>2, <2>1 DEF Trusted, Session
  <2>4. ~mismatched' /\ Alive' => channel'
    BY <1>1, <1>2, <1>3, <1>4, <2>1, <2>3 DEF Trusted, Means
  <2>5. ip_addr' # NoAddress
    BY <2>1 DEF Session
  <2> QED  BY <1>4, <2>1, <2>2, <2>3, <2>4, <2>5 DEF Session
<1> QED
  BY <1>2, <1>5, <1>6, <1>7, <1>8, <1>9, <1>10, WhereAnswersLead

\* The script keeps it, and so does the modem while it lives.
LEMMA SessionIsInductive ==
  ASSUME InOrder, Conversation, OneCall, Session, [Next]_vars PROVE Session'
<1>1. CASE ReadResponse
  BY <1>1, AnswerKeepsSession
<1> SUFFICES ASSUME ~ReadResponse PROVE Session'
  BY <1>1
<1>2. handles' \subseteq Handles
  <2>1. handles' \in {handles, {}}
    <3>1. CASE Offline
      BY <3>1, OfflineIsQuiet
    <3>2. CASE ModemServe
      BY <3>2, ModemServes DEF scriptVars
    <3>3. CASE Start \/ Killed \/ Exit \/ Reload \/ Write \/ ReadOther \/ PumpFails \/ RpcFails
               \/ ModeWait \/ AttachWait
      BY <3>3 DEF Start, Killed, Exit, Gone, Reload, Write, ReadOther, PumpFails, RpcFails,
                  ModeWait, AttachWait, Continue, End, Go, scriptVars
    <3>4. CASE ModemMute \/ ModemSwallows \/ ModemSends \/ Permit \/ Assign \/ Noise
               \/ ModemCrash \/ UserDeletes \/ Meddle \/ UNCHANGED vars
      BY <3>4 DEF ModemMute, ModemSwallows, ModemSends, Permit, Assign, Noise, ModemCrash,
                  UserDeletes, Meddle, ModemIdle, vars, scriptVars
    <3> QED  BY <3>1, <3>2, <3>3, <3>4, NextByConcern
  <2> QED  BY <2>1 DEF Session
<1>3. CASE at' \notin AfterIp
  BY <1>2, <1>3 DEF Session, AfterIp, AfterDns, AfterRoute
<1> SUFFICES ASSUME at' \in AfterIp PROVE Session'
  BY <1>3
<1>4. at' \in AfterAttach
  BY DEF AfterAttach
<1>5. /\ (UNCHANGED at) \/ Offline
      /\ ~(Start \/ Killed \/ Exit \/ Reload \/ PumpFails \/ RpcFails \/ ModeWait)
  BY <1>4, StepsAfterAttach
<1>6. /\ at \in AfterIp /\ (at' \in AfterDns => at \in AfterDns)
      /\ at' \in AfterSetup => at \in AfterSetup
      /\ at' = at \/ at' \notin {"UtaRPCPsConnectToDatachannelReq", SetupReq}
  BY <1>4, <1>5, OfflineSteps DEF AfterIp, AfterDns, AfterRoute, AfterSetup, SetupReq
<1>7. UNCHANGED <<ip_addr, handles>>
  <2>1. CASE Offline
    BY <1>4, <2>1, OfflineSteps, OfflineIsQuiet
  <2>2. CASE ModemServe
    BY <2>2, ModemServes DEF scriptVars
  <2>3. CASE Write \/ ReadOther \/ AttachWait
             \/ ModemMute \/ ModemSwallows \/ ModemSends \/ Permit \/ Assign \/ Noise
             \/ ModemCrash \/ UserDeletes \/ Meddle \/ UNCHANGED vars
    BY <2>3 DEF Write, ReadOther, AttachWait, ModemMute, ModemSwallows, ModemSends, Permit,
                Assign, Noise, ModemCrash, UserDeletes, Meddle, ModemIdle, vars, scriptVars
  <2> QED  BY <1>5, <2>1, <2>2, <2>3, NextByConcern
<1>8. (~mismatched' => ~mismatched) /\ (Alive' => Alive)
  BY <1>5, MistakesStay
<1>9. ~mismatched /\ Alive' =>
        /\ UNCHANGED assigned \/ assigned = NoAddress
        /\ at \in AfterSetup => UNCHANGED channel
  BY <1>5, <1>6, ModemKeepsSession
<1>10. ~mismatched' /\ Alive' /\ ip_addr' # NoAddress => assigned' = ip_addr'
  BY <1>6, <1>7, <1>8, <1>9 DEF Session
<1>11. at' \in AfterSetup /\ ~mismatched' /\ Alive' => channel'
  BY <1>6, <1>8, <1>9 DEF Session
<1>12. /\ at' \in AfterDns => ip_addr' # NoAddress
       /\ at' = "UtaRPCPsConnectToDatachannelReq" /\ ~mismatched' =>
            "UtaMsCallPsConnectReq" \in handles'
       /\ at' \in {SetupReq} \cup AfterSetup /\ ~mismatched' => Handles \subseteq handles'
  BY <1>6, <1>7, <1>8 DEF Session
<1> QED  BY <1>2, <1>10, <1>11, <1>12 DEF Session

\* wwan0 and the profile: each step of the script leaves them as the next one
\* wants them, and nobody else touches them meanwhile.
LEMMA InterfaceIsInductive ==
  ASSUME InOrder, AddedToNone, Interface, [Next]_vars PROVE Interface'
<1> USE DEF AfterAttach, AfterIp, AfterDns, AfterRoute, AfterSetup, IpReq, SetupReq
<1>1. CASE at' \notin AfterDns
  BY <1>1 DEF Interface
<1> SUFFICES ASSUME at' \in AfterDns PROVE Interface'
  BY <1>1
<1>2. CASE ReadResponse
  <2>1. UNCHANGED <<addrs, routed, meddled, profiles>>
    BY <1>2 DEF ReadResponse, hostVars, nmVars
  <2>2. PICK m, v : Takes(m, v)
    BY <1>2, Zenon DEF ReadResponse, Takes
  <2>3. OnDns \/ OnConnect(m) \/ OnDatachannel(m) \/ OnSetup
    BY <2>2, WhereAnswersLead DEF OnIp
  <2>4. CASE OnDns
    BY <2>1, <2>4 DEF OnDns, Go, Interface
  <2>5. CASE OnConnect(m) \/ OnDatachannel(m)
    BY <2>1, <2>5 DEF OnConnect, OnDatachannel, OnHandle, Interface
  <2>6. CASE OnSetup
    BY <2>1, <2>6 DEF OnSetup, Go, End, Interface
  <2> QED  BY <2>3, <2>4, <2>5, <2>6
<1>3. CASE Flush \/ LinkUp
  BY <1>3 DEF Flush, LinkUp, HostStep, Go, Interface
<1>4. CASE AddAddress
  <2>1. /\ at = "addr" /\ addrs' = addrs \cup {ip_addr} /\ at' \in {"exit", "route"}
        /\ UNCHANGED <<ip_addr, routed, meddled>>
    BY <1>4 DEF AddAddress, Go, End
  <2> QED  BY <2>1 DEF Interface
<1>5. CASE AddRoute
  <2>1. /\ at = "route" /\ at' \in {"exit", "UtaMsCallPsConnectReq"}
        /\ routed' = (routed \/ ~nodefaultroute)
        /\ UNCHANGED <<ip_addr, addrs, meddled>>
    BY <1>5 DEF AddRoute, Go, End
  <2>2. routed' \/ nodefaultroute
    BY <2>1
  <2> QED  BY <2>1, <2>2 DEF Interface
<1>6. CASE GetConnections
  <2>1. /\ at = "get_connections" /\ at' \in {"add_connection", "update_connection"}
        /\ UNCHANGED <<ip_addr, addrs, routed, meddled>>
    BY <1>6 DEF GetConnections, NmStep, Go, hostVars
  <2> QED  BY <2>1 DEF Interface
<1>7. CASE UpdateConnection
  <2>1. /\ at = "update_connection" /\ at' = "activate"
        /\ UNCHANGED <<ip_addr, addrs, routed, meddled>>
    BY <1>7 DEF UpdateConnection, NmStep, Go, hostVars
  <2>2. Activatable' => profiles'[connection_path'] = ip_addr'
    BY <1>7, <2>1 DEF UpdateConnection, update_connection, Activatable, nmVars
  <2> QED  BY <2>1, <2>2 DEF Interface
<1>8. CASE AddConnection
  <2>1. /\ at = "add_connection" /\ at' = "get_connections_again"
        /\ UNCHANGED <<ip_addr, addrs, routed, meddled>>
    BY <1>8 DEF AddConnection, NmStep, Go, hostVars
  <2>2. /\ DOMAIN profiles = {}
        /\ profiles' = [p \in DOMAIN profiles \cup {paths'} |->
                          IF p = paths' THEN ip_addr ELSE profiles[p]]
    BY <1>8, <2>1 DEF AddConnection, add_connection, AddedToNone
  <2>3. \A p \in DOMAIN profiles' : profiles'[p] = ip_addr'
    BY <2>1, <2>2
  <2> QED  BY <2>1, <2>3 DEF Interface
<1>9. CASE GetConnectionsAgain
  <2>1. /\ at = "get_connections_again" /\ at' = "activate"
        /\ UNCHANGED <<ip_addr, addrs, routed, meddled, profiles>>
    BY <1>9 DEF GetConnectionsAgain, get_connections, NmStep, Go, hostVars
  <2>2. Activatable' => profiles'[connection_path'] = ip_addr'
    BY <2>1 DEF Interface, Activatable
  <2> QED  BY <2>1, <2>2 DEF Interface
<1>10. CASE Activate \/ ActivateFails \/ HostFails
  BY <1>10 DEF Activate, ActivateFails, HostFails, End
<1>11. CASE UserDeletes
  <2>1. UNCHANGED <<at, ip_addr, addrs, routed, meddled, connection_path>>
    BY <1>11 DEF UserDeletes, delete_profile, scriptVars, hostVars
  <2>2. /\ DOMAIN profiles' \subseteq DOMAIN profiles
        /\ \A p \in DOMAIN profiles' : profiles'[p] = profiles[p]
    BY <1>11 DEF UserDeletes, delete_profile
  <2> QED  BY <2>1, <2>2 DEF Interface, Activatable
<1>12. ASSUME UNCHANGED <<at, ip_addr, addrs, routed, meddled, profiles, connection_path>>
       PROVE  Interface'
  BY <1>12 DEF Interface, Activatable
<1>13. CASE ModemServe
  BY <1>12, <1>13, ModemServes DEF scriptVars, hostVars, nmVars
<1>14. CASE Write \/ ReadOther \/ AttachWait
            \/ ModemMute \/ ModemSwallows \/ ModemSends \/ Permit \/ Assign \/ Noise
            \/ ModemCrash \/ UNCHANGED vars
  BY <1>12, <1>14 DEF Write, ReadOther, AttachWait, ModemMute, ModemSwallows, ModemSends,
                      Permit, Assign, Noise, ModemCrash, ModemIdle, vars, scriptVars,
                      hostVars, nmVars
<1>15. CASE Meddle
  <2>1. addrs \subseteq addrs' /\ UNCHANGED <<at, ip_addr, profiles, connection_path>>
    BY <1>15 DEF Meddle, EnsureRoute, NmConfigures, scriptVars, nmVars
  <2>2. meddled'
    BY <1>15 DEF Meddle
  <2>3. routed' = TRUE \/ routed' = routed
    BY <1>15, Zenon DEF Meddle, EnsureRoute, NmConfigures
  <2>4. routed => routed'
    BY <2>3, Zenon
  <2> QED  BY <2>1, <2>2, <2>4 DEF Interface, Activatable
<1>16. ~(AttachAgain \/ LinkDown \/ Other \/ StartRefused)
  BY DEF AttachAgain, LinkDown, Other, StartRefused, Attempt, scriptVars
<1>17. ~(Start \/ Killed \/ Exit \/ Reload \/ PumpFails \/ RpcFails \/ ModeWait)
  BY InitCallsComeFirst DEF Start, Killed, Exit, Gone, Reload, PumpFails, RpcFails, ModeWait,
                            Continue, End, Go, scriptVars
<1> QED
  BY <1>2, <1>3, <1>4, <1>5, <1>6, <1>7, <1>8, <1>9, <1>10, <1>11, <1>13, <1>14, <1>15, <1>16,
     <1>17,
     NextByConcern, Zenon DEF Offline, OnProfiles

\* All of it together holds of every state.
LEMMA SessionHolds == Spec => [](OneCall /\ Session /\ Interface)
<1> DEFINE IInv == OneCall /\ Session /\ Interface
<1>1. Init => IInv
  <2> SUFFICES ASSUME Init PROVE IInv
    OBVIOUS
  <2>1. at = "off" /\ handles = {}
    BY DEF Init
  <2> QED
    BY <2>1 DEF OneCall, Session, Interface, AfterAttach, AfterIp, AfterDns, AfterRoute,
                AfterSetup, IpReq, SetupReq
<1>2. IInv /\ InOrder /\ Conversation /\ AddedToNone /\ [Next]_vars => IInv'
  BY OneCallIsInductive, SessionIsInductive, InterfaceIsInductive
<1> QED
  BY <1>1, <1>2, ExchangesAreInOrder, ConversationHolds, ProfilesAreAddedToNone, PTL DEF Spec

\* Only the activation of the profile ends a run well.
LEMMA OnlyActivationSucceeds ==
  ASSUME [Next]_vars, at # "exit", at' = "exit", result' = "done" PROVE Activate
<1> USE DEF Go, End, Attempt, Continue
<1>1. ~ReadResponse
  <2> SUFFICES ASSUME ReadResponse PROVE FALSE
    OBVIOUS
  <2>1. PICK m, v : Takes(m, v)
    BY Zenon DEF ReadResponse, Takes
  <2>2. InitCalls[1] # "exit" /\ \A n \in ToSet(InitCalls) : AfterInit(n) # "exit"
    BY InitCallsArePauseFree, AfterInitIsNoPause DEF Pauses
  <2>3. CASE v = Raises
    BY <2>1, <2>2, <2>3 DEF Takes
  <2>4. CASE OnQuery(v) \/ OnChallenge \/ OnVerify(v) \/ OnInit
    BY <2>2, <2>4 DEF OnQuery, OnChallenge, OnVerify, OnInit, Unlocked
  <2>5. CASE OnModeSet(v) \/ OnApn \/ OnAttach(v) \/ OnIp(v) \/ OnDns
    BY <2>5 DEF OnModeSet, OnApn, OnAttach, OnIp, OnDns
  <2>6. CASE OnConnect(m) \/ OnDatachannel(m) \/ OnSetup
    BY <2>6 DEF OnConnect, OnDatachannel, OnHandle, OnSetup
  <2> QED  BY <2>1, <2>3, <2>4, <2>5, <2>6 DEF Takes
<1>2. InitCalls[1] # "exit"
  BY InitCallsArePauseFree DEF Pauses
<1>3. ~(Start \/ Killed \/ Exit \/ Reload \/ PumpFails \/ RpcFails \/ ModeWait)
  BY <1>2 DEF Start, Killed, Exit, Gone, Reload, PumpFails, RpcFails, ModeWait, scriptVars
<1>4. ~(Write \/ ReadOther \/ AttachWait \/ ModemMute \/ ModemSwallows \/ ModemSends
        \/ Permit \/ Assign \/ Noise \/ ModemCrash \/ UserDeletes \/ Meddle \/ UNCHANGED vars)
  BY DEF Write, ReadOther, AttachWait, ModemMute, ModemSwallows, ModemSends, Permit, Assign,
         Noise, ModemCrash, UserDeletes, Meddle, ModemIdle, vars, scriptVars
<1>5. ~ModemServe
  BY ModemServes DEF scriptVars
<1>6. CASE Offline
  <2>1. ~(Flush \/ LinkUp \/ AddAddress \/ AddRoute \/ AttachAgain \/ HostFails
          \/ LinkDown \/ Other \/ StartRefused)
    BY DEF Flush, LinkUp, AddAddress, AddRoute, AttachAgain, HostFails, HostStep, LinkDown, Other,
           StartRefused, scriptVars
  <2>2. ~(GetConnections \/ UpdateConnection \/ AddConnection \/ GetConnectionsAgain
          \/ ActivateFails)
    BY DEF GetConnections, UpdateConnection, AddConnection, GetConnectionsAgain, ActivateFails,
           NmStep
  <2> QED  BY <1>6, <2>1, <2>2 DEF Offline, OnProfiles
<1> QED  BY <1>1, <1>3, <1>4, <1>5, <1>6, NextByConcern

\* A run that ends well has brought up the session it was assigned: its last
\* step finds wwan0 and the profile with the address the network assigned in
\* this session, and the data channel set up with this session's handles,
\* although none of the steps that saw to these is repeated or checked there.
\* What NetworkManager and fibocom-l850-ctl add in between takes none of it
\* away (wwan0 may have another address then).
THEOREM HostGetsSession == Spec => HostMatchesSession
<1> DEFINE Ends == at # "exit" /\ at' = "exit" /\ result' = "done" /\ ~mismatched /\ Alive
          Match == /\ assigned \in addrs /\ assigned # NoAddress
                   /\ addrs = {assigned} \/ meddled
                   /\ routed \/ nodefaultroute
                   /\ channel
                   /\ profiles[connection_path] = assigned
<1>1. ASSUME Session, Interface, [Next]_vars, Ends PROVE Match
  <2>1. at = "activate" /\ Activatable
    BY <1>1, OnlyActivationSucceeds DEF Activate
  <2>2. at \in AfterSetup /\ at \in AfterRoute /\ at \in AfterDns /\ at \in AfterIp
    BY <2>1 DEF AfterSetup, AfterRoute, AfterDns, AfterIp
  <2> QED  BY <1>1, <2>1, <2>2 DEF Session, Interface
<1>2. Session /\ Interface /\ [Next]_vars => [Ends => Match]_vars
  BY <1>1
<1> QED  BY <1>2, SessionHolds, PTL DEF Spec, HostMatchesSession

-----------------------------------------------------------------------------
(* Types.                                                                   *)

ClientTyped ==
  /\ call \in Calls \cup {NoCall}
  /\ attach_allowed \in BOOLEAN /\ mismatched \in BOOLEAN
  /\ excuses \subseteq Excuses /\ Room(0) /\ noise \in 0..MaxNoise
ScriptTyped ==
  /\ at \in Steps /\ early \in BOOLEAN /\ attempt \in {1, 2}
  /\ ip_addr \in Addresses \cup {NoAddress, "v6"}
WorldTyped ==
  /\ <<lock, mute>> \in Locks /\ assigned \in Addresses \cup {NoAddress}
  /\ connection_path \in 0..paths

\* get_ip picks an address or none from any answer of the modem's.
AddressAnswers ==
  \A m \in Msgs : m.of = IpReq => picked(m.v) \in Addresses \cup {NoAddress}

\* What the modem owes and has sent stays within the bound.
LEMMA RoomIsKept ==
  ASSUME InOrder, Room(0), [Next]_vars PROVE Room(0)'
<1>0. Tidy /\ Len(owed) \in Nat /\ Len(inbox) \in Nat /\ Len(<<>>) = 0 /\ MaxMessages \in Nat
  BY SeqLen, BoundsAssumption DEF InOrder, Tidy, AreMessages, BoundsAssumption
<1> USE DEF Room
<1>1. ASSUME Len(owed') \in {0, Len(owed)}, Len(inbox') \in {0, Len(inbox), Len(inbox) - 1}
      PROVE  Room(0)'
  BY <1>0, <1>1
<1>2. CASE Offline \/ UserDeletes \/ Meddle \/ UNCHANGED vars
  <2>1. UNCHANGED clientVars
    BY <1>2, OfflineIsQuiet DEF UserDeletes, Meddle, vars
  <2> QED  BY <1>1, <2>1 DEF clientVars
<1>3. CASE Start \/ Killed \/ Exit \/ Reload \/ RpcFails \/ Assign \/ ModemCrash
           \/ ModemMute \/ ModemSwallows
  <2>1. owed' \in {owed, <<>>} /\ inbox' \in {inbox, <<>>}
    BY <1>3 DEF Start, Connect, Killed, Exit, Gone, Disconnect, Reload, RpcFails, Assign,
                ModemCrash, ModemMute, ModemSwallows, Swallow, clientVars
  <2> QED  BY <1>0, <1>1, <2>1
<1>4. CASE Write
  BY <1>0, <1>1, <1>4, SendLength DEF Write
<1>5. CASE ReadOther \/ ReadResponse \/ ModeWait \/ AttachWait
  <2>1. PICK m : Pump(m)
    BY <1>5 DEF ReadOther, ReadResponse, ModeWait, AttachWait, PumpOther, PumpResponse,
                PumpWaiting
  <2> QED  BY <1>0, <1>1, <2>1, PumpSet DEF Pump
<1>6. CASE PumpFails
  <2>1. PumpRaises(EarlyFcc)
    BY <1>6 DEF PumpFails
  <2> QED  BY <1>0, <1>1, <2>1, PumpRaisesSet DEF PumpRaises
<1>7. CASE ModemServe
  <2>1. PICK req, v, also : Service(req, v, also)
    BY <1>7, ModemServes
  <2>2. Serve(req, v, also) /\ Len(owed) + Len(inbox) + 2 <= MaxMessages /\ UNCHANGED inbox
    BY <2>1 DEF Service, Serve
  <2>3. IsSeq(also) /\ Len(also) + (IF IsAsync(req.name) THEN 1 ELSE 0) \in {0, 1}
    <3>1. CASE also = <<>>
      BY <1>0, <3>1, NothingSent DEF AreMessages
    <3>2. CASE also # <<>>
      <4>1. PICK w : also = <<ModeSetRspCb(w)>>
        BY <2>1, <3>2 DEF Service
      <4>2. also \in Seq({ModeSetRspCb(w)}) /\ Len(also) = 1
        BY <4>1
      <4>3. ~IsAsync(req.name)
        BY <2>1, <3>2 DEF Service, IsAsync
      <4> QED  BY <4>2, <4>3, IsSeqOf
    <3> QED  BY <3>1, <3>2
  <2>4. Len(also) \in Nat
    BY <2>3, SeqLen
  <2>5. Len(owed') = Len(owed) + (IF IsAsync(req.name) THEN 1 ELSE 0) + 1 + Len(also)
    BY <1>0, <2>2, <2>3, ServeLength
  <2>6. PICK acks \in {0, 1} : acks = IF IsAsync(req.name) THEN 1 ELSE 0
    OBVIOUS
  <2>7. Len(also) + acks \in {0, 1} /\ Len(owed') = Len(owed) + acks + 1 + Len(also)
    BY <2>3, <2>5, <2>6
  <2>8. Len(owed') + Len(inbox') <= Len(owed) + Len(inbox) + 2
    BY <1>0, <2>2, <2>4, <2>7
  <2> QED  BY <1>0, <2>2, <2>4, <2>7, <2>8
<1>8. CASE ModemSends
  <2>1. Len(owed') + Len(inbox') = Len(owed) + Len(inbox)
    BY <1>0, <1>8, ModemSendSet DEF ModemSends
  <2>2. Tidy' /\ Len(owed') \in Nat /\ Len(inbox') \in Nat
    BY <1>0, <1>8, ModemSendIsOrderly, SeqLen DEF ModemSends, Tidy, AreMessages
  <2> QED  BY <1>0, <2>1, <2>2
<1>9. CASE Permit \/ Noise
  <2>1. CASE UNCHANGED clientVars
    BY <1>1, <2>1 DEF clientVars
  <2>2. ASSUME NEW m, Indicate(m) PROVE Room(0)'
    <3>1. /\ Len(inbox') = Len(inbox) + 1 /\ UNCHANGED owed
          /\ Len(owed) + Len(inbox) + 1 <= MaxMessages
      BY <1>0, <2>2, IndicateSet DEF Indicate
    <3> QED  BY <1>0, <3>1
  <2> QED  BY <1>9, <2>1, <2>2 DEF Permit, Noise
<1> QED
  BY <1>2, <1>3, <1>4, <1>5, <1>6, <1>7, <1>8, <1>9, NextByConcern

\* The client and the modem's messages.
LEMMA ClientIsTyped ==
  ASSUME InOrder, ClientTyped, ScriptTyped, [Next]_vars PROVE ClientTyped'
<1> USE DEF ClientTyped
<1>1. Room(0)'
  BY RoomIsKept
<1>2. ASSUME call' \in {call, NoCall} \/ call' \in Calls,
             attach_allowed' \in BOOLEAN, mismatched' \in BOOLEAN,
             excuses' \subseteq excuses \cup Excuses, noise' \in 0..MaxNoise
      PROVE  ClientTyped'
  BY <1>1, <1>2
<1>3. CASE Offline \/ UserDeletes \/ Meddle \/ UNCHANGED vars
  <2>1. UNCHANGED clientVars
    BY <1>3, OfflineIsQuiet DEF UserDeletes, Meddle, vars
  <2> QED  BY <1>2, <2>1 DEF clientVars
<1>4. CASE Start \/ Killed \/ Exit \/ Reload \/ RpcFails
  BY <1>2, <1>4 DEF Start, Connect, Killed, Exit, Gone, Disconnect, Reload, RpcFails, Excuses
<1>5. CASE Write
  BY <1>2, <1>5 DEF Write, Send
<1>6. CASE ReadOther \/ ReadResponse \/ ModeWait \/ AttachWait
  <2>1. PICK m : /\ Pump(m)
                 /\ call' \in {call, NoCall} /\ excuses' \subseteq excuses \cup {"callback"}
                 /\ mismatched' = mismatched \/ mismatched' = (mismatched \/ ~m.current)
    BY <1>6 DEF ReadOther, ReadResponse, ModeWait, AttachWait, PumpOther, PumpResponse,
                PumpWaiting
  <2>2. mismatched' \in BOOLEAN
    BY <2>1
  <2>3. attach_allowed' \in BOOLEAN /\ UNCHANGED noise
    BY <2>1 DEF Pump, Allowed
  <2> QED  BY <1>2, <2>1, <2>2, <2>3 DEF Excuses
<1>7. CASE PumpFails
  BY <1>2, <1>7 DEF PumpFails, PumpRaises, Excuses
<1>8. CASE ModemServe
  BY <1>2, <1>8, ModemServes DEF Service, Serve
<1>9. CASE ModemMute \/ ModemSwallows \/ ModemSends \/ Assign \/ ModemCrash
  BY <1>2, <1>9 DEF ModemMute, ModemSwallows, ModemSends, Assign, ModemCrash, Swallow,
                    ModemSend, clientVars, Excuses
<1>10. CASE Permit
  <2>1. AttachAllowedInd(Yes) # Malformed
    BY DEF AttachAllowedInd, Malformed, Indication, Yes, Garbage
  <2>2. UNCHANGED <<call, attach_allowed, mismatched, excuses, noise>>
    BY <1>10, <2>1 DEF Permit, Indicate, clientVars
  <2> QED  BY <1>2, <2>2
<1>11. CASE Noise
  <2>1. noise' \in {noise, noise + 1} /\ noise < MaxNoise
    BY <1>11 DEF Noise, Indicate
  <2>2. noise' \in 0..MaxNoise
    BY <2>1, BoundsAssumption DEF BoundsAssumption
  <2> QED  BY <1>2, <1>11, <2>2 DEF Noise, Indicate
<1> QED
  BY <1>3, <1>4, <1>5, <1>6, <1>7, <1>8, <1>9, <1>10, <1>11, NextByConcern

\* No message under way says otherwise.
LEMMA AddressAnswersIsInductive ==
  ASSUME InOrder, AddressAnswers, WorldTyped, [Next]_vars PROVE AddressAnswers'
<1>0. Tidy
  BY DEF InOrder
<1>1. ASSUME \A m \in Msgs' \ Msgs : m.of # IpReq PROVE AddressAnswers'
  BY <1>1 DEF AddressAnswers
<1>2. CASE Offline \/ UserDeletes \/ Meddle \/ UNCHANGED vars
  <2>1. UNCHANGED clientVars
    BY <1>2, OfflineIsQuiet DEF UserDeletes, Meddle, vars
  <2> QED  BY <1>1, <2>1 DEF clientVars, Msgs
<1>3. CASE Start \/ Killed \/ Exit \/ Reload \/ RpcFails \/ Assign \/ ModemCrash
           \/ ModemMute \/ ModemSwallows
  <2>1. owed' \in {owed, <<>>} /\ inbox' \in {inbox, <<>>}
    BY <1>3 DEF Start, Connect, Killed, Exit, Gone, Disconnect, Reload, RpcFails, Assign,
                ModemCrash, ModemMute, ModemSwallows, Swallow, clientVars
  <2>2. ToSet(<<>>) = {}
    BY DEF ToSet
  <2> QED  BY <1>1, <2>1, <2>2 DEF Msgs
<1>4. CASE Write
  <2>1. ASSUME NEW n \in Msgs', n.of = IpReq PROVE picked(n.v) \in Addresses \cup {NoAddress}
    <3>1. PICK m \in Msgs : n = Old(m) /\ IsMessage(m)
      BY <1>0, <1>4, SendSet DEF Write
    <3>2. DOMAIN m = {"tid", "code", "of", "v", "current"}
      <4>1. m = [tid |-> m.tid, code |-> m.code, of |-> m.of, v |-> m.v,
                 current |-> m.current]
        BY <3>1 DEF IsMessage
      <4> QED  BY <4>1
    <3>3. n = [x \in DOMAIN m |-> IF x = "current" THEN FALSE ELSE m[x]]
      BY <3>1, Zenon DEF Old
    <3>4. n.of = m.of /\ n.v = m.v
      BY <3>2, <3>3
    <3> QED  BY <2>1, <3>4 DEF AddressAnswers
  <2> QED  BY <2>1 DEF AddressAnswers
<1>5. CASE ReadOther \/ ReadResponse \/ ModeWait \/ AttachWait
  <2>1. PICK m : Pump(m)
    BY <1>5 DEF ReadOther, ReadResponse, ModeWait, AttachWait, PumpOther, PumpResponse,
                PumpWaiting
  <2> QED  BY <1>0, <1>1, <2>1, PumpSet
<1>6. CASE PumpFails
  BY <1>0, <1>1, <1>6, PumpRaisesSet DEF PumpFails
<1>7. CASE ModemServe
  <2>1. PICK req, v, also : Service(req, v, also)
    BY <1>7, ModemServes
  <2>2. ASSUME NEW m \in Msgs' \ Msgs, m.of = IpReq
        PROVE  picked(m.v) \in Addresses \cup {NoAddress}
    <3>1. m = Response(req, v)
      BY <1>0, <2>1, <2>2, ServedMessages DEF IpReq, NoCall
    <3>2. m.v = IpValues
      BY <2>1, <2>2, <3>1 DEF Response, Service
    <3> QED  BY <3>2, PickedAddress DEF WorldTyped
  <2> QED  BY <2>2 DEF AddressAnswers
<1>8. CASE ModemSends
  BY <1>0, <1>1, <1>8, ModemSendSet DEF ModemSends
<1>9. CASE Permit \/ Noise
  <2>1. CASE UNCHANGED clientVars
    BY <1>1, <2>1 DEF clientVars, Msgs
  <2>2. ASSUME NEW m \in {AttachAllowedInd(Yes), Malformed}, Indicate(m) PROVE AddressAnswers'
    <3>1. m.of # IpReq
      BY <2>2 DEF AttachAllowedInd, Malformed, Indication, IpReq, NoCall
    <3> QED  BY <1>0, <1>1, <2>2, <3>1, IndicateSet
  <2> QED  BY <1>9, <2>1, <2>2 DEF Permit, Noise
<1> QED
  BY <1>2, <1>3, <1>4, <1>5, <1>6, <1>7, <1>8, <1>9, NextByConcern

\* Every step the script goes to is one of its steps.
LEMMA StepsAreTyped ==
  /\ {"CsiFccLockQueryReq", "CsiFccLockGenChallengeReq", "CsiFccLockVerChallengeReq",
      "UtaModeSetReq", "modeWait", "UtaMsCallPsAttachApnConfigReq", "UtaMsNetAttachReq",
      "attachWait", IpReq, "UtaMsCallPsGetNegotiatedDnsReq", "flush", "link", "addr", "route",
      "UtaMsCallPsConnectReq", "UtaRPCPsConnectToDatachannelReq", SetupReq,
      "get_connections", "update_connection", "add_connection", "get_connections_again",
      "activate", "exit", "off"} \subseteq Steps
  /\ InitCalls[1] \in Steps
  /\ \A name \in ToSet(InitCalls) : AfterInit(name) \in Steps
<1>1. InitCalls \in Seq(STRING \ (Pauses \cup NamedCalls \cup {NoCall})) /\ InitCalls # <<>>
  BY InitAssumption DEF InitAssumption
<1>2. Len(InitCalls) \in Nat \ {0} /\ DOMAIN InitCalls = 1..Len(InitCalls)
  BY <1>1
<1>3. ToSet(InitCalls) = {InitCalls[i] : i \in 1..Len(InitCalls)}
  BY <1>2 DEF ToSet
<1>4. \A i \in 1..Len(InitCalls) : InitCalls[i] \in Steps
  BY <1>3 DEF Steps, Calls
<1>5. ASSUME NEW name \in ToSet(InitCalls) PROVE AfterInit(name) \in Steps
  <2>1. CASE name = Last(InitCalls)
    BY <2>1 DEF AfterInit, Steps, Calls, NamedCalls
  <2>2. CASE name # Last(InitCalls)
    <3>1. PICK j \in 1..Len(InitCalls) : name = InitCalls[j]
      BY <1>3
    <3>2. j + 1 \in 2..Len(InitCalls) /\ InitCalls[(j + 1) - 1] = name
      BY <1>2, <2>2, <3>1 DEF Last
    <3>3. (CHOOSE i \in 2..Len(InitCalls) : InitCalls[i - 1] = name) \in 2..Len(InitCalls)
      BY <3>2
    <3>4. (CHOOSE i \in 2..Len(InitCalls) : InitCalls[i - 1] = name) \in 1..Len(InitCalls)
      BY <1>2, <3>3
    <3> QED  BY <1>4, <2>2, <3>4 DEF AfterInit
  <2> QED  BY <2>1, <2>2
<1> QED  BY <1>2, <1>4, <1>5 DEF Steps, Calls, NamedCalls, Pauses, IpReq, SetupReq

\* The script: every way on leads to one of its steps.
LEMMA ScriptIsTyped ==
  ASSUME InOrder, Conversation, ScriptTyped, AddressAnswers, [Next]_vars PROVE ScriptTyped'
<1> USE DEF ScriptTyped
<1>1. ASSUME at' \in Steps, early' \in {early, TRUE, FALSE}, attempt' \in {attempt, 1, 2},
             ip_addr' \in {ip_addr, NoAddress} \/ ip_addr' \in Addresses
      PROVE  ScriptTyped'
  BY <1>1
<1>2. ASSUME UNCHANGED scriptVars PROVE ScriptTyped'
  BY <1>2 DEF scriptVars
<1>3. ASSUME NEW step \in Steps, Go(step) PROVE ScriptTyped'
  BY <1>3 DEF Go
<1>4. ASSUME NEW how, End(how) PROVE ScriptTyped'
  BY <1>4, StepsAreTyped DEF End
<1>5. ASSUME NEW step \in Steps, NEW n \in {1, 2}, Attempt(n, step) PROVE ScriptTyped'
  BY <1>5 DEF Attempt
<1>6. ASSUME Continue PROVE ScriptTyped'
  BY <1>6, StepsAreTyped DEF Continue
<1>7. CASE Start \/ StartRefused \/ Killed \/ Exit
  BY <1>7, StepsAreTyped DEF Start, StartRefused, Killed, Exit, Gone
<1>8. CASE PumpFails \/ RpcFails
  BY <1>4, <1>6, <1>8 DEF PumpFails, RpcFails
<1>9. CASE ReadResponse
  <2>1. PICK m, v : Takes(m, v) /\ m \in Msgs /\ v \in Values(m)
    BY <1>9, TakenAnswer DEF Conversation
  <2>2. CASE v = Raises
    BY <1>4, <1>6, <2>1, <2>2 DEF Takes
  <2>3. CASE OnQuery(v) \/ OnChallenge \/ OnInit
    BY <1>3, <1>5, <1>6, <2>3, StepsAreTyped DEF OnQuery, OnChallenge, OnInit, Unlocked
  <2>4. CASE OnVerify(v)
    <3>1. CASE Unlocked \/ Continue \/ End("failed")
      BY <1>3, <1>4, <1>6, <3>1, StepsAreTyped DEF Unlocked
    <3>2. CASE attempt < Len(Keys) /\ Attempt(attempt + 1, at)
      <4>1. attempt + 1 \in {1, 2}
        BY <3>2 DEF Keys
      <4> QED  BY <1>5, <3>2, <4>1
    <3> QED  BY <2>4, <3>1, <3>2 DEF OnVerify
  <2>5. CASE OnModeSet(v) \/ OnApn \/ OnAttach(v)
    BY <1>3, <1>4, <1>5, <2>5, StepsAreTyped DEF OnModeSet, OnApn, OnAttach, IpReq
  <2>6. CASE v # Raises /\ OnIp(v)
    <3>1. /\ at = IpReq /\ ip_addr' = picked(v) /\ at' = "UtaMsCallPsGetNegotiatedDnsReq"
          /\ UNCHANGED <<early, attempt>>
      BY <2>6 DEF OnIp, IpReq
    <3>2. m.of = IpReq /\ v = m.v
      BY <2>1, <2>6, <3>1 DEF Values, Misread, IpReq
    <3>3. ip_addr' \in Addresses \cup {NoAddress}
      BY <2>1, <3>1, <3>2 DEF AddressAnswers
    <3> QED  BY <1>1, <3>1, <3>3, StepsAreTyped
  <2>7. CASE OnDns
    BY <1>3, <2>7, StepsAreTyped DEF OnDns, IpReq
  <2>8. CASE OnConnect(m) \/ OnDatachannel(m)
    BY <2>8, StepsAreTyped DEF OnConnect, OnDatachannel, OnHandle, SetupReq
  <2>9. CASE OnSetup
    BY <1>3, <1>4, <2>9, StepsAreTyped DEF OnSetup
  <2> QED  BY <2>1, <2>2, <2>3, <2>4, <2>5, <2>6, <2>7, <2>8, <2>9 DEF Takes
<1>10. CASE ModeWait
  <2>1. PICK m : CASE m.code # UtaModeSetRspCb -> Go(at)
                   [] m.code = UtaModeSetRspCb /\ m.v = Yes ->
                        Go("UtaMsCallPsAttachApnConfigReq")
                   [] m.code = UtaModeSetRspCb /\ m.v # Yes -> End("failed")
    BY <1>10 DEF ModeWait
  <2>2. Go(at) \/ Go("UtaMsCallPsAttachApnConfigReq") \/ End("failed")
    BY <2>1
  <2> QED  BY <1>3, <1>4, <2>2, StepsAreTyped
<1>11. CASE AttachAgain
  BY <1>5, <1>11, StepsAreTyped DEF AttachAgain
<1>12. CASE Flush \/ LinkUp \/ AddAddress \/ AddRoute
  BY <1>3, <1>4, <1>12, StepsAreTyped DEF Flush, LinkUp, AddAddress, AddRoute, HostStep
<1>13. CASE OnProfiles \/ HostFails
  BY <1>3, <1>4, <1>13, StepsAreTyped
  DEF OnProfiles, HostFails, GetConnections, UpdateConnection, AddConnection,
      GetConnectionsAgain, Activate, ActivateFails, NmStep
<1>14. CASE LinkDown \/ Other \/ Reload \/ Write \/ ReadOther \/ AttachWait
            \/ ModemMute \/ ModemSwallows \/ ModemSends \/ Permit \/ Assign \/ Noise
            \/ ModemCrash \/ UserDeletes \/ Meddle \/ UNCHANGED vars
  BY <1>2, <1>14 DEF LinkDown, Other, Reload, Write, ReadOther, AttachWait, ModemMute,
                     ModemSwallows, ModemSends, Permit, Assign, Noise, ModemCrash,
                     UserDeletes, Meddle, ModemIdle, vars
<1>15. CASE ModemServe
  BY <1>2, <1>15, ModemServes
<1> QED
  BY <1>7, <1>8, <1>9, <1>10, <1>11, <1>12, <1>13, <1>14, <1>15, NextByConcern, Zenon DEF Offline

\* A lock is a key with the word whether the modem is mute.
LEMMA LocksArePairs == \A l \in Locks : <<l[1], l[2]>> = l
<1> TAKE l \in Locks
<1>1. l \in (ToSet(Keys) \cup {"other"}) \X BOOLEAN \/ l = <<Open, FALSE>>
  BY DEF Locks
<1>2. CASE l = <<Open, FALSE>>
  <2>1. l[1] = Open /\ l[2] = FALSE
    BY <1>2
  <2> QED  BY <1>2, <2>1
<1>3. ASSUME NEW K, l \in K \X BOOLEAN PROVE <<l[1], l[2]>> = l
  BY <1>3
<1> QED  BY <1>1, <1>2, <1>3

\* The modem, the network and NetworkManager.
LEMMA WorldIsTyped ==
  ASSUME AddedToNone, WorldTyped, [Next]_vars PROVE WorldTyped'
<1> USE DEF WorldTyped
<1>1. ASSUME <<lock', mute'>> \in {<<lock, mute>>, <<Open, FALSE>>} \/ <<lock', mute'>> \in Locks,
             assigned' \in {assigned, NoAddress} \/ assigned' \in Addresses,
             connection_path' \in 0..paths'
      PROVE  WorldTyped'
  BY <1>1 DEF Locks
<1>2. paths \in Nat /\ DOMAIN profiles \subseteq 1..paths
  BY DEF AddedToNone
<1>3. CASE ModemServe
  BY <1>3, ModemServes DEF Locks, nmVars, Service
<1>4. CASE Assign \/ ModemCrash
  BY <1>4 DEF Assign, ModemCrash, ModemIdle, nmVars
<1>5. CASE Reload
  <2>1. PICK l \in Locks : lock' = l[1] /\ mute' = l[2]
    BY <1>5 DEF Reload
  <2>2. <<lock', mute'>> = l
    BY <2>1, LocksArePairs
  <2> QED  BY <1>1, <1>5, <2>2 DEF Reload, nmVars
<1>6. CASE GetConnections \/ GetConnectionsAgain
  <2>1. /\ connection_path' \in DOMAIN profiles \cup {connection_path}
        /\ UNCHANGED <<paths, lock, mute, assigned>>
    BY <1>6 DEF GetConnections, GetConnectionsAgain, get_connections, NmStep, modemVars
  <2> QED  BY <1>2, <2>1
<1>7. CASE AddConnection
  <2>1. paths' = paths + 1 /\ UNCHANGED <<connection_path, lock, mute, assigned>>
    BY <1>7 DEF AddConnection, add_connection, NmStep, modemVars
  <2> QED  BY <1>2, <2>1
<1>8. CASE UpdateConnection \/ Activate \/ ActivateFails \/ UserDeletes \/ Meddle
  BY <1>8 DEF UpdateConnection, update_connection, Activate, ActivateFails, UserDeletes, Meddle,
              delete_profile, NmStep, modemVars, nmVars
<1>9. CASE Killed \/ Exit
  BY <1>2, <1>9 DEF Killed, Exit, Gone, fresh, NoPath, modemVars
<1>10. CASE Start \/ StartRefused \/ Write \/ ReadOther \/ ReadResponse \/ PumpFails \/ RpcFails
            \/ ModeWait \/ AttachWait \/ AttachAgain
  BY <1>10 DEF Start, StartRefused, Write, ReadOther, ReadResponse, PumpFails, RpcFails,
               ModeWait, AttachWait, AttachAgain, modemVars, nmVars
<1>11. CASE Flush \/ LinkUp \/ AddAddress \/ AddRoute \/ HostFails \/ LinkDown \/ Other
  BY <1>11 DEF Flush, LinkUp, AddAddress, AddRoute, HostStep, HostFails, LinkDown, Other, modemVars,
               nmVars
<1>12. CASE ModemMute \/ ModemSwallows \/ ModemSends \/ Permit \/ Noise \/ UNCHANGED vars
  BY <1>12 DEF ModemMute, ModemSwallows, ModemSends, Permit, Noise, ModemIdle, vars, modemVars,
               nmVars
<1> QED
  BY <1>3, <1>4, <1>5, <1>6, <1>7, <1>8, <1>9, <1>10, <1>11, <1>12, NextByConcern, Zenon
  DEF Offline, OnProfiles

\* The variables keep their types, for any network, any modem and any number
\* of runs: the script is always at a step of its own, it stands at the call
\* that execute waits for, and tries no more keys than do_fcc_unlock has.
THEOREM TypeCorrect == Spec => []TypeOK
<1> DEFINE IInv == ClientTyped /\ ScriptTyped /\ WorldTyped /\ AddressAnswers
<1>1. Init => IInv
  <2> SUFFICES ASSUME Init PROVE IInv
    OBVIOUS
  <2>1. ClientTyped
    <3>1. /\ call = NoCall /\ attach_allowed = FALSE /\ mismatched = FALSE /\ excuses = {}
          /\ noise = 0 /\ owed = <<>> /\ inbox = <<>>
      BY DEF Init, ClientInit
    <3>2. Room(0) /\ 0 \in 0..MaxNoise
      BY <3>1, BoundsAssumption DEF Room, BoundsAssumption
    <3> QED  BY <3>1, <3>2 DEF ClientTyped
  <2>2. ScriptTyped
    BY StepsAreTyped DEF Init, ScriptTyped
  <2>3. WorldTyped
    <3>1. PICK l \in Locks : lock = l[1] /\ mute = l[2]
      BY DEF Init
    <3>2. <<lock, mute>> = l
      BY <3>1, LocksArePairs
    <3> QED  BY <3>1, <3>2 DEF Init, NmInit, NoPath, WorldTyped
  <2>4. AddressAnswers
    <3>1. owed = <<>> /\ inbox = <<>> /\ ToSet(<<>>) = {}
      BY DEF Init, ClientInit, ToSet
    <3> QED  BY <3>1 DEF AddressAnswers, Msgs
  <2> QED  BY <2>1, <2>2, <2>3, <2>4
<1>2. IInv /\ InOrder /\ Conversation /\ AddedToNone /\ [Next]_vars => IInv'
  BY ClientIsTyped, ScriptIsTyped, WorldIsTyped, AddressAnswersIsInductive
<1>3. IInv /\ Conversation /\ AddedToNone /\ Session => TypeOK
  <2>1. Len(Keys) = 2
    BY DEF Keys
  <2> QED
    BY <2>1 DEF TypeOK, ClientTyped, ScriptTyped, WorldTyped, Conversation, Talk, AddedToNone,
                Session
<1>4. Spec => []IInv
  BY <1>1, <1>2, ExchangesAreInOrder, ConversationHolds, ProfilesAreAddedToNone, PTL DEF Spec
<1> QED
  BY <1>3, <1>4, ConversationHolds, ProfilesAreAddedToNone, SessionHolds, PTL
=============================================================================
