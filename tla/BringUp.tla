------------------------------ MODULE BringUp -------------------------------
(***************************************************************************)
(* Bringing the data session up: open_xdatachannel.py as xmm-up runs it,   *)
(* over the RPC client of RpcClient, against the modem, the network stack  *)
(* (wwan0's addresses and routes) and NetworkManager (its profiles).       *)
(*                                                                         *)
(* "at" is where the script is: the call it makes next or waits for, or    *)
(* one of its other steps.  It can be killed at every one of them (the     *)
(* stall watchdog, the timeout and systemd do), and is run again.          *)
(*                                                                         *)
(* (Operators named X_Y are deliberate mistakes in X; none of the actions  *)
(* uses them.)                                                             *)
(***************************************************************************)
EXTENDS RpcClient, NmProfile

CONSTANTS InitCalls,       \* the calls between the two FCC unlocks
          Addresses,       \* what the network hands out ...
          Ipv6Addresses,   \* ... on a network with IPv6
          MaxRuns,         \* bound: runs of the script
          dbus,            \* -d: hand wwan0 to NetworkManager
          nodefaultroute   \* -n

\* The steps of the script that are no calls.
Pauses ==
  {"off", "modeWait", "attachWait", "flush", "link", "addr", "route", "get_connections",
   "update_connection", "add_connection", "get_connections_again", "activate", "exit"}

\* The calls it makes by name.
NamedCalls ==
  {"CsiFccLockQueryReq", "CsiFccLockGenChallengeReq", "CsiFccLockVerChallengeReq",
   "UtaModeSetReq", "UtaMsCallPsAttachApnConfigReq", "UtaMsNetAttachReq",
   "UtaMsCallPsGetNegIpAddrReq", "UtaMsCallPsGetNegotiatedDnsReq",
   "UtaMsCallPsConnectReq", "UtaRPCPsConnectToDatachannelReq", "UtaRPCPSConnectSetupReq"}

ASSUME InitAssumption ==
  InitCalls \in Seq(STRING \ (Pauses \cup NamedCalls \cup {NoCall})) /\ InitCalls # <<>>
ASSUME RunsAssumption == MaxRuns \in Nat
ASSUME OptionsAssumption == dbus \in BOOLEAN /\ nodefaultroute \in BOOLEAN
ASSUME AddressesAssumption ==
  {"none", "v6"} \cap Addresses = {} /\ Ipv6Addresses \subseteq Addresses

VARIABLES
  \* the script:
  at, early, attempt, ip_addr, handles, result, runs,
  \* the modem: the key its FCC lock wants, and whether it answers nothing
  \* until then; permission to attach, address, data channel
  lock, mute, permitted, assigned, channel,
  \* the host: addresses and default route of wwan0, another user of the device,
  \* and (history) whether anybody else has added to wwan0 since the flush
  addrs, routed, busy, meddled

scriptVars == <<at, early, attempt, ip_addr, handles, result, runs>>
modemVars == <<lock, mute, permitted, assigned, channel>>
hostVars == <<addrs, routed, busy, meddled>>
vars == <<clientVars, nmVars, scriptVars, modemVars, hostVars>>

NoAddress == "none"
Calls == ToSet(InitCalls) \cup NamedCalls
Keys == <<"nvm", "reset">>   \* do_fcc_unlock: the keys it tries

Open == "open"
Locks == (ToSet(Keys) \cup {"other"}) \X BOOLEAN \cup {<<Open, FALSE>>}

Init ==
  /\ ClientInit /\ NmInit
  /\ at = "off" /\ early = FALSE /\ attempt = 1 /\ ip_addr = NoAddress
  /\ handles = {} /\ result = "none" /\ runs = 0
  /\ \E l \in Locks : lock = l[1] /\ mute = l[2]
  /\ permitted = FALSE /\ assigned = NoAddress /\ channel = FALSE
  /\ addrs = {} /\ routed = FALSE /\ busy = FALSE /\ meddled = FALSE

-----------------------------------------------------------------------------
(* Beginning and end.                                                       *)

Alive == "dead" \notin excuses

\* What the interpreter returns: exit() without an argument is a success.
ExitStatus(how) == IF how \in {"refused", "done"} THEN 0 ELSE 1

End(how) ==
  /\ at' = "exit" /\ result' = how
  /\ UNCHANGED <<early, attempt, ip_addr, handles, runs>>

Go(step) ==
  /\ at' = step
  /\ UNCHANGED <<early, attempt, ip_addr, handles, result, runs>>

Start_Upstream ==
  /\ at = "off" /\ runs < MaxRuns /\ ~busy /\ Alive
  /\ Connect
  /\ at' = InitCalls[1] /\ early' = FALSE
  /\ result' = "none" /\ runs' = runs + 1
  /\ UNCHANGED <<nmVars, attempt, ip_addr, handles, modemVars, hostVars>>
\* xmm-up starts the script; XMMRPC() opens the device.
Start ==
  /\ at = "off" /\ runs < MaxRuns /\ ~busy /\ Alive
  /\ Connect
  /\ at' = "CsiFccLockQueryReq" /\ early' = TRUE
  /\ result' = "none" /\ runs' = runs + 1
  /\ UNCHANGED <<nmVars, attempt, ip_addr, handles, modemVars, hostVars>>

\* The device is busy or missing: logged, then exit().
StartRefused ==
  /\ at = "off" /\ runs < MaxRuns /\ busy
  /\ runs' = runs + 1 /\ result' = "refused"
  /\ UNCHANGED <<clientVars, nmVars, modemVars, hostVars, at, early, attempt, ip_addr, handles>>

\* The process is gone, and what it remembered; xmm-up goes by its status.
Gone(how) ==
  /\ Disconnect
  /\ at' = "off" /\ early' = FALSE /\ attempt' = 1
  /\ ip_addr' = NoAddress /\ handles' = {} /\ result' = how
  /\ fresh
  /\ UNCHANGED <<runs, modemVars, hostVars>>
Exit == at = "exit" /\ Gone(result)
Killed == at \notin {"off", "exit"} /\ Gone("killed")

\* An exception is caught around the early do_fcc_unlock only.
EarlyFcc == early /\ at \in {"CsiFccLockQueryReq", "CsiFccLockGenChallengeReq",
                             "CsiFccLockVerChallengeReq"}
Continue ==
  /\ at' = InitCalls[1] /\ early' = FALSE
  /\ UNCHANGED <<attempt, ip_addr, handles, result, runs>>

\* pump raises on a message it cannot parse.
PumpFails ==
  /\ call # NoCall \/ at = "modeWait" \/ (at = "attachWait" /\ ~attach_allowed)
  /\ PumpRaises(EarlyFcc)
  /\ IF EarlyFcc THEN Continue ELSE End("failed")
  /\ UNCHANGED <<nmVars, modemVars, hostVars>>

\* Reading from and writing to a crashed modem raises as well.
RpcFails ==
  /\ at # "off" /\ ~Alive
  /\ at \in Calls \cup {"modeWait", "attachWait"}
  /\ call' = NoCall
  /\ UNCHANGED <<attach_allowed, requests, owed, inbox, noise, mismatched, excuses>>
  /\ IF EarlyFcc THEN Continue ELSE End("failed")
  /\ UNCHANGED <<nmVars, modemVars, hostVars>>

-----------------------------------------------------------------------------
(* Calls.                                                                   *)

Argument == CASE at = "CsiFccLockVerChallengeReq" -> {Keys[attempt]}
              [] at = "UtaRPCPSConnectSetupReq" -> handles
              [] OTHER -> {}

Write ==
  /\ at \in Calls /\ Alive
  /\ Send(at, Argument)
  /\ UNCHANGED <<nmVars, scriptVars, modemVars, hostVars>>

ReadOther ==
  /\ PumpOther
  /\ UNCHANGED <<nmVars, scriptVars, modemVars, hostVars>>

Raises == <<"raises">>
Refused == <<"0xffffffff">>
NoIp == <<NoAddress, NoAddress, NoAddress>>
Handles == {"UtaMsCallPsConnectReq", "UtaRPCPsConnectToDatachannelReq"}

\* What the caller makes of a response to another request: unpack takes the
\* fields it wants from the front, and raises when they are of another type.
Misread(name) ==
  CASE name \in {"CsiFccLockQueryReq", "CsiFccLockVerChallengeReq"} -> {Yes, No, Raises}
    [] name = "CsiFccLockGenChallengeReq" -> {Yes, Raises}
    [] name \in {"UtaModeSetReq", "UtaMsNetAttachReq"} -> {Yes, Refused, Raises}
    [] name \in {"UtaMsCallPsGetNegIpAddrReq", "UtaMsCallPsGetNegotiatedDnsReq"} -> {Raises}
    [] OTHER -> {Yes}
Values(m) == IF m.of = at THEN {m.v} ELSE Misread(at)

\* get_ip: the last of the three addresses that is not 0.0.0.0
Nonzero(ip_values) == {i \in DOMAIN ip_values : ip_values[i] # NoAddress}
picked_First(ip_values) ==
  IF Nonzero(ip_values) = {} THEN NoAddress ELSE ip_values[Min(Nonzero(ip_values))]
picked(ip_values) ==
  IF Nonzero(ip_values) = {} THEN NoAddress ELSE ip_values[Max(Nonzero(ip_values))]

Attempt(n, step) ==
  /\ at' = step /\ attempt' = n
  /\ UNCHANGED <<early, ip_addr, handles, result, runs>>

\* do_fcc_unlock returns.
Unlocked ==
  IF early THEN Continue ELSE Go("UtaModeSetReq")

AfterInit(name) ==
  IF name = Last(InitCalls) THEN "CsiFccLockQueryReq"
  ELSE InitCalls[CHOOSE i \in 2..Len(InitCalls) : InitCalls[i - 1] = name]

\* What the script does with the value of its call.
OnQuery(v) ==
  /\ at = "CsiFccLockQueryReq"
  /\ IF v = Yes THEN Unlocked ELSE Attempt(1, "CsiFccLockGenChallengeReq")
OnChallenge ==
  /\ at = "CsiFccLockGenChallengeReq"
  /\ Go("CsiFccLockVerChallengeReq")
OnVerify_OneMore(v) ==
  /\ at = "CsiFccLockVerChallengeReq"
  /\ \/ v = Yes /\ Unlocked
     \/ v # Yes /\ attempt <= Len(Keys) /\ Attempt(attempt + 1, at)
     \/ v # Yes /\ attempt > Len(Keys) /\ IF early THEN Continue ELSE End("failed")
OnVerify(v) ==
  /\ at = "CsiFccLockVerChallengeReq"
  /\ \/ v = Yes /\ Unlocked
     \/ v # Yes /\ attempt < Len(Keys) /\ Attempt(attempt + 1, at)
     \/ v # Yes /\ attempt = Len(Keys) /\ IF early THEN Continue ELSE End("failed")
OnInit ==
  /\ at \in ToSet(InitCalls)
  /\ Go(AfterInit(at))
OnModeSet(v) ==
  /\ at = "UtaModeSetReq"
  /\ IF v # Refused THEN Go("modeWait") ELSE End("failed")
OnApn ==
  /\ at = "UtaMsCallPsAttachApnConfigReq"
  /\ Attempt(1, "UtaMsNetAttachReq")
OnAttach(v) ==
  /\ at = "UtaMsNetAttachReq"
  /\ \/ v # Refused /\ Go("UtaMsCallPsGetNegIpAddrReq")
     \/ v = Refused /\ attempt = 1 /\ Go("attachWait")
     \/ v = Refused /\ attempt = 2 /\ End("failed")
OnIp(v) ==
  /\ at = "UtaMsCallPsGetNegIpAddrReq"
  /\ ip_addr' = picked(v) /\ at' = "UtaMsCallPsGetNegotiatedDnsReq"
  /\ UNCHANGED <<early, attempt, handles, result, runs>>
OnDns ==
  /\ at = "UtaMsCallPsGetNegotiatedDnsReq"
  /\ Go(IF ip_addr = NoAddress THEN "UtaMsCallPsGetNegIpAddrReq" ELSE "flush")
OnHandle(m, next) ==
  /\ handles' = (IF m.of = at /\ m.current THEN handles \cup {at} ELSE handles)
  /\ at' = next
  /\ UNCHANGED <<early, attempt, ip_addr, result, runs>>
OnConnect(m) ==
  /\ at = "UtaMsCallPsConnectReq"
  /\ OnHandle(m, "UtaRPCPsConnectToDatachannelReq")
OnDatachannel(m) ==
  /\ at = "UtaRPCPsConnectToDatachannelReq"
  /\ OnHandle(m, "UtaRPCPSConnectSetupReq")
\* (without -d the script ends with sys.exit(1) even so)
OnSetup ==
  /\ at = "UtaRPCPSConnectSetupReq"
  /\ IF dbus THEN Go("get_connections") ELSE End("failed")

ReadResponse ==
  \E m \in ToSet(inbox) :
    /\ PumpResponse(m)
    /\ \E v \in Values(m) :
         IF v = Raises
         THEN IF EarlyFcc THEN Continue ELSE End("failed")
         ELSE \/ OnQuery(v) \/ OnChallenge \/ OnVerify(v) \/ OnInit \/ OnModeSet(v)
              \/ OnApn \/ OnAttach(v) \/ OnIp(v) \/ OnDns
              \/ OnConnect(m) \/ OnDatachannel(m) \/ OnSetup
    /\ UNCHANGED <<nmVars, modemVars, hostVars>>

\* UtaModeSet: until the callback has come.
ModeWait ==
  \E m \in ToSet(inbox) :
    /\ at = "modeWait" /\ PumpWaiting(m)
    /\ CASE m.code # UtaModeSetRspCb -> Go(at)
         [] m.code = UtaModeSetRspCb /\ m.v = Yes -> Go("UtaMsCallPsAttachApnConfigReq")
         [] m.code = UtaModeSetRspCb /\ m.v # Yes -> End("failed")
    /\ UNCHANGED <<nmVars, modemVars, hostVars>>

\* while not r.attach_allowed: r.pump()
AttachWait ==
  /\ at = "attachWait" /\ ~attach_allowed
  /\ \E m \in ToSet(inbox) : PumpWaiting(m)
  /\ UNCHANGED <<nmVars, scriptVars, modemVars, hostVars>>
AttachAgain ==
  /\ at = "attachWait" /\ attach_allowed
  /\ Attempt(2, "UtaMsNetAttachReq")
  /\ UNCHANGED <<clientVars, nmVars, modemVars, hostVars>>

-----------------------------------------------------------------------------
(* The interface.  Adding what exists fails; removing the last address      *)
(* removes the routes of the interface.                                     *)

HostStep(step, next) ==
  /\ at = step
  /\ Go(next)
  /\ UNCHANGED <<clientVars, nmVars, modemVars, busy>>

Flush_Skipped ==
  /\ HostStep("flush", "link")
  /\ UNCHANGED <<addrs, routed, meddled>>
Flush ==
  /\ HostStep("flush", "link")
  /\ addrs' = {} /\ routed' = FALSE /\ meddled' = FALSE

LinkUp ==
  /\ HostStep("link", "addr")
  /\ UNCHANGED <<addrs, routed, meddled>>

AddAddress ==
  /\ at = "addr"
  /\ addrs' = addrs \cup {ip_addr}
  /\ IF ip_addr \in addrs THEN End("exists") ELSE Go("route")
  /\ UNCHANGED <<clientVars, nmVars, modemVars, routed, busy, meddled>>

AddRoute ==
  /\ at = "route"
  /\ routed' = (routed \/ ~nodefaultroute)
  /\ IF routed /\ ~nodefaultroute THEN End("exists") ELSE Go("UtaMsCallPsConnectReq")
  /\ UNCHANGED <<clientVars, nmVars, modemVars, addrs, busy, meddled>>

\* fibocom-l850-ctl on, run beside the script: ensure_route.
EnsureRoute ==
  /\ ~routed /\ routed' = TRUE
  /\ UNCHANGED addrs
\* NetworkManager sets up the link with a profile it has.
NmConfigures ==
  /\ \E p \in DOMAIN profiles : addrs' = addrs \cup {profiles[p]}
  /\ routed' \in {routed, TRUE}
\* Either adds to wwan0 behind the script's back.  (While the script has no
\* address yet, the flush to come undoes it.)
Meddle ==
  /\ ip_addr # NoAddress
  /\ EnsureRoute \/ NmConfigures
  /\ meddled' = TRUE
  /\ UNCHANGED <<clientVars, nmVars, scriptVars, modemVars, busy>>

\* ctl off, between two runs: a link that is down has no routes.
LinkDown ==
  /\ at = "off" /\ routed
  /\ routed' = FALSE
  /\ UNCHANGED <<clientVars, nmVars, scriptVars, modemVars, addrs, busy, meddled>>

\* Another process (fibocom-l850-status, say) opens the device, or closes it.
Other ==
  /\ at = "off"
  /\ busy' = ~busy
  /\ UNCHANGED <<clientVars, nmVars, scriptVars, modemVars, addrs, routed, meddled>>

-----------------------------------------------------------------------------
(* NetworkManager: the operations of NmProfile, in the script's order.      *)

NmStep(next) ==
  /\ Go(next)
  /\ UNCHANGED <<clientVars, modemVars, hostVars>>

GetConnections_ByAddress ==
  /\ at = "get_connections"
  /\ get_connections
  /\ NmStep(IF connection_path' = NoPath \/ ip_addr \notin {profiles[p] : p \in DOMAIN profiles}
            THEN "add_connection" ELSE "update_connection")
GetConnections ==
  /\ at = "get_connections"
  /\ get_connections
  /\ NmStep(IF connection_path' = NoPath THEN "add_connection" ELSE "update_connection")
\* (A profile deleted since is not listed again, and nothing is updated.)
UpdateConnection ==
  /\ at = "update_connection"
  /\ IF Activatable THEN update_connection(ip_addr) ELSE UNCHANGED nmVars
  /\ NmStep("activate")
AddConnection ==
  /\ at = "add_connection"
  /\ add_connection(ip_addr)
  /\ NmStep("get_connections_again")
GetConnectionsAgain ==
  /\ at = "get_connections_again"
  /\ get_connections
  /\ NmStep("activate")
Activate ==
  /\ at = "activate"
  /\ Activatable
  /\ End("done")
  /\ UNCHANGED <<clientVars, nmVars, modemVars, hostVars>>
\* connection_path is unset, or its profile has been deleted.
ActivateFails ==
  /\ at = "activate"
  /\ ~Activatable
  /\ End("failed")
  /\ UNCHANGED <<clientVars, nmVars, modemVars, hostVars>>

\* wwan0 or NetworkManager is not there: pyroute2 or D-Bus raises.
HostFails ==
  /\ at \in {"flush", "link", "addr", "route", "get_connections", "update_connection",
            "add_connection", "get_connections_again", "activate"}
  /\ End("failed")
  /\ UNCHANGED <<clientVars, nmVars, modemVars, hostVars>>

UserDeletes ==
  /\ delete_profile
  /\ UNCHANGED <<clientVars, scriptVars, modemVars, hostVars>>

Script ==
  \/ Write \/ ReadOther \/ ReadResponse \/ PumpFails \/ RpcFails
  \/ ModeWait \/ AttachWait \/ AttachAgain
  \/ Flush \/ LinkUp \/ AddAddress \/ AddRoute
  \/ GetConnections \/ UpdateConnection \/ AddConnection \/ GetConnectionsAgain
  \/ Activate \/ ActivateFails \/ HostFails \/ Exit

-----------------------------------------------------------------------------
(* The modem and the network.                                               *)

ModemIdle == UNCHANGED <<nmVars, scriptVars, hostVars>>

\* The three addresses of the answer: on an IPv6 network the first two are
\* parts of the IPv6 address.
IpValues ==
  CASE assigned = NoAddress -> NoIp
    [] assigned \in Ipv6Addresses -> <<"v6", "v6", assigned>>
    [] OTHER -> <<assigned, NoAddress, NoAddress>>

\* A locked modem that was reset answers nothing but the unlocking.
Fcc(req) == req.name \in {"CsiFccLockQueryReq", "CsiFccLockGenChallengeReq",
                          "CsiFccLockVerChallengeReq"}

Answer(b) == IF b THEN Yes ELSE No
ModemServe ==
  \E req \in ToSet(requests) :
    /\ Alive /\ (Fcc(req) \/ ~mute)
    /\ CASE req.name = "CsiFccLockQueryReq" -> Serve(req, Answer(lock = Open), <<>>)
         [] req.name = "CsiFccLockVerChallengeReq" ->
              Serve(req, Answer(lock = Open \/ lock \in req.arg), <<>>)
         [] req.name = "UtaModeSetReq" ->
              Serve(req, Yes, <<ModeSetRspCb(Answer(lock = Open))>>)
         [] req.name = "UtaMsNetAttachReq" ->
              Serve(req, IF permitted THEN Yes ELSE Refused, <<>>)
         [] req.name = "UtaMsCallPsGetNegIpAddrReq" -> Serve(req, IpValues, <<>>)
         [] OTHER -> Serve(req, Yes, <<>>)
    /\ IF req.name = "CsiFccLockVerChallengeReq" /\ lock \in req.arg
       THEN lock' = Open /\ mute' = FALSE
       ELSE UNCHANGED <<lock, mute>>
    \* a new attachment may bring a new address
    /\ IF req.name = "UtaMsNetAttachReq" /\ permitted
       THEN assigned' \in {assigned, NoAddress} /\ channel' = FALSE
       ELSE /\ UNCHANGED assigned
            /\ channel' = (IF req.name = "UtaRPCPSConnectSetupReq"
                           THEN req.arg = Handles ELSE channel)
    /\ UNCHANGED permitted
    /\ ModemIdle

\* It answers nothing else while it is mute.
ModemMute ==
  \E req \in ToSet(requests) :
    /\ req = Head(requests) /\ ~Fcc(req) /\ mute
    /\ Swallow({}) /\ UNCHANGED modemVars /\ ModemIdle

ModemSwallows ==
  /\ Alive /\ at = "CsiFccLockQueryReq" /\ early
  /\ Swallow({"silent"}) /\ UNCHANGED modemVars /\ ModemIdle

ModemSends == Alive /\ at # "off" /\ ModemSend /\ UNCHANGED modemVars /\ ModemIdle

\* The modem may attach from now on, and says so if somebody listens.
Permit ==
  /\ Alive /\ ~permitted /\ lock = Open
  /\ permitted' = TRUE
  /\ IF at = "off" THEN UNCHANGED clientVars ELSE Indicate(AttachAllowedInd(Yes))
  /\ UNCHANGED <<lock, mute, assigned, channel>> /\ ModemIdle

Assign ==
  /\ Alive /\ permitted /\ assigned = NoAddress
  /\ assigned' \in Addresses
  /\ UNCHANGED <<clientVars, lock, mute, permitted, channel>> /\ ModemIdle

Noise ==
  /\ Alive /\ at # "off" /\ noise < MaxNoise
  /\ Indicate(Malformed)
  /\ UNCHANGED modemVars /\ ModemIdle

ModemCrash ==
  /\ Alive /\ at # "off"
  /\ excuses' = excuses \cup {"dead"}
  /\ channel' = FALSE /\ assigned' = NoAddress
  /\ UNCHANGED <<call, attach_allowed, requests, owed, inbox, noise, mismatched,
                 lock, mute, permitted>>
  /\ ModemIdle

\* The driver is reloaded: the modem starts anew, and wwan0 as well.
Reload ==
  /\ at = "off" /\ runs \in 1..(MaxRuns - 1)
  /\ ~Alive \/ result \in {"failed", "killed"}
  /\ owed' = <<>> /\ excuses' = {}
  /\ \E l \in Locks : lock' = l[1] /\ mute' = l[2]
  /\ permitted' = FALSE
  /\ assigned' = NoAddress /\ channel' = FALSE
  /\ addrs' = {} /\ routed' = FALSE
  /\ UNCHANGED <<call, attach_allowed, requests, inbox, noise, mismatched, nmVars,
                 scriptVars, busy, meddled>>

Next ==
  \/ Start \/ StartRefused \/ Killed \/ Script
  \/ Meddle \/ LinkDown \/ Other \/ UserDeletes
  \/ ModemServe \/ ModemMute \/ ModemSwallows \/ ModemSends
  \/ Permit \/ Assign \/ Noise \/ ModemCrash \/ Reload

\* The script goes on, the modem serves and sends while it is alive, and the
\* network admits it in the end.
Fairness ==
  /\ WF_vars(Script)
  /\ WF_vars(ModemServe) /\ WF_vars(ModemMute) /\ WF_vars(ModemSends)
  /\ WF_vars(Permit) /\ WF_vars(Assign)

Spec == Init /\ [][Next]_vars /\ Fairness

-----------------------------------------------------------------------------
(* Properties *)

Steps == Calls \cup Pauses

\* The types of the variables.  (All of the script, and of what it keeps.)
TypeOK ==
  /\ call \in Calls \cup {NoCall} /\ (call # NoCall => at = call)
  /\ attach_allowed \in BOOLEAN /\ mismatched \in BOOLEAN
  /\ excuses \subseteq Excuses /\ Room(0) /\ noise \in 0..MaxNoise
  /\ at \in Steps /\ early \in BOOLEAN /\ attempt \in 1..Len(Keys)
  /\ ip_addr \in Addresses \cup {NoAddress, "v6"} /\ handles \subseteq Handles
  /\ <<lock, mute>> \in Locks /\ assigned \in Addresses \cup {NoAddress}
  /\ DOMAIN profiles \subseteq 1..paths /\ connection_path \in 0..paths

\* execute returns the answer to its own request, although it takes any
\* response, and every request has the same transaction word (tid_gen is never
\* asked).  Answers are mistaken only when the modem still owed one to a
\* session that was killed, or when an exception in the middle of a call was
\* caught around the early FCC unlock.
AnswersMatch ==
  mismatched => excuses \cap {"leftover", "caught"} # {}

\* The wait for permission to attach cannot miss it: after a refused attach
\* the indication is still to be read, or pump has noted it, whichever loop
\* read it.  (open_xdatachannel.py waits on attach_allowed, not on a message.)
NoMissedPermission ==
  at = "attachWait" /\ permitted /\ ~mismatched =>
    \/ attach_allowed
    \/ \E i \in 1..Len(inbox) : inbox[i] = AttachAllowedInd(Yes)

\* Once started the script ends by itself, however long the network takes:
\* a modem that is mute until its lock is opened is unlocked first, a modem
\* that crashes is noticed, and no wait is in vain.  It can hang only when
\* execute dropped the callback of UtaModeSet, when the first call got lost,
\* when answers were mistaken, or when the modem is mute and no key fits.
\* (The stall watchdog of fibocom-l850-up-retry exists for these.)
ScriptEnds ==
  at # "off" ~> \/ at = "off" \/ mismatched \/ excuses \cap {"callback", "silent"} # {}
                \/ (mute /\ lock = "other")

\* However an earlier run ended (killed at any step, failed, finished), the
\* next one does not trip over what it left on wwan0: neither the address nor
\* the default route exists when it is added, unless NetworkManager or
\* fibocom-l850-ctl has added something since wwan0 was flushed.
Restartable == result = "exists" => meddled

\* A run that ends well leaves wwan0 with the address of this session (and no
\* other that NetworkManager has not added since the flush: neither an earlier
\* session's, nor a piece of an IPv6 address), its route, the data channel set
\* up with this session's handles, and a profile activated with this address,
\* unless answers were mistaken or the modem has crashed.
HostMatchesSession ==
  [][at # "exit" /\ at' = "exit" /\ result' = "done" /\ ~mismatched /\ Alive =>
       /\ assigned \in addrs /\ assigned # NoAddress
       /\ addrs = {assigned} \/ meddled
       /\ routed \/ nodefaultroute
       /\ channel
       /\ profiles[connection_path] = assigned]_vars

\* Runs, killed or not, do not pile up profiles: each finds the one there is.
OneProfile == Cardinality(DOMAIN profiles) <= 1

\* xmm-up says that wwan0 is ready only when there is a session.
ReadyMeansSession ==
  [][at' = "off" /\ result' # result /\ ExitStatus(result') = 0 => channel']_vars
=============================================================================
