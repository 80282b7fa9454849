----------------------------- MODULE RpcClient ------------------------------
(***************************************************************************)
(* The RPC client of rpc.py at work: XMMRPC.execute and pump on one side   *)
(* of /dev/xmm0/rpc, a modem that answers on the other.  A message keeps   *)
(* what the client looks at: its transaction word, its code, and the       *)
(* values that unpacking gives (v).                                        *)
(*                                                                         *)
(* The modem carries requests out one after the other.  It answers with a  *)
(* response, and an asynchronous request with an acknowledgement as well;  *)
(* it sends what it owes in any order, and indications as they happen.     *)
(*                                                                         *)
(* (Operators named X_Y are deliberate mistakes in X; nothing uses them.)  *)
(***************************************************************************)
EXTENDS RpcMessages, SequencesExt

CONSTANTS MaxMessages,   \* bound: messages owed or under way
          MaxNoise       \* bound: unsolicited messages nobody can parse

ASSUME BoundsAssumption == MaxMessages \in Nat \ {0} /\ MaxNoise \in Nat

VARIABLES
  call,            \* the request whose response execute is waiting for
  attach_allowed,  \* as in XMMRPC
  requests,        \* written, not yet taken by the modem
  owed,            \* what the modem has yet to send
  inbox,           \* sent, not yet read
  noise,           \* how many unparseable messages were sent
  \* history:
  mismatched,      \* execute took the response of another request
  excuses          \* what went wrong in this session that execute cannot notice

clientVars == <<call, attach_allowed, requests, owed, inbox, noise, mismatched, excuses>>

NoCall == "none"

\* "leftover": the modem still owed something to an earlier session.
\* "caught": an exception was caught while a response was outstanding.
\* "callback": execute read, and dropped, the callback UtaModeSet waits for.
\* "silent": the modem swallowed a request.  "dead": it crashed.
Excuses == {"leftover", "caught", "callback", "silent", "dead"}

-----------------------------------------------------------------------------
(* Messages.  current says whether the request is the latest one.           *)

IsAsync(name) ==
  name \in {"CsiFccLockQueryReq", "CsiFccLockGenChallengeReq", "CsiFccLockVerChallengeReq",
            "UtaMsCallPsAttachApnConfigReq", "UtaMsNetAttachReq",
            "UtaMsCallPsGetNegIpAddrReq", "UtaMsCallPsGetNegotiatedDnsReq",
            "UtaMsCallPsConnectReq"}

SomeCode == 1   \* nothing depends on the code of a response
Tid(req) == TidWord(IsAsync(req.name))
Response(req, v) ==
  [tid |-> Tid(req), code |-> SomeCode, of |-> req.name, v |-> v, current |-> req.current]
Ack(req) ==
  [tid |-> Tid(req), code |-> AckCode, of |-> NoCall, v |-> <<>>, current |-> req.current]
Indication(tid, code, v) ==
  [tid |-> tid, code |-> code, of |-> NoCall, v |-> v, current |-> FALSE]

Yes == <<"1">>
No == <<"0">>
Garbage == <<"garbage">>   \* unpack_unknown or handle_unsolicited raises
ModeTid == 15
ModeSetRspCb(v) == Indication(ModeTid, UtaModeSetRspCb, v)
AttachAllowedInd(v) == Indication(0, UtaMsNetIsAttachAllowedIndCb, v)
Malformed == Indication(0, AckCode, Garbage)

Type(m) == TypeOf(m.tid, m.code)

ClientInit ==
  /\ call = NoCall /\ attach_allowed = FALSE
  /\ requests = <<>> /\ owed = <<>> /\ inbox = <<>>
  /\ noise = 0 /\ mismatched = FALSE /\ excuses = {}

-----------------------------------------------------------------------------
(* The client.                                                              *)

Answers(s) == \E i \in 1..Len(s) : Type(s[i]) = "response" \/ s[i].code = UtaModeSetRspCb

\* XMMRPC(): the device is opened, with rings of its own.
Connect ==
  /\ excuses' = (IF Answers(owed) THEN {"leftover"} ELSE {})
  /\ UNCHANGED <<call, attach_allowed, requests, owed, inbox, noise, mismatched>>

\* The process is gone, and the rings with it.  What the modem still owes is
\* forgotten, or kept for the next one who opens the device.
Disconnect ==
  /\ call' = NoCall /\ requests' = <<>> /\ inbox' = <<>>
  /\ owed' \in {owed, <<>>}
  /\ attach_allowed' = FALSE /\ mismatched' = FALSE
  /\ excuses' = excuses \cap {"dead"}
  /\ UNCHANGED noise

Outdated(s) == [i \in 1..Len(s) |-> [s[i] EXCEPT !.current = FALSE]]

\* execute: os.write of the request.
Send(name, arg) ==
  /\ call = NoCall
  /\ call' = name
  /\ requests' = Append(Outdated(requests), [name |-> name, arg |-> arg, current |-> TRUE])
  /\ owed' = Outdated(owed) /\ inbox' = Outdated(inbox)
  /\ UNCHANGED <<attach_allowed, noise, mismatched, excuses>>

\* handle_unsolicited (as pump calls it for unsolicited messages)
Allowed_OnlyWhenWaiting(m) ==
  IF /\ call = NoCall
     /\ Type(m) = "unsolicited" /\ m.code = UtaMsNetIsAttachAllowedIndCb
  THEN m.v = Yes ELSE attach_allowed
Allowed(m) ==
  IF Type(m) = "unsolicited" /\ m.code = UtaMsNetIsAttachAllowedIndCb
  THEN m.v = Yes ELSE attach_allowed

\* pump: one message is read and handled.
Pump(m) ==
  /\ inbox # <<>> /\ m = Head(inbox) /\ m.v # Garbage
  /\ inbox' = Tail(inbox)
  /\ attach_allowed' = Allowed(m)
  /\ UNCHANGED <<requests, owed, noise>>

\* execute's loop: everything but a response is printed and dropped.
PumpOther ==
  \E m \in ToSet(inbox) :
    /\ call # NoCall /\ Pump(m) /\ Type(m) # "response"
    /\ excuses' = (IF m.code = UtaModeSetRspCb THEN excuses \cup {"callback"} ELSE excuses)
    /\ UNCHANGED <<call, mismatched>>

\* execute returns the first response, whatever it answers.
PumpResponse(m) ==
  /\ call # NoCall /\ Pump(m) /\ Type(m) = "response"
  /\ call' = NoCall
  /\ mismatched' = (mismatched \/ ~m.current)
  /\ UNCHANGED excuses

\* pump outside execute: UtaModeSet, and the wait for attach_allowed.
PumpWaiting(m) ==
  /\ call = NoCall /\ Pump(m)
  /\ UNCHANGED <<call, mismatched, excuses>>

\* A message pump raises on.
PumpRaises(caught) ==
  /\ inbox # <<>> /\ Head(inbox).v = Garbage
  /\ inbox' = Tail(inbox)
  /\ call' = NoCall
  /\ excuses' = (IF caught /\ call # NoCall THEN excuses \cup {"caught"} ELSE excuses)
  /\ UNCHANGED <<attach_allowed, requests, owed, noise, mismatched>>

-----------------------------------------------------------------------------
(* The modem.                                                               *)

Room(n) == Len(owed) + Len(inbox) + n <= MaxMessages

\* The request at the front is carried out, and answered with v; also is what
\* the modem sends besides.
Serve(req, v, also) ==
  /\ requests # <<>> /\ req = Head(requests)
  /\ Room(2)
  /\ requests' = Tail(requests)
  /\ owed' = owed \o (IF IsAsync(req.name) THEN <<Ack(req)>> ELSE <<>>)
                  \o <<Response(req, v)>> \o also
  /\ UNCHANGED <<call, attach_allowed, inbox, noise, mismatched, excuses>>

\* A request that is never answered: the modem is FCC-locked, or it is in the
\* state in which the first call after a reset gets lost.
Swallow(why) ==
  /\ requests # <<>>
  /\ requests' = Tail(requests)
  /\ excuses' = excuses \cup why
  /\ UNCHANGED <<call, attach_allowed, owed, inbox, noise, mismatched>>

ModemSend ==
  \E i \in 1..Len(owed) :
    /\ owed' = RemoveAt(owed, i)
    /\ inbox' = Append(inbox, owed[i])
    /\ UNCHANGED <<call, attach_allowed, requests, noise, mismatched, excuses>>

Indicate(m) ==
  /\ Room(1)
  /\ inbox' = Append(inbox, m)
  /\ noise' = (IF m = Malformed THEN noise + 1 ELSE noise)
  /\ UNCHANGED <<call, attach_allowed, requests, owed, mismatched, excuses>>
=============================================================================
