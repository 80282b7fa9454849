-------------------------- MODULE RpcClientProofs ---------------------------
(***************************************************************************)
(* Lemmas about the RPC client: what each of its operations, and of the    *)
(* modem's, does to the answers that are under way.                        *)
(***************************************************************************)
EXTENDS RpcClient, TLAPS

-----------------------------------------------------------------------------
(* Sequences of anything.                                                   *)

IsSeq(s) == s \in Seq(ToSet(s))

\* A sequence has a length, and the positions up to it.
\* A sequence has a length, and the positions up to it.
LEMMA SeqLen == ASSUME NEW s, IsSeq(s) PROVE Len(s) \in Nat /\ DOMAIN s = 1..Len(s)
BY DEF IsSeq

\* A sequence over any set is one over its own elements.
\* A sequence over any set is one over its own elements.
LEMMA IsSeqOf == ASSUME NEW S, NEW s \in Seq(S) PROVE IsSeq(s)
<1>1. s \in [1..Len(s) -> S] /\ Len(s) \in Nat
  OBVIOUS
<1>2. s \in [1..Len(s) -> ToSet(s)]
  BY <1>1 DEF ToSet
<1> QED  BY <1>1, <1>2 DEF IsSeq

\* One element more.
\* One element more.
LEMMA Appended ==
  ASSUME NEW s, IsSeq(s), NEW e
  PROVE  /\ IsSeq(Append(s, e)) /\ Len(Append(s, e)) = Len(s) + 1
         /\ \A i \in 1..Len(s) : Append(s, e)[i] = s[i]
         /\ Append(s, e)[Len(s) + 1] = e
<1>1. s \in Seq(ToSet(s) \cup {e})
  BY DEF IsSeq
<1>2. Append(s, e) \in Seq(ToSet(s) \cup {e})
  BY <1>1
<1>3. IsSeq(Append(s, e))
  BY <1>2, IsSeqOf
<1> QED  BY <1>1, <1>3

\* The first element taken.
\* The first element taken.
LEMMA Shortened ==
  ASSUME NEW s, IsSeq(s), s # <<>>
  PROVE  /\ Len(s) > 0 /\ Head(s) = s[1]
         /\ IsSeq(Tail(s)) /\ Len(Tail(s)) = Len(s) - 1
         /\ \A i \in 1..Len(Tail(s)) : Tail(s)[i] = s[i + 1]
<1>1. s \in Seq(ToSet(s)) /\ Tail(s) \in Seq(ToSet(s))
  BY DEF IsSeq
<1>2. IsSeq(Tail(s))
  BY <1>1, IsSeqOf
<1> QED  BY <1>1, <1>2

\* Two sequences in a row.
\* Two sequences in a row.
LEMMA Joined ==
  ASSUME NEW s, IsSeq(s), NEW t, IsSeq(t)
  PROVE  /\ IsSeq(s \o t) /\ Len(s \o t) = Len(s) + Len(t)
         /\ \A i \in 1..Len(s) : (s \o t)[i] = s[i]
         /\ \A i \in 1..Len(t) : (s \o t)[Len(s) + i] = t[i]
<1>1. s \in Seq(ToSet(s) \cup ToSet(t)) /\ t \in Seq(ToSet(s) \cup ToSet(t))
  BY DEF IsSeq
<1>2. s \o t \in Seq(ToSet(s) \cup ToSet(t))
  BY <1>1
<1>3. IsSeq(s \o t)
  BY <1>2, IsSeqOf
<1> QED  BY <1>1, <1>3

\* One element taken from the middle.
\* One element taken from the middle.
LEMMA Removed ==
  ASSUME NEW s, IsSeq(s), NEW i \in 1..Len(s)
  PROVE  /\ IsSeq(RemoveAt(s, i)) /\ Len(RemoveAt(s, i)) = Len(s) - 1
         /\ \A j \in 1..Len(RemoveAt(s, i)) :
              RemoveAt(s, i)[j] = IF j < i THEN s[j] ELSE s[j + 1]
<1> DEFINE front == SubSeq(s, 1, i - 1)
          back == SubSeq(s, i + 1, Len(s))
<1>1. s \in Seq(ToSet(s)) /\ Len(s) \in Nat
  BY DEF IsSeq
<1>2. /\ front \in Seq(ToSet(s)) /\ Len(front) = i - 1
      /\ \A j \in 1..(i - 1) : front[j] = s[j]
  BY <1>1
<1>3. /\ back \in Seq(ToSet(s)) /\ Len(back) = Len(s) - i
      /\ \A j \in 1..(Len(s) - i) : back[j] = s[i + j]
  BY <1>1
<1>4. RemoveAt(s, i) = front \o back
  BY DEF RemoveAt
<1>5. IsSeq(front) /\ IsSeq(back)
  BY <1>2, <1>3, IsSeqOf
<1> HIDE DEF front, back
<1>6. IsSeq(front \o back) /\ Len(front \o back) = Len(s) - 1
  <2>1. IsSeq(front \o back) /\ Len(front \o back) = Len(front) + Len(back)
    BY <1>5, Joined
  <2>2. (i - 1) + (Len(s) - i) = Len(s) - 1
    BY <1>1
  <2> QED  BY <1>2, <1>3, <2>1, <2>2
<1>7. ASSUME NEW j \in 1..(Len(s) - 1)
      PROVE  (front \o back)[j] = IF j < i THEN s[j] ELSE s[j + 1]
  <2>1. CASE j < i
    BY <1>1, <1>2, <1>5, <2>1, Joined
  <2>2. CASE ~(j < i)
    <3>1. j - (i - 1) \in 1..(Len(s) - i) /\ j = (i - 1) + (j - (i - 1))
      BY <1>1, <2>2
    <3>2. (front \o back)[(i - 1) + (j - (i - 1))] = back[j - (i - 1)]
      BY <1>2, <1>3, <1>5, <3>1, Joined
    <3>3. back[j - (i - 1)] = s[i + (j - (i - 1))] /\ i + (j - (i - 1)) = j + 1
      BY <1>1, <1>3, <3>1
    <3> QED  BY <2>2, <3>1, <3>2, <3>3
  <2> QED  BY <2>1, <2>2
<1> QED  BY <1>4, <1>6, <1>7

-----------------------------------------------------------------------------
(* Answers in a sequence of messages.                                       *)

NoAnswer(s) == \A i \in 1..Len(s) : Type(s[i]) # "response"

\* ... to the request execute is waiting for
OneAnswer(s) ==
  \E k \in 1..Len(s) :
    s[k].current /\ \A i \in 1..Len(s) : Type(s[i]) = "response" => i = k

IsMessage(m) ==
  m = [tid |-> m.tid, code |-> m.code, of |-> m.of, v |-> m.v, current |-> m.current]
AreMessages(s) == IsSeq(s) /\ \A i \in 1..Len(s) : IsMessage(s[i])

\* What the modem sends is a message; only responses are.
LEMMA MessageTypes ==
  ASSUME NEW req, NEW v
  PROVE  /\ Type(Response(req, v)) = "response" /\ IsMessage(Response(req, v))
         /\ Response(req, v).current = req.current
         /\ IsAsync(req.name) => Type(Ack(req)) # "response"
         /\ IsMessage(Ack(req))
         /\ Type(ModeSetRspCb(v)) # "response" /\ IsMessage(ModeSetRspCb(v))
         /\ Type(AttachAllowedInd(v)) # "response" /\ IsMessage(AttachAllowedInd(v))
         /\ Type(Malformed) # "response" /\ IsMessage(Malformed)
<1> USE DEF IsMessage, Type, TypeOf, SyncTid, AsyncTid, AckCode
<1>1. Tid(req) \in {285212928, 285212929}
  BY DEF Tid, TidWord
<1>2. IsAsync(req.name) \in BOOLEAN
  BY DEF IsAsync
<1>3. 285212929 - (285212929 % 256) = 285212928
  OBVIOUS
<1>4. Type(Response(req, v)) = "response" /\ IsMessage(Response(req, v))
      /\ Response(req, v).current = req.current
  BY <1>1, <1>3 DEF Response, SomeCode
<1>5. IsMessage(Ack(req)) /\ Ack(req).code = 2000 /\ Ack(req).tid = Tid(req)
  BY DEF Ack
<1>6. IsAsync(req.name) => Type(Ack(req)) = "async_ack"
  <2>1. IsAsync(req.name) => Tid(req) = 285212929
    BY DEF Tid, TidWord
  <2> QED  BY <1>3, <1>5, <2>1
<1>7. 15 - (15 % 256) # 285212928 /\ 0 - (0 % 256) # 285212928
  OBVIOUS
<1>8. Type(ModeSetRspCb(v)) # "response" /\ IsMessage(ModeSetRspCb(v))
  BY <1>7 DEF ModeSetRspCb, Indication, ModeTid
<1>9. Type(AttachAllowedInd(v)) # "response" /\ IsMessage(AttachAllowedInd(v))
  BY <1>7 DEF AttachAllowedInd, Indication
<1>10. Type(Malformed) # "response" /\ IsMessage(Malformed)
  BY <1>7 DEF Malformed, Indication
<1> QED  BY <1>4, <1>5, <1>6, <1>8, <1>9, <1>10

\* Before anything is sent.
\* Before anything is sent.
LEMMA NothingSent == AreMessages(<<>>) /\ NoAnswer(<<>>)
<1>1. <<>> \in Seq({}) /\ Len(<<>>) = 0
  OBVIOUS
<1>2. IsSeq(<<>>)
  BY <1>1, IsSeqOf
<1> QED  BY <1>1, <1>2 DEF AreMessages, NoAnswer

\* A message more, at the end.
LEMMA AppendedAnswer ==
  ASSUME NEW s, AreMessages(s), NEW m, IsMessage(m)
  PROVE  /\ AreMessages(Append(s, m))
         /\ Type(m) # "response" /\ NoAnswer(s) => NoAnswer(Append(s, m))
         /\ Type(m) # "response" /\ OneAnswer(s) => OneAnswer(Append(s, m))
         /\ m.current /\ NoAnswer(s) => OneAnswer(Append(s, m))
<1> DEFINE t == Append(s, m)
<1>1. /\ IsSeq(t) /\ Len(s) \in Nat /\ Len(t) = Len(s) + 1
      /\ \A i \in 1..Len(s) : t[i] = s[i]
      /\ t[Len(s) + 1] = m
  BY Appended, SeqLen DEF AreMessages
<1> HIDE DEF t
<1>2. \A i \in 1..Len(t) : t[i] = IF i = Len(s) + 1 THEN m ELSE s[i]
  BY <1>1
<1>3. \A i \in 1..Len(t) : i = Len(s) + 1 \/ i \in 1..Len(s)
  BY <1>1
<1>4. AreMessages(t)
  BY <1>1, <1>2, <1>3 DEF AreMessages
<1>5. Type(m) # "response" /\ NoAnswer(s) => NoAnswer(t)
  BY <1>2, <1>3 DEF NoAnswer
<1>6. ASSUME Type(m) # "response", OneAnswer(s) PROVE OneAnswer(t)
  <2>1. PICK k \in 1..Len(s) :
          s[k].current /\ \A i \in 1..Len(s) : Type(s[i]) = "response" => i = k
    BY <1>6 DEF OneAnswer
  <2>2. k \in 1..Len(t) /\ t[k] = s[k]
    BY <1>1
  <2>3. \A i \in 1..Len(t) : Type(t[i]) = "response" => i = k
    BY <1>2, <1>3, <1>6, <2>1
  <2> QED  BY <2>1, <2>2, <2>3 DEF OneAnswer
<1>7. ASSUME m.current, NoAnswer(s) PROVE OneAnswer(t)
  <2>1. Len(s) + 1 \in 1..Len(t)
    BY <1>1
  <2>2. \A i \in 1..Len(t) : Type(t[i]) = "response" => i = Len(s) + 1
    BY <1>2, <1>3, <1>7 DEF NoAnswer
  <2> QED  BY <1>1, <1>7, <2>1, <2>2 DEF OneAnswer
<1> QED  BY <1>4, <1>5, <1>6, <1>7 DEF t

\* The first message read.
LEMMA ReadAnswer ==
  ASSUME NEW s, AreMessages(s), s # <<>>
  PROVE  /\ AreMessages(Tail(s))
         /\ NoAnswer(s) => NoAnswer(Tail(s)) /\ Type(Head(s)) # "response"
         /\ OneAnswer(s) /\ Type(Head(s)) # "response" =>
              OneAnswer(Tail(s)) \/ NoAnswer(Tail(s))
         /\ OneAnswer(s) /\ Type(Head(s)) = "response" =>
              Head(s).current /\ NoAnswer(Tail(s))
<1> DEFINE t == Tail(s)
<1>1. /\ Len(s) \in Nat /\ Len(s) > 0 /\ Head(s) = s[1]
      /\ IsSeq(t) /\ Len(t) = Len(s) - 1
      /\ \A i \in 1..Len(t) : t[i] = s[i + 1]
  BY Shortened, SeqLen DEF AreMessages
<1> HIDE DEF t
<1>2. \A i \in 1..Len(t) : i + 1 \in 1..Len(s) /\ i + 1 # 1
  BY <1>1
<1>3. 1 \in 1..Len(s)
  BY <1>1
<1>4. AreMessages(t)
  BY <1>1, <1>2 DEF AreMessages
<1>5. NoAnswer(s) => NoAnswer(t) /\ Type(Head(s)) # "response"
  BY <1>1, <1>2, <1>3 DEF NoAnswer
<1>6. ASSUME OneAnswer(s)
      PROVE  IF Type(Head(s)) = "response" THEN Head(s).current /\ NoAnswer(t)
                                           ELSE OneAnswer(t) \/ NoAnswer(t)
  <2>1. PICK k \in 1..Len(s) :
          s[k].current /\ \A i \in 1..Len(s) : Type(s[i]) = "response" => i = k
    BY <1>6 DEF OneAnswer
  <2>2. CASE k = 1
    <3>1. NoAnswer(t)
      BY <1>1, <1>2, <2>1, <2>2 DEF NoAnswer
    <3> QED  BY <1>1, <2>1, <2>2, <3>1
  <2>3. CASE k # 1
    <3>1. k - 1 \in 1..Len(t) /\ t[k - 1] = s[k]
      BY <1>1, <2>3
    <3>2. \A i \in 1..Len(t) : Type(t[i]) = "response" => i = k - 1
      BY <1>1, <1>2, <2>1
    <3>3. Type(Head(s)) # "response"
      BY <1>1, <1>3, <2>1, <2>3
    <3> QED  BY <2>1, <3>1, <3>2, <3>3 DEF OneAnswer
  <2> QED  BY <2>2, <2>3
<1> QED  BY <1>4, <1>5, <1>6 DEF t

\* The modem sends one of the messages it owes.
LEMMA SentAnswer ==
  ASSUME NEW s, AreMessages(s), NEW i \in 1..Len(s)
  PROVE  /\ AreMessages(RemoveAt(s, i)) /\ IsMessage(s[i])
         /\ NoAnswer(s) => NoAnswer(RemoveAt(s, i)) /\ Type(s[i]) # "response"
         /\ OneAnswer(s) => \/ s[i].current /\ NoAnswer(RemoveAt(s, i))
                            \/ Type(s[i]) # "response" /\ OneAnswer(RemoveAt(s, i))
<1> DEFINE t == RemoveAt(s, i)
<1>1. /\ Len(s) \in Nat /\ IsSeq(t) /\ Len(t) = Len(s) - 1
      /\ \A j \in 1..Len(t) : t[j] = IF j < i THEN s[j] ELSE s[j + 1]
  BY Removed, SeqLen DEF AreMessages
<1> HIDE DEF t
<1> DEFINE was(j) == IF j < i THEN j ELSE j + 1
<1>2. \A j \in 1..Len(t) : was(j) \in 1..Len(s) /\ was(j) # i /\ t[j] = s[was(j)]
  BY <1>1
<1>3. AreMessages(t) /\ IsMessage(s[i])
  BY <1>1, <1>2 DEF AreMessages
<1>4. NoAnswer(s) => NoAnswer(t) /\ Type(s[i]) # "response"
  BY <1>2 DEF NoAnswer
<1>5. ASSUME OneAnswer(s)
      PROVE  \/ s[i].current /\ NoAnswer(t)
             \/ Type(s[i]) # "response" /\ OneAnswer(t)
  <2>1. PICK k \in 1..Len(s) :
          s[k].current /\ \A j \in 1..Len(s) : Type(s[j]) = "response" => j = k
    BY <1>5 DEF OneAnswer
  <2>2. CASE k = i
    BY <1>2, <2>1, <2>2 DEF NoAnswer
  <2>3. CASE k # i
    <3> DEFINE l == IF k < i THEN k ELSE k - 1
    <3>1. l \in 1..Len(t) /\ was(l) = k
      BY <1>1, <2>3
    <3>2. \A j \in 1..Len(t) : was(j) = k => j = l
      BY <1>1, <2>3
    <3>3. \A j \in 1..Len(t) : Type(t[j]) = "response" => j = l
      BY <1>2, <2>1, <3>2
    <3>4. t[l].current /\ Type(s[i]) # "response"
      BY <1>2, <2>1, <2>3, <3>1
    <3> QED  BY <3>1, <3>3, <3>4 DEF OneAnswer
  <2> QED  BY <2>2, <2>3
<1> QED  BY <1>3, <1>4, <1>5 DEF t

Old(m) == [m EXCEPT !.current = FALSE]

\* An outdated message is of the same type.
\* An outdated message is of the same type.
LEMMA OldMessage ==
  ASSUME NEW m, IsMessage(m)
  PROVE  IsMessage(Old(m)) /\ Type(Old(m)) = Type(m)
<1>1. m = [tid |-> m.tid, code |-> m.code, of |-> m.of, v |-> m.v, current |-> m.current]
  BY DEF IsMessage
<1>2. DOMAIN m = {"tid", "code", "of", "v", "current"}
  BY <1>1
<1>3. Old(m) = [x \in DOMAIN m |-> IF x = "current" THEN FALSE ELSE m[x]]
  BY Zenon DEF Old
<1>4. Old(m) = [x \in {"tid", "code", "of", "v", "current"} |->
                  IF x = "current" THEN FALSE ELSE m[x]]
  BY <1>2, <1>3
<1> HIDE DEF Old
<1>5. Old(m).tid = m.tid /\ Old(m).code = m.code
  BY <1>4
<1>6. Old(m) = [tid |-> Old(m).tid, code |-> Old(m).code, of |-> Old(m).of,
                v |-> Old(m).v, current |-> Old(m).current]
  BY <1>4
<1> QED  BY <1>5, <1>6 DEF IsMessage, Type

\* The next request makes answers to the ones before outdated.
LEMMA OutdatedAnswer ==
  ASSUME NEW s, AreMessages(s)
  PROVE  AreMessages(Outdated(s)) /\ (NoAnswer(s) => NoAnswer(Outdated(s)))
<1> DEFINE t == Outdated(s)
<1>1. Len(s) \in Nat /\ \A i \in 1..Len(s) : IsMessage(s[i])
  BY SeqLen DEF AreMessages
<1>2. t = [i \in 1..Len(s) |-> Old(s[i])]
  BY Zenon DEF Outdated, Old
<1>3. t \in Seq({Old(s[i]) : i \in 1..Len(s)}) /\ Len(t) = Len(s)
      /\ \A i \in 1..Len(s) : t[i] = Old(s[i])
  <2> HIDE DEF t
  <2> QED  BY <1>1, <1>2
<1> HIDE DEF t
<1>4. IsSeq(t)
  BY <1>3, IsSeqOf
<1>5. \A i \in 1..Len(s) : IsMessage(t[i]) /\ Type(t[i]) = Type(s[i])
  BY <1>1, <1>3, OldMessage
<1> QED  BY <1>3, <1>4, <1>5 DEF AreMessages, NoAnswer, t

-----------------------------------------------------------------------------
(* What is under way between the client and the modem.                      *)

Tidy == AreMessages(owed) /\ AreMessages(inbox) /\ IsSeq(requests)

\* Nothing that execute could take for an answer, now or later ...
Idle == requests = <<>> /\ NoAnswer(owed) /\ NoAnswer(inbox)

\* ... or the request it waits for, or at most one answer, to this request.
Waiting ==
  \/ /\ Len(requests) = 1 /\ requests[1].current
     /\ NoAnswer(owed) /\ NoAnswer(inbox)
  \/ /\ requests = <<>>
     /\ \/ NoAnswer(owed) /\ NoAnswer(inbox)
        \/ OneAnswer(owed) /\ NoAnswer(inbox)
        \/ NoAnswer(owed) /\ OneAnswer(inbox)

Orderly == IF call = NoCall THEN Idle ELSE Waiting

\* Taking the only element leaves nothing.
\* Taking the only element leaves nothing.
LEMMA EmptyTail ==
  ASSUME NEW s, IsSeq(s), s # <<>>, Len(s) = 1 PROVE Tail(s) = <<>>
<1>1. \A S : \A t \in Seq(S) : Len(t) = 0 => t = <<>>
  OBVIOUS
<1>2. Tail(s) \in Seq(ToSet(s)) /\ Len(Tail(s)) = 0
  BY DEF IsSeq
<1> QED  BY <1>1, <1>2

\* A request may be written when nothing is under way.
\* A request may be written when nothing is under way.
LEMMA SendIsOrderly ==
  ASSUME Tidy, NEW name, name # NoCall, NEW arg, Send(name, arg)
  PROVE  Tidy' /\ (Orderly => Orderly')
<1> DEFINE request == [name |-> name, arg |-> arg, current |-> TRUE]
<1>1. IsSeq(Outdated(requests)) /\ Len(Outdated(requests)) = Len(requests)
  <2>1. Outdated(requests) = [i \in 1..Len(requests) |-> Old(requests[i])]
    BY Zenon DEF Outdated, Old
  <2>2. Len(requests) \in Nat
    BY SeqLen DEF Tidy
  <2>3. /\ [i \in 1..Len(requests) |-> Old(requests[i])]
             \in Seq({Old(requests[i]) : i \in 1..Len(requests)})
        /\ Len([i \in 1..Len(requests) |-> Old(requests[i])]) = Len(requests)
    BY <2>2
  <2> QED  BY <2>1, <2>3, IsSeqOf
<1>2. /\ requests' = Append(Outdated(requests), request)
      /\ owed' = Outdated(owed) /\ inbox' = Outdated(inbox)
      /\ call = NoCall /\ call' = name
  BY DEF Send
<1>3. /\ IsSeq(requests') /\ Len(requests') = Len(requests) + 1
      /\ requests'[Len(requests) + 1] = request
  BY <1>1, <1>2, Appended
<1>4. Tidy'
  BY <1>2, <1>3, OutdatedAnswer DEF Tidy
<1>5. ASSUME Idle PROVE Waiting'
  <2>1. Len(requests) = 0
    BY <1>5 DEF Idle
  <2>2. Len(requests') = 1 /\ requests'[1].current
    BY <1>3, <2>1
  <2>3. NoAnswer(owed') /\ NoAnswer(inbox')
    BY <1>2, <1>5, OutdatedAnswer DEF Idle, Tidy
  <2> QED  BY <2>2, <2>3 DEF Waiting
<1> QED  BY <1>2, <1>4, <1>5 DEF Orderly

\* Reading takes the first message.
\* Reading takes the first message.
LEMMA PumpIsTidy ==
  ASSUME Tidy, NEW m, Pump(m) PROVE Tidy' /\ inbox # <<>> /\ m = Head(inbox)
BY ReadAnswer DEF Tidy, Pump

\* What execute drops is no answer.
\* What execute drops is no answer.
LEMMA PumpOtherIsOrderly ==
  ASSUME Tidy, PumpOther PROVE Tidy' /\ (Orderly => Orderly')
<1>1. PICK m : /\ call # NoCall /\ Pump(m) /\ Type(m) # "response"
               /\ UNCHANGED call
  BY DEF PumpOther
<1>2. /\ AreMessages(inbox) /\ inbox # <<>> /\ m = Head(inbox) /\ Tidy'
      /\ inbox' = Tail(inbox) /\ UNCHANGED <<requests, owed>>
  BY <1>1, PumpIsTidy DEF Pump, Tidy
<1>3. Waiting => Waiting'
  BY <1>1, <1>2, ReadAnswer DEF Waiting
<1> QED  BY <1>1, <1>2, <1>3 DEF Orderly

\* In an orderly exchange execute gets the answer to its own request.
LEMMA PumpResponseIsOrderly ==
  ASSUME Tidy, NEW m, PumpResponse(m)
  PROVE  Tidy' /\ (Orderly => Orderly' /\ m.current)
<1>1. call # NoCall /\ call' = NoCall /\ Pump(m) /\ Type(m) = "response"
  BY DEF PumpResponse
<1>2. /\ AreMessages(inbox) /\ inbox # <<>> /\ m = Head(inbox) /\ Tidy'
      /\ inbox' = Tail(inbox) /\ UNCHANGED <<requests, owed>>
  BY <1>1, PumpIsTidy DEF Pump, Tidy
<1>3. Waiting => Idle' /\ m.current
  BY <1>1, <1>2, ReadAnswer DEF Waiting, Idle
<1> QED  BY <1>1, <1>2, <1>3 DEF Orderly

\* Outside execute there is none to read.
\* Outside execute there is none to read.
LEMMA PumpWaitingIsOrderly ==
  ASSUME Tidy, NEW m, PumpWaiting(m)
  PROVE  Tidy' /\ (Orderly => Orderly')
<1>1. call = NoCall /\ call' = call /\ Pump(m)
  BY DEF PumpWaiting
<1>2. /\ AreMessages(inbox) /\ inbox # <<>> /\ Tidy'
      /\ inbox' = Tail(inbox) /\ UNCHANGED <<requests, owed>>
  BY <1>1, PumpIsTidy DEF Pump, Tidy
<1>3. Idle => Idle'
  BY <1>2, ReadAnswer DEF Idle
<1> QED  BY <1>1, <1>2, <1>3 DEF Orderly

\* Nor does a message that cannot be parsed disturb the rest.
\* Nor does a message that cannot be parsed disturb the rest.
LEMMA PumpRaisesIsTidy ==
  ASSUME Tidy, NEW caught, PumpRaises(caught) PROVE Tidy'
BY ReadAnswer DEF Tidy, PumpRaises

\* Appending, as the modem does it.
\* Appending, as the modem does it.
LEMMA Concatenated ==
  ASSUME NEW s, IsSeq(s) PROVE s \o <<>> = s /\ \A e : s \o <<e>> = Append(s, e)
<1>1. s \in Seq(ToSet(s))
  BY DEF IsSeq
<1>2. s \o <<>> = s
  BY <1>1
<1>3. ASSUME NEW e PROVE s \o <<e>> = Append(s, e)
  <2>1. s \in Seq(ToSet(s) \cup {e})
    BY <1>1
  <2> QED  BY <2>1
<1> QED  BY <1>2, <1>3

\* The modem answers a request once; what it sends besides are no responses.
LEMMA ServeIsOrderly ==
  ASSUME Tidy, NEW req, NEW v, NEW also,
         also = <<>> \/ \E w : also = <<ModeSetRspCb(w)>>,
         Serve(req, v, also)
  PROVE  Tidy' /\ (Orderly => Orderly')
<1> DEFINE acked == owed \o (IF IsAsync(req.name) THEN <<Ack(req)>> ELSE <<>>)
          answered == acked \o <<Response(req, v)>>
<1>1. /\ requests # <<>> /\ req = Head(requests) /\ requests' = Tail(requests)
      /\ owed' = answered \o also /\ UNCHANGED <<call, inbox>>
  BY DEF Serve
<1>2. AreMessages(owed) /\ AreMessages(inbox) /\ IsSeq(requests)
  BY DEF Tidy
<1>3. AreMessages(acked) /\ (NoAnswer(owed) => NoAnswer(acked))
  <2>1. CASE IsAsync(req.name)
    <3>1. acked = Append(owed, Ack(req))
      BY <1>2, <2>1, Concatenated DEF AreMessages
    <3> QED  BY <1>2, <2>1, <3>1, MessageTypes, AppendedAnswer
  <2>2. CASE ~IsAsync(req.name)
    BY <1>2, <2>2, Concatenated DEF AreMessages
  <2> QED  BY <2>1, <2>2
<1> HIDE DEF acked
<1>4. /\ AreMessages(answered)
      /\ NoAnswer(acked) /\ req.current => OneAnswer(answered)
  <2>1. answered = Append(acked, Response(req, v))
    BY <1>3, Concatenated DEF AreMessages
  <2>2. IsMessage(Response(req, v)) /\ Response(req, v).current = req.current
    BY MessageTypes
  <2> QED  BY <1>3, <2>1, <2>2, AppendedAnswer
<1> HIDE DEF answered
<1>5. /\ AreMessages(answered \o also)
      /\ OneAnswer(answered) => OneAnswer(answered \o also)
  <2>1. CASE also = <<>>
    BY <1>4, <2>1, Concatenated DEF AreMessages
  <2>2. ASSUME NEW w, also = <<ModeSetRspCb(w)>>
        PROVE  /\ AreMessages(answered \o also)
               /\ OneAnswer(answered) => OneAnswer(answered \o also)
    <3>1. answered \o also = Append(answered, ModeSetRspCb(w))
      BY <1>4, <2>2, Concatenated DEF AreMessages
    <3>2. IsMessage(ModeSetRspCb(w)) /\ Type(ModeSetRspCb(w)) # "response"
      BY MessageTypes
    <3> QED  BY <1>4, <3>1, <3>2, AppendedAnswer
  <2> QED  BY <2>1, <2>2
<1>6. Tidy'
  BY <1>1, <1>2, <1>5, Shortened DEF Tidy
<1>7. ASSUME Waiting PROVE Waiting'
  <2>1. Len(requests) = 1 /\ requests[1].current /\ NoAnswer(owed) /\ NoAnswer(inbox)
    BY <1>1, <1>7 DEF Waiting
  <2>2. req.current /\ requests' = <<>>
    BY <1>1, <1>2, <2>1, Shortened, EmptyTail
  <2> QED  BY <1>1, <1>3, <1>4, <1>5, <2>1, <2>2 DEF Waiting
<1> QED  BY <1>1, <1>6, <1>7 DEF Orderly, Idle

\* A swallowed request is answered never, so not twice.
\* A swallowed request is answered never, so not twice.
LEMMA SwallowIsOrderly ==
  ASSUME Tidy, NEW why, Swallow(why) PROVE Tidy' /\ (Orderly => Orderly')
<1>1. /\ requests # <<>> /\ requests' = Tail(requests)
      /\ UNCHANGED <<call, owed, inbox>>
  BY DEF Swallow
<1>2. IsSeq(requests)
  BY DEF Tidy
<1>3. Len(requests) = 1 => requests' = <<>>
  BY <1>1, <1>2, EmptyTail
<1>4. Tidy'
  BY <1>1, <1>2, Shortened DEF Tidy
<1> QED  BY <1>1, <1>3, <1>4 DEF Orderly, Idle, Waiting

\* Sending moves the answer, in whatever order.
\* Sending moves the answer, in whatever order.
LEMMA ModemSendIsOrderly ==
  ASSUME Tidy, ModemSend PROVE Tidy' /\ (Orderly => Orderly')
<1>1. PICK i \in 1..Len(owed) :
        /\ owed' = RemoveAt(owed, i) /\ inbox' = Append(inbox, owed[i])
        /\ UNCHANGED <<call, requests>>
  BY DEF ModemSend
<1>2. AreMessages(owed) /\ AreMessages(inbox) /\ IsSeq(requests)
  BY DEF Tidy
<1>3. /\ AreMessages(owed') /\ IsMessage(owed[i])
      /\ NoAnswer(owed) => NoAnswer(owed') /\ Type(owed[i]) # "response"
      /\ OneAnswer(owed) => \/ owed[i].current /\ NoAnswer(owed')
                            \/ Type(owed[i]) # "response" /\ OneAnswer(owed')
  BY <1>1, <1>2, SentAnswer
<1>4. /\ AreMessages(inbox')
      /\ Type(owed[i]) # "response" /\ NoAnswer(inbox) => NoAnswer(inbox')
      /\ Type(owed[i]) # "response" /\ OneAnswer(inbox) => OneAnswer(inbox')
      /\ owed[i].current /\ NoAnswer(inbox) => OneAnswer(inbox')
  BY <1>1, <1>2, <1>3, AppendedAnswer
<1>5. Tidy'
  BY <1>1, <1>2, <1>3, <1>4 DEF Tidy
<1>6. (Idle => Idle') /\ (Waiting => Waiting')
  BY <1>1, <1>3, <1>4 DEF Idle, Waiting
<1> QED  BY <1>1, <1>5, <1>6 DEF Orderly

\* An indication is no answer.
\* An indication is no answer.
LEMMA IndicateIsOrderly ==
  ASSUME Tidy, NEW m, IsMessage(m), Type(m) # "response", Indicate(m)
  PROVE  Tidy' /\ (Orderly => Orderly')
<1>1. inbox' = Append(inbox, m) /\ UNCHANGED <<call, requests, owed>>
  BY DEF Indicate
<1>2. /\ AreMessages(inbox')
      /\ NoAnswer(inbox) => NoAnswer(inbox')
      /\ OneAnswer(inbox) => OneAnswer(inbox')
  BY <1>1, AppendedAnswer DEF Tidy
<1> QED  BY <1>1, <1>2 DEF Tidy, Orderly, Idle, Waiting

-----------------------------------------------------------------------------
(* The same messages as sets: which ones an operation adds, and which go.   *)

\* What the modem has sent or has yet to send.
Msgs == ToSet(owed) \cup ToSet(inbox)

\* The messages of a sequence.
\* The messages of a sequence.
LEMMA SetOf == ASSUME NEW s, IsSeq(s) PROVE ToSet(s) = {s[i] : i \in 1..Len(s)}
BY SeqLen DEF ToSet

\* One more at the end, ...
\* One more at the end, ...
LEMMA AppendedSet ==
  ASSUME NEW s, IsSeq(s), NEW e
  PROVE  ToSet(Append(s, e)) = ToSet(s) \cup {e}
<1>0. IsSeq(Append(s, e)) /\ Len(Append(s, e)) = Len(s) + 1
  BY Appended
<1>1. /\ ToSet(s) = {s[i] : i \in 1..Len(s)} /\ Len(s) \in Nat
      /\ ToSet(Append(s, e)) = {Append(s, e)[i] : i \in 1..Len(s) + 1}
  <2>1. ToSet(Append(s, e)) = {Append(s, e)[i] : i \in 1..Len(Append(s, e))}
    BY <1>0, SetOf
  <2> QED  BY <1>0, <2>1, SetOf, SeqLen
<1>2. \A i \in 1..Len(s) + 1 : Append(s, e)[i] = IF i = Len(s) + 1 THEN e ELSE s[i]
  BY <1>1, Appended
<1>3. \A i : i \in 1..Len(s) + 1 <=> i \in 1..Len(s) \/ i = Len(s) + 1
  BY <1>1
<1>4. ~(Len(s) + 1 \in 1..Len(s))
  BY <1>1
<1> QED  BY <1>1, <1>2, <1>3, <1>4

\* ... the first one taken, ...
\* ... the first one taken, ...
LEMMA ShortenedSet ==
  ASSUME NEW s, IsSeq(s), s # <<>>
  PROVE  ToSet(s) = {Head(s)} \cup ToSet(Tail(s))
<1>1. /\ ToSet(s) = {s[i] : i \in 1..Len(s)} /\ Len(s) \in Nat /\ Len(s) > 0
      /\ ToSet(Tail(s)) = {Tail(s)[i] : i \in 1..Len(s) - 1}
      /\ Head(s) = s[1] /\ \A i \in 1..Len(s) - 1 : Tail(s)[i] = s[i + 1]
  BY Shortened, SetOf, SeqLen
<1>2. \A i \in 1..Len(s) : i = 1 \/ (i - 1 \in 1..Len(s) - 1 /\ (i - 1) + 1 = i)
  BY <1>1
<1>3. \A i \in 1..Len(s) - 1 : i + 1 \in 1..Len(s)
  BY <1>1
<1>4. 1 \in 1..Len(s)
  BY <1>1
<1>5. ASSUME NEW x \in ToSet(s) PROVE x = Head(s) \/ x \in ToSet(Tail(s))
  BY <1>1, <1>2
<1>6. ASSUME NEW x \in ToSet(Tail(s)) PROVE x \in ToSet(s)
  BY <1>1, <1>3
<1>7. Head(s) \in ToSet(s)
  BY <1>1, <1>4
<1> QED  BY <1>5, <1>6, <1>7

\* ... any one taken, ...
\* ... any one taken, ...
LEMMA RemovedSet ==
  ASSUME NEW s, IsSeq(s), NEW i \in 1..Len(s)
  PROVE  ToSet(RemoveAt(s, i)) \subseteq ToSet(s) /\ s[i] \in ToSet(s)
<1>1. /\ ToSet(s) = {s[j] : j \in 1..Len(s)} /\ Len(s) \in Nat
      /\ ToSet(RemoveAt(s, i)) = {RemoveAt(s, i)[j] : j \in 1..Len(s) - 1}
      /\ \A j \in 1..Len(s) - 1 : RemoveAt(s, i)[j] = IF j < i THEN s[j] ELSE s[j + 1]
  BY Removed, SetOf, SeqLen
<1>2. \A j \in 1..Len(s) - 1 : j \in 1..Len(s) /\ j + 1 \in 1..Len(s)
  BY <1>1
<1> QED  BY <1>1, <1>2

\* ... more of them in a row, ...
\* ... more of them in a row, ...
LEMMA JoinedSet ==
  ASSUME NEW s, IsSeq(s), NEW t, IsSeq(t)
  PROVE  ToSet(s \o t) \subseteq ToSet(s) \cup ToSet(t)
<1>0. IsSeq(s \o t) /\ Len(s \o t) = Len(s) + Len(t)
  BY Joined
<1>1. /\ ToSet(s) = {s[i] : i \in 1..Len(s)} /\ ToSet(t) = {t[i] : i \in 1..Len(t)}
      /\ Len(s) \in Nat /\ Len(t) \in Nat
      /\ ToSet(s \o t) = {(s \o t)[i] : i \in 1..Len(s) + Len(t)}
  <2>1. ToSet(s \o t) = {(s \o t)[i] : i \in 1..Len(s \o t)}
    BY <1>0, SetOf
  <2> QED  BY <1>0, <2>1, SetOf, SeqLen
<1>2. \A i \in 1..Len(s) + Len(t) :
        i \in 1..Len(s) \/ (i - Len(s) \in 1..Len(t) /\ Len(s) + (i - Len(s)) = i)
  BY <1>1
<1> QED  BY <1>1, <1>2, Joined

\* ... and all of them outdated.
\* ... and all of them outdated.
LEMMA OutdatedSet ==
  ASSUME NEW s, AreMessages(s)
  PROVE  /\ \A n \in ToSet(Outdated(s)) : \E m \in ToSet(s) : n = Old(m) /\ IsMessage(m)
         /\ \A m \in ToSet(s) : Old(m) \in ToSet(Outdated(s))
<1>1. /\ ToSet(s) = {s[i] : i \in 1..Len(s)} /\ Len(s) \in Nat
      /\ \A i \in 1..Len(s) : IsMessage(s[i])
  BY SetOf, SeqLen DEF AreMessages
<1>2. Outdated(s) = [i \in 1..Len(s) |-> Old(s[i])]
  BY Zenon DEF Outdated, Old
<1>3. ToSet(Outdated(s)) = {Old(s[i]) : i \in 1..Len(s)}
  BY <1>2 DEF ToSet
<1> QED  BY <1>1, <1>3

\* Reading takes one of them, the next request makes copies of them, ...
LEMMA PumpSet ==
  ASSUME Tidy, NEW m, Pump(m)
  PROVE  /\ ToSet(inbox) = {m} \cup ToSet(inbox') /\ m \in Msgs /\ Msgs' \subseteq Msgs
         /\ Len(inbox') = Len(inbox) - 1
<1>1. /\ IsSeq(inbox) /\ inbox # <<>> /\ m = Head(inbox) /\ inbox' = Tail(inbox)
      /\ UNCHANGED owed
  BY DEF Pump, Tidy, AreMessages
<1>2. ToSet(inbox) = {m} \cup ToSet(inbox') /\ Len(inbox') = Len(inbox) - 1
  BY <1>1, Shortened, ShortenedSet
<1> QED  BY <1>1, <1>2 DEF Msgs

\* ... whether it can be parsed or not; ...
\* ... whether it can be parsed or not; ...
LEMMA PumpRaisesSet ==
  ASSUME Tidy, NEW caught, PumpRaises(caught)
  PROVE  /\ Msgs' \subseteq Msgs /\ ToSet(inbox) = {Head(inbox)} \cup ToSet(inbox')
         /\ Len(inbox') = Len(inbox) - 1
<1>1. IsSeq(inbox) /\ inbox # <<>> /\ inbox' = Tail(inbox) /\ UNCHANGED owed
  BY DEF PumpRaises, Tidy, AreMessages
<1>2. ToSet(inbox) = {Head(inbox)} \cup ToSet(inbox') /\ Len(inbox') = Len(inbox) - 1
  BY <1>1, Shortened, ShortenedSet
<1> QED  BY <1>1, <1>2 DEF Msgs

\* ... the next request outdates them all, ...
\* ... the next request outdates them all, ...
LEMMA SendSet ==
  ASSUME Tidy, NEW name, NEW arg, Send(name, arg), NEW n \in Msgs'
  PROVE  \E m \in Msgs : n = Old(m) /\ IsMessage(m)
<1>1. owed' = Outdated(owed) /\ inbox' = Outdated(inbox)
  BY DEF Send
<1> QED  BY <1>1, OutdatedSet DEF Tidy, Msgs

\* ... the modem adds its answer and what it sends with it, ...
LEMMA ServeSet ==
  ASSUME Tidy, NEW req, NEW v, NEW also, IsSeq(also), Serve(req, v, also), NEW m \in Msgs'
  PROVE  \/ m \in Msgs \/ m = Response(req, v) \/ m \in ToSet(also)
         \/ IsAsync(req.name) /\ m = Ack(req)
<1> DEFINE ack == IF IsAsync(req.name) THEN <<Ack(req)>> ELSE <<>>
<1>1. owed' = ((owed \o ack) \o <<Response(req, v)>>) \o also /\ inbox' = inbox
  BY DEF Serve
<1>2. IsSeq(owed)
  BY DEF Tidy, AreMessages
<1>3. \A e : IsSeq(<<e>>) /\ ToSet(<<e>>) = {e}
  <2> TAKE e
  <2>1. <<e>> \in Seq({e}) /\ Len(<<e>>) = 1 /\ <<e>>[1] = e
    OBVIOUS
  <2>2. IsSeq(<<e>>)
    BY <2>1, IsSeqOf
  <2>3. ToSet(<<e>>) = {<<e>>[i] : i \in 1..1}
    BY <2>1, <2>2, SetOf
  <2> QED  BY <2>1, <2>2, <2>3
<1>4. IsSeq(ack) /\ (\A e \in ToSet(ack) : IsAsync(req.name) /\ e = Ack(req))
  <2>1. CASE IsAsync(req.name)
    BY <1>3, <2>1
  <2>2. CASE ~IsAsync(req.name)
    BY <2>2, NothingSent DEF AreMessages, ToSet
  <2> QED  BY <2>1, <2>2
<1> HIDE DEF ack
<1>5. IsSeq(owed \o ack) /\ ToSet(owed \o ack) \subseteq ToSet(owed) \cup ToSet(ack)
  BY <1>2, <1>4, Joined, JoinedSet
<1>6. /\ IsSeq((owed \o ack) \o <<Response(req, v)>>)
      /\ ToSet((owed \o ack) \o <<Response(req, v)>>)
           \subseteq ToSet(owed \o ack) \cup {Response(req, v)}
  BY <1>3, <1>5, Joined, JoinedSet
<1>7. ToSet(owed') \subseteq ToSet((owed \o ack) \o <<Response(req, v)>>) \cup ToSet(also)
  BY <1>1, <1>6, JoinedSet
<1> QED  BY <1>1, <1>4, <1>5, <1>6, <1>7 DEF Msgs

\* ... sending keeps them, and an indication is one more.
LEMMA ModemSendSet ==
  ASSUME Tidy, ModemSend
  PROVE  /\ Msgs' \subseteq Msgs /\ ToSet(inbox) \subseteq ToSet(inbox')
         /\ Len(owed') + Len(inbox') = Len(owed) + Len(inbox)
<1>1. PICK i \in 1..Len(owed) : owed' = RemoveAt(owed, i) /\ inbox' = Append(inbox, owed[i])
  BY DEF ModemSend
<1>2. IsSeq(owed) /\ IsSeq(inbox) /\ Len(owed) \in Nat /\ Len(inbox) \in Nat
  BY SeqLen DEF Tidy, AreMessages
<1>3. ToSet(owed') \subseteq ToSet(owed) /\ owed[i] \in ToSet(owed)
  BY <1>1, <1>2, RemovedSet
<1>4. ToSet(inbox') = ToSet(inbox) \cup {owed[i]}
  BY <1>1, <1>2, AppendedSet
<1>5. Len(owed') = Len(owed) - 1 /\ Len(inbox') = Len(inbox) + 1
  BY <1>1, <1>2, Removed, Appended
<1> QED  BY <1>2, <1>3, <1>4, <1>5 DEF Msgs

\* ... an indication is one more.
\* ... an indication is one more.
LEMMA IndicateSet ==
  ASSUME Tidy, NEW m, Indicate(m)
  PROVE  /\ Msgs' = Msgs \cup {m} /\ ToSet(inbox') = ToSet(inbox) \cup {m}
         /\ Len(inbox') = Len(inbox) + 1
<1>1. inbox' = Append(inbox, m) /\ UNCHANGED owed /\ IsSeq(inbox)
  BY DEF Indicate, Tidy, AreMessages
<1>2. ToSet(inbox') = ToSet(inbox) \cup {m} /\ Len(inbox') = Len(inbox) + 1
  BY <1>1, AppendedSet, Appended
<1> QED  BY <1>1, <1>2 DEF Msgs

\* An answer takes one place, an acknowledgement another.
LEMMA ServeLength ==
  ASSUME Tidy, NEW req, NEW v, NEW also, IsSeq(also), Serve(req, v, also)
  PROVE  Len(owed') = Len(owed) + (IF IsAsync(req.name) THEN 1 ELSE 0) + 1 + Len(also)
<1> DEFINE ack == IF IsAsync(req.name) THEN <<Ack(req)>> ELSE <<>>
<1>1. owed' = ((owed \o ack) \o <<Response(req, v)>>) \o also
  BY DEF Serve
<1>2. IsSeq(owed) /\ Len(owed) \in Nat /\ Len(also) \in Nat
  BY SeqLen DEF Tidy, AreMessages
<1>3. \A e : IsSeq(<<e>>) /\ Len(<<e>>) = 1
  <2> TAKE e
  <2>1. <<e>> \in Seq({e}) /\ Len(<<e>>) = 1
    OBVIOUS
  <2> QED  BY <2>1, IsSeqOf
<1>4. IsSeq(ack) /\ Len(ack) = IF IsAsync(req.name) THEN 1 ELSE 0
  <2>1. CASE IsAsync(req.name)
    BY <1>3, <2>1
  <2>2. CASE ~IsAsync(req.name)
    BY <2>2, NothingSent DEF AreMessages
  <2> QED  BY <2>1, <2>2
<1> HIDE DEF ack
<1>5. IsSeq(owed \o ack) /\ Len(owed \o ack) = Len(owed) + Len(ack)
  BY <1>2, <1>4, Joined
<1>6. /\ IsSeq((owed \o ack) \o <<Response(req, v)>>)
      /\ Len((owed \o ack) \o <<Response(req, v)>>) = Len(owed \o ack) + 1
  <2>1. IsSeq(<<Response(req, v)>>) /\ Len(<<Response(req, v)>>) = 1
    BY <1>3
  <2> QED  BY <1>5, <2>1, Joined
<1>7. Len(owed') = Len((owed \o ack) \o <<Response(req, v)>>) + Len(also)
  BY <1>1, <1>6, Joined
<1> QED  BY <1>2, <1>4, <1>5, <1>6, <1>7

\* Outdating takes none.
\* Outdating takes none.
LEMMA SendLength ==
  ASSUME Tidy, NEW name, NEW arg, Send(name, arg)
  PROVE  Len(owed') = Len(owed) /\ Len(inbox') = Len(inbox)
<1>1. ASSUME NEW s, IsSeq(s) PROVE Len(Outdated(s)) = Len(s)
  <2>1. Len(s) \in Nat
    BY <1>1, SeqLen
  <2>2. Outdated(s) = [i \in 1..Len(s) |-> Old(s[i])]
    BY Zenon DEF Outdated, Old
  <2> QED  BY <2>1, <2>2
<1> QED  BY <1>1 DEF Send, Tidy, AreMessages
=============================================================================
