------------------------------ MODULE RpcCodec ------------------------------
(***************************************************************************)
(* The encoding of RPC messages in rpc.py: integers as 02 <width> <bytes>, *)
(* strings as 55/56/57 <valid> <count> <padding> <payload> <padding>, and  *)
(* the header of a request.  A message is a sequence of byte values.       *)
(*                                                                         *)
(* A parser consumes bytes from the front of its buffer.  It is modelled   *)
(* by what it has taken so far and what is left; ok turns false where the  *)
(* code raises (an assertion, an empty buffer, an unknown type).           *)
(*                                                                         *)
(* (Operators named X_Y are deliberate mistakes in X; nothing uses them.)  *)
(***************************************************************************)
EXTENDS RpcMessages, SequencesExt

BigEndian(n, width) ==
  [i \in 1..width |-> (n \div 256^(width - i)) % 256]
LittleEndian(n, width) == Reverse(BigEndian(n, width))
FromBigEndian(bytes) ==
  LET value[k \in 0..Len(bytes)] == IF k = 0 THEN 0 ELSE value[k-1] * 256 + bytes[k]
  IN value[Len(bytes)]
Zeros(n) == [i \in 1..n |-> 0]

-----------------------------------------------------------------------------
(* Packing.  A field is an integer [kind |-> "B"/"H"/"L", val] or a string  *)
(* [kind |-> "s", size, length, val]: elements of size bytes, padded to     *)
(* length elements.                                                         *)

IntWidth == [B |-> 1, H |-> 2, L |-> 4]

asn_int(n, width) == <<2, width>> \o BigEndian(n, width)
asn_int4(n) == asn_int(n, 4)

\* How many bytes the loop over "remain" emits for a valid of 128 and more.
LengthBytes(valid) == CHOOSE k \in 1..4 : 256^(k-1) <= valid /\ valid < 256^k

\* Each byte is inserted in front of the earlier, less significant ones.
valid_field(valid) ==
  IF valid < 128
  THEN <<valid>>
  ELSE <<128 + LengthBytes(valid)>> \o BigEndian(valid, LengthBytes(valid))

\* struct.pack raises when a value does not fit.
Fits(n, width) == n \in Nat /\ n \div 256^(width - 1) < 256

\* What pack takes for a field.
Packable(f) ==
  \/ /\ f.kind \in DOMAIN IntWidth
     /\ f = [kind |-> f.kind, val |-> f.val]
     /\ Fits(f.val, IntWidth[f.kind])
  \/ /\ f = [kind |-> "s", size |-> f.size, length |-> f.length, val |-> f.val]
     /\ f.size \in {1, 2, 4} /\ f.length \in Nat /\ f.val \in Seq(Nat)
     /\ Len(f.val) <= f.length
     /\ Fits(f.length * f.size, 4)
     /\ \A i \in 1..Len(f.val) : Fits(f.val[i], f.size)

\* Byte i of the elements, each in little-endian order.
Payload(f, i) == LittleEndian(f.val[((i - 1) \div f.size) + 1], f.size)[((i - 1) % f.size) + 1]

StringType(size) == CASE size = 1 -> 85 [] size = 2 -> 86 [] size = 4 -> 87

pack_string_CountsElements(f) ==
  LET valid == Len(f.val)
      padding == f.length - valid
  IN <<StringType(f.size)>>
     \o valid_field(valid)
     \o asn_int4(f.length * f.size) \o asn_int4(padding)
     \o [i \in 1..(valid * f.size) |-> Payload(f, i)]
     \o Zeros(padding)
pack_string(f) ==
  LET valid == Len(f.val)
      padding == (f.length - valid) * f.size
  IN <<StringType(f.size)>>
     \o valid_field(valid)
     \o asn_int4(f.length * f.size) \o asn_int4(padding)
     \o [i \in 1..(valid * f.size) |-> Payload(f, i)]
     \o Zeros(padding)

\* One iteration of pack's loop, and the whole.
pack_field(f) ==
  IF f.kind = "s" THEN pack_string(f) ELSE asn_int(f.val, IntWidth[f.kind])
pack(fields) == FlattenSeq([i \in 1..Len(fields) |-> pack_field(fields[i])])

-----------------------------------------------------------------------------
(* Unpacking.                                                               *)

Parser(data) == [data |-> data, out |-> <<>>, ok |-> TRUE]
Failed(p) == [p EXCEPT !.ok = FALSE]
Take(p, n) == [p EXCEPT !.data = SubSeq(@, n + 1, Len(@))]
Emit(p, v) == [p EXCEPT !.out = Append(@, v)]

take_asn_int(p) ==
  IF Len(p.data) < 2 \/ p.data[1] # 2 \/ Len(p.data) < 2 + p.data[2]
  THEN Failed(p)
  ELSE LET width == p.data[2]
       IN Emit(Take(p, 2 + width), FromBigEndian(SubSeq(p.data, 3, 2 + width)))

\* The bytes of the length, and the length of the payload in bytes.  A long
\* length is read with its first byte as the least significant.
LengthField(data) == IF data[2] >= 128 THEN 2 + (data[2] % 16) ELSE 2
ValidBytes(data) ==
  LET valid == IF data[2] >= 128
               THEN FromBigEndian(Reverse(SubSeq(data, 3, LengthField(data))))
               ELSE data[2]
  IN CASE data[1] = 85 -> valid [] data[1] = 86 -> valid * 2 [] data[1] = 87 -> valid * 4

StringStarts(data) ==
  Len(data) >= 2 /\ data[1] \in {85, 86, 87} /\ Len(data) >= LengthField(data)

take_string(p) ==
  IF ~StringStarts(p.data)
  THEN Failed(p)
  ELSE LET valid == ValidBytes(p.data)
           sizes == take_asn_int(take_asn_int(Parser(Take(p, LengthField(p.data)).data)))
           count == sizes.out[1]
           padding == sizes.out[2]
           payload == [p EXCEPT !.data = sizes.data]
       IN IF \/ ~sizes.ok
             \/ count # 0 /\ count # valid + padding
             \/ Len(sizes.data) < valid + padding
          THEN Failed(p)
          ELSE Emit(Take(payload, valid + padding), SubSeq(sizes.data, 1, valid))

\* One iteration of unpack's loop over its format, "n"s and "s"s.
unpack_char(ch, p) == IF ch = "n" THEN take_asn_int(p) ELSE take_string(p)

\* One iteration of unpack_unknown: the type of a value is its first byte.
unpack_next(p) ==
  IF p.data[1] = 2 THEN take_asn_int(p)
  ELSE IF p.data[1] \in {85, 86, 87} THEN take_string(p) ELSE Failed(p)

\* Its loop ends with the data; an iteration takes at least one byte.
unpack_while(p) == IF ~p.ok \/ p.data = <<>> THEN p ELSE unpack_next(p)
unpack_unknown(data) ==
  LET after[k \in 0..Len(data)] ==
        IF k = 0 THEN Parser(data) ELSE unpack_while(after[k-1])
  IN after[Len(data)]

-----------------------------------------------------------------------------
(* A request as execute writes it, and a message as handle_message reads    *)
(* it.  The modem frames its callbacks alike.  (A wrong length in the       *)
(* header is only printed.)                                                 *)

TotalLength(body, is_async) == Len(body) + 16 + (IF is_async THEN 6 ELSE 0)

Request_TidFirst(code, body, is_async) ==
  LittleEndian(TotalLength(body, is_async), 4)
    \o asn_int4(TotalLength(body, is_async))
    \o BigEndian(TidWord(is_async), 4) \o asn_int4(code)
    \o (IF is_async THEN asn_int4(AsyncTid) ELSE <<>>) \o body
Framed(total, code, tid, body) ==
  LittleEndian(total, 4) \o asn_int4(total) \o asn_int4(code) \o BigEndian(tid, 4) \o body
Request(code, body, is_async) ==
  Framed(TotalLength(body, is_async), code, TidWord(is_async),
         (IF is_async THEN asn_int4(AsyncTid) ELSE <<>>) \o body)

IsInt4(bytes) == Len(bytes) = 6 /\ IsPrefix(<<2, 4>>, bytes)

handle_message(message) ==
  LET code_p == SubSeq(message, 11, 16)
      code == FromBigEndian(SubSeq(code_p, 3, 6))
      txid == FromBigEndian(SubSeq(message, 17, 20))
      body == SubSeq(message, 21, Len(message))
      content == unpack_unknown(body)
      repeated == TypeOf(txid, code) = "response" /\ txid # SyncTid
  IN [ok |-> /\ IsInt4(SubSeq(message, 5, 10)) /\ IsInt4(code_p) /\ content.ok
             /\ repeated => content.out # <<>> /\ content.out[1] = txid,
      type |-> TypeOf(txid, code), tid |-> txid, code |-> code,
      framed |-> FromBigEndian(Reverse(SubSeq(message, 1, 4)))
                   = FromBigEndian(SubSeq(message, 7, 10)),
      body |-> IF repeated THEN SubSeq(body, 7, Len(body)) ELSE body,
      content |-> IF repeated THEN Tail(content.out) ELSE content.out]

-----------------------------------------------------------------------------
(* The requests of the bring-up: which fields, and how much of each string  *)
(* is used.                                                                 *)

Num(kind, val) == [kind |-> kind, val |-> val]
Text(length, val) == [kind |-> "s", size |-> 1, length |-> length, val |-> val]
Nums(kind, vals) == [i \in 1..Len(vals) |-> Num(kind, vals[i])]

pack_UtaMsNetAttachReq ==
  <<Num("B", 0)>> \o Nums("L", <<0, 0, 0, 0>>) \o Nums("H", <<65535, 65535>>)
    \o Nums("L", <<0, 0>>)
pack_UtaMsCallPsGetNegIpAddrReq == <<Num("B", 0), Num("L", 0), Num("L", 0)>>
pack_UtaMsCallPsGetNegotiatedDnsReq == <<Num("B", 0), Num("L", 0), Num("L", 0)>>
pack_UtaMsCallPsConnectReq == <<Num("B", 0)>> \o Nums("L", <<6, 0, 0>>)
\* bpath = path + b'\0': 24 bytes in all
pack_UtaRPCPsConnectToDatachannelReq == <<Text(24, [i \in 1..24 |-> i % 24])>>
pack_UtaSysGetInfo(index) == <<Num("L", 0), Text(0, <<>>), Num("L", index)>>

\* One of the four contexts of UtaMsCallPsAttachApnConfigReq: words are its
\* 21 L fields, room is the width of its APN field.
ApnContext(words, has_apn, apn_string, room) ==
  <<Text(260, Zeros(257)), Num("L", 0), Text(66, Zeros(65)), Text(65, Zeros(65)),
    Text(250, Zeros(250)), Num("B", 0), Text(252, Zeros(250)), Num("H", 0)>>
  \o Nums("L", words) \o <<Text(20, Zeros(20)), Num("L", has_apn), Text(room, apn_string)>>

\* The APN replaces the front of 101 zero bytes, and makes them more when it
\* is longer.
ApnString(apn) == apn \o Zeros(101 - Len(apn))
pack_UtaMsCallPsAttachApnConfigReq(apn) ==
  LET idle == Zeros(21)
      used == <<0, 0, 0, 0, 1, 0, 0, 0, 0, 0, 0, 0, 1, 0, 0, 1028, 1, 0, 1, 0, 0>>
  IN <<Num("B", 0)>>
     \o ApnContext(idle, 0, Zeros(101), 104) \o ApnContext(idle, 0, Zeros(101), 104)
     \o ApnContext(used, 3, ApnString(apn), 104) \o ApnContext(used, 3, ApnString(apn), 103)
     \o <<Num("B", 3), Num("L", 0)>>
=============================================================================
