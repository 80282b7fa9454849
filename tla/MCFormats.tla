----------------------------- MODULE MCFormats ------------------------------
(* Instance of Formats for TLC: see the .cfg file and the README.           *)
EXTENDS Formats

\* Strings on both sides of 128 and 256, of each element size, full, empty and
\* in between; integers of each width; the requests of the bring-up.
Sizes == {<<1, 0, 0>>, <<1, 4, 0>>, <<1, 4, 3>>, <<1, 4, 4>>, <<1, 130, 127>>,
          <<1, 130, 128>>, <<1, 300, 255>>, <<1, 300, 256>>, <<1, 300, 257>>,
          <<2, 3, 2>>, <<4, 3, 2>>, <<4, 200, 130>>}
MCString(s) ==
  [kind |-> "s", size |-> s[1], length |-> s[2], val |-> [i \in 1..s[3] |-> (i * 85) % 256]]
MCStrings == {MCString(s) : s \in Sizes}
MCInts == {Num("B", 0), Num("B", 255), Num("H", 258), Num("L", 16909060)}
MCApn(n) == [i \in 1..n |-> 64 + (i % 26)]
MCRequests ==
  {pack_UtaMsNetAttachReq, pack_UtaMsCallPsGetNegIpAddrReq, pack_UtaMsCallPsConnectReq,
   pack_UtaMsCallPsGetNegotiatedDnsReq, pack_UtaRPCPsConnectToDatachannelReq,
   pack_UtaSysGetInfo(7)}
  \cup {pack_UtaMsCallPsAttachApnConfigReq(MCApn(n)) : n \in {0, 6, 101, 103}}
MCFieldLists ==
  {<<f>> : f \in MCInts \cup MCStrings}
    \cup {<<f, g, h>> : f \in MCInts, g \in MCStrings, h \in MCInts}
    \cup MCRequests
MCBodies == {<<>>, <<Num("L", 0)>>, <<Text(4, <<1, 2>>), Num("B", 7)>>,
             <<Num("H", 9), MCString(<<1, 30, 20>>)>>}
\* (the largest packet one read can take, and one more byte)
MCPackets == {[i \in 1..n |-> (i * 77) % 256] : n \in 0..20 \cup {8136, 8137}}

\* Frames as the modem writes them: a header of nine or thirteen bytes, the
\* message, five bytes of checksum, with flags and escapes escaped.
MCEscaped(bytes) ==
  FlattenSeq([i \in 1..Len(bytes) |->
    IF bytes[i] \in {125, 126} THEN <<125, bytes[i] - 32>> ELSE <<bytes[i]>>])
MCEnvelope(stream, type, val, payload) ==
  MCEscaped(<<stream, 1, 0, 0, 0, 0, 0, type, val>>
            \o (IF val = 3 THEN <<1, 2, 3, 4>> ELSE <<>>) \o payload \o <<5, 5, 5, 5, 5>>)
MCFrame(raw, says) == [raw |-> raw, says |-> says, fatal |-> FALSE]
MCLine(bad, fmt, args) == <<[bad |-> bad, fmt |-> fmt, args |-> args]>>
MCText == <<72, 126, 125, 33>>
MCFormat == <<37, 115, 37, 48, 50, 108, 120>>   \* "%s%02lx"
\* a format of one word
MCWord(bad, fmt) ==
  MCFrame(MCEnvelope(0, 17, 0, fmt \o <<0, 1, 2, 3, 4>>),
          MCLine(bad, fmt, IF bad THEN <<>> ELSE <<<<1, 2, 3, 4>>>>))
MCFrames ==
  {MCFrame(MCEnvelope(0, 16, 0, MCText), MCLine(FALSE, MCText, <<>>)),
   MCFrame(MCEnvelope(0, 17, 3, MCFormat \o <<0, 65, 0, 1, 126, 3, 4>>),
           MCLine(FALSE, MCFormat, <<<<65>>, <<1, 126, 3, 4>>>>)),
   MCFrame(MCEnvelope(0, 17, 0, MCFormat \o <<0, 65, 0, 1>>), MCLine(TRUE, MCFormat, <<>>)),
   MCFrame(MCEnvelope(0, 17, 0, <<37, 53>>), MCLine(TRUE, <<37, 53>>, <<>>)),
   MCWord(FALSE, <<37, 32, 48, 56, 46, 51, 108, 120>>),   \* "% 08.3lx"
   MCWord(TRUE, <<37, 108, 108, 100>>),                   \* "%lld"
   MCWord(FALSE, <<37, 112>>),                            \* "%p"
   MCWord(TRUE, <<37, 48, 56, 112>>),                     \* "%08p"
   MCWord(TRUE, <<37, 53, 32, 100>>),                     \* "%5 d"
   MCFrame(MCEnvelope(0, 17, 0, <<37, 115, 0, 91, 77, 93>>), <<>>),
   MCFrame(MCEnvelope(1, 16, 0, MCText), <<>>),
   MCFrame(MCEnvelope(0, 16, 1, MCText), <<>>),
   MCFrame(<<0, 1, 2>>, <<>>),
   MCFrame(<<>>, <<>>),
   [raw |-> <<0>>, says |-> <<>>, fatal |-> TRUE],
   [raw |-> <<0, 1, 2, 125>>, says |-> <<>>, fatal |-> TRUE]}
MCMuted == {<<91, 77>>}
=============================================================================
