---------------------------- MODULE TraceDecode -----------------------------
(***************************************************************************)
(* trace.py: cuts the modem's trace stream into frames at 0x7e, undoes the *)
(* escapes, and prints the frames that hold a message.  The stream comes   *)
(* in reads of any size.                                                   *)
(*                                                                         *)
(* A decoder is what it keeps between reads (buf), what it printed (out),  *)
(* and whether it still runs (ok): an exception outside decode_printf ends *)
(* the program.                                                            *)
(*                                                                         *)
(* (Operators named X_Y are deliberate mistakes in X; nothing uses them.)  *)
(***************************************************************************)
EXTENDS Integers, SequencesExt

CONSTANT Muted   \* the words log looks for ('shm_sensor', 'store_metric', '[ME]')

Flag == 126       \* 0x7e
Escape == 125     \* 0x7d
Percent == 37

\* bytes.find(byte, from): positions count from 1, and 0 stands for "none"
Find(byte, s, from) == SelectInSubSeq(s, from, Len(s), LAMBDA ch : ch = byte)
From(s, at) == SubSeq(s, at, Len(s))

-----------------------------------------------------------------------------
(* unescape: ch | (1 << 5) for the byte behind an escape; next(packet)      *)
(* raises when the escape is the last byte.                                 *)

SetBit5_Verbatim(ch) == ch
SetBit5(ch) == IF (ch \div 32) % 2 = 1 THEN ch ELSE ch + 32

UnescapeStep(u, ch) ==
  IF u.escaped THEN [packet |-> Append(u.packet, SetBit5(ch)), escaped |-> FALSE]
  ELSE IF ch = Escape THEN [u EXCEPT !.escaped = TRUE]
  ELSE [u EXCEPT !.packet = Append(@, ch)]
unescape(packet) ==
  FoldLeft(UnescapeStep, [packet |-> <<>>, escaped |-> FALSE], packet)

-----------------------------------------------------------------------------
(* decode_printf: the format is followed by its arguments, strings up to    *)
(* their NUL and words of four bytes.  Whatever cannot be decoded is        *)
(* printed as a bad format.                                                 *)

\* (a string without a NUL ends with the payload)
take_string(payload) ==
  LET nul == Find(0, payload, 1)
  IN IF nul = 0 THEN [val |-> payload, rest |-> <<>>]
     ELSE [val |-> SubSeq(payload, 1, nul - 1), rest |-> From(payload, nul + 1)]
\* struct.unpack('<L', ...), kept as its four bytes
take_int(payload) == [val |-> SubSeq(payload, 1, 4), rest |-> From(payload, 5)]

Digits == 48..57
Spaces == (9..13) \cup (28..32)
Skipped == Digits \cup Spaces \cup {46, 108}    \* ... '.', 'l'
Pointer == 112                          \* 'p'
WordTypes == {100, 120, Pointer, 117, 105}  \* 'dxpui'
StringType == 115

\* The conversion character of the directive whose '%' is at where.
Conversion(fmt, where) ==
  SelectInSubSeq(fmt, where + 1, Len(fmt), LAMBDA ch : ch \notin Skipped)

\* fmt % tuple(args) raises unless what stands before the type is flags, a
\* width, a precision and one 'l' (each of them or none, in this order).  It
\* does not know 'p': only a bare "%p" is replaced.
PythonTakes(spec, type) ==
  LET Within(from, to, chars) == \A i \in from..to : spec[i] \in chars
  IN IF type = Pointer THEN spec = <<>>
     ELSE \E width, dot, long \in 1..(Len(spec) + 1) :
            /\ width <= dot /\ dot <= long /\ long >= Len(spec)
            /\ Within(1, width - 1, {32, 48})
            /\ Within(width, dot - 1, Digits)
            /\ Within(dot, Min({dot, long - 1}), {46}) /\ Within(dot + 1, long - 1, Digits)
            /\ Within(long, Len(spec), {108})

\* One iteration of the loop over the directives; where = 0 ends it.  (What
\* Python rejects in the end makes the format a bad one as well.)
directive(fmt, s) ==
  LET at == Conversion(fmt, s.where)
      took == IF fmt[at] = StringType THEN take_string(s.payload) ELSE take_int(s.payload)
  IN IF s.where = 0 THEN s
     ELSE IF \/ at = 0
             \/ fmt[at] \notin WordTypes \cup {StringType}
             \/ fmt[at] \in WordTypes /\ Len(s.payload) < 4
             \/ ~PythonTakes(SubSeq(fmt, s.where + 1, at - 1), fmt[at])
          THEN [s EXCEPT !.where = 0, !.bad = TRUE, !.args = <<>>]
          ELSE [s EXCEPT !.where = Find(Percent, fmt, at), !.payload = took.rest,
                         !.args = Append(@, took.val)]

\* (a format has no more directives than characters)
decode_printf(payload) ==
  LET f == take_string(payload)
      fmt == f.val
      after[k \in 0..Len(fmt)] ==
        IF k = 0
        THEN [where |-> Find(Percent, fmt, 1), payload |-> f.rest, args |-> <<>>, bad |-> FALSE]
        ELSE directive(fmt, after[k-1])
  IN [bad |-> after[Len(fmt)].bad, fmt |-> fmt, args |-> after[Len(fmt)].args]

-----------------------------------------------------------------------------
(* handle_packet: prints a frame, or leaves it.  Its first two bytes are    *)
(* unpacked before its length is tested.                                    *)

\* (A muted word is looked for in the format and in each argument.)
Says(texts, word) ==
  \E k \in 1..Len(texts) : \E i \in 1..Len(texts[k]) : IsPrefix(word, From(texts[k], i))
log(d, line, texts) ==
  IF \E word \in Muted : Says(texts, word) THEN d ELSE [d EXCEPT !.out = Append(@, line)]

PrintType == 16    \* 0x10
PrintfType == 17   \* 0x11

handle_packet(d, framed) ==
  LET packet == SubSeq(framed, 1, Len(framed) - 5)   \* without the checksum
      payload == From(packet, IF packet[9] = 0 THEN 10 ELSE 14)
  IN IF Len(framed) < 2 THEN [d EXCEPT !.ok = FALSE]
     ELSE IF \/ Len(framed) < 13
             \/ framed[1] # 0 \/ framed[8] \notin {PrintType, PrintfType}
             \/ Len(packet) <= 8
             \/ packet[9] \notin {0, 3}
          THEN d
     ELSE IF packet[8] = PrintType THEN log(d, [bad |-> FALSE, fmt |-> payload, args |-> <<>>], <<payload>>)
     ELSE LET line == decode_printf(payload) IN log(d, line, <<line.fmt>> \o line.args)

-----------------------------------------------------------------------------
(* The main loop.  A flag ends one frame and begins the next.               *)

Start == [buf |-> <<>>, out |-> <<>>, ok |-> TRUE]

unescaped_packet(d, packet) ==
  LET u == unescape(packet)
  IN IF u.escaped THEN [d EXCEPT !.ok = FALSE] ELSE handle_packet(d, u.packet)

Rest_BehindFlag(buf, end) == From(buf, end + 1)
\* buf = buf[end:] keeps the flag
Rest(buf, end) == From(buf, end)

\* One iteration of the inner loop, which a buffer without a second flag ends.
cut_one(d) ==
  LET end == Find(Flag, d.buf, 2)
      packet == SubSeq(d.buf, 2, end - 1)
      next == [d EXCEPT !.buf = Rest(d.buf, end)]
  IN IF ~d.ok \/ end = 0 THEN d
     ELSE IF packet = <<>> THEN next ELSE unescaped_packet(next, packet)
\* Each takes at least one byte.
cut(d) ==
  LET after[k \in 0..Len(d.buf)] == IF k = 0 THEN d ELSE cut_one(after[k-1])
  IN after[Len(d.buf)]

read(d, new) ==
  LET buf == d.buf \o new
      start == Find(Flag, buf, 1)
  IN IF ~d.ok THEN d
     ELSE IF start = 0 THEN [d EXCEPT !.buf = <<>>]
     ELSE cut([d EXCEPT !.buf = From(buf, start)])
=============================================================================
