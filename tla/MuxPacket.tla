----------------------------- MODULE MuxPacket ------------------------------
(***************************************************************************)
(* The frames of the user-space multiplexer mux.py: MuxPacket, which       *)
(* builds one, package, which wraps a packet of the tun device, and        *)
(* read_mux, which takes the packets out of a received one.  A frame is a  *)
(* sequence of byte values.                                                *)
(*                                                                         *)
(* (Operators named X_Y are deliberate mistakes in X; nothing uses them.)  *)
(***************************************************************************)
EXTENDS Integers, SequencesExt

LE(n, width) == [i \in 1..width |-> (n \div 256^(i - 1)) % 256]
Word(frame, at) ==
  frame[at + 1] + 256 * frame[at + 2] + 65536 * frame[at + 3] + 16777216 * frame[at + 4]
Nulls(n) == [i \in 1..n |-> 0]

ADBH == <<65, 68, 66, 72>>
ADTH == <<65, 68, 84, 72>>
ACBH == <<65, 67, 66, 72>>
CMDH == <<67, 77, 68, 72>>

\* The bytes from offset at (counted from 0) become those of field.
Patch(frame, at, field) ==
  SubSeq(frame, 1, at) \o field \o SubSeq(frame, at + Len(field) + 1, Len(frame))

MuxPacket(seq) == [seq |-> seq, packet |-> <<>>, fwd_pointer |-> 0]

Padded_Unaligned(packet) == packet
\* while len(self.packet) & 3: self.packet += b'\0'
Padded(packet) == packet \o Nulls((4 - (Len(packet) % 4)) % 4)

append_tag(p, tag, data, extra) ==
  LET first == p.packet = <<>>
      aligned == Padded(p.packet)
      before == IF first THEN <<>> ELSE Patch(aligned, p.fwd_pointer, LE(Len(aligned), 4))
      name == IF first THEN tag \o LE(0, 2) \o LE(p.seq, 2) ELSE tag
      hdr == name \o LE(Len(name) + 8 + Len(data), 2) \o LE(extra, 2) \o LE(0, 4)
  IN [p EXCEPT !.packet = before \o hdr \o data,
               !.fwd_pointer = Len(before) + Len(hdr) - 4]

\* The length of the whole frame replaces that of the first tag.
get_packet(p) == Patch(p.packet, 8, LE(Len(p.packet), 4))

NextSeq(seq) == (seq + 1) % 256

\* seq is that of the frame before.
package(seq, packet_data) ==
  LET data == Nulls(16) \o packet_data
      bounds == LE(0, 4) \o LE(16, 4) \o LE(Len(data), 4)
  IN get_packet(append_tag(append_tag(MuxPacket(NextSeq(seq)), ADBH, data, 0), ADTH, bounds, 0))

\* The open command __init__ sends.
OpenCommand ==
  get_packet(append_tag(append_tag(MuxPacket(0), ACBH, <<>>, 0),
                        CMDH, LE(1, 4) \o Nulls(12), 0))

ReadSize == 8192
\* os.read: what is longer than the read is cut off (the device hands out one
\* message at a time, and drops the rest of it).
os_read(frame) == IF Len(frame) <= ReadSize THEN frame ELSE SubSeq(frame, 1, ReadSize)

\* The packets written to the tun device.  Whatever follows the ADTH header
\* and its first word is taken for bounds.
read_mux(frame) ==
  LET data == os_read(frame)
      sublen == Word(data, 12)
      tail == SubSeq(data, sublen + 1, Len(data))
      bounds == SubSeq(tail, 17, Len(tail))
      puk(i) == LET offset == Word(bounds, 8 * (i - 1))
                    length == Word(bounds, 8 * (i - 1) + 4)
                IN SubSeq(data, offset + 1, offset + length)
  IN IF IsPrefix(ADBH, data) /\ IsPrefix(ADTH, tail)
     THEN [i \in 1..(Len(bounds) \div 8) |-> puk(i)]
     ELSE <<>>
=============================================================================
