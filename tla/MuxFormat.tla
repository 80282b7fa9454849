----------------------------- MODULE MuxFormat ------------------------------
(***************************************************************************)
(* The arithmetic of the multiplexed frames wwan0 exchanges with the       *)
(* modem, as pure operators.  A frame is one TX buffer: a first header     *)
(* (ADBH), the packets, each behind 16 bytes of padding, a second header   *)
(* (ADTH) aligned to four bytes, and one bounds entry per packet.          *)
(***************************************************************************)
EXTENDS Integers

CONSTANTS MaxSize,    \* page_size of TX ring 0: TD_MAX_PAGE_SIZE = 16384
          MaxPackets  \* MUX_MAX_PACKETS = 64

\* The code never asks for a page that is not a whole number of words, nor for
\* one whose offsets do not fit the headers' 16-bit fields.
ASSUME MaxSizeAssumption == MaxSize \in Nat /\ MaxSize % 4 = 0 /\ MaxSize < 65536
ASSUME MaxPacketsAssumption == MaxPackets \in Nat \ {0}

FirstHeader == 16   \* sizeof(struct mux_first_header)
NextHeader == 12   \* sizeof(struct mux_next_header)
BoundsSize == 8    \* sizeof(struct mux_bounds)
Pad == 16
CmdhArgs == 16   \* mux_control's four words
AdthWord == 4    \* the "unknown" word behind the ADTH header

\* (Operators named X_Y, with Y saying what is wrong, are not part of the
\* model: each is a plausible mistake in X that a property must notice.)

\* while (frame->n_bytes & 3) frame->n_bytes++;
Align_Unaligned(n) == n
Align(n) == n + ((4 - (n % 4)) % 4)

\* mux_frame_add_tag: where the tag goes, and whether header and data fit.
\* (Its length field is total_length, its header size depends on n_bytes.)
HeaderSize(n_bytes) == IF n_bytes = 0 THEN FirstHeader ELSE NextHeader
TagFits(n_bytes, data_len) ==
  Align(n_bytes) + HeaderSize(n_bytes) + data_len <= MaxSize
TagEnd(n_bytes, data_len) == Align(n_bytes) + HeaderSize(n_bytes) + data_len

\* mux_frame_append_data
DataFits(n_bytes, data_len) == n_bytes + data_len <= MaxSize

\* mux_frame_append_packet: room must remain for the ADTH of n_packets + 1.
PacketFits(n_packets, n_bytes, len) ==
  /\ n_packets < MaxPackets
  /\ n_bytes + len + 16 + NextHeader + 4 + (n_packets + 1) * BoundsSize <= MaxSize

\* net_must_flush: would one more packet of length new overflow the frame?
must_flush_NoBounds(queued_packets, queued_bytes, new) ==
  \/ queued_packets >= MaxPackets
  \/ FirstHeader + queued_bytes + NextHeader + 4 + BoundsSize * queued_packets
       + 16 + new > MaxSize
must_flush(queued_packets, queued_bytes, new) ==
  \/ queued_packets >= MaxPackets
  \/ FirstHeader + queued_bytes + NextHeader + 4 + BoundsSize * queued_packets
       + 16 + new + BoundsSize > MaxSize
=============================================================================
