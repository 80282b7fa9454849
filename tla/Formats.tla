------------------------------ MODULE Formats -------------------------------
(***************************************************************************)
(* The wire formats of the Python programs at work: something is written   *)
(* by one side and read by the other.                                      *)
(*                                                                         *)
(*   fields   rpc.py packs values, rpc.py unpacks them, one after the      *)
(*            other                                                        *)
(*   message  a request of rpc.py, or what the modem sends it, is read by  *)
(*            handle_message                                               *)
(*   packet   mux.py wraps a packet, and takes it out again                *)
(*   stream   the modem's trace is read by trace.py in reads of any size   *)
(***************************************************************************)
EXTENDS RpcCodec

CONSTANTS FieldLists,  \* what is packed
          Bodies,      \* bodies of messages, as lists of fields
          CallbackTids,  \* transaction words of callbacks
          Packets,     \* what the tun device delivers
          Seqs,        \* sequence numbers of the frame before
          Frames,      \* frames of the trace: [raw, says, fatal]
          MaxFrames,   \* so many frames in a stream
          Reads,       \* sizes of the reads of the trace
          Muted

ASSUME ReadsAssumption == Reads \subseteq Nat \ {0}
\* pack raises on anything else.  (A list without fields has nothing to read.)
ASSUME FieldsAssumption ==
  /\ <<>> \notin FieldLists
  /\ \A fields \in FieldLists \cup Bodies :
       /\ fields \in Seq(ToSet(fields))
       /\ \A i \in 1..Len(fields) : Packable(fields[i])
\* handle_message takes any word without the upper bits 0x110001 for one of these.
ASSUME TidsAssumption ==
  \A tid \in CallbackTids : Fits(tid, 4) /\ tid - (tid % 256) # SyncTid
\* struct.pack raises when the length of a tag does not fit its field.
ASSUME PacketsAssumption ==
  \A packet \in Packets : packet \in Seq(0..255) /\ Len(packet) + 32 < 65536
ASSUME SeqsAssumption == Seqs \subseteq 0..255

M == INSTANCE MuxPacket
K == INSTANCE MuxFormat WITH MaxSize <- 16384, MaxPackets <- 64
T == INSTANCE TraceDecode

\* What trace.py makes of the bytes between two flags when they come alone.
Alone(raw) == IF raw = <<>> THEN T!Start ELSE T!unescaped_packet(T!Start, raw)

\* says and fatal are that; flags are escaped.
ASSUME FramesAssumption ==
  /\ MaxFrames \in Nat
  /\ \A f \in Frames :
       /\ f.raw \in Seq(0..255) /\ \A i \in 1..Len(f.raw) : f.raw[i] # T!Flag
       /\ Alone(f.raw).out = f.says /\ Alone(f.raw).ok = ~f.fatal

VARIABLES job,    \* what is converted
          sent,   \* how many fields have been written; 1 for other jobs
          wire,   \* its bytes
          at,     \* how many of them, or of the fields, have been read
          back    \* what the reader made of them

vars == <<job, sent, wire, at, back>>

Unread == [ok |-> FALSE]

Jobs ==
  [what : {"fields"}, fields : FieldLists]
    \cup [what : {"message"}, code : call_ids, txid : {SyncTid, AsyncTid}, body : Bodies]
    \cup [what : {"message"}, code : xmm7360_unsol, txid : CallbackTids, body : Bodies]
    \cup [what : {"packet"}, packet : Packets, seq : Seqs]
    \cup [what : {"open"}]
    \cup [what : {"stream"}, frames : BoundedSeq(Frames, MaxFrames), lead : {<<>>, <<9, 9>>}]

Init ==
  /\ job \in Jobs
  /\ sent = 0
  /\ wire = <<>>
  /\ at = 0
  /\ back = Unread

\* Frames of the trace share their flags; what comes before the first flag
\* belongs to a frame that had begun earlier.
Stream(frames, lead) ==
  lead \o FlattenSeq([i \in 1..Len(frames) |-> <<T!Flag>> \o frames[i].raw]) \o <<T!Flag>>

\* A message the modem sends of its own accord.
Callback(code, body, txid) == Framed(TotalLength(body, FALSE), code, txid, body)

Written == sent = (IF job.what = "fields" THEN Len(job.fields) ELSE 1)

Write ==
  /\ ~Written
  /\ sent' = sent + 1
  /\ wire' = CASE job.what = "fields" -> wire \o pack_field(job.fields[sent'])
               [] job.what = "message" ->
                    IF job.txid \in {SyncTid, AsyncTid}
                    THEN Request(job.code, pack(job.body), job.txid = AsyncTid)
                    ELSE Callback(job.code, pack(job.body), job.txid)
               [] job.what = "packet" -> M!package(job.seq, job.packet)
               [] job.what = "open" -> M!OpenCommand
               [] job.what = "stream" -> Stream(job.frames, job.lead)
  /\ back' = CASE job.what = "stream" -> T!Start
               [] job.what = "fields" -> [known |-> Parser(wire'), unknown |-> Parser(wire')]
               [] OTHER -> Unread
  /\ UNCHANGED <<job, at>>

Whole(what) == job.what = what /\ Written /\ at = 0

\* unpack, which is told the types, and unpack_unknown, side by side.
ReadField ==
  /\ job.what = "fields" /\ Written /\ at < Len(job.fields)
  /\ back.known.ok /\ back.unknown.ok /\ back.unknown.data # <<>>
  /\ at' = at + 1
  /\ back' = [known |-> unpack_char(IF job.fields[at'].kind = "s" THEN "s" ELSE "n", back.known),
              unknown |-> unpack_next(back.unknown)]
  /\ UNCHANGED <<job, sent, wire>>

ReadMessage ==
  /\ Whole("message")
  /\ back' = handle_message(wire)
  /\ at' = Len(wire)
  /\ UNCHANGED <<job, sent, wire>>

ReadPacket ==
  /\ Whole("packet") \/ Whole("open")
  /\ back' = [ok |-> TRUE, packets |-> M!read_mux(wire)]
  /\ at' = Len(wire)
  /\ UNCHANGED <<job, sent, wire>>

\* os.read of the trace returns some of what there is.
ReadTrace ==
  /\ job.what = "stream" /\ Written /\ at < Len(wire)
  /\ \E n \in Reads :
       /\ at + n <= Len(wire)
       /\ back' = T!read(back, SubSeq(wire, at + 1, at + n))
       /\ at' = at + n
  /\ UNCHANGED <<job, sent, wire>>

Next == Write \/ ReadField \/ ReadMessage \/ ReadPacket \/ ReadTrace

Spec == Init /\ [][Next]_vars

-----------------------------------------------------------------------------
(* Properties *)

HasRead(what) == job.what = what /\ Written /\ at = Len(wire)

\* A length of 256 and more is written with its first byte as the most
\* significant one and read with it as the least.
Symmetric(f) ==
  LET width == LengthBytes(Len(f.val))
  IN f.kind = "s" =>
       \/ Len(f.val) < 256
       \/ BigEndian(Len(f.val), width) = LittleEndian(Len(f.val), width)

\* What unpack hands out for a field: the elements of a string as bytes.
Value(f) ==
  IF f.kind = "s" THEN [i \in 1..(Len(f.val) * f.size) |-> Payload(f, i)] ELSE f.val

\* Unpacking what was packed gives back value after value and leaves nothing
\* over, with unpack and with unpack_unknown alike, as long as every string's
\* length reads the same in both byte orders (those of the bring-up do).
\* (_pack_string against take_string, which share no code.)
RoundTrip ==
  job.what = "fields" /\ Written /\ (\A i \in 1..at : Symmetric(job.fields[i])) =>
    /\ back.known.ok
    /\ back.known.out = [i \in 1..at |-> Value(job.fields[i])]
    /\ back.unknown = back.known
    /\ (back.known.data = <<>>) = (at = Len(job.fields))

\* What execute writes is as long as it asserts and has the shape
\* handle_message reads: code, transaction word and body come out as they went
\* in, and the values of the body as long as RoundTrip promises them.  A code of
\* a call is always a response and never stands for a callback, and a callback
\* is always unsolicited.  (UtaModeSet looks for its callback by the code
\* alone, whatever the type of the message.)
FramesAgree ==
  HasRead("message") =>
    /\ Len(wire) = TotalLength(pack(job.body), job.txid = AsyncTid) + 4
    /\ back.framed
    /\ back.code = job.code /\ back.tid = job.txid
    /\ back.body = pack(job.body)
    /\ (\A i \in 1..Len(job.body) : Symmetric(job.body[i])) =>
         /\ back.ok
         /\ back.content = [i \in 1..Len(job.body) |-> Value(job.body[i])]
    /\ back.type = (IF job.code \in call_ids THEN "response" ELSE "unsolicited")
    /\ (back.code \in xmm7360_unsol) = (back.type = "unsolicited")

\* mux.py finds its own packet again, behind its 16 bytes of padding, if the
\* frame is no longer than what read_mux reads at a time, and the frame is laid out as the driver lays out a frame of one packet: the second
\* header at the same place, named by the first, the same length, and sequence
\* numbers of one byte.  Its open command is as long as the driver's and is
\* not taken for packets.  (MuxPacket and XMMMux.package against MuxFormat,
\* the driver's arithmetic.)
MuxReadable ==
  LET start == K!TagEnd(0, 0)
  IN /\ HasRead("packet") =>
          LET adth == K!Align(start + K!Pad + Len(job.packet))
          IN /\ Len(wire) <= M!ReadSize => back.packets = <<M!Nulls(K!Pad) \o job.packet>>
             /\ M!Word(wire, 4) = 65536 * ((job.seq + 1) % 256)
             /\ M!Word(wire, 12) = adth
             /\ M!Word(wire, 8) = Len(wire)
             /\ Len(wire) = K!TagEnd(start + K!Pad + Len(job.packet), K!AdthWord + K!BoundsSize)
     /\ HasRead("open") =>
          /\ back.packets = <<>>
          /\ M!Word(wire, 8) = Len(wire) /\ Len(wire) = K!TagEnd(start, K!CmdhArgs)

\* The stream up to the flag behind frame k.
Upto(k, frames, lead) == Stream([i \in 1..k |-> frames[i]], lead)
\* The first n bytes of the stream hold k frames and the flags behind them.
Closed(n, k, frames, lead) ==
  /\ k = 0 \/ Len(Upto(k, frames, lead)) <= n
  /\ k = Len(frames) \/ n < Len(Upto(k + 1, frames, lead))
\* None of the first k frames ends the program.
Survived(k, frames) == \A j \in 1..k : ~frames[j].fatal
\* What they say, up to one that does.
Said(k, frames) ==
  FlattenSeq([j \in 1..k |-> IF Survived(j, frames) THEN frames[j].says ELSE <<>>])

\* However the stream is cut into reads, what each frame says by itself is
\* printed once and in order, as soon as its closing flag has been read; only a
\* frame of one byte or with an escape at its end stops the program.  (The main
\* loop of trace.py keeps a flag that both ends a frame and begins the next.)
TraceDecodes ==
  job.what = "stream" /\ Written =>
    \E k \in 0..Len(job.frames) :
      /\ Closed(at, k, job.frames, job.lead)
      /\ back.out = Said(k, job.frames)
      /\ back.ok = Survived(k, job.frames)
=============================================================================
