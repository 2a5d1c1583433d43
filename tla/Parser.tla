------------------------------- MODULE Parser -------------------------------
(* The parser of socket.io packets.  A packet becomes one text frame, or,  *)
(* when its data holds binary values, a text frame with placeholders for   *)
(* them and then one frame for each.  A text frame is the sequence of its  *)
(* fields: type, number of attachments, id, data as JSON; what a field     *)
(* looks like in characters is left out, as is the namespace, which is the *)
(* default one.  The data of a packet is a list of values; values within   *)
(* values are left out.                                                    *)
EXTENDS Naturals, Sequences, SequencesExt

BinaryTypes == {"binary_event", "binary_ack"}

(* Values.                                                                 *)
Plain(v) == [kind |-> "plain", v |-> v]
Buffer(v) == [kind |-> "buffer", v |-> v]
Placeholder(num) == [kind |-> "placeholder", v |-> num]

Json(shape, values) == [shape |-> shape, values |-> values]
NoData == Json("undefined", <<>>)

(* Frames.                                                                 *)
Field(name, value) == [name |-> name, value |-> value]
Text(fields) == [binary |-> FALSE, body |-> fields]
Binary(value) == [binary |-> TRUE, body |-> value]
-----------------------------------------------------------------------------
(* Encoder.                                                                *)

HasBinary(packet) ==
    \E i \in DOMAIN packet.data.values : packet.data.values[i].kind = "buffer"

(* deconstructPacket: binary values are taken out and numbered.            *)
Buffers(values) ==
    FoldLeft(LAMBDA found, v : IF v.kind = "buffer" THEN Append(found, v) ELSE found,
             <<>>, values)

Deconstruct(values) ==
    [i \in DOMAIN values |->
        IF values[i].kind = "buffer"
        THEN Placeholder(Len(Buffers(SubSeq(values, 1, i - 1))))
        ELSE values[i]]

EncodeAsString(packet) ==
    Text(<<Field("type", packet.type)>>
         \o (IF packet.type \in BinaryTypes
             THEN <<Field("attachments", packet.attachments)>> ELSE <<>>)
         \o [i \in DOMAIN packet.id |-> Field("id", packet.id[i])]
         \o (IF packet.data = NoData THEN <<>> ELSE <<Field("json", packet.data)>>))

EncodeAsBinary(packet) ==
    LET buffers == Buffers(packet.data.values) IN
    <<EncodeAsString([packet EXCEPT !.data.values = Deconstruct(@),
                                    !.attachments = Len(buffers)])>>
    \o [i \in DOMAIN buffers |-> Binary(buffers[i])]

(* Encoder.encode; it is the packet itself whose type is changed.          *)
Encode(packet) ==
    IF packet.type \in {"event", "ack"} /\ HasBinary(packet)
    THEN EncodeAsBinary([packet EXCEPT !.type = IF @ = "event" THEN "binary_event"
                                                ELSE "binary_ack"])
    ELSE <<EncodeAsString(packet)>>
-----------------------------------------------------------------------------
(* Decoder.  Its reconstructor is <<>> or holds a packet whose binary      *)
(* values are yet to come.  A reconstructor that destroy() has finished    *)
(* throws an exception at a binary frame, as no reconstructor does: it is  *)
(* <<>> too.                                                               *)

IsPayloadValid(type, data) ==
    CASE type = "connect" -> data.shape = "object"
      [] type = "disconnect" -> FALSE
      [] type \in {"event", "binary_event"} -> data.shape = "array" /\ data.values # <<>>
      [] type \in {"ack", "binary_ack"} -> data.shape = "array"

(* Decoder.decodeString: the fields that are there, from the left.         *)
DecodeString(fields) ==
    LET type == fields[1].value
        binary == type \in BinaryTypes
        i == IF binary THEN 3 ELSE 2
        hasId == i <= Len(fields) /\ fields[i].name = "id"
        j == IF hasId THEN i + 1 ELSE i
        data == IF j <= Len(fields) THEN fields[j].value ELSE NoData
    IN  [valid |-> /\ binary => Len(fields) > 1 /\ fields[2].name = "attachments"
                   /\ j <= Len(fields) => IsPayloadValid(type, data),
         packet |-> [type |-> type, data |-> data,
                     id |-> IF hasId THEN <<fields[i].value>> ELSE <<>>,
                     attachments |-> IF binary THEN fields[2].value ELSE 0]]

(* reconstructPacket: every placeholder is replaced by its buffer.         *)
Reconstruct(packet, buffers) ==
    [packet EXCEPT !.attachments = 0,
        !.data.values = [i \in DOMAIN @ |->
                            IF @[i].kind = "placeholder" THEN buffers[@[i].v + 1] ELSE @[i]]]

Decoded(reconstructor, packets) ==
    [reconstructor |-> reconstructor, packets |-> packets, threw |-> FALSE]

Throws(reconstructor) == [Decoded(reconstructor, <<>>) EXCEPT !.threw = TRUE]

(* BinaryReconstructor.takeBinaryData.                                     *)
TakeBinaryData(r, value) ==
    LET buffers == Append(r.buffers, value) IN
    IF Len(buffers) = r.packet.attachments
    THEN Decoded(<<>>, <<Reconstruct(r.packet, buffers)>>)
    ELSE Decoded(<<[r EXCEPT !.buffers = buffers]>>, <<>>)

(* Decoder.add: the reconstructor it leaves, the packets it emits, whether *)
(* it throws an exception.                                                 *)
DecoderAdd(reconstructor, frame) ==
    IF frame.binary
    THEN IF reconstructor = <<>> THEN Throws(reconstructor)
         ELSE TakeBinaryData(reconstructor[1], frame.body)
    ELSE LET d == DecodeString(frame.body) IN
         IF ~d.valid THEN Throws(reconstructor)
         ELSE IF d.packet.type \notin BinaryTypes THEN Decoded(reconstructor, <<d.packet>>)
         ELSE Decoded(<<[packet |-> d.packet, buffers |-> <<>>]>>,
                      IF d.packet.attachments = 0 THEN <<d.packet>> ELSE <<>>)

(* The other side's decoder: the packets that a sequence of frames holds   *)
(* from its beginning.                                                     *)
PacketAt(frames, k) ==
    LET packet == DecodeString(frames[k].body).packet IN
    Reconstruct(packet, [i \in 1 .. packet.attachments |-> frames[k + i].body])

EndsAt(frames, k, end) ==
    /\ ~frames[k].binary
    /\ end = k + IF frames[k].body[1].value \in BinaryTypes
                 THEN frames[k].body[2].value ELSE 0

PacketsOf(frames) ==
    FoldLeftDomain(LAMBDA found, k : IF frames[k].binary THEN found
                                     ELSE Append(found, PacketAt(frames, k)),
                   <<>>, frames)
=============================================================================
