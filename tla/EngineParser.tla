---------------------------- MODULE EngineParser ----------------------------
(* The parser of engine.io packets.  A packet becomes a frame of its own   *)
(* on the websocket, and a part of a payload in the body of a request.  A  *)
(* string is the sequence of its symbols: a character that the parser      *)
(* looks at, or a whole text, which it does not (and in which there is no  *)
(* separator, as JSON writes control characters as escapes).  A binary     *)
(* frame is the buffer.                                                    *)
EXTENDS Naturals, Sequences, FiniteSets, SequencesExt

Symbol(kind, v) == [kind |-> kind, v |-> v]
Char(code) == Symbol("char", code)

PACKET_TYPES ==
    [open |-> Char(48), close |-> Char(49), ping |-> Char(50), pong |-> Char(51),
     message |-> Char(52), upgrade |-> Char(53), noop |-> Char(54)]

SEPARATOR == Char(30)
ERROR_PACKET == [type |-> "error", data |-> <<>>]
-----------------------------------------------------------------------------
IsBinary(string) == string # <<>> /\ string[1].kind = "buffer"

(* encodeBlobAsBase64.  It reads the blob before it goes on, so that the   *)
(* request is made later; the server gets a request later than it was made *)
(* in any case.                                                            *)
Base64(buffer) == <<Char(98), Symbol("base64", buffer.v)>>

EncodePacket(packet, supportsBinary) ==
    IF ~IsBinary(packet.data) THEN <<PACKET_TYPES[packet.type]>> \o packet.data
    ELSE IF supportsBinary THEN packet.data
    ELSE Base64(packet.data[1])

(* Binary packets are base64 in a payload.                                 *)
EncodePayload(packets) ==
    Tail(FlattenSeq([i \in DOMAIN packets |->
                        <<SEPARATOR>> \o EncodePacket(packets[i], FALSE)]))

DecodePacket(frame) ==
    LET types == {t \in DOMAIN PACKET_TYPES : frame # <<>> /\ PACKET_TYPES[t] = frame[1]} IN
    IF IsBinary(frame) THEN [type |-> "message", data |-> frame]
    ELSE IF frame # <<>> /\ frame[1] = Char(98)
    THEN [type |-> "message", data |-> <<Symbol("buffer", frame[2].v)>>]
    ELSE IF types = {} THEN ERROR_PACKET
    ELSE [type |-> CHOOSE t \in types : TRUE, data |-> Tail(frame)]

(* The parts between separators.                                           *)
Parts(payload) ==
    LET ends == {i \in DOMAIN payload : payload[i] = SEPARATOR} \cup {Len(payload) + 1}
        End(k) == CHOOSE i \in ends : Cardinality({j \in ends : j < i}) = k - 1
    IN  [k \in 1 .. Cardinality(ends) |->
            SubSeq(payload, IF k = 1 THEN 1 ELSE End(k - 1) + 1, End(k) - 1)]

(* What comes after a part that cannot be decoded is not looked at.        *)
DecodePayload(payload) ==
    LET parts == Parts(payload)
        packets == [k \in DOMAIN parts |-> DecodePacket(parts[k])]
        error == SelectInSeq(packets, LAMBDA p : p = ERROR_PACKET)
    IN  IF error = 0 THEN packets ELSE SubSeq(packets, 1, error)
=============================================================================
