------------------------------- MODULE Codec --------------------------------
(***************************************************************************)
(* ort-proto/src/codec.rs and messages.rs: how a frame becomes the body    *)
(* the transport carries, and back.  Frame::encode and Frame::decode are   *)
(* pure; between them the body may be cut short, run on or be altered.  A  *)
(* byte is a digit below Base, and the integers have Width digits: the     *)
(* widths of the code scaled down, so that a field reaches the largest     *)
(* length its prefix can say.                                              *)
(***************************************************************************)
EXTENDS Integers, Sequences

CONSTANTS
    Base,                \* how many values a byte has
    Width,               \* bytes of u8, u16, u32, u64, array16 and array32
    Sample,              \* kind of field |-> the values tried
    MaxEdits             \* bound on the changes made to one body

VARIABLES
    frame,               \* the frame that was encoded
    buf,                 \* the body decode is given
    edits                \* what happened to it on the way

vars == <<frame, buf, edits>>

Byte == 0 .. Base - 1

-----------------------------------------------------------------------------
(* FrameType: the tag is the first byte.                                   *)
FrameType == [ClientHelloOneRtt |-> 1, ClientHelloZeroRtt |-> 2,
              ClientData |-> 3, ServerHello |-> 4, ServerAck |-> 5,
              DataRecord |-> 6, Close |-> 7]

tag(type) == FrameType[type]

from_u8 == <<"ClientHelloOneRtt", "ClientHelloZeroRtt", "ClientData",
             "ServerHello", "ServerAck", "DataRecord", "Close">>

\* The fields KemPayload::write writes, each with its Writer call.
KemPayload_write ==
    <<<<"ciphertext", "bytes16">>, <<"src_ip", "array16">>,
      <<"ts_millis", "u64">>, <<"nonce", "array32">>,
      <<"client_sig", "bytes16">>, <<"enc_data", "bytes32">>>>

\* Faulty variant: ciphertext and signature are taken for one another.
KemPayload_read_swapped ==
    <<<<"client_sig", "bytes16">>, <<"src_ip", "array16">>,
      <<"ts_millis", "u64">>, <<"nonce", "array32">>,
      <<"ciphertext", "bytes16">>, <<"enc_data", "bytes32">>>>

\* The fields KemPayload::read reads, each with its Reader call.
KemPayload_read ==
    <<<<"ciphertext", "bytes16">>, <<"src_ip", "array16">>,
      <<"ts_millis", "u64">>, <<"nonce", "array32">>,
      <<"client_sig", "bytes16">>, <<"enc_data", "bytes32">>>>

suite_id == <<"suite_id", "u16">>
client_pk == <<"client_pk", "bytes16">>

\* What encode writes behind the tag, and what decode reads there.
Written ==
    [ClientHelloOneRtt |-> <<suite_id, client_pk>>,
     ClientHelloZeroRtt |-> <<suite_id, client_pk>> \o KemPayload_write,
     ClientData |-> <<client_pk>> \o KemPayload_write,
     ServerHello |-> <<suite_id, <<"server_pk", "bytes16">>,
                       <<"certificate", "bytes32">>, <<"server_ts", "u64">>>>,
     ServerAck |-> <<<<"ek_hash", "bytes16">>>>,
     DataRecord |-> <<<<"dir", "u8">>, <<"ciphertext", "bytes32">>>>,
     Close |-> <<>>]

Expected ==
    [ClientHelloOneRtt |-> <<suite_id, client_pk>>,
     ClientHelloZeroRtt |-> <<suite_id, client_pk>> \o KemPayload_read,
     ClientData |-> <<client_pk>> \o KemPayload_read,
     ServerHello |-> <<suite_id, <<"server_pk", "bytes16">>,
                       <<"certificate", "bytes32">>, <<"server_ts", "u64">>>>,
     ServerAck |-> <<<<"ek_hash", "bytes16">>>>,
     DataRecord |-> <<<<"dir", "u8">>, <<"ciphertext", "bytes32">>>>,
     Close |-> <<>>]

-----------------------------------------------------------------------------
(* Writer.                                                                 *)
IntKind == {"u8", "u16", "u32", "u64"}
ArrayKind == {"array16", "array32"}
LengthPrefix == [bytes16 |-> "u16", bytes32 |-> "u32"]
Kind == IntKind \cup ArrayKind \cup DOMAIN LengthPrefix

\* The w big-endian digits of v, where q[k] is v without its last k digits;
\* what does not fit is cut off, as by `as u16'.
to_be_bytes(v, w) ==
    LET q[k \in 0 .. w] == IF k = 0 THEN v ELSE q[k - 1] \div Base
    IN  [i \in 1 .. w |-> q[w - i] % Base]

Write(kind, v) ==
    IF kind \in IntKind THEN to_be_bytes(v, Width[kind])
    ELSE IF kind \in DOMAIN LengthPrefix
    THEN to_be_bytes(Len(v), Width[LengthPrefix[kind]]) \o v
    ELSE v

\* The values v of a layout, one after the other.
WriteFields(layout, v) ==
    LET from[i \in 1 .. Len(layout) + 1] ==
            IF i > Len(layout) THEN <<>>
            ELSE Write(layout[i][2], v[i]) \o from[i + 1]
    IN  from[1]

encode(f) ==
    LET layout == Written[f.type]
    IN  <<tag(f.type)>> \o
        WriteFields(layout, [i \in DOMAIN layout |-> f.fields[layout[i][1]]])

-----------------------------------------------------------------------------
(* Reader: the bytes not yet read, the last value, the values of the       *)
(* fields so far, and the error, if any, after which no call is made.      *)
Reader(b) == [rest |-> b, value |-> 0, fields |-> <<>>, err |-> "none"]

from_be_bytes(s) ==
    LET v[i \in 0 .. Len(s)] == IF i = 0 THEN 0 ELSE v[i - 1] * Base + s[i]
    IN  v[Len(s)]

\* Faulty variant: a read past the end returns what is there.
take_available(r, n) ==
    LET m == IF Len(r.rest) < n THEN Len(r.rest) ELSE n
    IN  [r EXCEPT !.value = SubSeq(r.rest, 1, m),
                  !.rest = SubSeq(r.rest, m + 1, Len(r.rest))]

take(r, n) ==
    IF Len(r.rest) < n THEN [r EXCEPT !.err = "Truncated"]
    ELSE [r EXCEPT !.value = SubSeq(r.rest, 1, n),
                   !.rest = SubSeq(r.rest, n + 1, Len(r.rest))]

ReadInt(r, kind) ==
    LET s == take(r, Width[kind])
    IN  IF s.err # "none" THEN s
        ELSE [s EXCEPT !.value = from_be_bytes(s.value)]

Read(r, kind) ==
    IF kind \in IntKind THEN ReadInt(r, kind)
    ELSE IF kind \in DOMAIN LengthPrefix
    THEN LET n == ReadInt(r, LengthPrefix[kind])
         IN  IF n.err # "none" THEN n ELSE take(n, n.value)
    ELSE take(r, Width[kind])

ReadField(r, field) ==
    LET s == Read(r, field[2])
    IN  IF r.err # "none" THEN r
        ELSE IF s.err # "none" THEN s
        ELSE [s EXCEPT !.fields = Append(s.fields, s.value)]

ReadFields(r, layout) ==
    LET after[i \in 0 .. Len(layout)] ==
            IF i = 0 THEN r ELSE ReadField(after[i - 1], layout[i])
    IN  after[Len(layout)]

\* Faulty variant: bytes behind the last field are ignored.
expect_end_ignored(r) == r

expect_end(r) ==
    IF r.err = "none" /\ r.rest # <<>>
      THEN [r EXCEPT !.err = "TrailingBytes"]
      ELSE r

\* The values v under the names of the fields they were read for.
Named(layout, v) ==
    [name \in {layout[i][1] : i \in DOMAIN layout} |->
        v[CHOOSE i \in DOMAIN layout : layout[i][1] = name]]

Err(e) == [err |-> e]
Ok(f) == [err |-> "none", frame |-> f]

decode(b) ==
    LET ty == ReadInt(Reader(b), "u8")
        type == from_u8[ty.value]
        r == expect_end(ReadFields(ty, Expected[type]))
    IN  IF ty.err # "none" THEN Err(ty.err)
        ELSE IF ty.value \notin DOMAIN from_u8 THEN Err("UnknownFrameType")
        ELSE IF r.err # "none" THEN Err(r.err)
        ELSE Ok([type |-> type, fields |-> Named(Expected[type], r.fields)])

-----------------------------------------------------------------------------
(* The values of a kind, and the frames.                                   *)
Uint(w) == {from_be_bytes(s) : s \in [1 .. w -> Byte]}

IsValue(kind, v) ==
    IF kind \in IntKind THEN v \in Uint(Width[kind])
    ELSE IF kind \in DOMAIN LengthPrefix
    THEN v \in Seq(Byte) /\ Len(v) \in Uint(Width[LengthPrefix[kind]])
    ELSE v \in [1 .. Width[kind] -> Byte]

\* A byte holds a FrameType, and no field is longer than its prefix can say.
ASSUME CodecAssumption ==
    /\ Base \in Nat /\ Base > 7
    /\ \A kind \in IntKind \cup ArrayKind : Width[kind] \in Nat
    /\ Width["u8"] = 1
    /\ DOMAIN Sample = Kind \ {"u32"}
    /\ \A kind \in DOMAIN Sample : \A v \in Sample[kind] : IsValue(kind, v)

\* The fields of the variants of Frame.
FrameFields ==
    [ClientHelloOneRtt |->
        [suite_id : Sample["u16"], client_pk : Sample["bytes16"]],
     ClientHelloZeroRtt |->
        [suite_id : Sample["u16"], client_pk : Sample["bytes16"],
         ciphertext : Sample["bytes16"], src_ip : Sample["array16"],
         ts_millis : Sample["u64"], nonce : Sample["array32"],
         client_sig : Sample["bytes16"], enc_data : Sample["bytes32"]],
     ClientData |->
        [client_pk : Sample["bytes16"],
         ciphertext : Sample["bytes16"], src_ip : Sample["array16"],
         ts_millis : Sample["u64"], nonce : Sample["array32"],
         client_sig : Sample["bytes16"], enc_data : Sample["bytes32"]],
     ServerHello |->
        [suite_id : Sample["u16"], server_pk : Sample["bytes16"],
         certificate : Sample["bytes32"], server_ts : Sample["u64"]],
     ServerAck |-> [ek_hash : Sample["bytes16"]],
     DataRecord |-> [dir : Sample["u8"], ciphertext : Sample["bytes32"]],
     Close |-> {<<>>}]

Frames ==
    UNION {[type : {type}, fields : FrameFields[type]] :
           type \in DOMAIN FrameFields}

Init ==
    /\ frame \in Frames
    /\ buf = encode(frame)
    /\ edits = <<>>

Edit(kind, b) ==
    /\ Len(edits) < MaxEdits
    /\ edits' = Append(edits, kind)
    /\ buf' = b
    /\ UNCHANGED frame

Cut == \E n \in 0 .. Len(buf) - 1 : Edit("cut", SubSeq(buf, 1, n))

RunOn == \E b \in Byte : Edit("run on", Append(buf, b))

Alter ==
    \E i \in DOMAIN buf, b \in Byte :
        b # buf[i] /\ Edit("alter", [buf EXCEPT ![i] = b])

Next == Cut \/ RunOn \/ Alter

Spec == Init /\ [][Next]_vars

-----------------------------------------------------------------------------
\* decode gives back the frame that was encoded, up to the longest field a
\* prefix can announce and through every conversion of an integer.
RoundTrip == edits = <<>> => decode(buf) = Ok(frame)

\* Where a body ends cannot be mistaken: one that lost its end, at whatever
\* byte, is Truncated, and one that runs on has TrailingBytes.
EndIsKnown ==
    /\ edits = <<"cut">> => decode(buf) = Err("Truncated")
    /\ edits = <<"run on">> => decode(buf) = Err("TrailingBytes")

\* A frame has one encoding: whatever was done to a body, if decode accepts
\* it, encoding the frame it returns gives the same bytes.
OneEncoding ==
    LET d == decode(buf)
    IN  d.err = "none" => encode(d.frame) = buf
=============================================================================
