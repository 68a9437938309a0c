-------------------------------- MODULE Codec --------------------------------
(* Packets to bytes and back (src/protocol/decode.rs and encode.rs).         *)
(*                                                                           *)
(* A byte string is a sequence of 0 .. 255.  A result that may be an error   *)
(* is a set: {} for the error, otherwise the one value.  A decoded packet is *)
(* the record of the fields that are present in its bytes.                   *)
EXTENDS Integers, SequencesExt

CONSTANTS
    LengthBase,     \* what one byte of a remaining length counts up to; 128
    MaxLengthBytes  \* how many of those bytes the decoder reads; 4

ASSUME CodecAssumption ==
    /\ LengthBase \in 2 .. 128
    /\ MaxLengthBytes \in Nat \ {0}

Byte == 0 .. 255
U16 == 0 .. 65535

(* The packet types 1 to 14. *)
PacketType ==
    <<"CONNECT", "CONNACK", "PUBLISH", "PUBACK", "PUBREC", "PUBREL", "PUBCOMP",
      "SUBSCRIBE", "SUBACK", "UNSUBSCRIBE", "UNSUBACK", "PINGREQ", "PINGRESP",
      "DISCONNECT">>

TypeCode(type) == CHOOSE n \in DOMAIN PacketType : PacketType[n] = type

QoS == 0 .. 2

(* The return codes that the broker uses in a CONNACK and in a SUBACK. *)
Accepted == 0
SuccessQoS1 == 1
Failure == 128

(* byte & mask is not 0, for the mask of one bit. *)
Bit(byte, mask) == (byte \div mask) % 2 = 1

------------------------------------------------------------------------------
(* What a reader returns: a value, and the bytes that are left. *)
Ok(value, rest) == {[value |-> value, rest |-> rest]}

(* The remaining length: digits to the base LengthBase, the least first, all *)
(* but the last marked by a set upper bit.                                   *)
encode_remaining_length[length \in Nat] ==
    IF length < LengthBase
    THEN <<length>>
    ELSE <<(length % LengthBase) + LengthBase>>
             \o encode_remaining_length[length \div LengthBase]

(* The number of its bytes; none if the bytes end before the digits do, or   *)
(* if there are too many digits.  Leading zeros are not refused.             *)
LengthSize(src) ==
    {k \in 1 .. MaxLengthBytes :
        /\ k <= Len(src) /\ src[k] < LengthBase
        /\ \A i \in 1 .. k - 1 : src[i] >= LengthBase}

(* multiplier, in the turn of the loop that reads digit k + 1: LengthBase^k. *)
Multiplier[k \in Nat] == IF k = 0 THEN 1 ELSE LengthBase * Multiplier[k - 1]

LengthValue(digits) ==
    LET value[k \in 0 .. Len(digits)] ==
            IF k = 0 THEN 0
            ELSE value[k - 1] + Multiplier[k - 1] * (digits[k] % LengthBase)
    IN value[Len(digits)]

decode_remaining_length(src) ==
    UNION {Ok(LengthValue(SubSeq(src, 1, k)), SubSeq(src, k + 1, Len(src))) :
        k \in LengthSize(src)}

decode_fixed_header(src) ==
    IF src = <<>> \/ src[1] \div 16 \notin DOMAIN PacketType
    THEN {}
    ELSE {[packet_type |-> PacketType[src[1] \div 16], flags |-> src[1] % 16,
           remaining_length |-> length.value, rest |-> length.rest] :
              length \in decode_remaining_length(Tail(src))}

------------------------------------------------------------------------------
(* Readers: the value at the front of src and what is left of src. *)
inner_read_exact(src, len) ==
    IF Len(src) < len
    THEN {}
    ELSE Ok(SubSeq(src, 1, len), SubSeq(src, len + 1, Len(src)))

inner_read_u8(src) == UNION {Ok(r.value[1], r.rest) : r \in inner_read_exact(src, 1)}

inner_read_u16(src) ==
    UNION {Ok(r.value[1] * 256 + r.value[2], r.rest) : r \in inner_read_exact(src, 2)}

read_binary(src) ==
    UNION {inner_read_exact(len.rest, len.value) : len \in inner_read_u16(src)}

(* Of the byte strings that are not UTF-8, those with a byte that occurs in  *)
(* no UTF-8 string stand for all.                                            *)
read_utf8_string(src) ==
    {r \in read_binary(src) : \A i \in DOMAIN r.value : r.value[i] < 248}

(* The two low bits of the options of a SUBSCRIBE entry; 3 is an error. *)
read_qos(src) ==
    {r \in UNION {Ok(b.value % 4, b.rest) : b \in inner_read_u8(src)} : r.value \in QoS}

ReadField(kind, src) ==
    CASE kind = "u8"     -> inner_read_u8(src)
      [] kind = "u16"    -> inner_read_u16(src)
      [] kind = "string" -> read_utf8_string(src)
      [] kind = "binary" -> read_binary(src)
      [] kind = "rest"   -> inner_read_exact(src, Len(src))
      [] kind = "qos"    -> read_qos(src)

(* The fields of a packet are read one after the other: value has those read *)
(* so far, rest the bytes that are left.                                     *)
Also(name, value, fields) ==
    [field \in {name} \cup DOMAIN fields |-> IF field = name THEN value ELSE fields[field]]

NoField(src) == Ok(<<>>, src)

Field(read, name, kind) ==
    UNION {UNION {Ok(Also(name, r.value, a.value), r.rest) : r \in ReadField(kind, a.rest)} :
        a \in read}

FieldIf(present, read, name, kind) ==
    IF present THEN Field(read, name, kind) ELSE read

------------------------------------------------------------------------------
(* The packets.  Neither the protocol name and level of a CONNECT nor the    *)
(* flags of a packet other than PUBLISH are looked at.                       *)
ConnectHead(src) ==
    Field(Field(Field(NoField(src), "protocol_name", "string"),
                "protocol_level", "u8"),
          "flags", "u8")

(* The reserved bit is set, or there is a will of QoS 3. *)
BadConnectFlags(flags) ==
    Bit(flags, 1) \/ (Bit(flags, 4) /\ (flags \div 8) % 4 \notin QoS)

(* The flags say whether a will, a user name and a password follow. *)
ConnectRest(head) ==
    LET flags == head.value.flags
        client_id == Field(Field({head}, "keep_alive", "u16"), "client_id", "string")
        will_topic == FieldIf(Bit(flags, 4), client_id, "will_topic", "string")
        will_message == FieldIf(Bit(flags, 4), will_topic, "will_message", "binary")
        username == FieldIf(Bit(flags, 128), will_message, "username", "string")
    IN FieldIf(Bit(flags, 64), username, "password", "binary")

decode_connect(src) ==
    UNION {{r.value : r \in ConnectRest(head)} :
        head \in {h \in ConnectHead(src) : ~BadConnectFlags(h.value.flags)}}

(* The payload is all that follows, whatever the remaining length says. *)
PublishFields(qos, src) ==
    LET topic_name == Field(NoField(src), "topic_name", "string")
        packet_id == FieldIf(qos > 0, topic_name, "packet_id", "u16")
    IN Field(packet_id, "payload", "rest")

PublishRecord(dup, qos, retain, fields) ==
    Also("dup", dup, Also("qos", qos, Also("retain", retain, fields)))

(* Mutant: the bits of dup and retain are swapped. *)
decode_publish_swapped(flags, src) ==
    LET qos == (flags \div 2) % 4
    IN IF qos \notin QoS
       THEN {}
       ELSE {PublishRecord(Bit(flags, 1), qos, Bit(flags, 8), r.value) :
                r \in PublishFields(qos, src)}

decode_publish(flags, src) ==
    LET qos == (flags \div 2) % 4
    IN IF qos \notin QoS
       THEN {}
       ELSE {PublishRecord(Bit(flags, 8), qos, Bit(flags, 1), r.value) :
                r \in PublishFields(qos, src)}

(* PUBACK, PUBREC, PUBREL and PUBCOMP; what follows the id is ignored. *)
decode_ack(src) == {r.value : r \in Field(NoField(src), "packet_id", "u16")}

(* An entry of the list of an UNSUBSCRIBE or, with a level, of a SUBSCRIBE.  *)
ReadEntry(leveled, src) ==
    FieldIf(leveled, Field(NoField(src), "filter", "string"), "qos", "qos")

(* The lists that the loop over the entries has read after n turns.  Each    *)
(* turn takes some of the bytes, and it goes on until there are none.        *)
EntriesAfter(leveled, src) ==
    LET after[n \in 0 .. Len(src)] ==
            IF n = 0 THEN Ok(<<>>, src)
            ELSE UNION {IF a.rest = <<>> THEN {a}
                        ELSE UNION {Ok(Append(a.value, entry.value), entry.rest) :
                                       entry \in ReadEntry(leveled, a.rest)} : a \in after[n - 1]}
    IN after

(* SUBSCRIBE and UNSUBSCRIBE: an id and a list that is not empty. *)
decode_list(leveled, src) ==
    UNION {{[packet_id |-> id.value, list |-> entries.value] :
                entries \in {e \in EntriesAfter(leveled, id.rest)[Len(id.rest)] :
                                e.value # <<>>}} : id \in inner_read_u16(src)}

(* The packets that only servers send are errors; PINGREQ and DISCONNECT     *)
(* have no fields.                                                           *)
Body(header) ==
    LET src == header.rest
    IN CASE header.packet_type = "CONNECT" -> decode_connect(src)
         [] header.packet_type = "PUBLISH" -> decode_publish(header.flags, src)
         [] header.packet_type \in {"PUBACK", "PUBREC", "PUBREL", "PUBCOMP"} -> decode_ack(src)
         [] header.packet_type = "SUBSCRIBE" -> decode_list(TRUE, src)
         [] header.packet_type = "UNSUBSCRIBE" -> decode_list(FALSE, src)
         [] header.packet_type \in {"PINGREQ", "DISCONNECT"} -> {<<>>}
         [] OTHER -> {}

(* src may be longer than the packet: it is not cut to the remaining length. *)
decode(src) ==
    UNION {{Also("type", header.packet_type, fields) : fields \in Body(header)} :
        header \in {h \in decode_fixed_header(src) : Len(h.rest) >= h.remaining_length}}

------------------------------------------------------------------------------
put_u16(n) == <<(n \div 256) % 256, n % 256>>
write_utf8_string(value) == put_u16(Len(value)) \o value

write_fixed_header(type, flags, length) ==
    <<16 * TypeCode(type) + flags>> \o encode_remaining_length[length]

remaining_length_for_packet(p) ==
    2 + Len(p.topic_name) + (IF p.qos > 0 THEN 2 ELSE 0) + Len(p.payload)

publish_flags(p) ==
    (IF p.dup THEN 8 ELSE 0) + 2 * p.qos + (IF p.retain THEN 1 ELSE 0)

(* A PUBLISH above QoS 0 has a packet id, or it is an error. *)
publish(p) ==
    IF p.qos > 0 /\ "packet_id" \notin DOMAIN p
    THEN {}
    ELSE {write_fixed_header("PUBLISH", publish_flags(p), remaining_length_for_packet(p))
            \o write_utf8_string(p.topic_name)
            \o (IF p.qos > 0 THEN put_u16(p.packet_id) ELSE <<>>)
            \o p.payload}

(* PUBACK, PUBREC, PUBREL, PUBCOMP and UNSUBACK. *)
simple_packet_with_flags(type, flags, id) ==
    write_fixed_header(type, flags, 2) \o put_u16(id)

connack(p) ==
    write_fixed_header("CONNACK", 0, 2)
      \o <<IF p.session_present THEN 1 ELSE 0, p.return_code>>

suback(p) ==
    write_fixed_header("SUBACK", 0, 2 + Len(p.return_codes))
      \o put_u16(p.packet_id) \o p.return_codes

(* The packets that only clients send are errors. *)
encode(p) ==
    CASE p.type = "CONNACK"  -> {connack(p)}
      [] p.type = "PUBLISH"  -> publish(p)
      [] p.type = "PUBREL"   -> {simple_packet_with_flags(p.type, 2, p.packet_id)}
      [] p.type \in {"PUBACK", "PUBREC", "PUBCOMP", "UNSUBACK"} ->
             {simple_packet_with_flags(p.type, 0, p.packet_id)}
      [] p.type = "SUBACK"   -> {suback(p)}
      [] p.type = "PINGRESP" -> {write_fixed_header("PINGRESP", 0, 0)}
      [] OTHER -> {}
==============================================================================
