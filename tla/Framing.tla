------------------------------- MODULE Framing --------------------------------
(* From a client's bytes to its packets: the reading half of the select loop *)
(* of handle_connection (src/server/tcp.rs), which finds the packets in a    *)
(* stream that arrives in pieces of any size, and that of handle_ws          *)
(* (src/server/ws.rs), where each frame is one packet.                       *)
EXTENDS Codec

CONSTANTS
    ClientPackets,  \* the packets the client may send
    MaxSent,        \* bound on how many it sends
    ReadSize,       \* bytes that one read returns at most; 4096
    Transports,     \* the kinds of connections: "tcp", "ws"
    NextId          \* the packet id that a subscriber's session draws

ASSUME FramingAssumption ==
    /\ MaxSent \in Nat
    /\ ReadSize \in Nat \ {0}
    /\ Transports \subseteq {"tcp", "ws"}
    /\ NextId \in U16 \ {0}

VARIABLES
    transport,  \* which of the two loops runs
    sent,       \* history: the packets the client has sent
    wire,       \* the bytes (TCP) or frames (WebSocket) not read yet
    finished,   \* the client has closed its end
    buf,        \* the local variable buf of handle_connection
    pc,         \* where the loop is, or how it ended
    handled     \* history: the packets passed to handle_packet

vars == <<transport, sent, wire, finished, buf, pc, handled>>

------------------------------------------------------------------------------
(* The client follows MQTT 3.1.1.  This is its definition of the bytes of a  *)
(* packet, for both directions, in terms of the standard.                    *)
TwoBytes(n) == <<n \div 256, n % 256>>
Prefixed(bytes) == TwoBytes(Len(bytes)) \o bytes

Digits(length) == CHOOSE k \in 1 .. length + 1 :
    length < Multiplier[k] /\ \A j \in 1 .. k - 1 : length >= Multiplier[j]

StandardLength(length) ==
    [i \in 1 .. Digits(length) |->
        ((length \div Multiplier[i - 1]) % LengthBase)
          + (IF i < Digits(length) THEN LengthBase ELSE 0)]

StandardFlags(p) ==
    CASE p.type = "PUBLISH" -> (IF p.dup THEN 8 ELSE 0) + 2 * p.qos + (IF p.retain THEN 1 ELSE 0)
      [] p.type \in {"PUBREL", "SUBSCRIBE", "UNSUBSCRIBE"} -> 2
      [] OTHER -> 0

StandardEntry(e) == Prefixed(e.filter) \o (IF "qos" \in DOMAIN e THEN <<e.qos>> ELSE <<>>)

StandardBody(p) ==
    LET Optional(field) == IF field \in DOMAIN p THEN Prefixed(p[field]) ELSE <<>>
        Id == IF "packet_id" \in DOMAIN p THEN TwoBytes(p.packet_id) ELSE <<>>
    IN CASE p.type = "CONNECT" ->
                Prefixed(p.protocol_name) \o <<p.protocol_level, p.flags>>
                  \o TwoBytes(p.keep_alive) \o Prefixed(p.client_id)
                  \o Optional("will_topic") \o Optional("will_message")
                  \o Optional("username") \o Optional("password")
         [] p.type = "CONNACK" -> <<IF p.session_present THEN 1 ELSE 0, p.return_code>>
         [] p.type = "PUBLISH" -> Prefixed(p.topic_name) \o Id \o p.payload
         [] p.type \in {"SUBSCRIBE", "UNSUBSCRIBE"} ->
                Id \o FlattenSeq([i \in DOMAIN p.list |-> StandardEntry(p.list[i])])
         [] p.type = "SUBACK" -> Id \o p.return_codes
         [] OTHER -> Id

StandardBytes(p) ==
    <<16 * TypeCode(p.type) + StandardFlags(p)>>
      \o StandardLength(Len(StandardBody(p))) \o StandardBody(p)

(* The packets that a client may send: the fields of each, and how long it   *)
(* may be.  In a CONNECT the flags say which fields there are.               *)
Binary == {bytes \in Seq(Byte) : Len(bytes) <= 65535}
Text == {bytes \in Binary : \A i \in DOMAIN bytes : bytes[i] < 248}

ConnectFields(flags) ==
    {"type", "protocol_name", "protocol_level", "flags", "keep_alive", "client_id"}
      \cup (IF Bit(flags, 4) THEN {"will_topic", "will_message"} ELSE {})
      \cup (IF Bit(flags, 128) THEN {"username"} ELSE {})
      \cup (IF Bit(flags, 64) THEN {"password"} ELSE {})

StandardConnect(p) ==
    /\ p = [field \in ConnectFields(p.flags) |-> p[field]]
    /\ p.type = "CONNECT" /\ p.flags \in Byte /\ ~BadConnectFlags(p.flags)
    /\ p.protocol_level \in Byte /\ p.keep_alive \in U16
    /\ \A field \in DOMAIN p \cap {"protocol_name", "client_id", "will_topic", "username"} :
           p[field] \in Text
    /\ \A field \in DOMAIN p \cap {"will_message", "password"} : p[field] \in Binary

StandardPublish ==
    [type : {"PUBLISH"}, dup : BOOLEAN, qos : {0}, retain : BOOLEAN,
     topic_name : Text, payload : Seq(Byte)]
    \cup
    [type : {"PUBLISH"}, dup : BOOLEAN, qos : {1, 2}, retain : BOOLEAN,
     topic_name : Text, packet_id : U16, payload : Seq(Byte)]

StandardPacket(p) ==
    /\ CASE p.type = "CONNECT" -> StandardConnect(p)
         [] p.type = "PUBLISH" -> p \in StandardPublish
         [] p.type = "SUBSCRIBE" ->
                /\ p \in [type : {"SUBSCRIBE"}, packet_id : U16,
                           list : Seq([filter : Text, qos : QoS])]
                /\ p.list # <<>>
         [] p.type = "UNSUBSCRIBE" ->
                /\ p \in [type : {"UNSUBSCRIBE"}, packet_id : U16,
                           list : Seq([filter : Text])]
                /\ p.list # <<>>
         [] p.type \in {"PUBACK", "PUBREC", "PUBREL", "PUBCOMP"} ->
                p \in [type : {p.type}, packet_id : U16]
         [] OTHER -> p \in [type : {"PINGREQ", "DISCONNECT"}]
    /\ Digits(Len(StandardBody(p))) <= MaxLengthBytes

(* Its clients follow the standard. *)
ASSUME ClientAssumption == \A p \in ClientPackets : StandardPacket(p)

------------------------------------------------------------------------------
(* Mutant: the bytes that are taken stay in the buffer. *)
split_to_copying(bytes, n) == [taken |-> SubSeq(bytes, 1, n), rest |-> bytes]

split_to(bytes, n) ==
    [taken |-> SubSeq(bytes, 1, n), rest |-> SubSeq(bytes, n + 1, Len(bytes))]

(* Mutant: the fixed header has two bytes. *)
total_len_short_header(bytes, header) == 2 + header.remaining_length

(* The length of a packet: the fixed header and the remaining length. *)
total_len(bytes, header) == Len(bytes) - Len(header.rest) + header.remaining_length

(* Mutant: the buffer has to hold a byte more than the packet. *)
CompleteAndMore(bytes, len) == Len(bytes) > len

Complete(bytes, len) == Len(bytes) >= len

(* The packet at the front of the buffer: {} when there is none yet,         *)
(* otherwise what it decodes to and the bytes that are left.  A fixed header *)
(* that does not decode, be it cut off or wrong, is a decoding error.        *)
extract_packet(bytes) ==
    LET headers == decode_fixed_header(bytes)
        whole == {h \in headers : Complete(bytes, total_len(bytes, h))}
    IN IF Len(bytes) < 2 THEN {}
       ELSE IF headers = {} THEN {[packet |-> {}, rest |-> bytes]}
       ELSE {[packet |-> decode(split.taken), rest |-> split.rest] :
                split \in {split_to(bytes, total_len(bytes, h)) : h \in whole}}

------------------------------------------------------------------------------
(* The client sends a packet. *)
Send(p) ==
    /\ ~finished /\ Len(sent) < MaxSent
    /\ sent' = Append(sent, p)
    /\ wire' = IF transport = "tcp" THEN wire \o StandardBytes(p)
                                    ELSE Append(wire, StandardBytes(p))
    /\ UNCHANGED <<transport, finished, buf, pc, handled>>

Finish ==
    /\ ~finished
    /\ finished' = TRUE
    /\ UNCHANGED <<transport, sent, wire, buf, pc, handled>>

(* Mutant: what the buffer still holds is overwritten. *)
ReadOverwriting(n) ==
    /\ transport = "tcp" /\ pc = "select"
    /\ n <= Len(wire)
    /\ buf' = SubSeq(wire, 1, n)
    /\ wire' = SubSeq(wire, n + 1, Len(wire))
    /\ pc' = "extract"
    /\ UNCHANGED <<transport, sent, finished, handled>>

(* read_async: some of the bytes that have arrived. *)
Read(n) ==
    /\ transport = "tcp" /\ pc = "select"
    /\ n <= Len(wire)
    /\ buf' = buf \o SubSeq(wire, 1, n)
    /\ wire' = SubSeq(wire, n + 1, Len(wire))
    /\ pc' = "extract"
    /\ UNCHANGED <<transport, sent, finished, handled>>

(* Mutant: one packet for each read. *)
ExtractOnce ==
    /\ pc = "extract"
    /\ IF extract_packet(buf) = {}
       THEN pc' = "select" /\ UNCHANGED <<buf, handled>>
       ELSE \E r \in extract_packet(buf) :
                /\ buf' = r.rest
                /\ IF r.packet = {}
                   THEN pc' = "failed" /\ UNCHANGED handled
                   ELSE /\ pc' = "select"
                        /\ \E p \in r.packet : handled' = Append(handled, p)
    /\ UNCHANGED <<transport, sent, wire, finished>>

(* One turn of the loop over the packets in the buffer: the next one is      *)
(* passed to its handler, the loop ends for want of one, or the connection   *)
(* ends with an error.                                                       *)
Extract ==
    /\ pc = "extract"
    /\ IF extract_packet(buf) = {}
       THEN pc' = "select" /\ UNCHANGED <<buf, handled>>
       ELSE \E r \in extract_packet(buf) :
                /\ buf' = r.rest
                /\ IF r.packet = {}
                   THEN pc' = "failed" /\ UNCHANGED handled
                   ELSE /\ \E p \in r.packet : handled' = Append(handled, p)
                        /\ UNCHANGED pc
    /\ UNCHANGED <<transport, sent, wire, finished>>

(* A binary frame of a WebSocket. *)
Frame ==
    /\ transport = "ws" /\ pc = "select" /\ wire # <<>>
    /\ wire' = Tail(wire)
    /\ IF decode(Head(wire)) = {}
       THEN pc' = "failed" /\ UNCHANGED handled
       ELSE /\ \E p \in decode(Head(wire)) : handled' = Append(handled, p)
            /\ UNCHANGED pc
    /\ UNCHANGED <<transport, sent, finished, buf>>

(* The read returns 0, or the stream of frames ends; what buf holds is gone. *)
Eof ==
    /\ pc = "select" /\ wire = <<>> /\ finished
    /\ pc' = "ended"
    /\ UNCHANGED <<transport, sent, wire, finished, buf, handled>>

(* The read fails. *)
Reset ==
    /\ pc = "select"
    /\ pc' = "reset"
    /\ UNCHANGED <<transport, sent, wire, finished, buf, handled>>

------------------------------------------------------------------------------
Init ==
    /\ transport \in Transports
    /\ sent = <<>> /\ wire = <<>> /\ finished = FALSE
    /\ buf = <<>> /\ pc = "select" /\ handled = <<>>

Next ==
    \/ \E p \in ClientPackets : Send(p)
    \/ Finish
    \/ \E n \in 1 .. ReadSize : Read(n)
    \/ Extract
    \/ Frame
    \/ Eof
    \/ Reset

Spec == Init /\ [][Next]_vars

(* The runtime polls a connection whose socket has bytes.  This takes a      *)
(* client that reads its replies: the loop does not read while it writes.    *)
Fairness == WF_vars(\E n \in 1 .. ReadSize : Read(n)) /\ WF_vars(Extract) /\ WF_vars(Frame)

FairSpec == Spec /\ Fairness

------------------------------------------------------------------------------
(* What the broker sends for a packet: the replies of its handler, whose     *)
(* SUBACK has a code for each filter, and the publish to a subscriber, whose *)
(* subscription is granted QoS 1 and for which a packet id is drawn.         *)
HandlerReplies(p) ==
    CASE p.type = "CONNECT" ->
             {[type |-> "CONNACK", session_present |-> ~Bit(p.flags, 2), return_code |-> Accepted]}
      [] p.type = "PUBLISH" /\ p.qos = 1 -> {[type |-> "PUBACK", packet_id |-> p.packet_id]}
      [] p.type = "PUBLISH" /\ p.qos = 2 -> {[type |-> "PUBREC", packet_id |-> p.packet_id]}
      [] p.type = "PUBREC" -> {[type |-> "PUBREL", packet_id |-> p.packet_id]}
      [] p.type = "PUBREL" -> {[type |-> "PUBCOMP", packet_id |-> p.packet_id]}
      [] p.type = "SUBSCRIBE" ->
             {[type |-> "SUBACK", packet_id |-> p.packet_id, return_codes |-> codes] :
                 codes \in [DOMAIN p.list -> {SuccessQoS1, Failure}]}
      [] p.type = "UNSUBSCRIBE" -> {[type |-> "UNSUBACK", packet_id |-> p.packet_id]}
      [] p.type = "PINGREQ" -> {[type |-> "PINGRESP"]}
      [] OTHER -> {}

(* Mutant: the level is the one granted, not the lower of the two. *)
ForwardedAsGranted(p) ==
    IF p.type # "PUBLISH" THEN {} ELSE {("packet_id" :> NextId) @@ ("qos" :> 1) @@ p}

Forwarded(p) ==
    IF p.type # "PUBLISH" THEN {}
    ELSE IF p.qos = 0 THEN {p}
    ELSE {[p EXCEPT !.qos = 1, !.packet_id = NextId]}

------------------------------------------------------------------------------
(* Every variable keeps its type, and the buffer is empty for a WebSocket.   *)
FramingTypeOK ==
    /\ transport \in Transports
    /\ sent \in Seq(ClientPackets) /\ Len(sent) <= MaxSent
    /\ IF transport = "tcp" THEN wire \in Seq(Byte) ELSE wire \in Seq(Seq(Byte))
    /\ finished \in BOOLEAN
    /\ buf \in Seq(Byte) /\ (transport = "ws" => buf = <<>>)
    /\ pc \in {"select", "extract", "failed", "ended", "reset"}
    /\ Len(handled) <= Len(sent)

(* Nothing that the client sent is lost, handled twice or out of turn between *)
(* the socket and the handlers: what is not handled yet is, byte for byte,   *)
(* what the buffer and the socket hold.                                      *)
BytesAreConserved ==
    LET left == [i \in 1 .. Len(sent) - Len(handled) |->
                    StandardBytes(sent[Len(handled) + i])]
    IN /\ handled = SubSeq(sent, 1, Len(handled))
       /\ IF transport = "tcp" THEN buf \o wire = FlattenSeq(left) ELSE wire = left

(* "Buffering de bytes hasta completar paquetes MQTT" (ARCHITECTURE.md:127), *)
(* and no longer: while the loop waits for the socket, the buffer holds less *)
(* than one packet, however many arrived with one read.                      *)
NothingCompleteWaits ==
    LET next == Len(handled) + 1
    IN transport = "tcp" /\ pc = "select" =>
           IF next \in DOMAIN sent THEN Len(buf) < Len(StandardBytes(sent[next]))
                                   ELSE buf = <<>>

(* The packets of a client that follows the standard decode, at every length *)
(* of the remaining length; an error ends a TCP connection only when a read  *)
(* ended inside the remaining length, and a WebSocket never.                 *)
FailsOnlyInLength ==
    pc = "failed" =>
        /\ transport = "tcp"
        /\ Len(buf) \in 2 .. MaxLengthBytes
        /\ \A i \in 2 .. Len(buf) : buf[i] >= LengthBase

(* What the broker sends for a packet it has handled is encoded without an   *)
(* error (an error would end the connection of the receiver, tcp.rs:91), as  *)
(* the standard says, and within the bytes of a remaining length: a publish  *)
(* that just fits may not grow on its way to the subscriber.  This is about  *)
(* the encoding only: which dup and retain flags a forwarded publish should  *)
(* have is not said here, it keeps those it came with.                       *)
OutboundIsStandard ==
    \A i \in DOMAIN handled :
        \A p \in HandlerReplies(handled[i]) \cup Forwarded(handled[i]) :
            /\ encode(p) = {StandardBytes(p)}
            /\ Digits(Len(StandardBody(p))) <= MaxLengthBytes

(* However the bytes are cut, both loops pass the packets that the client    *)
(* sent to handle_packet: each once, in order, with every field as sent.     *)
Pipe == INSTANCE PacketPipe WITH
    Packets <- ClientPackets,
    waiting <- SubSeq(sent, Len(handled) + 1, Len(sent)),
    open <- pc \in {"select", "extract"}

ImplementsPipe == Pipe!PipeSpec

(* Every packet sent is handled, without another one having to follow it,    *)
(* unless the connection ends with an error.                                 *)
EverySentIsHandled ==
    \A n \in 1 .. MaxSent :
        Len(sent) >= n ~> Len(handled) >= n \/ pc \in {"failed", "reset"}

(* "maneja lecturas parciales" (ARCHITECTURE.md:127): no read boundary ends  *)
(* a connection.  One inside the remaining length does: decode_fixed_header  *)
(* reports the missing byte as an error.                                     *)
PartialReadsAreHandled == pc # "failed"
==============================================================================
