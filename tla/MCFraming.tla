------------------------------ MODULE MCFraming -------------------------------
(* A small instance of the framing, to the base 3: a remaining length of one *)
(* to four bytes counts up to 80.  And the examples of the unit tests of     *)
(* decode.rs and encode.rs, to the base 128.                                 *)
EXTENDS Framing

Letters(n) == [i \in 1 .. n |-> 97]
Id == 258

PublishOf(qos, payload) ==
    [type |-> "PUBLISH", dup |-> FALSE, qos |-> qos, retain |-> qos = 1,
     topic_name |-> <<97>>, payload |-> payload]

Connect ==
    [type |-> "CONNECT", protocol_name |-> <<77, 81, 84, 84>>, protocol_level |-> 4,
     flags |-> 2, keep_alive |-> 60, client_id |-> <<114>>]

(* One of each kind.  The lengths need one to four bytes; the QoS 0 publish  *)
(* is the longest there is, the QoS 1 publish has an empty payload.          *)
OneOfEach ==
    {[Connect EXCEPT !.flags = 206]
       @@ [will_topic |-> <<97>>, will_message |-> <<0>>, username |-> <<117>>,
           password |-> <<255>>],
     Connect,
     PublishOf(0, Letters(77)),
     PublishOf(1, <<>>) @@ [packet_id |-> Id],
     PublishOf(2, <<255, 128>>) @@ [packet_id |-> Id],
     [type |-> "PUBACK", packet_id |-> Id],
     [type |-> "PUBREC", packet_id |-> Id],
     [type |-> "PUBREL", packet_id |-> Id],
     [type |-> "PUBCOMP", packet_id |-> Id],
     [type |-> "SUBSCRIBE", packet_id |-> Id,
      list |-> <<[filter |-> <<97>>, qos |-> 2], [filter |-> <<43>>, qos |-> 0]>>],
     [type |-> "UNSUBSCRIBE", packet_id |-> Id, list |-> <<[filter |-> <<97>>]>>],
     [type |-> "PINGREQ"],
     [type |-> "DISCONNECT"]}

------------------------------------------------------------------------------
(* The codec as it is in the code. *)
Real == INSTANCE Codec WITH LengthBase <- 128, MaxLengthBytes <- 4

(* The tests of encode_remaining_length and decode_remaining_length, and the *)
(* boundaries of one to four bytes.                                          *)
ASSUME RemainingLengths ==
    /\ Real!encode_remaining_length[0] = <<0>>
    /\ Real!encode_remaining_length[127] = <<127>>
    /\ Real!encode_remaining_length[128] = <<128, 1>>
    /\ Real!encode_remaining_length[16383] = <<255, 127>>
    /\ Real!encode_remaining_length[16384] = <<128, 128, 1>>
    /\ \A n \in {0, 127, 128, 16383, 16384, 2097151, 2097152, 268435455} :
           Real!decode_remaining_length(Real!encode_remaining_length[n])
             = {[value |-> n, rest |-> <<>>]}
    /\ Real!decode_remaining_length(Real!encode_remaining_length[268435456]) = {}
    /\ Real!decode_remaining_length(<<>>) = {}
    /\ Real!decode_remaining_length(<<128>>) = {}
    /\ Real!decode_remaining_length(<<128, 0>>) = {[value |-> 0, rest |-> <<>>]}

(* decode_pingreq, decode_publish_qos0, pingresp_encodes_correctly and       *)
(* connack_encodes_correctly.                                                *)
ASSUME Examples ==
    /\ Real!decode(<<192, 0>>) = {[type |-> "PINGREQ"]}
    /\ Real!decode(<<48, 11, 0, 4, 116, 101, 115, 116, 104, 101, 108, 108, 111>>)
         = {[type |-> "PUBLISH", dup |-> FALSE, qos |-> 0, retain |-> FALSE,
             topic_name |-> <<116, 101, 115, 116>>,
             payload |-> <<104, 101, 108, 108, 111>>]}
    /\ Real!encode([type |-> "PINGRESP"]) = {<<208, 0>>}
    /\ Real!encode([type |-> "CONNACK", session_present |-> FALSE, return_code |-> 0])
         = {<<32, 2, 0, 0>>}

(* decode_connect_minimal.  The remaining length of this example is 14,      *)
(* though 15 bytes follow.  The decoder, which does not cut its input,       *)
(* accepts it, as handle_ws does; extract_packet cuts it and it is refused.  *)
MinimalConnect ==
    <<16, 14, 0, 4, 77, 81, 84, 84, 4, 2, 0, 60, 0, 3, 114, 115, 116>>

ASSUME UncutExample ==
    /\ Real!decode(MinimalConnect) =
         {[Connect EXCEPT !.client_id = <<114, 115, 116>>]}
    /\ Real!decode(SubSeq(MinimalConnect, 1, 16)) = {}

(* Malformed packets: reserved connect flag, will of QoS 3, publish of QoS   *)
(* 3, a topic that is no UTF-8, an empty list, a list that ends inside an    *)
(* entry, an unknown type, and what only servers send.                       *)
ASSUME Refused ==
    \A bytes \in {<<16, 12, 0, 4, 77, 81, 84, 84, 4, 3, 0, 60, 0, 0>>,
                  <<16, 16, 0, 4, 77, 81, 84, 84, 4, 28, 0, 60, 0, 0, 0, 0, 0, 0>>,
                  <<54, 5, 0, 1, 97, 0, 1>>, <<48, 3, 0, 1, 255>>, <<130, 2, 0, 1>>,
                  <<130, 5, 0, 1, 0, 1, 97>>, <<130, 6, 0, 1, 0, 1, 97, 3>>,
                  <<162, 5, 0, 1, 0, 2, 97>>, <<240, 0>>, <<32, 2, 0, 0>>, <<208, 0>>} :
        Real!decode(bytes) = {}
==============================================================================
