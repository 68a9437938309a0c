------------------------------ MODULE MCBroker -------------------------------
(* Small instances of the broker: two connections, a few filters that meet  *)
(* in one node, and the ways in which the connections share client ids.     *)
EXTENDS Broker, TLC

CONSTANTS t1, t2, c1, c2

OneIdEach == (t1 :> {c1}) @@ (t2 :> {c2})
OneIdForBoth == [t \in Tasks |-> {c1}]

MixedFilters == {<< <<"a">> >>, << <<"a", "#">>, <<"x+">>, <<"a">> >>}
OneFilter == {<< <<"+">> >>}
TopicA == {<<"a">>}

(* A subscriber and a publisher that may subscribe too. *)
SubscriberAndPublisher ==
    (t1 :> {"CONNECT", "SUBSCRIBE", "UNSUBSCRIBE"}) @@
    (t2 :> {"CONNECT", "PUBLISH", "SUBSCRIBE"})
Everything == [t \in Tasks |-> PacketKinds]

(* A subscriber of one filter and a publisher that may come back. *)
SubscribeOncePublishTwice ==
    (t1 :> {"CONNECT", "SUBSCRIBE"}) @@ (t2 :> {"CONNECT", "PUBLISH"})
TwoAndFour == (t1 :> 2) @@ (t2 :> 4)

FourAndTwo == (t1 :> 4) @@ (t2 :> 2)
ThreeAndTwo == (t1 :> 3) @@ (t2 :> 2)
==============================================================================
