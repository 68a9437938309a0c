------------------------------- MODULE Broker --------------------------------
(* The broker (src/broker/mod.rs) and its connection tasks (handle_packet   *)
(* and the select loops of src/server/tcp.rs and ws.rs), over the sessions  *)
(* of Session.tla and the trie of TopicTree.tla.                            *)
(*                                                                          *)
(* One task serves one connection at a time, and the next one after it.     *)
(* It takes a packet off the socket, runs its handler to the end and only   *)
(* then looks at its channel again, but between any two accesses of a       *)
(* handler to shared state (the session registry, the trie behind its       *)
(* RwLock, a session's counter, mutex, maps and channel) the other tasks    *)
(* can run: each access is one action.                                      *)
EXTENDS Session, TopicTree

CONSTANTS
    ClientIds,      \* the client identifiers
    UsesIds,        \* for each connection, the identifiers it may connect as
    Tcp,            \* the tasks of TCP connections; the others are WebSockets
    SecondConnect,  \* whether a client may send a CONNECT while it has a session
    Requests,       \* the filter lists of SUBSCRIBEs and UNSUBSCRIBEs
    Topics,         \* the topics of publishes
    PublishQoS,     \* the levels of publishes
    Sends,          \* the kinds of packets each client sends, PUBACKs aside
    MaxPackets      \* bound on the number of them, for each task

PacketKinds == {"CONNECT", "PUBLISH", "PUBREC", "PUBREL", "PUBCOMP", "SUBSCRIBE",
                "UNSUBSCRIBE", "PINGREQ", "DISCONNECT"}

(* What split('/') returns for a topic or a filter. *)
Names == Seq(STRING) \ {<<>>}

ASSUME BrokerAssumption ==
    /\ UsesIds \in [Tasks -> SUBSET ClientIds]
    /\ Tcp \subseteq Tasks
    /\ SecondConnect \in BOOLEAN
    /\ PublishQoS \subseteq 0 .. 2
    /\ Sends \in [Tasks -> SUBSET PacketKinds]
    /\ MaxPackets \in [Tasks -> Nat]
    /\ 1 \in EnqueueQoS
    /\ Requests \subseteq Seq(Names)
    /\ Topics \subseteq Names
    /\ Messages \subseteq Nat \ {0}

VARIABLES
    sessions,       \* Broker.sessions: the registered session of a client id
    subscriptions,  \* Broker.subscriptions
    client_id,      \* Session.client_id
    pc,             \* where a task is
    session,        \* the local variable of handle_connection and handle_ws
    frame,          \* the other locals of the handler a task runs
    packets,        \* packets received from each connection
    granted,        \* history: filters of a session SUBACKed, not UNSUBSCRIBEd
    owed,           \* history: for each message published, its topic, level and
                    \* publisher, and the sessions it is owed to: those that had
                    \* been granted a filter matching its topic by then
    delivered,      \* history: messages put into a session's channel
    acked,          \* history: publishes whose handler got to the PUBACK
    answered        \* history: QoS 2 publishes whose publisher has had a PUBREC

localVars == <<pc, session, frame, packets>>
historyVars == <<granted, owed, delivered, acked, answered>>
brokerVars == <<sessions, subscriptions, client_id, localVars, historyVars>>
vars == <<sessionVars, brokerVars>>

NoFrame == [new |-> NoSession, sender |-> NoSession, filters |-> <<>>,
            accepted |-> {}, targets |-> {}, msg |-> NoMessage, qos |-> 0,
            ends |-> FALSE]

(* The handler returns to the select loop. *)
Return(t) ==
    /\ pc' = [pc EXCEPT ![t] = "select"]
    /\ frame' = [frame EXCEPT ![t] = NoFrame]

(* The select loop takes a packet off the socket. *)
Receives(t, kind) ==
    /\ pc[t] = "select" /\ kind \in Sends[t] /\ packets[t] < MaxPackets[t]
    /\ packets' = [packets EXCEPT ![t] = @ + 1]

Served(t) == session[t] # NoSession

(* The tasks that serve a session and are not about to end it. *)
Staying(t) == Served(t) /\ pc[t] \notin {"leave", "quit"}

Fresh == CHOOSE s \in Sessions : rx[s] = "none"

------------------------------------------------------------------------------
(* Mutant: the session is made, but not put into the map. *)
ConnectUnregistered(t, c) ==
    /\ Receives(t, "CONNECT") /\ c \in UsesIds[t]
    /\ Served(t) => SecondConnect
    /\ \E s \in Sessions : rx[s] = "none"
    /\ New(Fresh)
    /\ client_id' = [client_id EXCEPT ![Fresh] = c]
    /\ pc' = [pc EXCEPT ![t] = "connack"]
    /\ frame' = [frame EXCEPT ![t].new = Fresh]
    /\ UNCHANGED <<sessions, subscriptions, session, historyVars>>

(* CONNECT: the new session is registered, whatever was registered under    *)
(* its client id; the CONNACK goes through its channel; on return the task  *)
(* drops the receiver of the session it had, if any.                        *)
Connect(t, c) ==
    /\ Receives(t, "CONNECT") /\ c \in UsesIds[t]
    /\ Served(t) => SecondConnect
    /\ \E s \in Sessions : rx[s] = "none"
    /\ New(Fresh)
    /\ sessions' = [sessions EXCEPT ![c] = Fresh]
    /\ client_id' = [client_id EXCEPT ![Fresh] = c]
    /\ pc' = [pc EXCEPT ![t] = "connack"]
    /\ frame' = [frame EXCEPT ![t].new = Fresh]
    /\ UNCHANGED <<subscriptions, session, historyVars>>

Connack(t) ==
    /\ pc[t] = "connack"
    /\ SendReply(frame[t].new, "CONNACK")
    /\ pc' = [pc EXCEPT ![t] = "adopt"]
    /\ UNCHANGED <<sessions, subscriptions, client_id, session, frame, packets,
                   historyVars>>

Adopt(t) ==
    /\ pc[t] = "adopt"
    /\ IF Served(t) THEN DropReceiver(session[t]) ELSE UNCHANGED sessionVars
    /\ session' = [session EXCEPT ![t] = frame[t].new]
    /\ Return(t)
    /\ UNCHANGED <<sessions, subscriptions, client_id, packets, historyVars>>

(* SUBSCRIBE: the sender is fetched once, by Session::sender, so it is a    *)
(* dead one if a publish holds the mutex; each filter is validated and      *)
(* added under a lock of its own; the SUBACK follows.                       *)
Subscribe(t, filters) ==
    /\ Receives(t, "SUBSCRIBE") /\ Served(t)
    /\ pc' = [pc EXCEPT ![t] = "subscribe"]
    /\ frame' = [frame EXCEPT
           ![t].filters = filters,
           ![t].sender = IF sender[session[t]] = NoTask THEN session[t] ELSE NoSession]
    /\ UNCHANGED <<sessionVars, sessions, subscriptions, client_id, session, historyVars>>

AddFilter(t) ==
    LET filter == Head(frame[t].filters)
        valid == ValidFilter(filter)
        subscriber == [client_id |-> client_id[session[t]], sender |-> frame[t].sender]
    IN /\ pc[t] = "subscribe" /\ frame[t].filters # <<>>
       /\ subscriptions' = IF valid THEN Add(subscriptions, filter, subscriber)
                                    ELSE subscriptions
       /\ frame' = [frame EXCEPT ![t].filters = Tail(@),
                                 ![t].accepted = IF valid THEN @ \cup {filter} ELSE @]
       /\ UNCHANGED <<sessionVars, sessions, client_id, pc, session, packets, historyVars>>

Suback(t) ==
    /\ pc[t] = "subscribe" /\ frame[t].filters = <<>>
    /\ SendReply(session[t], "SUBACK")
    /\ granted' = [granted EXCEPT ![session[t]] = @ \cup frame[t].accepted]
    /\ Return(t)
    /\ UNCHANGED <<sessions, subscriptions, client_id, session, packets, owed,
                   delivered, acked, answered>>

(* UNSUBSCRIBE: all filters under one lock, then the UNSUBACK. *)
Unsubscribe(t, filters) ==
    /\ Receives(t, "UNSUBSCRIBE") /\ Served(t)
    /\ subscriptions' = Remove(subscriptions, Range(filters), client_id[session[t]])
    /\ granted' = [granted EXCEPT ![session[t]] = @ \ Range(filters)]
    /\ pc' = [pc EXCEPT ![t] = "unsuback"]
    /\ UNCHANGED <<sessionVars, sessions, client_id, session, frame, owed, delivered,
                   acked, answered>>

Unsuback(t) ==
    /\ pc[t] = "unsuback"
    /\ SendReply(session[t], "UNSUBACK")
    /\ Return(t)
    /\ UNCHANGED <<sessions, subscriptions, client_id, session, packets, historyVars>>

------------------------------------------------------------------------------
(* PUBLISH: the matching subscribers are copied under the read lock and     *)
(* served one after the other; the publisher's acknowledgement follows.     *)
(* The level granted being AtLeastOnce, the effective level is 0 or 1.      *)
Owing(topic) ==
    {session[u] : u \in {u \in Tasks :
        /\ Staying(u)
        /\ \E f \in granted[session[u]] : FilterMatches(f, topic)}}

Routing(t, topic, qos, m) ==
    /\ Receives(t, "PUBLISH")
    /\ frame' = [frame EXCEPT ![t].targets = Matches(subscriptions, topic),
                              ![t].msg = m, ![t].qos = qos]
    /\ pc' = [pc EXCEPT ![t] = "route"]
    /\ UNCHANGED <<sessionVars, sessions, subscriptions, client_id, session,
                   granted, delivered, acked, answered>>

PublishPacket(t, topic, qos) ==
    /\ Len(owed) + 1 \in Messages
    /\ owed' = Append(owed, [topic |-> topic, qos |-> qos,
                             by |-> {session[t]} \ {NoSession}, to |-> Owing(topic)])
    /\ Routing(t, topic, qos, Len(owed) + 1)

(* A QoS 2 publish again, from a client that has a new session and got no   *)
(* PUBREC on the ones before.  The handler is the same: neither the DUP flag *)
(* nor the packet id is compared with anything.                              *)
PublishAgain(t, m) ==
    /\ Served(t) /\ owed[m].qos = 2 /\ m \notin answered
    /\ session[t] \notin owed[m].by
    /\ \E s \in owed[m].by : client_id[s] = client_id[session[t]]
    /\ owed' = [owed EXCEPT ![m].by = @ \cup {session[t]}]
    /\ Routing(t, owed[m].topic, 2, m)

Targeting(t, target) ==
    /\ pc[t] = "route" /\ call[t].pc = "idle"
    /\ frame' = [frame EXCEPT ![t].targets = @ \ {target}]

(* QoS 0 goes through the sender that the subscription holds ...            *)
RouteQoS0(t, target) ==
    LET s == target.subscriber.sender
    IN /\ Targeting(t, target) /\ frame[t].qos = 0
       /\ IF s # NoSession /\ rx[s] = "open"
          THEN /\ SendQoS0(s, frame[t].msg)
               /\ delivered' = [delivered EXCEPT ![s] = @ \cup {frame[t].msg}]
          ELSE UNCHANGED <<sessionVars, delivered>>
       /\ UNCHANGED <<sessions, subscriptions, client_id, pc, session, packets,
                      granted, owed, acked, answered>>

(* Mutant: the publisher waits for a client that is away to come back. *)
RouteQoS1Waiting(t, target) ==
    LET s == sessions[target.subscriber.client_id]
    IN /\ Targeting(t, target) /\ frame[t].qos > 0
       /\ s # NoSession
       /\ EnqueuePublish(t, s, frame[t].msg, 1)
       /\ UNCHANGED <<sessions, subscriptions, client_id, pc, session, packets,
                      historyVars>>

(* ... and QoS 1 to the session that is registered under the client id of   *)
(* the subscription by now, if there is one.                                *)
RouteQoS1(t, target) ==
    LET s == sessions[target.subscriber.client_id]
    IN /\ Targeting(t, target) /\ frame[t].qos > 0
       /\ IF s # NoSession
          THEN EnqueuePublish(t, s, frame[t].msg, 1)
          ELSE UNCHANGED sessionVars
       /\ UNCHANGED <<sessions, subscriptions, client_id, pc, session, packets,
                      historyVars>>

Enqueue(t) ==
    LET s == call[t].session
    IN /\ Enqueueing(t)
       /\ delivered' = IF call[t].pc = "send" /\ rx[s] = "open"
                       THEN [delivered EXCEPT ![s] = @ \cup {frame[t].msg}]
                       ELSE delivered
       /\ UNCHANGED <<sessions, subscriptions, client_id, localVars, granted, owed,
                      acked, answered>>

(* Mutant: the publisher is answered before the message has been routed. *)
AcknowledgeFirst(t) ==
    /\ pc[t] = "route" /\ call[t].pc = "idle"
    /\ IF frame[t].qos > 0 /\ Served(t)
       THEN /\ SendReply(session[t], IF frame[t].qos = 1 THEN "PUBACK" ELSE "PUBREC")
            /\ acked' = acked \cup {frame[t].msg}
       ELSE UNCHANGED <<sessionVars, acked>>
    /\ Return(t)
    /\ UNCHANGED <<sessions, subscriptions, client_id, session, packets, granted,
                   owed, delivered, answered>>

(* PUBACK or PUBREC, by the level of the publish; nothing for QoS 0, nor    *)
(* for a client that did not send a CONNECT.                                *)
Acknowledge(t) ==
    /\ pc[t] = "route" /\ call[t].pc = "idle" /\ frame[t].targets = {}
    /\ IF frame[t].qos > 0 /\ Served(t)
       THEN /\ SendReply(session[t], IF frame[t].qos = 1 THEN "PUBACK" ELSE "PUBREC")
            /\ acked' = acked \cup {frame[t].msg}
       ELSE UNCHANGED <<sessionVars, acked>>
    /\ Return(t)
    /\ UNCHANGED <<sessions, subscriptions, client_id, session, packets, granted,
                   owed, delivered, answered>>

------------------------------------------------------------------------------
(* PUBACK *)
Puback(t) ==
    /\ pc[t] = "select" /\ Served(t)
    /\ \E p \in unacked[session[t]] : HandlePuback(session[t], p)
    /\ UNCHANGED brokerVars

(* PUBREC and PUBCOMP; no client has a reason to send them, since what the  *)
(* broker publishes is at most QoS 1.  A PUBREC gets a PUBREL, whether or   *)
(* not its id is pending.                                                   *)
Pubrec(t) ==
    /\ Receives(t, "PUBREC") /\ Served(t)
    /\ \E id \in Ids : HandlePubrec(session[t], id)
    /\ pc' = [pc EXCEPT ![t] = "pubrel"]
    /\ UNCHANGED <<sessions, subscriptions, client_id, session, frame, historyVars>>

ReplyPubrel(t) ==
    /\ pc[t] = "pubrel"
    /\ SendReply(session[t], "PUBREL")
    /\ Return(t)
    /\ UNCHANGED <<sessions, subscriptions, client_id, session, packets, historyVars>>

Pubcomp(t) ==
    /\ Receives(t, "PUBCOMP") /\ Served(t)
    /\ \E id \in Ids : HandlePubcomp(session[t], id)
    /\ UNCHANGED <<sessions, subscriptions, client_id, pc, session, frame, historyVars>>

(* PUBREL and PINGREQ have a reply and no other effect. *)
Pubrel(t) ==
    /\ Receives(t, "PUBREL") /\ Served(t)
    /\ SendReply(session[t], "PUBCOMP")
    /\ UNCHANGED <<sessions, subscriptions, client_id, pc, session, frame, historyVars>>

Pingreq(t) ==
    /\ Receives(t, "PINGREQ") /\ Served(t)
    /\ SendReply(session[t], "PINGRESP")
    /\ UNCHANGED <<sessions, subscriptions, client_id, pc, session, frame, historyVars>>

(* The other arm of the select: the next packet of the channel is written   *)
(* to the socket.  Once a client has had a PUBREC it does not send again     *)
(* what it had published on that session.                                    *)
Deliver(t) ==
    LET s == session[t]
    IN /\ pc[t] = "select" /\ Served(t)
       /\ Forward(s)
       /\ answered' = IF Head(out[s]).kind = "PUBREC"
                      THEN answered \cup {m \in acked : owed[m].qos = 2 /\ s \in owed[m].by}
                      ELSE answered
       /\ UNCHANGED <<sessions, subscriptions, client_id, localVars, granted, owed,
                      delivered, acked>>

------------------------------------------------------------------------------
(* handle_disconnect: the client id is unregistered, whichever session is   *)
(* registered under it; then, under the write lock, all its subscriptions   *)
(* go.  A DISCONNECT packet leaves the connection open, without a session.  *)
Disconnecting(t) ==
    /\ Served(t)
    /\ sessions' = [sessions EXCEPT ![client_id[session[t]]] = NoSession]
    /\ pc' = [pc EXCEPT ![t] = "leave"]
    /\ UNCHANGED <<subscriptions, client_id, session, historyVars>>

Disconnect(t) ==
    /\ Receives(t, "DISCONNECT") /\ Disconnecting(t)
    /\ UNCHANGED <<sessionVars, frame>>

(* The client closes the connection; for a WebSocket also a failed read,    *)
(* decoding or write.                                                       *)
Close(t) ==
    /\ pc[t] = "select" /\ Disconnecting(t)
    /\ frame' = [frame EXCEPT ![t].ends = TRUE]
    /\ UNCHANGED <<sessionVars, packets>>

Leave(t) ==
    /\ pc[t] = "leave"
    /\ subscriptions' = RemoveAllForClient(subscriptions, client_id[session[t]])
    /\ pc' = [pc EXCEPT ![t] = "quit"]
    /\ UNCHANGED <<sessionVars, sessions, client_id, session, frame, packets, historyVars>>

(* Mutant: the connection keeps the session it has ended. *)
QuitKeepingSession(t) ==
    /\ pc[t] = "quit"
    /\ DropReceiver(session[t])
    /\ pc' = [pc EXCEPT ![t] = IF frame[t].ends THEN "closed" ELSE "select"]
    /\ frame' = [frame EXCEPT ![t] = NoFrame]
    /\ UNCHANGED <<sessions, subscriptions, client_id, session, packets, historyVars>>

Quit(t) ==
    /\ pc[t] = "quit"
    /\ DropReceiver(session[t])
    /\ session' = [session EXCEPT ![t] = NoSession]
    /\ pc' = [pc EXCEPT ![t] = IF frame[t].ends THEN "closed" ELSE "select"]
    /\ frame' = [frame EXCEPT ![t] = NoFrame]
    /\ UNCHANGED <<sessions, subscriptions, client_id, packets, historyVars>>

(* The listener spawns a task for the next connection. *)
Accept(t) ==
    /\ pc[t] = "closed"
    /\ pc' = [pc EXCEPT ![t] = "select"]
    /\ UNCHANGED <<sessionVars, sessions, subscriptions, client_id, session, frame,
                   packets, historyVars>>

(* A connection without a session ends. *)
Hangup(t) ==
    /\ pc[t] = "select" /\ ~Served(t)
    /\ pc' = [pc EXCEPT ![t] = "closed"]
    /\ UNCHANGED <<sessionVars, sessions, subscriptions, client_id, session, frame,
                   packets, historyVars>>

(* A read, decode, handler or write error on a TCP connection:              *)
(* handle_connection returns at once, and handle_disconnect is not called.  *)
Fail(t) ==
    /\ t \in Tcp /\ pc[t] = "select" /\ Served(t)
    /\ DropReceiver(session[t])
    /\ session' = [session EXCEPT ![t] = NoSession]
    /\ pc' = [pc EXCEPT ![t] = "closed"]
    /\ UNCHANGED <<sessions, subscriptions, client_id, frame, packets, historyVars>>

------------------------------------------------------------------------------
Init ==
    /\ SessionInit
    /\ sessions = [c \in ClientIds |-> NoSession]
    /\ subscriptions = EmptyTree
    /\ client_id = [s \in Sessions |-> NoSession]
    /\ pc = [t \in Tasks |-> "select"]
    /\ session = [t \in Tasks |-> NoSession]
    /\ frame = [t \in Tasks |-> NoFrame]
    /\ packets = [t \in Tasks |-> 0]
    /\ granted = [s \in Sessions |-> {}]
    /\ owed = <<>>
    /\ delivered = [s \in Sessions |-> {}]
    /\ acked = {}
    /\ answered = {}

(* What the client and the network decide. *)
Client(t) ==
    \/ Accept(t)
    \/ \E c \in ClientIds : Connect(t, c)
    \/ \E filters \in Requests : Subscribe(t, filters)
    \/ \E filters \in Requests : Unsubscribe(t, filters)
    \/ \E topic \in Topics, qos \in PublishQoS : PublishPacket(t, topic, qos)
    \/ \E m \in DOMAIN owed : PublishAgain(t, m)
    \/ Puback(t)
    \/ Pubrec(t)
    \/ Pubrel(t)
    \/ Pubcomp(t)
    \/ Pingreq(t)
    \/ Disconnect(t)
    \/ Close(t)
    \/ Hangup(t)
    \/ Fail(t)

(* The rest of a handler, once its packet has been received. *)
Handler(t) ==
    \/ Connack(t)
    \/ Adopt(t)
    \/ AddFilter(t)
    \/ Suback(t)
    \/ Unsuback(t)
    \/ \E target \in frame[t].targets : RouteQoS0(t, target)
    \/ \E target \in frame[t].targets : RouteQoS1(t, target)
    \/ Enqueue(t)
    \/ Acknowledge(t)
    \/ ReplyPubrel(t)
    \/ Leave(t)
    \/ Quit(t)

Next == \E t \in Tasks : Client(t) \/ Handler(t) \/ Deliver(t)

Spec == Init /\ [][Next]_vars

(* The runtime polls each task that can run, and the waiters of a mutex get *)
(* it in turn.  Nothing is assumed of the clients: none needs to read what  *)
(* is sent to it, close its connection or send another packet.              *)
Fairness ==
    \A t \in Tasks :
        /\ WF_vars(Handler(t))
        /\ SF_vars(call[t].pc = "lock" /\ Enqueue(t))

FairSpec == Spec /\ Fairness

------------------------------------------------------------------------------
Stages == {"select", "connack", "adopt", "subscribe", "unsuback", "route",
           "pubrel", "leave", "quit", "closed"}
SubscriberRecords == [client_id : ClientIds, sender : Sessions \cup {NoSession}]
Installed(place) == DOMAIN Vector(subscriptions, place)

(* Every variable keeps its type; a task that has a session has a client id *)
(* and, unless it is about to end, an open channel; and no two tasks have   *)
(* the same session.                                                        *)
BrokerTypeOK ==
    /\ sessions \in [ClientIds -> Sessions \cup {NoSession}]
    /\ \A place \in Places(subscriptions) : Installed(place) \subseteq SubscriberRecords
    /\ client_id \in [Sessions -> ClientIds \cup {NoSession}]
    /\ pc \in [Tasks -> Stages]
    /\ session \in [Tasks -> Sessions \cup {NoSession}]
    /\ \A t \in Tasks : packets[t] \in 0 .. MaxPackets[t]
    /\ \A t \in Tasks : Served(t) => client_id[session[t]] \in ClientIds
    /\ \A t \in Tasks : Staying(t) => rx[session[t]] = "open"
    /\ \A t, u \in Tasks : Served(t) /\ session[t] = session[u] => t = u

(* A connected client is registered under its id ("sessions: Registro de    *)
(* clientes conectados", ARCHITECTURE.md:88), so that publishes reach it.   *)
(* Holds when no two connections use the same id.  When two do, the end of  *)
(* the older connection unregisters the newer session.                      *)
ConnectedIsRegistered ==
    \A t \in Tasks : Staying(t) => sessions[client_id[session[t]]] # NoSession

(* A filter that was granted with a SUBACK stays in the trie for the client *)
(* until its UNSUBSCRIBE, whatever the other connections subscribe,         *)
(* unsubscribe or end.  Holds when no two connections use the same id.      *)
GrantedIsInstalled ==
    \A t \in Tasks : Staying(t) =>
        \A f \in granted[session[t]] :
            \E s \in Installed(Place(f)) : s.client_id = client_id[session[t]]

(* "QoS 1: At least once, Guaranteed delivery with PUBACK confirmation"     *)
(* (docker_description.md:34): by the time the publisher gets its PUBACK or *)
(* PUBREC, the message is in the channel of each session that had been      *)
(* granted a matching filter when the publish was received, unless that     *)
(* session has ended.  Holds when no two connections use the same id.       *)
AckedIsDelivered ==
    \A m \in acked : \A s \in owed[m].to :
        m \in delivered[s] \/ \A t \in Tasks : session[t] = s => ~Staying(t)

(* Nothing outlives its client ("handle_disconnect: Limpia sesion y         *)
(* suscripciones", ARCHITECTURE.md:96): a registered session belongs to a   *)
(* connection, and a subscription to a client that still has one.  Holds    *)
(* for WebSockets, also when connections share client ids.  A TCP           *)
(* connection that ends with an error leaves both behind.                   *)
NothingOutlivesItsClient ==
    /\ \A c \in ClientIds : sessions[c] # NoSession =>
           \E t \in Tasks : \/ session[t] = sessions[c] /\ Staying(t)
                            \/ frame[t].new = sessions[c]
    /\ \A place \in Places(subscriptions) : \A s \in Installed(place) :
           \E t \in Tasks : /\ Served(t) /\ pc[t] # "quit"
                            /\ client_id[session[t]] = s.client_id

(* The handler of every packet returns to the select loop, or the connection *)
(* ends: no subscriber that stops reading, no connection that ends and no    *)
(* contention for a mutex blocks a publisher.                                *)
EveryHandlerReturns ==
    \A t \in Tasks : pc[t] \notin {"select", "closed"} ~> pc[t] \in {"select", "closed"}

------------------------------------------------------------------------------
(* "handle_subscribe: ... devuelve SUBACK" (ARCHITECTURE.md:94), "Entrega   *)
(* con confirmacion PUBACK" (README.md:10): what a handler gets from        *)
(* Session::sender reaches the client: the reply it sends, and the sender   *)
(* it stores with a subscription.  When a publish to the client holds the   *)
(* mutex, Session::sender returns a dead channel: the reply is lost, or the *)
(* subscription never gets a QoS 0 publish.                                 *)
Replying(t, s) ==
    \/ pc[t] = "subscribe" /\ frame[t].filters = <<>> /\ session[t] = s
    \/ pc[t] \in {"unsuback", "pubrel"} /\ session[t] = s
    \/ pc[t] = "connack" /\ frame[t].new = s

RepliesReachTheChannel ==
    [][\A t \in Tasks :
           /\ \A s \in Sessions : Replying(t, s) /\ pc'[t] # pc[t]
                                      => Len(out'[s]) = Len(out[s]) + 1
           /\ pc[t] = "select" /\ pc'[t] = "subscribe"
                  => frame'[t].sender = session[t]]_vars

(* "QoS 2 (Exactly Once)" (README.md:11): a client whose only subscription  *)
(* matches a QoS 2 publish is not sent it twice.  It is, when the           *)
(* publisher's connection ends before the PUBREC and the publisher sends    *)
(* the message again: the broker keeps no record of the ids it has received.*)
ExactlyOnce ==
    \A s \in Sessions : \A i \in DOMAIN out[s] :
        LET p == out[s][i]
        IN p.kind = "PUBLISH" /\ owed[p.msg].qos = 2 =>
               /\ \A j \in DOMAIN out[s] : out[s][j].msg = p.msg => j = i
               /\ \A q \in unacked[s] : q.msg # p.msg
==============================================================================
