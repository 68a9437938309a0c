---------------------------- MODULE BrokerProofs -----------------------------
(* The broker, for any number of tasks, sessions, client ids, filters and   *)
(* messages: its types, and that all it does to the sessions are the steps  *)
(* of Session.tla, so that what SessionProofs shows holds of the sessions   *)
(* of the broker.                                                           *)
EXTENDS Broker, SessionProofs, TopicTreeProofs

SessionOrNone == Sessions \cup {NoSession}
Targets == [place : Seq(STRING) \X BOOLEAN, subscriber : SubscriberRecords, copy : Nat]
Frames == [new : SessionOrNone, sender : SessionOrNone, filters : Seq(Names),
           accepted : SUBSET Names, targets : SUBSET Targets,
           msg : Messages \cup {NoMessage}, qos : 0 .. 2, ends : BOOLEAN]
Debts == [topic : Topics, qos : 0 .. 2, by : SUBSET Sessions, to : SUBSET Sessions]

(* The types of the broker's variables. *)
Types ==
    /\ sessions \in [ClientIds -> SessionOrNone]
    /\ TreeOf(subscriptions, SubscriberRecords)
    /\ client_id \in [Sessions -> ClientIds \cup {NoSession}]
    /\ pc \in [Tasks -> Stages]
    /\ session \in [Tasks -> SessionOrNone]
    /\ frame \in [Tasks -> Frames]
    /\ packets \in [Tasks -> Nat]
    /\ \A t \in Tasks : packets[t] <= MaxPackets[t]

HistoryTypes ==
    /\ granted \in [Sessions -> SUBSET Names]
    /\ owed \in Seq(Debts)
    /\ 1 .. Len(owed) \subseteq Messages
    /\ delivered \in [Sessions -> SUBSET Messages]
    /\ acked \subseteq 1 .. Len(owed)
    /\ answered \subseteq acked

(* Where a task is tells which of its variables are set; it is inside       *)
(* enqueue_publish only while it routes a publish.                          *)
FlowAt(t) ==
    /\ pc[t] \in {"connack", "adopt"} <=> frame[t].new # NoSession
    /\ pc[t] \in {"subscribe", "unsuback", "pubrel", "leave", "quit"} => Served(t)
    /\ pc[t] = "closed" => ~Served(t)
    /\ pc[t] = "route" => frame[t].msg \in 1 .. Len(owed)
    /\ call[t].pc # "idle" => pc[t] = "route"

Flow == \A t \in Tasks : FlowAt(t)

(* A session has one owner, the task that made it, under one of the task's  *)
(* client ids, with its receiver open; and a client id is registered for a  *)
(* session of its own.                                                      *)
Owns(t, s) == s # NoSession /\ s \in {session[t], frame[t].new}

Owners ==
    /\ \A t \in Tasks : \A s \in Sessions : Owns(t, s) =>
           /\ rx[s] = "open"
           /\ client_id[s] \in ClientIds \cap UsesIds[t]
           /\ \A u \in Tasks : Owns(u, s) => u = t
    /\ \A t \in Tasks : Served(t) => session[t] # frame[t].new
    /\ \A c \in ClientIds : sessions[c] # NoSession =>
           /\ rx[sessions[c]] # "none"
           /\ client_id[sessions[c]] = c

BrokerInv == SessionTypeOK /\ Types /\ HistoryTypes /\ Flow /\ Owners

------------------------------------------------------------------------------
(* Each action of the broker is one of the sessions' actions, or none.      *)
LEMMA FreshSession ==
    ASSUME \E s \in Sessions : rx[s] = "none"
    PROVE  Fresh \in Sessions /\ rx[Fresh] = "none"
PROOF BY DEF Fresh

LEMMA FramesOf ==
    ASSUME Types, NEW t \in Tasks
    PROVE  /\ frame[t] \in Frames
           /\ frame[t].new \in SessionOrNone /\ frame[t].sender \in SessionOrNone
           /\ frame[t].filters \in Seq(Names) /\ frame[t].accepted \subseteq Names
           /\ frame[t].targets \subseteq Targets
           /\ frame[t].msg \in Messages \cup {NoMessage}
           /\ frame[t].qos \in 0 .. 2 /\ frame[t].ends \in BOOLEAN
           /\ session[t] \in SessionOrNone
PROOF BY DEF Types, Frames

(* What a task can rely on about its session, and about one it is making.   *)
LEMMA OwnSession ==
    ASSUME BrokerInv, NEW t \in Tasks, Served(t)
    PROVE  /\ session[t] \in Sessions /\ Owns(t, session[t])
           /\ rx[session[t]] = "open"
           /\ client_id[session[t]] \in ClientIds \cap UsesIds[t]
PROOF
<1>1. session[t] \in Sessions /\ Owns(t, session[t])
  BY FramesOf, SessionAssumption DEF BrokerInv, Served, Owns, SessionOrNone
<1> QED BY <1>1 DEF BrokerInv, Owners

LEMMA NewSession ==
    ASSUME BrokerInv, NEW t \in Tasks, frame[t].new # NoSession
    PROVE  /\ frame[t].new \in Sessions /\ Owns(t, frame[t].new)
           /\ rx[frame[t].new] = "open"
           /\ client_id[frame[t].new] \in ClientIds \cap UsesIds[t]
PROOF
<1>1. frame[t].new \in Sessions /\ Owns(t, frame[t].new)
  BY FramesOf, SessionAssumption DEF BrokerInv, Owns, SessionOrNone
<1> QED BY <1>1 DEF BrokerInv, Owners

SessionStep == SessionNext \/ UNCHANGED sessionVars

LEMMA ClientSteps ==
    ASSUME BrokerInv, NEW t \in Tasks, Client(t)
    PROVE  SessionStep
PROOF
<1> USE DEF SessionStep, SessionNext, Calling
<1>0. Served(t) => session[t] \in Sessions
  BY FramesOf DEF BrokerInv, Served, SessionOrNone
<1>1. ASSUME NEW c \in ClientIds, Connect(t, c)
      PROVE  SessionStep
  BY <1>1, FreshSession DEF Connect
<1>2. CASE Puback(t)
  BY <1>0, <1>2 DEF Puback
<1>3. CASE Pubrec(t)
  BY <1>0, <1>3 DEF Pubrec
<1>4. CASE Pubcomp(t)
  BY <1>0, <1>4 DEF Pubcomp
<1>5. CASE Pubrel(t) \/ Pingreq(t)
  BY <1>0, <1>5 DEF Pubrel, Pingreq, ReplyKinds
<1>6. CASE Fail(t)
  BY <1>0, <1>6 DEF Fail
<1>7. CASE \/ Accept(t)
           \/ \E filters \in Requests : Subscribe(t, filters)
           \/ \E filters \in Requests : Unsubscribe(t, filters)
           \/ Disconnect(t) \/ Close(t) \/ Hangup(t)
  BY <1>7 DEF Accept, Subscribe, Unsubscribe, Disconnect, Close, Hangup
<1>8. CASE \/ \E topic \in Topics, qos \in PublishQoS : PublishPacket(t, topic, qos)
           \/ \E m \in DOMAIN owed : PublishAgain(t, m)
  BY <1>8 DEF PublishPacket, PublishAgain, Routing
<1> QED BY <1>1, <1>2, <1>3, <1>4, <1>5, <1>6, <1>7, <1>8 DEF Client

LEMMA HandlerSteps ==
    ASSUME BrokerInv, NEW t \in Tasks, Handler(t)
    PROVE  SessionStep
PROOF
<1> USE DEF SessionStep, SessionNext, Calling
<1>0. /\ Served(t) => session[t] \in Sessions
      /\ frame[t].new # NoSession => frame[t].new \in Sessions
      /\ frame[t].targets \subseteq Targets
      /\ pc[t] = "route" => frame[t].msg \in Messages
  BY FramesOf DEF BrokerInv, Served, SessionOrNone, Flow, FlowAt, HistoryTypes
<1>1. CASE Connack(t)
  BY <1>0, <1>1 DEF Connack, BrokerInv, Flow, FlowAt, ReplyKinds
<1>2. CASE Adopt(t)
  BY <1>0, <1>2 DEF Adopt
<1>3. CASE Suback(t)
  BY <1>0, <1>3 DEF Suback, BrokerInv, Flow, FlowAt, ReplyKinds
<1>4. CASE Unsuback(t) \/ ReplyPubrel(t)
  BY <1>0, <1>4 DEF Unsuback, ReplyPubrel, BrokerInv, Flow, FlowAt, ReplyKinds
<1>5. ASSUME NEW target \in frame[t].targets, RouteQoS0(t, target)
      PROVE  SessionStep
  <2>1. target.subscriber.sender \in SessionOrNone
    BY <1>0 DEF Targets, SubscriberRecords, SessionOrNone
  <2> QED BY <1>0, <1>5, <2>1 DEF RouteQoS0, Targeting, SessionOrNone
<1>6. ASSUME NEW target \in frame[t].targets, RouteQoS1(t, target)
      PROVE  SessionStep
  <2>1. sessions[target.subscriber.client_id] \in SessionOrNone
    BY <1>0 DEF Targets, SubscriberRecords, BrokerInv, Types
  <2> QED BY <1>0, <1>6, <2>1, BrokerAssumption DEF RouteQoS1, Targeting, SessionOrNone
<1>7. CASE Enqueue(t)
  BY <1>7 DEF Enqueue
<1>8. CASE Acknowledge(t)
  BY <1>0, <1>8 DEF Acknowledge, ReplyKinds
<1>9. CASE AddFilter(t) \/ Leave(t)
  BY <1>9 DEF AddFilter, Leave
<1>10. CASE Quit(t)
  BY <1>0, <1>10 DEF Quit, BrokerInv, Flow, FlowAt
<1> QED BY <1>1, <1>2, <1>3, <1>4, <1>5, <1>6, <1>7, <1>8, <1>9, <1>10 DEF Handler

LEMMA DeliverSteps ==
    ASSUME BrokerInv, NEW t \in Tasks, Deliver(t)
    PROVE  SessionStep
PROOF
<1>1. session[t] \in Sessions
  BY FramesOf DEF Deliver, BrokerInv, Served, SessionOrNone
<1> QED BY <1>1 DEF Deliver, SessionStep, SessionNext, Calling

LEMMA BrokerSteps == BrokerInv /\ [Next]_vars => SessionStep
PROOF
<1>1. CASE Next
  BY <1>1, ClientSteps, HandlerSteps, DeliverSteps DEF Next
<1>2. CASE UNCHANGED vars
  BY <1>2 DEF vars, SessionStep
<1> QED BY <1>1, <1>2

LEMMA SessionTypesKept == SessionTypeOK /\ SessionStep => SessionTypeOK'
PROOF BY SessionTypeStep DEF SessionStep

------------------------------------------------------------------------------
(* The types of the broker's own variables.                                 *)
LEMMA NoFrameTypes == NoFrame \in Frames
PROOF
<1>1. <<>> \in Seq(Names)
  OBVIOUS
<1> QED BY <1>1 DEF NoFrame, Frames, SessionOrNone

LEMMA RequestTypes ==
    ASSUME NEW filters \in Requests
    PROVE  filters \in Seq(Names) /\ Range(filters) \subseteq Names
PROOF
<1>1. filters \in Seq(Names)
  BY BrokerAssumption
<1>2. \A i \in DOMAIN filters : filters[i] \in Names
  <2>1. \A i \in 1 .. Len(filters) : filters[i] \in Names
    BY <1>1
  <2> QED BY <1>1, <2>1
<1> QED BY <1>1, <1>2 DEF Range

(* A step on the local variables alone. *)
LocalTypes ==
    /\ pc \in [Tasks -> Stages]
    /\ session \in [Tasks -> SessionOrNone]
    /\ frame \in [Tasks -> Frames]
    /\ packets \in [Tasks -> Nat]
    /\ \A t \in Tasks : packets[t] <= MaxPackets[t]

SharedTypes ==
    /\ sessions \in [ClientIds -> SessionOrNone]
    /\ TreeOf(subscriptions, SubscriberRecords)
    /\ client_id \in [Sessions -> ClientIds \cup {NoSession}]

LEMMA ReceivesTypes ==
    ASSUME Types, NEW t \in Tasks, NEW kind, Receives(t, kind)
    PROVE  /\ packets' \in [Tasks -> Nat]
           /\ \A u \in Tasks : packets'[u] <= MaxPackets[u]
           /\ pc[t] = "select"
PROOF
<1>1. MaxPackets[t] \in Nat /\ packets[t] \in Nat
  BY BrokerAssumption DEF Types
<1>2. packets' = [packets EXCEPT ![t] = packets[t] + 1] /\ packets[t] + 1 <= MaxPackets[t]
  BY <1>1 DEF Receives
<1>3. packets' \in [Tasks -> Nat]
  BY <1>1, <1>2 DEF Types
<1>4. ASSUME NEW u \in Tasks
      PROVE  packets'[u] <= MaxPackets[u]
  BY <1>2 DEF Types
<1> QED BY <1>3, <1>4 DEF Receives

LEMMA LocalTypesClient ==
    ASSUME BrokerInv, NEW t \in Tasks, Client(t)
    PROVE  LocalTypes'
PROOF
<1> USE ReceivesTypes, FramesOf, NoFrameTypes
    DEF BrokerInv, Types, LocalTypes, Stages, SessionOrNone
<1>1. CASE Accept(t) \/ Hangup(t)
  BY <1>1 DEF Accept, Hangup
<1>2. ASSUME NEW c \in ClientIds, Connect(t, c)
      PROVE  LocalTypes'
  <2>1. [frame[t] EXCEPT !.new = Fresh] \in Frames
    BY <1>2, FreshSession DEF Connect, Frames
  <2> QED BY <1>2, <2>1 DEF Connect
<1>3. ASSUME NEW filters \in Requests, Subscribe(t, filters)
      PROVE  LocalTypes'
  <2> DEFINE s == IF sender[session[t]] = NoTask THEN session[t] ELSE NoSession
  <2>1. [frame[t] EXCEPT !.filters = filters, !.sender = s] \in Frames
    BY RequestTypes DEF Frames
  <2> QED BY <1>3, <2>1 DEF Subscribe
<1>4. ASSUME NEW filters \in Requests, Unsubscribe(t, filters)
      PROVE  LocalTypes'
  BY <1>4 DEF Unsubscribe
<1>5. ASSUME NEW topic, NEW qos \in 0 .. 2, NEW m \in Messages, Routing(t, topic, qos, m)
      PROVE  LocalTypes'
  <2>1. Matches(subscriptions, topic) \subseteq Targets
    BY MatchesOf DEF Targets
  <2>2. [frame[t] EXCEPT !.targets = Matches(subscriptions, topic), !.msg = m, !.qos = qos]
            \in Frames
    BY <2>1 DEF Frames
  <2> QED BY <1>5, <2>2 DEF Routing
<1>6. ASSUME NEW topic \in Topics, NEW qos \in PublishQoS, PublishPacket(t, topic, qos)
      PROVE  LocalTypes'
  BY <1>5, <1>6, BrokerAssumption DEF PublishPacket
<1>7. ASSUME NEW m \in DOMAIN owed, PublishAgain(t, m)
      PROVE  LocalTypes'
  <2> HIDE DEF BrokerInv, Types, LocalTypes, Stages, SessionOrNone
  <2>1. Routing(t, owed[m].topic, 2, m)
    BY <1>7 DEF PublishAgain
  <2>2. m \in Messages
    <3>1. owed \in Seq(Debts) /\ 1 .. Len(owed) \subseteq Messages
      BY DEF BrokerInv, HistoryTypes
    <3> QED BY <3>1
  <2>3. 2 \in 0 .. 2
    OBVIOUS
  <2> QED BY ONLY <1>5, <2>1, <2>2, <2>3
<1>8. CASE Puback(t)
  BY <1>8 DEF Puback, brokerVars, localVars
<1>9. CASE Pubrec(t) \/ Pubcomp(t) \/ Pubrel(t) \/ Pingreq(t)
  BY <1>9 DEF Pubrec, Pubcomp, Pubrel, Pingreq
<1>10. CASE Disconnect(t)
  BY <1>10 DEF Disconnect, Disconnecting
<1>11. CASE Close(t)
  <2>1. [frame[t] EXCEPT !.ends = TRUE] \in Frames
    BY DEF Frames
  <2> QED BY <1>11, <2>1 DEF Close, Disconnecting
<1>12. CASE Fail(t)
  BY <1>12 DEF Fail
<1> QED BY <1>1, <1>2, <1>3, <1>4, <1>6, <1>7, <1>8, <1>9, <1>10, <1>11, <1>12
        DEF Client

LEMMA LocalTypesHandler ==
    ASSUME BrokerInv, NEW t \in Tasks, Handler(t)
    PROVE  LocalTypes'
PROOF
<1> USE FramesOf, NoFrameTypes
    DEF BrokerInv, Types, LocalTypes, Stages, SessionOrNone, Return
<1>1. CASE Connack(t) \/ Adopt(t)
  BY <1>1 DEF Connack, Adopt
<1>2. CASE AddFilter(t)
  <2> DEFINE filter == Head(frame[t].filters)
             more == IF ValidFilter(filter) THEN frame[t].accepted \cup {filter}
                                            ELSE frame[t].accepted
  <2>1. filter \in Names /\ Tail(frame[t].filters) \in Seq(Names)
    BY <1>2 DEF AddFilter
  <2>2. [frame[t] EXCEPT !.filters = Tail(@), !.accepted = more] \in Frames
    BY <2>1 DEF Frames
  <2> QED BY <1>2, <2>2 DEF AddFilter
<1>3. CASE Suback(t) \/ Unsuback(t) \/ ReplyPubrel(t) \/ Acknowledge(t)
  BY <1>3 DEF Suback, Unsuback, ReplyPubrel, Acknowledge
<1>4. ASSUME NEW target, Targeting(t, target), UNCHANGED <<pc, session, packets>>
      PROVE  LocalTypes'
  <2>1. [frame[t] EXCEPT !.targets = @ \ {target}] \in Frames
    BY DEF Frames
  <2> QED BY <1>4, <2>1 DEF Targeting
<1>5. ASSUME NEW target, RouteQoS0(t, target) \/ RouteQoS1(t, target)
      PROVE  LocalTypes'
  BY <1>4, <1>5 DEF RouteQoS0, RouteQoS1
<1>6. CASE Enqueue(t) \/ Leave(t)
  BY <1>6 DEF Enqueue, Leave, localVars
<1>7. CASE Quit(t)
  BY <1>7 DEF Quit
<1> QED BY <1>1, <1>2, <1>3, <1>5, <1>6, <1>7 DEF Handler

LEMMA SharedTypesClient ==
    ASSUME BrokerInv, NEW t \in Tasks, Client(t)
    PROVE  SharedTypes'
PROOF
<1> USE DEF BrokerInv, Types, SharedTypes, SessionOrNone
<1>1. ASSUME NEW c \in ClientIds, Connect(t, c)
      PROVE  SharedTypes'
  BY <1>1, FreshSession DEF Connect
<1>2. ASSUME NEW filters \in Requests, Unsubscribe(t, filters)
      PROVE  SharedTypes'
  BY <1>2, RemoveTreeOf DEF Unsubscribe
<1>3. CASE Disconnect(t) \/ Close(t)
  BY <1>3 DEF Disconnect, Close, Disconnecting
<1>4. CASE \/ Accept(t)
           \/ \E filters \in Requests : Subscribe(t, filters)
           \/ Pubrec(t) \/ Pubcomp(t) \/ Pubrel(t) \/ Pingreq(t) \/ Hangup(t) \/ Fail(t)
  BY <1>4 DEF Accept, Subscribe, Pubrec, Pubcomp, Pubrel, Pingreq, Hangup, Fail
<1>5. CASE \/ \E topic \in Topics, qos \in PublishQoS : PublishPacket(t, topic, qos)
           \/ \E m \in DOMAIN owed : PublishAgain(t, m)
           \/ Puback(t)
  BY <1>5 DEF PublishPacket, PublishAgain, Routing, Puback, brokerVars
<1> QED BY <1>1, <1>2, <1>3, <1>4, <1>5 DEF Client

LEMMA SharedTypesHandler ==
    ASSUME BrokerInv, NEW t \in Tasks, Handler(t)
    PROVE  SharedTypes'
PROOF
<1> USE DEF BrokerInv, Types, SharedTypes
<1>1. CASE AddFilter(t)
  <2> DEFINE filter == Head(frame[t].filters)
             subscriber == [client_id |-> client_id[session[t]], sender |-> frame[t].sender]
  <2>1. filter \in Names
    BY <1>1, FramesOf DEF AddFilter
  <2>2. client_id[session[t]] \in ClientIds
    <3>1. Served(t)
      BY <1>1 DEF AddFilter, Flow, FlowAt
    <3> QED BY <3>1, OwnSession
  <2>3. subscriber \in SubscriberRecords
    BY <2>2, FramesOf DEF SubscriberRecords, SessionOrNone
  <2>4. ValidFilter(filter) => TreeOf(Add(subscriptions, filter, subscriber), SubscriberRecords)
    BY <2>1, <2>3, AddTreeOf DEF Filter, Names
  <2> QED BY <1>1, <2>4 DEF AddFilter
<1>2. CASE Leave(t)
  BY <1>2, RemoveAllTreeOf DEF Leave
<1>3. CASE \/ Connack(t) \/ Adopt(t) \/ Suback(t) \/ Unsuback(t) \/ ReplyPubrel(t)
           \/ Enqueue(t) \/ Acknowledge(t) \/ Quit(t)
           \/ \E target \in frame[t].targets : RouteQoS0(t, target) \/ RouteQoS1(t, target)
  BY <1>3 DEF Connack, Adopt, Suback, Unsuback, ReplyPubrel, Enqueue, Acknowledge, Quit,
              RouteQoS0, RouteQoS1
<1> QED BY <1>1, <1>2, <1>3 DEF Handler

------------------------------------------------------------------------------
(* The history variables: messages are numbered by their publishes, and     *)
(* what is acknowledged has been published.                                 *)
LEMMA DebtOf ==
    ASSUME HistoryTypes, NEW m \in 1 .. Len(owed)
    PROVE  owed[m] \in Debts /\ owed[m].by \subseteq Sessions /\ owed[m].to \subseteq Sessions
PROOF
<1>1. owed[m] \in Debts
  BY DEF HistoryTypes
<1> QED BY <1>1 DEF Debts

LEMMA PublishTypes ==
    ASSUME BrokerInv, NEW t \in Tasks, NEW topic \in Topics, NEW qos \in PublishQoS,
           PublishPacket(t, topic, qos)
    PROVE  HistoryTypes' /\ Len(owed') = Len(owed) + 1
PROOF
<1> DEFINE debt == [topic |-> topic, qos |-> qos, by |-> {session[t]} \ {NoSession},
                    to |-> Owing(topic)]
<1>1. Owing(topic) \subseteq Sessions
  BY DEF Owing, Staying, Served, BrokerInv, Types, SessionOrNone
<1>2. {session[t]} \ {NoSession} \subseteq Sessions
  BY DEF BrokerInv, Types, SessionOrNone
<1>3. debt \in Debts
  BY <1>1, <1>2, BrokerAssumption DEF Debts
<1>4. owed' = Append(owed, debt) /\ Len(owed) + 1 \in Messages
  BY DEF PublishPacket
<1>5. owed \in Seq(Debts) /\ Len(owed) \in Nat /\ 1 .. Len(owed) \subseteq Messages
  BY DEF BrokerInv, HistoryTypes
<1> HIDE DEF debt
<1>6. owed' \in Seq(Debts) /\ Len(owed') = Len(owed) + 1
  BY <1>3, <1>4, <1>5
<1>7. 1 .. Len(owed') \subseteq Messages /\ 1 .. Len(owed) \subseteq 1 .. Len(owed')
  BY <1>4, <1>5, <1>6
<1>8. UNCHANGED <<granted, delivered, acked, answered>>
  BY DEF PublishPacket, Routing
<1> QED BY <1>6, <1>7, <1>8 DEF BrokerInv, HistoryTypes

LEMMA PublishAgainTypes ==
    ASSUME BrokerInv, NEW t \in Tasks, NEW m \in DOMAIN owed, PublishAgain(t, m)
    PROVE  HistoryTypes' /\ Len(owed') = Len(owed)
PROOF
<1>1. m \in 1 .. Len(owed) /\ owed \in Seq(Debts)
  BY DEF BrokerInv, HistoryTypes
<1>2. session[t] \in Sessions
  BY DEF PublishAgain, Served, BrokerInv, Types, SessionOrNone
<1>3. [owed[m] EXCEPT !.by = @ \cup {session[t]}] \in Debts
  <2>1. owed[m] \in Debts
    BY <1>1
  <2> QED BY <1>2, <2>1 DEF Debts
<1>4. owed' = [owed EXCEPT ![m] = [owed[m] EXCEPT !.by = @ \cup {session[t]}]]
  BY DEF PublishAgain
<1>5. owed' \in Seq(Debts) /\ Len(owed') = Len(owed)
  BY <1>1, <1>3, <1>4
<1>6. UNCHANGED <<granted, delivered, acked, answered>>
  BY DEF PublishAgain, Routing
<1> QED BY <1>5, <1>6 DEF BrokerInv, HistoryTypes

LEMMA HistoryTypesClient ==
    ASSUME BrokerInv, NEW t \in Tasks, Client(t)
    PROVE  HistoryTypes' /\ Len(owed) <= Len(owed')
PROOF
<1>0. Len(owed) \in Nat
  BY DEF BrokerInv, HistoryTypes
<1>1. ASSUME NEW filters \in Requests, Unsubscribe(t, filters)
      PROVE  HistoryTypes' /\ Len(owed) <= Len(owed')
  <2>1. granted' \in [Sessions -> SUBSET Names]
    <3>1. session[t] \in Sessions
      BY <1>1 DEF Unsubscribe, Served, BrokerInv, Types, SessionOrNone
    <3>2. granted[session[t]] \ Range(filters) \subseteq Names
      BY <3>1 DEF BrokerInv, HistoryTypes
    <3> QED BY <1>1, <3>2 DEF Unsubscribe, BrokerInv, HistoryTypes
  <2>2. UNCHANGED <<owed, delivered, acked, answered>>
    BY <1>1 DEF Unsubscribe
  <2> QED BY <1>0, <2>1, <2>2 DEF BrokerInv, HistoryTypes
<1>2. CASE UNCHANGED historyVars
  BY <1>0, <1>2 DEF historyVars, BrokerInv, HistoryTypes
<1>3. CASE \/ Accept(t)
           \/ \E c \in ClientIds : Connect(t, c)
           \/ \E filters \in Requests : Subscribe(t, filters)
           \/ Puback(t) \/ Pubrec(t) \/ Pubcomp(t) \/ Pubrel(t) \/ Pingreq(t) \/ Disconnect(t)
           \/ Close(t) \/ Hangup(t) \/ Fail(t)
  BY <1>2, <1>3 DEF Accept, Connect, Subscribe, Puback, brokerVars, Pubrec, Pubcomp, Pubrel,
                    Pingreq, Disconnect, Close, Disconnecting, Hangup, Fail
<1> QED BY <1>0, <1>1, <1>3, PublishTypes, PublishAgainTypes DEF Client

LEMMA HistoryTypesHandler ==
    ASSUME BrokerInv, NEW t \in Tasks, Handler(t)
    PROVE  HistoryTypes' /\ owed' = owed
PROOF
<1>0. /\ Served(t) => session[t] \in Sessions
      /\ pc[t] = "route" => frame[t].msg \in 1 .. Len(owed) /\ frame[t].msg \in Messages
  BY DEF BrokerInv, Flow, FlowAt, Served, Types, HistoryTypes, SessionOrNone
<1>1. CASE Suback(t)
  <2>1. frame[t].accepted \subseteq Names
    BY FramesOf DEF BrokerInv
  <2>2. granted' \in [Sessions -> SUBSET Names]
    <3>1. session[t] \in Sessions
      BY <1>0, <1>1 DEF Suback, BrokerInv, Flow, FlowAt
    <3>2. granted[session[t]] \cup frame[t].accepted \subseteq Names
      BY <2>1, <3>1 DEF BrokerInv, HistoryTypes
    <3> QED BY <1>1, <3>2 DEF Suback, BrokerInv, HistoryTypes
  <2>3. UNCHANGED <<owed, delivered, acked, answered>>
    BY <1>1 DEF Suback
  <2> QED BY <2>2, <2>3 DEF BrokerInv, HistoryTypes
<1>2. ASSUME NEW s, pc[t] = "route", delivered' = [delivered EXCEPT ![s] = @ \cup {frame[t].msg}]
      PROVE  delivered' \in [Sessions -> SUBSET Messages]
  BY <1>0, <1>2 DEF BrokerInv, HistoryTypes
<1>3. ASSUME NEW target, RouteQoS0(t, target)
      PROVE  HistoryTypes' /\ owed' = owed
  <2>1. delivered' \in [Sessions -> SUBSET Messages]
    BY <1>2, <1>3 DEF RouteQoS0, Targeting, BrokerInv, HistoryTypes
  <2>2. UNCHANGED <<granted, owed, acked, answered>>
    BY <1>3 DEF RouteQoS0
  <2> QED BY <2>1, <2>2 DEF BrokerInv, HistoryTypes
<1>4. CASE Enqueue(t)
  <2>1. pc[t] = "route"
    BY <1>4 DEF Enqueue, Enqueueing, FetchPacketId, ResetPacketId, LockSender, SendPublish,
                InsertPending, BrokerInv, Flow, FlowAt
  <2>2. delivered' \in [Sessions -> SUBSET Messages]
    BY <1>2, <1>4, <2>1 DEF Enqueue, BrokerInv, HistoryTypes
  <2>3. UNCHANGED <<granted, owed, acked, answered>>
    BY <1>4 DEF Enqueue
  <2> QED BY <2>2, <2>3 DEF BrokerInv, HistoryTypes
<1>5. CASE Acknowledge(t)
  <2>1. acked \subseteq acked' /\ acked' \subseteq 1 .. Len(owed)
    BY <1>0, <1>5 DEF Acknowledge, BrokerInv, HistoryTypes
  <2>2. UNCHANGED <<granted, owed, delivered, answered>>
    BY <1>5 DEF Acknowledge
  <2> QED BY <2>1, <2>2 DEF BrokerInv, HistoryTypes
<1>6. CASE UNCHANGED historyVars
  BY <1>6 DEF historyVars, BrokerInv, HistoryTypes
<1>7. CASE \/ Connack(t) \/ Adopt(t) \/ AddFilter(t) \/ Unsuback(t) \/ ReplyPubrel(t)
           \/ Leave(t) \/ Quit(t)
           \/ \E target \in frame[t].targets : RouteQoS1(t, target)
  BY <1>6, <1>7 DEF Connack, Adopt, AddFilter, Unsuback, ReplyPubrel, Leave, Quit, RouteQoS1
<1> QED BY <1>1, <1>3, <1>4, <1>5, <1>7 DEF Handler

------------------------------------------------------------------------------
(* A step of one task leaves the local variables of the others alone.       *)
SameLocals(u) ==
    /\ pc'[u] = pc[u] /\ session'[u] = session[u]
    /\ frame'[u] = frame[u] /\ call'[u] = call[u]

LEMMA OthersClient ==
    ASSUME BrokerInv, NEW t \in Tasks, Client(t), NEW u \in Tasks \ {t}
    PROVE  SameLocals(u)
PROOF
<1> USE DEF BrokerInv, Types, SameLocals
<1>1. CASE \/ Accept(t) \/ Hangup(t)
           \/ \E filters \in Requests : Subscribe(t, filters) \/ Unsubscribe(t, filters)
           \/ Disconnect(t) \/ Close(t)
  BY <1>1 DEF Accept, Hangup, Subscribe, Unsubscribe, Disconnect, Close, Disconnecting, sessionVars
<1>2. CASE \/ \E topic \in Topics, qos \in PublishQoS : PublishPacket(t, topic, qos)
           \/ \E m \in DOMAIN owed : PublishAgain(t, m)
  BY <1>2 DEF PublishPacket, PublishAgain, Routing, sessionVars
<1>3. CASE \/ \E c \in ClientIds : Connect(t, c)
           \/ Fail(t)
  BY <1>3 DEF Connect, New, Fail, DropReceiver
<1>4. CASE \/ Puback(t) \/ Pubrec(t) \/ Pubcomp(t) \/ Pubrel(t) \/ Pingreq(t)
  BY <1>4 DEF Puback, HandlePuback, brokerVars, localVars, Pubrec, HandlePubrec,
              Pubcomp, HandlePubcomp, Pubrel, Pingreq, SendReply
<1> QED BY <1>1, <1>2, <1>3, <1>4 DEF Client

LEMMA OthersHandler ==
    ASSUME BrokerInv, NEW t \in Tasks, Handler(t), NEW u \in Tasks \ {t}
    PROVE  SameLocals(u)
PROOF
<1> USE DEF BrokerInv, Types, SessionTypeOK, SameLocals, sessionVars
<1>1. CASE Connack(t) \/ Suback(t) \/ Unsuback(t) \/ ReplyPubrel(t) \/ Acknowledge(t)
  BY <1>1 DEF Connack, Suback, Unsuback, ReplyPubrel, Acknowledge, SendReply, Return
<1>2. CASE Adopt(t) \/ Quit(t)
  BY <1>2 DEF Adopt, Quit, DropReceiver, Return
<1>3. CASE AddFilter(t) \/ Leave(t)
  BY <1>3 DEF AddFilter, Leave
<1>4. CASE \E target \in frame[t].targets : RouteQoS0(t, target) \/ RouteQoS1(t, target)
  BY <1>4 DEF RouteQoS0, RouteQoS1, Targeting, SendQoS0, EnqueuePublish
<1>5. CASE Enqueue(t)
  BY <1>5 DEF Enqueue, localVars, Enqueueing, FetchPacketId, ResetPacketId, LockSender,
              SendPublish, InsertPending
<1> QED BY <1>1, <1>2, <1>3, <1>4, <1>5 DEF Handler

LEMMA FlowOthers ==
    ASSUME Flow, NEW u \in Tasks, SameLocals(u), Len(owed) \in Nat, Len(owed') \in Nat,
           Len(owed) <= Len(owed')
    PROVE  FlowAt(u)'
PROOF BY DEF Flow, FlowAt, SameLocals, Served

LEMMA FlowClient ==
    ASSUME BrokerInv, NEW t \in Tasks, Client(t)
    PROVE  Flow'
PROOF
<1>0. /\ Len(owed) \in Nat /\ Len(owed') \in Nat /\ Len(owed) <= Len(owed')
      /\ FlowAt(t)
  BY HistoryTypesClient DEF HistoryTypes, BrokerInv, Flow
<1>1. FlowAt(t)'
  <2> USE <1>0, SessionAssumption DEF BrokerInv, Types, FlowAt, Served, Receives, Stages
  <2>1. ASSUME NEW c \in ClientIds, Connect(t, c)
        PROVE  FlowAt(t)'
    BY <2>1, FreshSession DEF Connect, New, Frames
  <2>f. frame[t] \in Frames
    OBVIOUS
  <2>2. CASE \/ Accept(t) \/ Hangup(t) \/ Disconnect(t)
             \/ \E filters \in Requests : Unsubscribe(t, filters)
    BY <2>2 DEF Accept, Hangup, Unsubscribe, Disconnect, Disconnecting, sessionVars
  <2>7. ASSUME NEW filters \in Requests, Subscribe(t, filters)
        PROVE  FlowAt(t)'
    <3>1. frame'[t].new = frame[t].new /\ pc'[t] = "subscribe"
      BY <2>7, <2>f DEF Subscribe, Frames
    <3> QED BY <2>7, <3>1 DEF Subscribe, sessionVars
  <2>8. CASE Close(t)
    <3>1. frame'[t].new = frame[t].new /\ pc'[t] = "leave"
      BY <2>8, <2>f DEF Close, Disconnecting, Frames
    <3> QED BY <2>8, <3>1 DEF Close, Disconnecting, sessionVars
  <2>3. ASSUME NEW topic \in Topics, NEW qos \in PublishQoS, PublishPacket(t, topic, qos)
        PROVE  FlowAt(t)'
    <3>1. /\ frame'[t].new = frame[t].new /\ frame'[t].msg = Len(owed) + 1
          /\ pc'[t] = "route"
      BY <2>3, <2>f DEF PublishPacket, Routing, Frames
    <3>2. frame'[t].msg \in 1 .. Len(owed')
      BY <2>3, <3>1, PublishTypes
    <3> QED BY <2>3, <3>1, <3>2 DEF PublishPacket, Routing, sessionVars
  <2>4. ASSUME NEW m \in DOMAIN owed, PublishAgain(t, m)
        PROVE  FlowAt(t)'
    <3>1. m \in 1 .. Len(owed')
      BY <2>4, PublishAgainTypes DEF HistoryTypes
    <3> QED BY <2>4, <3>1 DEF PublishAgain, Routing, sessionVars, Frames
  <2>5. CASE Puback(t) \/ Pubrec(t) \/ Pubcomp(t) \/ Pubrel(t) \/ Pingreq(t)
    BY <2>5 DEF Puback, HandlePuback, brokerVars, localVars, historyVars, Pubrec, HandlePubrec,
                Pubcomp, HandlePubcomp, Pubrel, Pingreq, SendReply
  <2>6. CASE Fail(t)
    BY <2>6 DEF Fail, DropReceiver
  <2> QED BY <2>1, <2>2, <2>3, <2>4, <2>5, <2>6, <2>7, <2>8 DEF Client
<1>2. ASSUME NEW u \in Tasks \ {t}
      PROVE  FlowAt(u)'
  BY <1>0, OthersClient, FlowOthers DEF BrokerInv
<1> QED BY <1>1, <1>2 DEF Flow

LEMMA FlowHandler ==
    ASSUME BrokerInv, NEW t \in Tasks, Handler(t)
    PROVE  Flow'
PROOF
<1>0. /\ Len(owed) \in Nat /\ owed' = owed
      /\ FlowAt(t)
  BY HistoryTypesHandler DEF HistoryTypes, BrokerInv, Flow
<1>1. FlowAt(t)'
  <2> USE <1>0, SessionAssumption DEF BrokerInv, Types, FlowAt, Served, Stages, sessionVars, Return, NoFrame
  <2>1. CASE Connack(t) \/ Suback(t) \/ Unsuback(t) \/ ReplyPubrel(t) \/ Acknowledge(t)
    BY <2>1 DEF Connack, Suback, Unsuback, ReplyPubrel, Acknowledge, SendReply
  <2>2. CASE Adopt(t) \/ Quit(t)
    BY <2>2 DEF Adopt, Quit, DropReceiver
  <2>3. CASE AddFilter(t) \/ Leave(t)
    BY <2>3 DEF AddFilter, Leave, Frames
  <2>4. ASSUME NEW target, RouteQoS0(t, target) \/ RouteQoS1(t, target)
        PROVE  FlowAt(t)'
    <3>1. frame[t] \in Frames
      OBVIOUS
    <3>2. frame'[t].new = frame[t].new /\ frame'[t].msg = frame[t].msg
      BY <2>4, <3>1 DEF RouteQoS0, RouteQoS1, Targeting, Frames
    <3> QED BY <2>4, <3>2 DEF RouteQoS0, RouteQoS1, Targeting
  <2>5. CASE Enqueue(t)
    <3>1. call[t].pc # "idle"
      BY <2>5 DEF Enqueue, Enqueueing, FetchPacketId, ResetPacketId, LockSender,
                  SendPublish, InsertPending
    <3> QED BY <2>5, <3>1 DEF Enqueue, localVars
  <2> QED BY <2>1, <2>2, <2>3, <2>4, <2>5 DEF Handler
<1>2. ASSUME NEW u \in Tasks \ {t}
      PROVE  FlowAt(u)'
  BY <1>0, OthersHandler, FlowOthers DEF BrokerInv
<1> QED BY <1>1, <1>2 DEF Flow

------------------------------------------------------------------------------
(* Who owns which session.  Only a CONNECT sets frame.new.                  *)
LEMMA NothingNew ==
    ASSUME BrokerInv, NEW t \in Tasks, Client(t), pc'[t] \notin {"connack", "adopt"}
    PROVE  frame[t].new = NoSession /\ frame'[t].new = NoSession
PROOF
<1>1. pc[t] \in {"select", "closed"}
  BY DEF Client, Accept, Connect, Subscribe, Unsubscribe, PublishPacket, PublishAgain, Routing,
         Puback, Pubrec, Pubcomp, Pubrel, Pingreq, Disconnect, Disconnecting, Close, Hangup,
         Fail, Receives
<1>2. FlowAt(t) /\ FlowAt(t)'
  BY FlowClient DEF BrokerInv, Flow
<1> QED BY <1>1, <1>2 DEF FlowAt

(* Most steps change nothing about sessions and their owners.               *)
Ending(t) == pc[t] \in {"leave", "quit"}

Steady(t) ==
    /\ UNCHANGED <<rx, sessions, client_id, session>>
    /\ frame'[t].new = frame[t].new
    /\ Ending(t)' <=> Ending(t)

(* The client ends its session, by a DISCONNECT or by closing. *)
Goodbye(t) == Disconnect(t) \/ Close(t)

LEMMA ClientKinds ==
    ASSUME BrokerInv, NEW t \in Tasks, Client(t)
    PROVE  \/ \E c \in ClientIds : Connect(t, c)
           \/ Goodbye(t) \/ Fail(t) \/ Steady(t)
PROOF
<1>0. pc \in [Tasks -> Stages]
  BY DEF BrokerInv, Types
<1>1. CASE \/ Accept(t) \/ Hangup(t)
           \/ \E filters \in Requests : Subscribe(t, filters) \/ Unsubscribe(t, filters)
           \/ Puback(t) \/ Pubrec(t) \/ Pubcomp(t) \/ Pubrel(t) \/ Pingreq(t)
  <2>1. UNCHANGED <<rx, client_id, sessions, session>>
    BY <1>1 DEF Accept, Hangup, Subscribe, Unsubscribe, sessionVars, Puback, HandlePuback,
                brokerVars, localVars, Pubrec, HandlePubrec, Pubcomp, HandlePubcomp, Pubrel,
                Pingreq, SendReply
  <2>2. /\ pc[t] \in {"select", "closed"}
        /\ pc'[t] \in {"select", "closed", "subscribe", "unsuback", "pubrel"}
    BY <1>0, <1>1 DEF Accept, Hangup, Subscribe, Unsubscribe, Puback, brokerVars, localVars,
                      Pubrec, Pubcomp, Pubrel, Pingreq, Receives
  <2> QED BY <2>1, <2>2, NothingNew DEF Steady, Ending
<1>2. CASE \/ \E topic \in Topics, qos \in PublishQoS : PublishPacket(t, topic, qos)
           \/ \E m \in DOMAIN owed : PublishAgain(t, m)
  <2>1. UNCHANGED <<rx, client_id, sessions, session>>
    BY <1>2 DEF PublishPacket, PublishAgain, Routing, sessionVars
  <2>2. pc[t] = "select" /\ pc'[t] = "route"
    BY <1>0, <1>2 DEF PublishPacket, PublishAgain, Routing, Receives
  <2> QED BY <2>1, <2>2, NothingNew DEF Steady, Ending
<1> QED BY <1>1, <1>2 DEF Client, Goodbye

LEMMA HandlerKinds ==
    ASSUME BrokerInv, NEW t \in Tasks, Handler(t)
    PROVE  Adopt(t) \/ Quit(t) \/ Steady(t)
PROOF
<1>f. /\ frame \in [Tasks -> Frames] /\ frame[t] \in Frames
      /\ pc \in [Tasks -> Stages] /\ FlowAt(t)
  BY DEF BrokerInv, Types, Flow
<1>1. CASE Connack(t) \/ Suback(t) \/ Unsuback(t) \/ ReplyPubrel(t) \/ Acknowledge(t)
  <2>1. UNCHANGED <<rx, client_id, sessions, session>>
    BY <1>1 DEF Connack, Suback, Unsuback, ReplyPubrel, Acknowledge, SendReply, sessionVars
  <2>2. frame'[t].new = frame[t].new
    BY <1>1, <1>f DEF Connack, Suback, Unsuback, ReplyPubrel, Acknowledge, Return, NoFrame, FlowAt
  <2>3. ~Ending(t) /\ ~Ending(t)'
    BY <1>1, <1>f DEF Connack, Suback, Unsuback, ReplyPubrel, Acknowledge, Return, Ending
  <2> QED BY <2>1, <2>2, <2>3 DEF Steady
<1>2. CASE AddFilter(t) \/ Leave(t) \/ Enqueue(t)
  <2>1. UNCHANGED <<rx, client_id, sessions, session>>
    BY <1>2 DEF AddFilter, Leave, Enqueue, localVars, sessionVars, Enqueueing, FetchPacketId,
                ResetPacketId, LockSender, SendPublish, InsertPending
  <2>2. frame'[t].new = frame[t].new
    BY <1>2, <1>f DEF AddFilter, Leave, Enqueue, localVars, Frames
  <2>3. Ending(t)' <=> Ending(t)
    BY <1>2, <1>f DEF AddFilter, Leave, Enqueue, localVars, Ending
  <2> QED BY <2>1, <2>2, <2>3 DEF Steady
<1>3. ASSUME NEW target, RouteQoS0(t, target) \/ RouteQoS1(t, target)
      PROVE  Steady(t)
  <2>1. UNCHANGED <<rx, client_id, sessions, session, pc>>
    BY <1>3 DEF RouteQoS0, RouteQoS1, SendQoS0, EnqueuePublish, sessionVars
  <2>2. frame'[t].new = frame[t].new
    BY <1>3, <1>f DEF RouteQoS0, RouteQoS1, Targeting, Frames
  <2> QED BY <2>1, <2>2 DEF Steady, Ending
<1> QED BY <1>1, <1>2, <1>3 DEF Handler

LEMMA OwnersSteady ==
    ASSUME BrokerInv, NEW t \in Tasks, Steady(t), \A u \in Tasks \ {t} : SameLocals(u)
    PROVE  Owners'
PROOF BY DEF BrokerInv, Owners, Owns, Served, Steady, SameLocals

(* A session that is being made has no owner yet. *)
LEMMA OwnersConnect ==
    ASSUME BrokerInv, NEW t \in Tasks, NEW c \in ClientIds, Connect(t, c)
    PROVE  Owners'
PROOF
<1>1. Fresh \in Sessions /\ rx[Fresh] = "none" /\ Fresh # NoSession
  BY FreshSession, SessionAssumption DEF Connect
<1>2. /\ rx' = [rx EXCEPT ![Fresh] = "open"]
      /\ client_id' = [client_id EXCEPT ![Fresh] = c]
      /\ sessions' = [sessions EXCEPT ![c] = Fresh]
      /\ session' = session /\ c \in UsesIds[t]
  BY DEF Connect, New
<1>3. frame[t].new = NoSession /\ frame'[t].new = Fresh
  <2>1. frame[t] \in Frames
    BY DEF BrokerInv, Types
  <2> QED BY <2>1 DEF Connect, Receives, BrokerInv, Types, Flow, FlowAt, Frames
<1>4. \A u \in Tasks \ {t} : frame'[u] = frame[u]
  BY DEF Connect, BrokerInv, Types
<1>5. \A u \in Tasks : ~Owns(u, Fresh)
  BY <1>1 DEF BrokerInv, Owners
<1>6. \A u \in Tasks : \A s \in Sessions :
          Owns(u, s)' <=> Owns(u, s) \/ (u = t /\ s = Fresh)
  BY <1>1, <1>2, <1>3, <1>4 DEF Owns
<1>7. /\ rx \in [Sessions -> {"none", "open", "dropped"}]
      /\ client_id \in [Sessions -> ClientIds \cup {NoSession}]
      /\ sessions \in [ClientIds -> SessionOrNone]
  BY DEF BrokerInv, SessionTypeOK, Types
<1>8. ASSUME NEW u \in Tasks, NEW s \in Sessions, Owns(u, s)'
      PROVE  /\ rx'[s] = "open"
             /\ client_id'[s] \in ClientIds \cap UsesIds[u]
             /\ \A v \in Tasks : Owns(v, s)' => v = u
  <2>1. CASE Owns(u, s)
    BY <1>2, <1>5, <1>6, <1>7, <2>1 DEF BrokerInv, Owners
  <2>2. CASE u = t /\ s = Fresh
    BY <1>1, <1>2, <1>5, <1>6, <1>7, <2>2
  <2> QED BY <1>6, <1>8, <2>1, <2>2
<1>9. \A u \in Tasks : Served(u)' => session'[u] # frame'[u].new
  <2>1. ASSUME NEW u \in Tasks, Served(u)
        PROVE  session[u] # Fresh
    BY <1>5, <2>1, OwnSession
  <2> QED BY <1>2, <1>3, <1>4, <2>1 DEF BrokerInv, Owners, Served
<1>10. ASSUME NEW d \in ClientIds, sessions'[d] # NoSession
       PROVE  rx'[sessions'[d]] # "none" /\ client_id'[sessions'[d]] = d
  <2>1. CASE d = c
    BY <1>1, <1>2, <1>7, <2>1
  <2>2. CASE d # c
    BY <1>1, <1>2, <1>7, <1>10, <2>2 DEF BrokerInv, Owners, SessionOrNone
  <2> QED BY <2>1, <2>2
<1> QED BY <1>8, <1>9, <1>10 DEF Owners

(* A task lets its session go, and keeps none or the one it was making. *)
LEMMA OwnersRelease ==
    ASSUME BrokerInv, NEW t \in Tasks, Served(t),
           rx' = [rx EXCEPT ![session[t]] = "dropped"],
           UNCHANGED <<client_id, sessions>>,
           session'[t] = frame[t].new, frame'[t].new = NoSession,
           \A u \in Tasks \ {t} : SameLocals(u)
    PROVE  Owners'
PROOF
<1>1. \A u \in Tasks : \A s \in Sessions :
          Owns(u, s)' => Owns(u, s) /\ s # session[t]
  <2>1. \A u \in Tasks \ {t} : session[u] # session[t] /\ frame[u].new # session[t]
    BY OwnSession DEF BrokerInv, Owners, Owns, Served
  <2>2. frame[t].new # session[t]
    BY DEF BrokerInv, Owners
  <2> QED BY <2>1, <2>2 DEF Owns, SameLocals
<1>2. rx \in [Sessions -> {"none", "open", "dropped"}] /\ sessions \in [ClientIds -> SessionOrNone]
  BY DEF BrokerInv, SessionTypeOK, Types
<1>3. ASSUME NEW u \in Tasks, NEW s \in Sessions, Owns(u, s)'
      PROVE  /\ rx'[s] = "open"
             /\ client_id'[s] \in ClientIds \cap UsesIds[u]
             /\ \A v \in Tasks : Owns(v, s)' => v = u
  BY <1>1, <1>2, <1>3 DEF BrokerInv, Owners
<1>4. \A u \in Tasks : Served(u)' => session'[u] # frame'[u].new
  BY DEF BrokerInv, Owners, Served, SameLocals
<1>5. \A c \in ClientIds : sessions[c] # NoSession =>
          rx'[sessions[c]] # "none" /\ client_id[sessions[c]] = c
  BY <1>2 DEF BrokerInv, Owners, SessionOrNone
<1> QED BY <1>3, <1>4, <1>5 DEF Owners

LEMMA OwnersClient ==
    ASSUME BrokerInv, NEW t \in Tasks, Client(t)
    PROVE  Owners'
PROOF
<1>f. \A u \in Tasks \ {t} : SameLocals(u)
  BY OthersClient
<1>1. ASSUME NEW c \in ClientIds, Connect(t, c)
      PROVE  Owners'
  BY <1>1, OwnersConnect
<1>2. CASE Goodbye(t)
  <2>1. UNCHANGED <<rx, client_id, session>>
    BY <1>2 DEF Goodbye, Disconnect, Close, Disconnecting, sessionVars
  <2>2. \A u \in Tasks : frame'[u].new = frame[u].new
    <3>1. pc'[t] = "leave"
      BY <1>2 DEF Goodbye, Disconnect, Close, Disconnecting, BrokerInv, Types
    <3> QED BY <3>1, <1>f, NothingNew DEF SameLocals
  <2>3. \A c \in ClientIds : sessions'[c] = sessions[c] \/ sessions'[c] = NoSession
    BY <1>2 DEF Goodbye, Disconnect, Close, Disconnecting, BrokerInv, Types
  <2> QED BY <2>1, <2>2, <2>3 DEF BrokerInv, Owners, Owns, Served
<1>3. CASE Fail(t)
  <2>1. /\ Served(t) /\ rx' = [rx EXCEPT ![session[t]] = "dropped"]
        /\ session'[t] = NoSession /\ frame' = frame
        /\ UNCHANGED <<client_id, sessions>>
    BY <1>3 DEF Fail, DropReceiver, BrokerInv, Types
  <2>2. frame[t].new = NoSession
    BY <1>3 DEF Fail, BrokerInv, Flow, FlowAt
  <2> QED BY <1>f, <2>1, <2>2, OwnersRelease
<1>4. CASE Steady(t)
  BY <1>f, <1>4, OwnersSteady
<1> QED BY <1>1, <1>2, <1>3, <1>4, ClientKinds

LEMMA OwnersHandler ==
    ASSUME BrokerInv, NEW t \in Tasks, Handler(t)
    PROVE  Owners'
PROOF
<1>f. FlowAt(t) /\ \A u \in Tasks \ {t} : SameLocals(u)
  BY OthersHandler DEF BrokerInv, Flow
<1>1. CASE Adopt(t) /\ Served(t)
  <2>1. /\ rx' = [rx EXCEPT ![session[t]] = "dropped"]
        /\ session'[t] = frame[t].new /\ frame'[t].new = NoSession
        /\ UNCHANGED <<client_id, sessions>>
    BY <1>1 DEF Adopt, Return, NoFrame, DropReceiver, BrokerInv, Types
  <2> QED BY <1>1, <1>f, <2>1, OwnersRelease
<1>2. CASE Adopt(t) /\ ~Served(t)
  <2>1. UNCHANGED <<rx, client_id, sessions>>
    BY <1>2 DEF Adopt, sessionVars
  <2>2. session'[t] = frame[t].new /\ frame'[t].new = NoSession /\ session[t] = NoSession
    BY <1>2 DEF Adopt, Return, NoFrame, BrokerInv, Types, Served
  <2>3. \A u \in Tasks : \A s \in Sessions : Owns(u, s)' <=> Owns(u, s)
    BY <1>f, <2>2 DEF Owns, SameLocals
  <2>4. \A u \in Tasks : Served(u)' => session'[u] # frame'[u].new
    BY <1>f, <2>2 DEF BrokerInv, Owners, Served, SameLocals
  <2> QED BY <2>1, <2>3, <2>4 DEF BrokerInv, Owners
<1>3. CASE Quit(t)
  <2>1. /\ rx' = [rx EXCEPT ![session[t]] = "dropped"]
        /\ session'[t] = NoSession /\ frame'[t].new = NoSession
        /\ UNCHANGED <<client_id, sessions>>
    BY <1>3 DEF Quit, NoFrame, DropReceiver, BrokerInv, Types
  <2>2. frame[t].new = NoSession /\ Served(t)
    BY <1>3, <1>f DEF Quit, FlowAt
  <2> QED BY <1>f, <2>1, <2>2, OwnersRelease
<1>4. CASE Steady(t)
  BY <1>f, <1>4, OwnersSteady
<1> QED BY <1>1, <1>2, <1>3, <1>4, HandlerKinds

------------------------------------------------------------------------------
(* The parts together.                                                      *)
LEMMA BrokerInvDeliver ==
    ASSUME BrokerInv, NEW t \in Tasks, Deliver(t)
    PROVE  BrokerInv'
PROOF
<1>1. UNCHANGED <<sessions, subscriptions, client_id, pc, session, frame, packets, granted,
                  owed, delivered, acked, rx, call>>
  BY DEF Deliver, localVars, Forward
<1>2. answered' \subseteq acked
  BY DEF Deliver, BrokerInv, HistoryTypes
<1>3. SessionTypeOK'
  BY DeliverSteps, SessionTypesKept DEF BrokerInv
<1> QED BY <1>1, <1>2, <1>3
        DEF BrokerInv, Types, HistoryTypes, Flow, FlowAt, Owners, Owns, Served

LEMMA BrokerInvStep == BrokerInv /\ [Next]_vars => BrokerInv'
PROOF
<1> SUFFICES ASSUME BrokerInv, [Next]_vars
             PROVE  BrokerInv'
  OBVIOUS
<1>1. LocalTypes /\ SharedTypes => Types
  BY DEF Types, LocalTypes, SharedTypes
<1>2. ASSUME NEW t \in Tasks, Client(t)
      PROVE  BrokerInv'
  <2>1. LocalTypes' /\ SharedTypes' /\ HistoryTypes' /\ Flow' /\ Owners'
    BY <1>2, LocalTypesClient, SharedTypesClient, HistoryTypesClient, FlowClient, OwnersClient
  <2>2. SessionTypeOK'
    BY <1>2, ClientSteps, SessionTypesKept DEF BrokerInv
  <2> QED BY <2>1, <2>2 DEF BrokerInv, Types, LocalTypes, SharedTypes
<1>3. ASSUME NEW t \in Tasks, Handler(t)
      PROVE  BrokerInv'
  <2>1. LocalTypes' /\ SharedTypes' /\ HistoryTypes' /\ Flow' /\ Owners'
    BY <1>3, LocalTypesHandler, SharedTypesHandler, HistoryTypesHandler, FlowHandler,
       OwnersHandler
  <2>2. SessionTypeOK'
    BY <1>3, HandlerSteps, SessionTypesKept DEF BrokerInv
  <2> QED BY <2>1, <2>2 DEF BrokerInv, Types, LocalTypes, SharedTypes
<1>4. CASE UNCHANGED vars
  BY <1>4 DEF vars, sessionVars, brokerVars, localVars, historyVars, BrokerInv, SessionTypeOK,
              Types, HistoryTypes, Flow, FlowAt, Owners, Owns, Served
<1> QED BY <1>2, <1>3, <1>4, BrokerInvDeliver DEF Next

LEMMA BrokerInvInit == Init => BrokerInv
PROOF
<1> SUFFICES ASSUME Init
             PROVE  BrokerInv
  OBVIOUS
<1>1. SessionTypeOK
  BY SessionTypeInit DEF Init
<1>2. Types
  BY NoFrameTypes, EmptyTreeOf, BrokerAssumption DEF Init, Types, Stages, SessionOrNone
<1>3. HistoryTypes
  BY DEF Init, HistoryTypes
<1>4. Flow /\ Owners
  BY DEF Init, SessionInit, Flow, FlowAt, Owners, Owns, Served, NoFrame, IdleCall
<1> QED BY <1>1, <1>2, <1>3, <1>4 DEF BrokerInv

LEMMA BrokerInvHolds == Spec => []BrokerInv
PROOF BY BrokerInvInit, BrokerInvStep, PTL DEF Spec

------------------------------------------------------------------------------
(* What each kind of step does to the sessions, their ids and the registry. *)
LEMMA StepKinds ==
    ASSUME BrokerInv, NEW t \in Tasks, Client(t) \/ Handler(t) \/ Deliver(t)
    PROVE  /\ \/ \E c \in ClientIds : Connect(t, c)
              \/ Goodbye(t) \/ Fail(t) \/ Quit(t) \/ Adopt(t) \/ Steady(t)
           /\ \A u \in Tasks \ {t} : SameLocals(u)
PROOF
<1>1. ASSUME Deliver(t)
      PROVE  Steady(t) /\ \A u \in Tasks \ {t} : SameLocals(u)
  BY <1>1 DEF Deliver, localVars, Forward, Steady, Ending, SameLocals
<1> QED BY <1>1, ClientKinds, HandlerKinds, OthersClient, OthersHandler

LEMMA ConnectEffect ==
    ASSUME BrokerInv, NEW t \in Tasks, NEW c \in ClientIds, Connect(t, c)
    PROVE  /\ Fresh \in Sessions /\ Fresh # NoSession /\ rx[Fresh] = "none"
           /\ \A u \in Tasks : ~Owns(u, Fresh)
           /\ c \in UsesIds[t] /\ (Served(t) => SecondConnect)
           /\ client_id' = [client_id EXCEPT ![Fresh] = c]
           /\ sessions' = [sessions EXCEPT ![c] = Fresh]
           /\ session' = session /\ frame[t].new = NoSession /\ frame'[t].new = Fresh
           /\ ~Ending(t) /\ ~Ending(t)'
PROOF
<1>1. Fresh \in Sessions /\ rx[Fresh] = "none" /\ Fresh # NoSession
  BY FreshSession, SessionAssumption DEF Connect
<1>2. \A u \in Tasks : ~Owns(u, Fresh)
  BY <1>1 DEF BrokerInv, Owners
<1>3. pc[t] = "select" /\ pc'[t] = "connack"
  BY DEF Connect, Receives, BrokerInv, Types
<1>4. frame[t].new = NoSession /\ frame'[t].new = Fresh
  <2>1. frame[t] \in Frames
    BY DEF BrokerInv, Types
  <2> QED BY <1>3, <2>1 DEF Connect, BrokerInv, Types, Flow, FlowAt, Frames
<1> QED BY <1>1, <1>2, <1>3, <1>4 DEF Connect, Ending

LEMMA AdoptEffect ==
    ASSUME BrokerInv, NEW t \in Tasks, Adopt(t)
    PROVE  /\ frame[t].new # NoSession /\ session'[t] = frame[t].new
           /\ frame'[t].new = NoSession /\ ~Ending(t) /\ ~Ending(t)'
           /\ UNCHANGED <<sessions, client_id>>
PROOF BY DEF Adopt, Return, NoFrame, Ending, BrokerInv, Types, Flow, FlowAt

LEMMA GoodbyeEffect ==
    ASSUME BrokerInv, NEW t \in Tasks, Goodbye(t)
    PROVE  /\ Served(t) /\ ~Ending(t) /\ Ending(t)'
           /\ sessions' = [sessions EXCEPT ![client_id[session[t]]] = NoSession]
           /\ frame[t].new = NoSession /\ frame'[t].new = NoSession
           /\ UNCHANGED <<session, client_id>>
PROOF
<1>1. Client(t)
  BY DEF Goodbye, Client
<1>2. pc[t] = "select" /\ pc'[t] = "leave"
  BY DEF Goodbye, Disconnect, Close, Disconnecting, Receives, BrokerInv, Types
<1> QED BY <1>1, <1>2, NothingNew DEF Goodbye, Disconnect, Close, Disconnecting, Ending

LEMMA ReleaseEffect ==
    ASSUME BrokerInv, NEW t \in Tasks, Quit(t) \/ Fail(t)
    PROVE  /\ Served(t) /\ (Fail(t) => t \in Tcp) /\ (Quit(t) => Ending(t))
           /\ session'[t] = NoSession
           /\ frame[t].new = NoSession /\ frame'[t].new = NoSession
           /\ UNCHANGED <<sessions, client_id>>
PROOF
<1>1. pc[t] \in {"select", "quit"} /\ frame[t].new = NoSession
  BY DEF Quit, Fail, BrokerInv, Flow, FlowAt
<1>2. frame'[t].new = NoSession
  BY <1>1 DEF Quit, Fail, NoFrame, BrokerInv, Types
<1> QED BY <1>1, <1>2 DEF Quit, Fail, Ending, BrokerInv, Types, Flow, FlowAt

(* The steps that change the subscriptions. *)
LEMMA SubscriptionKinds ==
    ASSUME BrokerInv, NEW t \in Tasks, Client(t) \/ Handler(t) \/ Deliver(t)
    PROVE  \/ AddFilter(t) \/ Leave(t)
           \/ \E filters \in Requests : Unsubscribe(t, filters)
           \/ subscriptions' = subscriptions
PROOF
<1>1. CASE Client(t)
  BY <1>1 DEF Client, Accept, Connect, Subscribe, PublishPacket, PublishAgain, Routing, Puback,
              brokerVars, Pubrec, Pubcomp, Pubrel, Pingreq, Disconnect, Close, Disconnecting,
              Hangup, Fail
<1>2. CASE Handler(t)
  BY <1>2 DEF Handler, Connack, Adopt, Suback, Unsuback, ReplyPubrel, RouteQoS0, RouteQoS1,
              Enqueue, Acknowledge, Quit
<1>3. CASE Deliver(t)
  BY <1>3 DEF Deliver
<1> QED BY <1>1, <1>2, <1>3

(* What AddFilter does at a place. *)
LEMMA AddedHolders ==
    ASSUME Types, NEW t \in Tasks, AddFilter(t), NEW path, NEW multi \in BOOLEAN
    PROVE  LET filter == Head(frame[t].filters)
               subscriber == [client_id |-> client_id[session[t]], sender |-> frame[t].sender]
           IN /\ Holders(subscriptions, path, multi) \subseteq Holders(subscriptions', path, multi)
              /\ Holders(subscriptions', path, multi) \subseteq
                     Holders(subscriptions, path, multi) \cup {subscriber}
              /\ ValidFilter(filter) /\ <<path, multi>> = Place(filter) =>
                     subscriber \in Holders(subscriptions', path, multi)
PROOF
<1> DEFINE filter == Head(frame[t].filters)
           subscriber == [client_id |-> client_id[session[t]], sender |-> frame[t].sender]
<1>1. filter \in Names
  BY FramesOf DEF AddFilter
<1>2. subscriptions' = IF ValidFilter(filter) THEN Add(subscriptions, filter, subscriber)
                                              ELSE subscriptions
  BY DEF AddFilter
<1> HIDE DEF filter, subscriber
<1>3. CASE ValidFilter(filter)
  <2>1. Filter(filter) /\ subscriptions' = Add(subscriptions, filter, subscriber)
    BY <1>1, <1>2, <1>3 DEF Filter, Names
  <2> QED BY <2>1, HoldersAfterAdd DEF filter, subscriber
<1>4. CASE ~ValidFilter(filter)
  BY <1>2, <1>4 DEF filter, subscriber
<1> QED BY <1>3, <1>4

(* A task that is about to quit has removed its client's subscriptions. *)
LEMMA QuitFollowsLeave ==
    ASSUME BrokerInv, NEW t \in Tasks, Client(t) \/ Handler(t) \/ Deliver(t),
           pc'[t] = "quit"
    PROVE  Leave(t) \/ pc[t] = "quit"
PROOF
<1>0. pc \in [Tasks -> Stages]
  BY DEF BrokerInv, Types
<1>1. CASE Client(t)
  <2>1. pc'[t] # "quit"
    BY <1>0, <1>1
       DEF Client, Accept, Connect, Subscribe, Unsubscribe, PublishPacket, PublishAgain, Routing,
           Puback, brokerVars, localVars, Pubrec, Pubcomp, Pubrel, Pingreq, Disconnect, Close,
           Disconnecting, Hangup, Fail, Receives
  <2> QED BY <2>1
<1>2. CASE Handler(t)
  BY <1>0, <1>2
     DEF Handler, Connack, Adopt, AddFilter, Suback, Unsuback, ReplyPubrel, RouteQoS0, RouteQoS1,
         Targeting,
         Enqueue, localVars, Acknowledge, Quit, Return
<1>3. CASE Deliver(t)
  BY <1>3 DEF Deliver, localVars
<1> QED BY <1>1, <1>2, <1>3

------------------------------------------------------------------------------
(* Every variable of the broker keeps its type, and a task that has a       *)
(* session has a client id, an open channel and the session to itself, for  *)
(* any number of connections and however they share client ids.             *)
THEOREM BrokerTypeCorrect == Spec => []BrokerTypeOK
PROOF
<1>1. ASSUME BrokerInv
      PROVE  BrokerTypeOK
  <2>1. \A place \in Places(subscriptions) : Installed(place) \subseteq SubscriberRecords
    BY <1>1 DEF BrokerInv, Types, TreeOf, Installed
  <2>2. \A t \in Tasks : packets[t] \in 0 .. MaxPackets[t]
    BY <1>1, BrokerAssumption DEF BrokerInv, Types
  <2>3. \A t, u \in Tasks : Served(t) /\ session[t] = session[u] => t = u
    BY <1>1, OwnSession DEF BrokerInv, Owners, Owns, Served
  <2> QED BY <1>1, <2>1, <2>2, <2>3, OwnSession
          DEF BrokerInv, Types, BrokerTypeOK, Staying, SessionOrNone
<1> QED BY <1>1, BrokerInvHolds, PTL

(* The broker uses the sessions as Session.tla lets its callers: every      *)
(* access of a handler to a session is one of the steps there.              *)
LEMMA BrokerRunsSessions == Spec => SessionSpec
PROOF
<1>1. Init => SessionInit
  BY DEF Init
<1>2. BrokerInv /\ [Next]_vars => [SessionNext]_sessionVars
  BY BrokerSteps DEF SessionStep
<1> QED BY <1>1, <1>2, BrokerInvHolds, PTL DEF Spec, SessionSpec

(* So in the broker too no packet id is in flight twice on a session until  *)
(* its counter wraps, no publish that waits for its PUBACK is forgotten,    *)
(* and an entry leaves pending_qos1 with its own PUBACK only.               *)
THEOREM BrokerKeepsSessionGuarantees ==
    Spec => [](SessionTypeOK /\ UniqueIds /\ UnackedIsPending) /\ AckRetiresItsOwn
PROOF BY BrokerRunsSessions, SessionTypeCorrect, PacketIdsUnique,
         NothingUnackedIsForgotten, EntriesLeaveWithTheirPuback, PTL
==============================================================================
