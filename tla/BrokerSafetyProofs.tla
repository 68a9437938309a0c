------------------------ MODULE BrokerSafetyProofs ---------------------------
(* What the registry, the trie and the sessions promise together: who is    *)
(* found in the registry, that a granted filter stays in the trie, and what *)
(* an acknowledgement means for the subscribers.                            *)
EXTENDS BrokerProofs

------------------------------------------------------------------------------
(* The registry of sessions: who is found in it, and who is left behind.    *)

(* No two connections use the same client id. *)
ExclusiveIds ==
    \A t \in Tasks : \A u \in Tasks \ {t} : UsesIds[t] \cap UsesIds[u] = {}

(* A session that is being made is registered before its task serves it.    *)
NewIsRegistered ==
    \A t \in Tasks : frame[t].new # NoSession =>
        sessions[client_id[frame[t].new]] # NoSession

RegisteredInv == ConnectedIsRegistered /\ NewIsRegistered

(* Another task's session and the one it is making keep their client id.    *)
LEMMA IdsKept ==
    ASSUME BrokerInv, NEW t \in Tasks, NEW c \in ClientIds, Connect(t, c),
           NEW u \in Tasks, NEW s \in Sessions, Owns(u, s)
    PROVE  client_id'[s] = client_id[s] /\ s # Fresh
PROOF BY ConnectEffect DEF BrokerInv, Types

LEMMA RegisteredStep ==
    ASSUME ExclusiveIds, BrokerInv, RegisteredInv,
           NEW t \in Tasks, Client(t) \/ Handler(t) \/ Deliver(t)
    PROVE  RegisteredInv'
PROOF
<1>s. sessions \in [ClientIds -> SessionOrNone] /\ client_id \in [Sessions -> ClientIds \cup {NoSession}]
  BY DEF BrokerInv, Types
<1>o. \A u \in Tasks \ {t} : SameLocals(u)
  BY StepKinds
<1>1. ASSUME NEW c \in ClientIds, Connect(t, c)
      PROVE  RegisteredInv'
  <2>1. \A u \in Tasks : \A s \in Sessions : Owns(u, s) /\ sessions[client_id[s]] # NoSession
            => sessions'[client_id'[s]] # NoSession
    BY <1>s, <1>1, ConnectEffect, IdsKept, SessionAssumption
       DEF BrokerInv, Owners
  <2>2. sessions'[client_id'[frame'[t].new]] # NoSession
    BY <1>s, <1>1, ConnectEffect
  <2>3. NewIsRegistered'
    BY <1>o, <2>1, <2>2, NewSession DEF NewIsRegistered, RegisteredInv, SameLocals
  <2>4. ConnectedIsRegistered'
    BY <1>o, <1>1, <2>1, ConnectEffect, OwnSession
       DEF ConnectedIsRegistered, RegisteredInv, SameLocals, Staying, Served, Ending
  <2> QED BY <2>3, <2>4 DEF RegisteredInv
<1>2. CASE Goodbye(t)
  <2>1. \A u \in Tasks \ {t} : \A s \in Sessions : Owns(u, s) =>
            client_id[s] # client_id[session[t]]
    BY <1>2, GoodbyeEffect, OwnSession DEF ExclusiveIds, BrokerInv, Owners
  <2>2. NewIsRegistered'
    BY <1>s, <1>o, <1>2, <2>1, GoodbyeEffect, NewSession
       DEF NewIsRegistered, RegisteredInv, SameLocals
  <2>3. ConnectedIsRegistered'
    BY <1>s, <1>o, <1>2, <2>1, GoodbyeEffect, OwnSession
       DEF ConnectedIsRegistered, RegisteredInv, SameLocals, Staying, Served, Ending
  <2> QED BY <2>2, <2>3 DEF RegisteredInv
<1>3. CASE Quit(t) \/ Fail(t)
  BY <1>o, <1>3, ReleaseEffect
     DEF RegisteredInv, ConnectedIsRegistered, NewIsRegistered, SameLocals, Staying, Served
<1>4. CASE Adopt(t)
  BY <1>o, <1>4, AdoptEffect
     DEF RegisteredInv, ConnectedIsRegistered, NewIsRegistered, SameLocals, Staying, Served
<1>5. CASE Steady(t)
  BY <1>o, <1>5
     DEF RegisteredInv, ConnectedIsRegistered, NewIsRegistered, SameLocals, Staying, Served,
         Steady, Ending
<1> QED BY <1>1, <1>2, <1>3, <1>4, <1>5, StepKinds

(* When no two connections use the same client id, a connected client is    *)
(* registered under its id.                                                 *)
THEOREM ConnectedAreRegistered ==
    ASSUME ExclusiveIds
    PROVE  Spec => []ConnectedIsRegistered
PROOF
<1>1. Init => RegisteredInv
  BY DEF Init, RegisteredInv, ConnectedIsRegistered, NewIsRegistered, Staying, Served, NoFrame
<1>2. BrokerInv /\ RegisteredInv /\ [Next]_vars => RegisteredInv'
  <2>1. BrokerInv /\ RegisteredInv /\ Next => RegisteredInv'
    BY RegisteredStep DEF Next
  <2>2. RegisteredInv /\ UNCHANGED vars => RegisteredInv'
    BY DEF vars, brokerVars, localVars, RegisteredInv, ConnectedIsRegistered, NewIsRegistered,
           Staying, Served
  <2> QED BY <2>1, <2>2
<1>3. RegisteredInv => ConnectedIsRegistered
  BY DEF RegisteredInv
<1> QED BY <1>1, <1>2, <1>3, BrokerInvHolds, PTL DEF Spec

------------------------------------------------------------------------------
(* A client that sends a second CONNECT keeps its client id. *)
KeepsId == SecondConnect => \A t \in Tasks : \A c, d \in UsesIds[t] : c = d

RegisteredIsOwned ==
    \A c \in ClientIds : sessions[c] # NoSession =>
        \E t \in Tasks : \/ session[t] = sessions[c] /\ Staying(t)
                        \/ frame[t].new = sessions[c]

SubscribedIsServed ==
    \A place \in Places(subscriptions) : \A s \in Installed(place) :
        \E t \in Tasks : /\ Served(t) /\ pc[t] # "quit"
                         /\ client_id[session[t]] = s.client_id

(* The session that is about to be dropped is no longer registered. *)
Replaced ==
    \A t \in Tasks : Served(t) /\ frame[t].new # NoSession =>
        SecondConnect /\ sessions[client_id[session[t]]] # session[t]

NothingLeftInv == RegisteredIsOwned /\ SubscribedIsServed /\ Replaced

LEMMA ReplacedStep ==
    ASSUME KeepsId, BrokerInv, Replaced, NEW t \in Tasks, Client(t) \/ Handler(t) \/ Deliver(t)
    PROVE  Replaced'
PROOF
<1>s. sessions \in [ClientIds -> SessionOrNone] /\ client_id \in [Sessions -> ClientIds \cup {NoSession}]
  BY DEF BrokerInv, Types
<1>o. \A u \in Tasks \ {t} : SameLocals(u)
  BY StepKinds
<1>1. ASSUME NEW c \in ClientIds, Connect(t, c)
      PROVE  Replaced'
  <2>1. ASSUME NEW u \in Tasks \ {t}, Served(u)', frame'[u].new # NoSession
        PROVE  SecondConnect /\ sessions'[client_id'[session'[u]]] # session'[u]
    <3>1. /\ Served(u) /\ frame[u].new # NoSession
          /\ session'[u] = session[u] /\ session[u] # Fresh
          /\ client_id'[session[u]] = client_id[session[u]]
      BY <1>o, <1>1, <2>1, OwnSession, IdsKept DEF SameLocals, Served
    <3>2. client_id[session[u]] \in ClientIds
      BY <3>1, OwnSession
    <3> QED BY <1>s, <1>1, <3>1, <3>2, ConnectEffect DEF Replaced
  <2>2. ASSUME Served(t)'
        PROVE  SecondConnect /\ sessions'[client_id'[session'[t]]] # session'[t]
    <3>1. Served(t) /\ session'[t] = session[t] /\ SecondConnect /\ c \in UsesIds[t]
      BY <1>1, <2>2, ConnectEffect DEF Served
    <3>2. client_id'[session[t]] = client_id[session[t]] /\ session[t] # Fresh
      BY <1>1, <3>1, OwnSession, IdsKept
    <3>3. client_id[session[t]] = c
      BY <3>1, OwnSession DEF KeepsId
    <3> QED BY <1>s, <1>1, <3>1, <3>2, <3>3, ConnectEffect
  <2> QED BY <2>1, <2>2 DEF Replaced
<1>2. CASE Goodbye(t)
  <2>1. \A c \in ClientIds : sessions'[c] = sessions[c] \/ sessions'[c] = NoSession
    BY <1>s, <1>2, GoodbyeEffect
  <2> QED BY <1>o, <1>2, <2>1, GoodbyeEffect, OwnSession DEF Replaced, SameLocals, Served
<1>3. CASE Quit(t) \/ Fail(t)
  BY <1>o, <1>3, ReleaseEffect DEF Replaced, SameLocals, Served
<1>4. CASE Adopt(t)
  BY <1>o, <1>4, AdoptEffect DEF Replaced, SameLocals, Served
<1>5. CASE Steady(t)
  BY <1>o, <1>5 DEF Replaced, SameLocals, Served, Steady
<1> QED BY <1>1, <1>2, <1>3, <1>4, <1>5, StepKinds

LEMMA RegisteredIsOwnedStep ==
    ASSUME Tcp = {}, KeepsId, BrokerInv, RegisteredIsOwned, Replaced,
           NEW t \in Tasks, Client(t) \/ Handler(t) \/ Deliver(t)
    PROVE  RegisteredIsOwned'
PROOF
<1>s. sessions \in [ClientIds -> SessionOrNone] /\ client_id \in [Sessions -> ClientIds \cup {NoSession}]
  BY DEF BrokerInv, Types
<1>o. \A u \in Tasks \ {t} : SameLocals(u)
  BY StepKinds
<1> DEFINE Has(u, s) == (session[u] = s /\ Staying(u)) \/ frame[u].new = s
           HasNext(u, s) == (session'[u] = s /\ Staying(u)') \/ frame'[u].new = s
<1>h. /\ \A c \in ClientIds : sessions[c] # NoSession => \E u \in Tasks : Has(u, sessions[c])
      /\ RegisteredIsOwned' <=> \A c \in ClientIds : sessions'[c] # NoSession =>
                                    \E u \in Tasks : HasNext(u, sessions'[c])
  BY DEF RegisteredIsOwned
<1>k. \A u \in Tasks \ {t} : \A s : Has(u, s) => HasNext(u, s)
  BY <1>o DEF SameLocals, Staying, Served
<1>1. ASSUME NEW c \in ClientIds, Connect(t, c)
      PROVE  RegisteredIsOwned'
  <2>1. HasNext(t, Fresh) /\ \A s : s # NoSession /\ Has(t, s) => HasNext(t, s)
    BY <1>1, ConnectEffect DEF Staying, Served, Ending
  <2>2. \A d \in ClientIds : sessions'[d] = IF d = c THEN Fresh ELSE sessions[d]
    BY <1>s, <1>1, ConnectEffect
  <2> HIDE DEF Has, HasNext
  <2> QED BY <1>h, <1>k, <2>1, <2>2
<1>2. CASE Goodbye(t)
  <2>1. \A d \in ClientIds : sessions'[d] =
            IF d = client_id[session[t]] THEN NoSession ELSE sessions[d]
    BY <1>s, <1>2, GoodbyeEffect
  <2>2. \A d \in ClientIds : sessions'[d] # NoSession => ~Has(t, sessions[d])
    BY <1>2, <2>1, GoodbyeEffect DEF BrokerInv, Owners
  <2> HIDE DEF Has, HasNext
  <2> QED BY <1>h, <1>k, <2>1, <2>2
<1>3. CASE Quit(t)
  <2>1. \A s : s # NoSession => ~Has(t, s)
    BY <1>3, ReleaseEffect DEF Staying, Ending
  <2> HIDE DEF Has, HasNext
  <2> QED BY <1>3, <1>h, <1>k, <2>1, ReleaseEffect
<1>4. CASE Adopt(t)
  <2>1. HasNext(t, frame[t].new)
    BY <1>4, AdoptEffect DEF Staying, Served, Ending
  <2>2. \A d \in ClientIds : sessions[d] # NoSession /\ Has(t, sessions[d])
            => sessions[d] = frame[t].new
    BY <1>4, AdoptEffect DEF BrokerInv, Owners, Replaced, Staying
  <2> HIDE DEF Has, HasNext
  <2> QED BY <1>4, <1>h, <1>k, <2>1, <2>2, AdoptEffect
<1>5. CASE Steady(t)
  <2>1. \A s : Has(t, s) => HasNext(t, s)
    BY <1>5 DEF Steady, Staying, Served, Ending
  <2> HIDE DEF Has, HasNext
  <2> QED BY <1>5, <1>h, <1>k, <2>1 DEF Steady
<1>6. ~Fail(t)
  BY ReleaseEffect
<1> QED BY <1>1, <1>2, <1>3, <1>4, <1>5, <1>6, StepKinds

(* Who has client id c and has not removed its subscriptions. *)
Serving(u, c) == Served(u) /\ pc[u] # "quit" /\ client_id[session[u]] = c

LEMMA ServingKept ==
    ASSUME Tcp = {}, KeepsId, BrokerInv, Replaced,
           NEW t \in Tasks, Client(t) \/ Handler(t) \/ Deliver(t),
           NEW u \in Tasks, NEW c, Serving(u, c)
    PROVE  Serving(u, c)' \/ (u = t /\ Leave(t))
PROOF
<1>o. \A v \in Tasks \ {t} : SameLocals(v)
  BY StepKinds
<1>1. session[u] \in Sessions /\ Owns(u, session[u])
  BY OwnSession DEF Serving
<1>2. client_id'[session[u]] = client_id[session[u]]
  BY <1>1, StepKinds, IdsKept, GoodbyeEffect, ReleaseEffect, AdoptEffect DEF Steady
<1>3. CASE u # t
  BY <1>o, <1>2, <1>3 DEF Serving, SameLocals, Served
<1>4. CASE u = t
  <2>1. \/ pc'[t] # "quit" \/ Leave(t)
    BY <1>4, QuitFollowsLeave DEF Serving
  <2>2. CASE session'[t] = session[t]
    BY <1>2, <1>4, <2>1, <2>2 DEF Serving, Served
  <2>3. CASE Adopt(t)
    <3>1. /\ session'[t] = frame[t].new /\ frame[t].new # NoSession
          /\ client_id' = client_id /\ SecondConnect
      BY <1>4, <2>3, AdoptEffect DEF Replaced, Serving
    <3>2. client_id[frame[t].new] = client_id[session[t]]
      BY <1>4, <3>1, OwnSession, NewSession DEF KeepsId, Serving
    <3>3. ~Leave(t)
      BY <2>3 DEF Adopt, Leave
    <3> QED BY <1>4, <2>1, <3>1, <3>2, <3>3 DEF Serving, Served
  <2>4. ~Fail(t)
    BY ReleaseEffect
  <2>5. ~Quit(t)
    BY <1>4 DEF Serving, Quit
  <2> QED BY <2>2, <2>3, <2>4, <2>5, StepKinds, ConnectEffect, GoodbyeEffect DEF Steady
<1> QED BY <1>3, <1>4

LEMMA SubscribedIsServedStep ==
    ASSUME Tcp = {}, KeepsId, BrokerInv, SubscribedIsServed, Replaced,
           NEW t \in Tasks, Client(t) \/ Handler(t) \/ Deliver(t)
    PROVE  SubscribedIsServed'
PROOF
<1>1. ASSUME NEW path, NEW multi \in BOOLEAN, NEW s \in Holders(subscriptions', path, multi)
      PROVE  \E u \in Tasks : Serving(u, s.client_id)'
  <2>1. ASSUME s \in Holders(subscriptions, path, multi)
        PROVE  \E u \in Tasks : Serving(u, s.client_id)
    <3>1. path \in DOMAIN subscriptions
      BY <2>1, VectorOfNoNode DEF Holders
    <3> QED BY <2>1, <3>1 DEF SubscribedIsServed, Places, Installed, Serving, Holders
  <2>2. CASE subscriptions' = subscriptions /\ ~Leave(t)
    BY <2>1, <2>2, ServingKept
  <2>3. ASSUME NEW filters \in Requests, Unsubscribe(t, filters)
        PROVE  \E u \in Tasks : Serving(u, s.client_id)'
    <3>1. s \in Holders(subscriptions, path, multi)
      BY <2>3, HoldersAfterRemove DEF Unsubscribe
    <3>2. ~Leave(t)
      BY <2>3 DEF Unsubscribe, Receives, Leave
    <3> QED BY <2>1, <3>1, <3>2, ServingKept
  <2>4. CASE Leave(t)
    <3>1. s \in Holders(subscriptions, path, multi) /\ s.client_id # client_id[session[t]]
      BY <2>4, HoldersAfterRemoveAll DEF Leave
    <3> QED BY <2>1, <3>1, ServingKept DEF Serving
  <2>5. CASE AddFilter(t)
    <3>1. ~Leave(t)
      BY <2>5 DEF AddFilter, Leave
    <3>2. Serving(t, client_id[session[t]])
      BY <2>5 DEF AddFilter, Serving, BrokerInv, Flow, FlowAt
    <3> DEFINE subscriber == [client_id |-> client_id[session[t]], sender |-> frame[t].sender]
    <3>6. Holders(subscriptions', path, multi) \subseteq
              Holders(subscriptions, path, multi) \cup {subscriber}
      BY <2>5, AddedHolders DEF BrokerInv
    <3>7. subscriber.client_id = client_id[session[t]]
      OBVIOUS
    <3>3. s \in Holders(subscriptions, path, multi) \/ s.client_id = client_id[session[t]]
      <4> HIDE DEF subscriber
      <4> QED BY <3>6, <3>7
    <3>4. CASE s \in Holders(subscriptions, path, multi)
      BY <2>1, <3>1, <3>4, ServingKept
    <3>5. CASE s.client_id = client_id[session[t]]
      BY <3>1, <3>2, <3>5, ServingKept
    <3> QED BY <3>3, <3>4, <3>5
  <2> QED BY <2>2, <2>3, <2>4, <2>5, SubscriptionKinds
<1> QED BY <1>1 DEF SubscribedIsServed, Places, Installed, Serving, Holders

(* Where every connection is a WebSocket, and a client that connects again  *)
(* on it keeps its id, neither a registered session nor a subscription      *)
(* outlives its client, also when connections share client ids.             *)
THEOREM NothingIsLeftBehind ==
    ASSUME Tcp = {}, KeepsId
    PROVE  Spec => []NothingOutlivesItsClient
PROOF
<1>1. Init => NothingLeftInv
  <2>1. \A place : DOMAIN Vector(EmptyTree, place) = {}
    BY VectorOfEmptyTree
  <2> QED BY <2>1 DEF Init, NothingLeftInv, RegisteredIsOwned, SubscribedIsServed, Installed,
                      Replaced, Served
<1>2. BrokerInv /\ NothingLeftInv /\ [Next]_vars => NothingLeftInv'
  <2>1. BrokerInv /\ NothingLeftInv /\ Next => NothingLeftInv'
    BY RegisteredIsOwnedStep, SubscribedIsServedStep, ReplacedStep DEF Next, NothingLeftInv
  <2>2. NothingLeftInv /\ UNCHANGED vars => NothingLeftInv'
    BY DEF vars, brokerVars, localVars, NothingLeftInv, RegisteredIsOwned, SubscribedIsServed,
           Replaced, Staying, Served, Installed
  <2> QED BY <2>1, <2>2
<1>3. NothingLeftInv => NothingOutlivesItsClient
  BY DEF NothingLeftInv, RegisteredIsOwned, SubscribedIsServed, NothingOutlivesItsClient
<1> QED BY <1>1, <1>2, <1>3, BrokerInvHolds, PTL DEF Spec

------------------------------------------------------------------------------
(* A filter that was granted stays in the trie: what the other connections, *)
(* and the client itself, do between its SUBACK and its UNSUBSCRIBE.        *)

(* The filters of the clients, and those that SUBSCRIBE grants. *)
Asked == UNION {Range(filters) : filters \in Requests}
Grantable == {f \in Asked : ValidFilter(f)}

(* No ill-formed filter has the place of a well-formed one: no client asks  *)
(* to remove "a/#/b", of which remove reads "a/#".                          *)
WellFormedPlaces ==
    \A f \in Grantable : \A g \in Asked \ Grantable : Place(f) # Place(g)

(* The client has a subscriber at the place of the filter. *)
Having(tree, c, f) == \E s \in Holders(tree, NodeOf(f), Multi(f)) : s.client_id = c

GrantsAt(t) ==
    /\ Range(frame[t].filters) \subseteq Asked
    /\ frame[t].accepted \subseteq Grantable
    /\ frame[t].accepted # {} => pc[t] = "subscribe"
    /\ frame[t].new # NoSession => granted[frame[t].new] = {}
    /\ Staying(t) => \A f \in granted[session[t]] \cup frame[t].accepted :
                         Having(subscriptions, client_id[session[t]], f)

Granting ==
    /\ \A s \in Sessions : /\ granted[s] \subseteq Grantable
                           /\ rx[s] = "none" => granted[s] = {}
    /\ \A t \in Tasks : GrantsAt(t)

------------------------------------------------------------------------------
(* A session that has been made is never again one that has not. *)
LEMMA NothingUnopened ==
    ASSUME rx \in [Sessions -> {"none", "open", "dropped"}], SessionStep,
           NEW s \in Sessions, rx'[s] = "none"
    PROVE  rx[s] = "none"
PROOF
<1>1. CASE UNCHANGED rx
  BY <1>1
<1>2. ASSUME NEW r \in Sessions, New(r) \/ DropReceiver(r)
      PROVE  rx[s] = "none"
  BY <1>2 DEF New, DropReceiver
<1>3. ASSUME NEW t \in Tasks, Enqueueing(t)
      PROVE  UNCHANGED rx
  BY <1>3 DEF Enqueueing, FetchPacketId, ResetPacketId, LockSender, SendPublish, InsertPending
<1>4. ASSUME NEW r \in Sessions, Calling(r)
      PROVE  UNCHANGED rx \/ New(r) \/ DropReceiver(r)
  BY <1>4 DEF Calling, EnqueuePublish, SendReply, SendQoS0, HandlePuback, HandlePubrec,
              HandlePubcomp, Forward
<1> QED BY <1>1, <1>2, <1>3, <1>4 DEF SessionStep, SessionNext, sessionVars

(* Two filters of the clients, one of them granted, have two places.        *)
LEMMA PlacesApart ==
    ASSUME WellFormedPlaces, NEW f \in Grantable, NEW g \in Asked, Place(f) = Place(g)
    PROVE  f = g
PROOF
<1>1. \A h \in Asked : h \in Names
  BY RequestTypes DEF Asked
<1>2. g \in Grantable
  BY DEF WellFormedPlaces
<1>3. Filter(f) /\ Filter(g)
  BY <1>1, <1>2 DEF Grantable, Filter, Names
<1> QED BY <1>3, PlacesDiffer

LEMMA PlaceParts ==
    ASSUME NEW f
    PROVE  /\ Place(f) = <<NodeOf(f), Multi(f)>> /\ Multi(f) \in BOOLEAN
           /\ \A c : Having(subscriptions, c, f) <=>
                     \E s \in Installed(Place(f)) : s.client_id = c
PROOF BY DEF Place, Multi, Having, Holders, Installed

LEMMA RangeOfTail ==
    ASSUME NEW S, NEW seq \in Seq(S), seq # <<>>
    PROVE  Range(Tail(seq)) \subseteq Range(seq) /\ Head(seq) \in Range(seq)
PROOF
<1>1. Len(seq) \in Nat \ {0} /\ DOMAIN seq = 1 .. Len(seq)
  OBVIOUS
<1>2. DOMAIN Tail(seq) = 1 .. Len(seq) - 1
  BY <1>1
<1>3. \A i \in 1 .. Len(seq) - 1 : Tail(seq)[i] = seq[i + 1] /\ i + 1 \in DOMAIN seq
  BY <1>1
<1>4. Head(seq) = seq[1] /\ 1 \in DOMAIN seq
  BY <1>1
<1> QED BY <1>2, <1>3, <1>4 DEF Range

(* A client keeps a filter, unless it ends or asks for its removal. *)
LEMMA HavingKept ==
    ASSUME ExclusiveIds, BrokerInv, NEW t \in Tasks, Client(t) \/ Handler(t) \/ Deliver(t),
           NEW u \in Tasks, Served(u), u = t => ~Leave(t),
           NEW f, Having(subscriptions, client_id[session[u]], f),
           \A filters \in Requests : u = t /\ Unsubscribe(t, filters) =>
               Place(f) \notin {Place(g) : g \in Range(filters)}
    PROVE  Having(subscriptions', client_id[session[u]], f)
PROOF
<1> DEFINE c == client_id[session[u]]
<1>1. PICK s \in Holders(subscriptions, NodeOf(f), Multi(f)) : s.client_id = c
  BY DEF Having
<1>2. c \in ClientIds \cap UsesIds[u]
  BY OwnSession
<1>3. Served(t) /\ u # t => c # client_id[session[t]]
  BY <1>2, OwnSession DEF ExclusiveIds
<1>m. Multi(f) \in BOOLEAN /\ Place(f) = <<NodeOf(f), Multi(f)>>
  BY PlaceParts
<1> HIDE DEF c
<1> SUFFICES s \in Holders(subscriptions', NodeOf(f), Multi(f))
  BY <1>1 DEF Having, c
<1>4. CASE AddFilter(t)
  <2>1. Holders(subscriptions, NodeOf(f), Multi(f)) \subseteq
            Holders(subscriptions', NodeOf(f), Multi(f))
    BY <1>4, <1>m, AddedHolders DEF BrokerInv
  <2> QED BY <1>1, <2>1
<1>5. CASE Leave(t)
  <2>1. Served(t)
    BY <1>5 DEF Leave, BrokerInv, Flow, FlowAt
  <2> QED BY <1>1, <1>3, <1>5, <1>m, <2>1, HoldersAfterRemoveAll DEF Leave
<1>6. ASSUME NEW filters \in Requests, Unsubscribe(t, filters)
      PROVE  s \in Holders(subscriptions', NodeOf(f), Multi(f))
  <2>1. /\ subscriptions' = Remove(subscriptions, Range(filters), client_id[session[t]])
        /\ Served(t)
    BY <1>6 DEF Unsubscribe
  <2>2. CASE u # t
    BY <1>1, <1>3, <1>m, <2>1, <2>2, HoldersAfterRemove
  <2>3. CASE u = t
    <3>1. <<NodeOf(f), Multi(f)>> \notin {Place(g) : g \in Range(filters)}
      BY <1>6, <1>m, <2>3
    <3> QED BY <1>1, <1>m, <2>1, <3>1, HoldersAfterRemove
  <2> QED BY <2>2, <2>3
<1>7. CASE subscriptions' = subscriptions
  BY <1>1, <1>7
<1> QED BY <1>4, <1>5, <1>6, <1>7, SubscriptionKinds

(* The steps that change what is granted, or is about to be. *)
Plain(t) ==
    /\ granted' = granted /\ pc[t] # "subscribe"
    /\ \/ frame'[t].accepted = frame[t].accepted /\ frame'[t].filters = frame[t].filters
       \/ frame'[t].accepted = {} /\ frame'[t].filters = <<>>

LEMMA GrantKinds ==
    ASSUME BrokerInv, NEW t \in Tasks, Client(t) \/ Handler(t) \/ Deliver(t)
    PROVE  \/ AddFilter(t) \/ Suback(t) \/ Plain(t)
           \/ \E filters \in Requests : Subscribe(t, filters) \/ Unsubscribe(t, filters)
PROOF
<1>f. /\ frame \in [Tasks -> Frames] /\ frame[t] \in Frames
      /\ FlowAt(t) /\ NoFrame.accepted = {} /\ NoFrame.filters = <<>>
  BY DEF BrokerInv, Types, Flow, NoFrame
<1>1. CASE \/ Accept(t) \/ Hangup(t) \/ Puback(t) \/ Pubrec(t) \/ Pubcomp(t)
           \/ Pubrel(t) \/ Pingreq(t) \/ Disconnect(t) \/ Fail(t) \/ Deliver(t)
  BY <1>1 DEF Accept, Hangup, Puback, brokerVars, localVars, historyVars, Pubrec, Pubcomp, Pubrel,
              Pingreq, Receives, Disconnect, Disconnecting, Fail, Deliver, Plain
<1>2. ASSUME NEW c \in ClientIds, Connect(t, c)
      PROVE  Plain(t)
  BY <1>2, <1>f DEF Connect, Receives, historyVars, Frames, Plain
<1>3. CASE Close(t)
  BY <1>3, <1>f DEF Close, Disconnecting, historyVars, Frames, Plain
<1>4. CASE \/ \E topic \in Topics, qos \in PublishQoS : PublishPacket(t, topic, qos)
           \/ \E m \in DOMAIN owed : PublishAgain(t, m)
  <2>1. PICK topic, qos, m : Routing(t, topic, qos, m)
    BY <1>4 DEF PublishPacket, PublishAgain
  <2> QED BY <2>1, <1>f DEF Routing, Receives, Frames, Plain
<1>5. CASE Connack(t) \/ Leave(t)
  BY <1>5 DEF Connack, Leave, historyVars, Plain
<1>6. CASE Adopt(t) \/ Unsuback(t) \/ ReplyPubrel(t) \/ Acknowledge(t) \/ Quit(t)
  BY <1>6, <1>f DEF Adopt, Unsuback, ReplyPubrel, Acknowledge, Quit, Return, historyVars, Plain
<1>7. CASE \E target \in frame[t].targets : RouteQoS0(t, target) \/ RouteQoS1(t, target)
  BY <1>7, <1>f DEF RouteQoS0, RouteQoS1, Targeting, historyVars, Frames, Plain
<1>8. CASE Enqueue(t)
  <2>1. pc[t] # "subscribe"
    BY <1>8, <1>f DEF Enqueue, Enqueueing, FetchPacketId, ResetPacketId, LockSender,
                      SendPublish, InsertPending, FlowAt
  <2> QED BY <1>8, <2>1 DEF Enqueue, localVars, Plain
<1> QED BY <1>1, <1>2, <1>3, <1>4, <1>5, <1>6, <1>7, <1>8 DEF Client, Handler

(* Only the task of a session grants anything to it. *)
LEMMA OthersGrants ==
    ASSUME ExclusiveIds, BrokerInv, Granting,
           NEW t \in Tasks, Client(t) \/ Handler(t) \/ Deliver(t),
           NEW u \in Tasks \ {t}
    PROVE  GrantsAt(u)'
PROOF
<1>1. SameLocals(u)
  BY StepKinds
<1>2. \A s \in Sessions : Owns(u, s) => granted'[s] = granted[s] /\ client_id'[s] = client_id[s]
  <2>1. \A s \in Sessions : Owns(u, s) => client_id'[s] = client_id[s]
    BY StepKinds, IdsKept, GoodbyeEffect, ReleaseEffect, AdoptEffect DEF Steady
  <2>2. ASSUME NEW s \in Sessions, Owns(u, s)
        PROVE  granted'[s] = granted[s]
    <3>1. Served(t) => s # session[t]
      BY <2>2, OwnSession DEF BrokerInv, Owners
    <3>2. CASE Suback(t)
      BY <3>1, <3>2 DEF Suback, BrokerInv, HistoryTypes, Flow, FlowAt
    <3>3. CASE \E filters \in Requests : Unsubscribe(t, filters)
      BY <3>1, <3>3 DEF Unsubscribe, BrokerInv, HistoryTypes
    <3>4. CASE \E filters \in Requests : Subscribe(t, filters)
      BY <3>4 DEF Subscribe, historyVars
    <3>5. CASE AddFilter(t)
      BY <3>5 DEF AddFilter, historyVars
    <3> QED BY <3>2, <3>3, <3>4, <3>5, GrantKinds DEF Plain
  <2> QED BY <2>1, <2>2
<1>3. GrantsAt(u)
  BY DEF Granting
<1>4. frame[u].new # NoSession => granted'[frame[u].new] = granted[frame[u].new]
  BY <1>2, NewSession
<1>5. Served(u) => /\ granted'[session[u]] = granted[session[u]]
                   /\ client_id'[session[u]] = client_id[session[u]]
  BY <1>2, OwnSession
<1>6. ASSUME Staying(u)', NEW f \in granted'[session'[u]] \cup frame'[u].accepted
      PROVE  Having(subscriptions', client_id'[session'[u]], f)
  <2>1. Staying(u) /\ Served(u)
    BY <1>1, <1>6 DEF Staying, Served, SameLocals
  <2>2. f \in granted[session[u]] \cup frame[u].accepted
    BY <1>1, <1>5, <1>6, <2>1 DEF SameLocals
  <2>3. Having(subscriptions, client_id[session[u]], f)
    BY <1>3, <2>1, <2>2 DEF GrantsAt
  <2>4. Having(subscriptions', client_id[session[u]], f)
    BY <2>1, <2>3, HavingKept
  <2> QED BY <1>1, <1>5, <2>1, <2>4 DEF SameLocals
<1> QED BY <1>1, <1>3, <1>4, <1>6 DEF GrantsAt, SameLocals

(* What the task itself does to what its client has been granted. *)
LEMMA OwnGrants ==
    ASSUME ExclusiveIds, WellFormedPlaces, BrokerInv, Granting,
           NEW t \in Tasks, Client(t) \/ Handler(t) \/ Deliver(t)
    PROVE  GrantsAt(t)'
PROOF
<1>f. /\ frame \in [Tasks -> Frames] /\ frame[t] \in Frames /\ FlowAt(t) /\ FlowAt(t)'
      /\ NoFrame.accepted = {} /\ NoFrame.filters = <<>>
      /\ granted \in [Sessions -> SUBSET Names]
      /\ GrantsAt(t) /\ BrokerInv'
  BY BrokerInvStep DEF BrokerInv, Types, HistoryTypes, Flow, NoFrame, Granting, Next
<1>r. Range(<<>>) = {}
  BY DEF Range
<1>k. Served(t) => client_id'[session[t]] = client_id[session[t]]
  BY OwnSession, StepKinds, IdsKept, GoodbyeEffect, ReleaseEffect, AdoptEffect DEF Steady
<1>h. ASSUME Staying(t), Staying(t)', session'[t] = session[t],
             NEW f \in granted[session[t]] \cup frame[t].accepted,
             \A filters \in Requests : Unsubscribe(t, filters) =>
                 Place(f) \notin {Place(g) : g \in Range(filters)}
      PROVE  Having(subscriptions', client_id'[session'[t]], f)
  <2>1. Served(t) /\ ~Leave(t)
    BY <1>h DEF Staying, Leave
  <2>2. Having(subscriptions, client_id[session[t]], f)
    BY <1>h, <1>f DEF GrantsAt
  <2>3. Having(subscriptions', client_id[session[t]], f)
    BY <1>h, <2>1, <2>2, HavingKept
  <2> QED BY <1>h, <1>k, <2>1, <2>3
<1>1. ASSUME NEW filters \in Requests, Subscribe(t, filters)
      PROVE  GrantsAt(t)'
  <2>1. /\ frame'[t].filters = filters /\ frame'[t].accepted = frame[t].accepted
        /\ frame'[t].new = frame[t].new /\ pc[t] = "select" /\ pc'[t] = "subscribe"
        /\ session' = session /\ granted' = granted
    BY <1>1, <1>f DEF Subscribe, Receives, historyVars, Frames, BrokerInv, Types
  <2>2. Range(filters) \subseteq Asked
    BY DEF Asked
  <2>3. Staying(t)' => Staying(t)
    BY <2>1 DEF Staying, Served
  <2>4. \A other \in Requests : ~Unsubscribe(t, other)
    BY <2>1, <1>f DEF Unsubscribe, BrokerInv, Types
  <2> QED BY <1>f, <1>h, <2>1, <2>2, <2>3, <2>4 DEF GrantsAt
<1>2. ASSUME NEW filters \in Requests, Unsubscribe(t, filters)
      PROVE  GrantsAt(t)'
  <2>1. /\ frame' = frame /\ pc[t] = "select" /\ pc'[t] = "unsuback" /\ session' = session
        /\ Served(t) /\ granted' = [granted EXCEPT ![session[t]] = @ \ Range(filters)]
    BY <1>2 DEF Unsubscribe, Receives, BrokerInv, Types
  <2>2. frame[t].accepted = {} /\ frame[t].new = NoSession
    BY <1>f, <2>1 DEF GrantsAt, FlowAt
  <2>3. session[t] \in Sessions /\ granted'[session[t]] = granted[session[t]] \ Range(filters)
    BY <1>f, <2>1, OwnSession
  <2>4. ASSUME NEW f \in granted'[session[t]], NEW others \in Requests, Unsubscribe(t, others)
        PROVE  Place(f) \notin {Place(g) : g \in Range(others)}
    <3>1. granted'[session[t]] = granted[session[t]] \ Range(others)
      BY <1>f, <2>3, <2>4 DEF Unsubscribe
    <3>2. f \in Grantable /\ f \notin Range(others)
      BY <2>3, <2>4, <3>1 DEF Granting
    <3>3. Range(others) \subseteq Asked
      BY DEF Asked
    <3> QED BY <3>2, <3>3, PlacesApart
  <2>5. Staying(t) /\ Staying(t)'
    BY <2>1 DEF Staying, Served
  <2> QED BY <1>f, <1>h, <2>1, <2>2, <2>3, <2>4, <2>5 DEF GrantsAt
<1>3. CASE AddFilter(t)
  <2> DEFINE filter == Head(frame[t].filters)
             subscriber == [client_id |-> client_id[session[t]], sender |-> frame[t].sender]
  <2>1. /\ frame'[t].filters = Tail(frame[t].filters) /\ frame[t].filters # <<>>
        /\ frame'[t].accepted = IF ValidFilter(filter) THEN frame[t].accepted \cup {filter}
                                                       ELSE frame[t].accepted
        /\ frame'[t].new = frame[t].new /\ pc[t] = "subscribe" /\ pc' = pc
        /\ session' = session /\ granted' = granted /\ client_id' = client_id
    BY <1>3, <1>f DEF AddFilter, historyVars, Frames
  <2>2. filter \in Asked /\ Range(Tail(frame[t].filters)) \subseteq Asked
    BY <1>f, <2>1, RangeOfTail DEF GrantsAt, Frames
  <2>3. Staying(t) /\ Staying(t)'
    BY <1>f, <2>1 DEF Staying, Served, FlowAt
  <2>4. \A others \in Requests : ~Unsubscribe(t, others)
    BY <2>1 DEF Unsubscribe, Receives
  <2>5. ValidFilter(filter) => Having(subscriptions', client_id[session[t]], filter)
    <3>1. <<NodeOf(filter), Multi(filter)>> = Place(filter) /\ Multi(filter) \in BOOLEAN
      BY PlaceParts
    <3>2. ValidFilter(filter) =>
              subscriber \in Holders(subscriptions', NodeOf(filter), Multi(filter))
      BY <1>3, <3>1, AddedHolders DEF BrokerInv
    <3>3. subscriber.client_id = client_id[session[t]]
      OBVIOUS
    <3> HIDE DEF subscriber, filter
    <3> QED BY <3>2, <3>3 DEF Having
  <2> HIDE DEF filter
  <2>6. frame'[t].accepted \subseteq Grantable
    BY <1>f, <2>1, <2>2 DEF GrantsAt, Grantable
  <2>7. ASSUME NEW f \in granted'[session'[t]] \cup frame'[t].accepted
        PROVE  Having(subscriptions', client_id'[session'[t]], f)
    <3>1. f \in granted[session[t]] \cup frame[t].accepted \/ (f = filter /\ ValidFilter(filter))
      BY <2>1
    <3> QED BY <1>h, <2>1, <2>3, <2>4, <2>5, <3>1
  <2> QED BY <1>f, <2>1, <2>2, <2>6, <2>7 DEF GrantsAt
<1>4. CASE Suback(t)
  <2>1. /\ frame'[t] = NoFrame /\ pc[t] = "subscribe" /\ session' = session
        /\ granted' = [granted EXCEPT ![session[t]] = @ \cup frame[t].accepted]
    BY <1>4, <1>f DEF Suback, Return
  <2>2. Staying(t) /\ session[t] \in Sessions /\ frame'[t].new = NoSession
    BY <1>f, <2>1, OwnSession DEF Staying, FlowAt, NoFrame
  <2>3. granted'[session[t]] = granted[session[t]] \cup frame[t].accepted
    BY <1>f, <2>1, <2>2
  <2>4. \A others \in Requests : ~Unsubscribe(t, others)
    BY <2>1 DEF Unsubscribe, Receives
  <2> QED BY <1>f, <1>h, <1>r, <2>1, <2>2, <2>3, <2>4 DEF GrantsAt
<1>5. CASE Plain(t)
  <2>1. /\ granted' = granted /\ frame'[t].accepted = {}
        /\ Range(frame'[t].filters) \subseteq Asked
    BY <1>5, <1>f, <1>r DEF Plain, GrantsAt
  <2>2. CASE Steady(t)
    <3>1. /\ frame'[t].new = frame[t].new /\ session'[t] = session[t]
          /\ Staying(t)' => Staying(t)
      BY <2>2 DEF Steady, Staying, Served, Ending
    <3>2. ASSUME NEW f \in granted[session[t]], NEW others \in Requests, Unsubscribe(t, others)
          PROVE  Place(f) \notin {Place(g) : g \in Range(others)}
      <4>1. session[t] \in Sessions
        BY <3>2, OwnSession DEF Unsubscribe
      <4>2. f \in Grantable /\ f \notin Range(others)
        BY <1>f, <2>1, <3>2, <4>1 DEF Granting, Unsubscribe
      <4>3. Range(others) \subseteq Asked
        BY DEF Asked
      <4> QED BY <4>2, <4>3, PlacesApart
    <3> QED BY <1>f, <1>h, <2>1, <3>1, <3>2 DEF GrantsAt
  <2>3. ASSUME NEW c \in ClientIds, Connect(t, c)
        PROVE  GrantsAt(t)'
    <3>1. /\ frame'[t].new = Fresh /\ Fresh \in Sessions /\ granted[Fresh] = {}
          /\ session'[t] = session[t] /\ (Staying(t)' => Staying(t))
      BY <2>3, ConnectEffect DEF Granting, Staying, Served, Ending
    <3>2. \A others \in Requests : ~Unsubscribe(t, others)
      BY <2>3, <3>1 DEF Unsubscribe, Connect, Receives, BrokerInv, Types
    <3> QED BY <1>h, <2>1, <3>1, <3>2 DEF GrantsAt
  <2>4. CASE Goodbye(t) \/ Quit(t) \/ Fail(t)
    <3>1. frame'[t].new = NoSession /\ ~Staying(t)'
      BY <2>4, GoodbyeEffect, ReleaseEffect DEF Staying, Served, Ending
    <3> QED BY <2>1, <3>1 DEF GrantsAt
  <2>5. CASE Adopt(t)
    <3>1. /\ frame'[t].new = NoSession /\ session'[t] = frame[t].new
          /\ granted[frame[t].new] = {}
      BY <1>f, <2>5, AdoptEffect DEF GrantsAt
    <3> QED BY <2>1, <3>1 DEF GrantsAt
  <2> QED BY <2>2, <2>3, <2>4, <2>5, StepKinds
<1> QED BY <1>1, <1>2, <1>3, <1>4, <1>5, GrantKinds

LEMMA GrantingStep ==
    ASSUME ExclusiveIds, WellFormedPlaces, BrokerInv, Granting,
           NEW t \in Tasks, Client(t) \/ Handler(t) \/ Deliver(t)
    PROVE  Granting'
PROOF
<1>1. \A u \in Tasks : GrantsAt(u)'
  BY OthersGrants, OwnGrants
<1>2. \A s \in Sessions : rx'[s] = "none" => rx[s] = "none" /\ granted'[s] = granted[s]
  <2>1. \A s \in Sessions : rx'[s] = "none" => rx[s] = "none"
    <3>1. BrokerInv /\ Next => SessionStep
      BY BrokerSteps
    <3>2. SessionStep
      BY <3>1 DEF Next
    <3>3. rx \in [Sessions -> {"none", "open", "dropped"}]
      BY DEF BrokerInv, SessionTypeOK
    <3> QED BY <3>2, <3>3, NothingUnopened
  <2>2. ASSUME NEW s \in Sessions, rx[s] = "none"
        PROVE  granted'[s] = granted[s]
    <3>1. granted \in [Sessions -> SUBSET Names] /\ FlowAt(t)
      BY DEF BrokerInv, HistoryTypes, Flow
    <3>2. Served(t) => s # session[t]
      BY <2>2, OwnSession
    <3>3. CASE Suback(t)
      BY <3>1, <3>2, <3>3 DEF Suback, FlowAt
    <3>4. CASE \E filters \in Requests : Subscribe(t, filters) \/ Unsubscribe(t, filters)
      BY <3>1, <3>2, <3>4 DEF Subscribe, Unsubscribe, historyVars
    <3>5. CASE AddFilter(t)
      BY <3>5 DEF AddFilter, historyVars
    <3> QED BY <3>3, <3>4, <3>5, GrantKinds DEF Plain
  <2> QED BY <2>1, <2>2
<1>3. \A s \in Sessions : granted'[s] \subseteq Grantable
  <2>1. granted \in [Sessions -> SUBSET Names] /\ FlowAt(t) /\ GrantsAt(t)
    BY DEF BrokerInv, HistoryTypes, Flow, Granting
  <2>2. CASE Suback(t)
    BY <2>1, <2>2, OwnSession DEF Suback, Granting, GrantsAt, FlowAt
  <2>3. CASE \E filters \in Requests : Subscribe(t, filters) \/ Unsubscribe(t, filters)
    BY <2>1, <2>3 DEF Subscribe, Unsubscribe, historyVars, Granting
  <2>4. CASE AddFilter(t) \/ Plain(t)
    BY <2>4 DEF AddFilter, historyVars, Plain, Granting
  <2> QED BY <2>2, <2>3, <2>4, GrantKinds
<1> QED BY <1>1, <1>2, <1>3 DEF Granting

LEMMA GrantingHolds ==
    ASSUME ExclusiveIds, WellFormedPlaces
    PROVE  Spec => []Granting
PROOF
<1>1. Init => Granting
  <2>1. Range(<<>>) = {}
    BY DEF Range
  <2> QED BY <2>1 DEF Init, SessionInit, Granting, GrantsAt, NoFrame, Staying, Served
<1>2. BrokerInv /\ Granting /\ [Next]_vars => Granting'
  <2>1. BrokerInv /\ Granting /\ Next => Granting'
    BY GrantingStep DEF Next
  <2>2. Granting /\ UNCHANGED vars => Granting'
    BY DEF vars, brokerVars, localVars, historyVars, sessionVars, Granting, GrantsAt, Staying,
           Served
  <2> QED BY <2>1, <2>2
<1> QED BY <1>1, <1>2, BrokerInvHolds, PTL DEF Spec

(* When no two connections use the same client id, a filter that was        *)
(* granted with a SUBACK stays in the trie for the client until its         *)
(* UNSUBSCRIBE or the end of its session.                                   *)
THEOREM GrantedStaysInstalled ==
    ASSUME ExclusiveIds, WellFormedPlaces
    PROVE  Spec => []GrantedIsInstalled
PROOF
<1>1. ASSUME Granting
      PROVE  GrantedIsInstalled
  <2>1. ASSUME NEW t \in Tasks, Staying(t), NEW f \in granted[session[t]]
        PROVE  \E s \in Installed(Place(f)) : s.client_id = client_id[session[t]]
    <3>1. Having(subscriptions, client_id[session[t]], f)
      BY <1>1, <2>1 DEF Granting, GrantsAt
    <3> QED BY <3>1, PlaceParts
  <2> QED BY <2>1 DEF GrantedIsInstalled
<1> QED BY <1>1, GrantingHolds, PTL

------------------------------------------------------------------------------
(* What a publisher may conclude from its PUBACK or PUBREC: what the        *)
(* message was owed to when it came in, and where it is on its way there.   *)

(* The hypotheses: client ids are exclusive, no client connects again while *)
(* it has a session, and none asks to remove an ill-formed filter.          *)
PoliteClients == ExclusiveIds /\ ~SecondConnect /\ WellFormedPlaces

(* A session that its task serves, or is about to, is the one registered.   *)
RegisteredAsOwn ==
    \A t \in Tasks : \A s \in Sessions :
        Owns(t, s) /\ ~Ending(t) => sessions[client_id[s]] = s

(* A session that some task serves, has served or has lost. *)
Settled(s) == rx[s] # "none" /\ \A t \in Tasks : frame[t].new # s

Gone(s) == \A t \in Tasks : session[t] = s => ~Staying(t)
Reached(m, s) == m \in delivered[s] \/ Gone(s)

(* The message that t routes is yet to be sent to s. *)
Underway(t, s) ==
    \/ \E target \in frame[t].targets : target.subscriber.client_id = client_id[s]
    \/ call[t].session = s /\ call[t].pc \in {"fetch", "reset", "lock", "send"}

RoutingAt(t) ==
    pc[t] = "route" =>
        /\ frame[t].qos = owed[frame[t].msg].qos
        /\ frame[t].qos > 0 => \A s \in owed[frame[t].msg].to :
               Reached(frame[t].msg, s) \/ Underway(t, s)

(* One client published m, on one session or several; once it has published *)
(* it, it gets an answer before it can do anything else.                    *)
DebtAt(m) ==
    /\ \A s \in owed[m].to : Settled(s)
    /\ \A s \in owed[m].by : rx[s] # "none"
    /\ \A r, s \in owed[m].by : client_id[r] = client_id[s]
    /\ owed[m].qos > 0 /\ owed[m].by # {} =>
           \/ m \in acked
           \/ \E t \in Tasks : pc[t] = "route" /\ frame[t].msg = m /\ session[t] \in owed[m].by
    /\ m \in acked => \A s \in owed[m].to : Reached(m, s)

Delivery ==
    /\ RegisteredAsOwn
    /\ \A t \in Tasks : RoutingAt(t)
    /\ \A m \in 1 .. Len(owed) : DebtAt(m)

------------------------------------------------------------------------------
LEMMA RegisteredAsOwnStep ==
    ASSUME PoliteClients, BrokerInv, RegisteredAsOwn,
           NEW t \in Tasks, Client(t) \/ Handler(t) \/ Deliver(t)
    PROVE  RegisteredAsOwn'
PROOF
<1>s. sessions \in [ClientIds -> SessionOrNone] /\ client_id \in [Sessions -> ClientIds \cup {NoSession}]
  BY DEF BrokerInv, Types
<1>o. \A u \in Tasks \ {t} : SameLocals(u)
  BY StepKinds
<1>k. \A u \in Tasks \ {t} : \A s \in Sessions : (Owns(u, s) /\ ~Ending(u))' =>
          /\ Owns(u, s) /\ ~Ending(u) /\ sessions[client_id[s]] = s
          /\ client_id[s] \in ClientIds \cap UsesIds[u]
  BY <1>o DEF SameLocals, Owns, Ending, RegisteredAsOwn, BrokerInv, Owners
<1>1. ASSUME NEW c \in ClientIds, Connect(t, c)
      PROVE  RegisteredAsOwn'
  <2>1. /\ session'[t] = NoSession /\ frame'[t].new = Fresh /\ Fresh \in Sessions
        /\ c \in UsesIds[t]
        /\ client_id' = [client_id EXCEPT ![Fresh] = c]
        /\ sessions' = [sessions EXCEPT ![c] = Fresh]
    BY <1>1, ConnectEffect DEF PoliteClients, Served
  <2>2. ASSUME NEW s \in Sessions, Owns(t, s)'
        PROVE  sessions'[client_id'[s]] = s
    BY <1>s, <2>1, <2>2 DEF Owns
  <2>3. ASSUME NEW u \in Tasks \ {t}, NEW s \in Sessions, (Owns(u, s) /\ ~Ending(u))'
        PROVE  sessions'[client_id'[s]] = s
    <3>1. client_id'[s] = client_id[s] /\ client_id[s] # c
      BY <1>1, <1>k, <2>1, <2>3, IdsKept DEF PoliteClients, ExclusiveIds
    <3> QED BY <1>s, <1>k, <2>1, <2>3, <3>1
  <2> QED BY <2>2, <2>3 DEF RegisteredAsOwn
<1>2. CASE Goodbye(t)
  <2>1. /\ Served(t) /\ Ending(t)' /\ client_id' = client_id
        /\ sessions' = [sessions EXCEPT ![client_id[session[t]]] = NoSession]
    BY <1>2, GoodbyeEffect
  <2>2. ASSUME NEW u \in Tasks \ {t}, NEW s \in Sessions, (Owns(u, s) /\ ~Ending(u))'
        PROVE  sessions'[client_id'[s]] = s
    <3>1. client_id[s] # client_id[session[t]]
      BY <1>k, <2>1, <2>2, OwnSession DEF PoliteClients, ExclusiveIds
    <3> QED BY <1>s, <1>k, <2>1, <2>2, <3>1
  <2> QED BY <2>1, <2>2 DEF RegisteredAsOwn
<1>3. CASE Quit(t) \/ Fail(t)
  <2>1. \A s \in Sessions : ~Owns(t, s)'
    BY <1>3, ReleaseEffect DEF Owns
  <2> QED BY <1>3, <1>k, <2>1, ReleaseEffect DEF RegisteredAsOwn
<1>4. CASE Adopt(t)
  <2>1. \A s \in Sessions : Owns(t, s)' => Owns(t, s) /\ ~Ending(t)
    BY <1>4, AdoptEffect DEF Owns
  <2> QED BY <1>4, <1>k, <2>1, AdoptEffect DEF RegisteredAsOwn
<1>5. CASE Steady(t)
  <2>1. \A s \in Sessions : (Owns(t, s) /\ ~Ending(t))' => Owns(t, s) /\ ~Ending(t)
    BY <1>5 DEF Owns, Steady
  <2> QED BY <1>5, <1>k, <2>1 DEF RegisteredAsOwn, Steady
<1> QED BY <1>1, <1>2, <1>3, <1>4, <1>5, StepKinds

(* A session keeps its client id, and once it is gone it does not return.   *)
LEMMA SettledStays ==
    ASSUME BrokerInv, NEW t \in Tasks, Client(t) \/ Handler(t) \/ Deliver(t),
           NEW s \in Sessions
    PROVE  /\ rx[s] # "none" => rx'[s] # "none" /\ client_id'[s] = client_id[s]
           /\ Settled(s) => Settled(s)'
           /\ Settled(s) /\ Gone(s) => Gone(s)'
PROOF
<1>o. \A u \in Tasks \ {t} : SameLocals(u)
  BY StepKinds
<1>1. rx[s] # "none" => rx'[s] # "none"
  <2>1. BrokerInv /\ Next => SessionStep
    BY BrokerSteps
  <2>2. SessionStep
    BY <2>1 DEF Next
  <2> QED BY <2>2, NothingUnopened DEF BrokerInv, SessionTypeOK
<1>2. rx[s] # "none" => client_id'[s] = client_id[s]
  <2>1. ASSUME NEW c \in ClientIds, Connect(t, c), rx[s] # "none"
        PROVE  client_id'[s] = client_id[s]
    <3>1. client_id' = [client_id EXCEPT ![Fresh] = c] /\ s # Fresh
      BY <2>1, ConnectEffect
    <3> QED BY <3>1 DEF BrokerInv, Types
  <2> QED BY <2>1, StepKinds, GoodbyeEffect, ReleaseEffect, AdoptEffect DEF Steady
<1>3. ASSUME rx[s] # "none", frame[t].new # s
      PROVE  frame'[t].new # s
  <2>1. s # NoSession
    BY SessionAssumption
  <2> QED BY <1>3, <2>1, StepKinds, ConnectEffect, GoodbyeEffect, ReleaseEffect, AdoptEffect
          DEF Steady
<1>4. ASSUME Settled(s)
      PROVE  Settled(s)'
  BY <1>o, <1>1, <1>3, <1>4 DEF Settled, SameLocals
<1>5. ASSUME Settled(s), session'[t] = s, Staying(t)'
      PROVE  session[t] = s /\ Staying(t)
  <2>1. s # NoSession
    BY SessionAssumption
  <2> QED BY <1>5, <2>1, StepKinds, ConnectEffect, GoodbyeEffect, ReleaseEffect, AdoptEffect
          DEF Settled, Steady, Staying, Served, Ending
<1>6. ASSUME Settled(s), Gone(s)
      PROVE  Gone(s)'
  <2>1. ASSUME NEW u \in Tasks \ {t}, session'[u] = s, Staying(u)'
        PROVE  session[u] = s /\ Staying(u)
    BY <1>o, <2>1 DEF SameLocals, Staying, Served
  <2> QED BY <1>5, <1>6, <2>1 DEF Gone
<1> QED BY <1>1, <1>2, <1>4, <1>6

(* The steps that have to do with a publish; the others are quiet. *)
Quiet(t) ==
    /\ UNCHANGED <<owed, delivered, acked>>
    /\ pc[t] # "route" /\ pc'[t] # "route"

LEMMA DeliveryKinds ==
    ASSUME BrokerInv, NEW t \in Tasks, Client(t) \/ Handler(t) \/ Deliver(t)
    PROVE  \/ \E topic \in Topics, qos \in PublishQoS : PublishPacket(t, topic, qos)
           \/ \E m \in DOMAIN owed : PublishAgain(t, m)
           \/ \E target \in frame[t].targets : RouteQoS0(t, target) \/ RouteQoS1(t, target)
           \/ Enqueue(t) \/ Acknowledge(t) \/ Quiet(t)
PROOF
<1>0. pc \in [Tasks -> Stages]
  BY DEF BrokerInv, Types
<1>1. CASE \/ Accept(t) \/ Hangup(t) \/ Puback(t) \/ Pubrec(t) \/ Pubcomp(t)
           \/ Pubrel(t) \/ Pingreq(t) \/ Disconnect(t) \/ Close(t) \/ Fail(t) \/ Deliver(t)
           \/ \E c \in ClientIds : Connect(t, c)
           \/ \E filters \in Requests : Subscribe(t, filters) \/ Unsubscribe(t, filters)
  BY <1>0, <1>1 DEF Accept, Hangup, Puback, brokerVars, localVars, historyVars, Pubrec, Pubcomp,
              Pubrel, Pingreq, Receives, Disconnect, Disconnecting, Close, Fail, Deliver, Connect,
              Subscribe, Unsubscribe, Quiet
<1>2. CASE \/ Connack(t) \/ Adopt(t) \/ AddFilter(t) \/ Suback(t) \/ Unsuback(t)
           \/ ReplyPubrel(t) \/ Leave(t) \/ Quit(t)
  BY <1>0, <1>2 DEF Connack, Adopt, AddFilter, Suback, Unsuback, ReplyPubrel, Leave, Quit, Return,
              historyVars, Quiet
<1> QED BY <1>1, <1>2 DEF Client, Handler

(* What is owed stays owed, what is delivered or acknowledged stays so.     *)
LEMMA DebtsKept ==
    ASSUME BrokerInv, NEW t \in Tasks, Client(t) \/ Handler(t) \/ Deliver(t),
           NEW m \in 1 .. Len(owed)
    PROVE  /\ m \in 1 .. Len(owed')
           /\ owed'[m].to = owed[m].to /\ owed'[m].qos = owed[m].qos
           /\ owed[m].by \subseteq owed'[m].by
           /\ m \in acked => m \in acked'
           /\ \A s \in Sessions : m \in delivered[s] => m \in delivered'[s]
PROOF
<1>1. owed \in Seq(Debts) /\ delivered \in [Sessions -> SUBSET Messages] /\ owed[m] \in Debts
  BY DebtOf DEF BrokerInv, HistoryTypes
<1>2. ASSUME NEW topic \in Topics, NEW qos \in PublishQoS, PublishPacket(t, topic, qos)
      PROVE  /\ m \in 1 .. Len(owed') /\ owed'[m] = owed[m]
             /\ UNCHANGED <<delivered, acked>>
  BY <1>1, <1>2 DEF PublishPacket, Routing
<1>3. ASSUME NEW n \in DOMAIN owed, PublishAgain(t, n)
      PROVE  /\ m \in 1 .. Len(owed')
             /\ owed'[m].to = owed[m].to /\ owed'[m].qos = owed[m].qos
             /\ owed[m].by \subseteq owed'[m].by
             /\ UNCHANGED <<delivered, acked>>
  <2>1. owed' = [owed EXCEPT ![n] = [owed[n] EXCEPT !.by = @ \cup {session[t]}]]
    BY <1>3 DEF PublishAgain
  <2>2. UNCHANGED <<delivered, acked>>
    BY <1>3 DEF PublishAgain, Routing
  <2>3. Len(owed') = Len(owed)
    BY <1>1, <2>1
  <2>4. CASE n # m
    BY <1>1, <2>1, <2>2, <2>3, <2>4
  <2>5. CASE n = m
    <3>1. owed'[m] = [owed[m] EXCEPT !.by = @ \cup {session[t]}]
      BY <1>1, <2>1, <2>5
    <3> QED BY <1>1, <2>2, <2>3, <3>1 DEF Debts
  <2> QED BY <2>4, <2>5
<1>4. ASSUME NEW target, RouteQoS0(t, target) \/ RouteQoS1(t, target)
      PROVE  /\ UNCHANGED <<owed, acked>>
             /\ \A s \in Sessions : m \in delivered[s] => m \in delivered'[s]
  BY <1>1, <1>4 DEF RouteQoS0, RouteQoS1, historyVars
<1>5. CASE Enqueue(t)
  BY <1>1, <1>5 DEF Enqueue
<1>6. CASE Acknowledge(t) \/ Quiet(t)
  BY <1>6 DEF Acknowledge, Quiet
<1> QED BY <1>2, <1>3, <1>4, <1>5, <1>6, DeliveryKinds

LEMMA ReachedStays ==
    ASSUME BrokerInv, NEW t \in Tasks, Client(t) \/ Handler(t) \/ Deliver(t),
           NEW m \in 1 .. Len(owed), NEW s \in Sessions, Settled(s), Reached(m, s)
    PROVE  Reached(m, s)'
PROOF BY SettledStays, DebtsKept DEF Reached

(* The other tasks go on routing what they route. *)
LEMMA OthersRouting ==
    ASSUME BrokerInv, Delivery, NEW t \in Tasks, Client(t) \/ Handler(t) \/ Deliver(t),
           NEW u \in Tasks \ {t}
    PROVE  RoutingAt(u)'
PROOF
<1>1. SameLocals(u) /\ RoutingAt(u)
  BY StepKinds DEF Delivery
<1> SUFFICES ASSUME pc[u] = "route"
             PROVE  RoutingAt(u)'
  BY <1>1 DEF RoutingAt, SameLocals
<1> DEFINE m == frame[u].msg
<1>2. m \in 1 .. Len(owed) /\ owed'[m].to = owed[m].to /\ owed'[m].qos = owed[m].qos
  BY DebtsKept DEF BrokerInv, Flow, FlowAt
<1>3. frame'[u] = frame[u] /\ call'[u] = call[u]
  BY <1>1 DEF SameLocals
<1>4. ASSUME NEW s \in owed[m].to, Reached(m, s) \/ Underway(u, s)
      PROVE  Reached(m, s)' \/ Underway(u, s)'
  <2>1. s \in Sessions /\ Settled(s)
    BY <1>2, DebtOf DEF BrokerInv, Delivery, DebtAt
  <2>2. client_id'[s] = client_id[s]
    BY <2>1, SettledStays DEF Settled
  <2>3. CASE Underway(u, s)
    BY <1>3, <2>2, <2>3 DEF Underway
  <2>4. CASE Reached(m, s)
    BY <1>2, <1>3, <2>1, <2>4, ReachedStays
  <2> QED BY <1>4, <2>3, <2>4
<1>5. frame[u].qos = owed[m].qos
      /\ (frame[u].qos > 0 => \A s \in owed[m].to : Reached(m, s) \/ Underway(u, s))
  BY <1>1 DEF RoutingAt
<1> QED BY <1>2, <1>3, <1>4, <1>5 DEF RoutingAt

------------------------------------------------------------------------------
(* Each session a new message is owed to is among those it will be sent to. *)
LEMMA OwedIsTargeted ==
    ASSUME BrokerInv, Granting, NEW topic \in Topics, NEW s \in Owing(topic)
    PROVE  /\ s \in Sessions /\ Settled(s)
           /\ \E target \in Matches(subscriptions, topic) :
                  target.subscriber.client_id = client_id[s]
PROOF
<1>1. PICK u \in Tasks : /\ Staying(u) /\ s = session[u]
                         /\ \E f \in granted[session[u]] : FilterMatches(f, topic)
  BY DEF Owing
<1>2. PICK f \in granted[s] : FilterMatches(f, topic)
  BY <1>1
<1>3. s \in Sessions /\ Owns(u, s) /\ rx[s] = "open" /\ s # NoSession
  BY <1>1, OwnSession DEF Staying, Owns
<1>4. Settled(s)
  <2>1. ASSUME NEW v \in Tasks, frame[v].new = s
        PROVE  FALSE
    <3>1. Owns(v, s)
      BY <1>3, <2>1 DEF Owns
    <3>2. v = u
      BY <1>3, <3>1 DEF BrokerInv, Owners
    <3> QED BY <1>1, <2>1, <3>2 DEF BrokerInv, Owners, Staying
  <2> QED BY <1>3, <2>1 DEF Settled
<1>5. /\ f \in Grantable
      /\ Having(subscriptions, client_id[s], f)
  BY <1>1, <1>2, <1>3 DEF Granting, GrantsAt
<1>6. PICK h \in Holders(subscriptions, NodeOf(f), Multi(f)) : h.client_id = client_id[s]
  BY <1>5 DEF Having
<1>7. /\ Place(f) = <<NodeOf(f), Multi(f)>> /\ Multi(f) \in BOOLEAN
      /\ Filter(f) /\ topic \in Seq(STRING)
  <2>1. f \in Names
    BY <1>5, RequestTypes DEF Grantable, Asked
  <2> QED BY <1>5, <2>1, PlaceParts, BrokerAssumption DEF Grantable, Filter, Names
<1>8. h \in DOMAIN Vector(subscriptions, Place(f)) /\ NodeOf(f) \in DOMAIN subscriptions
  BY <1>6, <1>7, VectorOfNoNode DEF Holders
<1>9. Place(f) \in Visited(subscriptions, topic) \X BOOLEAN
  BY <1>2, <1>7, <1>8, VisitedNode
<1>10. Vector(subscriptions, Place(f))[h] \in Nat \ {0}
  BY <1>7, <1>8 DEF BrokerInv, Types, TreeOf, Places
<1> DEFINE target == [place |-> Place(f), subscriber |-> h, copy |-> 1]
           copies == [place : {Place(f)}, subscriber : {h},
                      copy : 1 .. Vector(subscriptions, Place(f))[h]]
<1>11. target \in Matches(subscriptions, topic)
  <2>1. 1 \in 1 .. Vector(subscriptions, Place(f))[h]
    BY <1>10
  <2>2. target \in copies
    BY <2>1
  <2>3. copies \subseteq Elements(subscriptions, Place(f))
    BY <1>8 DEF Elements
  <2> HIDE DEF target, copies
  <2> QED BY <1>9, <2>2, <2>3 DEF Matches
<1>12. target.subscriber = h
  OBVIOUS
<1> HIDE DEF target, copies
<1> QED BY <1>3, <1>4, <1>6, <1>11, <1>12

(* A task goes on routing what it has begun to. *)
LEMMA OwnRouting ==
    ASSUME PoliteClients, BrokerInv, Granting, Delivery,
           NEW t \in Tasks, Client(t) \/ Handler(t) \/ Deliver(t)
    PROVE  RoutingAt(t)'
PROOF
<1> DEFINE m == frame[t].msg
<1>f. /\ frame \in [Tasks -> Frames] /\ frame[t] \in Frames /\ pc \in [Tasks -> Stages]
      /\ call \in [Tasks -> Calls] /\ owed \in Seq(Debts) /\ Len(owed) \in Nat
      /\ delivered \in [Sessions -> SUBSET Messages]
  BY DEF BrokerInv, Types, HistoryTypes, SessionTypeOK
<1>1. ASSUME NEW topic \in Topics, NEW qos \in PublishQoS, PublishPacket(t, topic, qos)
      PROVE  RoutingAt(t)'
  <2>1. /\ frame'[t].targets = Matches(subscriptions, topic) /\ frame'[t].qos = qos
        /\ frame'[t].msg = Len(owed) + 1
        /\ client_id' = client_id
    BY <1>1, <1>f DEF PublishPacket, Routing, Frames
  <2>2. owed'[Len(owed) + 1].qos = qos /\ owed'[Len(owed) + 1].to = Owing(topic)
    BY <1>1, <1>f DEF PublishPacket
  <2>3. \A s \in Owing(topic) : Underway(t, s)'
    BY <2>1, OwedIsTargeted DEF Underway
  <2> QED BY <2>1, <2>2, <2>3 DEF RoutingAt
<1>2. ASSUME NEW n \in DOMAIN owed, PublishAgain(t, n)
      PROVE  RoutingAt(t)'
  <2>1. /\ frame'[t].qos = 2 /\ frame'[t].msg = n /\ pc[t] = "select"
        /\ owed[n].qos = 2 /\ n \in 1 .. Len(owed)
    BY <1>2, <1>f DEF PublishAgain, Routing, Receives, Frames
  <2>2. n \in acked
    <3>1. PICK s \in owed[n].by : client_id[s] = client_id[session[t]]
      BY <1>2 DEF PublishAgain
    <3>2. ASSUME NEW u \in Tasks, pc[u] = "route", session[u] \in owed[n].by
          PROVE  FALSE
      <4>1. client_id[session[u]] = client_id[session[t]]
        BY <2>1, <3>1, <3>2 DEF Delivery, DebtAt
      <4>2. Served(t) /\ Served(u)
        BY <1>2, <2>1, <3>2, DebtOf, SessionAssumption DEF PublishAgain, Served, BrokerInv
      <4>3. client_id[session[u]] \in UsesIds[u] \cap UsesIds[t]
        BY <4>1, <4>2, OwnSession
      <4> QED BY <2>1, <3>2, <4>3 DEF PoliteClients, ExclusiveIds
    <3> QED BY <2>1, <3>1, <3>2 DEF Delivery, DebtAt
  <2>3. owed'[n].qos = 2 /\ owed'[n].to = owed[n].to
    BY <2>1, DebtsKept
  <2>4. \A s \in owed[n].to : Reached(n, s)'
    BY <2>1, <2>2, DebtOf, ReachedStays DEF Delivery, DebtAt, BrokerInv
  <2> QED BY <2>1, <2>3, <2>4 DEF RoutingAt
<1>3. ASSUME NEW target \in frame[t].targets, RouteQoS0(t, target)
      PROVE  RoutingAt(t)'
  <2>1. /\ frame'[t].qos = frame[t].qos /\ frame[t].qos = 0 /\ frame'[t].msg = m
        /\ pc[t] = "route" /\ owed' = owed
    BY <1>3, <1>f DEF RouteQoS0, Targeting, Frames
  <2> QED BY <2>1 DEF RoutingAt, Delivery
<1>4. ASSUME pc[t] = "route", pc'[t] = "route", owed' = owed,
             frame'[t].qos = frame[t].qos, frame'[t].msg = m,
             \A s \in owed[m].to : frame[t].qos > 0 /\ Settled(s) /\ Underway(t, s)
                                      => Reached(m, s)' \/ Underway(t, s)'
      PROVE  RoutingAt(t)'
  <2>1. m \in 1 .. Len(owed) /\ RoutingAt(t)
    BY <1>4 DEF BrokerInv, Flow, FlowAt, Delivery
  <2>2. \A s \in owed[m].to : s \in Sessions /\ Settled(s)
    BY <2>1, DebtOf DEF BrokerInv, Delivery, DebtAt
  <2>3. ASSUME frame[t].qos > 0, NEW s \in owed[m].to
        PROVE  Reached(m, s)' \/ Underway(t, s)'
    <3>1. Reached(m, s) => Reached(m, s)'
      BY <1>4, <2>1, <2>2, ReachedStays DEF Reached
    <3> QED BY <1>4, <2>1, <2>2, <2>3, <3>1 DEF RoutingAt
  <2> QED BY <1>4, <2>1, <2>3 DEF RoutingAt
<1>5. ASSUME NEW target \in frame[t].targets, RouteQoS1(t, target)
      PROVE  RoutingAt(t)'
  <2> DEFINE c == target.subscriber.client_id
  <2>1. /\ frame'[t].targets = frame[t].targets \ {target}
        /\ frame'[t].qos = frame[t].qos /\ frame'[t].msg = m
        /\ pc[t] = "route" /\ pc' = pc /\ call[t].pc = "idle" /\ client_id' = client_id
        /\ owed' = owed /\ delivered' = delivered /\ session' = session
    BY <1>5, <1>f DEF RouteQoS1, Targeting, historyVars, Frames
  <2>2. ASSUME NEW s \in Sessions, sessions[c] = s
        PROVE  call'[t].session = s /\ call'[t].pc = "fetch"
    BY <1>5, <1>f, <2>2, SessionAssumption DEF RouteQoS1, EnqueuePublish
  <2>3. ASSUME NEW s \in owed[m].to, Settled(s), Underway(t, s)
        PROVE  Reached(m, s)' \/ Underway(t, s)'
    <3>0. s \in Sessions
      BY <2>1, DebtOf DEF BrokerInv, Flow, FlowAt
    <3>1. PICK other \in frame[t].targets : other.subscriber.client_id = client_id[s]
      BY <2>1, <2>3 DEF Underway
    <3>2. CASE other # target
      BY <2>1, <3>1, <3>2 DEF Underway
    <3>3. CASE other = target /\ Gone(s)
      BY <3>0, <2>3, <3>3, SettledStays DEF Reached
    <3>4. CASE other = target /\ ~Gone(s)
      <4>1. PICK u \in Tasks : session[u] = s /\ Staying(u)
        BY <3>4 DEF Gone
      <4>2. Owns(u, s) /\ ~Ending(u)
        BY <4>1, OwnSession DEF Staying, Ending
      <4>3. sessions[c] = s
        BY <3>0, <3>1, <3>4, <4>2 DEF Delivery, RegisteredAsOwn
      <4> QED BY <2>2, <3>0, <4>3 DEF Underway
    <3> QED BY <3>2, <3>3, <3>4
  <2> QED BY <1>4, <2>1, <2>3
<1>6. CASE Enqueue(t)
  <2>1. /\ UNCHANGED <<owed, frame, pc, session, client_id>> /\ pc[t] = "route"
        /\ call[t].pc # "idle" => call[t].session \in Sessions
    <3>1. call[t].pc # "idle"
      BY <1>6 DEF Enqueue, Enqueueing, FetchPacketId, ResetPacketId, LockSender, SendPublish,
                  InsertPending
    <3> QED BY <1>6, <3>1 DEF Enqueue, localVars, BrokerInv, Flow, FlowAt, SessionTypeOK
  <2>2. ASSUME NEW s \in Sessions, s = call[t].session,
               call[t].pc \in {"fetch", "reset", "lock", "send"}
        PROVE  \/ call'[t].session = s /\ call'[t].pc \in {"reset", "lock", "send"}
               \/ call[t].pc = "send"
    BY <1>6, <1>f, <2>2 DEF Enqueue, Enqueueing, FetchPacketId, ResetPacketId, LockSender,
                  SendPublish, InsertPending, CallAt, Calls
  <2>3. ASSUME NEW s \in Sessions, s = call[t].session, call[t].pc = "send", Settled(s)
        PROVE  Reached(m, s)'
    <3>1. CASE rx[s] = "open"
      <4>1. delivered' = [delivered EXCEPT ![s] = @ \cup {m}]
        BY <1>6, <2>3, <3>1 DEF Enqueue
      <4> QED BY <1>f, <2>1, <4>1 DEF Reached
    <3>2. CASE rx[s] # "open"
      <4>1. Gone(s)
        BY <3>2, OwnSession DEF Gone, Staying
      <4> QED BY <2>3, <4>1, SettledStays DEF Reached
    <3> QED BY <3>1, <3>2
  <2>4. ASSUME NEW s \in owed[m].to, Settled(s), Underway(t, s)
        PROVE  Reached(m, s)' \/ Underway(t, s)'
    <3>0. s \in Sessions
      BY <2>1, DebtOf DEF BrokerInv, Flow, FlowAt
    <3>1. CASE \E target \in frame[t].targets : target.subscriber.client_id = client_id[s]
      BY <2>1, <3>1 DEF Underway
    <3>2. CASE call[t].session = s /\ call[t].pc \in {"fetch", "reset", "lock", "send"}
      BY <2>2, <2>3, <2>4, <3>0, <3>2 DEF Underway
    <3> QED BY <2>4, <3>1, <3>2 DEF Underway
  <2> QED BY <1>4, <2>1, <2>4
<1>7. CASE Acknowledge(t) \/ Quiet(t)
  BY <1>f, <1>7 DEF Acknowledge, Return, Quiet, RoutingAt
<1> QED BY <1>1, <1>2, <1>3, <1>5, <1>6, <1>7, DeliveryKinds

------------------------------------------------------------------------------
(* What holds of a message when no other step is about it.                  *)
LEMMA DebtStays ==
    ASSUME BrokerInv, Delivery, NEW t \in Tasks, Client(t) \/ Handler(t) \/ Deliver(t),
           NEW m \in 1 .. Len(owed),
           owed'[m].by = owed[m].by, m \in acked' => m \in acked,
           pc[t] = "route" /\ frame[t].msg = m /\ session[t] \in owed[m].by =>
               \/ m \in acked \/ owed[m].qos = 0
               \/ pc'[t] = "route" /\ frame'[t].msg = m /\ session'[t] = session[t]
    PROVE  DebtAt(m)'
PROOF
<1>1. DebtAt(m) /\ owed[m].to \subseteq Sessions /\ owed[m].by \subseteq Sessions
  BY DebtOf DEF Delivery, BrokerInv
<1>2. /\ owed'[m].to = owed[m].to /\ owed'[m].qos = owed[m].qos
      /\ m \in acked => m \in acked'
  BY DebtsKept
<1>3. \A s \in owed[m].to : Settled(s)' /\ (Reached(m, s) => Reached(m, s)')
  BY <1>1, SettledStays, ReachedStays DEF DebtAt
<1>4. \A s \in owed[m].by : rx[s] # "none" /\ rx'[s] # "none" /\ client_id'[s] = client_id[s]
  BY <1>1, SettledStays DEF DebtAt
<1>5. ASSUME owed[m].qos > 0, owed[m].by # {}, m \notin acked
      PROVE  \E u \in Tasks : pc'[u] = "route" /\ frame'[u].msg = m /\ session'[u] \in owed[m].by
  <2>1. PICK u \in Tasks : pc[u] = "route" /\ frame[u].msg = m /\ session[u] \in owed[m].by
    BY <1>1, <1>5 DEF DebtAt
  <2>2. CASE u = t
    BY <1>5, <2>1, <2>2
  <2>3. CASE u # t
    BY <2>1, <2>3, StepKinds DEF SameLocals
  <2> QED BY <2>2, <2>3
<1> QED BY <1>1, <1>2, <1>3, <1>4, <1>5 DEF DebtAt

LEMMA DebtStep ==
    ASSUME PoliteClients, BrokerInv, Granting, Delivery,
           NEW t \in Tasks, Client(t) \/ Handler(t) \/ Deliver(t),
           NEW m \in 1 .. Len(owed')
    PROVE  DebtAt(m)'
PROOF
<1>f. /\ frame \in [Tasks -> Frames] /\ frame[t] \in Frames /\ pc \in [Tasks -> Stages]
      /\ owed \in Seq(Debts) /\ Len(owed) \in Nat /\ acked \subseteq 1 .. Len(owed)
      /\ \A n \in 1 .. Len(owed) : owed[n] \in Debts
  BY DebtOf DEF BrokerInv, Types, HistoryTypes
<1>1. ASSUME NEW topic \in Topics, NEW qos \in PublishQoS, PublishPacket(t, topic, qos)
      PROVE  DebtAt(m)'
  <2>1. /\ owed' = Append(owed, [topic |-> topic, qos |-> qos,
                                 by |-> {session[t]} \ {NoSession}, to |-> Owing(topic)])
        /\ pc[t] = "select" /\ pc'[t] = "route" /\ acked' = acked
        /\ frame'[t].msg = Len(owed) + 1 /\ session' = session
        /\ rx' = rx /\ client_id' = client_id
    BY <1>1, <1>f DEF PublishPacket, Routing, Receives, sessionVars, Frames
  <2>2. CASE m \in 1 .. Len(owed)
    <3>1. owed'[m] = owed[m]
      BY <1>f, <2>1, <2>2
    <3> QED BY <2>1, <2>2, <3>1, DebtStays
  <2>3. CASE m = Len(owed) + 1
    <3>1. owed'[m].to = Owing(topic) /\ owed'[m].by = {session[t]} \ {NoSession}
      BY <1>f, <2>1, <2>3
    <3>2. \A s \in owed'[m].to : Settled(s)'
      BY <3>1, OwedIsTargeted, SettledStays
    <3>3. session[t] # NoSession => rx'[session[t]] # "none"
      BY <2>1, OwnSession DEF Served
    <3>4. m \notin acked'
      BY <1>f, <2>1, <2>3
    <3> QED BY <2>1, <2>3, <3>1, <3>2, <3>3, <3>4 DEF DebtAt
  <2> QED BY <1>f, <2>1, <2>2, <2>3
<1>2. ASSUME NEW n \in DOMAIN owed, PublishAgain(t, n)
      PROVE  DebtAt(m)'
  <2>1. /\ owed' = [owed EXCEPT ![n] = [owed[n] EXCEPT !.by = @ \cup {session[t]}]]
        /\ pc[t] = "select" /\ pc'[t] = "route" /\ acked' = acked
        /\ frame'[t].msg = n /\ session' = session /\ rx' = rx /\ client_id' = client_id
        /\ Served(t)
    BY <1>2, <1>f DEF PublishAgain, Routing, Receives, sessionVars, Frames
  <2>2. m \in 1 .. Len(owed)
    BY <1>f, <2>1
  <2>3. CASE m # n
    BY <1>f, <2>1, <2>2, <2>3, DebtStays
  <2>4. CASE m = n
    <3>1. owed'[m].by = owed[m].by \cup {session[t]}
      BY <1>f, <2>1, <2>2, <2>4 DEF Debts
    <3>2. /\ DebtAt(m) /\ owed[m].to \subseteq Sessions
          /\ owed'[m].to = owed[m].to
      BY <2>2, DebtOf, DebtsKept DEF Delivery, BrokerInv
    <3>3. \A s \in owed[m].to : Settled(s)' /\ (Reached(m, s) => Reached(m, s)')
      BY <2>2, <3>2, SettledStays, ReachedStays DEF DebtAt
    <3>4. rx[session[t]] # "none"
      BY <2>1, OwnSession
    <3>5. \E s \in owed[m].by : client_id[s] = client_id[session[t]]
      BY <1>2, <2>4 DEF PublishAgain
    <3>6. \A r, s \in owed'[m].by : client_id[r] = client_id[s]
      BY <3>1, <3>2, <3>5 DEF DebtAt
    <3>7. \A s \in owed'[m].by : rx'[s] # "none"
      BY <2>1, <3>1, <3>2, <3>4 DEF DebtAt
    <3>8. pc'[t] = "route" /\ frame'[t].msg = m /\ session'[t] \in owed'[m].by
      BY <1>f, <2>1, <2>4, <3>1
    <3>9. m \in acked' => \A s \in owed'[m].to : Reached(m, s)'
      BY <2>1, <3>2, <3>3 DEF DebtAt
    <3> QED BY <2>1, <3>2, <3>3, <3>6, <3>7, <3>8, <3>9 DEF DebtAt
  <2> QED BY <2>3, <2>4
<1>3. CASE \/ \E target \in frame[t].targets : RouteQoS0(t, target) \/ RouteQoS1(t, target)
           \/ Enqueue(t)
  <2>1. /\ UNCHANGED <<owed, acked, pc, session>> /\ frame'[t].msg = frame[t].msg
    BY <1>3, <1>f DEF RouteQoS0, RouteQoS1, Targeting, historyVars, Enqueue, localVars, Frames
  <2> QED BY <2>1, DebtStays
<1>4. CASE Quiet(t)
  BY <1>4, DebtStays DEF Quiet
<1>5. CASE Acknowledge(t)
  <2>1. /\ owed' = owed /\ pc[t] = "route" /\ call[t].pc = "idle" /\ frame[t].targets = {}
        /\ RoutingAt(t) /\ frame[t].msg \in 1 .. Len(owed)
    BY <1>5 DEF Acknowledge, Delivery, BrokerInv, Flow, FlowAt
  <2>2. CASE m # frame[t].msg
    BY <1>5, <2>1, <2>2, DebtStays DEF Acknowledge
  <2>3. CASE m = frame[t].msg /\ ~(frame[t].qos > 0 /\ Served(t))
    <3>1. acked' = acked
      BY <1>5, <2>3 DEF Acknowledge
    <3>2. owed[m].qos = 0 \/ session[t] \notin owed[m].by
      <4>1. owed[m].qos \in 0 .. 2 /\ owed[m].by \subseteq Sessions
        BY <1>f, <2>1, <2>3 DEF Debts
      <4> QED BY <2>1, <2>3, <4>1, SessionAssumption DEF RoutingAt, Served
    <3> QED BY <2>1, <3>1, <3>2, DebtStays
  <2>4. CASE m = frame[t].msg /\ frame[t].qos > 0 /\ Served(t)
    <3>1. acked' = acked \cup {m}
      BY <1>5, <2>4 DEF Acknowledge
    <3>2. \A s \in owed[m].to : Reached(m, s)
      BY <2>1, <2>4 DEF RoutingAt, Underway
    <3>3. DebtAt(m) /\ owed[m].to \subseteq Sessions /\ owed[m].by \subseteq Sessions
      BY <2>1, <2>4, DebtOf DEF Delivery, BrokerInv
    <3>4. \A s \in owed[m].to : Settled(s)' /\ Reached(m, s)'
      BY <2>1, <2>4, <3>2, <3>3, SettledStays, ReachedStays DEF DebtAt
    <3>5. \A s \in owed[m].by : rx[s] # "none" /\ rx'[s] # "none" /\ client_id'[s] = client_id[s]
      BY <3>3, SettledStays DEF DebtAt
    <3> QED BY <2>1, <3>1, <3>3, <3>4, <3>5 DEF DebtAt
  <2> QED BY <2>2, <2>3, <2>4
<1> QED BY <1>1, <1>2, <1>3, <1>4, <1>5, DeliveryKinds

LEMMA DeliveryStep ==
    ASSUME PoliteClients, BrokerInv, Granting, Delivery,
           NEW t \in Tasks, Client(t) \/ Handler(t) \/ Deliver(t)
    PROVE  Delivery'
PROOF
<1>1. RegisteredAsOwn'
  BY RegisteredAsOwnStep DEF Delivery
<1>2. \A u \in Tasks : RoutingAt(u)'
  BY OthersRouting, OwnRouting
<1>3. \A m \in 1 .. Len(owed') : DebtAt(m)'
  BY DebtStep
<1> QED BY <1>1, <1>2, <1>3 DEF Delivery

(* When no two connections use the same client id and no client connects    *)
(* again while it has a session, then by the time the publisher gets its    *)
(* PUBACK or PUBREC, the message is in the channel of each session that had *)
(* been granted a matching filter, unless that session has ended.           *)
THEOREM AcknowledgedIsDelivered ==
    ASSUME PoliteClients
    PROVE  Spec => []AckedIsDelivered
PROOF
<1>1. Init => Delivery
  <2>1. Len(<<>>) = 0
    OBVIOUS
  <2> QED BY <2>1 DEF Init, Delivery, RegisteredAsOwn, Owns, NoFrame, RoutingAt
<1>2. Spec => []Granting
  BY GrantingHolds DEF PoliteClients
<1>3. BrokerInv /\ Granting /\ Delivery /\ [Next]_vars => Delivery'
  <2>1. BrokerInv /\ Granting /\ Delivery /\ Next => Delivery'
    BY DeliveryStep DEF Next
  <2>2. Delivery /\ UNCHANGED vars => Delivery'
    BY DEF vars, brokerVars, localVars, historyVars, sessionVars, Delivery, RegisteredAsOwn,
           Owns, Ending, RoutingAt, DebtAt, Settled, Gone, Reached, Underway, Staying, Served
  <2> QED BY <2>1, <2>2
<1>4. BrokerInv /\ Delivery => AckedIsDelivered
  BY DEF BrokerInv, HistoryTypes, Delivery, DebtAt, Reached, Gone, AckedIsDelivered
<1> QED BY <1>1, <1>2, <1>3, <1>4, BrokerInvHolds, PTL DEF Spec
==============================================================================
