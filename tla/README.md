# Verification of rustquitto, an MQTT 3.1.1 broker

TLA+ models of the broker in this repository, their TLC runs, and TLAPS proofs.
Paths such as `session.rs:89` are relative to `src/src/broker/`, `src/src/server/`
or `src/src/protocol/`.

    tlc -config Session.cfg MCSession            # one of the runs, see below
    tlapm SessionProofs.tla                      # the proofs

## 1. The system

A process runs two listeners, TCP and WebSocket. Each connection is a tokio task
with a select loop over its socket and its *channel*, an unbounded queue of packets
for the client. All tasks share one `Broker`.

| component | state | operations | used by |
|---|---|---|---|
| `Session` (`session.rs`) | `next_packet_id` (AtomicU16), `sender` (mutex around the channel's sender), `pending_qos1`, `pending_qos2` (maps by packet id) | `new`, `new_packet_id`, `sender`, `enqueue_publish`, `handle_puback`, `handle_pubrec`, `handle_pubcomp` | its own connection for replies; any connection for publishes |
| `TopicTree` (`subscriptions.rs`) | nodes with children, `single_wildcard`, two vectors of subscribers | `add`, `remove`, `remove_all_for_client`, `matches` | the broker, behind an `RwLock` |
| `Broker` (`mod.rs`) | `sessions` (DashMap by client id), `subscriptions` | `register_session`, `remove_session`, `get_session`, `handle_connect` ... `handle_disconnect`, `is_valid_topic_filter` | every connection |
| TCP connection (`tcp.rs`) | local `session`, `out_rx`, `buf` | `handle_connection`, `read_async`, `extract_packet`, `handle_packet` | |
| WebSocket connection (`ws.rs`) | local `session`, `out_rx` | `handle_ws`, `handle_ws_packet` | |
| decoder (`decode.rs`), encoder (`encode.rs`), types (`types.rs`) | none | bytes to packets and back | the connections |
| config, errors, main | none of their own | | |

How they interact: a publisher's task copies the matching subscribers under the read
lock, releases it, and serves them one by one: at QoS 0 through the sender stored
in the subscription, otherwise through `Session::enqueue_publish` of the session that
is registered under the subscriber's client id *by then*. Replies to a client go
through its own channel, whose sender is fetched with `try_lock`.

What is hard here, and where it bites (PROJECT.json lists each hazard at its line):

- **Interleaving inside a session.** `enqueue_publish` runs in several tasks at once:
  atomic counter, mutex, channel and map are four separate steps, while the client
  acknowledges.
- **Stale data.** The list of subscribers outlives the lock it was read under; the
  client ids in it are looked up when sessions may have ended or been replaced.
- **Ends of connections.** `handle_disconnect` is two steps, is skipped on some TCP
  errors, and goes by client id rather than by session.
- **Pieces of a stream.** A TCP read returns any part of a packet or of several;
  nothing may wait in the buffer that is complete, and nothing be taken too early.
- **Numbers.** A packet id that wraps at 2^16, a remaining length of one to four bytes, a
  publish that just fits and is forwarded at another level.
- **Retries.** A publisher that has had no answer sends again on its next connection.
- **Data structure.** Filters share the nodes of the trie.

What makes each component correct: a session hands out ids that are not in flight
twice and keeps each publish until its own PUBACK; the trie is a table of
subscriptions that `matches` queries; the broker keeps connected clients registered,
granted filters installed, acknowledged publishes delivered, and nothing of clients
that are gone; a handler always returns; a connection handles the packets its client
sent, each once, in order, with every field as sent.

## 2. The modules

| module | what it is |
|---|---|
| `Session` | the session, one action for each point where tasks can interleave |
| `MCSession` | its instances for TLC, with the bounds they need |
| `SessionProofs` | its theorems |
| `TopicTree` | the trie as a value, an operator for each method; reference meaning of filters |
| `TopicTreeProofs` | lemmas about these operators, for the proofs below |
| `Subscriptions` | the trie over a sequence of calls |
| `SubscriptionTable` | the abstract specification of the trie |
| `MCSubscriptions` | its instances |
| `SubscriptionsProofs` | the theorems about the trie and its abstract specification |
| `Broker` | registry, handlers and connections, over `Session` and `TopicTree` |
| `MCBroker` | its instances |
| `BrokerProofs` | types of the broker, and that it uses its sessions as `Session` allows |
| `BrokerSafetyProofs` | who is registered, what is left behind, what stays in the trie, what is delivered |
| `Codec` | bytes to packets and back, an operator for each function |
| `CodecProofs` | lemmas about numbers, the remaining length, the readers of bytes, and strings of strings |
| `PacketProofs` | lemmas about packets: what the decoder and the encoder make of those of the standard |
| `Framing` | the reading half of a connection, over `Codec`; a client's bytes, arriving in pieces |
| `PacketPipe` | the abstract specification of `Framing` |
| `MCFraming` | its instance, and the unit tests of the codec as assumptions |
| `FramingProofs` | the theorems about `Framing` and its abstract specification |

**Session.** `call[t]` is the `enqueue_publish` that task `t` runs: it goes through
`FetchPacketId`, `ResetPacketId` (only for id 0), `LockSender`, `SendPublish`,
`InsertPending`. `SendReply` is `Session::sender` plus the send. `rx` says whether the
receiver lives; `Forward` is the select arm that writes to the socket, and
`unacked` is what the client has received and not acknowledged. The client is
assumed to send one PUBACK for each QoS 1 publish it gets. `issued` counts the draws
from the counter, so that properties can speak of "until the counter wraps". `Session`
itself has no bound: `BoundedSpec` of `MCSession` holds new calls and additions to a
channel back, never a call in progress.
The three mutexes are not all alike: those around the two maps are taken, used and
released without another await, so each access to a map is one step; the sender's is
held from `LockSender` to `SendPublish`, since `try_lock` can observe it.
The QoS 0 branch of `enqueue_publish` (`session.rs:112-115`) is left out:
`handle_publish` sends QoS 0 itself. The QoS 2 branch is modelled, but in Broker no
publish takes it: `handle_subscribe` grants `AtLeastOnce` always (`mod.rs:98`).

**TopicTree.** A topic is the sequence of its levels. The trie is a function from
paths to nodes; the level `"+"` on a path is the step to `single_wildcard`, which no
key of `children` can be confused with. Vectors are bags; `Place` is the vector a filter
belongs to, and `Elements` tells the copies in it apart, so that what `matches` returns is a
set of numbered elements. `Remove` takes the filters of one UNSUBSCRIBE, of any shape: they
are not validated. `"x#"` and `"x+"` stand for
levels that mix a wildcard with other characters. `Visited` describes the nodes that
`matches_recursive` reaches, `Walk` is the recursion itself; `WalkIsVisited` compares
them.

**Subscriptions.** Any sequence of calls on the trie. `called` is history: the last call,
with its arguments. `SubscriptionTable` has the same variable, and each of its operations
sets it first, so a call refines the operation it names, with its own arguments, or none: a
`remove` that does nothing, or drops more than its filter, is no step of the table. The
filters of an UNSUBSCRIBE that are not valid are `Malformed`; the table says what `remove`
makes of them, `UnsubscribeMalformed`.

**Broker.** A task's `pc` is `"select"` between packets. Each handler is cut at its
accesses to shared state:

| packet | actions |
|---|---|
| CONNECT | `Connect` (new, register), `Connack`, `Adopt` (the local variables of the loop) |
| SUBSCRIBE | `Subscribe` (fetch the sender), `AddFilter` for each filter, `Suback` |
| UNSUBSCRIBE | `Unsubscribe` (all filters, one lock), `Unsuback` |
| PUBLISH | `PublishPacket` (matches), `RouteQoS0` or `RouteQoS1` and `Enqueue` for each subscriber, `Acknowledge` |
| PUBACK, PUBCOMP | `Puback`, `Pubcomp` |
| PUBREC | `Pubrec` (the map), `ReplyPubrel` |
| PUBREL, PINGREQ | `Pubrel`, `Pingreq` |
| DISCONNECT | `Disconnect` (unregister), `Leave` (trie), `Quit` (locals) |
| end of a connection | `Close`, then `Leave`, `Quit`; on a TCP error `Fail` alone; `Hangup` without a session |

The arms of `handle_packet` and `handle_ws_packet` for CONNACK, SUBACK, UNSUBACK and
PINGRESP are unreachable: `decode` has already reported these packets as errors, which
`Fail` and `Close` stand for. `PublishAgain` is a publisher that sends a QoS 2 message
again, on a new session, having had no PUBREC on the one before; it is the only
retransmission. A client with a session may send CONNECT again where `SecondConnect` says
so. The subscribers of one publish that are still to be served are a set, `targets`, since
their order depends on hash maps. A TCP task may hold several packets in its buffer and
handle them without looking at its channel; the model lets `Deliver` happen in between,
which is the superset. `granted`, `owed`, `delivered`, `acked` and `answered` are history.

**Codec.** A result that may be an error is a set: empty for the error, otherwise with the
one value, so that `?` is a union; `Ok` is that one value, with the bytes left. `Field`
reads one named field behind those already read and `FieldIf` one that the flags may leave
out, as the `read_*` functions are called one after the other; fields that are absent are
absent from the record. `EntriesAfter` is the loop over the entries of a SUBSCRIBE or
UNSUBSCRIBE, a function of the number of its turns; a turn that finds no bytes left
changes nothing. `Multiplier[k]` is the loop variable `multiplier` in the turn that reads
digit k + 1. `LengthBase` and `MaxLengthBytes` are 128 and 4 in the code. Invalid UTF-8 is
represented by the bytes from 248 up, which no UTF-8 string holds.

**Framing.** One connection. The client appends packets to `wire`, as bytes (TCP) or as
frames (WebSocket); `Read(n)` moves any prefix of up to `ReadSize` bytes into `buf`;
`Extract` is one turn of the loop over `extract_packet`, with its two other exits; `Frame`
is a binary message. What `handle_packet` does is left to `Broker`; here `handled` records
what it is given, and `HandlerReplies` and `Forwarded` say which packets it sends in
return, to be encoded. The client's bytes are defined by the MQTT standard
(`StandardBytes`), independently of the encoder, which writes none of the client's packets
but PUBLISH and the acknowledgements; so the decoder is checked against the standard and
not against its own inverse. Which packets a client may send is `StandardPacket`, which
`ClientAssumption` requires of `ClientPackets`: the fields that the flags announce, strings of
at most 65535 bytes, and a body that the bytes of a remaining length can count.

## 3. The runs

| run | configuration | result |
|---|---|---|
| `session` | `Session.cfg` | types, unique ids, pending entries; `enqueue_publish` returns |
| `subscriptions` | `Subscriptions.cfg` | the trie implements the table; what `matches` returns |
| `broker_exclusive` | `BrokerExclusive.cfg` | guarantees while no client id is used twice at a time |
| `broker_shared` | `BrokerShared.cfg` | clean-up and liveness while two connections share an id |
| `framing` | `Framing.cfg` | the packets handled are those sent, however the stream is cut; the replies are well-formed |
| `session_ack_race` | `SessionAckRace.cfg` | **violated**: `PendingAwaitsPuback` |
| `session_id_wrap` | `SessionIdWrap.cfg` | **violated**: `NeighboursDiffer` |
| `broker_takeover` | `BrokerTakeover.cfg` | **violated**: `ConnectedIsRegistered` |
| `broker_tcp_leak` | `BrokerTcpLeak.cfg` | **violated**: `NothingOutlivesItsClient` |
| `broker_lost_reply` | `BrokerLostReply.cfg` | **violated**: `RepliesReachTheChannel` |
| `broker_exactly_once` | `BrokerExactlyOnce.cfg` | **violated**: `ExactlyOnce` |
| `framing_partial` | `FramingPartial.cfg` | **violated**: `PartialReadsAreHandled` |

**What holds.** Until the counter wraps, ids in flight are unique and a publish is pending
until its own PUBACK (`UniqueIds`, `UnackedIsPending`, `AckRetiresItsOwn`). The trie
implements `SubscriptionTable` call by call: `add` and `remove` change the row of their
filter, for their subscriber or client, and no other, except that a malformed filter
removes what finding 4 says. `matches` overlooks no subscription (`FindsEveryMatch`),
and `FindsPrefixMatches` tells exactly what it returns: each subscription whose filter
matches the topic *or a prefix of it*. With exclusive client ids a connected client is
registered, a granted filter stays installed, and by the publisher's PUBACK the message is
in the channel of every client that had been granted a matching filter and is still there.
With WebSockets nothing outlives its client, even when ids are shared and a connection
sends CONNECT twice under the same id, and every handler returns. Both transports
implement `PacketPipe`: `handle_packet` is given what the client sent, each packet once,
in order and unchanged. What is not handled yet is, byte for byte, what the buffer and the
socket hold (`BytesAreConserved`). No complete packet waits for another read
(`NothingCompleteWaits`), every packet sent is handled (`EverySentIsHandled`), the only
cut that ends a connection is one inside the remaining length (`FailsOnlyInLength`), and
what the broker sends in return is encoded as the standard says, without an error and
within the longest remaining length (`OutboundIsStandard`): a QoS 2 publish loses nothing
when it goes out at QoS 1, and a QoS 0 publish does not get a packet id. That is about the
encoding only: a forwarded PUBLISH keeps the dup and retain flags it came with, and no
property says what they should be. The remaining lengths of `Framing` are those of packets
of the standard; a fifth length byte, and a length in more bytes than it needs, are in the
assumptions of `MCFraming` only. The assumptions of `MCFraming`, which TLC evaluates to
the base 128, are the unit tests of `decode.rs` and `encode.rs`, the boundaries of the
remaining length, and malformed packets that must be refused. `UncutExample` notes that
the CONNECT of `decode_connect_minimal` has a remaining length of 14 although 15 bytes
follow: `decode`, which does not cut its input, accepts it, and so does a WebSocket; over
TCP `extract_packet` cuts it and it is refused.

**What does not hold** (the findings of PROJECT.json):

1. The packet is sent before its pending entry is inserted. A PUBACK handled in
   between removes nothing, and the entry stays for good.
2. After the counter wraps, id 1 is handed out twice in a row.
3. `matches` returns the subscribers of every node it passes: `a` receives `a/b`. This one
   is shown by a property that holds, `FindsPrefixMatches`, of the run `subscriptions`.
4. An UNSUBSCRIBE from the malformed `a/#/b`, which nobody can subscribe to, ends the
   client's subscription to `a/#`: `handle_unsubscribe` does not validate (`mod.rs:131`), and
   `remove` stops at the `#`. This one too is shown by a property that holds,
   `ImplementsTable`: `ReadAs` of the table says which row such a filter empties.
5. The end of an older connection with the same client id unregisters the newer
   session and removes its subscriptions.
6. TCP error paths skip `handle_disconnect`.
7. A reply is dropped when a publish holds the sender mutex at that moment. In the
   same way `handle_subscribe` may store a dead sender with the subscription, which then
   never gets a QoS 0 publish.
8. A QoS 2 publish that is sent again after a lost connection is delivered twice: packet
   ids received are not recorded. Nor is a QoS 2 subscription ever granted (`mod.rs:98`).
9. A read that ends inside the remaining length ends the connection (`tcp.rs:131`).

**Bounds.** `IdModulus` stands for 2^16. In the run `session` it is 3 and `MaxEnqueues` of
`MCSession` allows 3 draws: the third finds id 0, and `UniqueIds` has its interesting
cases, two calls that hold the ids 1 and 2, below the wrap. Three tasks are one that holds
the mutex, one that waits and one that draws; one message suffices, since packets that
differ in nothing but their message would need the same id. The run calls
`enqueue_publish` with QoS 1 and QoS 2, beyond what the broker does. `MaxQueue` bounds
only what the environment of the session adds, and does not limit `enqueue_publish`.
`MaxEntries` = 3 subscriptions suffice for two filters in one node plus another client's;
the filters cover a wildcard and a name at each of two levels and `#` below each;
`a/#/b`, which is read as `a/#`, and `x+`, which is read as nothing, are malformed; the
topics reach one level deeper and include one with a wildcard, which the broker does not
refuse. In Broker, `MaxPackets` bounds the packets a client sends (PUBACKs aside) to three
and two: connect, subscribe and unsubscribe or publish on one side, connect and publish on
the other. `Sessions` bounds the CONNECTs; the exclusive run has one reconnection. There
`IdModulus` is out of reach of the packets sent. In the shared run the publishes are of
QoS 2, which take the path of QoS 1 and may be sent again; a second CONNECT has the id of
the first. `Requests` holds a list of filters two of which meet in the node `a` and one of
which is invalid.

In Framing, `LengthBase` = 3 makes a remaining length of one to four bytes count up to 80
instead of 268435455, so that the 13 packets of `OneOfEach` have lengths of each size and
one is the longest there is. `MaxSent` = 2 packets are enough for a read that holds the
end of one and the beginning, or the whole, of the next. `ReadSize` = 6 stands for the
4096 bytes of a read: several small packets or a part of a large one. A packet of the real
base differs in the number of bytes before the boundaries, which `RemainingLengths`
covers.

**Symmetry** is used for the client ids of `subscriptions`, which meet only equality; that run
checks no liveness.

**Fairness.** `SessionFairness` and `Fairness` say: a task that can run is polled (weak
fairness of the steps inside a handler; tokio's scheduler), and a task that waits for the
sender mutex gets it although others take it again and again (strong fairness of
`LockSender`; tokio's `Mutex` is first-in first-out). Nothing is assumed of clients or of
the network there: none has to send, read or close. The `Fairness` of Framing says that a
connection whose socket has bytes is polled (weak fairness of `Read`, `Extract` and
`Frame`). It assumes a client that reads its replies, since the loop does not read while
it writes; no step of the client or end of the connection is assumed. The deadlock check
is switched off in the two runs of Framing only, where the one connection ends.

## 4. The proofs

Of the properties that the passing runs check, all but the three liveness properties are
theorems, for any values of the constants that satisfy the modules' assumptions; TLC
evaluates these assumptions in every run. The table names the theorem, the property of the
runs that it states, and what it assumes besides.

| module | theorem | property | hypotheses |
|---|---|---|---|
| `SessionProofs` | `SessionTypeCorrect` | `SessionTypeOK` | |
| | `PacketIdsUnique` | `UniqueIds` | |
| | `NothingUnackedIsForgotten` | `UnackedIsPending` | |
| | `EntriesLeaveWithTheirPuback` | `AckRetiresItsOwn` | |
| `SubscriptionsProofs` | `TreeTypeCorrect` | `TreeTypeOK` | |
| | `WalkVisitsNodes` | `WalkIsVisited` | |
| | `MatchesArePrefixMatches` | `FindsPrefixMatches` | |
| | `NoMatchOverlooked` | `FindsEveryMatch` | |
| | `TrieImplementsTable` | `ImplementsTable` | |
| `BrokerProofs` | `BrokerTypeCorrect` | `BrokerTypeOK` | |
| | `BrokerKeepsSessionGuarantees` | the last three of `SessionProofs` | |
| `BrokerSafetyProofs` | `ConnectedAreRegistered` | `ConnectedIsRegistered` | `ExclusiveIds` |
| | `NothingIsLeftBehind` | `NothingOutlivesItsClient` | `Tcp = {}`, `KeepsId` |
| | `GrantedStaysInstalled` | `GrantedIsInstalled` | `ExclusiveIds`, `WellFormedPlaces` |
| | `AcknowledgedIsDelivered` | `AckedIsDelivered` | `PoliteClients` |
| `PacketProofs` | `PacketDecodes` | | `StandardPacket(p)` |
| `FramingProofs` | `FramingTypes` | `FramingTypeOK` | |
| | `ConservesBytes` | `BytesAreConserved` | |
| | `NoneWaits` | `NothingCompleteWaits` | |
| | `FailsInLength` | `FailsOnlyInLength` | |
| | `SendsStandard` | `OutboundIsStandard` | |
| | `PipeIsImplemented` | `ImplementsPipe` | |

The hypotheses are conditions on the clients, not on the broker, and each is needed:

- `ExclusiveIds`: no two tasks use the same client id. Without it the end of the older
  connection unregisters the newer session (run `broker_takeover`).
- `Tcp = {}`: TCP error paths skip `handle_disconnect` (run `broker_tcp_leak`).
- `KeepsId`: no client connects twice on one connection, or every client has one id. A
  connection whose second CONNECT brings another id leaves the first one behind.
- `WellFormedPlaces`: no client asks for an ill-formed filter that `remove` takes for
  another client's, or its own, well-formed one. `handle_unsubscribe` does not validate, and
  `remove` stops at a `#`: an UNSUBSCRIBE of `a/#/b` removes `a/#`.
- `PoliteClients`: `ExclusiveIds`, `WellFormedPlaces`, and no second CONNECT on a connection,
  which replaces a session while a publish may be on its way to the first.

**Session.** `SessionTypeOK` is inductive by itself. `UniqueIds` is not: two
calls may hold different ids while the counter is about to hand one of them out
again. `LedgerInv` adds, while a session has issued fewer than `IdModulus` ids:

- `CounterAhead`: the counter is one more than the number of ids issued, so every id drawn
  is below it, and no call is at the reset;
- `OnePacketPerId`: any two packets in flight with the same id are the same packet, also
  across calls, channel, client and map;
- `OnePlacePerId`: a packet id is in one place (an unsent call, one position of the
  channel, or the client);
- `AllRecorded`: what is in the channel or at the client is in the map or about to be.

`LedgerInvariant` shows it inductive, one step for each action. A PUBACK removes by id
alone; that it removes its own entry follows from `OnePacketPerId`.

**The trie.** `TreeInv` is `TreeTypeOK`, that paths are sequences, and `OnlyFiltersHold`: a
vector that is not empty belongs to a filter somebody subscribed to, whatever an UNSUBSCRIBE
of something malformed did. The lemmas of `TopicTreeProofs` say what each method does to
the vector at a place (`VectorOfAdd`, `VectorOfRemove`, `VectorOfRemoveAll`), that two valid
filters have two places (`PlacesDiffer`), and that a node is visited exactly when a prefix of
the topic matches the filters put there (`VisitedNode`). The refinement of
`SubscriptionTable` follows place by place; what a malformed filter removes, from
`MalformedPlace`: its place is that of the valid filter it is read as, up to its first
`#`, or of none. `WalkVisits`, that the recursion of `matches` visits the nodes that
`Visited` describes, is an induction over data. The library's induction theorems have an
operator for a parameter, which the provers cannot instantiate; the proof uses instead
that a set of numbers has a least element (`LeastNumber`, from the well-foundedness of
`<`): the equation that defines the recursion has a solution, `Downwards`, and only one
(`OneSolution`), so `CHOOSE` picks it.

**The broker.** `BrokerInv` is inductive without any hypothesis: the types; `Flow`, which of a
task's variables are set where; and `Owners`, that a session has one owner, which made it
under one of its client ids, with the receiver open. Each action is then one action of
`Session` or leaves the sessions alone (`BrokerSteps`), which carries the guarantees of
`SessionProofs` over to the broker's sessions (`BrokerRunsSessions`). On it rest:

- `RegisteredInv`, which adds that a session being made is registered before it is adopted;
- `NothingLeftInv`, which says of each registered session, of each subscriber in the trie
  and of a session replaced by a second CONNECT which task still has to clean it up;
- `Granting`, which follows a filter from `handle_subscribe`'s list to `granted`: from its
  `AddFilter` on, the trie holds a subscriber of the client at its place;
- `Delivery`, which follows a message from the moment it is published: a session it is owed to
  has it, or has ended, or is a target the handler still has to serve (`RoutingAt`), and
  stays registered under its own id until then (`RegisteredAsOwn`). That the targets include
  every session it is owed to is `OwedIsTargeted`, from `Granting` and `VisitedNode`.

**The codec.** `PacketDecodes` is that `decode(StandardBytes(p)) = {p}` for every packet
that the standard lets a client send, at every length. Its parts are the digits of a
remaining length, which `LengthIsWritten` and `LengthIsRead` relate to
`encode_remaining_length` and `decode_remaining_length`; a lemma for each kind of field
(`StringField`, `OptionalBinary`, ...), which says that a field is read from its bytes and
what follows is left; and `ListIsRead`, that the loop over the entries of a SUBSCRIBE
reads the list that was written, within as many turns as there are bytes. The digits and
the entries are inductions over data; they use the least element of a set of numbers as
above (`Induction`, and `Recursion` for the functions that are defined by an equation).
For the encoder, `PublishIsWritten`, `SimpleIsWritten`, `SubackIsWritten`,
`ConnackIsWritten` and `PingrespIsWritten` say that it writes what the standard says.

**Framing.** No property of a connection is inductive, since each speaks of less than a
step needs: that a packet is found takes that the buffer begins where a packet does, at
every moment. `FramingInv` says so:

- `InTurn`: the packets handled are the first ones sent;
- `Conserved`: the buffer and the socket hold together the bytes of the others, one packet
  after the other (or the frames, one for each);
- `Lacks`: while the loop waits, less than one packet is in the buffer;
- that a loop which has failed did so in a remaining length (`InLength`).

The step that matters is `Extract`. The buffer is a front of the bytes that are left
(`Split`). Either it holds the whole next packet, which is then found, cut off and decoded
(`ExtractWhole`, by `PacketDecodes`), or only a part of it: then nothing is found, unless
the part ends in the remaining length, whose digits all announce another one
(`ExtractPart`, `LengthIsCutOff`). The theorems assume nothing but the assumptions on the
constants: `CodecAssumption` (a base of 2 to 128, at least one digit), `FramingAssumption`
(a read returns at least one byte) and `ClientAssumption` (clients send packets of the
standard). They hold for the base of the code, 128 with four digits, which TLC does not
reach except in the assumptions of `MCFraming`.

TLC checked these invariants, on the instances of the runs, before they were proved.

**Only model-checked:** liveness (`EveryEnqueueReturns`, `EveryHandlerReturns`,
`EverySentIsHandled`), which is out of the prover's reach; what a malformed packet is
decoded to (the assumptions of `MCFraming`); and what holds when the counter wraps.

## 5. Not modelled

- The process: listeners, configuration, logging, error texts. A failed accept ends
  `main`; no state survives the process, so there is no recovery to model.
- A write that blocks: in `Broker` it is a `Deliver` that is not taken. Two sides that
  both wait for the other to read are outside the models, as the socket buffers are.
- Of WebSockets, the HTTP upgrade, and pings, pongs and text messages, which change no
  state.
- Keep-alive, wills, retained messages, persistent sessions and retransmission by the
  broker: none is implemented. `pending_outgoing` is dead code. The keep-alive and will
  fields of CONNECT are decoded (`Codec`) and then unused.
- The order of a CONNACK and of a publish that reaches the new session before it. The
  model has both orders; no property speaks of it.
- The length limit of topic filters.
- Bytes behind a packet in a WebSocket frame: the clients of Framing send one packet in a
  frame.

Clients in the models acknowledge only what they got, and send packets the standard
allows, but for the ill-formed filters in a SUBSCRIBE or an UNSUBSCRIBE.

## 6. The plan

Done: `Session`, the trie, the broker, the codec and the framing, each with the theorems above.

Left, in this order: the clean-up by TCP connections that end without an error, and by a
second CONNECT under another id, stated for the clients that are not affected; and that
`decode` refuses whatever is no packet, of which `MCFraming` has examples.
