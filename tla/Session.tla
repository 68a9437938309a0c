------------------------------- MODULE Session -------------------------------
(***************************************************************************)
(* The outbound half of a client session (src/broker/session.rs): the      *)
(* packet-id counter, the mutex around the channel's sender, the unbounded *)
(* channel itself and the two maps of unacknowledged messages.             *)
(*                                                                         *)
(* A session is shared: the task of the client's own connection answers    *)
(* through it, while the tasks of any other connections run                *)
(* Session::enqueue_publish on it at the same time.  The module has one    *)
(* action for each point where those tasks can interleave: an atomic       *)
(* operation, the acquisition or the release of a mutex, a channel         *)
(* operation.  Its own environment lets every task call every operation at *)
(* any time; Broker.tla restricts that to what the connections do.         *)
(***************************************************************************)
EXTENDS Integers, Sequences, FiniteSets

CONSTANTS
    Sessions,       \* session objects, one for each CONNECT
    Tasks,          \* connection tasks, the callers of enqueue_publish
    Messages,       \* application messages
    EnqueueQoS,     \* the levels enqueue_publish is called with: {1}, since
                    \* Broker::handle_subscribe grants AtLeastOnce only
    IdModulus,      \* 2^16, the size of the u16 packet-id counter
    NoTask,         \* the sender mutex is free
    NoSession,      \* no session
    NoMessage       \* a packet that carries no application message

ASSUME SessionAssumption ==
    /\ NoTask \notin Tasks
    /\ NoSession \notin Sessions
    /\ NoMessage \notin Messages
    /\ EnqueueQoS \subseteq {1, 2}
    /\ IdModulus \in Nat /\ IdModulus >= 2

VARIABLES
    rx,             \* the receiver: "none" before Session::new, then "open"
                    \* until the connection drops it, then "dropped"
    next_packet_id, \* the AtomicU16
    sender,         \* the holder of the mutex around the sender
    out,            \* packets in the channel
    pending_qos1,   \* packets by id, waiting for a PUBACK
    pending_qos2,   \* packets by id, with their QoS 2 state
    call,           \* the enqueue_publish a task is in the middle of
    unacked,        \* the client: QoS 1 publishes received, PUBACK not yet sent
    issued          \* history: fetch_adds done on next_packet_id

sessionVars == <<rx, next_packet_id, sender, out, pending_qos1, pending_qos2,
                 call, unacked, issued>>

Ids == 0 .. IdModulus - 1
ReplyKinds == {"CONNACK", "PUBACK", "PUBREC", "PUBREL", "PUBCOMP",
               "SUBACK", "UNSUBACK", "PINGRESP"}
Packets == [kind : {"PUBLISH"} \cup ReplyKinds, qos : 0 .. 2, id : Ids,
            msg : Messages \cup {NoMessage}]

Publish(m, q, id) == [kind |-> "PUBLISH", qos |-> q, id |-> id, msg |-> m]
Reply(kind) == [kind |-> kind, qos |-> 0, id |-> 0, msg |-> NoMessage]

IdleCall == [pc |-> "idle", session |-> NoSession, packet |-> Reply("CONNACK")]

(* The call goes on at pc, with the packet id that new_packet_id drew. *)
CallAt(c, pc, id) == [pc |-> pc, session |-> c.session,
                      packet |-> [c.packet EXCEPT !.id = id]]

(* HashMap::insert and HashMap::remove on a map whose keys are packet ids. *)
Insert(map, entry) == {e \in map : e.id # entry.id} \cup {entry}
Without(map, id) == {e \in map : e.id # id}

------------------------------------------------------------------------------
(* Session::new *)
New(s) ==
    /\ rx[s] = "none"
    /\ rx' = [rx EXCEPT ![s] = "open"]
    /\ UNCHANGED <<next_packet_id, sender, out, pending_qos1, pending_qos2,
                   call, unacked, issued>>

(* Session::enqueue_publish, called by task t: an atomic fetch_add, for    *)
(* id 0 a store that restarts the counter, the mutex, the send and, once   *)
(* the mutex is free again, the insertion into the map of pending packets. *)
EnqueuePublish(t, s, m, q) ==
    /\ call[t].pc = "idle" /\ rx[s] # "none"
    /\ call' = [call EXCEPT ![t] = [pc |-> "fetch", session |-> s,
                                    packet |-> Publish(m, q, 0)]]
    /\ UNCHANGED <<rx, next_packet_id, sender, out, pending_qos1, pending_qos2,
                   unacked, issued>>

(* Mutant: a counter wider than the u16. *)
FetchWideId(t) ==
    LET s == call[t].session
        id == next_packet_id[s]
    IN /\ call[t].pc = "fetch"
       /\ issued' = [issued EXCEPT ![s] = @ + 1]
       /\ next_packet_id' = [next_packet_id EXCEPT ![s] = @ + 1]
       /\ call' = [call EXCEPT ![t] =
                      CallAt(@, IF id = 0 THEN "reset" ELSE "lock", id)]
       /\ UNCHANGED <<rx, sender, out, pending_qos1, pending_qos2, unacked>>

(* Mutant: the id is read, and the counter not advanced. *)
FetchWithoutAdvance(t) ==
    LET s == call[t].session
        id == next_packet_id[s]
    IN /\ call[t].pc = "fetch"
       /\ issued' = [issued EXCEPT ![s] = @ + 1]
       /\ call' = [call EXCEPT ![t] =
                      CallAt(@, IF id = 0 THEN "reset" ELSE "lock", id)]
       /\ UNCHANGED <<rx, next_packet_id, sender, out, pending_qos1, pending_qos2,
                      unacked>>

FetchPacketId(t) ==
    LET s == call[t].session
        id == next_packet_id[s]
    IN /\ call[t].pc = "fetch"
       /\ issued' = [issued EXCEPT ![s] = @ + 1]
       /\ next_packet_id' = [next_packet_id EXCEPT ![s] = (@ + 1) % IdModulus]
       /\ call' = [call EXCEPT ![t] =
                      CallAt(@, IF id = 0 THEN "reset" ELSE "lock", id)]
       /\ UNCHANGED <<rx, sender, out, pending_qos1, pending_qos2, unacked>>

ResetPacketId(t) ==
    /\ call[t].pc = "reset"
    /\ next_packet_id' = [next_packet_id EXCEPT ![call[t].session] = 1]
    /\ call' = [call EXCEPT ![t] = CallAt(@, "lock", 1)]
    /\ UNCHANGED <<rx, sender, out, pending_qos1, pending_qos2, unacked, issued>>

LockSender(t) ==
    /\ call[t].pc = "lock" /\ sender[call[t].session] = NoTask
    /\ sender' = [sender EXCEPT ![call[t].session] = t]
    /\ call' = [call EXCEPT ![t].pc = "send"]
    /\ UNCHANGED <<rx, next_packet_id, out, pending_qos1, pending_qos2,
                   unacked, issued>>

(* Mutant: the failed send returns with the mutex still held. *)
SendLeakingTheLock(t) ==
    LET s == call[t].session
    IN /\ call[t].pc = "send"
       /\ IF rx[s] = "open"
          THEN /\ out' = [out EXCEPT ![s] = Append(@, call[t].packet)]
               /\ call' = [call EXCEPT ![t].pc = "insert"]
               /\ sender' = [sender EXCEPT ![s] = NoTask]
          ELSE /\ call' = [call EXCEPT ![t] = IdleCall]
               /\ UNCHANGED <<out, sender>>
       /\ UNCHANGED <<rx, next_packet_id, pending_qos1, pending_qos2, unacked,
                      issued>>

(* A send fails once the receiver is dropped, and the call returns. *)
SendPublish(t) ==
    LET s == call[t].session
    IN /\ call[t].pc = "send"
       /\ sender' = [sender EXCEPT ![s] = NoTask]
       /\ IF rx[s] = "open"
          THEN /\ out' = [out EXCEPT ![s] = Append(@, call[t].packet)]
               /\ call' = [call EXCEPT ![t].pc = "insert"]
          ELSE /\ call' = [call EXCEPT ![t] = IdleCall]
               /\ UNCHANGED out
       /\ UNCHANGED <<rx, next_packet_id, pending_qos1, pending_qos2, unacked,
                      issued>>

(* Mutant: the arms of the match on the level are swapped. *)
InsertSwapped(t) ==
    LET s == call[t].session
        p == call[t].packet
    IN /\ call[t].pc = "insert"
       /\ IF p.qos = 2
          THEN /\ pending_qos1' = [pending_qos1 EXCEPT ![s] = Insert(@, p)]
               /\ UNCHANGED pending_qos2
          ELSE /\ pending_qos2' = [pending_qos2 EXCEPT ![s] =
                     Insert(@, [id |-> p.id, msg |-> p.msg,
                                state |-> "WaitingPubrec"])]
               /\ UNCHANGED pending_qos1
       /\ call' = [call EXCEPT ![t] = IdleCall]
       /\ UNCHANGED <<rx, next_packet_id, sender, out, unacked, issued>>

InsertPending(t) ==
    LET s == call[t].session
        p == call[t].packet
    IN /\ call[t].pc = "insert"
       /\ IF p.qos = 1
          THEN /\ pending_qos1' = [pending_qos1 EXCEPT ![s] = Insert(@, p)]
               /\ UNCHANGED pending_qos2
          ELSE /\ pending_qos2' = [pending_qos2 EXCEPT ![s] =
                     Insert(@, [id |-> p.id, msg |-> p.msg,
                                state |-> "WaitingPubrec"])]
               /\ UNCHANGED pending_qos1
       /\ call' = [call EXCEPT ![t] = IdleCall]
       /\ UNCHANGED <<rx, next_packet_id, sender, out, unacked, issued>>

------------------------------------------------------------------------------
(* Session::sender followed by a send.  try_lock fails while a task holds  *)
(* the mutex; the packet then goes to a fresh channel that nobody reads.   *)
SendReply(s, kind) ==
    /\ out' = IF sender[s] = NoTask /\ rx[s] = "open"
              THEN [out EXCEPT ![s] = Append(@, Reply(kind))]
              ELSE out
    /\ UNCHANGED <<rx, next_packet_id, sender, pending_qos1, pending_qos2, call,
                   unacked, issued>>

(* A QoS 0 publish goes through the clone of the sender that the           *)
(* subscription holds, and takes no lock.                                  *)
SendQoS0(s, m) ==
    /\ rx[s] = "open"
    /\ out' = [out EXCEPT ![s] = Append(@, Publish(m, 0, 0))]
    /\ UNCHANGED <<rx, next_packet_id, sender, pending_qos1, pending_qos2, call,
                   unacked, issued>>

(* Mutant: the PUBACK acknowledges every id up to its own. *)
HandleCumulativePuback(s, p) ==
    /\ p \in unacked[s]
    /\ unacked' = [unacked EXCEPT ![s] = @ \ {p}]
    /\ pending_qos1' = [pending_qos1 EXCEPT ![s] = {e \in @ : e.id > p.id}]
    /\ UNCHANGED <<rx, next_packet_id, sender, out, pending_qos2, call, issued>>

(* The client sends one PUBACK for each QoS 1 publish it receives.         *)
HandlePuback(s, p) ==
    /\ p \in unacked[s]
    /\ unacked' = [unacked EXCEPT ![s] = @ \ {p}]
    /\ pending_qos1' = [pending_qos1 EXCEPT ![s] = Without(@, p.id)]
    /\ UNCHANGED <<rx, next_packet_id, sender, out, pending_qos2, call, issued>>

HandlePubrec(s, id) ==
    /\ pending_qos2' = [pending_qos2 EXCEPT ![s] =
           {IF e.id = id THEN [e EXCEPT !.state = "WaitingPubcomp"] ELSE e : e \in @}]
    /\ UNCHANGED <<rx, next_packet_id, sender, out, pending_qos1, call, unacked,
                   issued>>

HandlePubcomp(s, id) ==
    /\ pending_qos2' = [pending_qos2 EXCEPT ![s] = Without(@, id)]
    /\ UNCHANGED <<rx, next_packet_id, sender, out, pending_qos1, call, unacked,
                   issued>>

(* recv_from_session: the connection takes a packet off the channel and    *)
(* writes it to the client.                                                *)
Forward(s) ==
    /\ rx[s] = "open" /\ out[s] # <<>>
    /\ out' = [out EXCEPT ![s] = Tail(@)]
    /\ unacked' = [unacked EXCEPT ![s] =
                      IF Head(out[s]).qos = 1 THEN @ \cup {Head(out[s])} ELSE @]
    /\ UNCHANGED <<rx, next_packet_id, sender, pending_qos1, pending_qos2, call,
                   issued>>

(* The connection ends or starts another session: the channel's content is *)
(* discarded and the client is gone.                                       *)
DropReceiver(s) ==
    /\ rx[s] = "open"
    /\ rx' = [rx EXCEPT ![s] = "dropped"]
    /\ out' = [out EXCEPT ![s] = <<>>]
    /\ unacked' = [unacked EXCEPT ![s] = {}]
    /\ UNCHANGED <<next_packet_id, sender, pending_qos1, pending_qos2, call, issued>>

------------------------------------------------------------------------------
SessionInit ==
    /\ rx = [s \in Sessions |-> "none"]
    /\ next_packet_id = [s \in Sessions |-> 1]
    /\ sender = [s \in Sessions |-> NoTask]
    /\ out = [s \in Sessions |-> <<>>]
    /\ pending_qos1 = [s \in Sessions |-> {}]
    /\ pending_qos2 = [s \in Sessions |-> {}]
    /\ call = [t \in Tasks |-> IdleCall]
    /\ unacked = [s \in Sessions |-> {}]
    /\ issued = [s \in Sessions |-> 0]

(* The steps of task t inside enqueue_publish. *)
Enqueueing(t) ==
    \/ FetchPacketId(t)
    \/ ResetPacketId(t)
    \/ LockSender(t)
    \/ SendPublish(t)
    \/ InsertPending(t)

(* What the tasks that share session s may start. *)
Calling(s) ==
    \/ New(s)
    \/ \E t \in Tasks, m \in Messages, q \in EnqueueQoS : EnqueuePublish(t, s, m, q)
    \/ \E kind \in ReplyKinds : SendReply(s, kind)
    \/ \E m \in Messages : SendQoS0(s, m)
    \/ \E p \in unacked[s] : HandlePuback(s, p)
    \/ \E id \in Ids : HandlePubrec(s, id)
    \/ \E id \in Ids : HandlePubcomp(s, id)
    \/ Forward(s)
    \/ DropReceiver(s)

SessionNext ==
    \/ \E s \in Sessions : Calling(s)
    \/ \E t \in Tasks : Enqueueing(t)

SessionSpec == SessionInit /\ [][SessionNext]_sessionVars

(* The runtime keeps polling a task that can run, and tokio's Mutex queues *)
(* its waiters first come, first served: a task that waits for the sender  *)
(* gets it although others take it again and again.                        *)
SessionFairness ==
    \A t \in Tasks : WF_sessionVars(Enqueueing(t)) /\ SF_sessionVars(LockSender(t))

------------------------------------------------------------------------------
Calls == [pc : {"idle", "fetch", "reset", "lock", "send", "insert"},
          session : Sessions \cup {NoSession}, packet : Packets]
PendingQoS2 == [id : Ids, msg : Messages \cup {NoMessage},
                state : {"WaitingPubrec", "WaitingPubcomp"}]

(* Every variable keeps its type; in particular the counter stays within   *)
(* 16 bits, and only a task that is inside enqueue_publish has a session.  *)
SessionTypeOK ==
    /\ rx \in [Sessions -> {"none", "open", "dropped"}]
    /\ next_packet_id \in [Sessions -> Ids]
    /\ sender \in [Sessions -> Tasks \cup {NoTask}]
    /\ out \in [Sessions -> Seq(Packets)]
    /\ pending_qos1 \in [Sessions -> SUBSET Packets]
    /\ pending_qos2 \in [Sessions -> SUBSET PendingQoS2]
    /\ call \in [Tasks -> Calls]
    /\ unacked \in [Sessions -> SUBSET Packets]
    /\ issued \in [Sessions -> Nat]
    /\ \A t \in Tasks : call[t].pc # "idle" => call[t].session \in Sessions

(* The calls that hold a packet id and have not sent the packet yet, and   *)
(* the places of the channel that hold a publish with a packet id.         *)
Unsent(s) == {t \in Tasks : call[t].session = s /\ call[t].pc \in {"lock", "send"}}
Queued(s) == {i \in DOMAIN out[s] : out[s][i].qos > 0}

IdsDiffer(s) ==
    /\ \A t, u \in Unsent(s) : call[t].packet.id = call[u].packet.id => t = u
    /\ \A i, j \in Queued(s) : out[s][i].id = out[s][j].id => i = j
    /\ \A p, q \in unacked[s] : p.id = q.id => p = q
    /\ \A t \in Unsent(s), i \in Queued(s) : call[t].packet.id # out[s][i].id
    /\ \A t \in Unsent(s), p \in unacked[s] : call[t].packet.id # p.id
    /\ \A i \in Queued(s), p \in unacked[s] : out[s][i].id # p.id

(* Until the counter wraps no packet id is in flight twice on a session:   *)
(* not in two calls of enqueue_publish, not in the channel, not in what    *)
(* the client has yet to acknowledge, nor between any two of the three.    *)
UniqueIds == \A s \in Sessions : issued[s] < IdModulus => IdsDiffer(s)

(* The call that sent p on session s is about to put it into the map. *)
AboutToInsert(s, p) ==
    \E t \in Tasks : /\ call[t].pc = "insert"
                     /\ call[t].session = s
                     /\ call[t].packet = p

Recorded(s, p) == p.qos = 1 => p \in pending_qos1[s] \/ AboutToInsert(s, p)

(* At least once: until the counter wraps, a QoS 1 publish that is in the  *)
(* channel, or that the client has and did not acknowledge, is in          *)
(* pending_qos1, or the call that sent it is about to put it there.  A     *)
(* retransmission could rely on the map: no PUBACK for another message     *)
(* took the entry away, and no insertion under the same id replaced it.    *)
UnackedIsPending ==
    \A s \in Sessions : issued[s] < IdModulus =>
        /\ \A i \in Queued(s) : Recorded(s, out[s][i])
        /\ \A p \in unacked[s] : Recorded(s, p)

(* Until the counter wraps, an entry leaves pending_qos1 only in the step  *)
(* that handles the client's PUBACK for that very message.                 *)
AckRetiresItsOwn ==
    [][\A s \in Sessions : issued'[s] < IdModulus =>
           \A e \in pending_qos1[s] \ pending_qos1'[s] :
               e \in unacked[s] \ unacked'[s]]_sessionVars

(* A call of enqueue_publish returns, whatever the other callers do and    *)
(* although the connection may drop the receiver in the middle of it.      *)
EveryEnqueueReturns == \A t \in Tasks : call[t].pc # "idle" ~> call[t].pc = "idle"

------------------------------------------------------------------------------
(* "pending_qos1: Mensajes QoS 1 esperando PUBACK" (ARCHITECTURE.md:106):  *)
(* an entry of the map waits for a PUBACK as long as the connection lives. *)
(* It does not: the packet is in the channel before the entry is in the    *)
(* map, and the PUBACK can be handled in between.                          *)
PendingAwaitsPuback ==
    \A s \in Sessions : rx[s] = "open" =>
        pending_qos1[s] \subseteq unacked[s] \cup {out[s][i] : i \in Queued(s)}

(* "Packet ID: AtomicU16, Incremento atomico sin locks" (ARCHITECTURE.md:  *)
(* 202): each draw increments the counter, so two publishes that follow    *)
(* one another in the channel carry different packet ids.  When the        *)
(* counter wraps, the restart hands out id 1 and leaves 1 as the next id.  *)
NeighboursDiffer ==
    \A s \in Sessions : \A i, j \in Queued(s) :
        j = i + 1 => out[s][i].id # out[s][j].id
==============================================================================
