---------------------------- MODULE SessionProofs ----------------------------
(* Proofs about Session, for every number of sessions, tasks and messages, *)
(* and for every size of the packet-id counter.                            *)
EXTENDS Session, TLAPS

LEMMA PacketTypes ==
    /\ \A kind \in ReplyKinds : Reply(kind) \in Packets
    /\ \A m \in Messages, q \in 0 .. 2, id \in Ids : Publish(m, q, id) \in Packets
    /\ IdleCall \in Calls
PROOF BY SessionAssumption DEF Packets, Reply, Publish, ReplyKinds, Ids, IdleCall, Calls

(* The steps of a task inside enqueue_publish keep the types. *)
LEMMA EnqueueingTypes ==
    ASSUME SessionTypeOK, NEW t \in Tasks, Enqueueing(t)
    PROVE  SessionTypeOK'
PROOF
<1> DEFINE s == call[t].session
<1>c. call \in [Tasks -> Calls] /\ call[t] \in Calls
  BY DEF SessionTypeOK
<1>p. call[t].packet \in Packets
  BY <1>c DEF Calls
<1>s. ASSUME call[t].pc # "idle"
      PROVE  s \in Sessions
  BY <1>s DEF SessionTypeOK
<1>at. ASSUME NEW pc \in {"lock", "reset"}, NEW id \in Ids, s \in Sessions
       PROVE  CallAt(call[t], pc, id) \in Calls
  BY <1>at, <1>p DEF CallAt, Calls, Packets
<1>1. CASE FetchPacketId(t)
  <2> DEFINE id == next_packet_id[s]
             pc == IF id = 0 THEN "reset" ELSE "lock"
  <2>1. s \in Sessions
    BY <1>1, <1>s DEF FetchPacketId
  <2>2. id \in Ids /\ (id + 1) % IdModulus \in Ids
    BY <2>1, SessionAssumption DEF SessionTypeOK, Ids
  <2>3. CallAt(call[t], pc, id) \in Calls
    BY <2>1, <2>2, <1>at
  <2>4. call' = [call EXCEPT ![t] = CallAt(call[t], pc, id)]
    BY <1>1 DEF FetchPacketId
  <2>5. call' \in [Tasks -> Calls]
    BY <2>3, <2>4, <1>c
  <2>6. \A u \in Tasks : call'[u].pc # "idle" => call'[u].session \in Sessions
    BY <2>1, <2>4, <1>c DEF SessionTypeOK, CallAt
  <2> HIDE DEF id, pc
  <2> QED BY <1>1, <2>1, <2>2, <2>5, <2>6 DEF FetchPacketId, SessionTypeOK, id
<1>2. CASE ResetPacketId(t)
  <2>1. s \in Sessions
    BY <1>2, <1>s DEF ResetPacketId
  <2>2. 1 \in Ids
    BY SessionAssumption DEF Ids
  <2>3. call' \in [Tasks -> Calls]
    BY <1>2, <2>1, <2>2, <1>at, <1>c DEF ResetPacketId
  <2>4. \A u \in Tasks : call'[u].pc # "idle" => call'[u].session \in Sessions
    BY <1>2, <2>1, <1>c DEF ResetPacketId, SessionTypeOK, CallAt
  <2> QED BY <1>2, <2>1, <2>2, <2>3, <2>4 DEF ResetPacketId, SessionTypeOK
<1>3. CASE LockSender(t)
  BY <1>3 DEF LockSender, Calls, SessionTypeOK
<1>4. CASE SendPublish(t)
  <2>1. s \in Sessions
    BY <1>4, <1>s DEF SendPublish
  <2>2. [call[t] EXCEPT !.pc = "insert"] \in Calls /\ IdleCall \in Calls
    BY <1>c, PacketTypes DEF Calls
  <2>3. call' \in [Tasks -> Calls]
    <3>1. CASE rx[s] = "open"
      BY <1>4, <2>2, <1>c, <3>1 DEF SendPublish
    <3>2. CASE rx[s] # "open"
      BY <1>4, <2>2, <1>c, <3>2 DEF SendPublish
    <3> QED BY <3>1, <3>2
  <2>4. \A u \in Tasks : call'[u].pc # "idle" => call'[u].session \in Sessions
    <3>1. \A u \in Tasks : u # t => call'[u] = call[u]
      BY <1>4, <1>c DEF SendPublish
    <3>2. call'[t].session = s \/ call'[t].pc = "idle"
      BY <1>4, <1>c DEF SendPublish, Calls, IdleCall
    <3> QED BY <2>1, <3>1, <3>2 DEF SessionTypeOK
  <2>5. Append(out[s], call[t].packet) \in Seq(Packets)
    BY <1>p, <2>1 DEF SessionTypeOK
  <2>6. out' \in [Sessions -> Seq(Packets)]
    BY <1>4, <2>5 DEF SendPublish, SessionTypeOK
  <2> QED BY <1>4, <2>3, <2>4, <2>6 DEF SendPublish, SessionTypeOK
<1>5. CASE InsertPending(t)
  <2> DEFINE p == call[t].packet
             e == [id |-> p.id, msg |-> p.msg, state |-> "WaitingPubrec"]
  <2>1. s \in Sessions
    BY <1>5, <1>s DEF InsertPending
  <2>2. call' \in [Tasks -> Calls]
    BY <1>5, <1>c, PacketTypes DEF InsertPending
  <2>3. \A u \in Tasks : call'[u].pc # "idle" => call'[u].session \in Sessions
    BY <1>5, <1>c DEF InsertPending, SessionTypeOK, IdleCall
  <2>4. e \in PendingQoS2
    BY <1>p DEF Packets, PendingQoS2
  <2>5. Insert(pending_qos1[s], p) \subseteq Packets
    BY <2>1, <1>p DEF Insert, SessionTypeOK
  <2>6. Insert(pending_qos2[s], e) \subseteq PendingQoS2
    BY <2>1, <2>4 DEF Insert, SessionTypeOK
  <2> HIDE DEF e
  <2>7. pending_qos1' \in [Sessions -> SUBSET Packets]
    BY <1>5, <2>5 DEF InsertPending, SessionTypeOK
  <2>8. pending_qos2' \in [Sessions -> SUBSET PendingQoS2]
    BY <1>5, <2>6 DEF InsertPending, SessionTypeOK, e
  <2> QED BY <1>5, <2>2, <2>3, <2>7, <2>8 DEF InsertPending, SessionTypeOK
<1> QED BY <1>1, <1>2, <1>3, <1>4, <1>5 DEF Enqueueing

LEMMA CallingTypes ==
    ASSUME SessionTypeOK, NEW s \in Sessions, Calling(s)
    PROVE  SessionTypeOK'
PROOF
<1> USE SessionAssumption, PacketTypes DEF SessionTypeOK
<1>1. CASE New(s)
  BY <1>1 DEF New
<1>2. ASSUME NEW t \in Tasks, NEW m \in Messages, NEW q \in EnqueueQoS,
             EnqueuePublish(t, s, m, q)
      PROVE  SessionTypeOK'
  BY <1>2 DEF EnqueuePublish, Calls, Ids
<1>3. ASSUME NEW kind \in ReplyKinds, SendReply(s, kind)
      PROVE  SessionTypeOK'
  BY <1>3 DEF SendReply
<1>4. ASSUME NEW m \in Messages, SendQoS0(s, m)
      PROVE  SessionTypeOK'
  BY <1>4 DEF SendQoS0, Ids
<1>5. ASSUME NEW p \in unacked[s], HandlePuback(s, p)
      PROVE  SessionTypeOK'
  BY <1>5 DEF HandlePuback, Without
<1>6. ASSUME NEW id \in Ids, HandlePubrec(s, id)
      PROVE  SessionTypeOK'
  <2>1. ASSUME NEW e \in pending_qos2[s]
        PROVE  (IF e.id = id THEN [e EXCEPT !.state = "WaitingPubcomp"] ELSE e)
                   \in PendingQoS2
    <3>1. e \in PendingQoS2
      OBVIOUS
    <3>2. [e EXCEPT !.state = "WaitingPubcomp"] \in PendingQoS2
      BY ONLY <3>1 DEF PendingQoS2
    <3> QED BY <3>1, <3>2
  <2>2. pending_qos2' \in [Sessions -> SUBSET PendingQoS2]
    BY <1>6, <2>1 DEF HandlePubrec
  <2> QED BY <1>6, <2>2 DEF HandlePubrec
<1>7. ASSUME NEW id \in Ids, HandlePubcomp(s, id)
      PROVE  SessionTypeOK'
  BY <1>7 DEF HandlePubcomp, Without
<1>8. CASE Forward(s)
  BY <1>8 DEF Forward
<1>9. CASE DropReceiver(s)
  BY <1>9 DEF DropReceiver
<1> QED BY <1>1, <1>2, <1>3, <1>4, <1>5, <1>6, <1>7, <1>8, <1>9 DEF Calling

LEMMA SessionTypeInit == SessionInit => SessionTypeOK
PROOF BY SessionAssumption, PacketTypes DEF SessionInit, SessionTypeOK, Ids, IdleCall

LEMMA SessionTypeStep == SessionTypeOK /\ [SessionNext]_sessionVars => SessionTypeOK'
PROOF
<1>1. SessionTypeOK /\ UNCHANGED sessionVars => SessionTypeOK'
  BY DEF SessionTypeOK, sessionVars
<1> QED BY <1>1, EnqueueingTypes, CallingTypes DEF SessionNext

(* The variables keep their types. *)
THEOREM SessionTypeCorrect == SessionSpec => []SessionTypeOK
PROOF BY SessionTypeInit, SessionTypeStep, PTL DEF SessionSpec

------------------------------------------------------------------------------
(* The tasks that hold a packet id of session s. *)
Held(s) == {t \in Tasks : /\ call[t].session = s
                          /\ call[t].pc \in {"lock", "send", "insert"}}

(* What the session and its client know of: the entries of pending_qos1,   *)
(* the publishes in the channel and those the client has to acknowledge.   *)
Known(s) == pending_qos1[s] \cup unacked[s] \cup {out[s][i] : i \in Queued(s)}

(* Before the wrap the counter is one ahead of the draws, and every id in  *)
(* use was drawn. *)
CounterAhead(s) ==
    /\ next_packet_id[s] = IF issued[s] = IdModulus - 1 THEN 0 ELSE issued[s] + 1
    /\ \A t \in Tasks : call[t].session = s => call[t].pc # "reset"
    /\ \A t \in Held(s) : call[t].packet.id \in 1 .. issued[s]
    /\ \A p \in Known(s) : p.id \in 1 .. issued[s]

(* One id, one call and one packet. *)
OnePacketPerId(s) ==
    /\ \A t, u \in Held(s) : call[t].packet.id = call[u].packet.id => t = u
    /\ \A t \in Unsent(s), p \in Known(s) : call[t].packet.id # p.id
    /\ \A t \in Held(s), p \in Known(s) :
           call[t].packet.id = p.id => call[t].packet = p
    /\ \A p, q \in Known(s) : p.id = q.id => p = q

(* One id, one place: of the channel, or with the client. *)
OnePlacePerId(s) ==
    /\ \A i, j \in Queued(s) : out[s][i].id = out[s][j].id => i = j
    /\ \A i \in Queued(s), p \in unacked[s] : out[s][i].id # p.id

AllRecorded(s) ==
    /\ \A i \in Queued(s) : Recorded(s, out[s][i])
    /\ \A p \in unacked[s] : Recorded(s, p)

Ledger(s) == CounterAhead(s) /\ OnePacketPerId(s) /\ OnePlacePerId(s) /\ AllRecorded(s)

LedgerInv ==
    /\ SessionTypeOK
    /\ \A s \in Sessions : issued[s] < IdModulus => Ledger(s)

LEMMA LedgerImplies == LedgerInv => UniqueIds /\ UnackedIsPending
PROOF
<1>1. ASSUME NEW s \in Sessions, Ledger(s)
      PROVE  IdsDiffer(s)
  BY <1>1 DEF Ledger, OnePacketPerId, OnePlacePerId, IdsDiffer, Known, Held, Unsent, Queued
<1> QED BY <1>1 DEF LedgerInv, UniqueIds, UnackedIsPending, Ledger, AllRecorded

(* What each conjunct of Ledger(s) reads, for the steps that change none   *)
(* of it: the calls of s that hold an id, its counter and its packets.     *)
LEMMA LedgerFrame ==
    ASSUME NEW s \in Sessions, Ledger(s),
           next_packet_id'[s] = next_packet_id[s], issued'[s] = issued[s],
           out'[s] = out[s], unacked'[s] = unacked[s],
           pending_qos1'[s] = pending_qos1[s],
           \A t \in Tasks :
               \/ call'[t] = call[t]
               \/ /\ call[t].session # s \/ call[t].pc \in {"idle", "fetch"}
                  /\ call'[t].session # s \/ call'[t].pc \in {"idle", "fetch"}
    PROVE  Ledger(s)'
PROOF
<1>1. /\ Held(s)' = Held(s) /\ Unsent(s)' = Unsent(s)
      /\ \A t \in Held(s) : call'[t] = call[t]
  BY DEF Held, Unsent
<1>2. Queued(s)' = Queued(s) /\ Known(s)' = Known(s)
  BY DEF Queued, Known
<1>3. CounterAhead(s)'
  BY <1>1, <1>2 DEF Ledger, CounterAhead
<1>4. OnePacketPerId(s)'
  BY <1>1, <1>2 DEF Ledger, OnePacketPerId, Held, Unsent
<1>7. OnePlacePerId(s)'
  BY <1>2 DEF Ledger, OnePlacePerId
<1>5. ASSUME NEW p, AboutToInsert(s, p)
      PROVE  AboutToInsert(s, p)'
  BY <1>1, <1>5 DEF AboutToInsert, Held
<1>6. AllRecorded(s)'
  BY <1>2, <1>5 DEF Ledger, AllRecorded, Recorded
<1> QED BY <1>3, <1>4, <1>6, <1>7 DEF Ledger

(* A packet without an id in the channel is nobody's business. *)
LEMMA LedgerAppend ==
    ASSUME SessionTypeOK, NEW s \in Sessions, Ledger(s),
           NEW p \in Packets, p.qos = 0,
           next_packet_id'[s] = next_packet_id[s], issued'[s] = issued[s],
           out'[s] = Append(out[s], p), unacked'[s] = unacked[s],
           pending_qos1'[s] = pending_qos1[s], call' = call
    PROVE  Ledger(s)'
PROOF
<1>1. Held(s)' = Held(s) /\ Unsent(s)' = Unsent(s)
  BY DEF Held, Unsent
<1>2. out[s] \in Seq(Packets)
  BY DEF SessionTypeOK
<1>3. Queued(s)' = Queued(s) /\ \A i \in Queued(s) : out'[s][i] = out[s][i]
  BY <1>2 DEF Queued
<1>4. Known(s)' = Known(s)
  BY <1>3 DEF Known
<1>5. CounterAhead(s)'
  BY <1>1, <1>4 DEF Ledger, CounterAhead
<1>6. OnePacketPerId(s)'
  BY <1>1, <1>4 DEF Ledger, OnePacketPerId
<1>8. OnePlacePerId(s)'
  BY ONLY <1>3, Ledger(s), unacked'[s] = unacked[s] DEF Ledger, OnePlacePerId
<1>7. AllRecorded(s)'
  BY <1>3 DEF Ledger, AllRecorded, Recorded, AboutToInsert
<1> QED BY <1>5, <1>6, <1>7, <1>8 DEF Ledger

(* new_packet_id: the id drawn is one above every id in use. *)
LEMMA LedgerFetch ==
    ASSUME LedgerInv, NEW t \in Tasks, FetchPacketId(t),
           NEW s \in Sessions, issued'[s] < IdModulus
    PROVE  Ledger(s)'
PROOF
<1> DEFINE r == call[t].session
           id == next_packet_id[r]
<1>c. call \in [Tasks -> Calls] /\ r \in Sessions /\ issued[s] \in Nat /\ IdModulus \in Nat
  BY SessionAssumption DEF LedgerInv, SessionTypeOK, FetchPacketId
<1>1. CASE s # r
  <2>1. \A u \in Tasks : u # t => call'[u] = call[u]
    BY <1>c DEF FetchPacketId
  <2>2. call'[t].session # s
    BY <1>1, <1>c DEF FetchPacketId, CallAt
  <2>3. issued'[s] = issued[s] /\ next_packet_id'[s] = next_packet_id[s]
    BY <1>1, <1>c DEF FetchPacketId, LedgerInv, SessionTypeOK
  <2>4. Ledger(s)
    BY <2>3 DEF LedgerInv
  <2> QED BY <1>1, <2>1, <2>2, <2>3, <2>4, LedgerFrame DEF FetchPacketId
<1>2. CASE s = r
  <2>1. issued'[s] = issued[s] + 1 /\ issued[s] < IdModulus - 1
    BY <1>2, <1>c DEF FetchPacketId, LedgerInv, SessionTypeOK
  <2>2. Ledger(s)
    BY <2>1, <1>c DEF LedgerInv
  <2>3. id = issued[s] + 1
    BY <1>2, <2>1, <2>2, <1>c DEF Ledger, CounterAhead
  <2>4. call' = [call EXCEPT ![t] = CallAt(call[t], "lock", id)]
    <3>1. id # 0
      BY ONLY <2>3, <1>c
    <3>2. call' = [call EXCEPT ![t] =
                      CallAt(call[t], IF id = 0 THEN "reset" ELSE "lock", id)]
      BY DEF FetchPacketId
    <3> HIDE DEF id
    <3> QED BY ONLY <3>1, <3>2
  <2>5. /\ call'[t].session = s /\ call'[t].pc = "lock" /\ call'[t].packet.id = id
        /\ \A u \in Tasks : u # t => call'[u] = call[u]
    <3>1. call[t].packet \in Packets
      BY <1>c DEF Calls
    <3> QED BY ONLY <3>1, <2>4, <1>c, <1>2 DEF CallAt, Packets
  <2>6. t \notin Held(s) /\ t \notin Unsent(s)
    BY DEF FetchPacketId, Held, Unsent
  <2>7. Held(s)' = Held(s) \cup {t} /\ Unsent(s)' = Unsent(s) \cup {t}
    BY <2>5, <2>6 DEF Held, Unsent
  <2>8. Known(s)' = Known(s) /\ Queued(s)' = Queued(s)
    BY DEF FetchPacketId, Known, Queued
  <2>9. CounterAhead(s)'
    <3>1. next_packet_id'[s] = (id + 1) % IdModulus
      BY <1>2, <1>c DEF FetchPacketId, LedgerInv, SessionTypeOK
    <3>2. (id + 1) % IdModulus = IF issued'[s] = IdModulus - 1 THEN 0 ELSE issued'[s] + 1
      <4>1. CASE id = IdModulus - 1
        BY ONLY <4>1, <2>1, <2>3, <1>c, SessionAssumption
      <4>2. CASE id # IdModulus - 1
        <5>1. id + 1 \in 0 .. IdModulus - 1 /\ IdModulus > 0
          BY <4>2, <2>1, <2>3, <1>c, SessionAssumption
        <5>2. (id + 1) % IdModulus = id + 1
          BY ONLY <5>1, <1>c
        <5> QED BY <4>2, <5>2, <2>1, <2>3, <1>c
      <4> QED BY <4>1, <4>2
    <3>3. \A u \in Tasks : call'[u].session = s => call'[u].pc # "reset"
      BY <2>2, <2>5 DEF Ledger, CounterAhead
    <3>4. \A u \in Held(s)' : call'[u].packet.id \in 1 .. issued'[s]
      <4>1. id \in 1 .. issued'[s]
        BY <2>1, <2>3, <1>c
      <4>2. \A u \in Held(s) : call[u].packet.id \in 1 .. issued'[s]
        BY <2>1, <2>2, <1>c DEF Ledger, CounterAhead
      <4>3. \A u \in Held(s) : call'[u] = call[u]
        BY <2>5, <2>6 DEF Held
      <4> QED BY <2>5, <2>7, <4>1, <4>2, <4>3
    <3>5. \A p \in Known(s)' : p.id \in 1 .. issued'[s]
      BY <2>1, <2>2, <2>8, <1>c DEF Ledger, CounterAhead
    <3> QED BY <3>1, <3>2, <3>3, <3>4, <3>5 DEF CounterAhead
  <2>10. /\ \A u \in Held(s) : call[u].packet.id # id
         /\ \A p \in Known(s) : p.id # id
    BY <2>2, <2>3, <1>c DEF Ledger, CounterAhead
  <2>11. OnePacketPerId(s)'
    <3>1. \A u \in Held(s) : call'[u] = call[u]
      BY <2>5, <2>6 DEF Held
    <3>2. \A u \in Unsent(s) : call'[u] = call[u]
      BY <2>5, <2>6 DEF Unsent
    <3> QED BY ONLY <2>2, <2>5, <2>7, <2>8, <2>10, <3>1, <3>2 DEF Ledger, OnePacketPerId
  <2>12. OnePlacePerId(s)'
    BY <2>2, <2>8 DEF FetchPacketId, Ledger, OnePlacePerId
  <2>13. AllRecorded(s)'
    <3>1. ASSUME NEW p, AboutToInsert(s, p)
          PROVE  AboutToInsert(s, p)'
      BY <2>5, <3>1 DEF AboutToInsert, FetchPacketId
    <3> QED BY <2>2, <2>8, <3>1 DEF FetchPacketId, Ledger, AllRecorded, Recorded
  <2> QED BY <2>9, <2>11, <2>12, <2>13 DEF Ledger
<1> QED BY <1>1, <1>2

(* Nobody is about to restart the counter before it wraps. *)
LEMMA LedgerReset ==
    ASSUME LedgerInv, NEW t \in Tasks, ResetPacketId(t),
           NEW s \in Sessions, issued'[s] < IdModulus
    PROVE  Ledger(s)'
PROOF
<1> DEFINE r == call[t].session
<1>1. Ledger(s)
  BY DEF ResetPacketId, LedgerInv
<1>2. s # r
  BY <1>1 DEF ResetPacketId, Ledger, CounterAhead
<1>3. /\ \A u \in Tasks : u # t => call'[u] = call[u]
      /\ call'[t].session = r
      /\ next_packet_id'[s] = next_packet_id[s]
  BY <1>2 DEF ResetPacketId, LedgerInv, SessionTypeOK, CallAt
<1> QED BY <1>1, <1>2, <1>3, LedgerFrame DEF ResetPacketId

(* Taking the mutex changes who may send, not what is held. *)
LEMMA LedgerLock ==
    ASSUME LedgerInv, NEW t \in Tasks, LockSender(t),
           NEW s \in Sessions, issued'[s] < IdModulus
    PROVE  Ledger(s)'
PROOF
<1>1. Ledger(s)
  BY DEF LockSender, LedgerInv
<1>2. /\ \A u \in Tasks : u # t => call'[u] = call[u]
      /\ call'[t] = [call[t] EXCEPT !.pc = "send"]
      /\ call[t].pc = "lock" /\ call[t] \in Calls
  BY DEF LedgerInv, SessionTypeOK, LockSender
<1>3. \A u \in Tasks : call'[u].session = call[u].session /\ call'[u].packet = call[u].packet
  BY <1>2 DEF Calls
<1>4. \A u \in Tasks : u # t => call'[u].pc = call[u].pc
  BY <1>2
<1>5. call'[t].pc = "send"
  BY <1>2 DEF Calls
<1>6. Held(s)' = Held(s) /\ Unsent(s)' = Unsent(s)
  BY <1>2, <1>3, <1>4, <1>5 DEF Held, Unsent
<1>7. Known(s)' = Known(s) /\ Queued(s)' = Queued(s)
  BY DEF LockSender, Known, Queued
<1>8. CounterAhead(s)'
  BY <1>1, <1>3, <1>4, <1>5, <1>6, <1>7 DEF LockSender, Ledger, CounterAhead, Held
<1>9. OnePacketPerId(s)'
  BY <1>1, <1>3, <1>6, <1>7 DEF Ledger, OnePacketPerId, Held, Unsent
<1>10. OnePlacePerId(s)'
  BY <1>1, <1>7 DEF LockSender, Ledger, OnePlacePerId
<1>11. AllRecorded(s)'
  <2>1. ASSUME NEW p, AboutToInsert(s, p)
        PROVE  AboutToInsert(s, p)'
    BY <1>2, <1>3, <1>4, <2>1 DEF AboutToInsert
  <2> QED BY <1>1, <1>7, <2>1 DEF LockSender, Ledger, AllRecorded, Recorded
<1> QED BY <1>8, <1>9, <1>10, <1>11 DEF Ledger

(* The packet moves from the call to the end of the channel, or is lost    *)
(* with the call when the receiver is gone.                                *)
LEMMA LedgerSend ==
    ASSUME LedgerInv, NEW t \in Tasks, SendPublish(t),
           NEW s \in Sessions, issued'[s] < IdModulus
    PROVE  Ledger(s)'
PROOF
<1> DEFINE r == call[t].session
           p == call[t].packet
           n == Len(out[s])
<1>c. /\ call \in [Tasks -> Calls] /\ r \in Sessions /\ p \in Packets
      /\ call[t] \in Calls /\ call[t].pc = "send" /\ out[s] \in Seq(Packets)
      /\ out \in [Sessions -> Seq(Packets)]
  BY DEF LedgerInv, SessionTypeOK, SendPublish, Calls
<1>o. \A u \in Tasks : u # t => call'[u] = call[u]
  BY <1>c DEF SendPublish
<1>l. Ledger(s)
  BY DEF SendPublish, LedgerInv
<1>1. CASE s # r
  <2>1. out'[s] = out[s]
    BY <1>1, <1>c DEF SendPublish
  <2>2. call'[t].session # s \/ call'[t].pc = "idle"
    BY <1>1, <1>c DEF SendPublish, IdleCall, Calls
  <2> QED BY <1>1, <1>o, <1>l, <2>1, <2>2, LedgerFrame DEF SendPublish
<1>2. CASE s = r /\ rx[r] # "open"
  <2>1. call'[t] = IdleCall /\ out' = out
    BY <1>2, <1>c DEF SendPublish
  <2>2. Held(s)' = Held(s) \ {t} /\ Unsent(s)' = Unsent(s) \ {t}
    BY <1>o, <2>1 DEF Held, Unsent, IdleCall
  <2>3. Known(s)' = Known(s) /\ Queued(s)' = Queued(s)
    BY <2>1 DEF SendPublish, Known, Queued
  <2>4. CounterAhead(s)'
    BY <1>l, <1>o, <2>1, <2>2, <2>3 DEF SendPublish, Ledger, CounterAhead, IdleCall, Held
  <2>5. OnePacketPerId(s)'
    BY <1>l, <1>o, <2>2, <2>3 DEF Ledger, OnePacketPerId, Held, Unsent
  <2>6. OnePlacePerId(s)'
    BY <1>l, <2>1, <2>3 DEF SendPublish, Ledger, OnePlacePerId
  <2>7. AllRecorded(s)'
    <3>1. ASSUME NEW q, AboutToInsert(s, q)
          PROVE  AboutToInsert(s, q)'
      BY <1>c, <1>o, <3>1 DEF AboutToInsert
    <3> QED BY <1>l, <2>1, <2>3, <3>1 DEF SendPublish, Ledger, AllRecorded, Recorded
  <2> QED BY <2>4, <2>5, <2>6, <2>7 DEF Ledger
<1>3. CASE s = r /\ rx[r] = "open"
  <2>1. out'[s] = Append(out[s], p) /\ call'[t] = [call[t] EXCEPT !.pc = "insert"]
    BY <1>3, <1>c DEF SendPublish
  <2>2. call'[t].session = s /\ call'[t].pc = "insert" /\ call'[t].packet = p
    BY <1>3, <1>c, <2>1 DEF Calls
  <2>3. /\ Held(s)' = Held(s) /\ Unsent(s)' = Unsent(s) \ {t}
        /\ t \in Held(s) /\ t \in Unsent(s)
        /\ \A u \in Tasks : call'[u].packet = call[u].packet
    BY <1>3, <1>c, <1>o, <2>2 DEF Held, Unsent
  <2>4. /\ \A i \in DOMAIN out[s] : out'[s][i] = out[s][i]
        /\ DOMAIN out'[s] = DOMAIN out[s] \cup {n + 1} /\ out'[s][n + 1] = p
        /\ n + 1 \notin DOMAIN out[s]
    BY <1>c, <2>1
  <2>5. /\ Queued(s) \subseteq Queued(s)'
        /\ Queued(s)' \subseteq Queued(s) \cup {n + 1} /\ n + 1 \notin Queued(s)
        /\ \A i \in Queued(s) : out'[s][i] = out[s][i]
    BY <2>4 DEF Queued
  <2>6. Known(s)' \subseteq Known(s) \cup {p}
    BY <2>4, <2>5 DEF SendPublish, Known
  <2>7. /\ \A q \in Known(s) : p.id # q.id
        /\ \A u \in Held(s) : u # t => call[u].packet.id # p.id
        /\ p.id \in 1 .. issued[s]
    BY <1>l, <2>3 DEF Ledger, CounterAhead, OnePacketPerId
  <2>8. CounterAhead(s)'
    <3>1. \A u \in Tasks : call'[u].session = s => call'[u].pc # "reset"
      BY <1>l, <1>o, <2>2 DEF Ledger, CounterAhead
    <3> QED BY ONLY <1>l, <2>3, <2>6, <2>7, <3>1, SendPublish(t)
            DEF SendPublish, Ledger, CounterAhead, Held
  <2>9. OnePacketPerId(s)'
    <3>1. Unsent(s)' \subseteq Held(s) /\ Held(s) \subseteq Tasks
      BY <2>3 DEF Held, Unsent
    <3> QED BY ONLY <1>l, <2>3, <2>6, <2>7, <3>1 DEF Ledger, OnePacketPerId
  <2>10. OnePlacePerId(s)'
    <3>1. \A i \in Queued(s) : out[s][i] \in Known(s)
      BY DEF Known
    <3>2. \A q \in unacked[s] : q \in Known(s)
      BY DEF Known
    <3>3. unacked' = unacked
      BY DEF SendPublish
    <3> QED BY ONLY <1>l, <2>4, <2>5, <2>7, <3>1, <3>2, <3>3 DEF Ledger, OnePlacePerId
  <2>11. AllRecorded(s)'
    <3>1. ASSUME NEW q, AboutToInsert(s, q)
          PROVE  AboutToInsert(s, q)'
      BY <1>c, <1>o, <3>1 DEF AboutToInsert
    <3>3. \A q : Recorded(s, q) => Recorded(s, q)'
      BY <3>1 DEF Recorded, SendPublish
    <3>5. unacked' = unacked
      BY DEF SendPublish
    <3>6. ASSUME NEW i \in Queued(s)'
          PROVE  Recorded(s, out[s][i])'
      <4>1. CASE i \in Queued(s)
        BY <1>l, <2>5, <3>3, <4>1 DEF Ledger, AllRecorded, Recorded, AboutToInsert
      <4>2. CASE i = n + 1
        <5>1. out'[s][i] = p
          BY <2>4, <4>2
        <5> QED BY <2>2, <5>1 DEF Recorded, AboutToInsert
      <4> QED BY <2>5, <4>1, <4>2
    <3>7. \A q \in unacked'[s] : Recorded(s, q)'
      BY <1>l, <3>3, <3>5 DEF Ledger, AllRecorded
    <3> QED BY <3>6, <3>7 DEF AllRecorded
  <2> QED BY <2>8, <2>9, <2>10, <2>11 DEF Ledger
<1> QED BY <1>1, <1>2, <1>3

(* The insertion replaces no other entry, since no other packet of the     *)
(* session has the id.                                                     *)
LEMMA LedgerInsert ==
    ASSUME LedgerInv, NEW t \in Tasks, InsertPending(t),
           NEW s \in Sessions, issued'[s] < IdModulus
    PROVE  /\ Ledger(s)'
           /\ pending_qos1[s] \subseteq pending_qos1'[s]
PROOF
<1> DEFINE r == call[t].session
           p == call[t].packet
<1>c. /\ call \in [Tasks -> Calls] /\ r \in Sessions /\ p \in Packets
      /\ call[t] \in Calls /\ call[t].pc = "insert"
      /\ pending_qos1 \in [Sessions -> SUBSET Packets]
  BY DEF LedgerInv, SessionTypeOK, InsertPending, Calls
<1>o. /\ \A u \in Tasks : u # t => call'[u] = call[u]
      /\ call'[t].pc = "idle"
  BY <1>c DEF InsertPending, IdleCall
<1>l. Ledger(s)
  BY DEF InsertPending, LedgerInv
<1>1. CASE s # r
  <2>1. pending_qos1'[s] = pending_qos1[s]
    BY <1>1, <1>c DEF InsertPending
  <2>2. Ledger(s)'
    BY <1>1, <1>o, <1>l, <2>1, LedgerFrame DEF InsertPending
  <2> QED BY <2>1, <2>2
<1>2. CASE s = r
  <2>1. /\ Held(s)' = Held(s) \ {t} /\ Unsent(s)' = Unsent(s) /\ t \in Held(s)
        /\ t \notin Unsent(s)
    BY <1>2, <1>o, <1>c DEF Held, Unsent
  <2>2. Queued(s)' = Queued(s)
    BY DEF InsertPending, Queued
  <2>3. /\ pending_qos1'[s] \subseteq pending_qos1[s] \cup {p}
        /\ p.qos = 1 => p \in pending_qos1'[s]
    BY <1>2, <1>c DEF InsertPending, Insert
  <2>4. pending_qos1[s] \subseteq pending_qos1'[s]
    <3>1. \A q \in pending_qos1[s] : q.id = p.id => q = p
      BY <1>l, <2>1 DEF Ledger, OnePacketPerId, Known
    <3>2. CASE p.qos = 1
      BY <1>2, <1>c, <3>1, <3>2 DEF InsertPending, Insert
    <3>3. CASE p.qos # 1
      BY <1>2, <1>c, <3>3 DEF InsertPending
    <3> QED BY <3>2, <3>3
  <2>5. Known(s)' \subseteq Known(s) \cup {p}
    BY <2>2, <2>3 DEF InsertPending, Known
  <2>6. /\ \A q \in Known(s) : q.id = p.id => q = p
        /\ \A u \in Held(s) : u # t => call[u].packet.id # p.id
        /\ p.id \in 1 .. issued[s]
    BY <1>l, <2>1 DEF Ledger, CounterAhead, OnePacketPerId
  <2>7. CounterAhead(s)'
    <3>1. \A u \in Tasks : call'[u].session = s => call'[u].pc # "reset"
      BY <1>l, <1>o DEF Ledger, CounterAhead
    <3>2. \A u \in Held(s)' : call'[u].packet = call[u].packet
      BY <1>o, <2>1 DEF Held
    <3> QED BY ONLY <1>l, <2>1, <2>5, <2>6, <3>1, <3>2, InsertPending(t)
            DEF InsertPending, Ledger, CounterAhead
  <2>8. OnePacketPerId(s)'
    <3>1. \A u \in Held(s)' : call'[u].packet = call[u].packet
      BY <1>o, <2>1 DEF Held
    <3>2. Unsent(s) \subseteq Held(s)'
      BY <2>1 DEF Held, Unsent
    <3> QED BY ONLY <1>l, <2>1, <2>5, <2>6, <3>1, <3>2 DEF Ledger, OnePacketPerId
  <2>9. OnePlacePerId(s)'
    BY <1>l, <2>2 DEF InsertPending, Ledger, OnePlacePerId
  <2>10. AllRecorded(s)'
    <3>1. ASSUME NEW q, Recorded(s, q)
          PROVE  Recorded(s, q)'
      <4>1. CASE q.qos = 1 /\ AboutToInsert(s, q)
        <5>1. PICK u \in Tasks : call[u].pc = "insert" /\ call[u].session = s /\ call[u].packet = q
          BY <4>1 DEF AboutToInsert
        <5>2. CASE u = t
          BY <2>3, <4>1, <5>1, <5>2 DEF Recorded
        <5>3. CASE u # t
          BY <1>o, <5>1, <5>3 DEF Recorded, AboutToInsert
        <5> QED BY <5>2, <5>3
      <4>2. CASE ~(q.qos = 1 /\ AboutToInsert(s, q))
        BY <2>4, <3>1, <4>2 DEF Recorded
      <4> QED BY <4>1, <4>2
    <3>2. out' = out /\ unacked' = unacked
      BY DEF InsertPending
    <3>3. ASSUME NEW i \in Queued(s)'
          PROVE  Recorded(s, out[s][i])'
      BY <1>l, <2>2, <3>1, <3>2 DEF Ledger, AllRecorded, Recorded, AboutToInsert
    <3>4. \A q \in unacked'[s] : Recorded(s, q)'
      BY <1>l, <3>1, <3>2 DEF Ledger, AllRecorded
    <3> QED BY <3>3, <3>4 DEF AllRecorded
  <2> QED BY <2>4, <2>7, <2>8, <2>9, <2>10 DEF Ledger
<1> QED BY <1>1, <1>2

(* A PUBACK takes its own entry out of the map and no other. *)
LEMMA LedgerPuback ==
    ASSUME LedgerInv, NEW r \in Sessions, NEW p \in unacked[r], HandlePuback(r, p),
           NEW s \in Sessions, issued'[s] < IdModulus
    PROVE  /\ Ledger(s)'
           /\ \A e \in pending_qos1[s] \ pending_qos1'[s] :
                  e \in unacked[s] \ unacked'[s]
PROOF
<1>l. Ledger(s)
  BY DEF HandlePuback, LedgerInv
<1>1. CASE s # r
  <2>1. pending_qos1'[s] = pending_qos1[s] /\ unacked'[s] = unacked[s]
    BY <1>1 DEF HandlePuback, LedgerInv, SessionTypeOK
  <2>2. Ledger(s)'
    BY <1>l, <2>1, LedgerFrame DEF HandlePuback
  <2> QED BY <2>1, <2>2
<1>2. CASE s = r
  <2>1. /\ unacked'[s] = unacked[s] \ {p}
        /\ pending_qos1'[s] = {e \in pending_qos1[s] : e.id # p.id}
        /\ out' = out /\ call' = call /\ issued' = issued
        /\ next_packet_id' = next_packet_id
    BY <1>2 DEF HandlePuback, LedgerInv, SessionTypeOK, Without
  <2>2. Held(s)' = Held(s) /\ Unsent(s)' = Unsent(s) /\ Queued(s)' = Queued(s)
    BY <2>1 DEF Held, Unsent, Queued
  <2>3. Known(s)' \subseteq Known(s)
    BY <2>1, <2>2 DEF Known
  <2>4. /\ \A q \in Known(s) : q.id = p.id => q = p
        /\ \A i \in Queued(s) : out[s][i].id # p.id
    BY <1>l, <1>2 DEF Ledger, OnePacketPerId, OnePlacePerId, Known
  <2>5. CounterAhead(s)'
    BY ONLY <1>l, <2>1, <2>2, <2>3 DEF Ledger, CounterAhead
  <2>6. OnePacketPerId(s)'
    BY ONLY <1>l, <2>1, <2>2, <2>3 DEF Ledger, OnePacketPerId
  <2>7. OnePlacePerId(s)'
    BY ONLY <1>l, <2>1, <2>2 DEF Ledger, OnePlacePerId
  <2>8. AllRecorded(s)'
    <3>1. ASSUME NEW q, Recorded(s, q), q.id # p.id
          PROVE  Recorded(s, q)'
      BY <2>1, <3>1 DEF Recorded, AboutToInsert
    <3>2. ASSUME NEW i \in Queued(s)'
          PROVE  Recorded(s, out[s][i])'
      BY <1>l, <2>1, <2>2, <2>4, <3>1 DEF Ledger, AllRecorded, Recorded, AboutToInsert
    <3>3. \A q \in unacked'[s] : Recorded(s, q)'
      BY <1>l, <2>1, <2>4, <3>1 DEF Ledger, AllRecorded, Known
    <3> QED BY <3>2, <3>3 DEF AllRecorded
  <2>9. \A e \in pending_qos1[s] \ pending_qos1'[s] : e \in unacked[s] \ unacked'[s]
    BY <1>2, <2>1, <2>4 DEF Known
  <2> QED BY <2>5, <2>6, <2>7, <2>8, <2>9 DEF Ledger
<1> QED BY <1>1, <1>2

(* The head of the channel moves to the client. *)
LEMMA LedgerForward ==
    ASSUME LedgerInv, NEW r \in Sessions, Forward(r),
           NEW s \in Sessions, issued'[s] < IdModulus
    PROVE  Ledger(s)'
PROOF
<1>l. Ledger(s)
  BY DEF Forward, LedgerInv
<1>c. out[s] \in Seq(Packets)
  BY DEF LedgerInv, SessionTypeOK
<1>1. CASE s # r
  <2>1. out'[s] = out[s] /\ unacked'[s] = unacked[s]
    BY <1>1 DEF Forward, LedgerInv, SessionTypeOK
  <2> QED BY <1>l, <2>1, LedgerFrame DEF Forward
<1>2. CASE s = r
  <2> DEFINE p == out[s][1]
  <2>1. /\ out'[s] = Tail(out[s]) /\ out[s] # <<>> /\ Head(out[s]) = p
        /\ unacked'[s] = IF p.qos = 1 THEN unacked[s] \cup {p} ELSE unacked[s]
        /\ call' = call /\ issued' = issued /\ pending_qos1' = pending_qos1
        /\ next_packet_id' = next_packet_id
    BY <1>2, <1>c DEF Forward, LedgerInv, SessionTypeOK
  <2>2. /\ 1 \in DOMAIN out[s]
        /\ \A i \in DOMAIN out'[s] : i + 1 \in DOMAIN out[s] /\ out'[s][i] = out[s][i + 1]
        /\ DOMAIN out'[s] \subseteq Nat \ {0}
    BY <1>c, <2>1
  <2>3. /\ \A i \in Queued(s)' : i + 1 \in Queued(s) /\ out'[s][i] = out[s][i + 1]
        /\ Queued(s)' \subseteq Nat \ {0}
    BY <2>2 DEF Queued
  <2>4. p.qos = 1 => 1 \in Queued(s) /\ p \in Known(s)
    BY <2>2 DEF Queued, Known
  <2>5. Held(s)' = Held(s) /\ Unsent(s)' = Unsent(s)
    BY <2>1 DEF Held, Unsent
  <2>6. Known(s)' \subseteq Known(s)
    <3>1. \A i \in Queued(s)' : out'[s][i] \in Known(s)
      BY <2>3 DEF Known
    <3>2. unacked'[s] \subseteq Known(s)
      BY <2>1, <2>4 DEF Known
    <3> QED BY <2>1, <3>1, <3>2 DEF Known
  <2>7. CounterAhead(s)'
    BY ONLY <1>l, <2>1, <2>5, <2>6 DEF Ledger, CounterAhead
  <2>8. OnePacketPerId(s)'
    BY ONLY <1>l, <2>1, <2>5, <2>6 DEF Ledger, OnePacketPerId
  <2>9. OnePlacePerId(s)'
    <3>1. \A i, j \in Queued(s)' : out'[s][i].id = out'[s][j].id => i = j
      <4>1. ASSUME NEW i \in Queued(s)', NEW j \in Queued(s)',
                   out'[s][i].id = out'[s][j].id
            PROVE  i = j
        <5>1. i + 1 = j + 1
          BY <1>l, <2>3, <4>1 DEF Ledger, OnePlacePerId
        <5> QED BY <2>3, <5>1
      <4> QED BY <4>1
    <3>2. ASSUME NEW i \in Queued(s)', NEW q \in unacked'[s]
          PROVE  out'[s][i].id # q.id
      <4>1. CASE q \in unacked[s]
        BY <1>l, <2>3, <4>1 DEF Ledger, OnePlacePerId
      <4>2. CASE p.qos = 1 /\ q = p
        <5>1. i + 1 # 1
          BY <2>3
        <5> QED BY <1>l, <2>3, <2>4, <4>2, <5>1 DEF Ledger, OnePlacePerId
      <4> QED BY <2>1, <4>1, <4>2
    <3> QED BY <3>1, <3>2 DEF OnePlacePerId
  <2>10. AllRecorded(s)'
    <3>1. ASSUME NEW q, Recorded(s, q)
          PROVE  Recorded(s, q)'
      BY <2>1, <3>1 DEF Recorded, AboutToInsert
    <3>2. ASSUME NEW i \in Queued(s)'
          PROVE  Recorded(s, out[s][i])'
      <4>1. out'[s][i] = out[s][i + 1] /\ Recorded(s, out[s][i + 1])
        BY <1>l, <2>3 DEF Ledger, AllRecorded
      <4> QED BY ONLY <2>1, <4>1 DEF Recorded, AboutToInsert
    <3>3. ASSUME NEW q \in unacked'[s]
          PROVE  Recorded(s, q)'
      <4>1. CASE q \in unacked[s]
        BY <1>l, <3>1, <4>1 DEF Ledger, AllRecorded
      <4>2. CASE p.qos = 1 /\ q = p
        <5>1. Recorded(s, q)
          BY <1>l, <2>4, <4>2 DEF Ledger, AllRecorded
        <5> QED BY <3>1, <5>1
      <4> QED BY <2>1, <4>1, <4>2
    <3> QED BY <3>2, <3>3 DEF AllRecorded
  <2> QED BY <2>7, <2>8, <2>9, <2>10 DEF Ledger
<1> QED BY <1>1, <1>2

(* The end of the connection empties the channel. *)
LEMMA LedgerDrop ==
    ASSUME LedgerInv, NEW r \in Sessions, DropReceiver(r),
           NEW s \in Sessions, issued'[s] < IdModulus
    PROVE  Ledger(s)'
PROOF
<1>l. Ledger(s)
  BY DEF DropReceiver, LedgerInv
<1>1. CASE s # r
  <2>1. out'[s] = out[s] /\ unacked'[s] = unacked[s]
    BY <1>1 DEF DropReceiver, LedgerInv, SessionTypeOK
  <2> QED BY <1>l, <2>1, LedgerFrame DEF DropReceiver
<1>2. CASE s = r
  <2>1. /\ out'[s] = <<>> /\ unacked'[s] = {}
        /\ call' = call /\ issued' = issued /\ pending_qos1' = pending_qos1
        /\ next_packet_id' = next_packet_id
    BY <1>2 DEF DropReceiver, LedgerInv, SessionTypeOK
  <2>2. Held(s)' = Held(s) /\ Unsent(s)' = Unsent(s) /\ Queued(s)' = {}
    BY <2>1 DEF Held, Unsent, Queued
  <2>3. Known(s)' \subseteq Known(s)
    BY <2>1, <2>2 DEF Known
  <2>4. CounterAhead(s)'
    BY ONLY <1>l, <2>1, <2>2, <2>3 DEF Ledger, CounterAhead
  <2>5. OnePacketPerId(s)'
    BY ONLY <1>l, <2>1, <2>2, <2>3 DEF Ledger, OnePacketPerId
  <2>6. OnePlacePerId(s)' /\ AllRecorded(s)'
    BY <2>1, <2>2 DEF OnePlacePerId, AllRecorded
  <2> QED BY <2>4, <2>5, <2>6 DEF Ledger
<1> QED BY <1>1, <1>2

LEMMA LedgerEnqueueing ==
    ASSUME LedgerInv, NEW t \in Tasks, Enqueueing(t)
    PROVE  LedgerInv'
PROOF
<1>1. SessionTypeOK'
  BY EnqueueingTypes DEF LedgerInv
<1>2. ASSUME NEW s \in Sessions, issued'[s] < IdModulus
      PROVE  Ledger(s)'
  <2>1. CASE FetchPacketId(t)
    BY <1>2, <2>1, LedgerFetch
  <2>2. CASE ResetPacketId(t)
    BY <1>2, <2>2, LedgerReset
  <2>3. CASE LockSender(t)
    BY <1>2, <2>3, LedgerLock
  <2>4. CASE SendPublish(t)
    BY <1>2, <2>4, LedgerSend
  <2>5. CASE InsertPending(t)
    BY <1>2, <2>5, LedgerInsert
  <2> QED BY <2>1, <2>2, <2>3, <2>4, <2>5 DEF Enqueueing
<1> QED BY <1>1, <1>2 DEF LedgerInv

LEMMA LedgerCalling ==
    ASSUME LedgerInv, NEW r \in Sessions, Calling(r)
    PROVE  LedgerInv'
PROOF
<1>1. SessionTypeOK'
  BY CallingTypes DEF LedgerInv
<1>2. ASSUME NEW s \in Sessions, issued'[s] < IdModulus
      PROVE  Ledger(s)'
  <2>1. CASE New(r)
    BY <1>2, <2>1, LedgerFrame DEF New, LedgerInv
  <2>2. ASSUME NEW t \in Tasks, NEW m \in Messages, NEW q \in EnqueueQoS,
               EnqueuePublish(t, r, m, q)
        PROVE  Ledger(s)'
    <3>1. Ledger(s)
      BY <1>2, <2>2 DEF EnqueuePublish, LedgerInv
    <3>2. /\ \A u \in Tasks : u # t => call'[u] = call[u]
          /\ call[t].pc = "idle" /\ call'[t].pc = "fetch"
      BY <2>2 DEF EnqueuePublish, LedgerInv, SessionTypeOK
    <3> QED BY <2>2, <3>1, <3>2, LedgerFrame DEF EnqueuePublish
  <2>3. ASSUME NEW p \in Packets, p.qos = 0,
               \/ out' = [out EXCEPT ![r] = Append(@, p)]
               \/ out' = out,
               UNCHANGED <<next_packet_id, pending_qos1, call, unacked, issued>>
        PROVE  Ledger(s)'
    <3>1. Ledger(s) /\ SessionTypeOK
      BY <1>2, <2>3 DEF LedgerInv
    <3>2. CASE s = r /\ out'[s] = Append(out[s], p)
      BY <2>3, <3>1, <3>2, LedgerAppend
    <3>3. CASE out'[s] = out[s]
      BY <2>3, <3>1, <3>3, LedgerFrame
    <3>4. out \in [Sessions -> Seq(Packets)]
      BY <3>1 DEF SessionTypeOK
    <3> QED BY <2>3, <3>2, <3>3, <3>4
  <2>4. \A kind \in ReplyKinds : Reply(kind) \in Packets /\ Reply(kind).qos = 0
    BY PacketTypes DEF Reply
  <2>5. ASSUME NEW kind \in ReplyKinds, SendReply(r, kind)
        PROVE  Ledger(s)'
    BY <2>3, <2>4, <2>5 DEF SendReply
  <2>6. ASSUME NEW m \in Messages, SendQoS0(r, m)
        PROVE  Ledger(s)'
    <3>1. Publish(m, 0, 0) \in Packets /\ Publish(m, 0, 0).qos = 0
      BY PacketTypes, SessionAssumption DEF Publish, Ids
    <3> QED BY <2>3, <2>6, <3>1 DEF SendQoS0
  <2>7. ASSUME NEW p \in unacked[r], HandlePuback(r, p)
        PROVE  Ledger(s)'
    BY <1>2, <2>7, LedgerPuback
  <2>8. ASSUME NEW id \in Ids, HandlePubrec(r, id)
        PROVE  Ledger(s)'
    BY <1>2, <2>8, LedgerFrame DEF HandlePubrec, LedgerInv
  <2>9. ASSUME NEW id \in Ids, HandlePubcomp(r, id)
        PROVE  Ledger(s)'
    BY <1>2, <2>9, LedgerFrame DEF HandlePubcomp, LedgerInv
  <2>10. CASE Forward(r)
    BY <1>2, <2>10, LedgerForward
  <2>11. CASE DropReceiver(r)
    BY <1>2, <2>11, LedgerDrop
  <2> QED BY <2>1, <2>2, <2>5, <2>6, <2>7, <2>8, <2>9, <2>10, <2>11 DEF Calling
<1> QED BY <1>1, <1>2 DEF LedgerInv

LEMMA LedgerInvariant == SessionSpec => []LedgerInv
PROOF
<1>1. SessionInit => LedgerInv
  <2>1. ASSUME SessionInit
        PROVE  SessionTypeOK
    BY <2>1, PacketTypes, SessionAssumption DEF SessionInit, SessionTypeOK, Ids, IdleCall
  <2>2. ASSUME SessionInit, NEW s \in Sessions
        PROVE  Ledger(s)
    <3>1. Held(s) = {} /\ Unsent(s) = {} /\ Queued(s) = {} /\ Known(s) = {}
      BY <2>2 DEF SessionInit, IdleCall, Held, Unsent, Queued, Known
    <3>2. CounterAhead(s)
      BY <2>2, <3>1, SessionAssumption DEF SessionInit, IdleCall, CounterAhead
    <3> QED BY <2>2, <3>1, <3>2
            DEF SessionInit, Ledger, OnePacketPerId, OnePlacePerId, AllRecorded
  <2> QED BY <2>1, <2>2 DEF LedgerInv
<1>2. LedgerInv /\ [SessionNext]_sessionVars => LedgerInv'
  <2>1. ASSUME LedgerInv, UNCHANGED sessionVars
        PROVE  LedgerInv'
    <3>1. SessionTypeOK'
      BY <2>1 DEF LedgerInv, SessionTypeOK, sessionVars
    <3>2. ASSUME NEW s \in Sessions, issued'[s] < IdModulus
          PROVE  Ledger(s)'
      BY <2>1, <3>2, LedgerFrame DEF LedgerInv, sessionVars
    <3> QED BY <3>1, <3>2 DEF LedgerInv
  <2> QED BY <2>1, LedgerEnqueueing, LedgerCalling DEF SessionNext
<1> QED BY <1>1, <1>2, PTL DEF SessionSpec

(* No packet id is in flight twice on a session before the counter wraps. *)
THEOREM PacketIdsUnique == SessionSpec => []UniqueIds
PROOF BY LedgerInvariant, LedgerImplies, PTL

(* A publish the client has not acknowledged is recorded in pending_qos1,  *)
(* or about to be, before the counter wraps.                               *)
THEOREM NothingUnackedIsForgotten == SessionSpec => []UnackedIsPending
PROOF BY LedgerInvariant, LedgerImplies, PTL

(* An entry leaves pending_qos1 with the PUBACK for that very message, and *)
(* in no other way, before the counter wraps.                              *)
THEOREM EntriesLeaveWithTheirPuback == SessionSpec => AckRetiresItsOwn
PROOF
<1> DEFINE Retires(s) ==
        \A e \in pending_qos1[s] \ pending_qos1'[s] : e \in unacked[s] \ unacked'[s]
<1>1. ASSUME LedgerInv, NEW t \in Tasks, Enqueueing(t),
             NEW s \in Sessions, issued'[s] < IdModulus
      PROVE  Retires(s)
  <2>1. CASE InsertPending(t)
    BY <1>1, <2>1, LedgerInsert
  <2>2. CASE ~InsertPending(t)
    BY <1>1, <2>2 DEF Enqueueing, FetchPacketId, ResetPacketId, LockSender, SendPublish
  <2> QED BY <2>1, <2>2
<1>2. ASSUME LedgerInv, NEW r \in Sessions, Calling(r),
             NEW s \in Sessions, issued'[s] < IdModulus
      PROVE  Retires(s)
  <2>1. ASSUME NEW p \in unacked[r], HandlePuback(r, p)
        PROVE  Retires(s)
    BY <1>2, <2>1, LedgerPuback
  <2>2. CASE pending_qos1' = pending_qos1
    BY <2>2
  <2> QED BY <1>2, <2>1, <2>2 DEF Calling, New, EnqueuePublish, SendReply, SendQoS0,
             HandlePubrec, HandlePubcomp, Forward, DropReceiver
<1>3. LedgerInv /\ [SessionNext]_sessionVars =>
          [\A s \in Sessions : issued'[s] < IdModulus => Retires(s)]_sessionVars
  BY <1>1, <1>2 DEF SessionNext
<1> QED BY <1>3, LedgerInvariant, PTL DEF SessionSpec, AckRetiresItsOwn
==============================================================================
