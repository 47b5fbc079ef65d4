------------------------------ MODULE EventLoop ------------------------------
(***************************************************************************)
(* The v4 event loop, rumqttc-v4/src/eventloop.rs, with a session store    *)
(* and clean_session = FALSE: the task that owns MqttState, takes requests *)
(* from the client's lanes, checkpoints every transition before its packet *)
(* is written, reads the broker's packets, and carries the session across  *)
(* reconnections and restarts.                                             *)
(*                                                                         *)
(* A request or a packet is handled in two steps, because the process may  *)
(* end between them: the state transition with its checkpoint, and the     *)
(* write of the packet left in "outgoing".  An error found on the way sets *)
(* "fault", and the next step of the loop is handle_network_result.  The   *)
(* batches have length one, the default of max_request_batch.              *)
(***************************************************************************)
EXTENDS MqttState, OutboundScheduler

VARIABLES
  requests_rx,           \* the lane of publishes
  control_requests_rx,   \* the lane of every other request
  immediate_disconnect_rx, \* is there a disconnect_now in its lane?
  pending,               \* requests kept from before a reconnection
  queued,                \* the scheduler's queue
  network,               \* is there a connection?
  fault,                 \* is handle_network_result about to get an error?
  outgoing,              \* the packet checkpointed and not yet written
  pending_disconnect,    \* "None", "Drain" or "Deadline"
  disconnect_complete,
  session_store,         \* [loaded, clear_pending], SessionStoreState
  store,                 \* what the SessionStore holds: an Option of session
  notices,               \* request -> "Idle", "Open", "Ok", "Failed", "Reset" or "Gone"
  events,                \* the incoming publishes poll has still to return
  to_broker, from_broker, \* the packets on the way in each direction
  faults_left            \* how many more times the network or the store fails

laneVars == <<requests_rx, control_requests_rx, immediate_disconnect_rx>>
disconnectVars == <<pending_disconnect, disconnect_complete>>
reportVars == <<notices, events>>
wireVars == <<to_broker, from_broker>>
loopVars == <<laneVars, pending, queued, network, fault, outgoing,
              disconnectVars, session_store, store, reportVars, wireVars, faults_left>>

CONSTANT MaxFaults   \* bound on failures of the network and the store

ASSUME EventLoopAssumption == MaxFaults \in Nat

NewSessionStore == [loaded |-> FALSE, clear_pending |-> FALSE]

LoadedStore == [loaded |-> TRUE, clear_pending |-> FALSE]

Packet(kind, pkid) == [kind |-> kind, pkid |-> pkid]

with_channel ==
  /\ new_internal
  /\ requests_rx = <<>> /\ control_requests_rx = <<>>
  /\ immediate_disconnect_rx = FALSE
  /\ pending = <<>> /\ queued = <<>>
  /\ network = FALSE /\ fault = FALSE /\ outgoing = <<>>
  /\ pending_disconnect = "None" /\ disconnect_complete = FALSE
  /\ session_store = NewSessionStore
  /\ store = {}
  /\ notices = [m \in Msg \cup Ctl |-> "Idle"]
  /\ events = <<>>
  /\ to_broker = <<>> /\ from_broker = <<>>
  /\ faults_left = MaxFaults

Fails == faults_left > 0 /\ faults_left' = faults_left - 1

----------------------------------------------------------------------------
(* Scheduling                                                              *)

RequestReadinessNow(request) ==
  \/ IsKind(request, {"Publish"}) /\ can_send_publish(request)
  \/ IsKind(request, {"Subscribe", "Unsubscribe"}) /\ control_packet_identifier_available
  \/ IsKind(request, {"Disconnect", "PubAck", "PubRec"})

(* Mutant: a replayed publish is held to the test of a new one.            *)
ReplayReadiness_as_new(request) ==
  IsKind(request, {"PubRel"}) \/ RequestReadinessNow(request)

ReplayReadiness(request) ==
  \/ IsKind(request, {"Publish"}) /\ can_send_replayed_publish(request)
  \/ IsKind(request, {"PubRel"}) /\ can_send_pubrel(request.pkid)
  \/ /\ IsKind(request, {"Subscribe", "Unsubscribe"})
     /\ can_send_replayed_control_packet(request.pkid)

classify_envelope(envelope) ==
  [class |-> IF IsKind(envelope.request, {"Publish"})
             THEN "FlowControlledPublish" ELSE "Control",
   readiness |-> IF IF envelope.replay THEN ReplayReadiness(envelope.request)
                                       ELSE RequestReadinessNow(envelope.request)
                 THEN "Ready" ELSE "Blocked"]

Classified(queue) == [i \in 1..Len(queue) |-> classify_envelope(queue[i])]

(* Would one more request of the application be taken into this queue?     *)
normal_request_admission_allowed(queue) ==
  queue = <<>> \/ has_ready(Classified(queue))

(* The loop is connected and past the top of select, where the events and  *)
(* then a disconnect_now go before everything else.  One that arrives      *)
(* between this test and the step it allows is one that arrives after the  *)
(* step.                                                                   *)
Selecting ==
  /\ network /\ ~fault /\ outgoing = <<>> /\ ~disconnect_complete
  /\ events = <<>> /\ ~immediate_disconnect_rx

(* Mutant: nothing is read while a disconnect waits for the drain.         *)
Waiting_not_draining ==
  Selecting /\ pending_disconnect = "None" /\ ~has_ready(Classified(queued))

(* Nothing is ready to be sent: select goes on to wait for its sources.    *)
Waiting ==
  /\ Selecting
  /\ IF pending_disconnect = "None" THEN ~has_ready(Classified(queued))
                                    ELSE ~outbound_requests_drained

----------------------------------------------------------------------------
(* The session store                                                       *)

ReplayEnvelopes(s) == Select(s, {i \in 1..Len(s) : s[i].replay})

(* Mutant: a request waiting for replay is left out of the checkpoint.     *)
Checkpoint_of_state == persisted_session(<<>>)

(* persisted_session_save: the session the loop checkpoints.               *)
Checkpoint ==
  LET held == ReplayEnvelopes(pending) \o ReplayEnvelopes(queued)
  IN  persisted_session([i \in 1..Len(held) |-> held[i].request])

(* Mutant: the session is captured before the transition.                  *)
Saved_before_transition == store' = {Checkpoint} /\ session_store' = LoadedStore

(* save_persisted_session, evaluated after the transition it follows.      *)
Saved == store' = {Checkpoint'} /\ session_store' = LoadedStore

SaveFails == Fails /\ UNCHANGED <<store, session_store>>

(* A transition is checkpointed before its packet may be written; if the   *)
(* store fails the packet is dropped with the connection.                  *)
Checkpointed(packets) ==
  \/ Saved /\ outgoing' = packets /\ UNCHANGED <<fault, faults_left>>
  \/ SaveFails /\ outgoing' = <<>> /\ fault' = TRUE

Resolve(names, result) ==
  notices' = [n \in DOMAIN notices |-> IF n \in names THEN result ELSE notices[n]]

----------------------------------------------------------------------------
(* Requests                                                                *)

(* next_request: what was pending goes before what is in the lane.         *)
AdmitNormal ==
  /\ Waiting
  /\ pending_disconnect = "None"
  /\ control_requests_rx = <<>>
  /\ \/ /\ pending # <<>>
        /\ queued' = Append(queued, Head(pending))
        /\ pending' = Tail(pending)
        /\ UNCHANGED requests_rx
     \/ /\ pending = <<>>
        /\ requests_rx # <<>>
        /\ normal_request_admission_allowed(queued)
        /\ queued' = Append(queued, Head(requests_rx))
        /\ requests_rx' = Tail(requests_rx)
        /\ UNCHANGED pending
  /\ UNCHANGED <<stateVars, control_requests_rx, immediate_disconnect_rx, network,
                 fault, outgoing, disconnectVars, session_store, store, reportVars,
                 wireVars, faults_left>>

(* try_admit_existing_normal_requests: how many of the pending requests,   *)
(* then of the publishes in the lane, go before a control request.         *)
AdmittedBefore(existing) ==
  LET stops(n) ==
        \/ n = Len(existing)
        \/ n > 0 /\ IsKind(existing[n].request, {"Disconnect"})
        \/ /\ n >= Len(pending)
           /\ ~normal_request_admission_allowed(queued \o SubSeq(existing, 1, n))
  IN  CHOOSE n \in 0..Len(existing) : stops(n) /\ \A m \in 0..(n - 1) : ~stops(m)

AdmitControl ==
  /\ Waiting
  /\ pending_disconnect = "None"
  /\ control_requests_rx # <<>>
  /\ LET existing == pending \o requests_rx
         n == AdmittedBefore(existing)
     IN  /\ queued' = (queued \o SubSeq(existing, 1, n)) \o <<Head(control_requests_rx)>>
         /\ pending' = SubSeq(existing, n + 1, Len(pending))
         /\ requests_rx' = SubSeq(existing, Max2(n, Len(pending)) + 1, Len(existing))
  /\ control_requests_rx' = Tail(control_requests_rx)
  /\ UNCHANGED <<stateVars, immediate_disconnect_rx, network, fault, outgoing,
                 disconnectVars, session_store, store, reportVars, wireVars, faults_left>>

(* The transition of a request, and its checkpoint.                        *)
Transition(envelope) ==
  LET request == envelope.request
      order == outgoing_pub_order'
  IN  \/ /\ IsKind(request, {"Publish"})
         /\ outgoing_publish(request, envelope.notice, envelope.replay)
         /\ Checkpointed(IF Pubs' = Pubs THEN <<>> ELSE <<Get(outgoing_pub'[order[Len(order)]])>>)
      \/ /\ IsKind(request, {"PubRel"})
         /\ outgoing_pubrel(request.pkid, envelope.notice)
         /\ Checkpointed(<<request>>)
      \/ /\ \/ /\ IsKind(request, {"Subscribe"})
               /\ outgoing_subscribe(request, envelope.notice, envelope.replay)
            \/ /\ IsKind(request, {"Unsubscribe"})
               /\ outgoing_unsubscribe(request, envelope.notice, envelope.replay)
         /\ \E pkid \in (Subs \cup Unsubs)' \ (Subs \cup Unsubs) :
              Checkpointed(<<[request EXCEPT !.pkid = pkid]>>)
      \/ /\ \/ IsKind(request, {"PubAck"}) /\ outgoing_puback(request.pkid)
            \/ IsKind(request, {"PubRec"}) /\ outgoing_pubrec(request.pkid)
         /\ Checkpointed(<<request>>)

(* An acknowledgement of a receive that is not there, or not there any     *)
(* more, is an error: StateError::Unsolicited.                             *)
UnsolicitedAck(request) ==
  \/ IsKind(request, {"PubAck"}) /\ request.pkid \notin incoming_puback
  \/ IsKind(request, {"PubRec"}) /\ request.pkid \notin incoming_pub \ incoming_pubrec

(* handle_ready_requests and handle_request, up to the write.  A graceful  *)
(* disconnect only starts the drain.                                       *)
HandleRequest ==
  /\ Selecting
  /\ pending_disconnect = "None"
  /\ has_ready(Classified(queued))
  /\ UNCHANGED <<laneVars, pending, network, disconnect_complete, reportVars, wireVars>>
  /\ LET index == next_ready_index(Classified(queued))
         envelope == queued[index]
     IN  /\ queued' = Remove(queued, index)
         /\ \/ /\ IsKind(envelope.request, {"Disconnect"})
               /\ pending_disconnect' = envelope.request.mode
               /\ UNCHANGED <<stateVars, outgoing, fault, session_store, store, faults_left>>
            \/ Transition(envelope) /\ UNCHANGED pending_disconnect
            \/ /\ UnsolicitedAck(envelope.request)
               /\ fault' = TRUE
               /\ UNCHANGED <<stateVars, outgoing, pending_disconnect, session_store,
                              store, faults_left>>

(* Mutant: a publish is complete once it has been written.                 *)
Write_completes ==
  /\ outgoing # <<>>
  /\ to_broker' = to_broker \o outgoing
  /\ outgoing' = <<>>
  /\ Resolve(UNION {outgoing_pub_notice[p.pkid] : p \in Elements(outgoing)}, "Ok")
  /\ UNCHANGED <<stateVars, laneVars, pending, queued, network, fault, disconnectVars,
                 session_store, store, events, from_broker, faults_left>>

(* write_request and flush_request_batch, or the flush after a read.       *)
Write ==
  /\ outgoing # <<>>
  /\ to_broker' = to_broker \o outgoing
  /\ outgoing' = <<>>
  /\ UNCHANGED <<stateVars, laneVars, pending, queued, network, fault, disconnectVars,
                 session_store, store, reportVars, from_broker, faults_left>>

----------------------------------------------------------------------------
(* Reading                                                                 *)

(* Mutant: a notice is not told that the store failed.                     *)
ReadThen_silent(names, response) ==
  /\ Checkpointed(response)
  /\ Resolve(IF fault' THEN {} ELSE names, "Ok")

(* A read: the transition and its checkpoint, then the notice.  When the   *)
(* store fails the notice is told so.                                      *)
ReadThen(names, response) ==
  /\ Checkpointed(response)
  /\ Resolve(names, IF fault' THEN "Failed" ELSE "Ok")

(* Mutant: a repeated QoS 2 publish is not answered again.                 *)
Receipt_once(packet) ==
  IF packet.qos = 1 /\ AckMode = "Automatic" THEN <<Packet("PubAck", packet.pkid)>>
  ELSE IF packet.qos = 2 /\ AckMode = "Automatic" /\ packet.pkid \notin incoming_pubrec
  THEN <<Packet("PubRec", packet.pkid)>> ELSE <<>>

(* What is written at once in answer to an incoming publish.               *)
Receipt(packet) ==
  IF packet.qos = 1 /\ AckMode = "Automatic" THEN <<Packet("PubAck", packet.pkid)>>
  ELSE IF packet.qos = 2 /\ answers_pubrec(packet.pkid)
  THEN <<Packet("PubRec", packet.pkid)>> ELSE <<>>

(* Mutants: every publish is given to the application; a duplicate is told *)
(* by the receive that has not been released.                              *)
forward_incoming_always(packet) == packet.kind = "Publish"
forward_incoming_once(packet) ==
  packet.kind = "Publish" /\ ~(packet.qos = 2 /\ packet.pkid \in incoming_pub)

(* Does handle_incoming_packet_with_effects make an event of the packet?   *)
(* Only the events of publishes are kept here.                             *)
forward_incoming(packet) ==
  /\ packet.kind = "Publish"
  /\ ~is_duplicate_incoming_qos2_publish(packet.pkid, packet.qos)

(* handle_network_read, or poll_disconnect_drain: one packet is handled.   *)
(* A packet nothing waits for would be an error, but see AnswersExpected.  *)
Read ==
  /\ Waiting
  /\ pending_disconnect = "None" => control_requests_rx = <<>>
  /\ from_broker # <<>>
  /\ UNCHANGED <<laneVars, pending, queued, network, disconnectVars, to_broker>>
  /\ LET packet == Head(from_broker)
         pkid == packet.pkid
     IN  \/ /\ packet.kind = "PubAck"
            /\ handle_incoming_puback(pkid)
            /\ ReadThen(outgoing_pub_notice[pkid], <<>>)
         \/ /\ packet.kind = "PubRec"
            /\ handle_incoming_pubrec(pkid)
            /\ ReadThen({}, <<PubRel(pkid)>>)
         \/ /\ packet.kind = "PubComp"
            /\ handle_incoming_pubcomp(pkid)
            /\ ReadThen(outgoing_rel_notice[pkid], <<>>)
         \/ /\ packet.kind = "SubAck"
            /\ handle_incoming_suback(pkid)
            /\ ReadThen(Get(pending_subscribe[pkid]).notice, <<>>)
         \/ /\ packet.kind = "UnsubAck"
            /\ handle_incoming_unsuback(pkid)
            /\ ReadThen(Get(pending_unsubscribe[pkid]).notice, <<>>)
         \/ /\ packet.kind = "Publish"
            /\ handle_incoming_publish(pkid, packet.qos)
            /\ ReadThen({}, Receipt(packet))
         \/ /\ packet.kind = "PubRel"
            /\ handle_incoming_pubrel(pkid)
            /\ ReadThen({}, <<Packet("PubComp", pkid)>>)
  /\ events' = IF forward_incoming(Head(from_broker))
               THEN Append(events, Head(from_broker)) ELSE events
  /\ from_broker' = Tail(from_broker)

(* poll returns the first event, also when an error is waiting behind it.  *)
ReturnEvent ==
  /\ events # <<>>
  /\ outgoing = <<>>
  /\ events' = Tail(events)
  /\ UNCHANGED <<stateVars, laneVars, pending, queued, network, fault, outgoing,
                 disconnectVars, session_store, store, notices, wireVars, faults_left>>

----------------------------------------------------------------------------
(* Losing a connection                                                     *)

(* A read, a write or a flush returns an error.                            *)
ConnectionLost ==
  /\ network /\ ~fault /\ ~disconnect_complete
  /\ Fails
  /\ fault' = TRUE
  /\ outgoing' = <<>>
  /\ UNCHANGED <<stateVars, laneVars, pending, queued, network, disconnectVars,
                 session_store, store, reportVars, wireVars>>

(* Mutants: the scheduler's queue is forgotten; what the lanes hold, or    *)
(* what waits in the queue, goes before what the state gives back; every   *)
(* request kept is taken for one that was sent before.                     *)
Cleaned_without_queue == pending \o CleanRequests \o requests_rx \o control_requests_rx
Cleaned_lane_first == requests_rx \o pending \o CleanRequests \o queued \o control_requests_rx
Cleaned_state_last == pending \o queued \o requests_rx \o control_requests_rx \o CleanRequests

Cleaned_as_replays ==
  LET kept == pending \o CleanRequests \o queued \o requests_rx \o control_requests_rx
  IN  [i \in 1..Len(kept) |-> [kept[i] EXCEPT !.replay = TRUE]]

(* should_replay_after_reconnect: acknowledgements belong to a connection. *)
Replayable(s) ==
  Select(s, {i \in 1..Len(s) : ~IsKind(s[i].request, {"PubAck", "PubRec"})})

(* What clean() leaves in pending.                                         *)
Cleaned ==
  pending \o CleanRequests
    \o Replayable(queued \o requests_rx \o control_requests_rx)

(* Mutant: packets read from the old connection are handled on the new one. *)
HandleError_keeping_buffer ==
  /\ fault
  /\ events = <<>>
  /\ fault' = FALSE
  /\ network' = FALSE
  /\ pending_disconnect' = "None"
  /\ clean_with_notices(TRUE)
  /\ pending' = Cleaned
  /\ queued' = <<>>
  /\ requests_rx' = <<>>
  /\ control_requests_rx' = <<>>
  /\ to_broker' = <<>> /\ UNCHANGED from_broker
  /\ \/ Saved /\ UNCHANGED faults_left
     \/ SaveFails
  /\ UNCHANGED <<immediate_disconnect_rx, outgoing, disconnect_complete, reportVars>>

(* handle_network_result of an error, once the events before it have been  *)
(* returned: clean(), then the checkpoint.                                 *)
HandleError ==
  /\ fault
  /\ events = <<>>
  /\ fault' = FALSE
  /\ network' = FALSE
  /\ pending_disconnect' = "None"
  /\ clean_with_notices(TRUE)
  /\ pending' = Cleaned
  /\ queued' = <<>>
  /\ requests_rx' = <<>>
  /\ control_requests_rx' = <<>>
  /\ to_broker' = <<>> /\ from_broker' = <<>>
  /\ \/ Saved /\ UNCHANGED faults_left
     \/ SaveFails
  /\ UNCHANGED <<immediate_disconnect_rx, outgoing, disconnect_complete, reportVars>>

----------------------------------------------------------------------------
(* Connecting                                                              *)

(* poll finds no connection and no disconnect_now.                         *)
Connecting == ~network /\ ~fault /\ ~disconnect_complete /\ ~immediate_disconnect_rx

(* load_persisted_session_if_needed.                                       *)
Load ==
  /\ Connecting
  /\ ~session_store.loaded \/ session_store.clear_pending
  /\ \/ /\ session_store.clear_pending
        /\ store' = {}
        /\ UNCHANGED <<stateVars, pending>>
     \/ /\ ~session_store.clear_pending
        /\ store = {}
        /\ UNCHANGED <<stateVars, pending, store>>
     \/ /\ ~session_store.clear_pending
        /\ \E session \in store :
             /\ restore_persisted_session(session)
             /\ pending' = pending \o [i \in 1..Len(session.replay) |->
                  [request |-> session.replay[i], notice |-> {}, replay |-> TRUE]]
        /\ UNCHANGED store
  /\ session_store' = LoadedStore
  /\ UNCHANGED <<laneVars, queued, network, fault, outgoing, disconnectVars,
                 reportVars, wireVars, faults_left>>

(* The CONNACK of a session the broker kept.                               *)
Resume ==
  /\ Connecting
  /\ session_store = LoadedStore
  /\ network' = TRUE
  /\ UNCHANGED <<stateVars, laneVars, pending, queued, fault, outgoing, disconnectVars,
                 session_store, store, reportVars, wireVars, faults_left>>

(* Every notice of a request admitted, pending or queued.                  *)
SessionNotices ==
  UNION {outgoing_pub_notice[p] \cup outgoing_rel_notice[p] : p \in Pkid}
    \cup collision_notice
    \cup UNION {Get(pending_subscribe[p]).notice : p \in Subs}
    \cup UNION {Get(pending_unsubscribe[p]).notice : p \in Unsubs}
    \cup UNION {e.notice : e \in Elements(pending) \cup Elements(queued)}

(* Mutant: what was pending is kept for the new session.                   *)
StartFresh_keeping_pending ==
  /\ Connecting
  /\ session_store = LoadedStore
  /\ Resolve(SessionNotices, "Reset")
  /\ reset_session_state
  /\ queued' = <<>> /\ UNCHANGED pending
  /\ \/ /\ store' = {}
        /\ session_store' = LoadedStore
        /\ network' = TRUE
        /\ UNCHANGED faults_left
     \/ /\ Fails
        /\ session_store' = [loaded |-> FALSE, clear_pending |-> TRUE]
        /\ UNCHANGED <<store, network>>
  /\ UNCHANGED <<laneVars, fault, outgoing, disconnectVars, events, wireVars>>

(* The CONNACK of a new session: reset_session_state, then the stored      *)
(* session is cleared, or its reload blocked until it can be.              *)
StartFresh ==
  /\ Connecting
  /\ session_store = LoadedStore
  /\ Resolve(SessionNotices, "Reset")
  /\ reset_session_state
  /\ pending' = <<>> /\ queued' = <<>>
  /\ \/ /\ store' = {}
        /\ session_store' = LoadedStore
        /\ network' = TRUE
        /\ UNCHANGED faults_left
     \/ /\ Fails
        /\ session_store' = [loaded |-> FALSE, clear_pending |-> TRUE]
        /\ UNCHANGED <<store, network>>
  /\ UNCHANGED <<laneVars, fault, outgoing, disconnectVars, events, wireVars>>

----------------------------------------------------------------------------
(* Disconnecting                                                           *)

UnprocessedNotices ==
  UNION {e.notice : e \in Elements(pending) \cup Elements(queued)
                           \cup Elements(requests_rx) \cup Elements(control_requests_rx)}

(* drop_unprocessed_requests.                                              *)
DropUnprocessed ==
  /\ pending' = <<>> /\ queued' = <<>>
  /\ requests_rx' = <<>> /\ control_requests_rx' = <<>>
  /\ Resolve(UnprocessedNotices, "Failed")
  /\ UNCHANGED events

(* send_pending_disconnect: the exchanges are over.  If the DISCONNECT     *)
(* cannot be written or flushed, the wait is over all the same and nothing *)
(* else has happened yet.                                                  *)
SendDisconnect ==
  /\ Selecting
  /\ pending_disconnect # "None"
  /\ outbound_requests_drained
  /\ pending_disconnect' = "None"
  /\ UNCHANGED <<stateVars, immediate_disconnect_rx, network, outgoing, from_broker>>
  /\ \/ /\ to_broker' = Append(to_broker, Packet("Disconnect", 0))
        /\ DropUnprocessed
        /\ \/ Saved /\ disconnect_complete' = TRUE /\ UNCHANGED <<fault, faults_left>>
           \/ SaveFails /\ fault' = TRUE /\ UNCHANGED disconnect_complete
     \/ /\ Fails
        /\ fault' = TRUE
        /\ UNCHANGED <<requests_rx, control_requests_rx, pending, queued, to_broker,
                       disconnect_complete, session_store, store, reportVars>>

(* The deadline of disconnect_with_timeout: DISCONNECT is not sent.        *)
DisconnectTimeout ==
  /\ Selecting
  /\ pending_disconnect = "Deadline"
  /\ ~outbound_requests_drained
  /\ pending_disconnect' = "None"
  /\ network' = FALSE
  /\ DropUnprocessed
  /\ disconnect_complete' = TRUE
  /\ to_broker' = <<>> /\ from_broker' = <<>>
  /\ UNCHANGED <<stateVars, immediate_disconnect_rx, fault, outgoing, session_store,
                 store, faults_left>>

(* A disconnect_now is taken from its lane.  Without a connection the loop *)
(* just ends.  With one, handle_immediate_disconnect checkpoints the       *)
(* session and sends the DISCONNECT; when the save or the write fails, the *)
(* loop goes on, but when only the flush fails, disconnect_complete is set *)
(* already.                                                                *)
ImmediateDisconnect ==
  /\ immediate_disconnect_rx
  /\ ~fault /\ outgoing = <<>> /\ events = <<>> /\ ~disconnect_complete
  /\ immediate_disconnect_rx' = FALSE
  /\ UNCHANGED <<stateVars, requests_rx, control_requests_rx, pending, queued, network,
                 outgoing, pending_disconnect, reportVars, from_broker>>
  /\ \/ /\ ~network
        /\ disconnect_complete' = TRUE
        /\ UNCHANGED <<fault, session_store, store, to_broker, faults_left>>
     \/ /\ network
        /\ \/ /\ Saved
              /\ to_broker' = Append(to_broker, Packet("Disconnect", 0))
              /\ disconnect_complete' = TRUE
              /\ UNCHANGED <<fault, faults_left>>
           \/ /\ SaveFails
              /\ fault' = TRUE
              /\ UNCHANGED <<to_broker, disconnect_complete>>
           \/ /\ Saved
              /\ Fails
              /\ fault' = TRUE
              /\ disconnect_complete' \in BOOLEAN
              /\ UNCHANGED to_broker

=============================================================================
