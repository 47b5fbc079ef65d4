------------------------------ MODULE Delivery ------------------------------
(***************************************************************************)
(* Publishing through the v4 client, end to end: client handles put        *)
(* requests into the lanes, the event loop of EventLoop carries them, and  *)
(* a broker that follows MQTT 3.1.1 receives them.  The connection may     *)
(* fail at any step, the store may fail to save, the process may end and   *)
(* start again from its checkpoint, and the broker may forget the session  *)
(* while the client is away.                                               *)
(***************************************************************************)
EXTENDS EventLoop

CONSTANTS
  ExactlyOnceMsg,    \* the messages published with QoS 2; the others have QoS 1
  DisconnectModes,   \* the ways to disconnect asked for: "Drain", "Deadline", "Now"
  MaxCrashes,        \* bound on restarts of the client process
  BrokerForgets      \* may the broker lose the session between connections?

ASSUME DeliveryAssumption ==
  /\ ExactlyOnceMsg \subseteq Msg
  /\ DisconnectModes \subseteq {"Drain", "Deadline", "Now"}
  /\ MaxCrashes \in Nat
  /\ BrokerForgets \in BOOLEAN

VARIABLES
  broker_session,    \* does the broker hold a session of this client?
  broker_received,   \* QoS 2 identifiers received and not yet released
  delivered,         \* the messages delivered, in the order of first delivery
  redelivered,       \* the messages delivered more than once
  submitted,         \* the messages published, in order
  disconnect_asked,  \* the disconnects asked for
  crashes

brokerVars == <<broker_session, broker_received, delivered, redelivered>>
clientVars == <<submitted, disconnect_asked, crashes>>
vars == <<stateVars, loopVars, brokerVars, clientVars>>

----------------------------------------------------------------------------
(* The client's handles                                                    *)

Envelope(request, notice) == [request |-> request, notice |-> notice, replay |-> FALSE]

(* AsyncClient::publish_tracked.                                           *)
ClientPublish(m) ==
  /\ notices[m] = "Idle"
  /\ ~disconnect_complete
  /\ requests_rx' =
       Append(requests_rx,
              Envelope([kind |-> "Publish", msg |-> m, pkid |-> 0, dup |-> FALSE,
                        qos |-> IF m \in ExactlyOnceMsg THEN 2 ELSE 1], {m}))
  /\ notices' = [notices EXCEPT ![m] = "Open"]
  /\ submitted' = Append(submitted, m)
  /\ UNCHANGED <<stateVars, control_requests_rx, immediate_disconnect_rx, pending,
                 queued, network, fault, outgoing, disconnectVars, session_store, store,
                 events, wireVars, faults_left, brokerVars, disconnect_asked, crashes>>

(* AsyncClient::subscribe_tracked and unsubscribe_tracked.                 *)
ClientControl(c, kind) ==
  /\ notices[c] = "Idle"
  /\ ~disconnect_complete
  /\ control_requests_rx' =
       Append(control_requests_rx,
              Envelope([kind |-> kind, msg |-> c, pkid |-> 0], {c}))
  /\ notices' = [notices EXCEPT ![c] = "Open"]
  /\ UNCHANGED <<stateVars, requests_rx, immediate_disconnect_rx, pending, queued,
                 network, fault, outgoing, disconnectVars, session_store, store,
                 events, wireVars, faults_left, brokerVars, clientVars>>

(* AsyncClient::disconnect and disconnect_with_timeout go behind the other *)
(* control requests, disconnect_now has a lane of its own.                 *)
ClientDisconnect(mode) ==
  /\ mode \notin disconnect_asked
  /\ disconnect_asked' = disconnect_asked \cup {mode}
  /\ \/ /\ mode \in {"Drain", "Deadline"}
        /\ control_requests_rx' =
             Append(control_requests_rx,
                    Envelope([kind |-> "Disconnect", mode |-> mode], {}))
        /\ UNCHANGED immediate_disconnect_rx
     \/ /\ mode = "Now"
        /\ immediate_disconnect_rx' = TRUE
        /\ UNCHANGED control_requests_rx
  /\ UNCHANGED <<stateVars, requests_rx, pending, queued, network, fault, outgoing,
                 disconnectVars, session_store, store, reportVars, wireVars, faults_left,
                 brokerVars, submitted, crashes>>

(* The process ends and another starts with the same store.                *)
Crash ==
  /\ crashes < MaxCrashes
  /\ crashes' = crashes + 1
  /\ StartSession(<<>>, {})
  /\ requests_rx' = <<>> /\ control_requests_rx' = <<>>
  /\ immediate_disconnect_rx' = FALSE
  /\ pending' = <<>> /\ queued' = <<>>
  /\ network' = FALSE /\ fault' = FALSE /\ outgoing' = <<>>
  /\ pending_disconnect' = "None" /\ disconnect_complete' = FALSE
  /\ disconnect_asked' = {}
  /\ session_store' = NewSessionStore
  /\ Resolve({n \in DOMAIN notices : notices[n] = "Open"}, "Gone")
  /\ events' = <<>>
  /\ to_broker' = <<>> /\ from_broker' = <<>>
  /\ UNCHANGED <<store, faults_left, brokerVars, submitted>>

----------------------------------------------------------------------------
(* The broker                                                              *)

Deliver(m) ==
  IF m \in Elements(delivered)
  THEN redelivered' = redelivered \cup {m} /\ UNCHANGED delivered
  ELSE delivered' = Append(delivered, m) /\ UNCHANGED redelivered

Answer(kind, pkid) == from_broker' = Append(from_broker, Packet(kind, pkid))

BrokerPublish(packet) ==
  \/ /\ packet.qos = 1
     /\ Deliver(packet.msg)
     /\ Answer("PubAck", packet.pkid)
     /\ UNCHANGED broker_received
  \/ /\ packet.qos = 2
     /\ IF packet.pkid \in broker_received THEN UNCHANGED <<delivered, redelivered>>
                                           ELSE Deliver(packet.msg)
     /\ broker_received' = broker_received \cup {packet.pkid}
     /\ Answer("PubRec", packet.pkid)

BrokerRelease(packet) ==
  /\ broker_received' = broker_received \ {packet.pkid}
  /\ Answer("PubComp", packet.pkid)
  /\ UNCHANGED <<delivered, redelivered>>

Broker ==
  /\ to_broker # <<>>
  /\ LET packet == Head(to_broker)
     IN  \/ packet.kind = "Publish" /\ BrokerPublish(packet)
         \/ packet.kind = "PubRel" /\ BrokerRelease(packet)
         \/ /\ packet.kind \in {"Subscribe", "Unsubscribe"}
            /\ Answer(IF packet.kind = "Subscribe" THEN "SubAck" ELSE "UnsubAck",
                      packet.pkid)
            /\ UNCHANGED <<broker_received, delivered, redelivered>>
         \/ /\ packet.kind = "Disconnect"
            /\ UNCHANGED <<from_broker, broker_received, delivered, redelivered>>
  /\ to_broker' = Tail(to_broker)
  /\ UNCHANGED <<stateVars, laneVars, pending, queued, network, fault, outgoing,
                 disconnectVars, session_store, store, reportVars, faults_left,
                 broker_session, clientVars>>

BrokerForget ==
  /\ BrokerForgets
  /\ ~network
  /\ broker_session
  /\ broker_session' = FALSE
  /\ broker_received' = {}
  /\ UNCHANGED <<stateVars, loopVars, delivered, redelivered, clientVars>>

(* The broker accepts the connection and says whether it kept the session. *)
Connect ==
  /\ \/ broker_session /\ Resume
     \/ ~broker_session /\ StartFresh
  /\ broker_session' = TRUE
  /\ UNCHANGED <<broker_received, delivered, redelivered, clientVars>>

----------------------------------------------------------------------------
(* The specification                                                       *)

(* A step of the event loop that the environment does not cause.           *)
Loop == AdmitNormal \/ AdmitControl \/ HandleRequest \/ Write \/ Read
          \/ HandleError \/ Load \/ SendDisconnect \/ ImmediateDisconnect

Init ==
  /\ with_channel
  /\ broker_session = FALSE
  /\ broker_received = {}
  /\ delivered = <<>>
  /\ redelivered = {}
  /\ submitted = <<>>
  /\ disconnect_asked = {}
  /\ crashes = 0

LoopStep == Loop /\ UNCHANGED <<brokerVars, clientVars>>

Next ==
  \/ \E m \in Msg : ClientPublish(m)
  \/ \E c \in Ctl, kind \in {"Subscribe", "Unsubscribe"} : ClientControl(c, kind)
  \/ \E mode \in DisconnectModes : ClientDisconnect(mode)
  \/ LoopStep
  \/ (ConnectionLost \/ DisconnectTimeout) /\ UNCHANGED <<brokerVars, clientVars>>
  \/ Connect
  \/ Broker
  \/ BrokerForget
  \/ Crash

Spec == Init /\ [][Next]_vars

(* The application polls the loop, the broker answers and accepts          *)
(* connections.  Failures need no fairness: there are at most MaxFaults.   *)
Fairness == WF_vars(LoopStep) /\ WF_vars(Connect) /\ WF_vars(Broker)

FairSpec == Spec /\ Fairness

----------------------------------------------------------------------------
(* Properties                                                              *)

Request ==
  Publish \cup Subscribe \cup Unsubscribe \cup {PubRel(p) : p \in Pkid}
    \cup [kind : {"PubAck", "PubRec"}, pkid : InPkid]
    \cup [kind : {"Disconnect"}, mode : {"Drain", "Deadline"}]

EnvelopeSet == [request : Request, notice : Option(Msg \cup Ctl), replay : BOOLEAN]

(* Every variable of the loop has the type of its Rust field, at most one  *)
(* packet waits to be written, and the replay requests held carry packet   *)
(* identifiers.                                                            *)
TypeOK ==
  /\ \A lane \in {requests_rx, control_requests_rx, pending, queued} :
       Elements(lane) \subseteq EnvelopeSet
  /\ network \in BOOLEAN /\ fault \in BOOLEAN /\ disconnect_complete \in BOOLEAN
  /\ immediate_disconnect_rx \in BOOLEAN
  /\ Len(outgoing) <= 1
  /\ pending_disconnect \in {"None", "Drain", "Deadline"}
  /\ session_store \in [loaded : BOOLEAN, clear_pending : BOOLEAN]
  /\ Cardinality(store) <= 1
  /\ notices \in [Msg \cup Ctl -> {"Idle", "Open", "Ok", "Failed", "Reset", "Gone"}]
  /\ \A e \in Elements(pending) \cup Elements(queued) : e.replay => e.request.pkid \in Pkid
  /\ broker_received \subseteq Pkid

RequestsHeld ==
  Elements(requests_rx) \cup Elements(control_requests_rx)
    \cup Elements(pending) \cup Elements(queued)

StoredRequests == UNION {Elements(session.replay) : session \in store}

(* A QoS 2 publish is delivered at most once: handle_incoming_pubrec turns *)
(* it into a PUBREL that is checkpointed before it is written, so neither  *)
(* a reconnection nor a restart publishes it again once it is released.    *)
ExactlyOnce == redelivered \cap ExactlyOnceMsg = {}

(* A publish notice succeeds only for a message the broker has: no PUBACK  *)
(* or PUBCOMP is taken for the answer to a later user of its identifier.   *)
SuccessIsDelivery == \A m \in Msg : notices[m] = "Ok" => m \in Elements(delivered)

(* While its notice is open, a message the broker has not delivered is     *)
(* still going to be sent: clean(), the scheduler and the state pass it    *)
(* between them without dropping it.                                       *)
NotForgotten ==
  \A m \in Msg :
    notices[m] = "Open" /\ m \notin Elements(delivered) =>
      \/ \E e \in RequestsHeld : IsKind(e.request, {"Publish"}) /\ e.request.msg = m
      \/ \E p \in Pubs : Get(outgoing_pub[p]).msg = m

(* An open notice is held in exactly one place, so it is answered once     *)
(* and never leaked by clean(), a failed save or a replay.                 *)
NoticeHeldOnce ==
  \A n \in DOMAIN notices :
    notices[n] = "Open" =>
      Cardinality({e \in RequestsHeld : n \in e.notice})
        + Cardinality({p \in Pkid : n \in outgoing_pub_notice[p]})
        + Cardinality({p \in Pkid : n \in outgoing_rel_notice[p]})
        + Cardinality({p \in Subs : n \in Get(pending_subscribe[p]).notice})
        + Cardinality({p \in Unsubs : n \in Get(pending_unsubscribe[p]).notice}) = 1

(* Every answer on its way from the broker is one the state waits for, so  *)
(* a broker that follows the protocol never makes the client report an     *)
(* unsolicited acknowledgement.                                            *)
AnswersExpected ==
  \A packet \in Elements(from_broker) :
    \/ packet.kind \in {"PubAck", "PubRec"} /\ outgoing_pub[packet.pkid] # {}
    \/ packet.kind = "PubComp" /\ packet.pkid \in outgoing_rel
    \/ packet.kind = "SubAck" /\ pending_subscribe[packet.pkid] # {}
    \/ packet.kind = "UnsubAck" /\ pending_unsubscribe[packet.pkid] # {}
    \/ packet.kind = "PubRel" /\ packet.pkid \notin incoming_pub \ incoming_pubrec
    \/ packet.kind = "Publish"

(* The store covers every exchange the broker may know of: the packets     *)
(* handle_request wrote and the QoS 2 messages it has not released, also   *)
(* while their replay waits in pending or queued.                          *)
CheckpointBeforeWrite ==
  /\ \A packet \in Elements(to_broker) :
       packet.kind # "Disconnect" => Persisted(packet) \in StoredRequests
  /\ \A p \in broker_received : \E r \in StoredRequests : r.pkid = p

(* What save_persisted_session stores, restore_persisted_session accepts:  *)
(* identifiers are distinct and the publishes fit in the window.           *)
CheckpointRestorable ==
  \A session \in store : validate_persisted_session_packet_ids(session)

(* Messages are first delivered in the order in which they were published, *)
(* although clean() moves them from four queues and the state to pending.  *)
PublishOrder ==
  \A i, j \in 1..Len(delivered) :
    i < j => \E k, l \in 1..Len(submitted) :
               k < l /\ submitted[k] = delivered[i] /\ submitted[l] = delivered[j]

(* The event loop never meets a collision: classify_envelope lets no       *)
(* publish through whose identifier another publish still uses.            *)
NoCollision == collision = {} /\ collision_notice = {}

(* When the CONNACK says that the broker has lost the session, what        *)
(* reset_session_state discards is not sent in a later session.            *)
ResetIsFinal ==
  \A packet \in Elements(to_broker) :
    IsKind(packet, {"Publish"}) => notices[packet.msg] # "Reset"

(* Every tracked request is answered in the end: no request stays blocked  *)
(* in the scheduler or behind the window.  After a disconnect the loop     *)
(* ends and dropping it answers what is left.                              *)
Completion ==
  \A n \in Msg \cup Ctl :
    (notices[n] = "Open") ~> (notices[n] # "Open" \/ disconnect_complete)

(* A graceful disconnect ends: poll_disconnect_drain waits for exchanges   *)
(* that are going on, or the connection is lost.                           *)
DisconnectEnds ==
  (pending_disconnect # "None") ~> (pending_disconnect = "None" \/ disconnect_complete)

=============================================================================
