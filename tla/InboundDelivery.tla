--------------------------- MODULE InboundDelivery ---------------------------
(***************************************************************************)
(* Receiving through the v4 client, end to end: a broker that follows MQTT *)
(* 3.1.1 sends QoS 1 and QoS 2 messages, reusing its packet identifiers    *)
(* and sending again after a reconnection what was not acknowledged; the   *)
(* event loop of EventLoop answers them, by itself or when the application *)
(* says so; and the application is given them as events.  The failures are *)
(* those of Delivery, whose connections, restarts and loss of the session  *)
(* are used here; nothing is published meanwhile.                          *)
(***************************************************************************)
EXTENDS Delivery

CONSTANTS
  InMsg,             \* the messages the broker has for this client
  ExactlyOnceIn      \* those it sends with QoS 2; the others have QoS 1

ASSUME InboundAssumption == ExactlyOnceIn \subseteq InMsg

VARIABLES
  unsent,            \* the messages the broker has not sent yet
  exchanges,         \* identifier -> Option of the broker's open exchange
  sent_here,         \* the identifiers sent, or sent again, on this connection
  answered,          \* the messages whose PUBACK or PUBREC has been written
  given,             \* the messages some poll has returned
  to_ack             \* the publishes the application may still acknowledge

senderVars == <<unsent, exchanges, sent_here>>
receiverVars == <<answered, given, to_ack>>
inboundVars == <<vars, senderVars, receiverVars>>

----------------------------------------------------------------------------
(* The broker                                                              *)

Qos(m) == IF m \in ExactlyOnceIn THEN 2 ELSE 1

IncomingPublish(m, pkid) ==
  [kind |-> "Publish", msg |-> m, qos |-> Qos(m), pkid |-> pkid]

Send(packet) ==
  /\ network
  /\ from_broker' = Append(from_broker, packet)
  /\ sent_here' = sent_here \cup {packet.pkid}

NotSending ==
  <<stateVars, laneVars, pending, queued, network, fault, outgoing, disconnectVars,
    session_store, store, reportVars, faults_left, brokerVars, clientVars, receiverVars>>

BrokerSend(m, pkid) ==
  /\ exchanges[pkid] = {}
  /\ Send(IncomingPublish(m, pkid))
  /\ unsent' = unsent \ {m}
  /\ exchanges' = [exchanges EXCEPT ![pkid] = {[msg |-> m, released |-> FALSE]}]
  /\ UNCHANGED <<NotSending, to_broker>>

(* What is open when the client comes back is sent again.                  *)
BrokerResend(pkid) ==
  /\ pkid \notin sent_here
  /\ \E exchange \in exchanges[pkid] :
       Send(IF exchange.released THEN PubRel(pkid) ELSE IncomingPublish(exchange.msg, pkid))
  /\ UNCHANGED <<NotSending, to_broker, unsent, exchanges>>

(* A PUBACK or a PUBCOMP ends an exchange; a PUBREC releases its message,  *)
(* and is answered with a PUBREL every time.                               *)
BrokerAnswered ==
  /\ to_broker # <<>>
  /\ to_broker' = Tail(to_broker)
  /\ LET packet == Head(to_broker)
         ended == {e \in exchanges[packet.pkid] :
                     \/ packet.kind = "PubAck" /\ Qos(e.msg) = 1
                     \/ packet.kind = "PubComp" /\ e.released}
     IN  \/ /\ packet.kind \in {"PubAck", "PubComp"}
            /\ exchanges' = [exchanges EXCEPT ![packet.pkid] = @ \ ended]
            /\ UNCHANGED <<from_broker, sent_here>>
         \/ /\ packet.kind = "PubRec"
            /\ exchanges' = [exchanges EXCEPT ![packet.pkid] =
                 {[e EXCEPT !.released = (Qos(e.msg) = 2)] : e \in @}]
            /\ Send(PubRel(packet.pkid))
  /\ UNCHANGED <<NotSending, unsent>>

----------------------------------------------------------------------------
(* The application                                                         *)

(* poll returns a publish to the application.                              *)
Poll ==
  /\ ReturnEvent
  /\ given' = given \cup {Head(events).msg}
  /\ to_ack' = IF AckMode = "Manual" THEN to_ack \cup {Head(events)} ELSE {}
  /\ UNCHANGED <<brokerVars, clientVars, senderVars, answered>>

(* AsyncClient::ack of a publish the application was given, now or on an   *)
(* earlier connection.                                                     *)
ClientAck(publish) ==
  /\ control_requests_rx' =
       Append(control_requests_rx,
              Envelope(Packet(IF publish.qos = 2 THEN "PubRec" ELSE "PubAck",
                              publish.pkid), {}))
  /\ to_ack' = to_ack \ {publish}
  /\ UNCHANGED <<stateVars, requests_rx, immediate_disconnect_rx, pending, queued,
                 network, fault, outgoing, disconnectVars, session_store, store,
                 reportVars, wireVars, faults_left, brokerVars, clientVars,
                 senderVars, answered, given>>

----------------------------------------------------------------------------
(* The specification                                                       *)

InboundInit ==
  /\ Init
  /\ unsent = InMsg
  /\ exchanges = [p \in InPkid |-> {}]
  /\ sent_here = {}
  /\ answered = {}
  /\ given = {}
  /\ to_ack = {}

(* The messages answered by the packets a step writes.                     *)
NewlyAnswered ==
  UNION {{e.msg : e \in exchanges[packet.pkid]} :
           packet \in {q \in Elements(to_broker') \ Elements(to_broker) :
                         IsKind(q, {"PubAck", "PubRec"})}}

(* A step of Delivery.  What a lost connection carried may be sent again,  *)
(* a new process has no publishes to acknowledge, and a broker that loses  *)
(* the session loses its exchanges.                                        *)
Underlying(step) ==
  /\ step
  /\ sent_here' = IF network' THEN sent_here ELSE {}
  /\ to_ack' = IF crashes' = crashes THEN to_ack ELSE {}
  /\ exchanges' = IF broker_session => broker_session' THEN exchanges
                  ELSE [p \in InPkid |-> {}]
  /\ answered' = answered \cup NewlyAnswered
  /\ UNCHANGED <<unsent, given>>

InboundNext ==
  \/ Underlying(LoopStep)
  \/ Underlying(ConnectionLost /\ UNCHANGED <<brokerVars, clientVars>>)
  \/ Underlying(Connect)
  \/ Underlying(BrokerForget)
  \/ Underlying(Crash)
  \/ \E m \in unsent, pkid \in InPkid : BrokerSend(m, pkid)
  \/ \E pkid \in InPkid : BrokerResend(pkid)
  \/ BrokerAnswered
  \/ Poll
  \/ \E publish \in to_ack : ClientAck(publish)

(* As in Delivery, and the broker sends again what is open, and the        *)
(* application polls and acknowledges every publish.                       *)
InboundFairness ==
  /\ WF_inboundVars(Underlying(LoopStep))
  /\ WF_inboundVars(Underlying(Connect))
  /\ WF_inboundVars(BrokerAnswered)
  /\ WF_inboundVars(Poll)
  /\ \A pkid \in InPkid : WF_inboundVars(BrokerResend(pkid))
  /\ WF_inboundVars(\E publish \in to_ack : ClientAck(publish))

InboundSpec == InboundInit /\ [][InboundNext]_inboundVars /\ InboundFairness

----------------------------------------------------------------------------
(* Properties                                                              *)

EventMessages == {e.msg : e \in Elements(events)}

(* A message is acknowledged to the broker only when the application       *)
(* has it: no new message on a used identifier is taken for the repetition *)
(* of an earlier one, and no acknowledgement left from another connection  *)
(* or another process answers for a message the application has not seen.  *)
(* With automatic acknowledgements the answer goes out before the event is *)
(* returned, and a process that ends between the two loses the message.    *)
AnswersAreTrue ==
  \A m \in answered :
    \/ m \in given
    \/ AckMode = "Automatic" /\ (m \in EventMessages \/ crashes > 0)

(* Once the PUBREC of a QoS 2 message has been written, whether or not the *)
(* broker gets it, the client makes no event of the message any more: the  *)
(* duplicate test recognises the repetition after a lost connection, a     *)
(* failed save and a restart.                                              *)
ReceivedOnce ==
  [][\A m \in answered \cap ExactlyOnceIn :
       m \in {e.msg : e \in Elements(events')} => m \in EventMessages]_inboundVars

(* Every exchange the broker opens ends: an acknowledgement dropped by     *)
(* clean() is asked for again, a repeated PUBLISH and a repeated PUBREL    *)
(* are answered.                                                           *)
ReceivesEnd ==
  \A pkid \in InPkid : (exchanges[pkid] # {}) ~> (exchanges[pkid] = {})

=============================================================================
