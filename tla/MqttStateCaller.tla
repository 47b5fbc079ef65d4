--------------------------- MODULE MqttStateCaller ---------------------------
(***************************************************************************)
(* A caller of MqttState: the event loop's calls (eventloop.rs) and the    *)
(* public methods of MqttState an application may call itself, interleaved *)
(* with any packets of the broker, sound or not.  "held" is what the       *)
(* caller keeps of the requests clean_with_notices and                     *)
(* restore_persisted_session hand back.  It is a set: the properties here  *)
(* hold whatever the order in which the caller replays.                    *)
(*                                                                         *)
(* Three things a caller may do are left out.  It does not drop what it    *)
(* holds (EventLoop::drain_pending_as_failed), it sends no PUBREL that     *)
(* cleaning did not hand back, and it restarts from a checkpoint of the    *)
(* current state; Delivery has the restarts from an older one.             *)
(***************************************************************************)
EXTENDS MqttState

CONSTANT MaxCollisionPings   \* bound on PINGREQ requests during a collision

ASSUME CallerAssumption == MaxCollisionPings \in Nat

VARIABLE held

callerVars == <<stateVars, held>>

----------------------------------------------------------------------------
(* What the caller holds                                                   *)

PubRelRequest == [kind : {"PubRel"}, pkid : Pkid]

ControlRequest == Subscribe \cup Unsubscribe

CleanRequest ==
  [request : Publish, notice : Option(Msg), replay : BOOLEAN]
    \cup [request : PubRelRequest, notice : Option(Msg), replay : {TRUE}]
    \cup [request : ControlRequest, notice : Option(Ctl), replay : BOOLEAN]

HeldOf(kinds) == {h \in held : h.replay /\ h.request.kind \in kinds}

HeldPkids(kinds) == {h.request.pkid : h \in HeldOf(kinds)}

(* The kinds of held request that alone keep their identifier reserved.    *)
ReservedKinds == {"Publish", "Subscribe", "Unsubscribe"}

(* Names already taken by a request or by a notice somewhere.              *)
NamesInUse ==
  {Get(outgoing_pub[p]).msg : p \in Pubs}
    \cup {c.msg : c \in collision}
    \cup UNION {outgoing_pub_notice[p] \cup outgoing_rel_notice[p] : p \in Pkid}
    \cup {Get(pending_subscribe[p]).request.msg : p \in Subs}
    \cup {Get(pending_unsubscribe[p]).request.msg : p \in Unsubs}
    \cup UNION {h.notice : h \in held}
    \cup {h.request.msg : h \in {g \in held : g.request.kind # "PubRel"}}

----------------------------------------------------------------------------
(* Requests                                                                *)

(* A new request, with or without a notice, on a chosen or a given         *)
(* identifier.                                                             *)
SubmitPublish(m, qos, pkid, notice) ==
  /\ m \notin NamesInUse
  /\ outgoing_publish([kind |-> "Publish", msg |-> m, qos |-> qos,
                       pkid |-> pkid, dup |-> FALSE], notice, FALSE)
  /\ UNCHANGED held

SubmitSubscribe(m, pkid, notice) ==
  /\ m \notin NamesInUse
  /\ outgoing_subscribe([kind |-> "Subscribe", msg |-> m, pkid |-> pkid],
                        notice, FALSE)
  /\ UNCHANGED held

SubmitUnsubscribe(m, pkid, notice) ==
  /\ m \notin NamesInUse
  /\ outgoing_unsubscribe([kind |-> "Unsubscribe", msg |-> m, pkid |-> pkid],
                          notice, FALSE)
  /\ UNCHANGED held

(* A held request is sent once the event loop's readiness test allows it.  *)
SendHeld(h) ==
  /\ \/ /\ h.request.kind = "Publish"
        /\ IF h.replay THEN can_send_replayed_publish(h.request)
                       ELSE can_send_publish(h.request)
        /\ outgoing_publish(h.request, h.notice, h.replay)
     \/ /\ h.request.kind = "PubRel"
        /\ can_send_pubrel(h.request.pkid)
        /\ outgoing_pubrel(h.request.pkid, h.notice)
     \/ /\ h.request.kind = "Subscribe"
        /\ h.replay => can_send_replayed_control_packet(h.request.pkid)
        /\ outgoing_subscribe(h.request, h.notice, h.replay)
     \/ /\ h.request.kind = "Unsubscribe"
        /\ h.replay => can_send_replayed_control_packet(h.request.pkid)
        /\ outgoing_unsubscribe(h.request, h.notice, h.replay)
  /\ held' = held \ {h}

Ping ==
  /\ ping.collision_count < MaxCollisionPings
  /\ outgoing_ping
  /\ UNCHANGED held

----------------------------------------------------------------------------
(* Leaving a connection, a session or the process                          *)

(* EventLoop::clean.                                                       *)
Reconnect ==
  /\ clean_with_notices(TRUE)
  /\ held' = held \cup CleanRequestSet

(* MqttState::clean: the identifiers are released with the requests, but   *)
(* those of PUBRELs.                                                       *)
PublicRequest(h) ==
  [request |-> h.request, notice |-> h.notice, replay |-> h.request.kind = "PubRel"]

PublicClean ==
  /\ clean_with_notices(FALSE)
  /\ held' = held \cup {PublicRequest(h) : h \in CleanRequestSet}

(* EventLoop::reset_session_state.                                         *)
Reset ==
  /\ reset_session_state
  /\ held' = {}

Orderings(S) ==
  {s \in [1..Cardinality(S) -> S] :
     /\ \A i, j \in 1..Cardinality(S) : s[i] = s[j] => i = j
     /\ \A x \in S : \E i \in 1..Cardinality(S) : s[i] = x}

(* The checkpoints of the current state, one per order of what is held.    *)
Checkpoints ==
  {persisted_session(s) : s \in Orderings({h.request : h \in {g \in held : g.replay}})}

(* The process ends and a new one restores the checkpoint.                 *)
Restart ==
  \E session \in Checkpoints :
    /\ restore_persisted_session(session)
    /\ held' = {[request |-> r, notice |-> {}, replay |-> TRUE] :
                  r \in Elements(session.replay)}

----------------------------------------------------------------------------
(* The specification                                                       *)

Incoming ==
  /\ \/ \E pkid \in Pkid : \/ handle_incoming_puback(pkid)
                           \/ handle_incoming_pubrec(pkid)
                           \/ handle_incoming_pubcomp(pkid)
                           \/ handle_incoming_suback(pkid)
                           \/ handle_incoming_unsuback(pkid)
     \/ \E pkid \in InPkid : \/ \E qos \in 1..2 : handle_incoming_publish(pkid, qos)
                             \/ handle_incoming_pubrel(pkid)
                             \/ outgoing_puback(pkid)
                             \/ outgoing_pubrec(pkid)
     \/ handle_incoming_pingresp
     \/ clear_collision
     \/ drain_tracked_requests_as_failed
  /\ UNCHANGED held

Init == new_internal /\ held = {}

Next ==
  \/ \E m \in Msg, qos \in 1..2, pkid \in 0..MaxPkid : 
       \E notice \in {{}, {m}} : SubmitPublish(m, qos, pkid, notice)
  \/ \E m \in Ctl, pkid \in 0..MaxPkid : 
       \E notice \in {{}, {m}} : \/ SubmitSubscribe(m, pkid, notice)
                                 \/ SubmitUnsubscribe(m, pkid, notice)
  \/ \E h \in held : SendHeld(h)
  \/ Ping
  \/ Incoming
  \/ Reconnect
  \/ PublicClean
  \/ Reset
  \/ Restart

Spec == Init /\ [][Next]_callerVars

----------------------------------------------------------------------------
(* Properties                                                              *)

IsEnumeration(order, S) ==
  /\ Elements(order) = S
  /\ \A i, j \in 1..Len(order) : order[i] = order[j] => i = j

(* Every variable keeps its type.                                          *)
TypeOK ==
  /\ ping \in PingState
  /\ last_pkid \in 0..MaxPkid
  /\ inflight \in 0..MaxInflight
  /\ outgoing_pub \in [Pkid -> Option(Publish)]
  /\ outgoing_pub_order \in Seq(Pkid)
  /\ outgoing_pub_notice \in [Pkid -> Option(Msg)]
  /\ outgoing_rel \in SUBSET Pkid
  /\ outgoing_rel_order \in Seq(Pkid)
  /\ outgoing_rel_replay \in SUBSET Pkid
  /\ outgoing_rel_replay_order \in Seq(Pkid)
  /\ outgoing_rel_notice \in [Pkid -> Option(Msg)]
  /\ incoming_puback \in SUBSET InPkid
  /\ incoming_pub \in SUBSET InPkid
  /\ incoming_pubrec \in SUBSET InPkid
  /\ outbound_pkid_in_use \in SUBSET Pkid
  /\ outbound_pkid_count \in 0..MaxPkid
  /\ collision \in Option(Publish)
  /\ collision_notice \in Option(Msg)
  /\ pending_subscribe \in
       [Pkid -> Option([request : Subscribe, notice : Option(Ctl)])]
  /\ pending_unsubscribe \in
       [Pkid -> Option([request : Unsubscribe, notice : Option(Ctl)])]
  /\ tracking_len \in 1..(MaxPkid + 1)
  /\ held \in SUBSET CleanRequest

(* No two requests held for replay share an identifier.                    *)
HeldDistinct ==
  \A g, h \in held :
    g.replay /\ h.replay /\ g.request.pkid = h.request.pkid => g = h

(* An exchange is filed under the identifier it was sent with.             *)
FiledByPkid ==
  \A p \in Pkid :
    /\ \A publish \in outgoing_pub[p] : publish.pkid = p /\ publish.qos # 0
    /\ \A pending \in pending_subscribe[p] : pending.request.pkid = p
    /\ \A pending \in pending_unsubscribe[p] : pending.request.pkid = p

(* A packet identifier is reserved exactly while one exchange owns it: a   *)
(* publish, a PUBREL sent or to be replayed, a SUBSCRIBE, an UNSUBSCRIBE   *)
(* or a request held for replay; and the count of identifiers agrees.      *)
PkidOwnership ==
  /\ outbound_pkid_in_use = Pubs \cup Conflicting \cup HeldPkids(ReservedKinds)
  /\ outbound_pkid_count = Cardinality(outbound_pkid_in_use)
  /\ Pubs \cap Conflicting = {}
  /\ outgoing_rel \cap (outgoing_rel_replay \cup Subs \cup Unsubs) = {}
  /\ outgoing_rel_replay \cap (Subs \cup Unsubs) = {}
  /\ Subs \cap Unsubs = {}
  /\ HeldPkids(ReservedKinds) \cap (Pubs \cup Conflicting) = {}
  /\ HeldPkids({"PubRel"}) = outgoing_rel_replay
  /\ HeldDistinct
  /\ FiledByPkid

(* The window counts the publishes and PUBRELs of this connection.         *)
WindowAccounting ==
  inflight = Cardinality(Pubs) + Cardinality(outgoing_rel)

(* The order queues list each tracked exchange once, so a reconnect hands  *)
(* back exactly what is tracked.                                           *)
OrdersComplete ==
  /\ IsEnumeration(outgoing_pub_order, Pubs)
  /\ IsEnumeration(outgoing_rel_order, outgoing_rel)
  /\ IsEnumeration(outgoing_rel_replay_order, outgoing_rel_replay)
  /\ Elements(CleanRequests) = CleanRequestSet

(* Shrinking the vectors never leaves a tracked identifier, or one held    *)
(* for replay, outside them.                                               *)
TrackingCovers ==
  \A p \in Pubs \cup outgoing_rel \cup outgoing_rel_replay
             \cup HeldPkids({"Publish"}) : p < tracking_len

(* A publish is set aside only while the acknowledgement that will send it *)
(* is still to come.                                                       *)
CollisionOwned == \A c \in collision : c.pkid \in Pubs \cup outgoing_rel

(* A notice is in one place, with the exchange it belongs to.              *)
NoticeOwnership ==
  /\ \A p \in Pkid : \A m \in outgoing_pub_notice[p] :
       p \in Pubs /\ Get(outgoing_pub[p]).msg = m
  /\ \A p \in Pkid : outgoing_rel_notice[p] # {} => p \in outgoing_rel
  /\ \A m \in collision_notice : \E c \in collision : c.msg = m
  /\ \A p, q \in Pkid :
       /\ outgoing_pub_notice[p] \cap outgoing_rel_notice[q] = {}
       /\ p # q => outgoing_rel_notice[p] \cap outgoing_rel_notice[q] = {}
  /\ \A h \in held : \A p \in Pkid :
       h.notice \cap (outgoing_pub_notice[p] \cup outgoing_rel_notice[p]) = {}

(* A request held for replay waits only for the window or for a collision: *)
(* its identifier, its slot and its vectors are ready for it.              *)
ReplayReady ==
  inflight < MaxInflight =>
    /\ collision = {} =>
         \A h \in HeldOf({"Publish"}) : can_send_replayed_publish(h.request)
    /\ \A h \in HeldOf({"PubRel"}) : can_send_pubrel(h.request.pkid)
    /\ \A h \in HeldOf({"Subscribe", "Unsubscribe"}) :
         can_send_replayed_control_packet(h.request.pkid)

(* A QoS 2 receive answered by a PUBREC is forgotten only for its PUBREL   *)
(* or with the session: not by a disconnection or a restart.               *)
AnsweredReceivesSurvive ==
  [][\A p \in incoming_pubrec \ incoming_pubrec' :
       handle_incoming_pubrel(p) \/ Reset]_callerVars

(* A checkpoint names every reserved identifier once.                      *)
CheckpointKeepsPkids ==
  \A session \in Checkpoints :
    LET pkids == [i \in 1..Len(session.replay) |-> session.replay[i].pkid]
    IN  IsEnumeration(pkids, outbound_pkid_in_use)

=============================================================================
