------------------------------ MODULE MqttState ------------------------------
(***************************************************************************)
(* The MQTT 3.1.1 protocol state of the client, rumqttc-v4/src/state.rs.   *)
(* One variable per field of struct MqttState and one operator per method. *)
(* A method that changes the state is an action; the packet and notices it *)
(* returns are state functions evaluated in the state before the call.     *)
(* A method called in a state where it returns an error is either disabled *)
(* (the error leaves the state alone) or a separate disjunct (it does not).*)
(*                                                                         *)
(* Abstractions.  An Option is a set with at most one element.  A notice   *)
(* handle is named after the request it belongs to.  The pkid-indexed      *)
(* vectors all have the same length, kept in tracking_len; events, clocks  *)
(* and payloads are left out.                                              *)
(***************************************************************************)
EXTENDS Integers, FiniteSets, Sequences

CONSTANTS
  MaxPkid,       \* u16::MAX, the largest packet identifier
  MaxInflight,   \* max_inflight
  WarmSlots,     \* WARM_TRACKING_SLOTS
  Msg,           \* application messages
  Ctl,           \* application subscribe and unsubscribe requests
  InPkid,        \* packet identifiers the broker uses
  AckMode        \* ack_mode, "Automatic" or "Manual"

ASSUME StateAssumption ==
  /\ MaxPkid \in Nat \ {0}
  /\ MaxInflight \in 0..MaxPkid
  /\ WarmSlots \in Nat
  /\ AckMode \in {"Automatic", "Manual"}

VARIABLES
  ping,                       \* PingState
  last_pkid,
  inflight,
  outgoing_pub,               \* packet identifier -> Option of publish
  outgoing_pub_order,
  outgoing_pub_notice,        \* packet identifier -> Option of notice
  outgoing_rel,
  outgoing_rel_order,
  outgoing_rel_replay,
  outgoing_rel_replay_order,
  outgoing_rel_notice,        \* packet identifier -> Option of notice
  incoming_puback,
  incoming_pub,
  incoming_pubrec,
  outbound_pkid_in_use,
  outbound_pkid_count,
  collision,                  \* Option of publish
  collision_notice,           \* Option of notice
  pending_subscribe,          \* packet identifier -> Option of request
  pending_unsubscribe,        \* packet identifier -> Option of request
  tracking_len                \* length of the pkid-indexed vectors

publishVars == <<outgoing_pub, outgoing_pub_order, outgoing_pub_notice>>
releaseVars == <<outgoing_rel, outgoing_rel_order, outgoing_rel_notice>>
replayVars == <<outgoing_rel_replay, outgoing_rel_replay_order>>
incomingVars == <<incoming_puback, incoming_pub, incoming_pubrec>>
pkidVars == <<outbound_pkid_in_use, outbound_pkid_count>>
collisionVars == <<collision, collision_notice>>
controlVars == <<pending_subscribe, pending_unsubscribe>>
stateVars == <<ping, last_pkid, inflight, publishVars, releaseVars, replayVars,
               incomingVars, pkidVars, collisionVars, controlVars, tracking_len>>

----------------------------------------------------------------------------
(* Data                                                                    *)

Pkid == 1..MaxPkid

Option(S) == {{}} \cup {{x} : x \in S}

Get(option) == CHOOSE x \in option : TRUE

Publish == [kind : {"Publish"}, msg : Msg, qos : 0..2, pkid : 0..MaxPkid,
            dup : BOOLEAN]

Subscribe == [kind : {"Subscribe"}, msg : Ctl, pkid : 0..MaxPkid]

Unsubscribe == [kind : {"Unsubscribe"}, msg : Ctl, pkid : 0..MaxPkid]

PubRel(pkid) == [kind |-> "PubRel", pkid |-> pkid]

PingState == [awaiting : BOOLEAN, collision_count : Nat]

NewPing == [awaiting |-> FALSE, collision_count |-> 0]

Elements(s) == {s[i] : i \in 1..Len(s)}

Min2(a, b) == IF a < b THEN a ELSE b
Max2(a, b) == IF a < b THEN b ELSE a

(* Identifiers in increasing order, as BTreeMap and FixedBitSet iterate.   *)
Ascending(S) ==
  [i \in 1..Cardinality(S) |->
     CHOOSE x \in S : Cardinality({y \in S : y < x}) = i - 1]

Pubs == {p \in Pkid : outgoing_pub[p] # {}}
Subs == {p \in Pkid : pending_subscribe[p] # {}}
Unsubs == {p \in Pkid : pending_unsubscribe[p] # {}}

warm_tracking_len == Min2(MaxInflight + 1, WarmSlots + 1)

(* The items of s at the positions T, in the order of s.                   *)
Select(s, T) == [k \in 1..Cardinality(T) |-> s[Ascending(T)[k]]]

(* Mutant: acknowledgements are taken to come in the order of sending.     *)
remove_ordered_pkid_at_front(order, pkid) ==
  IF order = <<>> THEN order ELSE Tail(order)

(* Deleting the first occurrence of pkid, if there is one.                 *)
remove_ordered_pkid(order, pkid) ==
  IF pkid \notin Elements(order) THEN order
  ELSE LET position == CHOOSE i \in 1..Len(order) :
                         order[i] = pkid /\ \A j \in 1..(i - 1) : order[j] # pkid
       IN  [j \in 1..(Len(order) - 1) |->
              IF j < position THEN order[j] ELSE order[j + 1]]

(* Appending the identifiers of "more" that "order" does not contain.      *)
append_missing(order, more) ==
  order \o Select(more, {i \in 1..Len(more) : more[i] \notin Elements(order)})

----------------------------------------------------------------------------
(* Construction, packet identifiers and capacity                           *)

(* new_internal: every field of a new state.                               *)
new_internal ==
  /\ ping = NewPing
  /\ last_pkid = 0
  /\ inflight = 0
  /\ outgoing_pub = [p \in Pkid |-> {}]
  /\ outgoing_pub_order = <<>>
  /\ outgoing_pub_notice = [p \in Pkid |-> {}]
  /\ outgoing_rel = {}
  /\ outgoing_rel_order = <<>>
  /\ outgoing_rel_replay = {}
  /\ outgoing_rel_replay_order = <<>>
  /\ outgoing_rel_notice = [p \in Pkid |-> {}]
  /\ incoming_puback = {}
  /\ incoming_pub = {}
  /\ incoming_pubrec = {}
  /\ outbound_pkid_in_use = {}
  /\ outbound_pkid_count = 0
  /\ collision = {}
  /\ collision_notice = {}
  /\ pending_subscribe = [p \in Pkid |-> {}]
  /\ pending_unsubscribe = [p \in Pkid |-> {}]
  /\ tracking_len = warm_tracking_len

(* Mutant: drained as soon as the window is empty.                         *)
outbound_requests_drained_by_window == inflight = 0 /\ collision = {}

outbound_requests_drained ==
  /\ inflight = 0
  /\ collision = {}
  /\ collision_notice = {}
  /\ Subs = {}
  /\ Unsubs = {}
  /\ Pubs = {}
  /\ outgoing_pub_order = <<>>
  /\ \A p \in Pkid : outgoing_pub_notice[p] = {}
  /\ \A p \in Pkid : outgoing_rel_notice[p] = {}
  /\ outgoing_rel = {}
  /\ outgoing_rel_order = <<>>
  /\ outgoing_rel_replay = {}
  /\ outgoing_rel_replay_order = <<>>
  /\ outbound_pkid_count = 0

(* The last step of the methods that may leave nothing outstanding.  The   *)
(* other fields it clears are empty already when it acts.                  *)
maybe_shrink_outgoing_tracking_capacity ==
  IF tracking_len > warm_tracking_len /\ outbound_requests_drained'
  THEN tracking_len' = warm_tracking_len /\ last_pkid' = 0
  ELSE UNCHANGED <<tracking_len, last_pkid>>

control_packet_identifier_available == outbound_pkid_count < MaxPkid

(* Mutant: the next identifier, free or not.                               *)
next_free_outbound_pkid_after_blindly(last) == {IF last = MaxPkid THEN 1 ELSE last + 1}

(* The first free identifier after last, else the first free one: an Option*)
next_free_outbound_pkid_after(last) ==
  LET free == Pkid \ outbound_pkid_in_use
      after == {p \in free : p > last}
      least(S) == {p \in S : \A q \in S : p <= q}
  IN  IF ~control_packet_identifier_available THEN {}
      ELSE IF after # {} THEN least(after) ELSE least(free)

reserve_outbound_pkid(pkid) ==
  /\ pkid \notin outbound_pkid_in_use
  /\ outbound_pkid_in_use' = outbound_pkid_in_use \cup {pkid}
  /\ outbound_pkid_count' = outbound_pkid_count + 1

accept_replayed_outbound_pkid(pkid) ==
  /\ pkid \in outbound_pkid_in_use
  /\ UNCHANGED pkidVars

(* Mutants: the identifiers of a finished exchange stay reserved; the      *)
(* count goes down whether or not an identifier was reserved.              *)
release_outbound_pkids_never(pkids) == UNCHANGED pkidVars

release_outbound_pkids_miscounted(pkids) ==
  /\ outbound_pkid_in_use' = outbound_pkid_in_use \ pkids
  /\ outbound_pkid_count' = outbound_pkid_count - 1

(* release_outbound_pkid, called for each identifier of a set.             *)
release_outbound_pkids(pkids) ==
  /\ outbound_pkid_in_use' = outbound_pkid_in_use \ pkids
  /\ outbound_pkid_count' =
       outbound_pkid_count - Cardinality(pkids \cap outbound_pkid_in_use)

(* Identifiers of an exchange that a new publish may not share.            *)
Conflicting ==
  outgoing_rel \cup outgoing_rel_replay \cup Subs \cup Unsubs

----------------------------------------------------------------------------
(* Readiness tests of the event loop                                       *)

can_send_publish(publish) ==
  \/ publish.qos = 0
  \/ /\ inflight < MaxInflight
     /\ collision = {}
     /\ IF publish.pkid = 0
        THEN next_free_outbound_pkid_after(last_pkid) # {}
        ELSE publish.pkid \notin outbound_pkid_in_use

(* Mutant: a replayed publish is tested as a new one.                      *)
can_send_replayed_publish_as_new(publish) == can_send_publish(publish)

can_send_replayed_publish(publish) ==
  \/ publish.qos = 0
  \/ /\ inflight < MaxInflight
     /\ collision = {}
     /\ publish.pkid \in outbound_pkid_in_use
     /\ publish.pkid < tracking_len
     /\ publish.pkid \notin Pubs \cup Conflicting

(* Mutant: a replayed control packet is tested as a new one.               *)
can_send_replayed_control_packet_as_new(pkid) == pkid \notin outbound_pkid_in_use

can_send_replayed_control_packet(pkid) ==
  /\ pkid \in outbound_pkid_in_use
  /\ pkid \notin Conflicting

can_send_pubrel(pkid) ==
  \/ pkid \in outgoing_rel
  \/ pkid \in outgoing_rel_replay /\ inflight < MaxInflight

----------------------------------------------------------------------------
(* Outgoing requests                                                       *)

(* The identifier a publish is sent with, an Option.                       *)
publish_pkid(publish, replay) ==
  IF publish.pkid # 0 THEN {publish.pkid}
  ELSE IF replay THEN {}
  ELSE next_free_outbound_pkid_after(last_pkid)

(* Mutant: without a notice of its own, the publish inherits the last one. *)
SetAside_with_old_notice(publish, notice) ==
  /\ collision' = {publish}
  /\ collision_notice' = IF notice = {} THEN collision_notice ELSE notice
  /\ UNCHANGED <<inflight, publishVars, pkidVars>>

(* A publish on an identifier whose publish is unacknowledged is set aside *)
(* and replaces the one set aside before.                                  *)
SetAside(publish, notice) ==
  /\ collision' = {publish}
  /\ collision_notice' = notice
  /\ UNCHANGED <<inflight, publishVars, pkidVars>>

(* Mutant: a replayed publish takes no slot of the window.                 *)
Track_replay_uncounted(publish, notice, replay) ==
  LET pkid == publish.pkid
  IN  /\ pkid \notin Conflicting
      /\ IF replay THEN accept_replayed_outbound_pkid(pkid)
                   ELSE reserve_outbound_pkid(pkid)
      /\ outgoing_pub' = [outgoing_pub EXCEPT ![pkid] = {publish}]
      /\ outgoing_pub_order' = Append(outgoing_pub_order, pkid)
      /\ outgoing_pub_notice' = [outgoing_pub_notice EXCEPT ![pkid] = notice]
      /\ inflight' = IF replay THEN inflight ELSE inflight + 1
      /\ UNCHANGED collisionVars

Track(publish, notice, replay) ==
  LET pkid == publish.pkid
  IN  /\ pkid \notin Conflicting
      /\ IF replay THEN accept_replayed_outbound_pkid(pkid)
                   ELSE reserve_outbound_pkid(pkid)
      /\ outgoing_pub' = [outgoing_pub EXCEPT ![pkid] = {publish}]
      /\ outgoing_pub_order' = Append(outgoing_pub_order, pkid)
      /\ outgoing_pub_notice' = [outgoing_pub_notice EXCEPT ![pkid] = notice]
      /\ inflight' = inflight + 1
      /\ UNCHANGED collisionVars

(* InvalidState: the error is found after the vectors have grown.          *)
Refuse(pkid, replay) ==
  /\ pkid \in Conflicting \/ replay # (pkid \in outbound_pkid_in_use)
  /\ UNCHANGED <<inflight, publishVars, pkidVars, collisionVars>>

outgoing_publish(publish, notice, replay) ==
  /\ publish.qos # 0
  /\ inflight < MaxInflight
  /\ \E pkid \in publish_pkid(publish, replay) :
       LET numbered == [publish EXCEPT !.pkid = pkid]
       IN  /\ last_pkid' = IF publish.pkid = 0 THEN pkid ELSE last_pkid
           /\ tracking_len' = Max2(tracking_len, pkid + 1)
           /\ \/ outgoing_pub[pkid] # {} /\ SetAside(numbered, notice)
              \/ outgoing_pub[pkid] = {} /\ Track(numbered, notice, replay)
              \/ outgoing_pub[pkid] = {} /\ Refuse(pkid, replay)
  /\ UNCHANGED <<ping, releaseVars, replayVars, incomingVars, controlVars>>

(* A PUBREL waiting for replay takes a slot of the window again.           *)
outgoing_pubrel(pkid, notice) ==
  /\ \/ /\ pkid \in outgoing_rel_replay
        /\ inflight < MaxInflight
        /\ outgoing_rel_replay' = outgoing_rel_replay \ {pkid}
        /\ outgoing_rel_replay_order' =
             remove_ordered_pkid(outgoing_rel_replay_order, pkid)
        /\ outgoing_rel' = outgoing_rel \cup {pkid}
        /\ outgoing_rel_order' = Append(outgoing_rel_order, pkid)
        /\ inflight' = inflight + 1
     \/ /\ pkid \in outgoing_rel \ outgoing_rel_replay
        /\ UNCHANGED <<outgoing_rel, outgoing_rel_order, replayVars, inflight>>
  /\ tracking_len' = Max2(tracking_len, pkid + 1)
  /\ outgoing_rel_notice' =
       IF notice # {} \/ outgoing_rel_notice[pkid] = {}
       THEN [outgoing_rel_notice EXCEPT ![pkid] = notice]
       ELSE outgoing_rel_notice
  /\ UNCHANGED <<ping, last_pkid, publishVars, incomingVars, pkidVars,
                 collisionVars, controlVars>>

(* Mutant: the identifier is chosen but not reserved.                      *)
ControlPkid_unreserved(given, pkid, replay) ==
  /\ IF given = 0 THEN pkid \in next_free_outbound_pkid_after(last_pkid)
                  ELSE pkid = given
  /\ last_pkid' = pkid
  /\ UNCHANGED pkidVars

(* The identifier of a SUBSCRIBE or UNSUBSCRIBE: chosen, given or replayed.*)
ControlPkid(given, pkid, replay) ==
  IF replay
  THEN pkid = given /\ accept_replayed_outbound_pkid(pkid) /\ UNCHANGED last_pkid
  ELSE /\ reserve_outbound_pkid(pkid)
       /\ \/ given = 0 /\ pkid \in next_free_outbound_pkid_after(last_pkid)
                       /\ last_pkid' = pkid
          \/ given # 0 /\ pkid = given /\ UNCHANGED last_pkid

outgoing_subscribe(request, notice, replay) ==
  /\ \E pkid \in Pkid :
       /\ ControlPkid(request.pkid, pkid, replay)
       /\ pending_subscribe' =
            [pending_subscribe EXCEPT ![pkid] =
               {[request |-> [request EXCEPT !.pkid = pkid], notice |-> notice]}]
  /\ UNCHANGED <<ping, inflight, publishVars, releaseVars, replayVars,
                 incomingVars, collisionVars, pending_unsubscribe, tracking_len>>

outgoing_unsubscribe(request, notice, replay) ==
  /\ \E pkid \in Pkid :
       /\ ControlPkid(request.pkid, pkid, replay)
       /\ pending_unsubscribe' =
            [pending_unsubscribe EXCEPT ![pkid] =
               {[request |-> [request EXCEPT !.pkid = pkid], notice |-> notice]}]
  /\ UNCHANGED <<ping, inflight, publishVars, releaseVars, replayVars,
                 incomingVars, collisionVars, pending_subscribe, tracking_len>>

(* The application's acknowledgements (manual mode).                       *)
outgoing_puback(pkid) ==
  /\ pkid \in incoming_puback
  /\ incoming_puback' = incoming_puback \ {pkid}
  /\ UNCHANGED <<ping, last_pkid, inflight, publishVars, releaseVars, replayVars,
                 incoming_pub, incoming_pubrec, pkidVars, collisionVars,
                 controlVars, tracking_len>>

(* Mutant: the PUBREC is sent and not recorded.                            *)
outgoing_pubrec_unrecorded(pkid) ==
  /\ pkid \in incoming_pub
  /\ pkid \notin incoming_pubrec
  /\ UNCHANGED stateVars

outgoing_pubrec(pkid) ==
  /\ pkid \in incoming_pub
  /\ pkid \notin incoming_pubrec
  /\ incoming_pubrec' = incoming_pubrec \cup {pkid}
  /\ UNCHANGED <<ping, last_pkid, inflight, publishVars, releaseVars, replayVars,
                 incoming_puback, incoming_pub, pkidVars, collisionVars,
                 controlVars, tracking_len>>

(* The collision count a PINGREQ request leaves behind, error or not.      *)
collision_pings ==
  IF collision = {} THEN ping.collision_count ELSE ping.collision_count + 1

collision_timeout == collision # {} /\ collision_pings >= 2

outgoing_ping ==
  /\ ping' = [awaiting |-> ping.awaiting \/ ~collision_timeout,
              collision_count |-> collision_pings]
  /\ UNCHANGED <<last_pkid, inflight, publishVars, releaseVars, replayVars,
                 incomingVars, pkidVars, collisionVars, controlVars, tracking_len>>

clear_collision ==
  /\ collision' = {}
  /\ collision_notice' = {}
  /\ ping' = [ping EXCEPT !.collision_count = 0]
  /\ UNCHANGED <<last_pkid, inflight, publishVars, releaseVars, replayVars,
                 incomingVars, pkidVars, controlVars, tracking_len>>

----------------------------------------------------------------------------
(* Incoming packets                                                        *)

(* Mutant: the publish set aside is forgotten by its acknowledgement.      *)
check_collision_never(pkid) == FALSE

check_collision(pkid) == \E publish \in collision : publish.pkid = pkid

(* The common end of handle_incoming_puback and handle_incoming_pubcomp,   *)
(* given the publish tracking without pkid: its identifier goes to the     *)
(* publish set aside for it, if any, else it is released.                  *)
FinishPublish(pkid, pubs, order, notices) ==
  IF check_collision(pkid)
  THEN /\ outgoing_pub' = [pubs EXCEPT ![pkid] = collision]
       /\ outgoing_pub_order' = Append(order, pkid)
       /\ outgoing_pub_notice' = [notices EXCEPT ![pkid] = collision_notice]
       /\ collision' = {}
       /\ collision_notice' = {}
       /\ ping' = [ping EXCEPT !.collision_count = 0]
       /\ tracking_len' = Max2(tracking_len, pkid + 1)
       /\ UNCHANGED <<last_pkid, inflight, pkidVars>>
  ELSE /\ outgoing_pub' = pubs
       /\ outgoing_pub_order' = order
       /\ outgoing_pub_notice' = notices
       /\ inflight' = inflight - 1
       /\ release_outbound_pkids({pkid})
       /\ UNCHANGED <<ping, collisionVars>>
       /\ maybe_shrink_outgoing_tracking_capacity

handle_incoming_puback(pkid) ==
  /\ outgoing_pub[pkid] # {}
  /\ UNCHANGED <<releaseVars, replayVars, incomingVars, controlVars>>
  /\ FinishPublish(pkid, [outgoing_pub EXCEPT ![pkid] = {}],
                   remove_ordered_pkid(outgoing_pub_order, pkid),
                   [outgoing_pub_notice EXCEPT ![pkid] = {}])

handle_incoming_pubrec(pkid) ==
  /\ outgoing_pub[pkid] # {}
  /\ outgoing_pub' = [outgoing_pub EXCEPT ![pkid] = {}]
  /\ outgoing_pub_order' = remove_ordered_pkid(outgoing_pub_order, pkid)
  /\ outgoing_pub_notice' = [outgoing_pub_notice EXCEPT ![pkid] = {}]
  /\ outgoing_rel' = outgoing_rel \cup {pkid}
  /\ outgoing_rel_order' = Append(outgoing_rel_order, pkid)
  /\ outgoing_rel_notice' =
       [outgoing_rel_notice EXCEPT ![pkid] = outgoing_pub_notice[pkid]]
  /\ UNCHANGED <<ping, last_pkid, inflight, replayVars, incomingVars, pkidVars,
                 collisionVars, controlVars, tracking_len>>

handle_incoming_pubcomp(pkid) ==
  /\ pkid \in outgoing_rel
  /\ outgoing_rel' = outgoing_rel \ {pkid}
  /\ outgoing_rel_order' = remove_ordered_pkid(outgoing_rel_order, pkid)
  /\ outgoing_rel_notice' = [outgoing_rel_notice EXCEPT ![pkid] = {}]
  /\ UNCHANGED <<replayVars, incomingVars, controlVars>>
  /\ FinishPublish(pkid, outgoing_pub, outgoing_pub_order, outgoing_pub_notice)

(* A SUBACK with the expected number of return codes.                      *)
handle_incoming_suback(pkid) ==
  /\ pending_subscribe[pkid] # {}
  /\ pending_subscribe' = [pending_subscribe EXCEPT ![pkid] = {}]
  /\ release_outbound_pkids({pkid})
  /\ UNCHANGED <<ping, last_pkid, inflight, publishVars, releaseVars, replayVars,
                 incomingVars, collisionVars, pending_unsubscribe, tracking_len>>

handle_incoming_unsuback(pkid) ==
  /\ pending_unsubscribe[pkid] # {}
  /\ pending_unsubscribe' = [pending_unsubscribe EXCEPT ![pkid] = {}]
  /\ release_outbound_pkids({pkid})
  /\ UNCHANGED <<ping, last_pkid, inflight, publishVars, releaseVars, replayVars,
                 incomingVars, collisionVars, pending_subscribe, tracking_len>>

(* Mutant: the acknowledgement mode is ignored.                            *)
answers_pubrec_at_once(pkid) == TRUE

(* Is a PUBREC written in answer to this incoming QoS 2 publish?           *)
answers_pubrec(pkid) == AckMode = "Automatic" \/ pkid \in incoming_pubrec

(* A QoS 2 publish already answered by a PUBREC is not given to the        *)
(* application again.                                                      *)
is_duplicate_incoming_qos2_publish(pkid, qos) ==
  qos = 2 /\ pkid \in incoming_pubrec

handle_incoming_publish(pkid, qos) ==
  /\ incoming_puback' =
       IF qos = 1 /\ AckMode = "Manual" THEN incoming_puback \cup {pkid}
       ELSE IF qos = 1 THEN incoming_puback \ {pkid} ELSE incoming_puback
  /\ incoming_pub' = IF qos = 2 THEN incoming_pub \cup {pkid} ELSE incoming_pub
  /\ incoming_pubrec' = IF qos = 2 /\ answers_pubrec(pkid)
                        THEN incoming_pubrec \cup {pkid} ELSE incoming_pubrec
  /\ UNCHANGED <<ping, last_pkid, inflight, publishVars, releaseVars, replayVars,
                 pkidVars, collisionVars, controlVars, tracking_len>>

(* Mutant: the receive is forgotten and its PUBREC is not.                 *)
handle_incoming_pubrel_half(pkid) ==
  /\ pkid \in incoming_pub => pkid \in incoming_pubrec
  /\ incoming_pub' = incoming_pub \ {pkid}
  /\ UNCHANGED <<ping, last_pkid, inflight, publishVars, releaseVars, replayVars,
                 incoming_puback, incoming_pubrec, pkidVars, collisionVars,
                 controlVars, tracking_len>>

(* A PUBREL is answered with a PUBCOMP whether or not it is known, unless  *)
(* its PUBREC has not been sent.                                           *)
handle_incoming_pubrel(pkid) ==
  /\ pkid \in incoming_pub => pkid \in incoming_pubrec
  /\ incoming_pub' = incoming_pub \ {pkid}
  /\ incoming_pubrec' =
       IF pkid \in incoming_pub THEN incoming_pubrec \ {pkid} ELSE incoming_pubrec
  /\ UNCHANGED <<ping, last_pkid, inflight, publishVars, releaseVars, replayVars,
                 incoming_puback, pkidVars, collisionVars, controlVars, tracking_len>>

handle_incoming_pingresp ==
  /\ ping' = [ping EXCEPT !.awaiting = FALSE]
  /\ UNCHANGED <<last_pkid, inflight, publishVars, releaseVars, replayVars,
                 incomingVars, pkidVars, collisionVars, controlVars, tracking_len>>

----------------------------------------------------------------------------
(* Leaving a connection: what is outstanding becomes requests to replay    *)

CleanPublish(pkid) ==
  [request |-> [Get(outgoing_pub[pkid]) EXCEPT !.dup = TRUE],
   notice |-> outgoing_pub_notice[pkid], replay |-> TRUE]

CleanCollision(publish) ==
  [request |-> publish, notice |-> collision_notice, replay |-> FALSE]

CleanPubRel(pkid) ==
  [request |-> PubRel(pkid), notice |-> outgoing_rel_notice[pkid], replay |-> TRUE]

CleanControl(pending) ==
  [request |-> pending.request, notice |-> pending.notice, replay |-> TRUE]

(* The requests clean_with_notices_internal returns...                     *)
CleanRequestSet ==
  {CleanPublish(p) : p \in Pubs}
    \cup {CleanCollision(c) : c \in collision}
    \cup {CleanPubRel(p) : p \in outgoing_rel}
    \cup {CleanControl(Get(pending_subscribe[p])) : p \in Subs}
    \cup {CleanControl(Get(pending_unsubscribe[p])) : p \in Unsubs}

(* ...and their order.                                                     *)
CleanRequests ==
  LET pubs == append_missing(outgoing_pub_order, Ascending(Pubs))
      rels == append_missing(outgoing_rel_order, Ascending(outgoing_rel))
      subs == Ascending(Subs)
      unsubs == Ascending(Unsubs)
  IN  [i \in 1..Len(pubs) |-> CleanPublish(pubs[i])]
        \o (IF collision = {} THEN <<>> ELSE <<CleanCollision(Get(collision))>>)
        \o [i \in 1..Len(rels) |-> CleanPubRel(rels[i])]
        \o [i \in 1..Len(subs) |-> CleanControl(Get(pending_subscribe[subs[i]]))]
        \o [i \in 1..Len(unsubs) |->
              CleanControl(Get(pending_unsubscribe[unsubs[i]]))]

(* clean_with_notices_internal.  PUBRELs keep their identifiers even when  *)
(* keep, that is keep_replay_pkids_reserved, is FALSE.                     *)
clean_with_notices(keep) ==
  /\ outgoing_pub' = [p \in Pkid |-> {}]
  /\ outgoing_pub_order' = <<>>
  /\ outgoing_pub_notice' =
       [p \in Pkid |-> IF p \in Pubs THEN {} ELSE outgoing_pub_notice[p]]
  /\ collision' = {}
  /\ collision_notice' = IF collision = {} THEN collision_notice ELSE {}
  /\ outgoing_rel' = {}
  /\ outgoing_rel_order' = <<>>
  /\ outgoing_rel_replay' = outgoing_rel_replay \cup outgoing_rel
  /\ outgoing_rel_replay_order' =
       append_missing(outgoing_rel_replay_order,
                      append_missing(outgoing_rel_order, Ascending(outgoing_rel)))
  /\ outgoing_rel_notice' =
       [p \in Pkid |-> IF p \in outgoing_rel THEN {} ELSE outgoing_rel_notice[p]]
  /\ pending_subscribe' = [p \in Pkid |-> {}]
  /\ pending_unsubscribe' = [p \in Pkid |-> {}]
  /\ release_outbound_pkids(IF keep THEN {} ELSE Pubs \cup Subs \cup Unsubs)
  /\ incoming_puback' = {}
  /\ ping' = NewPing
  /\ inflight' = 0
  /\ UNCHANGED <<incoming_pub, incoming_pubrec>>
  /\ IF CleanRequestSet = {} THEN maybe_shrink_outgoing_tracking_capacity
     ELSE UNCHANGED <<tracking_len, last_pkid>>

drain_tracked_requests_as_failed ==
  /\ pending_subscribe' = [p \in Pkid |-> {}]
  /\ pending_unsubscribe' = [p \in Pkid |-> {}]
  /\ release_outbound_pkids(Subs \cup Unsubs)
  /\ UNCHANGED <<ping, inflight, publishVars, releaseVars, replayVars,
                 incomingVars, collisionVars>>
  /\ maybe_shrink_outgoing_tracking_capacity

----------------------------------------------------------------------------
(* A new state, and one restored from a checkpoint                         *)

IsKind(request, kinds) == request.kind \in kinds

(* The identifiers of the requests to replay, and of the PUBRELs in order. *)
ReplayPkids(replay, kinds) ==
  {r.pkid : r \in {q \in Elements(replay) : IsKind(q, kinds)}}

ReplayPubRelOrder(replay) ==
  LET rels == Select(replay, {i \in 1..Len(replay) : IsKind(replay[i], {"PubRel"})})
  IN  [i \in 1..Len(rels) |-> rels[i].pkid]

(* The state of a session with these requests to replay and these QoS 2    *)
(* receives answered by a PUBREC.                                          *)
StartSession(replay, incoming_qos2) ==
  LET lengths == {warm_tracking_len}
                   \cup {p + 1 : p \in ReplayPkids(replay, {"Publish", "PubRel"})}
      ids == ReplayPkids(replay, {"Publish", "PubRel", "Subscribe", "Unsubscribe"})
  IN  /\ ping' = NewPing
      /\ last_pkid' = 0
      /\ inflight' = 0
      /\ outgoing_pub' = [p \in Pkid |-> {}]
      /\ outgoing_pub_order' = <<>>
      /\ outgoing_pub_notice' = [p \in Pkid |-> {}]
      /\ outgoing_rel' = {}
      /\ outgoing_rel_order' = <<>>
      /\ outgoing_rel_replay' = ReplayPkids(replay, {"PubRel"})
      /\ outgoing_rel_replay_order' = ReplayPubRelOrder(replay)
      /\ outgoing_rel_notice' = [p \in Pkid |-> {}]
      /\ incoming_puback' = {}
      /\ incoming_pub' = incoming_qos2
      /\ incoming_pubrec' = incoming_qos2
      /\ outbound_pkid_in_use' = ids
      /\ outbound_pkid_count' = Cardinality(ids)
      /\ collision' = {}
      /\ collision_notice' = {}
      /\ pending_subscribe' = [p \in Pkid |-> {}]
      /\ pending_unsubscribe' = [p \in Pkid |-> {}]
      /\ tracking_len' = CHOOSE n \in lengths : \A m \in lengths : m <= n

(* Every notice is failed with SessionReset; the state is a new one.       *)
reset_session_state == StartSession(<<>>, {})

(* Mutants: a kind of request is left out of the checkpoint.               *)
Persistable_without_pubrel(request) == request.kind # "PubRel" /\ request.pkid # 0
Persistable_without_control(request) == request.kind \in {"Publish", "PubRel"}

(* persisted_request_from_request: what a checkpoint keeps of a request.   *)
Persistable(request) ==
  \/ IsKind(request, {"Publish"}) /\ request.qos # 0 /\ request.pkid # 0
  \/ IsKind(request, {"PubRel"})
  \/ IsKind(request, {"Subscribe", "Unsubscribe"}) /\ request.pkid # 0

Persisted(request) ==
  IF IsKind(request, {"Publish"}) THEN [request EXCEPT !.dup = TRUE] ELSE request

persisted_replay_requests ==
  LET subs == Ascending(Subs)
      unsubs == Ascending(Unsubs)
  IN  [i \in 1..Len(outgoing_pub_order) |->
         Persisted(Get(outgoing_pub[outgoing_pub_order[i]]))]
        \o [i \in 1..Len(outgoing_rel_order) |-> PubRel(outgoing_rel_order[i])]
        \o [i \in 1..Len(subs) |-> Get(pending_subscribe[subs[i]]).request]
        \o [i \in 1..Len(unsubs) |-> Get(pending_unsubscribe[unsubs[i]]).request]

(* Mutant: the checkpoint leaves out the receives.                         *)
persisted_session_outbound_only(requests) ==
  LET kept == Select(requests, {i \in 1..Len(requests) : Persistable(requests[i])})
  IN  [replay |-> persisted_replay_requests
                    \o [i \in 1..Len(kept) |-> Persisted(kept[i])],
       incoming_qos2 |-> {}]

(* The checkpoint of this state and the replay requests the loop holds.    *)
persisted_session(requests) ==
  LET kept == Select(requests, {i \in 1..Len(requests) : Persistable(requests[i])})
  IN  [replay |-> persisted_replay_requests
                    \o [i \in 1..Len(kept) |-> Persisted(kept[i])],
       incoming_qos2 |-> incoming_pubrec]

validate_persisted_replay_request(request) ==
  /\ request.pkid # 0
  /\ IsKind(request, {"Publish"}) => request.qos # 0

validate_persisted_session_packet_ids(session) ==
  LET replay == session.replay
      window == {i \in 1..Len(replay) : IsKind(replay[i], {"Publish", "PubRel"})}
  IN  /\ 0 \notin session.incoming_qos2
      /\ \A i \in 1..Len(replay) :
           /\ validate_persisted_replay_request(replay[i])
           /\ \A j \in 1..Len(replay) : replay[i].pkid = replay[j].pkid => i = j
      /\ Cardinality(window) <= MaxInflight

restore_persisted_session(session) ==
  /\ validate_persisted_session_packet_ids(session)
  /\ StartSession(session.replay, session.incoming_qos2)

=============================================================================
