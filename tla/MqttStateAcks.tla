--------------------------- MODULE MqttStateAcks ----------------------------
(***************************************************************************)
(* Each packet of the broker, and each PUBREL replayed, preserves the      *)
(* invariant of MqttState.                                                 *)
(***************************************************************************)
EXTENDS MqttStateRequests

----------------------------------------------------------------------------
(* Acknowledged subscribes and unsubscribes                                *)

(* A SUBACK ends the ownership of its identifier.                          *)
LEMMA SubackPreserves ==
  ASSUME IInv, NEW pkid \in Pkid, handle_incoming_suback(pkid), UNCHANGED held
  PROVE  IInv'
<1> USE DEF publishVars, releaseVars, replayVars, incomingVars, collisionVars
<1>1. TypeOK /\ PkidOwnership
  BY DEF IInv
<1>2. pkid \in Subs
  BY DEF handle_incoming_suback, Subs
<1>3. pending_subscribe' = [pending_subscribe EXCEPT ![pkid] = {}]
  BY DEF handle_incoming_suback
<1>4. Subs' = Subs \ {pkid}
  BY <1>1, <1>3 DEF Subs, TypeOK
<1>5. Pubs' = Pubs /\ Unsubs' = Unsubs
  BY DEF handle_incoming_suback, Pubs, Unsubs
<1>6. \A kinds : HeldPkids(kinds)' = HeldPkids(kinds)
  BY DEF HeldPkids, HeldOf
<1>7. /\ outbound_pkid_in_use' = outbound_pkid_in_use \ {pkid}
      /\ outbound_pkid_count' = Cardinality(outbound_pkid_in_use')
      /\ outbound_pkid_count' \in 0..MaxPkid
  BY <1>1, IdentifiersInRange, ReleaseCounts
     DEF handle_incoming_suback, PkidOwnership
<1>8. TypeOK'
  BY Zenon, <1>1, <1>3, <1>7 DEF handle_incoming_suback, TypeOK, Option
<1>9. FiledByPkid' /\ HeldDistinct'
  BY <1>1, <1>3 DEF handle_incoming_suback, PkidOwnership, FiledByPkid,
                    HeldDistinct, TypeOK
<1>10. PkidOwnership'
  BY <1>1, <1>2, <1>4, <1>5, <1>6, <1>7, <1>9
     DEF handle_incoming_suback, PkidOwnership, Conflicting
<1>11. /\ WindowAccounting' /\ OrdersEnumerate' /\ TrackingCovers'
       /\ CollisionNumbered' /\ CollisionOwned'
  BY <1>5, <1>6 DEF handle_incoming_suback, IInv, WindowAccounting,
       OrdersEnumerate, IsEnumeration, Elements, TrackingCovers,
       CollisionNumbered, CollisionOwned
<1> QED
  BY <1>8, <1>10, <1>11 DEF IInv

(* An UNSUBACK ends the ownership of its identifier.                          *)
LEMMA UnsubackPreserves ==
  ASSUME IInv, NEW pkid \in Pkid, handle_incoming_unsuback(pkid), UNCHANGED held
  PROVE  IInv'
<1> USE DEF publishVars, releaseVars, replayVars, incomingVars, collisionVars
<1>1. TypeOK /\ PkidOwnership
  BY DEF IInv
<1>2. pkid \in Unsubs
  BY DEF handle_incoming_unsuback, Unsubs
<1>3. pending_unsubscribe' = [pending_unsubscribe EXCEPT ![pkid] = {}]
  BY DEF handle_incoming_unsuback
<1>4. Unsubs' = Unsubs \ {pkid}
  BY <1>1, <1>3 DEF Unsubs, TypeOK
<1>5. Pubs' = Pubs /\ Subs' = Subs
  BY DEF handle_incoming_unsuback, Pubs, Subs
<1>6. \A kinds : HeldPkids(kinds)' = HeldPkids(kinds)
  BY DEF HeldPkids, HeldOf
<1>7. /\ outbound_pkid_in_use' = outbound_pkid_in_use \ {pkid}
      /\ outbound_pkid_count' = Cardinality(outbound_pkid_in_use')
      /\ outbound_pkid_count' \in 0..MaxPkid
  BY <1>1, IdentifiersInRange, ReleaseCounts
     DEF handle_incoming_unsuback, PkidOwnership
<1>8. TypeOK'
  BY Zenon, <1>1, <1>3, <1>7 DEF handle_incoming_unsuback, TypeOK, Option
<1>9. FiledByPkid' /\ HeldDistinct'
  BY <1>1, <1>3 DEF handle_incoming_unsuback, PkidOwnership, FiledByPkid,
                    HeldDistinct, TypeOK
<1>10. PkidOwnership'
  BY <1>1, <1>2, <1>4, <1>5, <1>6, <1>7, <1>9
     DEF handle_incoming_unsuback, PkidOwnership, Conflicting
<1>11. /\ WindowAccounting' /\ OrdersEnumerate' /\ TrackingCovers'
       /\ CollisionNumbered' /\ CollisionOwned'
  BY <1>5, <1>6 DEF handle_incoming_unsuback, IInv, WindowAccounting,
       OrdersEnumerate, IsEnumeration, Elements, TrackingCovers,
       CollisionNumbered, CollisionOwned
<1> QED
  BY <1>8, <1>10, <1>11 DEF IInv

(* Draining the control requests releases all their identifiers.           *)
LEMMA DrainPreserves ==
  ASSUME IInv, drain_tracked_requests_as_failed, UNCHANGED held
  PROVE  IInv'
<1> USE DEF publishVars, releaseVars, replayVars, incomingVars, collisionVars
<1>1. TypeOK /\ PkidOwnership
  BY DEF IInv
<1>2. /\ pending_subscribe' = [p \in Pkid |-> {}]
      /\ pending_unsubscribe' = [p \in Pkid |-> {}]
  BY DEF drain_tracked_requests_as_failed
<1>3. Subs' = {} /\ Unsubs' = {} /\ Pubs' = Pubs
  BY <1>2 DEF drain_tracked_requests_as_failed, Pubs, Subs, Unsubs
<1>4. \A kinds : HeldPkids(kinds)' = HeldPkids(kinds)
  BY DEF HeldPkids, HeldOf
<1>5. /\ outbound_pkid_in_use' = outbound_pkid_in_use \ (Subs \cup Unsubs)
      /\ outbound_pkid_count' = Cardinality(outbound_pkid_in_use')
      /\ outbound_pkid_count' \in 0..MaxPkid
  BY <1>1, IdentifiersInRange, ReleaseCounts
     DEF drain_tracked_requests_as_failed, PkidOwnership
<1>6. FiledByPkid' /\ HeldDistinct'
  BY <1>1, <1>2 DEF drain_tracked_requests_as_failed, PkidOwnership,
                    FiledByPkid, HeldDistinct
<1>7. PkidOwnership'
  BY <1>1, <1>3, <1>4, <1>5, <1>6
     DEF drain_tracked_requests_as_failed, PkidOwnership, Conflicting
<1>8. maybe_shrink_outgoing_tracking_capacity
  BY DEF drain_tracked_requests_as_failed
<1>9. /\ tracking_len' \in 1..(MaxPkid + 1)
      /\ last_pkid' \in 0..MaxPkid
      /\ TrackingCovers'
  <2>1. TrackingCovers /\ tracking_len \in 1..(MaxPkid + 1) /\ last_pkid \in 0..MaxPkid
    BY DEF IInv, TypeOK
  <2>2. UNCHANGED tracking_len => TrackingCovers'
    BY <2>1, <1>3, <1>4 DEF drain_tracked_requests_as_failed, TrackingCovers
  <2>3. outbound_pkid_in_use' \subseteq Pkid
    BY <1>1, <1>5, IdentifiersInRange
  <2> QED
    BY <1>7, <1>8, <2>1, <2>2, <2>3, ShrinkIsSafe
<1>10. TypeOK'
  BY Zenon, <1>1, <1>2, <1>5, <1>9 DEF drain_tracked_requests_as_failed, TypeOK, Option
<1>11. /\ WindowAccounting' /\ OrdersEnumerate'
       /\ CollisionNumbered' /\ CollisionOwned'
  BY <1>3 DEF drain_tracked_requests_as_failed, IInv, WindowAccounting,
       OrdersEnumerate, IsEnumeration, Elements, CollisionNumbered, CollisionOwned
<1> QED
  BY <1>7, <1>9, <1>10, <1>11 DEF IInv

----------------------------------------------------------------------------
(* Releasing                                                               *)

(* The PUBREL taken from what is held is the one to replay.                *)
LEMMA HeldPubRelRemoved ==
  ASSUME IInv, NEW h \in held, held' = held \ {h}, h.request.kind = "PubRel"
  PROVE  /\ HeldDistinct'
         /\ held' \in SUBSET CleanRequest
         /\ HeldPkids(ReservedKinds)' = HeldPkids(ReservedKinds)
         /\ HeldPkids({"Publish"})' = HeldPkids({"Publish"})
         /\ h.request.pkid \in HeldPkids({"PubRel"})
         /\ HeldPkids({"PubRel"})' = HeldPkids({"PubRel"}) \ {h.request.pkid}
         /\ h.notice \in Option(Msg)
<1>1. HeldDistinct /\ held \in SUBSET CleanRequest
  BY DEF IInv, TypeOK, PkidOwnership
<1>2. HeldDistinct' /\ held' \in SUBSET CleanRequest
  BY <1>1 DEF HeldDistinct
<1>3. h.replay /\ h.notice \in Option(Msg)
  BY Zenon, <1>1 DEF CleanRequest, Publish, ControlRequest, Subscribe, Unsubscribe
<1>4. /\ HeldPkids(ReservedKinds)' = HeldPkids(ReservedKinds)
      /\ HeldPkids({"Publish"})' = HeldPkids({"Publish"})
  BY DEF HeldPkids, HeldOf, ReservedKinds
<1>5. h \in HeldOf({"PubRel"})
  BY <1>3 DEF HeldOf
<1>6. HeldOf({"PubRel"})' = HeldOf({"PubRel"}) \ {h}
  BY DEF HeldOf
<1>7. \A g \in HeldOf({"PubRel"}) : g.request.pkid = h.request.pkid => g = h
  BY <1>1, <1>3 DEF HeldOf, HeldDistinct
<1>8. /\ h.request.pkid \in HeldPkids({"PubRel"})
      /\ HeldPkids({"PubRel"})' = HeldPkids({"PubRel"}) \ {h.request.pkid}
  BY <1>5, <1>6, <1>7 DEF HeldPkids
<1> QED
  BY <1>2, <1>3, <1>4, <1>8

(* A replayed PUBREL moves from what is to be replayed to what was sent.   *)
LEMMA PubrelPreserves ==
  ASSUME IInv, NEW h \in held, held' = held \ {h}, h.request.kind = "PubRel",
         outgoing_pubrel(h.request.pkid, h.notice)
  PROVE  IInv'
<1> USE DEF publishVars, incomingVars, pkidVars, collisionVars, controlVars
<1> DEFINE pkid == h.request.pkid
<1>1. TypeOK /\ PkidOwnership
  BY DEF IInv
<1>2. /\ HeldDistinct'
      /\ held' \in SUBSET CleanRequest
      /\ HeldPkids(ReservedKinds)' = HeldPkids(ReservedKinds)
      /\ HeldPkids({"Publish"})' = HeldPkids({"Publish"})
      /\ pkid \in HeldPkids({"PubRel"})
      /\ HeldPkids({"PubRel"})' = HeldPkids({"PubRel"}) \ {pkid}
      /\ h.notice \in Option(Msg)
  BY HeldPubRelRemoved
<1>3. pkid \in outgoing_rel_replay /\ pkid \in Pkid /\ pkid \notin outgoing_rel
  BY <1>1, <1>2, IdentifiersInRange DEF PkidOwnership
<1>4. /\ inflight < MaxInflight
      /\ outgoing_rel_replay' = outgoing_rel_replay \ {pkid}
      /\ outgoing_rel_replay_order' =
           remove_ordered_pkid(outgoing_rel_replay_order, pkid)
      /\ outgoing_rel' = outgoing_rel \cup {pkid}
      /\ outgoing_rel_order' = Append(outgoing_rel_order, pkid)
      /\ inflight' = inflight + 1
  BY <1>3 DEF outgoing_pubrel
<1>5. /\ tracking_len' = Max2(tracking_len, pkid + 1)
      /\ outgoing_rel_notice' =
           IF h.notice # {} \/ outgoing_rel_notice[pkid] = {}
           THEN [outgoing_rel_notice EXCEPT ![pkid] = h.notice]
           ELSE outgoing_rel_notice
      /\ UNCHANGED <<ping, last_pkid, publishVars, incomingVars, pkidVars,
                     collisionVars, controlVars>>
  BY DEF outgoing_pubrel
<1> HIDE DEF pkid
<1>6. Pubs' = Pubs /\ Subs' = Subs /\ Unsubs' = Unsubs
  BY <1>5 DEF Pubs, Subs, Unsubs
<1>7. /\ tracking_len' \in 1..(MaxPkid + 1)
      /\ pkid < tracking_len'
      /\ \A p \in Nat : p < tracking_len => p < tracking_len'
  BY <1>1, <1>3, <1>5, GrowthIsSafe
<1>8. /\ outgoing_rel_replay_order' \in Seq(Pkid)
      /\ IsEnumeration(outgoing_rel_replay_order', outgoing_rel_replay')
  <2>1. /\ outgoing_rel_replay_order \in Seq(Pkid)
        /\ IsEnumeration(outgoing_rel_replay_order, outgoing_rel_replay)
    BY DEF IInv, TypeOK, OrdersEnumerate
  <2> QED
    BY <1>1, <1>3, <1>4, <2>1, IdentifiersInRange, EnumerationRemove
<1>9. /\ outgoing_rel_order' \in Seq(Pkid)
      /\ IsEnumeration(outgoing_rel_order', outgoing_rel')
  <2>1. outgoing_rel_order \in Seq(Pkid) /\ IsEnumeration(outgoing_rel_order, outgoing_rel)
    BY DEF IInv, TypeOK, OrdersEnumerate
  <2> QED
    BY <1>1, <1>3, <1>4, <2>1, IdentifiersInRange, EnumerationAppend
<1>10. TypeOK'
  <2>1. inflight' \in 0..MaxInflight
    BY <1>1, <1>4, StateAssumption DEF TypeOK
  <2>2. outgoing_rel_notice' \in [Pkid -> Option(Msg)]
    BY <1>1, <1>2, <1>3, <1>5 DEF TypeOK
  <2>3. outgoing_rel' \in SUBSET Pkid /\ outgoing_rel_replay' \in SUBSET Pkid
    BY <1>1, <1>3, <1>4, IdentifiersInRange
  <2> QED
    BY Zenon, <1>1, <1>2, <1>5, <1>7, <1>8, <1>9, <2>1, <2>2, <2>3 DEF TypeOK
<1>11. PkidOwnership'
  <2>1. FiledByPkid'
    BY Zenon, <1>1, <1>5 DEF PkidOwnership, FiledByPkid
  <2>2. /\ Conflicting' = Conflicting
        /\ pkid \notin Subs \cup Unsubs
    BY <1>1, <1>3, <1>4, <1>6 DEF PkidOwnership, Conflicting
  <2>3. UNCHANGED <<outbound_pkid_in_use, outbound_pkid_count>>
    BY Zenon, <1>5
  <2> QED
    BY <1>1, <1>2, <1>3, <1>4, <1>6, <2>1, <2>2, <2>3 DEF PkidOwnership
<1>12. WindowAccounting'
  <2>1. /\ Cardinality(outgoing_rel') = Cardinality(outgoing_rel) + 1
        /\ Cardinality(outgoing_rel) \in Nat
    BY <1>1, <1>3, <1>4, IdentifiersInRange, WindowGrows
  <2>2. Cardinality(Pubs) \in Nat
    BY <1>1, IdentifiersInRange, PkidSubset
  <2> QED
    BY <1>4, <1>6, <2>1, <2>2 DEF IInv, WindowAccounting
<1>13. OrdersEnumerate'
  BY <1>5, <1>6, <1>8, <1>9 DEF IInv, OrdersEnumerate, IsEnumeration, Elements
<1>14. TrackingCovers'
  <2>1. \A p \in Pubs \cup outgoing_rel \cup outgoing_rel_replay : p \in Nat
    BY Zenon, <1>1, IdentifiersInRange, PkidFinite
  <2>2. \A p \in HeldPkids({"Publish"}) : p \in Nat
    BY <1>1, HeldPublishTyped
  <2> QED
    BY <1>2, <1>4, <1>6, <1>7, <2>1, <2>2 DEF IInv, TrackingCovers
<1>15. CollisionNumbered' /\ CollisionOwned'
  BY <1>4, <1>5, <1>6 DEF IInv, CollisionNumbered, CollisionOwned
<1> QED
  BY <1>10, <1>11, <1>12, <1>13, <1>14, <1>15 DEF IInv

----------------------------------------------------------------------------
(* Acknowledged publishes                                                  *)

(* A PUBREC turns the publish into a PUBREL with the same identifier.      *)
LEMMA PubrecPreserves ==
  ASSUME IInv, NEW pkid \in Pkid, handle_incoming_pubrec(pkid), UNCHANGED held
  PROVE  IInv'
<1> USE DEF replayVars, incomingVars, pkidVars, collisionVars, controlVars
<1>1. TypeOK /\ PkidOwnership
  BY DEF IInv
<1>2. /\ outgoing_pub[pkid] # {}
      /\ outgoing_pub' = [outgoing_pub EXCEPT ![pkid] = {}]
      /\ outgoing_pub_order' = remove_ordered_pkid(outgoing_pub_order, pkid)
      /\ outgoing_pub_notice' = [outgoing_pub_notice EXCEPT ![pkid] = {}]
      /\ outgoing_rel' = outgoing_rel \cup {pkid}
      /\ outgoing_rel_order' = Append(outgoing_rel_order, pkid)
      /\ outgoing_rel_notice' =
           [outgoing_rel_notice EXCEPT ![pkid] = outgoing_pub_notice[pkid]]
      /\ UNCHANGED <<ping, last_pkid, inflight, replayVars, incomingVars, pkidVars,
                     collisionVars, controlVars, tracking_len>>
  BY DEF handle_incoming_pubrec
<1>3. pkid \in Pubs /\ pkid \notin outgoing_rel
  BY <1>1, <1>2 DEF Pubs, PkidOwnership, Conflicting
<1>4. Pubs' = Pubs \ {pkid}
  BY <1>1, <1>2 DEF Pubs, TypeOK
<1>5. Subs' = Subs /\ Unsubs' = Unsubs
  BY <1>2 DEF Subs, Unsubs
<1>6. \A kinds : HeldPkids(kinds)' = HeldPkids(kinds)
  BY DEF HeldPkids, HeldOf
<1>7. /\ outgoing_pub_order' \in Seq(Pkid)
      /\ IsEnumeration(outgoing_pub_order', Pubs')
  <2>1. outgoing_pub_order \in Seq(Pkid) /\ IsEnumeration(outgoing_pub_order, Pubs)
    BY DEF IInv, TypeOK, OrdersEnumerate
  <2> QED
    BY <1>1, <1>2, <1>3, <1>4, <2>1, IdentifiersInRange, EnumerationRemove
<1>8. /\ outgoing_rel_order' \in Seq(Pkid)
      /\ IsEnumeration(outgoing_rel_order', outgoing_rel')
  <2>1. outgoing_rel_order \in Seq(Pkid) /\ IsEnumeration(outgoing_rel_order, outgoing_rel)
    BY DEF IInv, TypeOK, OrdersEnumerate
  <2> QED
    BY <1>1, <1>2, <1>3, <2>1, IdentifiersInRange, EnumerationAppend
<1>9. TypeOK'
  <2>1. outgoing_pub' \in [Pkid -> Option(Publish)]
    BY Zenon, <1>1, <1>2 DEF TypeOK, Option
  <2>2. /\ outgoing_pub_notice' \in [Pkid -> Option(Msg)]
        /\ outgoing_rel_notice' \in [Pkid -> Option(Msg)]
    BY Zenon, <1>1, <1>2 DEF TypeOK, Option
  <2>3. outgoing_rel' \in SUBSET Pkid
    BY <1>1, <1>2, IdentifiersInRange
  <2> QED
    BY Zenon, <1>1, <1>2, <1>7, <1>8, <2>1, <2>2, <2>3 DEF TypeOK
<1>10. PkidOwnership'
  <2>1. FiledByPkid' /\ HeldDistinct'
    BY <1>1, <1>2 DEF PkidOwnership, FiledByPkid, HeldDistinct, TypeOK
  <2>2. /\ Conflicting' = Conflicting \cup {pkid}
        /\ Pubs' \cup Conflicting' = Pubs \cup Conflicting
        /\ pkid \notin outgoing_rel_replay \cup Subs \cup Unsubs
    BY <1>1, <1>2, <1>3, <1>4, <1>5 DEF PkidOwnership, Conflicting
  <2>3. /\ UNCHANGED <<outbound_pkid_in_use, outbound_pkid_count, outgoing_rel_replay>>
        /\ outgoing_rel' = outgoing_rel \cup {pkid}
    BY Zenon, <1>2
  <2> QED
    BY <1>1, <1>3, <1>4, <1>5, <1>6, <2>1, <2>2, <2>3 DEF PkidOwnership
<1>11. WindowAccounting'
  <2>1. /\ Cardinality(outgoing_rel') = Cardinality(outgoing_rel) + 1
        /\ Cardinality(outgoing_rel) \in Nat
    BY <1>1, <1>2, <1>3, IdentifiersInRange, WindowGrows
  <2>2. /\ Cardinality(Pubs') = Cardinality(Pubs) - 1
        /\ Cardinality(Pubs) \in Nat
    BY <1>1, <1>3, <1>4, IdentifiersInRange, WindowShrinks
  <2>3. inflight = Cardinality(Pubs) + Cardinality(outgoing_rel)
    BY DEF IInv, WindowAccounting
  <2>4. inflight = Cardinality(Pubs') + Cardinality(outgoing_rel')
    BY <2>1, <2>2, <2>3
  <2> QED
    BY <1>2, <2>4 DEF WindowAccounting
<1>12. OrdersEnumerate'
  <2>1. UNCHANGED <<outgoing_rel_replay, outgoing_rel_replay_order>>
    BY <1>2
  <2>2. IsEnumeration(outgoing_rel_replay_order, outgoing_rel_replay)
    BY DEF IInv, OrdersEnumerate
  <2>3. IsEnumeration(outgoing_rel_replay_order', outgoing_rel_replay')
    BY <2>1, <2>2
  <2> QED
    BY <1>7, <1>8, <2>3 DEF OrdersEnumerate, IsEnumeration, Elements
<1>13. TrackingCovers' /\ CollisionNumbered' /\ CollisionOwned'
  BY <1>2, <1>3, <1>4, <1>6 DEF IInv, TrackingCovers, CollisionNumbered, CollisionOwned
<1> QED
  BY <1>9, <1>10, <1>11, <1>12, <1>13 DEF IInv

(* How an exchange ends: what pubs, the release queue and their notices    *)
(* hold once the identifier pkid has been taken out of them.               *)
Finishing(pkid, pubs, order, notices) ==
  /\ pkid \in Pubs \cup outgoing_rel
  /\ pubs \in [Pkid -> Option(Publish)] /\ pubs[pkid] = {}
  /\ \A p \in Pkid : p # pkid => pubs[p] = outgoing_pub[p]
  /\ order \in Seq(Pkid) /\ IsEnumeration(order, Pubs \ {pkid})
  /\ notices \in [Pkid -> Option(Msg)]
  /\ outgoing_rel' = outgoing_rel \ {pkid}
  /\ outgoing_rel_order' \in Seq(Pkid)
  /\ IsEnumeration(outgoing_rel_order, outgoing_rel)'
  /\ outgoing_rel_notice' \in [Pkid -> Option(Msg)]
  /\ UNCHANGED <<replayVars, incomingVars, controlVars, held>>

(* What remains of the window's slots when an exchange ends.               *)
LEMMA FinishFreesSlot ==
  ASSUME IInv, NEW pkid \in Pkid, pkid \in Pubs \cup outgoing_rel
  PROVE  /\ Cardinality(Pubs \ {pkid}) + Cardinality(outgoing_rel \ {pkid}) = inflight - 1
         /\ Cardinality(Pubs \ {pkid}) \in Nat
         /\ Cardinality(outgoing_rel \ {pkid}) \in Nat
         /\ inflight \in 1..MaxInflight
<1> DEFINE pubsHeld == Cardinality(Pubs)
           relsHeld == Cardinality(outgoing_rel)
           pubsLeft == Cardinality(Pubs \ {pkid})
           relsLeft == Cardinality(outgoing_rel \ {pkid})
<1>1. TypeOK /\ PkidOwnership
  BY DEF IInv
<1>2. /\ pubsHeld \in Nat /\ relsHeld \in Nat
      /\ inflight = pubsHeld + relsHeld
      /\ inflight \in 0..MaxInflight
  BY Zenon, <1>1, IdentifiersInRange, PkidSubset DEF IInv, WindowAccounting, TypeOK
<1>3. CASE pkid \in Pubs
  <2>1. pubsLeft = pubsHeld - 1 /\ pubsHeld >= 1
    BY <1>1, <1>3, IdentifiersInRange, WindowShrinks
  <2>2. outgoing_rel \ {pkid} = outgoing_rel
    BY <1>1, <1>3 DEF PkidOwnership, Conflicting
  <2>3. relsLeft = relsHeld
    BY Zenon, <2>2
  <2> HIDE DEF pubsHeld, relsHeld, pubsLeft, relsLeft
  <2>4. /\ pubsLeft + relsLeft = inflight - 1 /\ pubsLeft \in Nat
        /\ relsLeft \in Nat /\ inflight \in 1..MaxInflight
    BY <1>2, <2>1, <2>3, StateAssumption
  <2> QED
    BY Zenon, <2>4 DEF pubsLeft, relsLeft
<1>4. CASE pkid \in outgoing_rel
  <2>1. relsLeft = relsHeld - 1 /\ relsHeld >= 1
    BY <1>1, <1>4, IdentifiersInRange, WindowShrinks
  <2>2. Pubs \ {pkid} = Pubs
    BY <1>1, <1>4 DEF PkidOwnership, Conflicting
  <2>3. pubsLeft = pubsHeld
    BY Zenon, <2>2
  <2> HIDE DEF pubsHeld, relsHeld, pubsLeft, relsLeft
  <2>4. /\ pubsLeft + relsLeft = inflight - 1 /\ pubsLeft \in Nat
        /\ relsLeft \in Nat /\ inflight \in 1..MaxInflight
    BY <1>2, <2>1, <2>3, StateAssumption
  <2> QED
    BY Zenon, <2>4 DEF pubsLeft, relsLeft
<1> QED
  BY <1>3, <1>4

(* The end of an exchange, seen from the identifiers: pkid leaves pubs or  *)
(* rels, and either goes to the publish set aside or is released.          *)
LEMMA FinishPreserves ==
  ASSUME IInv, NEW pkid \in Pkid, NEW pubs, NEW order, NEW notices,
         Finishing(pkid, pubs, order, notices),
         FinishPublish(pkid, pubs, order, notices)
  PROVE  IInv'
<1>1. TypeOK /\ PkidOwnership
  BY DEF IInv
<1>2. /\ UNCHANGED <<outgoing_rel_replay, outgoing_rel_replay_order, held>>
      /\ UNCHANGED <<incomingVars, controlVars>>
      /\ Subs' = Subs /\ Unsubs' = Unsubs
  BY DEF Finishing, Subs, Unsubs, replayVars, controlVars
<1>3. \A kinds : HeldPkids(kinds)' = HeldPkids(kinds)
  BY <1>2 DEF HeldPkids, HeldOf
<1>4. HeldDistinct'
  BY <1>1, <1>2 DEF PkidOwnership, HeldDistinct
<1>5. /\ pubs \in [Pkid -> Option(Publish)] /\ pubs[pkid] = {}
      /\ \A p \in Pkid : p # pkid => pubs[p] = outgoing_pub[p]
  BY Zenon DEF Finishing
<1>6. /\ pkid \in Pubs \cup outgoing_rel
      /\ outgoing_rel' = outgoing_rel \ {pkid}
  BY Zenon DEF Finishing
<1>7. /\ outgoing_rel_order' \in Seq(Pkid)
      /\ outgoing_rel_notice' \in [Pkid -> Option(Msg)]
      /\ outgoing_rel' \in SUBSET Pkid
      /\ notices \in [Pkid -> Option(Msg)]
  BY <1>1, <1>6, IdentifiersInRange DEF Finishing
<1> DEFINE pubsLeft == Cardinality(Pubs \ {pkid})
           relsLeft == Cardinality(outgoing_rel \ {pkid})
<1>8. /\ pubsLeft + relsLeft = inflight - 1
      /\ pubsLeft \in Nat /\ relsLeft \in Nat
      /\ inflight \in 1..MaxInflight
  BY Zenon, <1>6, FinishFreesSlot
<1> HIDE DEF pubsLeft, relsLeft
<1>9. CASE check_collision(pkid)
  <2>1. /\ outgoing_pub' = [pubs EXCEPT ![pkid] = collision]
        /\ outgoing_pub_order' = Append(order, pkid)
        /\ outgoing_pub_notice' = [notices EXCEPT ![pkid] = collision_notice]
        /\ collision' = {}
        /\ collision_notice' = {}
        /\ ping' = [ping EXCEPT !.collision_count = 0]
        /\ tracking_len' = Max2(tracking_len, pkid + 1)
        /\ UNCHANGED <<last_pkid, inflight, outbound_pkid_in_use, outbound_pkid_count>>
    BY <1>9 DEF FinishPublish, pkidVars
  <2>2. PICK c \in Publish : collision = {c} /\ c.pkid = pkid /\ c.qos # 0
    BY <1>1, <1>9 DEF IInv, TypeOK, Option, check_collision, CollisionNumbered
  <2>3. Pubs' = (Pubs \ {pkid}) \cup {pkid}
    BY Zenon, <1>5, <2>1, <2>2 DEF Pubs
  <2>4. /\ outgoing_pub_order' \in Seq(Pkid)
        /\ IsEnumeration(outgoing_pub_order', Pubs')
    <3>1. Pubs \ {pkid} \subseteq Pkid /\ pkid \notin Pubs \ {pkid}
      BY <1>1, IdentifiersInRange
    <3>2. order \in Seq(Pkid) /\ IsEnumeration(order, Pubs \ {pkid})
      BY Zenon DEF Finishing
    <3> QED
      BY Zenon, <2>1, <2>3, <3>1, <3>2, EnumerationAppend
  <2>5. /\ tracking_len' \in 1..(MaxPkid + 1)
        /\ \A p \in Nat : p < tracking_len => p < tracking_len'
    BY <1>1, <2>1, GrowthIsSafe
  <2>6. TypeOK'
    <3>1. outgoing_pub' \in [Pkid -> Option(Publish)]
      BY <1>5, <2>1, <2>2 DEF Option
    <3>2. /\ outgoing_pub_notice' \in [Pkid -> Option(Msg)]
          /\ collision' \in Option(Publish) /\ collision_notice' \in Option(Msg)
      BY Zenon, <1>1, <1>7, <2>1 DEF TypeOK, Option
    <3>3. ping' \in PingState
      BY Zenon, <1>1, <2>1 DEF TypeOK, PingState
    <3> QED
      BY Zenon, <1>1, <1>2, <1>7, <2>1, <2>4, <2>5, <3>1, <3>2, <3>3
         DEF TypeOK, incomingVars, controlVars
  <2>7. FiledByPkid'
    <3>1. \A p \in Pkid : p # pkid => outgoing_pub'[p] = outgoing_pub[p]
      BY Zenon, <1>5, <2>1
    <3>2. outgoing_pub'[pkid] = {c}
      BY Zenon, <1>5, <2>1, <2>2
    <3>3. \A p \in Pkid : \A publish \in outgoing_pub'[p] : publish.pkid = p /\ publish.qos # 0
      BY <1>1, <2>2, <3>1, <3>2 DEF PkidOwnership, FiledByPkid
    <3> QED
      BY Zenon, <1>1, <1>2, <3>3 DEF PkidOwnership, FiledByPkid, controlVars
  <2>8. PkidOwnership'
    <3>1. /\ Pubs' \cup outgoing_rel' = Pubs \cup outgoing_rel
          /\ pkid \notin outgoing_rel_replay \cup Subs \cup Unsubs
      BY <1>1, <1>6, <2>3 DEF PkidOwnership, Conflicting
    <3> QED
      BY <1>1, <1>2, <1>3, <1>4, <1>6, <2>1, <2>3, <2>7, <3>1 DEF PkidOwnership, Conflicting
  <2>9. WindowAccounting'
    <3>1. Cardinality(Pubs') = pubsLeft + 1
      BY Zenon, <1>1, <2>3, IdentifiersInRange, WindowGrows DEF pubsLeft
    <3>2. Cardinality(outgoing_rel') = relsLeft
      BY <1>6 DEF relsLeft
    <3>3. inflight = Cardinality(Pubs') + Cardinality(outgoing_rel')
      BY <1>8, <3>1, <3>2
    <3> QED
      BY <2>1, <3>3 DEF WindowAccounting
  <2>10. OrdersEnumerate'
    BY <1>2, <2>4 DEF IInv, Finishing, OrdersEnumerate, IsEnumeration, Elements
  <2>11. TrackingCovers'
    <3>1. \A p \in Pubs \cup outgoing_rel \cup outgoing_rel_replay : p \in Nat
      BY Zenon, <1>1, IdentifiersInRange, PkidFinite
    <3>2. \A p \in HeldPkids({"Publish"}) : p \in Nat
      BY <1>1, HeldPublishTyped
    <3>3. Pubs' \cup outgoing_rel' \subseteq Pubs \cup outgoing_rel
      BY <1>6, <2>3
    <3> QED
      BY <1>2, <1>3, <2>5, <3>1, <3>2, <3>3 DEF IInv, TrackingCovers
  <2>12. CollisionNumbered' /\ CollisionOwned'
    BY <2>1 DEF CollisionNumbered, CollisionOwned
  <2> QED
    BY <2>6, <2>8, <2>9, <2>10, <2>11, <2>12 DEF IInv
<1>10. CASE ~check_collision(pkid)
  <2>1. /\ outgoing_pub' = pubs
        /\ outgoing_pub_order' = order
        /\ outgoing_pub_notice' = notices
        /\ inflight' = inflight - 1
        /\ release_outbound_pkids({pkid})
        /\ UNCHANGED <<ping, collision, collision_notice>>
        /\ maybe_shrink_outgoing_tracking_capacity
    BY <1>10 DEF FinishPublish, collisionVars
  <2>2. Pubs' = Pubs \ {pkid}
    BY Zenon, <1>5, <2>1 DEF Pubs
  <2>3. /\ outbound_pkid_in_use' = outbound_pkid_in_use \ {pkid}
        /\ outbound_pkid_count' = Cardinality(outbound_pkid_in_use')
        /\ outbound_pkid_count' \in 0..MaxPkid
    BY Zenon, <1>1, <2>1, IdentifiersInRange, ReleaseCounts DEF PkidOwnership
  <2>4. FiledByPkid'
    <3>1. \A p \in Pkid : \A publish \in outgoing_pub'[p] : publish.pkid = p /\ publish.qos # 0
      BY <1>1, <1>5, <2>1 DEF PkidOwnership, FiledByPkid
    <3> QED
      BY Zenon, <1>1, <1>2, <3>1 DEF PkidOwnership, FiledByPkid, controlVars
  <2>5. PkidOwnership'
    <3>1. /\ pkid \notin outgoing_rel_replay \cup Subs \cup Unsubs
          /\ pkid \notin HeldPkids(ReservedKinds)
      BY <1>1, <1>6 DEF PkidOwnership, Conflicting
    <3>2. Conflicting' = Conflicting \ {pkid}
      BY <1>2, <1>6, <3>1 DEF Conflicting
    <3> QED
      BY <1>1, <1>2, <1>3, <1>4, <1>6, <2>2, <2>3, <2>4, <3>1, <3>2 DEF PkidOwnership
  <2>6. /\ tracking_len' \in 1..(MaxPkid + 1)
        /\ last_pkid' \in 0..MaxPkid
        /\ TrackingCovers'
    <3>1. TrackingCovers /\ tracking_len \in 1..(MaxPkid + 1) /\ last_pkid \in 0..MaxPkid
      BY Zenon DEF IInv, TypeOK
    <3>2. UNCHANGED tracking_len => TrackingCovers'
      BY <1>2, <1>3, <1>6, <2>2, <3>1 DEF TrackingCovers
    <3>3. outbound_pkid_in_use' \subseteq Pkid
      BY <1>1, <2>3, IdentifiersInRange
    <3> QED
      BY <2>1, <2>5, <3>1, <3>2, <3>3, ShrinkIsSafe
  <2>7. TypeOK'
    <3>1. inflight' \in 0..MaxInflight
      BY <1>8, <2>1, StateAssumption
    <3>2. outbound_pkid_in_use' \in SUBSET Pkid
      BY <1>1, <2>3, IdentifiersInRange
    <3>3. outgoing_pub_order' \in Seq(Pkid)
      BY Zenon, <2>1 DEF Finishing
    <3> QED
      BY Zenon, <1>1, <1>2, <1>5, <1>7, <2>1, <2>3, <2>6, <3>1, <3>2, <3>3
         DEF TypeOK, incomingVars, controlVars
  <2>8. WindowAccounting'
    <3>1. Cardinality(Pubs') = pubsLeft /\ Cardinality(outgoing_rel') = relsLeft
      BY <1>6, <2>2 DEF pubsLeft, relsLeft
    <3> QED
      BY <1>8, <2>1, <3>1 DEF WindowAccounting
  <2>9. OrdersEnumerate'
    <3>1. IsEnumeration(outgoing_pub_order', Pubs')
      BY Zenon, <2>1, <2>2 DEF Finishing
    <3>2. IsEnumeration(outgoing_rel_order, outgoing_rel)'
      BY Zenon DEF Finishing
    <3>3. IsEnumeration(outgoing_rel_replay_order', outgoing_rel_replay')
      BY Zenon, <1>2 DEF IInv, OrdersEnumerate
    <3> QED
      BY <3>1, <3>2, <3>3 DEF OrdersEnumerate, IsEnumeration, Elements
  <2>10. CollisionNumbered' /\ CollisionOwned'
    BY Zenon, <1>2, <1>10, <2>1, <2>2
       DEF IInv, CollisionNumbered, CollisionOwned, check_collision, Finishing
  <2> QED
    BY <2>5, <2>6, <2>7, <2>8, <2>9, <2>10 DEF IInv
<1> QED
  BY <1>9, <1>10

(* A PUBACK ends the exchange of its publish.                              *)
LEMMA PubackPreserves ==
  ASSUME IInv, NEW pkid \in Pkid, handle_incoming_puback(pkid), UNCHANGED held
  PROVE  IInv'
<1> DEFINE pubs == [outgoing_pub EXCEPT ![pkid] = {}]
           order == remove_ordered_pkid(outgoing_pub_order, pkid)
           notices == [outgoing_pub_notice EXCEPT ![pkid] = {}]
<1>1. TypeOK /\ PkidOwnership
  BY DEF IInv
<1>2. /\ pkid \in Pubs
      /\ UNCHANGED <<releaseVars, replayVars, incomingVars, controlVars, held>>
      /\ FinishPublish(pkid, pubs, order, notices)
  BY DEF handle_incoming_puback, Pubs
<1>3. /\ pubs \in [Pkid -> Option(Publish)] /\ pubs[pkid] = {}
      /\ \A p \in Pkid : p # pkid => pubs[p] = outgoing_pub[p]
  BY <1>1 DEF TypeOK, Option
<1>4. notices \in [Pkid -> Option(Msg)]
  BY <1>1 DEF TypeOK, Option
<1>5. order \in Seq(Pkid) /\ IsEnumeration(order, Pubs \ {pkid})
  <2>1. outgoing_pub_order \in Seq(Pkid) /\ IsEnumeration(outgoing_pub_order, Pubs)
    BY DEF IInv, TypeOK, OrdersEnumerate
  <2> QED
    BY Zenon, <1>1, <1>2, <2>1, IdentifiersInRange, EnumerationRemove
<1>6. outgoing_rel' = outgoing_rel \ {pkid}
  BY <1>1, <1>2 DEF releaseVars, PkidOwnership, Conflicting
<1>7. /\ outgoing_rel_order' \in Seq(Pkid)
      /\ IsEnumeration(outgoing_rel_order, outgoing_rel)'
      /\ outgoing_rel_notice' \in [Pkid -> Option(Msg)]
  <2>1. UNCHANGED <<outgoing_rel, outgoing_rel_order, outgoing_rel_notice>>
    BY <1>2 DEF releaseVars
  <2> QED
    <3>1. outgoing_rel_order \in Seq(Pkid) /\ outgoing_rel_notice \in [Pkid -> Option(Msg)]
      BY Zenon, <1>1 DEF TypeOK
    <3>2. IsEnumeration(outgoing_rel_order, outgoing_rel)
      BY DEF IInv, OrdersEnumerate
    <3> QED
      BY <2>1, <3>1, <3>2 DEF IsEnumeration, Elements
<1> HIDE DEF pubs, order, notices
<1>8. Finishing(pkid, pubs, order, notices)
  BY Zenon, <1>2, <1>3, <1>4, <1>5, <1>6, <1>7 DEF Finishing
<1> QED
  BY Zenon, <1>2, <1>8, FinishPreserves

(* A PUBCOMP ends the exchange of its PUBREL.                              *)
LEMMA PubcompPreserves ==
  ASSUME IInv, NEW pkid \in Pkid, handle_incoming_pubcomp(pkid), UNCHANGED held
  PROVE  IInv'
<1>1. TypeOK /\ PkidOwnership
  BY DEF IInv
<1>2. /\ pkid \in outgoing_rel
      /\ outgoing_rel' = outgoing_rel \ {pkid}
      /\ outgoing_rel_order' = remove_ordered_pkid(outgoing_rel_order, pkid)
      /\ outgoing_rel_notice' = [outgoing_rel_notice EXCEPT ![pkid] = {}]
      /\ UNCHANGED <<replayVars, incomingVars, controlVars, held>>
      /\ FinishPublish(pkid, outgoing_pub, outgoing_pub_order, outgoing_pub_notice)
  BY DEF handle_incoming_pubcomp
<1>3. pkid \notin Pubs
  BY <1>1, <1>2 DEF PkidOwnership, Conflicting
<1>4. /\ outgoing_pub \in [Pkid -> Option(Publish)] /\ outgoing_pub[pkid] = {}
      /\ outgoing_pub_notice \in [Pkid -> Option(Msg)]
      /\ outgoing_pub_order \in Seq(Pkid)
  BY <1>1, <1>3 DEF TypeOK, Pubs
<1>5. IsEnumeration(outgoing_pub_order, Pubs \ {pkid})
  <2>1. Pubs \ {pkid} = Pubs
    BY <1>3
  <2> QED
    BY <2>1 DEF IInv, OrdersEnumerate
<1>6. /\ outgoing_rel_order' \in Seq(Pkid)
      /\ IsEnumeration(outgoing_rel_order', outgoing_rel')
  <2>1. outgoing_rel_order \in Seq(Pkid) /\ IsEnumeration(outgoing_rel_order, outgoing_rel)
    BY DEF IInv, TypeOK, OrdersEnumerate
  <2> QED
    BY <1>1, <1>2, <2>1, IdentifiersInRange, EnumerationRemove
<1>7. IsEnumeration(outgoing_rel_order, outgoing_rel)'
  BY <1>6 DEF IsEnumeration, Elements
<1>8. outgoing_rel_notice' \in [Pkid -> Option(Msg)]
  BY Zenon, <1>1, <1>2 DEF TypeOK, Option
<1> QED
  <2>1. Finishing(pkid, outgoing_pub, outgoing_pub_order, outgoing_pub_notice)
    BY Zenon, <1>2, <1>4, <1>5, <1>6, <1>7, <1>8 DEF Finishing
  <2> QED
    BY Zenon, <1>2, <2>1, FinishPreserves

(* Dropping the publish set aside leaves the exchanges alone.              *)
LEMMA ClearCollisionPreserves ==
  ASSUME IInv, clear_collision, UNCHANGED held
  PROVE  IInv'
<1> USE DEF publishVars, releaseVars, replayVars, incomingVars, pkidVars, controlVars
<1>1. TypeOK /\ PkidOwnership
  BY DEF IInv
<1>2. Pubs' = Pubs /\ Subs' = Subs /\ Unsubs' = Unsubs
  BY DEF clear_collision, Pubs, Subs, Unsubs
<1>3. \A kinds : HeldPkids(kinds)' = HeldPkids(kinds)
  BY DEF HeldPkids, HeldOf
<1>4. TypeOK'
  BY Zenon, <1>1 DEF clear_collision, TypeOK, Option, PingState
<1>5. PkidOwnership'
  BY <1>1, <1>2, <1>3 DEF clear_collision, PkidOwnership, Conflicting,
                          HeldDistinct, FiledByPkid
<1>6. /\ WindowAccounting' /\ OrdersEnumerate' /\ TrackingCovers'
      /\ CollisionNumbered' /\ CollisionOwned'
  BY <1>2, <1>3 DEF clear_collision, IInv, WindowAccounting, OrdersEnumerate,
       IsEnumeration, Elements, TrackingCovers, CollisionNumbered, CollisionOwned
<1> QED
  BY <1>4, <1>5, <1>6 DEF IInv

=============================================================================
