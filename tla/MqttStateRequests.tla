------------------------- MODULE MqttStateRequests --------------------------
(***************************************************************************)
(* The inductive invariant of MqttState, and that each request of the      *)
(* application, new or replayed, preserves it.                             *)
(***************************************************************************)
EXTENDS MqttStateOrders

----------------------------------------------------------------------------
(* The inductive invariant                                                 *)

(* The order queues list what is tracked.                                  *)
OrdersEnumerate ==
  /\ IsEnumeration(outgoing_pub_order, Pubs)
  /\ IsEnumeration(outgoing_rel_order, outgoing_rel)
  /\ IsEnumeration(outgoing_rel_replay_order, outgoing_rel_replay)

(* A publish set aside has an identifier of its own.                       *)
CollisionNumbered == \A c \in collision : c.pkid \in Pkid /\ c.qos # 0

IInv ==
  /\ TypeOK
  /\ PkidOwnership
  /\ WindowAccounting
  /\ OrdersEnumerate
  /\ TrackingCovers
  /\ CollisionNumbered
  /\ CollisionOwned

(* What the invariant is about.                                            *)
outboundVars == <<inflight, publishVars, releaseVars, replayVars, pkidVars,
                  collisionVars, controlVars, tracking_len, held>>

(* The initial state has nothing reserved.                                 *)
LEMMA Initialisation == Init => IInv
<1> SUFFICES ASSUME Init PROVE IInv
  OBVIOUS
<1> USE DEF Init, new_internal
<1>1. warm_tracking_len \in 1..(MaxPkid + 1)
  BY StateAssumption DEF warm_tracking_len, Min2
<1>2. Pubs = {} /\ Subs = {} /\ Unsubs = {} /\ Conflicting = {}
  BY DEF Pubs, Subs, Unsubs, Conflicting
<1>3. \A kinds : HeldPkids(kinds) = {}
  BY DEF HeldPkids, HeldOf
<1>4. TypeOK
  BY <1>1, StateAssumption, EnumerationEmpty
     DEF TypeOK, PingState, NewPing, Option, Pkid
<1>5. PkidOwnership
  BY <1>2, <1>3, FS_EmptySet DEF PkidOwnership, HeldDistinct, FiledByPkid
<1>6. WindowAccounting
  BY <1>2, FS_EmptySet DEF WindowAccounting
<1>7. OrdersEnumerate
  BY <1>2, EnumerationEmpty DEF OrdersEnumerate
<1>8. TrackingCovers /\ CollisionNumbered /\ CollisionOwned
  BY <1>2, <1>3 DEF TrackingCovers, CollisionNumbered, CollisionOwned
<1> QED
  BY <1>4, <1>5, <1>6, <1>7, <1>8 DEF IInv

(* A step that leaves the outbound side alone keeps the invariant.         *)
LEMMA InboundPreserves ==
  ASSUME IInv, UNCHANGED outboundVars, UNCHANGED last_pkid,
         ping' \in PingState,
         incoming_puback' \subseteq InPkid,
         incoming_pub' \subseteq InPkid,
         incoming_pubrec' \subseteq InPkid
  PROVE  IInv'
<1> USE DEF outboundVars, publishVars, releaseVars, replayVars, pkidVars,
            collisionVars, controlVars
<1>1. TypeOK'
  BY Zenon DEF IInv, TypeOK
<1>2. /\ Pubs' = Pubs /\ Subs' = Subs /\ Unsubs' = Unsubs
      /\ Conflicting' = Conflicting
  BY DEF Pubs, Subs, Unsubs, Conflicting
<1>3. /\ HeldPkids(ReservedKinds)' = HeldPkids(ReservedKinds)
      /\ HeldPkids({"PubRel"})' = HeldPkids({"PubRel"})
      /\ HeldPkids({"Publish"})' = HeldPkids({"Publish"})
  BY DEF HeldPkids, HeldOf, ReservedKinds
<1>4. PkidOwnership'
  BY <1>2, <1>3 DEF IInv, PkidOwnership, HeldDistinct, FiledByPkid
<1>5. /\ WindowAccounting' /\ OrdersEnumerate' /\ TrackingCovers'
      /\ CollisionNumbered' /\ CollisionOwned'
  BY <1>2, <1>3 DEF IInv, WindowAccounting, OrdersEnumerate, IsEnumeration,
                    Elements, TrackingCovers, CollisionNumbered, CollisionOwned
<1> QED
  BY <1>1, <1>4, <1>5 DEF IInv

----------------------------------------------------------------------------
(* The count of reserved identifiers                                       *)

(* Releasing identifiers keeps the count right.                            *)
LEMMA ReleaseCounts ==
  ASSUME outbound_pkid_in_use \subseteq Pkid,
         outbound_pkid_count = Cardinality(outbound_pkid_in_use),
         NEW S, release_outbound_pkids(S)
  PROVE  /\ outbound_pkid_in_use' = outbound_pkid_in_use \ S
         /\ outbound_pkid_count' = Cardinality(outbound_pkid_in_use')
         /\ outbound_pkid_count' \in 0..MaxPkid
<1>1. IsFiniteSet(outbound_pkid_in_use)
  BY PkidSubset
<1>2. outbound_pkid_in_use \cap S = S \cap outbound_pkid_in_use
  OBVIOUS
<1>3. outbound_pkid_count' = Cardinality(outbound_pkid_in_use \ S)
  BY ZenonT(30), <1>1, <1>2, FS_Difference DEF release_outbound_pkids
<1>4. Cardinality(outbound_pkid_in_use \ S) \in 0..MaxPkid
  BY PkidSubset, StateAssumption
<1> QED
  BY <1>3, <1>4 DEF release_outbound_pkids

(* Reserving an identifier keeps the count right.                          *)
LEMMA ReserveCounts ==
  ASSUME outbound_pkid_in_use \subseteq Pkid,
         outbound_pkid_count = Cardinality(outbound_pkid_in_use),
         NEW p \in Pkid, reserve_outbound_pkid(p)
  PROVE  /\ p \notin outbound_pkid_in_use
         /\ outbound_pkid_in_use' = outbound_pkid_in_use \cup {p}
         /\ outbound_pkid_count' = Cardinality(outbound_pkid_in_use')
         /\ outbound_pkid_count' \in 0..MaxPkid
<1>1. IsFiniteSet(outbound_pkid_in_use)
  BY PkidSubset
<1>2. outbound_pkid_count' = Cardinality(outbound_pkid_in_use \cup {p})
  BY <1>1, FS_AddElement DEF reserve_outbound_pkid
<1>3. Cardinality(outbound_pkid_in_use \cup {p}) \in 0..MaxPkid
  BY PkidSubset, StateAssumption
<1> QED
  BY <1>2, <1>3 DEF reserve_outbound_pkid

(* The identifiers the invariant is about are in range.                    *)
LEMMA IdentifiersInRange ==
  ASSUME TypeOK
  PROVE  /\ outbound_pkid_in_use \subseteq Pkid
         /\ Pubs \subseteq Pkid /\ Subs \subseteq Pkid /\ Unsubs \subseteq Pkid
         /\ outgoing_rel \subseteq Pkid /\ outgoing_rel_replay \subseteq Pkid
BY DEF TypeOK, Pubs, Subs, Unsubs

(* Vectors shrink only when no identifier is reserved, so that nothing is  *)
(* left outside them.                                                      *)
LEMMA ShrinkIsSafe ==
  ASSUME maybe_shrink_outgoing_tracking_capacity,
         tracking_len \in 1..(MaxPkid + 1), last_pkid \in 0..MaxPkid,
         PkidOwnership', outbound_pkid_in_use' \subseteq Pkid,
         UNCHANGED tracking_len => TrackingCovers'
  PROVE  /\ tracking_len' \in 1..(MaxPkid + 1)
         /\ last_pkid' \in 0..MaxPkid
         /\ TrackingCovers'
<1>1. warm_tracking_len \in 1..(MaxPkid + 1)
  BY StateAssumption DEF warm_tracking_len, Min2
<1>2. CASE UNCHANGED <<tracking_len, last_pkid>>
  BY <1>2
<1>3. CASE /\ outbound_requests_drained'
           /\ tracking_len' = warm_tracking_len
           /\ last_pkid' = 0
  <2>1. outbound_pkid_count' = 0
    BY <1>3 DEF outbound_requests_drained
  <2>2. outbound_pkid_in_use' = {}
    BY Zenon, <2>1, PkidSubset, FS_EmptySet DEF PkidOwnership
  <2>3. /\ Pubs' = {} /\ outgoing_rel' = {} /\ outgoing_rel_replay' = {}
        /\ HeldPkids(ReservedKinds)' = {}
    BY <2>2 DEF PkidOwnership, Conflicting
  <2>4. HeldPkids({"Publish"})' = {}
    BY <2>3 DEF HeldPkids, HeldOf, ReservedKinds
  <2>5. TrackingCovers'
    BY <2>3, <2>4 DEF TrackingCovers
  <2> QED
    BY <1>1, <1>3, <2>5, StateAssumption
<1> QED
  BY <1>2, <1>3 DEF maybe_shrink_outgoing_tracking_capacity

----------------------------------------------------------------------------
(* Requests for subscriptions                                              *)

(* How a request leaves what is held: one for replay, of a kind that       *)
(* reserves its identifier, is taken; or the request was not for replay.   *)
HeldTaken(pkid, replay) ==
  /\ HeldDistinct'
  /\ held' \in SUBSET CleanRequest
  /\ IF replay
     THEN /\ pkid \in HeldPkids(ReservedKinds)
          /\ HeldPkids(ReservedKinds)' = HeldPkids(ReservedKinds) \ {pkid}
     ELSE HeldPkids(ReservedKinds)' = HeldPkids(ReservedKinds)
  /\ HeldPkids({"Publish"})' \subseteq HeldPkids({"Publish"})
  /\ HeldPkids({"PubRel"})' = HeldPkids({"PubRel"})

(* A new request takes nothing of what is held.                            *)
LEMMA HeldUntouched ==
  ASSUME IInv, UNCHANGED held, NEW pkid
  PROVE  HeldTaken(pkid, FALSE)
BY DEF IInv, TypeOK, PkidOwnership, HeldDistinct, HeldTaken, HeldPkids, HeldOf,
       ReservedKinds

(* A held request is the only one for replay with its identifier.          *)
LEMMA HeldRemoved ==
  ASSUME IInv, NEW h \in held, held' = held \ {h}, h.request.kind \in ReservedKinds
  PROVE  HeldTaken(h.request.pkid, h.replay)
<1>1. HeldDistinct /\ held \in SUBSET CleanRequest
  BY DEF IInv, TypeOK, PkidOwnership
<1>2. HeldDistinct' /\ held' \in SUBSET CleanRequest
  BY <1>1 DEF HeldDistinct
<1>3. HeldPkids({"Publish"})' \subseteq HeldPkids({"Publish"})
  BY DEF HeldPkids, HeldOf
<1>4. HeldPkids({"PubRel"})' = HeldPkids({"PubRel"})
  BY DEF HeldPkids, HeldOf, ReservedKinds
<1>5. CASE ~h.replay
  <2>1. HeldOf(ReservedKinds)' = HeldOf(ReservedKinds)
    BY <1>5 DEF HeldOf
  <2>2. HeldPkids(ReservedKinds)' = HeldPkids(ReservedKinds)
    BY <2>1 DEF HeldPkids
  <2>3. h.replay = FALSE
    BY <1>1, <1>5 DEF CleanRequest
  <2> QED
    BY <1>2, <1>3, <1>4, <2>2, <2>3 DEF HeldTaken
<1>6. CASE h.replay
  <2>1. h \in HeldOf(ReservedKinds)
    BY <1>6 DEF HeldOf
  <2>2. HeldOf(ReservedKinds)' = HeldOf(ReservedKinds) \ {h}
    BY DEF HeldOf
  <2>3. \A g \in HeldOf(ReservedKinds) :
          g.request.pkid = h.request.pkid => g = h
    BY <1>1, <1>6 DEF HeldOf, HeldDistinct
  <2>4. /\ h.request.pkid \in HeldPkids(ReservedKinds)
        /\ HeldPkids(ReservedKinds)' = HeldPkids(ReservedKinds) \ {h.request.pkid}
    BY <2>1, <2>2, <2>3 DEF HeldPkids
  <2> QED
    BY <1>2, <1>3, <1>4, <1>6, <2>4 DEF HeldTaken
<1> QED
  BY <1>5, <1>6

(* A SUBSCRIBE takes an identifier that is free, or its own if it is       *)
(* replayed.                                                               *)
LEMMA SubscribePreserves ==
  ASSUME IInv, NEW request \in Subscribe, NEW notice \in Option(Ctl),
         NEW replay \in BOOLEAN, outgoing_subscribe(request, notice, replay),
         HeldTaken(request.pkid, replay)
  PROVE  IInv'
<1> USE DEF publishVars, releaseVars, replayVars, incomingVars, collisionVars
<1>1. TypeOK /\ PkidOwnership
  BY DEF IInv
<1>2. PICK pkid \in Pkid :
        /\ ControlPkid(request.pkid, pkid, replay)
        /\ pending_subscribe' =
             [pending_subscribe EXCEPT ![pkid] =
                {[request |-> [request EXCEPT !.pkid = pkid], notice |-> notice]}]
  BY Zenon DEF outgoing_subscribe
<1> DEFINE new == [request |-> [request EXCEPT !.pkid = pkid], notice |-> notice]
<1>3. new \in [request : Subscribe, notice : Option(Ctl)] /\ new.request.pkid = pkid
  BY DEF Subscribe, Pkid
<1> HIDE DEF new
<1>4. pending_subscribe' = [pending_subscribe EXCEPT ![pkid] = {new}]
  BY <1>2 DEF new
<1>5. Subs' = Subs \cup {pkid}
  BY Zenon, <1>1, <1>4 DEF Subs, TypeOK
<1>6. Pubs' = Pubs /\ Unsubs' = Unsubs
  BY DEF outgoing_subscribe, Pubs, Unsubs
<1>7. /\ outbound_pkid_in_use' = outbound_pkid_in_use \cup {pkid}
      /\ outbound_pkid_count' = Cardinality(outbound_pkid_in_use')
      /\ outbound_pkid_count' \in 0..MaxPkid
      /\ last_pkid' \in 0..MaxPkid
      /\ pkid \notin Pubs \cup Conflicting
      /\ HeldPkids(ReservedKinds)' = HeldPkids(ReservedKinds) \ {pkid}
  <2>1. CASE replay
    <3>1. /\ pkid = request.pkid
          /\ pkid \in outbound_pkid_in_use
          /\ UNCHANGED <<outbound_pkid_in_use, outbound_pkid_count, last_pkid>>
      BY <1>2, <2>1 DEF ControlPkid, accept_replayed_outbound_pkid, pkidVars
    <3>2. /\ pkid \in HeldPkids(ReservedKinds)
          /\ HeldPkids(ReservedKinds)' = HeldPkids(ReservedKinds) \ {pkid}
      BY <2>1, <3>1 DEF HeldTaken
    <3>3. outbound_pkid_count \in 0..MaxPkid /\ last_pkid \in 0..MaxPkid
      BY <1>1 DEF TypeOK
    <3> QED
      BY <1>1, <3>1, <3>2, <3>3 DEF PkidOwnership
  <2>2. CASE ~replay
    <3>1. /\ reserve_outbound_pkid(pkid)
          /\ last_pkid' = pkid \/ UNCHANGED last_pkid
      BY <1>2, <2>2 DEF ControlPkid
    <3>2. /\ pkid \notin outbound_pkid_in_use
          /\ outbound_pkid_in_use' = outbound_pkid_in_use \cup {pkid}
          /\ outbound_pkid_count' = Cardinality(outbound_pkid_in_use')
          /\ outbound_pkid_count' \in 0..MaxPkid
      BY <1>1, <3>1, IdentifiersInRange, ReserveCounts DEF PkidOwnership
    <3>3. last_pkid' \in 0..MaxPkid
      BY <1>1, <3>1 DEF TypeOK, Pkid
    <3>4. HeldPkids(ReservedKinds)' = HeldPkids(ReservedKinds)
      BY <2>2 DEF HeldTaken
    <3> QED
      BY <1>1, <3>2, <3>3, <3>4 DEF PkidOwnership
  <2> QED
    BY <2>1, <2>2
<1>8. /\ HeldPkids({"PubRel"})' = HeldPkids({"PubRel"})
      /\ HeldPkids({"Publish"})' \subseteq HeldPkids({"Publish"})
      /\ HeldDistinct' /\ held' \in SUBSET CleanRequest
  BY DEF HeldTaken
<1>9. TypeOK'
  <2>1. pending_subscribe' \in
          [Pkid -> Option([request : Subscribe, notice : Option(Ctl)])]
    BY Zenon, <1>1, <1>3, <1>4 DEF TypeOK, Option
  <2>2. outbound_pkid_in_use' \subseteq Pkid
    BY <1>1, <1>7, IdentifiersInRange
  <2> QED
    BY Zenon, <1>1, <1>7, <1>8, <2>1, <2>2 DEF outgoing_subscribe, TypeOK
<1>10. FiledByPkid'
  BY <1>1, <1>3, <1>4 DEF outgoing_subscribe, PkidOwnership, FiledByPkid, TypeOK
<1>11. PkidOwnership'
  BY <1>1, <1>5, <1>6, <1>7, <1>8, <1>10
     DEF outgoing_subscribe, PkidOwnership, Conflicting
<1>12. /\ WindowAccounting' /\ OrdersEnumerate' /\ TrackingCovers'
       /\ CollisionNumbered' /\ CollisionOwned'
  BY <1>6, <1>8 DEF outgoing_subscribe, IInv, WindowAccounting,
       OrdersEnumerate, IsEnumeration, Elements, TrackingCovers,
       CollisionNumbered, CollisionOwned
<1> QED
  BY <1>9, <1>11, <1>12 DEF IInv

(* An UNSUBSCRIBE takes an identifier that is free, or its own if it is       *)
(* replayed.                                                               *)
LEMMA UnsubscribePreserves ==
  ASSUME IInv, NEW request \in Unsubscribe, NEW notice \in Option(Ctl),
         NEW replay \in BOOLEAN, outgoing_unsubscribe(request, notice, replay),
         HeldTaken(request.pkid, replay)
  PROVE  IInv'
<1> USE DEF publishVars, releaseVars, replayVars, incomingVars, collisionVars
<1>1. TypeOK /\ PkidOwnership
  BY DEF IInv
<1>2. PICK pkid \in Pkid :
        /\ ControlPkid(request.pkid, pkid, replay)
        /\ pending_unsubscribe' =
             [pending_unsubscribe EXCEPT ![pkid] =
                {[request |-> [request EXCEPT !.pkid = pkid], notice |-> notice]}]
  BY Zenon DEF outgoing_unsubscribe
<1> DEFINE new == [request |-> [request EXCEPT !.pkid = pkid], notice |-> notice]
<1>3. new \in [request : Unsubscribe, notice : Option(Ctl)] /\ new.request.pkid = pkid
  BY DEF Unsubscribe, Pkid
<1> HIDE DEF new
<1>4. pending_unsubscribe' = [pending_unsubscribe EXCEPT ![pkid] = {new}]
  BY <1>2 DEF new
<1>5. Unsubs' = Unsubs \cup {pkid}
  BY Zenon, <1>1, <1>4 DEF Unsubs, TypeOK
<1>6. Pubs' = Pubs /\ Subs' = Subs
  BY DEF outgoing_unsubscribe, Pubs, Subs
<1>7. /\ outbound_pkid_in_use' = outbound_pkid_in_use \cup {pkid}
      /\ outbound_pkid_count' = Cardinality(outbound_pkid_in_use')
      /\ outbound_pkid_count' \in 0..MaxPkid
      /\ last_pkid' \in 0..MaxPkid
      /\ pkid \notin Pubs \cup Conflicting
      /\ HeldPkids(ReservedKinds)' = HeldPkids(ReservedKinds) \ {pkid}
  <2>1. CASE replay
    <3>1. /\ pkid = request.pkid
          /\ pkid \in outbound_pkid_in_use
          /\ UNCHANGED <<outbound_pkid_in_use, outbound_pkid_count, last_pkid>>
      BY <1>2, <2>1 DEF ControlPkid, accept_replayed_outbound_pkid, pkidVars
    <3>2. /\ pkid \in HeldPkids(ReservedKinds)
          /\ HeldPkids(ReservedKinds)' = HeldPkids(ReservedKinds) \ {pkid}
      BY <2>1, <3>1 DEF HeldTaken
    <3>3. outbound_pkid_count \in 0..MaxPkid /\ last_pkid \in 0..MaxPkid
      BY <1>1 DEF TypeOK
    <3> QED
      BY <1>1, <3>1, <3>2, <3>3 DEF PkidOwnership
  <2>2. CASE ~replay
    <3>1. /\ reserve_outbound_pkid(pkid)
          /\ last_pkid' = pkid \/ UNCHANGED last_pkid
      BY <1>2, <2>2 DEF ControlPkid
    <3>2. /\ pkid \notin outbound_pkid_in_use
          /\ outbound_pkid_in_use' = outbound_pkid_in_use \cup {pkid}
          /\ outbound_pkid_count' = Cardinality(outbound_pkid_in_use')
          /\ outbound_pkid_count' \in 0..MaxPkid
      BY <1>1, <3>1, IdentifiersInRange, ReserveCounts DEF PkidOwnership
    <3>3. last_pkid' \in 0..MaxPkid
      BY <1>1, <3>1 DEF TypeOK, Pkid
    <3>4. HeldPkids(ReservedKinds)' = HeldPkids(ReservedKinds)
      BY <2>2 DEF HeldTaken
    <3> QED
      BY <1>1, <3>2, <3>3, <3>4 DEF PkidOwnership
  <2> QED
    BY <2>1, <2>2
<1>8. /\ HeldPkids({"PubRel"})' = HeldPkids({"PubRel"})
      /\ HeldPkids({"Publish"})' \subseteq HeldPkids({"Publish"})
      /\ HeldDistinct' /\ held' \in SUBSET CleanRequest
  BY DEF HeldTaken
<1>9. TypeOK'
  <2>1. pending_unsubscribe' \in
          [Pkid -> Option([request : Unsubscribe, notice : Option(Ctl)])]
    BY Zenon, <1>1, <1>3, <1>4 DEF TypeOK, Option
  <2>2. outbound_pkid_in_use' \subseteq Pkid
    BY <1>1, <1>7, IdentifiersInRange
  <2> QED
    BY Zenon, <1>1, <1>7, <1>8, <2>1, <2>2 DEF outgoing_unsubscribe, TypeOK
<1>10. FiledByPkid'
  BY <1>1, <1>3, <1>4 DEF outgoing_unsubscribe, PkidOwnership, FiledByPkid, TypeOK
<1>11. PkidOwnership'
  BY <1>1, <1>5, <1>6, <1>7, <1>8, <1>10
     DEF outgoing_unsubscribe, PkidOwnership, Conflicting
<1>12. /\ WindowAccounting' /\ OrdersEnumerate' /\ TrackingCovers'
       /\ CollisionNumbered' /\ CollisionOwned'
  BY <1>6, <1>8 DEF outgoing_unsubscribe, IInv, WindowAccounting,
       OrdersEnumerate, IsEnumeration, Elements, TrackingCovers,
       CollisionNumbered, CollisionOwned
<1> QED
  BY <1>9, <1>11, <1>12 DEF IInv

----------------------------------------------------------------------------
(* Publishing                                                              *)

(* The vectors grow to the identifier and keep what they covered.          *)
LEMMA GrowthIsSafe ==
  ASSUME TypeOK, NEW pkid \in Pkid,
         tracking_len' = Max2(tracking_len, pkid + 1)
  PROVE  /\ tracking_len' \in 1..(MaxPkid + 1)
         /\ pkid < tracking_len'
         /\ \A p \in Nat : p < tracking_len => p < tracking_len'
BY StateAssumption DEF TypeOK, Max2, Pkid

(* A publish held for replay has an identifier in range.                   *)
LEMMA HeldPublishTyped ==
  ASSUME TypeOK
  PROVE  /\ \A h \in HeldOf({"Publish"}) : h.request \in Publish
         /\ \A p \in HeldPkids({"Publish"}) : p \in Nat
<1>1. ASSUME NEW h \in held, h.request.kind = "Publish"
      PROVE  h.request \in Publish
  <2>1. h \in CleanRequest
    BY DEF TypeOK
  <2>2. h.request \in Publish \cup PubRelRequest \cup ControlRequest
    BY Zenon, <2>1 DEF CleanRequest
  <2> QED
    BY <1>1, <2>2 DEF PubRelRequest, ControlRequest, Subscribe, Unsubscribe
<1>2. \A h \in HeldOf({"Publish"}) : h.request \in Publish
  BY <1>1 DEF HeldOf
<1>3. \A publish \in Publish : publish.pkid \in Nat
  BY DEF Publish
<1> QED
  BY <1>2, <1>3 DEF HeldPkids

(* One more publish or PUBREL takes one more slot of the window.           *)
LEMMA WindowGrows ==
  ASSUME NEW S, S \subseteq Pkid, NEW pkid \in Pkid, pkid \notin S
  PROVE  /\ Cardinality(S \cup {pkid}) = Cardinality(S) + 1
         /\ Cardinality(S) \in Nat
BY PkidSubset, FS_AddElement

(* One publish or PUBREL less frees one slot of the window.                *)
LEMMA WindowShrinks ==
  ASSUME NEW S, S \subseteq Pkid, NEW pkid \in S
  PROVE  /\ Cardinality(S \ {pkid}) = Cardinality(S) - 1
         /\ Cardinality(S) \in Nat /\ Cardinality(S) >= 1
<1>1. IsFiniteSet(S) /\ Cardinality(S) \in Nat
  BY PkidSubset
<1>2. Cardinality(S) # 0
  BY <1>1, FS_EmptySet
<1>3. Cardinality(S \ {pkid}) = Cardinality(S) - 1
  BY Zenon, <1>1, FS_RemoveElement
<1> QED
  BY <1>1, <1>2, <1>3

(* A tracked publish, new or replayed.                                     *)
LEMMA TrackPreserves ==
  ASSUME IInv, NEW publish \in Publish, publish.qos # 0, publish.pkid \in Pkid,
         NEW notice \in Option(Msg), NEW replay \in BOOLEAN,
         inflight < MaxInflight,
         outgoing_pub[publish.pkid] = {}, Track(publish, notice, replay),
         tracking_len' = Max2(tracking_len, publish.pkid + 1),
         last_pkid' \in 0..MaxPkid,
         UNCHANGED <<ping, releaseVars, replayVars, incomingVars, controlVars>>,
         HeldTaken(publish.pkid, replay)
  PROVE  IInv'
<1> DEFINE pkid == publish.pkid
<1> USE DEF releaseVars, replayVars, incomingVars, controlVars, collisionVars
<1>1. TypeOK /\ PkidOwnership
  BY DEF IInv
<1>2. /\ outgoing_pub' = [outgoing_pub EXCEPT ![pkid] = {publish}]
      /\ outgoing_pub_order' = Append(outgoing_pub_order, pkid)
      /\ outgoing_pub_notice' = [outgoing_pub_notice EXCEPT ![pkid] = notice]
      /\ inflight' = inflight + 1
      /\ UNCHANGED <<collision, collision_notice>>
      /\ pkid \notin Conflicting
  BY DEF Track
<1>3. pkid \in Pkid /\ pkid \notin Pubs
  BY DEF Pubs
<1> HIDE DEF pkid
<1>4. Pubs' = Pubs \cup {pkid}
  BY Zenon, <1>1, <1>2, <1>3 DEF Pubs, TypeOK
<1>5. Subs' = Subs /\ Unsubs' = Unsubs
  BY Zenon DEF Subs, Unsubs
<1>6. /\ outbound_pkid_in_use' = outbound_pkid_in_use \cup {pkid}
      /\ outbound_pkid_count' = Cardinality(outbound_pkid_in_use')
      /\ outbound_pkid_count' \in 0..MaxPkid
      /\ HeldPkids(ReservedKinds)' = HeldPkids(ReservedKinds) \ {pkid}
  <2>1. CASE replay
    <3>1. accept_replayed_outbound_pkid(pkid)
      BY <2>1 DEF Track, pkid
    <3>2. /\ pkid \in outbound_pkid_in_use
          /\ UNCHANGED <<outbound_pkid_in_use, outbound_pkid_count>>
      BY <3>1 DEF accept_replayed_outbound_pkid, pkidVars
    <3>3. HeldPkids(ReservedKinds)' = HeldPkids(ReservedKinds) \ {pkid}
      BY <2>1 DEF HeldTaken, pkid
    <3>4. outbound_pkid_count \in 0..MaxPkid
      BY <1>1 DEF TypeOK
    <3> QED
      BY <1>1, <3>2, <3>3, <3>4 DEF PkidOwnership
  <2>2. CASE ~replay
    <3>1. reserve_outbound_pkid(pkid)
      BY <2>2 DEF Track, pkid
    <3>2. /\ pkid \notin outbound_pkid_in_use
          /\ outbound_pkid_in_use' = outbound_pkid_in_use \cup {pkid}
          /\ outbound_pkid_count' = Cardinality(outbound_pkid_in_use')
          /\ outbound_pkid_count' \in 0..MaxPkid
      BY <1>1, <1>3, <3>1, IdentifiersInRange, ReserveCounts DEF PkidOwnership
    <3>3. HeldPkids(ReservedKinds)' = HeldPkids(ReservedKinds)
      BY <2>2 DEF HeldTaken
    <3> QED
      BY <1>1, <3>2, <3>3 DEF PkidOwnership
  <2> QED
    BY Zenon, <2>1, <2>2
<1>7. /\ HeldPkids({"PubRel"})' = HeldPkids({"PubRel"})
      /\ HeldPkids({"Publish"})' \subseteq HeldPkids({"Publish"})
      /\ HeldDistinct' /\ held' \in SUBSET CleanRequest
  BY DEF HeldTaken
<1>8. /\ tracking_len' \in 1..(MaxPkid + 1)
      /\ pkid < tracking_len'
      /\ \A p \in Nat : p < tracking_len => p < tracking_len'
  BY <1>1, <1>3, GrowthIsSafe DEF pkid
<1>9. /\ outgoing_pub_order' \in Seq(Pkid)
      /\ IsEnumeration(outgoing_pub_order', Pubs')
  <2>1. outgoing_pub_order \in Seq(Pkid) /\ IsEnumeration(outgoing_pub_order, Pubs)
    BY DEF IInv, TypeOK, OrdersEnumerate
  <2> QED
    BY <1>1, <1>2, <1>3, <1>4, <2>1, IdentifiersInRange, EnumerationAppend
<1>10. TypeOK'
  <2>1. outgoing_pub' \in [Pkid -> Option(Publish)]
    BY SMTT(30), <1>1, <1>2, <1>3 DEF TypeOK, Option
  <2>2. outgoing_pub_notice' \in [Pkid -> Option(Msg)]
    BY <1>1, <1>2, <1>3 DEF TypeOK
  <2>3. inflight' \in 0..MaxInflight
    BY SMTT(30), <1>1, <1>2, StateAssumption DEF TypeOK
  <2>4. outbound_pkid_in_use' \subseteq Pkid
    BY Zenon, <1>1, <1>3, <1>6, IdentifiersInRange
  <2> QED
    BY Zenon, <1>1, <1>2, <1>6, <1>7, <1>8, <1>9, <2>1, <2>2, <2>3, <2>4 DEF TypeOK
<1>11. FiledByPkid'
  BY <1>1, <1>2, <1>3 DEF PkidOwnership, FiledByPkid, TypeOK, pkid
<1>12. PkidOwnership'
  BY <1>1, <1>2, <1>3, <1>4, <1>5, <1>6, <1>7, <1>11
     DEF PkidOwnership, Conflicting
<1>13. WindowAccounting'
  <2>1. Cardinality(Pubs') = Cardinality(Pubs) + 1 /\ Cardinality(Pubs) \in Nat
    BY <1>1, <1>3, <1>4, IdentifiersInRange, WindowGrows
  <2>2. Cardinality(outgoing_rel) \in Nat
    BY <1>1, IdentifiersInRange, PkidSubset
  <2> QED
    BY <1>2, <2>1, <2>2 DEF IInv, WindowAccounting
<1>14. OrdersEnumerate'
  BY <1>9 DEF IInv, OrdersEnumerate, IsEnumeration, Elements
<1>15. TrackingCovers'
  <2>1. \A p \in Pubs \cup outgoing_rel \cup outgoing_rel_replay : p \in Nat
    BY Zenon, <1>1, IdentifiersInRange, PkidFinite
  <2>2. \A p \in HeldPkids({"Publish"}) : p \in Nat
    BY Zenon, <1>1, HeldPublishTyped
  <2> QED
    BY <1>4, <1>7, <1>8, <2>1, <2>2 DEF IInv, TrackingCovers
<1>16. CollisionNumbered' /\ CollisionOwned'
  BY <1>2, <1>4 DEF IInv, CollisionNumbered, CollisionOwned
<1> QED
  BY <1>10, <1>12, <1>13, <1>14, <1>15, <1>16 DEF IInv

(* A publish set aside waits for the exchange that has its identifier.     *)
LEMMA SetAsidePreserves ==
  ASSUME IInv, NEW publish \in Publish, publish.qos # 0, publish.pkid \in Pkid,
         NEW notice \in Option(Msg),
         outgoing_pub[publish.pkid] # {}, SetAside(publish, notice),
         tracking_len' = Max2(tracking_len, publish.pkid + 1),
         last_pkid' \in 0..MaxPkid,
         UNCHANGED <<ping, releaseVars, replayVars, incomingVars, controlVars>>,
         HeldTaken(publish.pkid, FALSE)
  PROVE  IInv'
<1> USE DEF publishVars, pkidVars, releaseVars, replayVars, incomingVars, controlVars
<1>1. TypeOK /\ PkidOwnership
  BY DEF IInv
<1>2. /\ collision' = {publish} /\ collision_notice' = notice
      /\ UNCHANGED <<inflight, publishVars, pkidVars>>
  BY DEF SetAside
<1>3. Pubs' = Pubs /\ Subs' = Subs /\ Unsubs' = Unsubs /\ publish.pkid \in Pubs
  BY <1>2 DEF Pubs, Subs, Unsubs
<1>4. /\ HeldPkids(ReservedKinds)' = HeldPkids(ReservedKinds)
      /\ HeldPkids({"PubRel"})' = HeldPkids({"PubRel"})
      /\ HeldPkids({"Publish"})' \subseteq HeldPkids({"Publish"})
      /\ HeldDistinct' /\ held' \in SUBSET CleanRequest
  BY DEF HeldTaken
<1>5. /\ tracking_len' \in 1..(MaxPkid + 1)
      /\ \A p \in Nat : p < tracking_len => p < tracking_len'
  BY <1>1, GrowthIsSafe
<1>6. TypeOK'
  BY ZenonT(30), <1>1, <1>2, <1>4, <1>5 DEF TypeOK, Option
<1>7. PkidOwnership'
  BY Zenon, <1>1, <1>2, <1>3, <1>4 DEF PkidOwnership, Conflicting, FiledByPkid
<1>8. TrackingCovers'
  <2>1. \A p \in Pubs \cup outgoing_rel \cup outgoing_rel_replay : p \in Nat
    BY Zenon, <1>1, IdentifiersInRange, PkidFinite
  <2>2. \A p \in HeldPkids({"Publish"}) : p \in Nat
    BY <1>1, HeldPublishTyped
  <2> QED
    BY <1>3, <1>4, <1>5, <2>1, <2>2 DEF IInv, TrackingCovers
<1>9. WindowAccounting' /\ OrdersEnumerate' /\ CollisionNumbered' /\ CollisionOwned'
  BY <1>2, <1>3 DEF IInv, WindowAccounting, OrdersEnumerate, IsEnumeration,
       Elements, CollisionNumbered, CollisionOwned
<1> QED
  BY <1>6, <1>7, <1>8, <1>9 DEF IInv

(* A publish refused after the vectors have grown changes nothing else.    *)
LEMMA RefusePreserves ==
  ASSUME IInv, NEW pkid \in Pkid, Refuse(pkid, FALSE),
         tracking_len' = Max2(tracking_len, pkid + 1),
         last_pkid' \in 0..MaxPkid,
         UNCHANGED <<ping, releaseVars, replayVars, incomingVars, controlVars>>,
         HeldTaken(pkid, FALSE)
  PROVE  IInv'
<1> USE DEF publishVars, pkidVars, releaseVars, replayVars, incomingVars,
            controlVars, collisionVars
<1>1. TypeOK /\ PkidOwnership
  BY DEF IInv
<1>2. UNCHANGED <<inflight, publishVars, pkidVars, collisionVars>>
  BY DEF Refuse
<1>3. Pubs' = Pubs /\ Subs' = Subs /\ Unsubs' = Unsubs
  BY <1>2 DEF Pubs, Subs, Unsubs
<1>4. /\ HeldPkids(ReservedKinds)' = HeldPkids(ReservedKinds)
      /\ HeldPkids({"PubRel"})' = HeldPkids({"PubRel"})
      /\ HeldPkids({"Publish"})' \subseteq HeldPkids({"Publish"})
      /\ HeldDistinct' /\ held' \in SUBSET CleanRequest
  BY DEF HeldTaken
<1>5. /\ tracking_len' \in 1..(MaxPkid + 1)
      /\ \A p \in Nat : p < tracking_len => p < tracking_len'
  BY <1>1, GrowthIsSafe
<1>6. TypeOK'
  BY ZenonT(30), <1>1, <1>2, <1>4, <1>5 DEF TypeOK
<1>7. PkidOwnership'
  BY Zenon, <1>1, <1>2, <1>3, <1>4 DEF PkidOwnership, Conflicting, FiledByPkid
<1>8. TrackingCovers'
  <2>1. \A p \in Pubs \cup outgoing_rel \cup outgoing_rel_replay : p \in Nat
    BY Zenon, <1>1, IdentifiersInRange, PkidFinite
  <2>2. \A p \in HeldPkids({"Publish"}) : p \in Nat
    BY <1>1, HeldPublishTyped
  <2> QED
    BY <1>3, <1>4, <1>5, <2>1, <2>2 DEF IInv, TrackingCovers
<1>9. WindowAccounting' /\ CollisionNumbered' /\ CollisionOwned'
  BY <1>2, <1>3 DEF IInv, WindowAccounting, CollisionNumbered, CollisionOwned
<1>10. OrdersEnumerate'
  <2>1. /\ outgoing_pub_order' = outgoing_pub_order
        /\ outgoing_rel_order' = outgoing_rel_order
        /\ outgoing_rel_replay_order' = outgoing_rel_replay_order
        /\ outgoing_rel' = outgoing_rel
        /\ outgoing_rel_replay' = outgoing_rel_replay
    BY <1>2
  <2>2. OrdersEnumerate
    BY DEF IInv
  <2> QED
    BY <1>3, <2>1, <2>2 DEF OrdersEnumerate
<1> QED
  BY <1>6, <1>7, <1>8, <1>9, <1>10 DEF IInv

(* A publish of the application or of a replay.                            *)
LEMMA PublishPreserves ==
  ASSUME IInv, NEW publish \in Publish, NEW notice \in Option(Msg),
         NEW replay \in BOOLEAN, outgoing_publish(publish, notice, replay),
         replay => can_send_replayed_publish(publish),
         HeldTaken(publish.pkid, replay)
  PROVE  IInv'
<1>1. publish.qos # 0 /\ inflight < MaxInflight
  BY DEF outgoing_publish
<1>2. PICK pkid \in publish_pkid(publish, replay) :
       LET numbered == [publish EXCEPT !.pkid = pkid]
       IN  /\ last_pkid' = IF publish.pkid = 0 THEN pkid ELSE last_pkid
           /\ tracking_len' = Max2(tracking_len, pkid + 1)
           /\ \/ outgoing_pub[pkid] # {} /\ SetAside(numbered, notice)
              \/ outgoing_pub[pkid] = {} /\ Track(numbered, notice, replay)
              \/ outgoing_pub[pkid] = {} /\ Refuse(pkid, replay)
  BY DEF outgoing_publish
<1>3. pkid \in Pkid /\ (replay => pkid = publish.pkid)
  <2>1. next_free_outbound_pkid_after(last_pkid) \subseteq Pkid
    BY DEF next_free_outbound_pkid_after
  <2> QED
    BY <2>1 DEF publish_pkid, Publish, Pkid
<1> DEFINE numbered == [publish EXCEPT !.pkid = pkid]
<1>4. numbered \in Publish /\ numbered.pkid = pkid /\ numbered.qos # 0
  BY <1>1, <1>3 DEF Publish, Pkid
<1>5. /\ last_pkid' \in 0..MaxPkid
      /\ tracking_len' = Max2(tracking_len, pkid + 1)
  BY <1>2, <1>3 DEF IInv, TypeOK, Pkid
<1>6. \/ outgoing_pub[pkid] # {} /\ SetAside(numbered, notice)
      \/ outgoing_pub[pkid] = {} /\ Track(numbered, notice, replay)
      \/ outgoing_pub[pkid] = {} /\ Refuse(pkid, replay)
  BY <1>2
<1> HIDE DEF numbered
<1>7. UNCHANGED <<ping, releaseVars, replayVars, incomingVars, controlVars>>
  BY DEF outgoing_publish
<1>8. HeldTaken(pkid, replay)
  BY <1>3 DEF HeldTaken
<1>9. replay => /\ pkid \in outbound_pkid_in_use
                /\ pkid \notin Pubs \cup Conflicting
  BY <1>1, <1>3 DEF can_send_replayed_publish
<1>10. CASE outgoing_pub[pkid] # {} /\ SetAside(numbered, notice)
  <2>1. replay = FALSE
    BY <1>3, <1>9, <1>10 DEF Pubs
  <2> QED
    BY Zenon, <1>3, <1>4, <1>5, <1>7, <1>8, <1>10, <2>1, SetAsidePreserves
<1>11. CASE outgoing_pub[pkid] = {} /\ Track(numbered, notice, replay)
  BY <1>1, <1>3, <1>4, <1>5, <1>7, <1>8, <1>11, TrackPreserves
<1>12. CASE outgoing_pub[pkid] = {} /\ Refuse(pkid, replay)
  <2>1. replay = FALSE
    BY <1>9, <1>12 DEF Refuse
  <2> QED
    BY Zenon, <1>3, <1>5, <1>7, <1>8, <1>12, <2>1, RefusePreserves
<1> QED
  BY Zenon, <1>6, <1>10, <1>11, <1>12

=============================================================================
