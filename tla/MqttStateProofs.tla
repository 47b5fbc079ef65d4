-------------------------- MODULE MqttStateProofs ---------------------------
(***************************************************************************)
(* Resetting a session, or restarting from a checkpoint, preserves the     *)
(* invariant of MqttState; and the theorems.  For every size of the        *)
(* identifier space, of the window and of the warm tracking vectors, and   *)
(* however the caller drives it: the variables of MqttState keep their     *)
(* types and a packet identifier is reserved exactly while one exchange    *)
(* owns it.                                                                *)
(***************************************************************************)
EXTENDS MqttStateCleaning

----------------------------------------------------------------------------
(* A new session, and one restored from a checkpoint                       *)

AnyRequest == Publish \cup PubRelRequest \cup ControlRequest

(* The requests of a session to start are filed by identifier.             *)
LEMMA SessionRequests ==
  ASSUME NEW replay \in Seq(AnyRequest),
         \A i \in 1..Len(replay) : replay[i].pkid # 0,
         \A i, j \in 1..Len(replay) : replay[i].pkid = replay[j].pkid => i = j
  PROVE  /\ Elements(replay) \subseteq AnyRequest
         /\ \A r \in Elements(replay) : r.pkid \in Pkid
         /\ \A r \in Elements(replay) : r.kind \in ReservedKinds \cup {"PubRel"}
         /\ \A q, r \in Elements(replay) : q.pkid = r.pkid => q = r
<1>1. \A i \in 1..Len(replay) : replay[i] \in AnyRequest
  BY ElementOfSeq
<1>2. Elements(replay) \subseteq AnyRequest
  BY <1>1 DEF Elements
<1>3. ASSUME NEW r \in AnyRequest
      PROVE  r.kind \in ReservedKinds \cup {"PubRel"} /\ r.pkid \in 0..MaxPkid
  BY StateAssumption DEF AnyRequest, Publish, PubRelRequest, ControlRequest,
     Subscribe, Unsubscribe, ReservedKinds, Pkid
<1>4. ASSUME NEW r \in Elements(replay)
      PROVE  r.pkid \in Pkid /\ r.kind \in ReservedKinds \cup {"PubRel"}
  <2>1. r.pkid # 0
    BY DEF Elements
  <2>2. r.pkid \in 0..MaxPkid /\ r.kind \in ReservedKinds \cup {"PubRel"}
    BY <1>2, <1>3
  <2> QED
    BY <2>1, <2>2, StateAssumption DEF Pkid
<1>5. \A q, r \in Elements(replay) : q.pkid = r.pkid => q = r
  BY DEF Elements
<1> QED
  BY <1>2, <1>4, <1>5

(* The identifiers of the PUBRELs, in the order of the session.            *)
LEMMA SessionPubRels ==
  ASSUME NEW replay \in Seq(AnyRequest),
         \A i \in 1..Len(replay) : replay[i].pkid # 0,
         \A i, j \in 1..Len(replay) : replay[i].pkid = replay[j].pkid => i = j
  PROVE  /\ ReplayPubRelOrder(replay) \in Seq(Pkid)
         /\ IsEnumeration(ReplayPubRelOrder(replay), ReplayPkids(replay, {"PubRel"}))
<1> DEFINE T == {i \in 1..Len(replay) : IsKind(replay[i], {"PubRel"})}
           rels == Select(replay, T)
           order == ReplayPubRelOrder(replay)
           S == ReplayPkids(replay, {"PubRel"})
<1> HIDE DEF rels, order, S
<1>0. order = [i \in 1..Len(rels) |-> rels[i].pkid]
  BY DEF order, rels, ReplayPubRelOrder
<1>1. /\ \A r \in Elements(replay) : r.pkid \in Pkid
      /\ \A q, r \in Elements(replay) : q.pkid = r.pkid => q = r
  BY SessionRequests
<1>2. T \subseteq 1..Len(replay)
  OBVIOUS
<1>3. /\ rels \in Seq(AnyRequest)
      /\ Elements(rels) = {replay[i] : i \in T}
      /\ (\A i, j \in T : replay[i] = replay[j] => i = j) =>
           \A j, k \in 1..Len(rels) : rels[j] = rels[k] => j = k
  <2> HIDE DEF T
  <2> QED
    BY <1>2, SelectItems, Zenon DEF rels
<1>4. \A i, j \in T : replay[i] = replay[j] => i = j
  BY <1>2
<1>5. Len(rels) \in Nat /\ Len(order) = Len(rels)
  <2>1. Len(rels) \in Nat
    BY <1>3, LenProperties
  <2> QED
    BY <1>0, <2>1
<1>6. {replay[i] : i \in T} = {q \in Elements(replay) : IsKind(q, {"PubRel"})}
  BY DEF Elements
<1>7. S = {r.pkid : r \in Elements(rels)}
  BY <1>3, <1>6 DEF S, ReplayPkids
<1> HIDE DEF T
<1>8. Elements(rels) \subseteq Elements(replay)
  BY <1>3, <1>6
<1>9. \A i \in 1..Len(rels) : rels[i] \in Elements(rels) /\ order[i] = rels[i].pkid
  BY <1>0 DEF Elements
<1>10. order \in Seq(S)
  <2>1. \A i \in 1..Len(rels) : order[i] \in S
    BY <1>7, <1>9
  <2>2. order \in [1..Len(rels) -> S]
    BY <1>0, <2>1
  <2> QED
    BY <1>5, <2>2, IsASeq
<1>11. S \subseteq Pkid
  BY <1>1, <1>7, <1>8
<1>12. \A x \in S : \E i \in 1..Len(order) : order[i] = x
  <2>1. \A r \in Elements(rels) : \E i \in 1..Len(rels) : rels[i] = r
    BY DEF Elements
  <2> QED
    BY <1>5, <1>7, <1>9, <2>1
<1>13. \A i, j \in 1..Len(order) : order[i] = order[j] => i = j
  <2>1. \A j, k \in 1..Len(rels) : rels[j] = rels[k] => j = k
    BY <1>3, <1>4
  <2> QED
    BY <1>1, <1>5, <1>8, <1>9, <2>1
<1>14. order \in Seq(Pkid)
  BY <1>10, <1>11, SeqMonotonic
<1>15. IsEnumeration(order, S)
  BY <1>10, <1>12, <1>13, EnumerationIntro
<1> QED
  BY <1>14, <1>15 DEF order, S

(* A session started with requests to replay has their identifiers         *)
(* reserved and nothing in flight.                                         *)
LEMMA StartPreserves ==
  ASSUME NEW replay \in Seq(AnyRequest),
         \A i \in 1..Len(replay) : replay[i].pkid # 0,
         \A i, j \in 1..Len(replay) : replay[i].pkid = replay[j].pkid => i = j,
         NEW qos2 \in SUBSET InPkid, StartSession(replay, qos2),
         held' = {[request |-> r, notice |-> {}, replay |-> TRUE] :
                    r \in Elements(replay)}
  PROVE  IInv'
<1> DEFINE vectored == ReplayPkids(replay, {"Publish", "PubRel"})
           lengths == {warm_tracking_len} \cup {p + 1 : p \in vectored}
           ids == ReplayPkids(replay, {"Publish", "PubRel", "Subscribe", "Unsubscribe"})
           rels == ReplayPkids(replay, {"PubRel"})
           Held(r) == [request |-> r, notice |-> {}, replay |-> TRUE]
<1>1. /\ Elements(replay) \subseteq AnyRequest
      /\ \A r \in Elements(replay) : r.pkid \in Pkid
      /\ \A r \in Elements(replay) : r.kind \in ReservedKinds \cup {"PubRel"}
      /\ \A q, r \in Elements(replay) : q.pkid = r.pkid => q = r
  BY SessionRequests
<1>2. /\ outgoing_pub' = [p \in Pkid |-> {}]
      /\ pending_subscribe' = [p \in Pkid |-> {}]
      /\ pending_unsubscribe' = [p \in Pkid |-> {}]
      /\ outgoing_rel' = {}
      /\ collision' = {}
      /\ inflight' = 0
      /\ outgoing_pub_order' = <<>>
      /\ outgoing_rel_order' = <<>>
      /\ outgoing_rel_replay' = rels
      /\ outgoing_rel_replay_order' = ReplayPubRelOrder(replay)
      /\ outbound_pkid_in_use' = ids
      /\ outbound_pkid_count' = Cardinality(ids)
      /\ tracking_len' = CHOOSE n \in lengths : \A m \in lengths : m <= n
  BY DEF StartSession
<1>3. /\ ping' = NewPing
      /\ last_pkid' = 0
      /\ outgoing_pub_notice' = [p \in Pkid |-> {}]
      /\ outgoing_rel_notice' = [p \in Pkid |-> {}]
      /\ incoming_puback' = {}
      /\ incoming_pub' = qos2
      /\ incoming_pubrec' = qos2
      /\ collision_notice' = {}
  BY DEF StartSession
<1>4. Pubs' = {} /\ Subs' = {} /\ Unsubs' = {}
  BY <1>2 DEF Pubs, Subs, Unsubs
<1>5. /\ \A h \in held' : \E r \in Elements(replay) : h = Held(r)
      /\ \A r \in Elements(replay) : Held(r) \in held'
      /\ \A r : Held(r).request = r /\ Held(r).replay = TRUE
  OBVIOUS
<1>6. \A kinds : HeldPkids(kinds)' = ReplayPkids(replay, kinds)
  <2> SUFFICES ASSUME NEW kinds PROVE HeldPkids(kinds)' = ReplayPkids(replay, kinds)
    OBVIOUS
  <2> DEFINE chosen == {q \in Elements(replay) : q.kind \in kinds}
  <2>1. ReplayPkids(replay, kinds) = {r.pkid : r \in chosen}
    BY DEF ReplayPkids, IsKind
  <2>2. \A h \in HeldOf(kinds)' : \E r \in chosen : h.request = r
    BY <1>5 DEF HeldOf
  <2>3. \A r \in chosen : Held(r) \in HeldOf(kinds)'
    BY <1>5 DEF HeldOf
  <2>4. HeldPkids(kinds)' = {h.request.pkid : h \in HeldOf(kinds)'}
    BY DEF HeldPkids
  <2> HIDE DEF Held, chosen
  <2> QED
    BY <1>5, <2>1, <2>2, <2>3, <2>4
<1>7. held' \in SUBSET CleanRequest
  <2>1. ASSUME NEW r \in AnyRequest
        PROVE  Held(r) \in CleanRequest
    BY DEF AnyRequest, CleanRequest, Option
  <2> QED
    BY <1>1, <1>5, <2>1
<1>8. HeldDistinct'
  <2> HIDE DEF Held
  <2> QED
    BY <1>1, <1>5 DEF HeldDistinct
<1> HIDE DEF Held
<1>9. /\ \A kinds : ReplayPkids(replay, kinds) \subseteq Pkid
      /\ ids = rels \cup ReplayPkids(replay, ReservedKinds)
      /\ rels \cap ReplayPkids(replay, ReservedKinds) = {}
      /\ ReplayPkids(replay, {"Publish"}) \cup rels = vectored
  <2>1. \A kinds : ReplayPkids(replay, kinds) \subseteq Pkid
    BY <1>1 DEF ReplayPkids
  <2>2. ids = rels \cup ReplayPkids(replay, ReservedKinds)
    BY DEF ReplayPkids, IsKind, ReservedKinds
  <2>3. rels \cap ReplayPkids(replay, ReservedKinds) = {}
    BY <1>1 DEF ReplayPkids, IsKind, ReservedKinds
  <2>4. ReplayPkids(replay, {"Publish"}) \cup rels = vectored
    BY DEF ReplayPkids, IsKind
  <2> QED
    BY <2>1, <2>2, <2>3, <2>4
<1> HIDE DEF ids, rels, vectored
<1>10. /\ tracking_len' \in 1..(MaxPkid + 1)
       /\ \A p \in vectored : p < tracking_len'
  <2>1. warm_tracking_len \in 1..(MaxPkid + 1)
    BY StateAssumption DEF warm_tracking_len, Min2
  <2>2. vectored \subseteq Pkid
    BY <1>9 DEF vectored
  <2>3. lengths \subseteq 1..(MaxPkid + 1)
    BY <2>1, <2>2, StateAssumption DEF Pkid
  <2>4. IsFiniteSet(lengths) /\ lengths \subseteq Nat /\ lengths # {}
    <3> DEFINE all == 1..(MaxPkid + 1)
    <3>1. IsFiniteSet(all) /\ all \subseteq Nat
      BY StateAssumption, FS_Interval
    <3>2. lengths \subseteq all /\ lengths # {}
      BY <2>3
    <3> HIDE DEF all, lengths
    <3> QED
      BY Zenon, <3>1, <3>2, FS_Subset
  <2>5. /\ tracking_len' \in lengths
        /\ \A m \in lengths : m <= tracking_len'
    <3> HIDE DEF lengths
    <3>1. \E n \in lengths : \A m \in lengths : m <= n
      BY Zenon, <2>4, LargestExists
    <3> QED
      BY <1>2, <3>1
  <2>6. tracking_len' \in 1..(MaxPkid + 1)
    BY <2>3, <2>5
  <2>7. \A p \in vectored : p + 1 <= tracking_len' /\ p \in Nat
    BY <2>2, <2>5 DEF Pkid
  <2> QED
    BY <2>6, <2>7
<1>11. /\ outgoing_rel_replay_order' \in Seq(Pkid)
       /\ IsEnumeration(outgoing_rel_replay_order', outgoing_rel_replay')
  BY <1>2, SessionPubRels DEF rels
<1>12. outbound_pkid_count' \in 0..MaxPkid /\ ids \subseteq Pkid
  <2>1. ids \subseteq Pkid
    BY <1>9 DEF ids
  <2> QED
    BY <1>2, <2>1, PkidSubset, StateAssumption
<1>13. TypeOK'
  <2>1. /\ outgoing_pub_notice' \in [Pkid -> Option(Msg)]
        /\ outgoing_rel_notice' \in [Pkid -> Option(Msg)]
        /\ collision_notice' \in Option(Msg)
        /\ outgoing_pub' \in [Pkid -> Option(Publish)]
        /\ collision' \in Option(Publish)
        /\ pending_subscribe' \in
             [Pkid -> Option([request : Subscribe, notice : Option(Ctl)])]
        /\ pending_unsubscribe' \in
             [Pkid -> Option([request : Unsubscribe, notice : Option(Ctl)])]
    BY <1>2, <1>3 DEF Option
  <2>2. ping' \in PingState /\ inflight' \in 0..MaxInflight /\ last_pkid' \in 0..MaxPkid
    BY <1>2, <1>3, StateAssumption DEF PingState, NewPing
  <2>3. outgoing_pub_order' \in Seq(Pkid) /\ outgoing_rel_order' \in Seq(Pkid)
    BY <1>2, EnumerationEmpty
  <2>4. outgoing_rel' \in SUBSET Pkid /\ outgoing_rel_replay' \in SUBSET Pkid
    BY <1>2, <1>9 DEF rels
  <2> QED
    BY Zenon, <1>2, <1>3, <1>7, <1>10, <1>11, <1>12, <2>1, <2>2, <2>3, <2>4 DEF TypeOK
<1>14. PkidOwnership'
  <2>1. FiledByPkid'
    BY <1>2 DEF FiledByPkid
  <2>2. Conflicting' = rels
    BY <1>2, <1>4 DEF Conflicting
  <2>3. /\ HeldPkids(ReservedKinds)' = ReplayPkids(replay, ReservedKinds)
        /\ HeldPkids({"PubRel"})' = rels
    BY <1>6 DEF rels
  <2> QED
    BY <1>2, <1>4, <1>8, <1>9, <2>1, <2>2, <2>3 DEF PkidOwnership
<1>15. TrackingCovers'
  <2>1. HeldPkids({"Publish"})' = ReplayPkids(replay, {"Publish"})
    BY <1>6
  <2> QED
    BY Zenon, <1>2, <1>4, <1>9, <1>10, <2>1 DEF TrackingCovers
<1>16. WindowAccounting' /\ CollisionNumbered' /\ CollisionOwned'
  BY <1>2, <1>4, FS_EmptySet DEF WindowAccounting, CollisionNumbered, CollisionOwned
<1>17. OrdersEnumerate'
  <2>1. IsEnumeration(<<>>, {})
    BY EnumerationEmpty
  <2>2. /\ IsEnumeration(outgoing_pub_order', Pubs')
        /\ IsEnumeration(outgoing_rel_order', outgoing_rel')
    BY <1>2, <1>4, <2>1
  <2> QED
    BY <1>11, <2>2 DEF OrdersEnumerate, IsEnumeration, Elements
<1> QED
  BY <1>13, <1>14, <1>15, <1>16, <1>17 DEF IInv

(* A reset session starts with nothing.                                    *)
LEMMA ResetPreserves == Reset => IInv'
<1> SUFFICES ASSUME Reset PROVE IInv'
  OBVIOUS
<1>1. StartSession(<<>>, {}) /\ held' = {}
  BY DEF Reset, reset_session_state
<1>2. <<>> \in Seq(AnyRequest) /\ Len(<<>>) = 0 /\ 1..Len(<<>>) = {}
  BY EmptySeq
<1>3. held' = {[request |-> r, notice |-> {}, replay |-> TRUE] : r \in Elements(<<>>)}
  BY <1>1, <1>2 DEF Elements
<1>4. {} \in SUBSET InPkid
  OBVIOUS
<1>5. /\ \A i \in 1..Len(<<>>) : <<>>[i].pkid # 0
      /\ \A i, j \in 1..Len(<<>>) : <<>>[i].pkid = <<>>[j].pkid => i = j
  BY <1>2
<1> QED
  BY Zenon, <1>1, <1>2, <1>3, <1>4, <1>5, StartPreserves

(* The requests held for replay are finitely many: one per identifier.     *)
LEMMA HeldForReplay ==
  ASSUME IInv, NEW S, S = {h.request : h \in {g \in held : g.replay}}
  PROVE  S \subseteq AnyRequest /\ IsFiniteSet(S) /\ Cardinality(S) \in Nat
<1>1. TypeOK /\ PkidOwnership /\ HeldDistinct /\ held \in SUBSET CleanRequest
  BY Zenon DEF IInv, PkidOwnership, TypeOK
<1>2. ASSUME NEW h \in held
      PROVE  h.request \in AnyRequest /\ h.request.kind \in ReservedKinds \cup {"PubRel"}
  <2>1. h.request \in AnyRequest
    BY Zenon, <1>1 DEF CleanRequest, AnyRequest
  <2> QED
    BY <2>1 DEF AnyRequest, Publish, PubRelRequest, ControlRequest, Subscribe,
                Unsubscribe, ReservedKinds
<1>3. ASSUME NEW h \in held, h.replay
      PROVE  h.request.pkid \in Pkid
  <2>1. h.request.pkid \in HeldPkids(ReservedKinds) \cup HeldPkids({"PubRel"})
    BY <1>2, <1>3 DEF HeldPkids, HeldOf
  <2> QED
    BY <1>1, <2>1, IdentifiersInRange DEF PkidOwnership
<1>4. S \subseteq AnyRequest
  BY <1>2
<1>5. \A r \in S : r.pkid \in Pkid
  BY <1>3
<1>6. \A q, r \in S : q.pkid = r.pkid => q = r
  BY <1>1 DEF HeldDistinct
<1> DEFINE f == [r \in S |-> r.pkid]
<1>7. f \in Injection(S, Pkid)
  BY <1>5, <1>6 DEF Injection, IsInjective
<1> HIDE DEF f
<1>8. IsFiniteSet(S)
  BY <1>7, FS_Injection, PkidFinite
<1> QED
  BY <1>4, <1>8, FS_CardinalityType

(* The part of a checkpoint the state contributes.                         *)
LEMMA TrackedRequests ==
  ASSUME IInv
  PROVE  persisted_replay_requests \in Seq(AnyRequest)
<1>1. TypeOK /\ FiledByPkid
  BY DEF IInv, PkidOwnership
<1> DEFINE subs == Ascending(Subs)
           unsubs == Ascending(Unsubs)
           s1 == [i \in 1..Len(outgoing_pub_order) |->
                    Persisted(Get(outgoing_pub[outgoing_pub_order[i]]))]
           s2 == [i \in 1..Len(outgoing_rel_order) |-> PubRel(outgoing_rel_order[i])]
           s3 == [i \in 1..Len(subs) |-> Get(pending_subscribe[subs[i]]).request]
           s4 == [i \in 1..Len(unsubs) |-> Get(pending_unsubscribe[unsubs[i]]).request]
<1>2. ASSUME NEW p \in Pubs
      PROVE  Persisted(Get(outgoing_pub[p])) \in AnyRequest
  <2> DEFINE publish == Get(outgoing_pub[p])
  <2>1. outgoing_pub[p] # {} /\ outgoing_pub[p] \in Option(Publish)
    BY <1>1 DEF TypeOK, Pubs
  <2>2. publish \in Publish
    BY <2>1, OptionGet
  <2> HIDE DEF publish
  <2>3. Persisted(publish) = [publish EXCEPT !.dup = TRUE]
    BY <2>2 DEF Persisted, IsKind, Publish
  <2>4. Persisted(publish) \in Publish
    BY Zenon, <2>2, <2>3 DEF Publish
  <2> QED
    BY <2>4 DEF AnyRequest, publish
<1>3. ASSUME NEW p \in Pkid
      PROVE  PubRel(p) \in AnyRequest
  BY DEF PubRel, PubRelRequest, AnyRequest
<1>4. ASSUME NEW p \in Subs
      PROVE  Get(pending_subscribe[p]).request \in AnyRequest
  <2> DEFINE T == [request : Subscribe, notice : Option(Ctl)]
             pending == Get(pending_subscribe[p])
  <2>1. pending_subscribe[p] # {} /\ pending_subscribe[p] \in Option(T)
    BY Zenon, <1>1 DEF TypeOK, Subs
  <2>2. pending \in T
    <3> HIDE DEF T
    <3> QED
      BY <2>1, OptionGet
  <2> HIDE DEF pending
  <2>3. pending.request \in AnyRequest
    BY <2>2 DEF AnyRequest, ControlRequest
  <2> QED
    BY <2>3 DEF pending
<1>5. ASSUME NEW p \in Unsubs
      PROVE  Get(pending_unsubscribe[p]).request \in AnyRequest
  <2> DEFINE T == [request : Unsubscribe, notice : Option(Ctl)]
             pending == Get(pending_unsubscribe[p])
  <2>1. pending_unsubscribe[p] # {} /\ pending_unsubscribe[p] \in Option(T)
    BY Zenon, <1>1 DEF TypeOK, Unsubs
  <2>2. pending \in T
    <3> HIDE DEF T
    <3> QED
      BY <2>1, OptionGet
  <2> HIDE DEF pending
  <2>3. pending.request \in AnyRequest
    BY <2>2 DEF AnyRequest, ControlRequest
  <2> QED
    BY <2>3 DEF pending
<1>6. /\ outgoing_pub_order \in Seq(Pkid) /\ IsEnumeration(outgoing_pub_order, Pubs)
      /\ outgoing_rel_order \in Seq(Pkid)
      /\ subs \in Seq(Pkid) /\ IsEnumeration(subs, Subs)
      /\ unsubs \in Seq(Pkid) /\ IsEnumeration(unsubs, Unsubs)
  BY Zenon, <1>1, IdentifiersInRange, EnumerationAscending DEF IInv, TypeOK, OrdersEnumerate
<1> HIDE DEF subs, unsubs
<1>7. /\ Len(outgoing_pub_order) \in Nat /\ Len(outgoing_rel_order) \in Nat
      /\ Len(subs) \in Nat /\ Len(unsubs) \in Nat
  BY <1>6, LenProperties
<1>8. s1 \in Seq(AnyRequest)
  <2>1. \A i \in 1..Len(outgoing_pub_order) : outgoing_pub_order[i] \in Pubs
    BY <1>6, EnumerationElim
  <2>2. \A i \in 1..Len(outgoing_pub_order) :
          Persisted(Get(outgoing_pub[outgoing_pub_order[i]])) \in AnyRequest
    BY <1>2, <2>1
  <2> HIDE DEF AnyRequest
  <2> QED
    BY <1>7, <2>2, IsASeq
<1>9. s2 \in Seq(AnyRequest)
  <2>1. \A i \in 1..Len(outgoing_rel_order) : outgoing_rel_order[i] \in Pkid
    BY <1>6, ElementOfSeq
  <2>2. \A i \in 1..Len(outgoing_rel_order) : PubRel(outgoing_rel_order[i]) \in AnyRequest
    BY <1>3, <2>1
  <2> QED
    BY <1>7, <2>2, IsASeq
<1>10. s3 \in Seq(AnyRequest)
  <2>1. \A i \in 1..Len(subs) : subs[i] \in Subs
    BY <1>6, EnumerationElim
  <2>2. \A i \in 1..Len(subs) : Get(pending_subscribe[subs[i]]).request \in AnyRequest
    BY <1>4, <2>1
  <2> QED
    BY <1>7, <2>2, IsASeq
<1>11. s4 \in Seq(AnyRequest)
  <2>1. \A i \in 1..Len(unsubs) : unsubs[i] \in Unsubs
    BY <1>6, EnumerationElim
  <2>2. \A i \in 1..Len(unsubs) :
          Get(pending_unsubscribe[unsubs[i]]).request \in AnyRequest
    BY <1>5, <2>1
  <2> QED
    BY <1>7, <2>2, IsASeq
<1>12. persisted_replay_requests = s1 \o s2 \o s3 \o s4
  BY DEF persisted_replay_requests, subs, unsubs
<1> HIDE DEF s1, s2, s3, s4
<1>13. s1 \o s2 \in Seq(AnyRequest)
  BY <1>8, <1>9, ConcatProperties
<1>14. s1 \o s2 \o s3 \in Seq(AnyRequest)
  BY <1>10, <1>13, ConcatProperties
<1>15. s1 \o s2 \o s3 \o s4 \in Seq(AnyRequest)
  BY <1>11, <1>14, ConcatProperties
<1> QED
  BY <1>12, <1>15

(* A restart from a checkpoint of the state keeps the invariant.           *)
LEMMA RestartPreserves == IInv /\ Restart => IInv'
<1> SUFFICES ASSUME IInv, Restart PROVE IInv'
  OBVIOUS
<1> DEFINE S == {h.request : h \in {g \in held : g.replay}}
<1>1. PICK session \in Checkpoints :
        /\ restore_persisted_session(session)
        /\ held' = {[request |-> r, notice |-> {}, replay |-> TRUE] :
                      r \in Elements(session.replay)}
  BY DEF Restart
<1>2. PICK s \in Orderings(S) : session = persisted_session(s)
  BY DEF Checkpoints
<1>3. S \subseteq AnyRequest /\ Cardinality(S) \in Nat
  BY HeldForReplay
<1> HIDE DEF S
<1>4. s \in Seq(AnyRequest)
  <2>1. s \in [1..Cardinality(S) -> S]
    BY DEF Orderings
  <2>2. s \in [1..Cardinality(S) -> AnyRequest]
    BY <1>3, <2>1
  <2> QED
    BY <1>3, <2>2, IsASeq
<1> DEFINE T == {i \in 1..Len(s) : Persistable(s[i])}
           kept == Select(s, T)
           more == [i \in 1..Len(kept) |-> Persisted(kept[i])]
<1>5. /\ session.replay = persisted_replay_requests \o more
      /\ session.incoming_qos2 = incoming_pubrec
  BY <1>2 DEF persisted_session
<1>6. T \subseteq 1..Len(s)
  OBVIOUS
<1> HIDE DEF T
<1>7. kept \in Seq(AnyRequest)
  BY Zenon, <1>4, <1>6, SelectItems
<1> HIDE DEF kept
<1>8. more \in Seq(AnyRequest)
  <2>1. ASSUME NEW r \in AnyRequest
        PROVE  Persisted(r) \in AnyRequest
    <3>1. CASE r \in Publish
      <4>1. [r EXCEPT !.dup = TRUE] \in Publish
        BY Zenon, <3>1 DEF Publish
      <4> QED
        BY <2>1, <4>1 DEF Persisted, AnyRequest
    <3>2. CASE r \notin Publish
      <4>1. r.kind # "Publish"
        BY <3>2 DEF AnyRequest, PubRelRequest, ControlRequest, Subscribe, Unsubscribe
      <4> QED
        BY <4>1 DEF Persisted, IsKind
    <3> QED
      BY <3>1, <3>2
  <2>2. Len(kept) \in Nat /\ \A i \in 1..Len(kept) : kept[i] \in AnyRequest
    BY <1>7, LenProperties, ElementOfSeq
  <2>3. \A i \in 1..Len(kept) : Persisted(kept[i]) \in AnyRequest
    BY <2>1, <2>2
  <2> QED
    BY <2>2, <2>3, IsASeq
<1> HIDE DEF more
<1> DEFINE replay == session.replay
<1>9. replay \in Seq(AnyRequest)
  BY <1>5, <1>8, TrackedRequests, ConcatProperties
<1>10. /\ StartSession(replay, incoming_pubrec)
       /\ \A i \in 1..Len(replay) : replay[i].pkid # 0
       /\ \A i, j \in 1..Len(replay) : replay[i].pkid = replay[j].pkid => i = j
  BY <1>1, <1>5 DEF restore_persisted_session, validate_persisted_session_packet_ids,
      validate_persisted_replay_request
<1>11. incoming_pubrec \in SUBSET InPkid
  BY DEF IInv, TypeOK
<1>12. held' = {[request |-> r, notice |-> {}, replay |-> TRUE] : r \in Elements(replay)}
  BY <1>1
<1> HIDE DEF replay
<1> QED
  BY Zenon, <1>9, <1>10, <1>11, <1>12, StartPreserves

----------------------------------------------------------------------------
(* Every step                                                              *)

(* Requests of the application.                                            *)
LEMMA SubmitPreserves ==
  ASSUME IInv,
         \/ \E m \in Msg, qos \in 1..2, pkid \in 0..MaxPkid :
              \E notice \in {{}, {m}} : SubmitPublish(m, qos, pkid, notice)
         \/ \E m \in Ctl, pkid \in 0..MaxPkid :
              \E notice \in {{}, {m}} : \/ SubmitSubscribe(m, pkid, notice)
                                        \/ SubmitUnsubscribe(m, pkid, notice)
  PROVE  IInv'
<1>1. ASSUME NEW m \in Msg, NEW qos \in 1..2, NEW pkid \in 0..MaxPkid,
             NEW notice \in {{}, {m}}, SubmitPublish(m, qos, pkid, notice)
      PROVE  IInv'
  <2> DEFINE publish == [kind |-> "Publish", msg |-> m, qos |-> qos,
                         pkid |-> pkid, dup |-> FALSE]
  <2>1. outgoing_publish(publish, notice, FALSE) /\ UNCHANGED held
    BY Zenon, <1>1 DEF SubmitPublish
  <2>2. publish \in Publish /\ notice \in Option(Msg)
    BY DEF Publish, Option
  <2> HIDE DEF publish
  <2>3. HeldTaken(publish.pkid, FALSE)
    BY Zenon, <2>1, HeldUntouched
  <2> QED
    BY Zenon, <2>1, <2>2, <2>3, PublishPreserves
<1>2. ASSUME NEW m \in Ctl, NEW pkid \in 0..MaxPkid,
             NEW notice \in {{}, {m}}, SubmitSubscribe(m, pkid, notice)
      PROVE  IInv'
  <2> DEFINE request == [kind |-> "Subscribe", msg |-> m, pkid |-> pkid]
  <2>1. outgoing_subscribe(request, notice, FALSE) /\ UNCHANGED held
    BY Zenon, <1>2 DEF SubmitSubscribe
  <2>2. request \in Subscribe /\ notice \in Option(Ctl)
    BY DEF Subscribe, Option
  <2> HIDE DEF request
  <2>3. HeldTaken(request.pkid, FALSE)
    BY Zenon, <2>1, HeldUntouched
  <2> QED
    BY Zenon, <2>1, <2>2, <2>3, SubscribePreserves
<1>3. ASSUME NEW m \in Ctl, NEW pkid \in 0..MaxPkid,
             NEW notice \in {{}, {m}}, SubmitUnsubscribe(m, pkid, notice)
      PROVE  IInv'
  <2> DEFINE request == [kind |-> "Unsubscribe", msg |-> m, pkid |-> pkid]
  <2>1. outgoing_unsubscribe(request, notice, FALSE) /\ UNCHANGED held
    BY Zenon, <1>3 DEF SubmitUnsubscribe
  <2>2. request \in Unsubscribe /\ notice \in Option(Ctl)
    BY DEF Unsubscribe, Option
  <2> HIDE DEF request
  <2>3. HeldTaken(request.pkid, FALSE)
    BY <2>1, HeldUntouched
  <2> QED
    BY <2>1, <2>2, <2>3, UnsubscribePreserves
<1> QED
  BY Zenon, <1>1, <1>2, <1>3

(* Requests held for replay.                                               *)
LEMMA SendHeldPreserves ==
  ASSUME IInv, NEW h \in held, SendHeld(h)
  PROVE  IInv'
<1>1. h \in CleanRequest /\ held' = held \ {h}
  BY DEF IInv, TypeOK, SendHeld
<1>2. h.replay \in BOOLEAN
  BY Zenon, <1>1 DEF CleanRequest
<1>3. CASE /\ h.request.kind = "Publish"
           /\ IF h.replay THEN can_send_replayed_publish(h.request)
                          ELSE can_send_publish(h.request)
           /\ outgoing_publish(h.request, h.notice, h.replay)
  <2>1. h.request \in Publish /\ h.notice \in Option(Msg)
    BY Zenon, <1>1, <1>3 DEF CleanRequest, PubRelRequest, ControlRequest, Subscribe, Unsubscribe
  <2>2. HeldTaken(h.request.pkid, h.replay)
    BY <1>1, <1>3, HeldRemoved DEF ReservedKinds
  <2>3. h.replay => can_send_replayed_publish(h.request)
    BY <1>3
  <2> QED
    BY <1>2, <1>3, <2>1, <2>2, <2>3, PublishPreserves
<1>4. CASE /\ h.request.kind = "PubRel"
           /\ outgoing_pubrel(h.request.pkid, h.notice)
  BY <1>1, <1>4, PubrelPreserves
<1>5. CASE /\ h.request.kind = "Subscribe"
           /\ outgoing_subscribe(h.request, h.notice, h.replay)
  <2>1. h.request \in Subscribe /\ h.notice \in Option(Ctl)
    BY Zenon, <1>1, <1>5 DEF CleanRequest, PubRelRequest, ControlRequest, Publish, Unsubscribe
  <2>2. HeldTaken(h.request.pkid, h.replay)
    BY <1>1, <1>5, HeldRemoved DEF ReservedKinds
  <2> QED
    BY <1>2, <1>5, <2>1, <2>2, SubscribePreserves
<1>6. CASE /\ h.request.kind = "Unsubscribe"
           /\ outgoing_unsubscribe(h.request, h.notice, h.replay)
  <2>1. h.request \in Unsubscribe /\ h.notice \in Option(Ctl)
    BY Zenon, <1>1, <1>6 DEF CleanRequest, PubRelRequest, ControlRequest, Publish, Subscribe
  <2>2. HeldTaken(h.request.pkid, h.replay)
    BY <1>1, <1>6, HeldRemoved DEF ReservedKinds
  <2> QED
    BY <1>2, <1>6, <2>1, <2>2, UnsubscribePreserves
<1> QED
  BY <1>3, <1>4, <1>5, <1>6 DEF SendHeld

(* Pings and the inbound flows leave the outbound side alone.              *)
LEMMA InboundStepPreserves ==
  ASSUME IInv, UNCHANGED held,
         \/ outgoing_ping
         \/ handle_incoming_pingresp
         \/ \E pkid \in InPkid :
              \/ \E qos \in 1..2 : handle_incoming_publish(pkid, qos)
              \/ handle_incoming_pubrel(pkid)
              \/ outgoing_puback(pkid)
              \/ outgoing_pubrec(pkid)
  PROVE  IInv'
<1>1. /\ ping \in PingState
      /\ incoming_puback \subseteq InPkid
      /\ incoming_pub \subseteq InPkid
      /\ incoming_pubrec \subseteq InPkid
  BY DEF IInv, TypeOK
<1>2. CASE outgoing_ping
  <2>1. UNCHANGED outboundVars /\ UNCHANGED last_pkid /\ UNCHANGED incomingVars
    BY <1>2 DEF outgoing_ping, outboundVars
  <2>2. collision_pings \in Nat
    BY <1>1 DEF collision_pings, PingState
  <2>3. (ping.awaiting \/ ~collision_timeout) \in BOOLEAN
    OBVIOUS
  <2>4. ping' \in PingState
    BY <1>2, <2>2, <2>3 DEF outgoing_ping, PingState
  <2> QED
    BY <1>1, <2>1, <2>4, InboundPreserves DEF incomingVars
<1>3. CASE handle_incoming_pingresp
  <2>1. UNCHANGED outboundVars /\ UNCHANGED last_pkid /\ UNCHANGED incomingVars
    BY <1>3 DEF handle_incoming_pingresp, outboundVars
  <2>2. ping' \in PingState
    BY Zenon, <1>1, <1>3 DEF handle_incoming_pingresp, PingState
  <2> QED
    BY <1>1, <2>1, <2>2, InboundPreserves DEF incomingVars
<1>4. ASSUME NEW pkid \in InPkid, NEW qos \in 1..2, handle_incoming_publish(pkid, qos)
      PROVE  IInv'
  <2>1. UNCHANGED outboundVars /\ UNCHANGED last_pkid /\ UNCHANGED ping
    BY <1>4 DEF handle_incoming_publish, outboundVars
  <2>2. /\ incoming_puback' \subseteq InPkid
        /\ incoming_pub' \subseteq InPkid
        /\ incoming_pubrec' \subseteq InPkid
    BY <1>1, <1>4 DEF handle_incoming_publish
  <2> QED
    BY <1>1, <2>1, <2>2, InboundPreserves
<1>5. ASSUME NEW pkid \in InPkid, handle_incoming_pubrel(pkid)
      PROVE  IInv'
  <2>1. UNCHANGED outboundVars /\ UNCHANGED last_pkid /\ UNCHANGED ping
    BY <1>5 DEF handle_incoming_pubrel, outboundVars
  <2>2. /\ incoming_puback' \subseteq InPkid
        /\ incoming_pub' \subseteq InPkid
        /\ incoming_pubrec' \subseteq InPkid
    BY SMTT(30), <1>1, <1>5 DEF handle_incoming_pubrel
  <2> QED
    BY <1>1, <2>1, <2>2, InboundPreserves
<1>6. ASSUME NEW pkid \in InPkid, outgoing_puback(pkid)
      PROVE  IInv'
  <2>1. UNCHANGED outboundVars /\ UNCHANGED last_pkid /\ UNCHANGED ping
    BY <1>6 DEF outgoing_puback, outboundVars
  <2>2. /\ incoming_puback' \subseteq InPkid
        /\ incoming_pub' \subseteq InPkid
        /\ incoming_pubrec' \subseteq InPkid
    BY SMTT(30), <1>1, <1>6 DEF outgoing_puback
  <2> QED
    BY <1>1, <2>1, <2>2, InboundPreserves
<1>7. ASSUME NEW pkid \in InPkid, outgoing_pubrec(pkid)
      PROVE  IInv'
  <2>1. UNCHANGED outboundVars /\ UNCHANGED last_pkid /\ UNCHANGED ping
    BY <1>7 DEF outgoing_pubrec, outboundVars
  <2>2. /\ incoming_puback' \subseteq InPkid
        /\ incoming_pub' \subseteq InPkid
        /\ incoming_pubrec' \subseteq InPkid
    BY <1>1, <1>7 DEF outgoing_pubrec
  <2> QED
    BY <1>1, <2>1, <2>2, InboundPreserves
<1> QED
  BY SMTT(30), <1>2, <1>3, <1>4, <1>5, <1>6, <1>7

(* Packets of the broker.                                                  *)
LEMMA IncomingPreserves == IInv /\ Incoming => IInv'
<1> SUFFICES ASSUME IInv, Incoming PROVE IInv'
  OBVIOUS
<1>1. UNCHANGED held
  BY DEF Incoming
<1>2. ASSUME NEW pkid \in Pkid, handle_incoming_puback(pkid) PROVE IInv'
  BY <1>1, <1>2, PubackPreserves
<1>3. ASSUME NEW pkid \in Pkid, handle_incoming_pubrec(pkid) PROVE IInv'
  BY <1>1, <1>3, PubrecPreserves
<1>4. ASSUME NEW pkid \in Pkid, handle_incoming_pubcomp(pkid) PROVE IInv'
  BY <1>1, <1>4, PubcompPreserves
<1>5. ASSUME NEW pkid \in Pkid, handle_incoming_suback(pkid) PROVE IInv'
  BY <1>1, <1>5, SubackPreserves
<1>6. ASSUME NEW pkid \in Pkid, handle_incoming_unsuback(pkid) PROVE IInv'
  BY <1>1, <1>6, UnsubackPreserves
<1>7. CASE clear_collision
  BY <1>1, <1>7, ClearCollisionPreserves
<1>8. CASE drain_tracked_requests_as_failed
  BY <1>1, <1>8, DrainPreserves
<1> QED
  BY <1>1, <1>2, <1>3, <1>4, <1>5, <1>6, <1>7, <1>8, InboundStepPreserves DEF Incoming

(* A step that changes nothing.                                            *)
LEMMA StutteringPreserves == IInv /\ UNCHANGED callerVars => IInv'
<1> SUFFICES ASSUME IInv, UNCHANGED callerVars PROVE IInv'
  OBVIOUS
<1>1. /\ UNCHANGED outboundVars /\ UNCHANGED last_pkid /\ UNCHANGED ping
      /\ UNCHANGED incomingVars
  BY DEF callerVars, stateVars, outboundVars
<1> QED
  BY Zenon, <1>1, InboundPreserves DEF incomingVars, IInv, TypeOK

(* The invariant is inductive.                                             *)
LEMMA NextPreserves == IInv /\ [Next]_callerVars => IInv'
<1> SUFFICES ASSUME IInv, [Next]_callerVars PROVE IInv'
  OBVIOUS
<1>1. CASE UNCHANGED callerVars
  BY <1>1, StutteringPreserves
<1>2. CASE \E m \in Msg, qos \in 1..2, pkid \in 0..MaxPkid :
             \E notice \in {{}, {m}} : SubmitPublish(m, qos, pkid, notice)
  BY Zenon, <1>2, SubmitPreserves
<1>3. CASE \E m \in Ctl, pkid \in 0..MaxPkid :
             \E notice \in {{}, {m}} : \/ SubmitSubscribe(m, pkid, notice)
                                       \/ SubmitUnsubscribe(m, pkid, notice)
  BY Zenon, <1>3, SubmitPreserves
<1>4. CASE \E h \in held : SendHeld(h)
  BY <1>4, SendHeldPreserves
<1>5. CASE Ping
  BY <1>5, InboundStepPreserves DEF Ping
<1>6. CASE Incoming
  BY <1>6, IncomingPreserves
<1>7. CASE Reconnect
  BY <1>7, ReconnectPreserves
<1>8. CASE PublicClean
  BY <1>8, PublicCleanPreserves
<1>9. CASE Reset
  BY <1>9, ResetPreserves
<1>10. CASE Restart
  BY <1>10, RestartPreserves
<1> QED
  BY Zenon, <1>1, <1>2, <1>3, <1>4, <1>5, <1>6, <1>7, <1>8, <1>9, <1>10 DEF Next

(* IInv is an invariant: it holds at first and every action keeps it.      *)
LEMMA Invariance == Spec => []IInv
BY Initialisation, NextPreserves, PTL DEF Spec

(* Whatever the application, the broker and the event loop do, every field *)
(* of the state keeps its type: in particular the in-flight counter stays  *)
(* within the window and never goes below zero.                            *)
THEOREM TypeCorrect == Spec => []TypeOK
<1>1. IInv => TypeOK
  BY DEF IInv
<1> QED
  BY <1>1, Invariance, PTL

(* A packet identifier is reserved exactly while one exchange owns it,     *)
(* across reconnects, resets and restarts from a checkpoint.               *)
THEOREM PkidOwnershipHolds == Spec => []PkidOwnership
<1>1. IInv => PkidOwnership
  BY DEF IInv
<1> QED
  BY <1>1, Invariance, PTL

(* inflight counts the publishes and PUBRELs of the connection, so every   *)
(* acknowledgement frees the slot its exchange took.                       *)
THEOREM WindowAccountingHolds == Spec => []WindowAccounting
<1>1. IInv => WindowAccounting
  BY DEF IInv
<1> QED
  BY <1>1, Invariance, PTL

(* No index into the pkid-indexed vectors is out of range after they       *)
(* shrink.                                                                 *)
THEOREM TrackingCoversHolds == Spec => []TrackingCovers
<1>1. IInv => TrackingCovers
  BY DEF IInv
<1> QED
  BY <1>1, Invariance, PTL

(* A publish set aside has an acknowledgement to wait for.                 *)
THEOREM CollisionOwnedHolds == Spec => []CollisionOwned
<1>1. IInv => CollisionOwned
  BY DEF IInv
<1> QED
  BY <1>1, Invariance, PTL

(* A request held for replay is never stuck on its own identifier.         *)
THEOREM ReplayReadyHolds == Spec => []ReplayReady
<1>1. ASSUME IInv PROVE ReplayReady
  <2> SUFFICES ASSUME inflight < MaxInflight
               PROVE  /\ collision = {} =>
                           \A h \in HeldOf({"Publish"}) :
                             can_send_replayed_publish(h.request)
                      /\ \A h \in HeldOf({"PubRel"}) : can_send_pubrel(h.request.pkid)
                      /\ \A h \in HeldOf({"Subscribe", "Unsubscribe"}) :
                           can_send_replayed_control_packet(h.request.pkid)
    BY DEF ReplayReady
  <2>1. PkidOwnership /\ TrackingCovers
    BY <1>1 DEF IInv
  <2>2. /\ \A h \in HeldOf({"Publish"}) : h.request.pkid \in HeldPkids({"Publish"})
        /\ \A h \in HeldOf({"Publish"}) : h.request.pkid \in HeldPkids(ReservedKinds)
        /\ \A h \in HeldOf({"Subscribe", "Unsubscribe"}) :
             h.request.pkid \in HeldPkids(ReservedKinds)
        /\ \A h \in HeldOf({"PubRel"}) : h.request.pkid \in HeldPkids({"PubRel"})
    BY DEF HeldPkids, HeldOf, ReservedKinds
  <2>3. collision = {} => \A h \in HeldOf({"Publish"}) :
                            can_send_replayed_publish(h.request)
    BY <2>1, <2>2 DEF PkidOwnership, TrackingCovers, can_send_replayed_publish
  <2>4. \A h \in HeldOf({"PubRel"}) : can_send_pubrel(h.request.pkid)
    BY <2>1, <2>2 DEF PkidOwnership, can_send_pubrel
  <2>5. \A h \in HeldOf({"Subscribe", "Unsubscribe"}) :
          can_send_replayed_control_packet(h.request.pkid)
    BY <2>1, <2>2 DEF PkidOwnership, can_send_replayed_control_packet
  <2> QED
    BY <2>3, <2>4, <2>5
<1> QED
  BY <1>1, Invariance, PTL

=============================================================================
