------------------------- MODULE MqttStateCleaning --------------------------
(***************************************************************************)
(* Leaving a connection preserves the invariant of MqttState.              *)
(***************************************************************************)
EXTENDS MqttStateAcks

----------------------------------------------------------------------------
(* Leaving a connection                                                    *)

(* The requests handed back, each with the identifier of its exchange.     *)
LEMMA CleanRequestFacts ==
  ASSUME IInv
  PROVE  /\ \A p \in Pubs : /\ CleanPublish(p) \in CleanRequest
                            /\ CleanPublish(p).replay = TRUE
                            /\ CleanPublish(p).request.kind = "Publish"
                            /\ CleanPublish(p).request.pkid = p
         /\ \A c \in collision : /\ CleanCollision(c) \in CleanRequest
                                 /\ CleanCollision(c).replay = FALSE
                                 /\ CleanCollision(c).request.kind = "Publish"
         /\ \A p \in outgoing_rel : /\ CleanPubRel(p) \in CleanRequest
                                    /\ CleanPubRel(p).replay = TRUE
                                    /\ CleanPubRel(p).request.kind = "PubRel"
                                    /\ CleanPubRel(p).request.pkid = p
         /\ \A p \in Subs :
              LET h == CleanControl(Get(pending_subscribe[p]))
              IN  /\ h \in CleanRequest
                  /\ h.replay = TRUE
                  /\ h.request.kind = "Subscribe"
                  /\ h.request.pkid = p
         /\ \A p \in Unsubs :
              LET h == CleanControl(Get(pending_unsubscribe[p]))
              IN  /\ h \in CleanRequest
                  /\ h.replay = TRUE
                  /\ h.request.kind = "Unsubscribe"
                  /\ h.request.pkid = p
<1>1. TypeOK /\ FiledByPkid
  BY DEF IInv, PkidOwnership
<1>2. ASSUME NEW p \in Pubs
      PROVE  /\ CleanPublish(p) \in CleanRequest
             /\ CleanPublish(p).replay = TRUE
             /\ CleanPublish(p).request.kind = "Publish"
             /\ CleanPublish(p).request.pkid = p
  <2>1. /\ p \in Pkid /\ outgoing_pub[p] # {}
        /\ outgoing_pub[p] \in Option(Publish)
        /\ outgoing_pub_notice[p] \in Option(Msg)
    BY <1>1 DEF TypeOK, Pubs
  <2> DEFINE publish == Get(outgoing_pub[p])
  <2>2. publish \in Publish /\ publish \in outgoing_pub[p]
    BY <2>1, OptionGet
  <2>3. publish.pkid = p
    BY <1>1, <2>1, <2>2 DEF FiledByPkid
  <2> HIDE DEF publish
  <2> DEFINE resent == [publish EXCEPT !.dup = TRUE]
  <2>4. CleanPublish(p) = [request |-> resent,
                           notice |-> outgoing_pub_notice[p], replay |-> TRUE]
    BY DEF CleanPublish, publish
  <2>5. resent \in Publish /\ resent.kind = "Publish" /\ resent.pkid = p
    BY Zenon, <2>2, <2>3 DEF Publish
  <2> HIDE DEF resent
  <2> QED
    BY <2>1, <2>4, <2>5 DEF CleanRequest
<1>3. ASSUME NEW c \in collision
      PROVE  /\ CleanCollision(c) \in CleanRequest
             /\ CleanCollision(c).replay = FALSE
             /\ CleanCollision(c).request.kind = "Publish"
  <2>1. c \in Publish /\ collision_notice \in Option(Msg) /\ c.kind = "Publish"
    BY <1>1 DEF TypeOK, Option, Publish
  <2> QED
    BY <2>1 DEF CleanRequest, CleanCollision
<1>4. ASSUME NEW p \in outgoing_rel
      PROVE  /\ CleanPubRel(p) \in CleanRequest
             /\ CleanPubRel(p).replay = TRUE
             /\ CleanPubRel(p).request.kind = "PubRel"
             /\ CleanPubRel(p).request.pkid = p
  <2>1. p \in Pkid /\ outgoing_rel_notice[p] \in Option(Msg)
    BY <1>1 DEF TypeOK
  <2>2. PubRel(p) \in PubRelRequest
    BY <2>1 DEF PubRel, PubRelRequest
  <2> QED
    BY <2>1, <2>2 DEF CleanRequest, CleanPubRel, PubRel
<1>5. ASSUME NEW p \in Subs
      PROVE  LET h == CleanControl(Get(pending_subscribe[p]))
             IN  /\ h \in CleanRequest
                 /\ h.replay = TRUE
                 /\ h.request.kind = "Subscribe"
                 /\ h.request.pkid = p
  <2> DEFINE pending == Get(pending_subscribe[p])
  <2>1. /\ p \in Pkid /\ pending_subscribe[p] # {}
        /\ pending_subscribe[p] \in
             Option([request : Subscribe, notice : Option(Ctl)])
    BY Zenon, <1>1 DEF TypeOK, Subs
  <2> DEFINE T == [request : Subscribe, notice : Option(Ctl)]
  <2>2. pending \in T /\ pending \in pending_subscribe[p]
    <3> HIDE DEF T
    <3>1. pending_subscribe[p] # {} /\ pending_subscribe[p] \in Option(T)
      BY <2>1 DEF T
    <3> QED
      BY <3>1, OptionGet
  <2>3. pending.request.pkid = p
    BY <1>1, <2>1, <2>2 DEF FiledByPkid
  <2> HIDE DEF pending
  <2>4. pending.request \in ControlRequest /\ pending.request.kind = "Subscribe"
    BY <2>2 DEF Subscribe, ControlRequest
  <2>5. /\ CleanControl(pending) \in CleanRequest
        /\ CleanControl(pending).replay = TRUE
        /\ CleanControl(pending).request.kind = "Subscribe"
        /\ CleanControl(pending).request.pkid = p
    BY <2>2, <2>3, <2>4 DEF CleanRequest, CleanControl
  <2> QED
    BY <2>5 DEF pending
<1>6. ASSUME NEW p \in Unsubs
      PROVE  LET h == CleanControl(Get(pending_unsubscribe[p]))
             IN  /\ h \in CleanRequest
                 /\ h.replay = TRUE
                 /\ h.request.kind = "Unsubscribe"
                 /\ h.request.pkid = p
  <2> DEFINE pending == Get(pending_unsubscribe[p])
  <2>1. /\ p \in Pkid /\ pending_unsubscribe[p] # {}
        /\ pending_unsubscribe[p] \in
             Option([request : Unsubscribe, notice : Option(Ctl)])
    BY Zenon, <1>1 DEF TypeOK, Unsubs
  <2> DEFINE T == [request : Unsubscribe, notice : Option(Ctl)]
  <2>2. pending \in T /\ pending \in pending_unsubscribe[p]
    <3> HIDE DEF T
    <3>1. pending_unsubscribe[p] # {} /\ pending_unsubscribe[p] \in Option(T)
      BY <2>1 DEF T
    <3> QED
      BY <3>1, OptionGet
  <2>3. pending.request.pkid = p
    BY <1>1, <2>1, <2>2 DEF FiledByPkid
  <2> HIDE DEF pending
  <2>4. pending.request \in ControlRequest /\ pending.request.kind = "Unsubscribe"
    BY <2>2 DEF Unsubscribe, ControlRequest
  <2>5. /\ CleanControl(pending) \in CleanRequest
        /\ CleanControl(pending).replay = TRUE
        /\ CleanControl(pending).request.kind = "Unsubscribe"
        /\ CleanControl(pending).request.pkid = p
    BY <2>2, <2>3, <2>4 DEF CleanRequest, CleanControl
  <2> QED
    BY <2>5 DEF pending
<1> QED
  BY Zenon, <1>2, <1>3, <1>4, <1>5, <1>6

(* Requests of exchanges still tracked join what is held.                  *)
LEMMA HeldJoins ==
  ASSUME IInv, NEW N \in SUBSET CleanRequest, held' = held \cup N,
         \A h \in N : h.replay => h.request.pkid \in Pubs \cup outgoing_rel \cup Subs \cup Unsubs,
         \A g, h \in N :
           g.replay /\ h.replay /\ g.request.pkid = h.request.pkid => g = h
  PROVE  /\ held' \in SUBSET CleanRequest
         /\ HeldDistinct'
         /\ \A kinds : HeldPkids(kinds)' = HeldPkids(kinds) \cup
              {h.request.pkid : h \in {n \in N : n.replay /\ n.request.kind \in kinds}}
<1>1. TypeOK /\ PkidOwnership /\ HeldDistinct
  BY DEF IInv, PkidOwnership
<1>2. held \in SUBSET CleanRequest
  BY <1>1 DEF TypeOK
<1>3. ASSUME NEW g \in held, g.replay
      PROVE  g.request.pkid \notin Pubs \cup outgoing_rel \cup Subs \cup Unsubs
  <2>1. g.request \in Publish \cup PubRelRequest \cup ControlRequest
    BY Zenon, <1>2 DEF CleanRequest
  <2>2. g.request.kind \in ReservedKinds \cup {"PubRel"}
    BY <2>1 DEF Publish, PubRelRequest, ControlRequest, Subscribe, Unsubscribe,
                ReservedKinds
  <2>3. g.request.pkid \in HeldPkids(ReservedKinds) \cup HeldPkids({"PubRel"})
    BY <1>3, <2>2 DEF HeldPkids, HeldOf
  <2> QED
    BY <1>1, <2>3 DEF PkidOwnership, Conflicting
<1>4. HeldDistinct'
  <2> SUFFICES ASSUME NEW g \in held \cup N, NEW h \in held \cup N,
                      g.replay, h.replay, g.request.pkid = h.request.pkid
               PROVE  g = h
    BY DEF HeldDistinct
  <2>1. CASE g \in held /\ h \in held
    BY <1>1, <2>1 DEF HeldDistinct
  <2>2. CASE g \in N /\ h \in N
    BY <2>2
  <2>3. ~(g \in held /\ h \in N) /\ ~(g \in N /\ h \in held)
    BY <1>3
  <2> QED
    BY <2>1, <2>2, <2>3
<1>5. \A kinds : HeldPkids(kinds)' = HeldPkids(kinds) \cup
        {h.request.pkid : h \in {n \in N : n.replay /\ n.request.kind \in kinds}}
  BY DEF HeldPkids, HeldOf
<1> QED
  BY <1>2, <1>4, <1>5

(* What is held after the event loop's clean.                              *)
LEMMA ReconnectHolds ==
  ASSUME IInv, held' = held \cup CleanRequestSet
  PROVE  /\ held' \in SUBSET CleanRequest
         /\ HeldDistinct'
         /\ HeldPkids(ReservedKinds)' =
              HeldPkids(ReservedKinds) \cup Pubs \cup Subs \cup Unsubs
         /\ HeldPkids({"Publish"})' = HeldPkids({"Publish"}) \cup Pubs
         /\ HeldPkids({"PubRel"})' = HeldPkids({"PubRel"}) \cup outgoing_rel
<1> DEFINE pubs == {CleanPublish(p) : p \in Pubs}
           coll == {CleanCollision(c) : c \in collision}
           rels == {CleanPubRel(p) : p \in outgoing_rel}
           subs == {CleanControl(Get(pending_subscribe[p])) : p \in Subs}
           unsubs == {CleanControl(Get(pending_unsubscribe[p])) : p \in Unsubs}
           N == CleanRequestSet
           Of(kinds) == {h.request.pkid :
                           h \in {n \in N : n.replay /\ n.request.kind \in kinds}}
<1>1. N = pubs \cup coll \cup rels \cup subs \cup unsubs
  BY DEF CleanRequestSet
<1>2. /\ \A h \in pubs :
           /\ h \in CleanRequest /\ h.replay /\ h.request.kind = "Publish"
           /\ h.request.pkid \in Pubs
           /\ h = CleanPublish(h.request.pkid)
      /\ \A p \in Pubs : \E h \in pubs : h.request.pkid = p
  <2>1. ASSUME NEW p \in Pubs
        PROVE  /\ CleanPublish(p) \in CleanRequest
               /\ CleanPublish(p).replay
               /\ CleanPublish(p).request.kind = "Publish"
               /\ CleanPublish(p).request.pkid = p
    BY CleanRequestFacts, Zenon
  <2>2. ASSUME NEW h \in pubs
        PROVE  \E p \in Pubs : h = CleanPublish(p)
    OBVIOUS
  <2>3. ASSUME NEW p \in Pubs
        PROVE  CleanPublish(p) \in pubs
    OBVIOUS
  <2> HIDE DEF pubs
  <2> QED
    BY <2>1, <2>2, <2>3
<1>3. \A h \in coll : h \in CleanRequest /\ ~h.replay
  <2>1. ASSUME NEW c \in collision
        PROVE  CleanCollision(c) \in CleanRequest /\ ~CleanCollision(c).replay
    BY CleanRequestFacts, Zenon
  <2> QED
    BY <2>1, Zenon
<1>4. /\ \A h \in rels :
           /\ h \in CleanRequest /\ h.replay /\ h.request.kind = "PubRel"
           /\ h.request.pkid \in outgoing_rel
           /\ h = CleanPubRel(h.request.pkid)
      /\ \A p \in outgoing_rel : \E h \in rels : h.request.pkid = p
  <2>1. ASSUME NEW p \in outgoing_rel
        PROVE  /\ CleanPubRel(p) \in CleanRequest
               /\ CleanPubRel(p).replay
               /\ CleanPubRel(p).request.kind = "PubRel"
               /\ CleanPubRel(p).request.pkid = p
    BY CleanRequestFacts, Zenon
  <2>2. ASSUME NEW h \in rels
        PROVE  \E p \in outgoing_rel : h = CleanPubRel(p)
    OBVIOUS
  <2>3. ASSUME NEW p \in outgoing_rel
        PROVE  CleanPubRel(p) \in rels
    OBVIOUS
  <2> HIDE DEF rels
  <2> QED
    BY <2>1, <2>2, <2>3
<1>5. /\ \A h \in subs :
           /\ h \in CleanRequest /\ h.replay /\ h.request.kind = "Subscribe"
           /\ h.request.pkid \in Subs
           /\ h = CleanControl(Get(pending_subscribe[h.request.pkid]))
      /\ \A p \in Subs : \E h \in subs : h.request.pkid = p
  <2>1. ASSUME NEW p \in Subs
        PROVE  /\ CleanControl(Get(pending_subscribe[p])) \in CleanRequest
               /\ CleanControl(Get(pending_subscribe[p])).replay
               /\ CleanControl(Get(pending_subscribe[p])).request.kind = "Subscribe"
               /\ CleanControl(Get(pending_subscribe[p])).request.pkid = p
    BY CleanRequestFacts, Zenon
  <2>2. ASSUME NEW h \in subs
        PROVE  \E p \in Subs : h = CleanControl(Get(pending_subscribe[p]))
    OBVIOUS
  <2>3. ASSUME NEW p \in Subs
        PROVE  CleanControl(Get(pending_subscribe[p])) \in subs
    OBVIOUS
  <2> HIDE DEF subs
  <2> QED
    BY <2>1, <2>2, <2>3
<1>6. /\ \A h \in unsubs :
           /\ h \in CleanRequest /\ h.replay /\ h.request.kind = "Unsubscribe"
           /\ h.request.pkid \in Unsubs
           /\ h = CleanControl(Get(pending_unsubscribe[h.request.pkid]))
      /\ \A p \in Unsubs : \E h \in unsubs : h.request.pkid = p
  <2>1. ASSUME NEW p \in Unsubs
        PROVE  /\ CleanControl(Get(pending_unsubscribe[p])) \in CleanRequest
               /\ CleanControl(Get(pending_unsubscribe[p])).replay
               /\ CleanControl(Get(pending_unsubscribe[p])).request.kind = "Unsubscribe"
               /\ CleanControl(Get(pending_unsubscribe[p])).request.pkid = p
    BY CleanRequestFacts, Zenon
  <2>2. ASSUME NEW h \in unsubs
        PROVE  \E p \in Unsubs : h = CleanControl(Get(pending_unsubscribe[p]))
    OBVIOUS
  <2>3. ASSUME NEW p \in Unsubs
        PROVE  CleanControl(Get(pending_unsubscribe[p])) \in unsubs
    OBVIOUS
  <2> HIDE DEF unsubs
  <2> QED
    BY <2>1, <2>2, <2>3
<1> HIDE DEF pubs, coll, rels, subs, unsubs, N
<1>7. N \in SUBSET CleanRequest
  BY <1>1, <1>2, <1>3, <1>4, <1>5, <1>6
<1>8. \A h \in N : h.replay =>
        h.request.pkid \in Pubs \cup outgoing_rel \cup Subs \cup Unsubs
  BY <1>1, <1>2, <1>3, <1>4, <1>5, <1>6
<1>9. /\ Pubs \cap (outgoing_rel \cup Subs \cup Unsubs) = {}
      /\ outgoing_rel \cap (Subs \cup Unsubs) = {}
      /\ Subs \cap Unsubs = {}
  BY DEF IInv, PkidOwnership, Conflicting
<1>10. ASSUME NEW g \in N, NEW h \in N,
              g.replay, h.replay, g.request.pkid = h.request.pkid
       PROVE  g = h
  <2>1. g \notin coll /\ h \notin coll
    BY <1>3, <1>10
  <2>2. CASE g \in pubs
    BY <1>1, <1>2, <1>4, <1>5, <1>6, <1>9, <1>10, <2>1, <2>2
  <2>3. CASE g \in rels
    BY <1>1, <1>2, <1>4, <1>5, <1>6, <1>9, <1>10, <2>1, <2>3
  <2>4. CASE g \in subs
    BY <1>1, <1>2, <1>4, <1>5, <1>6, <1>9, <1>10, <2>1, <2>4
  <2>5. CASE g \in unsubs
    BY <1>1, <1>2, <1>4, <1>5, <1>6, <1>9, <1>10, <2>1, <2>5
  <2> QED
    BY <1>1, <2>1, <2>2, <2>3, <2>4, <2>5
<1>11. held' = held \cup N
  BY DEF N
<1>12. /\ held' \in SUBSET CleanRequest
       /\ HeldDistinct'
       /\ \A kinds : HeldPkids(kinds)' = HeldPkids(kinds) \cup Of(kinds)
  BY <1>7, <1>8, <1>10, <1>11, HeldJoins
<1>13. Of({"Publish"}) = Pubs
  BY <1>1, <1>2, <1>3, <1>4, <1>5, <1>6
<1>14. Of({"PubRel"}) = outgoing_rel
  BY <1>1, <1>2, <1>3, <1>4, <1>5, <1>6
<1>15. Of(ReservedKinds) = Pubs \cup Subs \cup Unsubs
  BY <1>1, <1>2, <1>3, <1>4, <1>5, <1>6 DEF ReservedKinds
<1> HIDE DEF Of
<1> QED
  BY <1>12, <1>13, <1>14, <1>15

(* Of the requests handed back, the PUBRELs.                               *)
LEMMA CleanPubRels ==
  ASSUME IInv
  PROVE  /\ \A h \in CleanRequestSet :
              /\ h \in CleanRequest
              /\ h.request.kind = "PubRel" =>
                   \E p \in outgoing_rel : h = CleanPubRel(p)
         /\ \A p \in outgoing_rel : CleanPubRel(p) \in CleanRequestSet
<1>1. ASSUME NEW p \in Pubs
      PROVE  CleanPublish(p) \in CleanRequest /\ CleanPublish(p).request.kind # "PubRel"
  <2>1. CleanPublish(p) \in CleanRequest /\ CleanPublish(p).request.kind = "Publish"
    BY CleanRequestFacts, Zenon
  <2> QED
    BY <2>1
<1>2. ASSUME NEW c \in collision
      PROVE  CleanCollision(c) \in CleanRequest /\ CleanCollision(c).request.kind # "PubRel"
  <2>1. CleanCollision(c) \in CleanRequest /\ CleanCollision(c).request.kind = "Publish"
    BY CleanRequestFacts, Zenon
  <2> QED
    BY <2>1
<1>3. ASSUME NEW p \in outgoing_rel
      PROVE  CleanPubRel(p) \in CleanRequest
  BY CleanRequestFacts, Zenon
<1>4. ASSUME NEW p \in Subs
      PROVE  LET h == CleanControl(Get(pending_subscribe[p]))
             IN  h \in CleanRequest /\ h.request.kind # "PubRel"
  <2> DEFINE h == CleanControl(Get(pending_subscribe[p]))
  <2>1. h \in CleanRequest /\ h.request.kind = "Subscribe"
    BY CleanRequestFacts, Zenon
  <2> HIDE DEF h
  <2>2. h \in CleanRequest /\ h.request.kind # "PubRel"
    BY <2>1
  <2> QED
    BY <2>2 DEF h
<1>5. ASSUME NEW p \in Unsubs
      PROVE  LET h == CleanControl(Get(pending_unsubscribe[p]))
             IN  h \in CleanRequest /\ h.request.kind # "PubRel"
  <2> DEFINE h == CleanControl(Get(pending_unsubscribe[p]))
  <2>1. h \in CleanRequest /\ h.request.kind = "Unsubscribe"
    BY CleanRequestFacts, Zenon
  <2> HIDE DEF h
  <2>2. h \in CleanRequest /\ h.request.kind # "PubRel"
    BY <2>1
  <2> QED
    BY <2>2 DEF h
<1>6. ASSUME NEW h \in CleanRequestSet
      PROVE  \/ \E p \in Pubs : h = CleanPublish(p)
             \/ \E c \in collision : h = CleanCollision(c)
             \/ \E p \in outgoing_rel : h = CleanPubRel(p)
             \/ \E p \in Subs : h = CleanControl(Get(pending_subscribe[p]))
             \/ \E p \in Unsubs : h = CleanControl(Get(pending_unsubscribe[p]))
  BY DEF CleanRequestSet
<1>7. \A p \in outgoing_rel : CleanPubRel(p) \in CleanRequestSet
  BY DEF CleanRequestSet
<1> QED
  BY <1>1, <1>2, <1>3, <1>4, <1>5, <1>6, <1>7

(* What is held after the public clean.                                    *)
LEMMA PublicCleanHolds ==
  ASSUME IInv,
         held' = held \cup {PublicRequest(h) : h \in CleanRequestSet}
  PROVE  /\ held' \in SUBSET CleanRequest
         /\ HeldDistinct'
         /\ HeldPkids(ReservedKinds)' = HeldPkids(ReservedKinds)
         /\ HeldPkids({"Publish"})' = HeldPkids({"Publish"})
         /\ HeldPkids({"PubRel"})' = HeldPkids({"PubRel"}) \cup outgoing_rel
<1> DEFINE N == {PublicRequest(h) : h \in CleanRequestSet}
           Of(kinds) == {h.request.pkid :
                           h \in {n \in N : n.replay /\ n.request.kind \in kinds}}
<1>1. /\ \A h \in CleanRequestSet :
           /\ h \in CleanRequest
           /\ h.request.kind = "PubRel" => \E p \in outgoing_rel : h = CleanPubRel(p)
      /\ \A p \in outgoing_rel : CleanPubRel(p) \in CleanRequestSet
  BY CleanPubRels
<1>2. ASSUME NEW p \in outgoing_rel
      PROVE  /\ PublicRequest(CleanPubRel(p)) = CleanPubRel(p)
             /\ CleanPubRel(p).replay
             /\ CleanPubRel(p).request.kind = "PubRel"
             /\ CleanPubRel(p).request.pkid = p
  BY Zenon DEF CleanPubRel, PubRel, PublicRequest
<1>3. ASSUME NEW h \in CleanRequestSet
      PROVE  /\ PublicRequest(h) \in CleanRequest
             /\ PublicRequest(h).request.kind = "PubRel" =>
                  \E p \in outgoing_rel : PublicRequest(h) = CleanPubRel(p)
             /\ PublicRequest(h).replay => PublicRequest(h).request.kind = "PubRel"
  <2>1. h \in CleanRequest
    BY <1>1
  <2>2. CASE h.request.kind = "PubRel"
    <3>1. PICK p \in outgoing_rel : h = CleanPubRel(p)
      BY <1>1, <2>2
    <3>2. PublicRequest(h) = h
      BY <1>2, <3>1
    <3> QED
      BY <2>1, <2>2, <3>1, <3>2
  <2>3. CASE h.request.kind # "PubRel"
    <3>1. PublicRequest(h) = [request |-> h.request, notice |-> h.notice, replay |-> FALSE]
      BY Zenon, <2>3 DEF PublicRequest
    <3>2. \/ h.request \in Publish /\ h.notice \in Option(Msg)
          \/ h.request \in ControlRequest /\ h.notice \in Option(Ctl)
      BY Zenon, <2>1, <2>3 DEF CleanRequest, PubRelRequest
    <3>3. PublicRequest(h) \in CleanRequest
      BY <3>1, <3>2 DEF CleanRequest
    <3> QED
      BY <2>3, <3>1, <3>3
  <2> QED
    BY <2>2, <2>3
<1>4. ASSUME NEW p \in outgoing_rel
      PROVE  CleanPubRel(p) \in N
  BY <1>1, <1>2
<1>5. \A n \in N : /\ n \in CleanRequest
                   /\ n.request.kind = "PubRel" =>
                        \E p \in outgoing_rel : n = CleanPubRel(p)
                   /\ n.replay => n.request.kind = "PubRel"
  <2>1. ASSUME NEW n \in N
        PROVE  \E h \in CleanRequestSet :
                 n = PublicRequest(h)
    OBVIOUS
  <2> HIDE DEF N
  <2> QED
    BY <1>3, <2>1
<1> HIDE DEF N
<1>6. \A h \in N : h.replay =>
        h.request.pkid \in Pubs \cup outgoing_rel \cup Subs \cup Unsubs
  BY <1>2, <1>5
<1>7. \A g, h \in N :
        g.replay /\ h.replay /\ g.request.pkid = h.request.pkid => g = h
  BY <1>2, <1>5
<1>8. held' = held \cup N
  BY DEF N
<1>9. /\ held' \in SUBSET CleanRequest
      /\ HeldDistinct'
      /\ \A kinds : HeldPkids(kinds)' = HeldPkids(kinds) \cup Of(kinds)
  BY Zenon, <1>5, <1>6, <1>7, <1>8, HeldJoins
<1>10. Of({"Publish"}) = {} /\ Of(ReservedKinds) = {}
  BY <1>5 DEF ReservedKinds
<1>11. Of({"PubRel"}) = outgoing_rel
  BY <1>2, <1>4, <1>5
<1> HIDE DEF Of
<1> QED
  BY <1>9, <1>10, <1>11

(* Leaving a connection hands the identifiers over to what is held, or     *)
(* releases them.                                                          *)
LEMMA CleanPreserves ==
  ASSUME IInv, NEW keep \in BOOLEAN, clean_with_notices(keep),
         held' \in SUBSET CleanRequest, HeldDistinct',
         HeldPkids(ReservedKinds)' = HeldPkids(ReservedKinds) \cup
           (IF keep THEN Pubs \cup Subs \cup Unsubs ELSE {}),
         HeldPkids({"Publish"})' \subseteq HeldPkids({"Publish"}) \cup Pubs,
         HeldPkids({"PubRel"})' = HeldPkids({"PubRel"}) \cup outgoing_rel
  PROVE  IInv'
<1> DEFINE released == IF keep THEN {} ELSE Pubs \cup Subs \cup Unsubs
<1>1. TypeOK /\ PkidOwnership
  BY DEF IInv
<1>2. /\ outgoing_pub' = [p \in Pkid |-> {}]
      /\ outgoing_pub_order' = <<>>
      /\ outgoing_pub_notice' =
           [p \in Pkid |-> IF p \in Pubs THEN {} ELSE outgoing_pub_notice[p]]
      /\ collision' = {}
      /\ collision_notice' = IF collision = {} THEN collision_notice ELSE {}
      /\ outgoing_rel' = {}
      /\ outgoing_rel_order' = <<>>
      /\ outgoing_rel_replay' = outgoing_rel_replay \cup outgoing_rel
      /\ outgoing_rel_notice' =
           [p \in Pkid |-> IF p \in outgoing_rel THEN {} ELSE outgoing_rel_notice[p]]
      /\ pending_subscribe' = [p \in Pkid |-> {}]
      /\ pending_unsubscribe' = [p \in Pkid |-> {}]
      /\ release_outbound_pkids(released)
      /\ incoming_puback' = {}
      /\ ping' = NewPing
      /\ inflight' = 0
      /\ UNCHANGED <<incoming_pub, incoming_pubrec>>
      /\ \/ maybe_shrink_outgoing_tracking_capacity
         \/ UNCHANGED <<tracking_len, last_pkid>>
  BY DEF clean_with_notices
<1>3. outgoing_rel_replay_order' =
        append_missing(outgoing_rel_replay_order,
                       append_missing(outgoing_rel_order, Ascending(outgoing_rel)))
  BY DEF clean_with_notices
<1> HIDE DEF released
<1>4. Pubs' = {} /\ Subs' = {} /\ Unsubs' = {}
  BY <1>2 DEF Pubs, Subs, Unsubs
<1>5. /\ outbound_pkid_in_use' = outbound_pkid_in_use \ released
      /\ outbound_pkid_count' = Cardinality(outbound_pkid_in_use')
      /\ outbound_pkid_count' \in 0..MaxPkid
  BY <1>1, <1>2, IdentifiersInRange, ReleaseCounts DEF PkidOwnership
<1>6. /\ outgoing_rel_replay_order' \in Seq(Pkid)
      /\ IsEnumeration(outgoing_rel_replay_order', outgoing_rel_replay')
  <2> DEFINE sent == append_missing(outgoing_rel_order, Ascending(outgoing_rel))
  <2>1. /\ outgoing_rel_order \in Seq(Pkid)
        /\ IsEnumeration(outgoing_rel_order, outgoing_rel)
        /\ outgoing_rel_replay_order \in Seq(Pkid)
        /\ IsEnumeration(outgoing_rel_replay_order, outgoing_rel_replay)
        /\ outgoing_rel \subseteq Pkid /\ outgoing_rel_replay \subseteq Pkid
    BY DEF IInv, TypeOK, OrdersEnumerate
  <2>2. /\ Ascending(outgoing_rel) \in Seq(Pkid)
        /\ IsEnumeration(Ascending(outgoing_rel), outgoing_rel)
    BY <2>1, EnumerationAscending
  <2>3. sent \in Seq(Pkid) /\ IsEnumeration(sent, outgoing_rel \cup outgoing_rel)
    BY <2>1, <2>2, EnumerationAppendMissing
  <2>4. outgoing_rel \cup outgoing_rel = outgoing_rel
    OBVIOUS
  <2> HIDE DEF sent
  <2>5. /\ append_missing(outgoing_rel_replay_order, sent) \in Seq(Pkid)
        /\ IsEnumeration(append_missing(outgoing_rel_replay_order, sent),
                         outgoing_rel_replay \cup outgoing_rel)
    BY Zenon, <2>1, <2>3, <2>4, EnumerationAppendMissing
  <2> QED
    BY <1>2, <1>3, <2>5 DEF sent
<1>7. PkidOwnership'
  <2>1. FiledByPkid'
    BY Zenon, <1>2 DEF FiledByPkid
  <2>2. Conflicting' = outgoing_rel_replay \cup outgoing_rel
    BY Zenon, <1>2, <1>4 DEF Conflicting
  <2>3. outbound_pkid_in_use' = Conflicting' \cup HeldPkids(ReservedKinds)'
    BY <1>1, <1>5, <2>2 DEF PkidOwnership, Conflicting, released
  <2>4. HeldPkids(ReservedKinds)' \cap Conflicting' = {}
    BY <1>1, <2>2 DEF PkidOwnership, Conflicting
  <2>5. HeldPkids({"PubRel"})' = outgoing_rel_replay'
    BY <1>1, <1>2 DEF PkidOwnership
  <2> QED
    BY <1>2, <1>4, <1>5, <2>1, <2>3, <2>4, <2>5 DEF PkidOwnership
<1>8. /\ tracking_len' \in 1..(MaxPkid + 1)
      /\ last_pkid' \in 0..MaxPkid
      /\ TrackingCovers'
  <2>1. TrackingCovers /\ tracking_len \in 1..(MaxPkid + 1) /\ last_pkid \in 0..MaxPkid
    BY DEF IInv, TypeOK
  <2>2. UNCHANGED tracking_len => TrackingCovers'
    BY <1>2, <1>4, <2>1 DEF TrackingCovers
  <2>3. outbound_pkid_in_use' \subseteq Pkid
    BY <1>1, <1>5, IdentifiersInRange
  <2>4. CASE maybe_shrink_outgoing_tracking_capacity
    BY <1>7, <2>1, <2>2, <2>3, <2>4, ShrinkIsSafe
  <2>5. CASE UNCHANGED <<tracking_len, last_pkid>>
    BY <2>1, <2>2, <2>5
  <2> QED
    BY <1>2, <2>4, <2>5
<1>9. TypeOK'
  <2>1. /\ outgoing_pub_notice' \in [Pkid -> Option(Msg)]
        /\ outgoing_rel_notice' \in [Pkid -> Option(Msg)]
        /\ collision_notice' \in Option(Msg)
    BY Zenon, <1>1, <1>2 DEF TypeOK, Option
  <2>2. /\ outgoing_pub' \in [Pkid -> Option(Publish)]
        /\ collision' \in Option(Publish)
        /\ pending_subscribe' \in
             [Pkid -> Option([request : Subscribe, notice : Option(Ctl)])]
        /\ pending_unsubscribe' \in
             [Pkid -> Option([request : Unsubscribe, notice : Option(Ctl)])]
    BY Zenon, <1>2 DEF Option
  <2>3. ping' \in PingState /\ inflight' \in 0..MaxInflight
    BY <1>2, StateAssumption DEF PingState, NewPing
  <2>4. /\ outgoing_pub_order' \in Seq(Pkid) /\ outgoing_rel_order' \in Seq(Pkid)
    BY <1>2, EnumerationEmpty
  <2>5. /\ outgoing_rel' \in SUBSET Pkid /\ outgoing_rel_replay' \in SUBSET Pkid
        /\ outbound_pkid_in_use' \in SUBSET Pkid
    BY <1>1, <1>2, <1>5, IdentifiersInRange
  <2>6. /\ incoming_puback' \in SUBSET InPkid /\ incoming_pub' \in SUBSET InPkid
        /\ incoming_pubrec' \in SUBSET InPkid
    BY <1>1, <1>2 DEF TypeOK
  <2> QED
    BY Zenon, <1>5, <1>6, <1>8, <2>1, <2>2, <2>3, <2>4, <2>5, <2>6 DEF TypeOK
<1>10. WindowAccounting'
  BY <1>2, <1>4, FS_EmptySet DEF WindowAccounting
<1>11. OrdersEnumerate'
  <2>1. IsEnumeration(<<>>, {})
    BY EnumerationEmpty
  <2>2. /\ IsEnumeration(outgoing_pub_order', Pubs')
        /\ IsEnumeration(outgoing_rel_order', outgoing_rel')
    BY <1>2, <1>4, <2>1
  <2> QED
    BY <1>6, <2>2 DEF OrdersEnumerate, IsEnumeration, Elements
<1>12. CollisionNumbered' /\ CollisionOwned'
  BY <1>2 DEF CollisionNumbered, CollisionOwned
<1> QED
  BY <1>7, <1>8, <1>9, <1>10, <1>11, <1>12 DEF IInv

(* A lost connection and the public clean keep the invariant.              *)
LEMMA ReconnectPreserves == IInv /\ Reconnect => IInv'
<1> SUFFICES ASSUME IInv, Reconnect PROVE IInv'
  OBVIOUS
<1>1. clean_with_notices(TRUE) /\ held' = held \cup CleanRequestSet
  BY DEF Reconnect
<1>2. /\ held' \in SUBSET CleanRequest
      /\ HeldDistinct'
      /\ HeldPkids(ReservedKinds)' =
           HeldPkids(ReservedKinds) \cup Pubs \cup Subs \cup Unsubs
      /\ HeldPkids({"Publish"})' = HeldPkids({"Publish"}) \cup Pubs
      /\ HeldPkids({"PubRel"})' = HeldPkids({"PubRel"}) \cup outgoing_rel
  BY <1>1, ReconnectHolds
<1>3. HeldPkids(ReservedKinds)' = HeldPkids(ReservedKinds) \cup
        (IF TRUE THEN Pubs \cup Subs \cup Unsubs ELSE {})
  BY <1>2
<1> QED
  BY Zenon, <1>1, <1>2, <1>3, CleanPreserves

(* clean() called through the public API keeps the invariant.             *)
LEMMA PublicCleanPreserves == IInv /\ PublicClean => IInv'
<1> SUFFICES ASSUME IInv, PublicClean PROVE IInv'
  OBVIOUS
<1>1. /\ clean_with_notices(FALSE)
      /\ held' = held \cup {PublicRequest(h) : h \in CleanRequestSet}
  BY DEF PublicClean
<1>2. /\ held' \in SUBSET CleanRequest
      /\ HeldDistinct'
      /\ HeldPkids(ReservedKinds)' = HeldPkids(ReservedKinds)
      /\ HeldPkids({"Publish"})' = HeldPkids({"Publish"})
      /\ HeldPkids({"PubRel"})' = HeldPkids({"PubRel"}) \cup outgoing_rel
  BY <1>1, PublicCleanHolds
<1>3. HeldPkids(ReservedKinds)' = HeldPkids(ReservedKinds) \cup
        (IF FALSE THEN Pubs \cup Subs \cup Unsubs ELSE {})
  BY <1>2
<1> QED
  BY Zenon, <1>1, <1>2, <1>3, CleanPreserves

=============================================================================
