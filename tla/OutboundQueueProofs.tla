------------------------ MODULE OutboundQueueProofs ------------------------
(***************************************************************************)
(* The order guarantee of the outbound scheduler for any number of         *)
(* requests.  OnlyControlOvertakesPublish is not inductive by itself: a    *)
(* pop takes a request out of the middle of the queue, so the invariant    *)
(* must relate the requests already sent to the ones still queued, and     *)
(* know that the queue itself is in admission order.                       *)
(***************************************************************************)
EXTENDS OutboundQueue, TLAPS

(* The type of the state; a queue of any length and any number of tickets. *)
TypeOK ==
  /\ queue \in Seq(Request)
  /\ ticket \in Nat
  /\ sent \in Seq(Request)

(* Tickets grow along the queue and none exceeds the admission counter.    *)
QueueSorted ==
  /\ \A i, j \in 1..Len(queue) : i < j => queue[i].ticket < queue[j].ticket
  /\ \A i \in 1..Len(queue) : queue[i].ticket <= ticket
  /\ \A i \in 1..Len(sent) : sent[i].ticket <= ticket

(* A request a may precede b in the sending order.                         *)
MayPrecede(a, b) ==
  b.ticket < a.ticket =>
    a.class = "Control" /\ b.class = "FlowControlledPublish"

SentBeforeQueued ==
  \A i \in 1..Len(sent), j \in 1..Len(queue) : MayPrecede(sent[i], queue[j])

SentInOrder ==
  \A i, j \in 1..Len(sent) : i < j => MayPrecede(sent[i], sent[j])

IInv == TypeOK /\ QueueSorted /\ SentBeforeQueued /\ SentInOrder

(* VecDeque::remove keeps the other requests in order.                     *)
LEMMA RemoveKeepsOrder ==
  ASSUME NEW S, NEW q \in Seq(S), NEW index \in 1..Len(q)
  PROVE  /\ Remove(q, index) \in Seq(S)
         /\ Len(Remove(q, index)) = Len(q) - 1
         /\ \A j \in 1..(Len(q) - 1) :
              Remove(q, index)[j] = IF j < index THEN q[j] ELSE q[j + 1]
  BY DEF Remove

(* A selected request is ready; when it is not at the front, it is a       *)
(* control request and only QoS 1/2 publishes are ahead of it.             *)
LEMMA SelectedRequest ==
  ASSUME NEW s \in Seq(ScheduledRequest), has_ready(s)
  PROVE  /\ next_ready_index(s) \in 1..Len(s)
         /\ Selectable(s, next_ready_index(s))
  BY DEF has_ready, next_ready_index

(* Requests of a well typed sequence carry natural tickets.                *)
LEMMA TicketsAreNatural ==
  ASSUME NEW q \in Seq(Request), NEW i \in 1..Len(q)
  PROVE  q[i] \in Request /\ q[i].ticket \in Nat /\ q[i].class \in RequestClass
<1>1. q[i] \in Request
  OBVIOUS
<1> QED BY <1>1 DEF Request

LEMMA Initialisation == Init => IInv
  BY DEF Init, IInv, TypeOK, QueueSorted, SentBeforeQueued, SentInOrder

LEMMA PushPreserves ==
  ASSUME IInv, NEW class \in RequestClass, push_back(class)
  PROVE  IInv'
<1> DEFINE r == [ticket |-> ticket + 1, class |-> class]
<1>1. r \in Request
  BY DEF IInv, TypeOK, Request, push_back
<1>2. /\ queue' \in Seq(Request)
      /\ Len(queue') = Len(queue) + 1
      /\ \A i \in 1..Len(queue) : queue'[i] = queue[i]
      /\ queue'[Len(queue) + 1] = r
  BY <1>1 DEF IInv, TypeOK, push_back
<1>3. TypeOK'
  BY <1>2 DEF IInv, TypeOK, push_back
<1>a. /\ \A i \in 1..Len(queue) : queue[i].ticket \in Nat
      /\ \A i \in 1..Len(sent) : sent[i].ticket \in Nat
      /\ ticket \in Nat /\ ticket' = ticket + 1 /\ sent' = sent
      /\ r.ticket = ticket + 1 /\ Len(queue) \in Nat
  BY TicketsAreNatural DEF IInv, TypeOK, push_back
<1> HIDE DEF r
<1>b. /\ \A i \in 1..Len(queue') : i \in 1..Len(queue) \/ i = Len(queue) + 1
      /\ \A i, j \in 1..Len(queue') : i < j => i \in 1..Len(queue)
  BY <1>2, <1>a
<1>4. QueueSorted'
  <2>1. ASSUME NEW i \in 1..Len(queue'), NEW j \in 1..Len(queue'), i < j
        PROVE  queue'[i].ticket < queue'[j].ticket
    <3>1. queue'[i] = queue[i] /\ queue[i].ticket <= ticket /\ queue[i].ticket \in Nat
      BY <1>2, <1>a, <1>b, <2>1 DEF IInv, QueueSorted
    <3>2. CASE j \in 1..Len(queue)
      BY <1>2, <1>b, <2>1, <3>1, <3>2 DEF IInv, QueueSorted
    <3>3. CASE j = Len(queue) + 1
      BY <1>2, <1>a, <3>1, <3>3
    <3> QED BY <1>b, <3>2, <3>3
  <2>2. ASSUME NEW i \in 1..Len(queue') PROVE queue'[i].ticket <= ticket'
    <3>1. CASE i \in 1..Len(queue)
      BY <1>2, <1>a, <3>1 DEF IInv, QueueSorted
    <3>2. CASE i = Len(queue) + 1
      BY <1>2, <1>a, <3>2
    <3> QED BY <1>b, <3>1, <3>2
  <2>3. ASSUME NEW i \in 1..Len(sent') PROVE sent'[i].ticket <= ticket'
    BY <1>a DEF IInv, QueueSorted
  <2> QED BY <2>1, <2>2, <2>3 DEF QueueSorted
<1>5. SentBeforeQueued'
  <2> SUFFICES ASSUME NEW i \in 1..Len(sent'), NEW j \in 1..Len(queue')
               PROVE  MayPrecede(sent'[i], queue'[j])
    BY DEF SentBeforeQueued, MayPrecede
  <2>1. CASE j \in 1..Len(queue)
    BY <1>2, <1>a, <2>1 DEF IInv, SentBeforeQueued
  <2>2. CASE j = Len(queue) + 1
    <3>1. sent[i].ticket <= ticket /\ sent[i].ticket \in Nat
      BY <1>a DEF IInv, QueueSorted
    <3> QED BY <1>2, <1>a, <2>2, <3>1 DEF MayPrecede
  <2> QED BY <1>b, <2>1, <2>2
<1>6. SentInOrder'
  BY DEF IInv, SentInOrder, push_back
<1> QED BY <1>3, <1>4, <1>5, <1>6 DEF IInv

LEMMA PopPreserves ==
  ASSUME IInv, pop_next
  PROVE  IInv'
<1> DEFINE index == next_ready_index(Scheduled)
<1>1. Scheduled \in Seq(ScheduledRequest) /\ Len(Scheduled) = Len(queue)
  <2>1. \A i \in 1..Len(queue) : classify(queue[i]) \in ScheduledRequest
    BY TicketsAreNatural
    DEF IInv, TypeOK, classify, ScheduledRequest, RequestReadiness
  <2>2. Len(queue) \in Nat
    BY DEF IInv, TypeOK
  <2> HIDE DEF classify
  <2> QED BY <2>1, <2>2 DEF Scheduled
<1>2. index \in 1..Len(queue) /\ Selectable(Scheduled, index)
  BY <1>1, SelectedRequest DEF pop_next
<1>3. \A j \in 1..(index - 1) :
        queue[index].class = "Control" /\ queue[j].class = "FlowControlledPublish"
  <2>1. \A j \in 1..Len(queue) : Scheduled[j].class = queue[j].class
    BY DEF Scheduled, classify
  <2>2. Len(queue) \in Nat
    BY DEF IInv, TypeOK
  <2> HIDE DEF index
  <2> QED BY <1>2, <2>1, <2>2 DEF Selectable, Bypassable
<1>4. /\ queue' \in Seq(Request)
      /\ Len(queue') = Len(queue) - 1
      /\ \A j \in 1..(Len(queue) - 1) :
           queue'[j] = IF j < index THEN queue[j] ELSE queue[j + 1]
  <2>1. queue \in Seq(Request) /\ queue' = Remove(queue, index)
    BY DEF pop_next, IInv, TypeOK
  <2> HIDE DEF index
  <2> QED BY <1>2, <2>1, RemoveKeepsOrder, Zenon
<1>5. /\ sent' \in Seq(Request)
      /\ Len(sent') = Len(sent) + 1
      /\ \A i \in 1..Len(sent) : sent'[i] = sent[i]
      /\ sent'[Len(sent) + 1] = queue[index]
  BY <1>2 DEF pop_next, IInv, TypeOK
<1>6. TypeOK'
  BY <1>4, <1>5 DEF IInv, TypeOK, pop_next
<1>a. /\ \A i \in 1..Len(queue) : queue[i].ticket \in Nat
      /\ \A i \in 1..Len(sent) : sent[i].ticket \in Nat
      /\ ticket \in Nat /\ ticket' = ticket
      /\ Len(queue) \in Nat /\ Len(sent) \in Nat /\ index \in Nat
  BY <1>2, TicketsAreNatural DEF IInv, TypeOK, pop_next
<1> HIDE DEF index
<1> DEFINE src(j) == IF j < index THEN j ELSE j + 1
<1>b. \A j \in 1..Len(queue') : src(j) \in 1..Len(queue) /\ queue'[j] = queue[src(j)]
  BY <1>2, <1>4, <1>a
<1>c. \A i, j \in 1..Len(queue') : i < j => src(i) < src(j)
  BY <1>2, <1>4, <1>a
<1> HIDE DEF src
<1>7. QueueSorted'
  <2>1. ASSUME NEW i \in 1..Len(queue'), NEW j \in 1..Len(queue'), i < j
        PROVE  queue'[i].ticket < queue'[j].ticket
    BY <1>b, <1>c, <2>1 DEF IInv, QueueSorted
  <2>2. ASSUME NEW i \in 1..Len(queue') PROVE queue'[i].ticket <= ticket'
    BY <1>a, <1>b DEF IInv, QueueSorted
  <2>3. ASSUME NEW i \in 1..Len(sent') PROVE sent'[i].ticket <= ticket'
    <3>1. CASE i \in 1..Len(sent)
      BY <1>5, <1>a, <3>1 DEF IInv, QueueSorted
    <3>2. CASE i = Len(sent) + 1
      BY <1>2, <1>5, <1>a, <3>2 DEF IInv, QueueSorted
    <3> QED BY <1>5, <1>a, <3>1, <3>2
  <2> QED BY <2>1, <2>2, <2>3 DEF QueueSorted
<1>8. SentBeforeQueued'
  <2> SUFFICES ASSUME NEW i \in 1..Len(sent'), NEW j \in 1..Len(queue')
               PROVE  MayPrecede(sent'[i], queue'[j])
    BY DEF SentBeforeQueued, MayPrecede
  <2>1. CASE i \in 1..Len(sent)
    BY <1>5, <1>b, <2>1 DEF IInv, SentBeforeQueued
  <2>2. CASE i = Len(sent) + 1 /\ j < index
    BY <1>2, <1>3, <1>4, <1>5, <1>a, <2>2 DEF MayPrecede
  <2>3. CASE i = Len(sent) + 1 /\ j >= index
    <3>1. queue'[j] = queue[j + 1] /\ index < j + 1 /\ j + 1 \in 1..Len(queue)
      BY <1>2, <1>4, <2>3 DEF IInv, TypeOK
    <3>2. queue[index].ticket < queue[j + 1].ticket
      BY <1>2, <3>1 DEF IInv, QueueSorted
    <3> QED BY <1>2, <1>5, <1>a, <2>3, <3>1, <3>2 DEF MayPrecede
  <2> QED BY <1>2, <1>4, <1>5, <2>1, <2>2, <2>3 DEF IInv, TypeOK
<1>9. SentInOrder'
  <2> SUFFICES ASSUME NEW i \in 1..Len(sent'), NEW j \in 1..Len(sent'), i < j
               PROVE  MayPrecede(sent'[i], sent'[j])
    BY DEF SentInOrder, MayPrecede
  <2>0. Len(sent') = Len(sent) + 1 /\ Len(sent) \in Nat
    BY <1>5, <1>a
  <2>1. i \in 1..Len(sent) /\ (j \in 1..Len(sent) \/ j = Len(sent) + 1)
    BY <2>0
  <2>2. CASE j \in 1..Len(sent)
    BY <1>5, <2>1, <2>2 DEF IInv, SentInOrder
  <2>3. CASE j = Len(sent) + 1
    BY <1>2, <1>5, <2>1, <2>3 DEF IInv, SentBeforeQueued
  <2> QED BY <2>1, <2>2, <2>3
<1> QED BY <1>6, <1>7, <1>8, <1>9 DEF IInv

LEMMA NextPreserves == IInv /\ [Next]_vars => IInv'
<1> SUFFICES ASSUME IInv, [Next]_vars PROVE IInv'
  OBVIOUS
<1>1. ASSUME NEW class \in RequestClass, push_back(class) PROVE IInv'
  BY <1>1, PushPreserves
<1>2. CASE pop_next
  BY <1>2, PopPreserves
<1>3. CASE drain
  BY <1>3 DEF drain, IInv, TypeOK, QueueSorted, SentBeforeQueued, SentInOrder
<1>4. CASE Reclassify
  BY <1>4 DEF Reclassify, IInv, TypeOK, QueueSorted, SentBeforeQueued, SentInOrder
<1>5. CASE UNCHANGED vars
  BY <1>5 DEF vars, IInv, TypeOK, QueueSorted, SentBeforeQueued, SentInOrder
<1> QED BY <1>1, <1>2, <1>3, <1>4, <1>5 DEF Next

LEMMA OrderFollows == IInv => OnlyControlOvertakesPublish
<1> SUFFICES ASSUME IInv,
                    NEW i \in 1..Len(sent \o queue), NEW j \in 1..Len(sent \o queue),
                    i < j, (sent \o queue)[j].ticket < (sent \o queue)[i].ticket
             PROVE  /\ (sent \o queue)[i].class = "Control"
                    /\ (sent \o queue)[j].class = "FlowControlledPublish"
  BY DEF OnlyControlOvertakesPublish
<1> DEFINE n == Len(sent)
<1>1. /\ sent \in Seq(Request) /\ queue \in Seq(Request)
      /\ n \in Nat /\ Len(sent \o queue) = n + Len(queue)
      /\ \A k \in 1..Len(sent \o queue) :
           (sent \o queue)[k] = IF k <= n THEN sent[k] ELSE queue[k - n]
  BY DEF IInv, TypeOK
<1>2. CASE j <= n
  BY <1>1, <1>2 DEF IInv, SentInOrder, MayPrecede
<1>3. CASE i <= n /\ j > n
  <2>1. i \in 1..Len(sent) /\ j - n \in 1..Len(queue)
    BY <1>1, <1>3
  <2> QED BY <1>1, <1>3, <2>1 DEF IInv, SentBeforeQueued, MayPrecede
<1>4. CASE i > n
  <2>1. i - n \in 1..Len(queue) /\ j - n \in 1..Len(queue) /\ i - n < j - n
    BY <1>1, <1>4
  <2>2. queue[i - n].ticket < queue[j - n].ticket
    BY <2>1 DEF IInv, QueueSorted
  <2>3. queue[i - n].ticket \in Nat /\ queue[j - n].ticket \in Nat
    BY <1>1, <2>1, TicketsAreNatural
  <2> QED BY <1>1, <1>4, <2>1, <2>2, <2>3
<1> QED BY <1>1, <1>2, <1>3, <1>4

(* For any number of requests: a request leaves before an earlier admitted *)
(* one only when it is a control request passing a QoS 1/2 publish, so     *)
(* next_ready_index keeps publishes in order and lets nothing cross a      *)
(* fence.                                                                  *)
THEOREM SchedulerOrder == Spec => []OnlyControlOvertakesPublish
  BY OrderFollows, Initialisation, NextPreserves, PTL DEF Spec
=============================================================================
