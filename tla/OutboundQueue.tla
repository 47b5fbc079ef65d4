--------------------------- MODULE OutboundQueue ---------------------------
(***************************************************************************)
(* OutboundScheduler as a state machine.  Requests are admitted at the     *)
(* back with increasing tickets, their readiness is whatever the protocol  *)
(* state makes of it at any moment, and the event loop pops one request at *)
(* a time or drains the whole queue when it cleans up a connection.        *)
(* "sent" is a history variable: the requests in the order they left.      *)
(***************************************************************************)
EXTENDS OutboundScheduler

CONSTANT MaxTicket    \* bound on the number of admitted requests

ASSUME MaxTicketAssumption == MaxTicket \in Nat

VARIABLES
  queue,      \* OutboundScheduler::queue, requests [ticket, class]
  blocked,    \* tickets whose classification says Blocked
  ticket,     \* number of requests admitted so far
  sent        \* history: the requests popped, oldest first

vars == <<queue, blocked, ticket, sent>>

Request == [ticket : Nat, class : RequestClass]

Tickets(q) == {q[i].ticket : i \in 1..Len(q)}

(* The classify closure: the class is fixed, the readiness is read off the *)
(* protocol state when the scheduler asks.                                 *)
classify(request) ==
  [class |-> request.class,
   readiness |-> IF request.ticket \in blocked THEN "Blocked" ELSE "Ready"]

Scheduled == [i \in 1..Len(queue) |-> classify(queue[i])]

Init ==
  /\ queue = <<>>
  /\ blocked = {}
  /\ ticket = 0
  /\ sent = <<>>

push_back(class) ==
  /\ queue' = Append(queue, [ticket |-> ticket + 1, class |-> class])
  /\ ticket' = ticket + 1
  /\ UNCHANGED <<blocked, sent>>

pop_next ==
  /\ has_ready(Scheduled)
  /\ LET index == next_ready_index(Scheduled) IN
       /\ queue' = Remove(queue, index)
       /\ sent' = Append(sent, queue[index])
  /\ UNCHANGED <<blocked, ticket>>

(* EventLoop::clean moves every queued request elsewhere.                  *)
drain ==
  /\ queue # <<>>
  /\ queue' = <<>>
  /\ UNCHANGED <<blocked, ticket, sent>>

(* The protocol state moves: the window opens or fills, a packet           *)
(* identifier is freed or taken.  QoS 0 publishes are always ready.        *)
Reclassify ==
  \E b \in SUBSET {queue[i].ticket : i \in {k \in 1..Len(queue) :
                                            queue[k].class # "Publish"}} :
    /\ blocked' = b
    /\ UNCHANGED <<queue, ticket, sent>>

Next ==
  \/ ticket < MaxTicket /\ \E class \in RequestClass : push_back(class)
  \/ pop_next
  \/ drain
  \/ Reclassify

(* The select loop calls handle_ready_requests in every iteration, so a    *)
(* poppable request is popped.                                             *)
Spec == Init /\ [][Next]_vars /\ WF_vars(pop_next)

(* A request leaves before one admitted earlier only when it is a control  *)
(* request passing a QoS 1/2 publish (the can_bypass scan of               *)
(* next_ready_index).  So publishes of every QoS leave in admission order, *)
(* controls leave in admission order, and nothing crosses a fence in       *)
(* either direction, whatever the readiness did in between.                *)
OnlyControlOvertakesPublish ==
  LET order == sent \o queue IN
  \A i, j \in 1..Len(order) :
    i < j /\ order[j].ticket < order[i].ticket =>
      /\ order[i].class = "Control"
      /\ order[j].class = "FlowControlledPublish"

(* Once nothing is blocked any more, every admitted request leaves the     *)
(* queue: the scheduler never skips a ready request for ever.              *)
ReadyRequestsLeave ==
  \A t \in 1..MaxTicket :
    <>[](blocked = {}) => (t \in Tickets(queue) ~> t \notin Tickets(queue))

(* The request with this ticket is a ready control request, and everything *)
(* ahead of it is a QoS 1/2 publish that is blocked.                       *)
BehindBlockedPublishes(t) ==
  \E i \in 1..Len(queue) :
    /\ queue[i].ticket = t
    /\ classify(queue[i]) = [class |-> "Control", readiness |-> "Ready"]
    /\ \A j \in 1..(i - 1) : Bypassable(classify(queue[j]))

(* A control request waits behind publishes only while it is blocked       *)
(* itself: next_ready_index finds it although the publishes ahead of it    *)
(* never become ready, as when the window opens only once this very PUBREL *)
(* has been sent.                                                          *)
ControlPassesBlockedPublishes ==
  \A t \in 1..MaxTicket : ~<>[]BehindBlockedPublishes(t)

=============================================================================
