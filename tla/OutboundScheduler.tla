------------------------- MODULE OutboundScheduler -------------------------
(***************************************************************************)
(* The queue discipline of rumqttc-core/src/scheduler.rs: which queued     *)
(* request the event loop sends next.  A request is seen through its       *)
(* class and its present readiness; the queue is the sequence of these     *)
(* pairs.  The order it guarantees is the subject of OutboundQueue, and    *)
(* EventLoop uses the same operators for its own queue.                    *)
(***************************************************************************)
EXTENDS Naturals, Sequences

RequestClass == {"FlowControlledPublish", "Publish", "Control", "Fence"}

RequestReadiness == {"Ready", "Blocked"}

ScheduledRequest == [class : RequestClass, readiness : RequestReadiness]

(* The only requests a later control request may pass.                     *)
Bypassable(request) ==
  request.class = "FlowControlledPublish" /\ request.readiness = "Blocked"

(* Mutant: can_bypass is never cleared.                                    *)
Selectable_always_bypass(s, index) ==
  /\ s[index].readiness = "Ready"
  /\ index = 1 \/ s[index].class = "Control"

(* Mutant: the scan gives up at a fence even when it is at the front.      *)
Selectable_no_front_fence(s, index) ==
  /\ s[index].readiness = "Ready"
  /\ s[index].class # "Fence"
  /\ \/ index = 1
     \/ /\ s[index].class = "Control"
        /\ \A j \in 1..(index - 1) : Bypassable(s[j])

(* Mutant: only the front request is looked at.                            *)
Selectable_front_only(s, index) == index = 1 /\ s[index].readiness = "Ready"

(* The scan of next_ready_index returns a front request that is ready, or  *)
(* a ready control request reached while can_bypass still holds.  A fence  *)
(* is never bypassable, so nothing behind it is selectable.                *)
Selectable(s, index) ==
  /\ s[index].readiness = "Ready"
  /\ \/ index = 1
     \/ /\ s[index].class = "Control"
        /\ \A j \in 1..(index - 1) : Bypassable(s[j])

has_ready(s) == \E index \in 1..Len(s) : Selectable(s, index)

next_ready_index(s) == CHOOSE index \in 1..Len(s) : Selectable(s, index)

(* VecDeque::remove                                                        *)
Remove(q, index) ==
  [j \in 1..(Len(q) - 1) |-> IF j < index THEN q[j] ELSE q[j + 1]]
=============================================================================
