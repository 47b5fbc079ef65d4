----------------------------- MODULE MCDelivery -----------------------------
(* Delivery for TLC: the QoS 2 messages are interchangeable. *)
EXTENDS Delivery, TLC

Names == Permutations(ExactlyOnceMsg)

=============================================================================
