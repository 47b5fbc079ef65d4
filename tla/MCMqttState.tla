---------------------------- MODULE MCMqttState ----------------------------
(* MqttStateCaller for TLC: application names are interchangeable.         *)
EXTENDS MqttStateCaller, TLC

Names == Permutations(Msg) \cup Permutations(Ctl)

=============================================================================
