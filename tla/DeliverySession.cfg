\* One failure, a broker that may lose the session, control requests, disconnects.
CONSTANTS
  MaxPkid = 3
  MaxInflight = 1
  WarmSlots = 1
  Msg = {m1, m2}
  Ctl = {c1}
  InPkid = {}
  AckMode = "Automatic"
  MaxFaults = 1
  ExactlyOnceMsg = {m2}
  DisconnectModes = {"Drain", "Now"}
  MaxCrashes = 0
  BrokerForgets = TRUE
SPECIFICATION Spec
INVARIANTS TypeOK PublishOrder CheckpointRestorable ResetIsFinal
CHECK_DEADLOCK FALSE
