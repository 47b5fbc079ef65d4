\* The checkpoint taken after a second failure.
CONSTANTS
  MaxPkid = 2
  MaxInflight = 1
  WarmSlots = 1
  Msg = {m1, m2}
  Ctl = {}
  InPkid = {}
  AckMode = "Automatic"
  MaxFaults = 2
  ExactlyOnceMsg = {}
  DisconnectModes = {}
  MaxCrashes = 0
  BrokerForgets = FALSE
SPECIFICATION Spec
INVARIANT CheckpointRestorable
CHECK_DEADLOCK FALSE
