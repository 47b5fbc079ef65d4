\* The store fails to clear a lost session, then the process restarts.
CONSTANTS
  MaxPkid = 2
  MaxInflight = 2
  WarmSlots = 1
  Msg = {m1}
  Ctl = {}
  InPkid = {}
  AckMode = "Automatic"
  MaxFaults = 2
  ExactlyOnceMsg = {m1}
  DisconnectModes = {}
  MaxCrashes = 1
  BrokerForgets = TRUE
SPECIFICATION Spec
INVARIANT ResetIsFinal
CHECK_DEADLOCK FALSE
