\* A second failure while requests are being replayed.
CONSTANTS
  MaxPkid = 2
  MaxInflight = 2
  WarmSlots = 1
  Msg = {m1, m2}
  Ctl = {}
  InPkid = {}
  AckMode = "Automatic"
  MaxFaults = 2
  ExactlyOnceMsg = {}
  DisconnectModes = {}
  MaxCrashes = 0
  BrokerForgets = FALSE
SPECIFICATION Spec
INVARIANT PublishOrder
CHECK_DEADLOCK FALSE
