\* A graceful disconnect after a second failure.
CONSTANTS
  MaxPkid = 3
  MaxInflight = 2
  WarmSlots = 1
  Msg = {m1, m2}
  Ctl = {}
  InPkid = {}
  AckMode = "Automatic"
  MaxFaults = 2
  ExactlyOnceMsg = {}
  DisconnectModes = {"Drain"}
  MaxCrashes = 0
  BrokerForgets = FALSE
SPECIFICATION FairSpec
PROPERTY DisconnectEnds
CHECK_DEADLOCK FALSE
