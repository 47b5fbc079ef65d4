\* One failure and a disconnect whose deadline may or may not pass.
CONSTANTS
  MaxPkid = 2
  MaxInflight = 1
  WarmSlots = 1
  Msg = {m1, m2}
  Ctl = {c1}
  InPkid = {}
  AckMode = "Automatic"
  MaxFaults = 1
  ExactlyOnceMsg = {m1}
  DisconnectModes = {"Deadline"}
  MaxCrashes = 0
  BrokerForgets = TRUE
SPECIFICATION FairSpec
PROPERTIES Completion DisconnectEnds
CHECK_DEADLOCK FALSE
