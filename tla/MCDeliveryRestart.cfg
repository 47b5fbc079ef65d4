\* Two connection or store failures and a restart of the process.
CONSTANTS
  MaxPkid = 3
  MaxInflight = 2
  WarmSlots = 1
  Msg = {m1, m2, m3}
  Ctl = {}
  InPkid = {}
  AckMode = "Automatic"
  MaxFaults = 2
  ExactlyOnceMsg = {m2, m3}
  DisconnectModes = {}
  MaxCrashes = 1
  BrokerForgets = FALSE
SPECIFICATION Spec
SYMMETRY Names
INVARIANTS ExactlyOnce SuccessIsDelivery NotForgotten NoticeHeldOnce CheckpointBeforeWrite NoCollision AnswersExpected
CHECK_DEADLOCK FALSE
