SPECIFICATION InboundSpec
CONSTANTS
  MaxPkid = 1
  MaxInflight = 1
  WarmSlots = 1
  Msg = {}
  Ctl = {}
  InPkid = {1}
  AckMode = "Manual"
  MaxFaults = 2
  ExactlyOnceMsg = {}
  DisconnectModes = {}
  MaxCrashes = 1
  BrokerForgets = FALSE
  InMsg = {a, b, c}
  ExactlyOnceIn = {a, b}
INVARIANTS AnswersAreTrue AnswersExpected
PROPERTIES ReceivedOnce ReceivesEnd
CHECK_DEADLOCK FALSE
