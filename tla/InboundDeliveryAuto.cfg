SPECIFICATION InboundSpec
CONSTANTS
  MaxPkid = 1
  MaxInflight = 1
  WarmSlots = 1
  Msg = {}
  Ctl = {}
  InPkid = {1, 2}
  AckMode = "Automatic"
  MaxFaults = 2
  ExactlyOnceMsg = {}
  DisconnectModes = {}
  MaxCrashes = 1
  BrokerForgets = TRUE
  InMsg = {a, b, c}
  ExactlyOnceIn = {a, b}
INVARIANT AnswersAreTrue
PROPERTIES ReceivedOnce ReceivesEnd
CHECK_DEADLOCK FALSE
