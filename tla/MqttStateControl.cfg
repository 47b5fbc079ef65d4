SPECIFICATION Spec
CONSTANTS
  MaxPkid = 2
  MaxInflight = 2
  WarmSlots = 1
  Msg = {m1}
  Ctl = {c1}
  InPkid = {1}
  AckMode = "Manual"
  MaxCollisionPings = 0
INVARIANTS PkidOwnership ReplayReady CheckpointKeepsPkids
PROPERTY AnsweredReceivesSurvive
