SPECIFICATION Spec
CONSTANTS
  MaxPkid = 2
  MaxInflight = 2
  WarmSlots = 0
  Msg = {m1, m2, m3}
  Ctl = {}
  InPkid = {}
  AckMode = "Automatic"
  MaxCollisionPings = 2
SYMMETRY Names
INVARIANTS TypeOK PkidOwnership WindowAccounting OrdersComplete TrackingCovers CollisionOwned NoticeOwnership ReplayReady CheckpointKeepsPkids
