CONSTANTS
  NoConn = NoConn
  NoId = NoId
  Conns = {c1, c2, c3}
  Ids = {a, b}
  Quests = {q}
  Loots = {}
  Slow = {}
  RoomCapacity = 2
  HostPlayerId = a
  RequireHost = TRUE
  Kinds = {"player_state", "world_state"}
  MaxVersion = 1
  MaxLosses = 0
  MaxCrashes = 0
SPECIFICATION Spec
CHECK_DEADLOCK FALSE
INVARIANTS OneWriter
SYMMETRY PeerSymmetry
