CONSTANTS
  NoConn = NoConn
  NoId = NoId
  Conns = {c1, c2, c3}
  Ids = {a, b, c}
  Quests = {q}
  Loots = {}
  Slow = {}
  RoomCapacity = 3
  HostPlayerId = NoId
  RequireHost = TRUE
  Kinds = {"player_state"}
  MaxVersion = 1
  MaxLosses = 1
  MaxCrashes = 0
SPECIFICATION Spec
CHECK_DEADLOCK FALSE
INVARIANTS NoGhostAvatars
SYMMETRY PeerSymmetry
