CONSTANTS
  NoConn = NoConn
  NoId = NoId
  Conns = {c1, c2, c3}
  Ids = {a, b, c}
  Quests = {q}
  Loots = {l}
  Slow = {}
  RoomCapacity = 3
  HostPlayerId = NoId
  RequireHost = TRUE
  Kinds = {"player_state", "world_state", "combat_event"}
  MaxVersion = 2
  MaxLosses = 0
  MaxCrashes = 0
SPECIFICATION Spec
CHECK_DEADLOCK FALSE
INVARIANTS TypeOK RelayedByHost Converged
PROPERTIES KeepsPromise
SYMMETRY PeerSymmetry
