CONSTANTS
  NoConn = NoConn
  NoId = NoId
  Conns = {c1, c2, c3}
  Ids = {a, b, c}
  Quests = {q}
  Loots = {}
  Slow = {c1, c2}
  RoomCapacity = 2
  HostPlayerId = NoId
  RequireHost = TRUE
  Kinds = {"world_state"}
  MaxVersion = 2
  MaxLosses = 1
  MaxCrashes = 1
SPECIFICATION Spec
CHECK_DEADLOCK FALSE
INVARIANTS RoomBounded HostFlag CurrentUnlessCut DiskCurrent NoOrphans
PROPERTIES SurvivesFaults
SYMMETRY PeerSymmetry
VIEW RelevantState
