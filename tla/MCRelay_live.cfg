CONSTANTS
  NoConn = 0
  NoId = NoId
  Conns = {1, 2, 3}
  Ids = {a, b}
  Quests = {q}
  Loots = {}
  Slow = {}
  RoomCapacity = 2
  HostPlayerId = a
  RequireHost = TRUE
  Kinds = {"world_state"}
  MaxVersion = 1
  MaxLosses = 1
  MaxCrashes = 0
SPECIFICATION FairSpec
CHECK_DEADLOCK FALSE
INVARIANTS HostMarked
PROPERTIES Delivered BrokenLinkLeaves SurvivesFaults
ACTION_CONSTRAINT ArriveInOrder
