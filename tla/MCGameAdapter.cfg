CONSTANTS
  x = x
  y = y
  z = z
  hall = hall
  road = road
  Peers = {p}
  Quests = {q}
  Loots = {l}
  Cells <- CellPlaces
  Names <- CellNames
  NameOf <- Named
  NoCell = NoCell
  NoPlayer = NoPlayer
  NoProxy = NoProxy
  StaleAfter = 0
  MaxStage = 2
  MaxClock = 1
  MaxSpawns = 2
SPECIFICATION AdapterSpec
CHECK_DEADLOCK FALSE
INVARIANTS AdapterTypeOK ReferenceIsLive CarriedOutOnce StandsHere
PROPERTIES StageGoesForward
