CONSTANTS
  x = x
  y = y
  z = z
  hall = hall
  road = road
  Peers = {p}
  Quests = {q}
  Loots = {l}
  Cells <- ApartPlaces
  Names <- CellNames
  NameOf <- NamedApart
  NoCell = NoCell
  NoPlayer = NoPlayer
  NoProxy = NoProxy
  StaleAfter = 1
  MaxStage = 2
  MaxClock = 2
  MaxSpawns = 2
SPECIFICATION AdapterSpec
CHECK_DEADLOCK FALSE
INVARIANTS NoStrayActors
