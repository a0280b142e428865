CONSTANTS
  Peers = {p}
  Quests = {q}
  Loots = {}
  Cells = {x}
  Names = {x}
  NameOf <- Named
  NoCell = NoCell
  NoPlayer = NoPlayer
  NoProxy = NoProxy
  NoMessage = NoMessage
  StaleAfter = 1
  MaxStage = 2
  MaxClock = 1
  MaxSpawns = 1
  QueueLimit = 2
  MaxSent = 2
  MaxResets = 1
SPECIFICATION Spec
CHECK_DEADLOCK FALSE
INVARIANTS DepartedHasNoProxy
