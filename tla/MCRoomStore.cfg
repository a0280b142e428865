CONSTANTS
  s1 = s1
  s_2 = s_2
  sx2 = sx2
  f1 = f1
  f2 = f2
  Rooms <- RoomNames
  Files <- FileNames
  FileOf <- Sanitized
  NoRoom = NoRoom
  Ids = {a, b, c}
  NoId = NoId
  RoomCapacity = 2
  HostPlayerId = NoId
  MaxJoins = 3
  MaxVersion = 1
  MaxCrashes = 1
SPECIFICATION Spec
INVARIANTS StoreTypeOK SurvivesRestart RemembersItsOwn LedByItsOwn
SYMMETRY Symmetry
