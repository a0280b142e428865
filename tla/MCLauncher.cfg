CONSTANTS
  Apps = {"joiner", "host"}
  Jobs <- Pressed
  Packed = {1}
  Values = {"a", "b"}
  MaxStarts = 2
  MaxScripts = 2
  MaxBuild = 2
  Unstamped = {1}
  Bare = {2}
SPECIFICATION FairSpec
CHECK_DEADLOCK FALSE
INVARIANTS LauncherTypeOK RelayIsKnown LaunchesAsAsked BusyForAJob
PROPERTIES ButtonsComeBack UpdateFinishes
