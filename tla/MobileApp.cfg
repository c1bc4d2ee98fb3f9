SPECIFICATION FairSpec
CONSTANTS
  ModeCount = 1
  QueueLen = 1
  MaxClicks = 1
  MaxSets = 1
  Others = {"light", "heartbeat"}
CHECK_DEADLOCK FALSE
INVARIANTS
  TypeOK
  ScreenShowsTheModes
PROPERTIES
  LostPlaceEnds
