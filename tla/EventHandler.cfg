SPECIFICATION FairSpec
CONSTANTS
  NotAString = NotAString
  Mobile = {m1, m2}
  Light <- MCLight
  Pin <- OnePin
  ModeCount = 1
  Events <- NightEvents
  ModeEvents <- NightModeEvents
  Delay = {1}
  QueueRoom = 0
CHECK_DEADLOCK FALSE
INVARIANTS
  TypeOK
  EventComparesWithTheWordBefore
  ModeEventsKnowTheirMode
  DueActionsAreQueued
PROPERTIES
  ArmedLightGoesOff
  StopEnds
