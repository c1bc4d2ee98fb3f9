SPECIFICATION Spec
CONSTANTS
  NotAString = NotAString
  Mobile = {m1, m2}
  Light <- MCLight
  Pin <- OnePin
  ModeCount = 2
  Events <- LampEvents
  ModeEvents <- LampModeEvents
  Delay = {1}
  QueueRoom = 0
CHECK_DEADLOCK FALSE
PROPERTIES
  TurnOffWaitsForTimeout
