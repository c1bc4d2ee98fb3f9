SPECIFICATION FairAppSpec
CONSTANTS
  c1 = c1
  c2 = c2
  c3 = c3
  HANDLERS_COUNT = 2
  Connection = {c1, c2, c3}
  Dummy = dummy
  NoSocket = nothing
CHECK_DEADLOCK FALSE
INVARIANTS
  AppTypeOK
  ServedByRunningParts
  PartsEndBeforeTheirCode
PROPERTIES
  SignalEndsTheProgram
  QueuedClientsAreTaken
