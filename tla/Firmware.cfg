SPECIFICATION Spec
CONSTANTS
  Bit <- MCBit
  Request <- MCRequest
INVARIANTS
  TypeOK
  CleanRequestsAreExecuted
  AnswersAreAligned
  IInv
PROPERTIES
  ExecutesWhatWasSent
  OnlyButtonsSwitchLights
