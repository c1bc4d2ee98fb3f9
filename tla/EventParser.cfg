SPECIFICATION Spec
CONSTANTS
  Numeral <- MCNumeral
  NotAString = NotAString
  Configurations <- MCConfigurations
CHECK_DEADLOCK FALSE
INVARIANTS
  TypeOK
  EventsAreMeant
  RefusedIffNotClear
  AssertsOnlyForSparsePins
