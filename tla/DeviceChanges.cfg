SPECIFICATION Spec
CONSTANTS
  o1 = o1
  o2 = o2
  Observer = {o1}
  Lights = {off, on}
  Buttons = {up}
  Sensors = {low}
  Pin = {button}
  PinNotSet = unset
CHECK_DEADLOCK FALSE
INVARIANTS
  ChangesAreNotified
