SPECIFICATION Spec
CONSTANTS
  c1 = c1
  c2 = c2
  Caller = {c1, c2}
  Poller = poller
  NoThread = none
  Observer = {device}
  Light <- MCLight
  MaxButton = 1
  MaxSensor = 0
  MaxNow = 4
SYMMETRY Symmetry
CHECK_DEADLOCK FALSE
INVARIANTS
  TypeOK
  PairIsAtomic
  ObserversInSync
PROPERTIES
  DoubleClickIsTwoFlips
  ImplementsFeed
