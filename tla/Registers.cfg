SPECIFICATION FairSpec
CONSTANTS
  dark = dark
  lit = lit
  Mobile = {m1}
  Desktop = {d1, d2}
  Index = {1}
  Lights = {dark}
  OtherWord = {}
  NoDesktop = none
  NoClient = nobody
CHECK_DEADLOCK FALSE
INVARIANTS
  TypeOK
  ConnectedDesktopsAreKnown
  RegisteredClientsAreServed
PROPERTIES
  GoneClientsAreForgotten
