SPECIFICATION Spec
CONSTANTS
  dark = dark
  lit = lit
  Mobile = {m1, m2}
  Desktop = {}
  Index = {1}
  Lights = {dark, lit}
  OtherWord = {buttons}
  NoDesktop = none
  NoClient = nobody
SYMMETRY LightsSymmetry
CHECK_DEADLOCK FALSE
INVARIANTS
  MobilesSeeTheLights
