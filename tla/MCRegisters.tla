------------------------------ MODULE MCRegisters ------------------------------
(***************************************************************************)
(* Few clients: in Registers two desktops that give themselves one index;  *)
(* in RegistersLights two mobiles and a device whose lights change.        *)
(***************************************************************************)
EXTENDS Registers, TLC

CONSTANTS dark, lit

LightsSymmetry == Permutations(Mobile) \cup Permutations(Lights)
=============================================================================
