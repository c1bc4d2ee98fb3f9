------------------------------- MODULE MCDevice -------------------------------
(***************************************************************************)
(* Two observers; the lights have two values, one button can double click. *)
(***************************************************************************)
EXTENDS Device

CONSTANTS o1, o2
=============================================================================
