-------------------------- MODULE MCDeviceController --------------------------
(***************************************************************************)
(* Two calling threads, the poll thread, one observer, one light.          *)
(***************************************************************************)
EXTENDS DeviceController, TLC

CONSTANTS c1, c2

MCLight == 0 .. 0
Symmetry == Permutations({c1, c2})
=============================================================================
