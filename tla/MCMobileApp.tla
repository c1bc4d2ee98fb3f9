----------------------------- MODULE MCMobileApp -----------------------------
(***************************************************************************)
(* One mode, and everything the server sends.  The network may break a     *)
(* connection again and again.                                             *)
(***************************************************************************)
EXTENDS MobileApp

=============================================================================
