---------------------------- MODULE MCApplication ----------------------------
(***************************************************************************)
(* Two client threads, three clients.                                      *)
(***************************************************************************)
EXTENDS Application

CONSTANTS c1, c2, c3

=============================================================================
