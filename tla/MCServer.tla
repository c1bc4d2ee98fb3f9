------------------------------- MODULE MCServer -------------------------------
(***************************************************************************)
(* Two client threads, three clients.                                      *)
(***************************************************************************)
EXTENDS Server

CONSTANTS c1, c2, c3

=============================================================================
