------------------------------- MODULE MCSetup --------------------------------
(* The values TLC gives to the constants of Setup. *)
EXTENDS Setup

CONSTANT a    \* the address of the client
=============================================================================
