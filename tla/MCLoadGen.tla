------------------------------ MODULE MCLoadGen ------------------------------
(***************************************************************************)
(* LoadGen on small instances.                                             *)
(***************************************************************************)
EXTENDS LoadGen, TLC

=============================================================================
