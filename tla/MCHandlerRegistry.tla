-------------------------- MODULE MCHandlerRegistry --------------------------
(***************************************************************************)
(* HandlerRegistry on small instances.                                     *)
(***************************************************************************)
EXTENDS HandlerRegistry
=============================================================================
