--------------------------- MODULE MCDbConnection ---------------------------
(* DbConnection on small instances. *)
EXTENDS DbConnection, TLC

=============================================================================
