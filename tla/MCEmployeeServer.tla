-------------------------- MODULE MCEmployeeServer --------------------------
(***************************************************************************)
(* EmployeeServer on small instances.                                      *)
(***************************************************************************)
EXTENDS EmployeeServer

\* The workers, the ids and the rows are interchangeable.
MCSymmetry == Permutations(Workers) \cup Permutations(Keys) \cup Permutations(Values)
=============================================================================
