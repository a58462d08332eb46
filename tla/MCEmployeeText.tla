---------------------------- MODULE MCEmployeeText ----------------------------
(***************************************************************************)
(* EmployeeText with lengths at and around every limit.                    *)
(***************************************************************************)
EXTENDS EmployeeText

\* 1000, the double furthest below 0, the nearest normal one, and infinity.
MCSalaries == {[fixed |-> 11, text |-> 4, form |-> "exact"],
               [fixed |-> 317, text |-> 23, form |-> "exact"],
               [fixed |-> 9, text |-> 24, form |-> "inexact"],
               [fixed |-> 3, text |-> 3, form |-> "none"]}

\* Objects of 255 and 256 characters with the longest id and salary, a short
\* one, and one with texts of the columns' full width.
MCOtherRows == [name : {79}, dept : {99, 100}, salary : {s \in MCSalaries : s.text = 24}]
          \cup [name : {5, 100}, dept : {2, 100}, salary : {Unset}]
=============================================================================
