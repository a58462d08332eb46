-------------------------------- MODULE Texts --------------------------------
(***************************************************************************)
(* The texts that server.c and db.c build in buffers of fixed size, as     *)
(* their lengths: what snprintf and sscanf keep of a field, and how long   *)
(* the statements and the JSON object of an employee are.  An employee's   *)
(* fields are the lengths of its name and department; a salary has two     *)
(* lengths, as printed by %f into a statement and as the text that MySQL   *)
(* returns for the column, and what becomes of it on that way: "exact",    *)
(* "inexact" where %f's six decimals are another number, or "none" for an  *)
(* infinity or NaN, which %f prints as no SQL literal.                     *)
(***************************************************************************)
EXTENDS Integers

CONSTANTS Salaries   \* the salaries, as records of their lengths and form

\* %f of a double has at most 317 characters, MySQL's text of one at most 24.
ASSUME SalariesAssumption ==
  Salaries \subseteq [fixed : 1..317, text : 1..24, form : {"exact", "inexact", "none"}]

IdLengths == 1..10     \* the decimal digits of a positive int
Width     == 99        \* of a field in sscanf's format
MaxText   == 255       \* what snprintf leaves of a row's text
Unset     == [fixed |-> 8, text |-> 1, form |-> "exact"]    \* the salary 0

\* The numbers a DOUBLE column may hold.
Numbers == {s \in Salaries : s.form # "none"} \cup {Unset}

(* What a client of MySQL may have stored; the handler stores no more than *)
(* Width characters of a text.                                             *)
Rows == [name : Nat, dept : Nat, salary : Numbers]

\* What MySQL may store for %f of a salary.
Stored(s) == IF s.form = "exact" THEN {s} ELSE {n \in Numbers : n.form = "exact"}

\* The characters that snprintf stores of n in a buffer of the given size.
snprintf(n, size) == IF n < size THEN n ELSE size - 1

\* %99[^&] takes at most 99 characters, and matches no empty field.
Scan(n) == IF n < Width THEN n ELSE Width

\* The literal "&" of the format follows only on a field scanned to its end.
Matched(n) == 0 < n /\ n <= Width

(* sscanf stops at the first directive that does not match; the fields     *)
(* after it keep their initial values, "" and 0.                           *)
ScanPost(body) ==
  [name   |-> Scan(body.name),
   dept   |-> IF Matched(body.name) THEN Scan(body.dept) ELSE 0,
   salary |-> IF Matched(body.name) /\ Matched(body.dept) THEN body.salary ELSE Unset]

\* Mutant: the format has no "&" between the fields.
ScanPut_NoSeparator(body) == [dept |-> Scan(body.dept), salary |-> Unset]

ScanPut(body) ==
  [dept   |-> Scan(body.dept),
   salary |-> IF Matched(body.dept) THEN body.salary ELSE Unset]

\* The statements, without and with their fields.
InsertLength(id, row) == 70 + id + row.name + row.dept + row.salary.fixed
UpdateLength(id, new) == 53 + id + new.dept + new.salary.fixed

\* The object of db_get_employee before it is cut to its buffer.
RowLength(id, row) == 43 + id + row.name + row.dept + row.salary.text

\* Mutant: the size given to snprintf is one less than the buffer's.
RowText_OneShort(id, row) == snprintf(RowLength(id, row), MaxText)

RowText(id, row) == snprintf(RowLength(id, row), MaxText + 1)
=============================================================================
