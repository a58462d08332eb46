----------------------------- MODULE EmployeeText -----------------------------
(***************************************************************************)
(* One employee's row on its way from the body of a request through the    *)
(* scan of server.c and the statements of db.c into the table, and from    *)
(* the table into the text of a response.  Every buffer on the way has a   *)
(* fixed size.  Requests that fail for other reasons are in                *)
(* EmployeeServer; here MySQL executes all that it can parse.              *)
(*                                                                         *)
(* db.c pastes a name and a department between quotes as they are.  A text *)
(* is plain if MySQL reads it there as itself: it has no quote, backslash  *)
(* or invalid character.  What a statement with another text says is left  *)
(* open: it is refused, or it changes any row in any way, like a statement *)
(* of another client.                                                      *)
(***************************************************************************)
EXTENDS Texts

CONSTANTS Lengths,   \* the lengths of a name or department in a request
          Ids,       \* the lengths of ids
          OtherRows  \* rows that come from other statements and clients

ASSUME LengthsAssumption ==
  Lengths \subseteq Nat /\ Ids \subseteq IdLengths /\ OtherRows \subseteq Rows

VARIABLES
  id,        \* the length of the employee's id
  row,       \* the employee's row: a set of at most one
  status,    \* the last request's status
  text,      \* the length of the text that it was answered with, if a GET
  \* History variables, read by no guard.
  full,      \* the length of the object that text is of
  asked,     \* the row the accepted requests asked for
  known,     \* whether they alone have made the row what it is
  cut        \* a buffer has cut an UPDATE

vars == <<id, row, status, text, full, asked, known, cut>>

\* Of a POST and a PUT; plain says whether their texts, as scanned, are.
Bodies  == [name : Lengths, dept : Lengths, salary : Salaries, plain : BOOLEAN]
Updates == [dept : Lengths, salary : Salaries, plain : BOOLEAN]

\* What a body asks for.
Wish(body) == [name |-> body.name, dept |-> body.dept, salary |-> body.salary]

Answer(s) == status' = s /\ text' = 0 /\ full' = 0

Refuse == Answer("500") /\ UNCHANGED <<row, asked, known>>

\* The row is what someone else has made of it.
Disturb ==
  /\ row' \in {{}} \cup {{r} : r \in OtherRows}
  /\ asked' = {} /\ known' = FALSE

-----------------------------------------------------------------------------
(* A plain INSERT that does not fit in q[512] loses its closing            *)
(* parenthesis and is refused, like one for an id that is there.           *)
Post(body) ==
  LET new == ScanPost(body)
      whole == InsertLength(id, new) < 512
  IN /\ IF body.plain
        THEN IF row = {} /\ whole /\ new.salary.form # "none"
             THEN /\ \E s \in Stored(new.salary) : row' = {[new EXCEPT !.salary = s]}
                  /\ asked' = {Wish(body)} /\ known' = TRUE
                  /\ Answer("200")
             ELSE Refuse
        ELSE Refuse \/ (Disturb /\ Answer("200"))
     /\ UNCHANGED <<id, cut>>

\* The row with the fields that an UPDATE sets.
Updated(r, dept, salary) == [r EXCEPT !.dept = dept, !.salary = salary]

(* The WHERE clause is at the end of the statement: if its buffer cut a    *)
(* plain one, it would be sent and change other rows, or every row.        *)
PutIn(body, size) ==
  LET new == ScanPut(body)
      whole == snprintf(UpdateLength(id, new), size) = UpdateLength(id, new)
  IN /\ IF body.plain /\ whole
        THEN IF new.salary.form # "none"
             THEN /\ \E s \in Stored(new.salary) :
                       row' = {Updated(r, new.dept, s) : r \in row}
                  /\ asked' = {Updated(a, body.dept, body.salary) : a \in asked}
                  /\ Answer("200")
                  /\ UNCHANGED known
             ELSE Refuse
        ELSE Refuse \/ (Disturb /\ Answer("200"))
     /\ cut' = (cut \/ ~whole)
     /\ UNCHANGED id

\* Mutant: the statement is built in a buffer of 256.
Put_SmallBuffer(body) == PutIn(body, 256)

Put(body) == PutIn(body, 512)

Get ==
  /\ \/ \E r \in row : /\ text' = RowText(id, r) /\ full' = RowLength(id, r)
                       /\ status' = "200"
     \/ row = {} /\ Answer("404")
  /\ UNCHANGED <<id, row, asked, known, cut>>

Delete ==
  /\ row' = {} /\ asked' = {} /\ known' = TRUE /\ Answer("200")
  /\ UNCHANGED <<id, cut>>

\* Another client of MySQL, or a request for another id whose text is not plain.
Elsewhere == Disturb /\ UNCHANGED <<id, status, text, full, cut>>

-----------------------------------------------------------------------------
Init ==
  /\ id \in Ids /\ row \in {{}} \cup {{r} : r \in OtherRows}
  /\ asked = {} /\ known = (row = {})
  /\ status = "none" /\ text = 0 /\ full = 0 /\ cut = FALSE

Next ==
  \/ \E body \in Bodies : Post(body)
  \/ \E body \in Updates : Put(body)
  \/ Get \/ Delete \/ Elsewhere

Spec == Init /\ [][Next]_vars

-----------------------------------------------------------------------------
TypeOK ==
  /\ id \in IdLengths
  /\ row \subseteq Rows /\ asked \subseteq [name : Lengths, dept : Lengths, salary : Salaries]
  /\ status \in {"none", "200", "404", "500"}
  /\ text \in 0..MaxText /\ full \in Nat
  /\ known \in BOOLEAN /\ cut \in BOOLEAN

(* db_update_employee (db.c:231-234): whatever the department's length and *)
(* the salary, the statement fits in q[512]; its buffer costs no UPDATE    *)
(* the WHERE clause at its end.                                            *)
UpdateNotCut == ~cut

(* sscanf's field width of 99 (server.c:173, 199): plain fields of 1 to 99 *)
(* characters and a salary of six decimals are in the row as the accepted  *)
(* requests asked, through any sequence of them, refused ones included.    *)
(* Longer fields are cut and lose the fields after them, and a statement   *)
(* with a text that is not plain ends it for the rows that it changes.     *)
StoredAsAsked ==
  known /\ (\A a \in asked : Matched(a.name) /\ Matched(a.dept) /\ a.salary.form = "exact")
    => row = asked

(* db.c:174-181, server.c:154: the JSON object that a GET sends is whole,  *)
(* up to its closing brace, if the employee's name and department have     *)
(* together at most 178 characters, whoever wrote the row; the scans       *)
(* accept 20 more, and an object of those may be cut.                      *)
RowWhole == [][Get => \A r \in row : r.name + r.dept <= 178 => text' = full']_vars
=============================================================================
