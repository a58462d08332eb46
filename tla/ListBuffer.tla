------------------------------ MODULE ListBuffer ------------------------------
(***************************************************************************)
(* The buffers in which a list of employees grows: the loop of GET         *)
(* /employee/all in server.c, which appends an employee and then enlarges  *)
(* the buffer, and db_get_all_employees in db.c, which enlarges it first.  *)
(* Both double it at most once for an employee and call strcat without a   *)
(* check, relying on the room left by the iteration before.                *)
(***************************************************************************)
EXTENDS Integers

CONSTANTS Entries,      \* the lengths an employee's text can have
          MaxEntries    \* bound: the employees of a list

\* RowText of Texts: snprintf leaves at most 255 characters.
ASSUME EntriesAssumption == Entries \subseteq 0..255 /\ MaxEntries \in Nat

VARIABLES
  algorithm,  \* "list" for server.c, "all" for db.c
  pc,
  size,       \* buf_size, what malloc or realloc has given
  len,        \* strlen(json)
  first,      \* nothing has been appended yet
  n           \* employees passed

listVars == <<algorithm, pc, size, len, first, n>>

Comma == IF first THEN 0 ELSE 1

At(a, label) == algorithm = a /\ pc = label

\* realloc to twice the size, or not: the request ends with an error.
Double(next) ==
  \/ size' = 2 * size /\ pc' = next
  \/ pc' = "failed" /\ UNCHANGED size

-----------------------------------------------------------------------------
(* server.c: an employee from the cache or the table, or one whose row has *)
(* gone; first is cleared all the same.                                    *)
Append ==
  /\ At("list", "loop") /\ n < MaxEntries
  /\ \/ \E e \in Entries : len' = len + Comma + e
     \/ UNCHANGED len
  /\ first' = FALSE /\ n' = n + 1 /\ pc' = "grow"
  /\ UNCHANGED <<algorithm, size>>

\* Mutant: the spare room is that of an employee's text, without the comma.
Grow_NoSlack ==
  /\ At("list", "grow")
  /\ IF len > size - 255 THEN Double("loop") ELSE pc' = "loop" /\ UNCHANGED size
  /\ UNCHANGED <<algorithm, len, first, n>>

\* Mutant: the buffer is doubled as soon as a second entry might not fit.
Grow_Eager ==
  /\ At("list", "grow")
  /\ IF len > size - 1024 THEN Double("loop") ELSE pc' = "loop" /\ UNCHANGED size
  /\ UNCHANGED <<algorithm, len, first, n>>

Grow ==
  /\ At("list", "grow")
  /\ IF len > size - 512 THEN Double("loop") ELSE pc' = "loop" /\ UNCHANGED size
  /\ UNCHANGED <<algorithm, len, first, n>>

-----------------------------------------------------------------------------
(* db.c: the comma, then the room, then the record. *)
Separate ==
  /\ At("all", "loop") /\ n < MaxEntries
  /\ len' = len + Comma /\ first' = FALSE /\ n' = n + 1
  /\ pc' = "reserve"
  /\ UNCHANGED <<algorithm, size>>

Reserve ==
  /\ At("all", "reserve")
  /\ IF len + 256 >= size THEN Double("record") ELSE pc' = "record" /\ UNCHANGED size
  /\ UNCHANGED <<algorithm, len, first, n>>

Record ==
  /\ At("all", "record")
  /\ \E e \in Entries : len' = len + e
  /\ pc' = "loop"
  /\ UNCHANGED <<algorithm, size, first, n>>

-----------------------------------------------------------------------------
\* No more rows: the closing bracket.
Close ==
  /\ pc = "loop"
  /\ len' = len + 1 /\ pc' = "done"
  /\ UNCHANGED <<algorithm, size, first, n>>

\* strcpy(json, "[") into 1024 bytes.
ListInit ==
  /\ algorithm \in {"list", "all"}
  /\ pc = "loop" /\ size = 1024 /\ len = 1 /\ first = TRUE /\ n = 0

ListNext == Append \/ Grow \/ Separate \/ Reserve \/ Record \/ Close

ListSpec == ListInit /\ [][ListNext]_listVars

-----------------------------------------------------------------------------
ListTypeOK ==
  /\ algorithm \in {"list", "all"}
  /\ pc \in {"loop", "grow", "reserve", "record", "done", "failed"}
  /\ size \in Nat /\ len \in Nat /\ n \in Nat
  /\ first \in BOOLEAN

(* server.c:116 and db.c:208 enlarge once, by doubling, and at different   *)
(* places of the loop: after every strcat, the closing bracket's included, *)
(* the text and its NUL are within the buffer, for lists of any length.    *)
TextFits == len + 1 <= size

(* The buffer stays within a constant factor of the list: doubling once    *)
(* per employee is enough, and never runs ahead.                           *)
SizeProportional == size > 1024 => size <= 2 * (len + 512)
=============================================================================
