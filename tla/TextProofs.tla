------------------------------ MODULE TextProofs ------------------------------
(***************************************************************************)
(* What the fixed buffers and field widths of a row keep, for every salary *)
(* and for fields of every length, and that the buffers of the lists hold  *)
(* their texts, for lists of every length.                                 *)
(***************************************************************************)
EXTENDS EmployeeText, ListBuffer, TLAPS

\* A scanned field has at most Width characters; one that matched is whole.
LEMMA ScanBounded ==
  \A w \in Nat : Scan(w) \in 0..Width /\ (Matched(w) => Scan(w) = w)
  BY DEF Scan, Width, Matched

\* The salary that a scan leaves is one that a request or the code named.
Named == Salaries \cup {Unset}

\* What the scan of a POST leaves.
LEMMA ScanPostRow ==
  \A body \in Bodies : ScanPost(body) \in [name : 0..Width, dept : 0..Width, salary : Named]
<1> TAKE body \in Bodies
<1>1. body.name \in Nat /\ body.dept \in Nat /\ body.salary \in Named
  BY LengthsAssumption DEF Bodies, Named
<1>2. Scan(body.name) \in 0..Width /\ Scan(body.dept) \in 0..Width /\ 0 \in 0..Width
  BY <1>1, ScanBounded DEF Width
<1>3. Unset \in Named
  BY DEF Named
<1>4. QED
  BY <1>1, <1>2, <1>3 DEF ScanPost

\* What the scan of a PUT leaves is a department and a salary.
LEMMA ScanPutRow ==
  \A body \in Updates : ScanPut(body).dept \in 0..Width /\ ScanPut(body).salary \in Named
  BY ScanBounded, LengthsAssumption DEF Updates, ScanPut, Named

\* MySQL stores numbers, and an exact salary as itself.
LEMMA StoredNumbers ==
  \A s \in Named : /\ s.form # "none" => Stored(s) \subseteq Numbers
                   /\ s.form = "exact" => Stored(s) = {s}
  BY DEF Named, Stored, Numbers

\* 53 + 10 + 99 + 317 characters and the NUL are less than 512.
LEMMA UpdateFits ==
  ASSUME NEW i \in IdLengths, NEW body \in Updates
  PROVE  snprintf(UpdateLength(i, ScanPut(body)), 512) = UpdateLength(i, ScanPut(body))
<1> DEFINE new == ScanPut(body)
<1>1. new.dept \in Nat /\ new.dept <= 99
  BY ScanPutRow DEF Width
<1>2. new.salary.fixed \in Nat /\ new.salary.fixed <= 317
  <2>1. \A s \in Named : s.fixed \in 1..317
    BY SalariesAssumption DEF Unset, Named
  <2>2. QED
    BY <2>1, ScanPutRow
<1>3. i \in Nat /\ i <= 10
  BY DEF IdLengths
<1>4. UpdateLength(i, new) \in Nat /\ UpdateLength(i, new) < 512
  BY <1>1, <1>2, <1>3 DEF UpdateLength
<1>5. QED
  BY <1>4 DEF snprintf

\* The text of a row fits in the 256 bytes of db_get_employee.
LEMMA TextBounded ==
  ASSUME NEW i \in IdLengths, NEW r \in Rows
  PROVE  RowText(i, r) \in 0..MaxText /\ RowLength(i, r) \in Nat
<1>1. r.name \in Nat /\ r.dept \in Nat /\ r.salary.text \in Nat /\ i \in Nat
  BY SalariesAssumption DEF Rows, Numbers, Unset, IdLengths
<1>2. RowLength(i, r) \in Nat
  BY <1>1 DEF RowLength
<1>3. QED
  BY <1>2 DEF RowText, snprintf, MaxText

Wishes == [name : Lengths, dept : Lengths, salary : Salaries]

(* r is what the scans have left of a, and MySQL of that.  The salary is   *)
(* kept if the one asked for is exact.                                     *)
Kept(r, a) ==
  /\ r.name = Scan(a.name)
  /\ Matched(a.name) /\ Matched(a.dept) /\ a.salary.form = "exact" =>
       r.dept = a.dept /\ r.salary = a.salary

(* There is one row or none; while the requests alone have made it, it and *)
(* what they asked for come and go together.                               *)
RowKept ==
  /\ \A r \in row, s \in row : r = s
  /\ known => \/ row = {} /\ asked = {}
              \/ \E r \in Rows, a \in Wishes : row = {r} /\ asked = {a} /\ Kept(r, a)
  /\ ~known => asked = {}

TextInv == TypeOK /\ UpdateNotCut /\ RowKept

\* A request that is refused, and one that is disturbed, keep the invariant.
LEMMA RefuseStep ==
  ASSUME TextInv, Refuse, UNCHANGED <<id, cut>> PROVE TextInv'
<1>1. 0 \in 0..MaxText
  BY DEF MaxText
<1> QED
  BY <1>1 DEF TextInv, TypeOK, UpdateNotCut, RowKept, Refuse, Answer

\* What someone else makes of the row is a row or none.
LEMMA DisturbStep == ASSUME TextInv, Disturb
  PROVE  RowKept' /\ row' \subseteq Rows /\ asked' \subseteq Wishes /\ known' \in BOOLEAN
<1>1. row' = {} \/ \E r \in Rows : row' = {r}
  BY LengthsAssumption DEF Disturb
<1>2. row' \subseteq Rows /\ \A r \in row', s \in row' : r = s
  BY <1>1
<1> QED
  BY <1>2 DEF Disturb, RowKept

\* A plain POST stores what its scan leaves.
LEMMA PostStep == ASSUME TextInv, NEW body \in Bodies, Post(body) PROVE TextInv'
<1> DEFINE new == ScanPost(body)
<1>0. 0 \in 0..MaxText
  BY DEF MaxText
<1>1. CASE Refuse
  BY <1>1, RefuseStep DEF Post
<1>2. CASE Disturb /\ Answer("200")
  BY <1>0, <1>2, DisturbStep DEF Post, Answer, TextInv, TypeOK, UpdateNotCut, Wishes
<1>3. CASE /\ new.salary.form # "none"
           /\ \E s \in Stored(new.salary) : row' = {[new EXCEPT !.salary = s]}
           /\ asked' = {Wish(body)} /\ known' = TRUE /\ Answer("200")
  <2>1. PICK s \in Stored(new.salary) : row' = {[new EXCEPT !.salary = s]}
    BY <1>3
  <2>2. new \in [name : 0..Width, dept : 0..Width, salary : Named]
    BY ScanPostRow
  <2>3. s \in Numbers /\ (new.salary.form = "exact" => s = new.salary)
    BY <1>3, <2>1, <2>2, StoredNumbers
  <2> DEFINE r == [new EXCEPT !.salary = s]
  <2>4. r.name = new.name /\ r.dept = new.dept /\ r.salary = s /\ r \in Rows
    BY <2>2, <2>3 DEF Rows, Width
  <2>5. Wish(body) \in Wishes /\ Wish(body).name = body.name
        /\ Wish(body).dept = body.dept /\ Wish(body).salary = body.salary
    BY DEF Bodies, Wish, Wishes
  <2>6. new.name = Scan(body.name) /\ (Matched(body.name) /\ Matched(body.dept) =>
          new.dept = body.dept /\ new.salary = body.salary)
    BY ScanBounded, LengthsAssumption DEF ScanPost, Bodies
  <2>7. Kept(r, Wish(body))
    BY <2>3, <2>4, <2>5, <2>6 DEF Kept
  <2>8. row' = {r} /\ asked' = {Wish(body)} /\ known' = TRUE
    BY <1>3, <2>1
  <2>9. RowKept'
    <3> HIDE DEF r
    <3> QED
      BY <2>4, <2>5, <2>7, <2>8 DEF RowKept
  <2>10. TypeOK'
    <3>1. /\ status' = "200" /\ text' = 0 /\ full' = 0 /\ UNCHANGED <<id, cut>>
      BY <1>3 DEF Post, Answer
    <3> HIDE DEF r
    <3> QED
      BY <1>0, <2>4, <2>5, <2>8, <3>1 DEF TextInv, TypeOK, Wishes
  <2> QED
    BY <2>9, <2>10 DEF TextInv, UpdateNotCut, Post
<1> QED
  BY <1>1, <1>2, <1>3 DEF Post

\* A plain PUT changes the two fields that its scan leaves, in the one row.
LEMMA PutStep == ASSUME TextInv, NEW body \in Updates, Put(body) PROVE TextInv'
<1> DEFINE new == ScanPut(body)
<1>0. 0 \in 0..MaxText
  BY DEF MaxText
<1>1. snprintf(UpdateLength(id, new), 512) = UpdateLength(id, new)
  BY UpdateFits DEF TextInv, TypeOK
<1>2. cut' = cut /\ id' = id
  BY <1>1 DEF Put, PutIn, TextInv, TypeOK
<1>3. CASE Refuse
  BY <1>2, <1>3, RefuseStep
<1>4. CASE Disturb /\ Answer("200")
  BY <1>0, <1>2, <1>4, DisturbStep DEF Answer, TextInv, TypeOK, UpdateNotCut, Wishes
<1>5. CASE /\ new.salary.form # "none"
           /\ \E s \in Stored(new.salary) : row' = {Updated(r, new.dept, s) : r \in row}
           /\ asked' = {Updated(a, body.dept, body.salary) : a \in asked}
           /\ Answer("200") /\ UNCHANGED known
  <2>1. PICK s \in Stored(new.salary) : row' = {Updated(r, new.dept, s) : r \in row}
    BY <1>5
  <2>2. new.dept \in Nat /\ s \in Numbers /\ (new.salary.form = "exact" => s = new.salary)
    BY <1>5, <2>1, ScanPutRow, StoredNumbers DEF Width
  <2>3. \A r \in Rows : /\ Updated(r, new.dept, s) \in Rows
                        /\ Updated(r, new.dept, s).name = r.name
                        /\ Updated(r, new.dept, s).dept = new.dept
                        /\ Updated(r, new.dept, s).salary = s
    BY <2>2 DEF Updated, Rows
  <2> DEFINE w(a) == Updated(a, body.dept, body.salary)
  <2>4. \A a \in Wishes : /\ w(a) \in Wishes
                          /\ w(a).name = a.name
                          /\ w(a).dept = body.dept /\ w(a).salary = body.salary
    BY DEF Updated, Wishes, Updates
  <2>5. Matched(body.dept) => new.dept = body.dept /\ new.salary = body.salary
    BY ScanBounded, LengthsAssumption DEF ScanPut, Updates
  <2>6. \A r \in Rows, a \in Wishes : Kept(r, a) => Kept(Updated(r, new.dept, s), w(a))
    BY <2>2, <2>3, <2>4, <2>5 DEF Kept
  <2>7. row \subseteq Rows /\ asked \subseteq Wishes
    BY DEF TextInv, TypeOK, Wishes
  <2>8. row' \subseteq Rows /\ asked' \subseteq Wishes
    BY <1>5, <2>1, <2>3, <2>4, <2>7
  <2>9. TypeOK'
    BY <1>0, <1>2, <1>5, <2>8 DEF TextInv, TypeOK, Answer, Wishes
  <2>10. \A r \in row', q \in row' : r = q
    BY <2>1 DEF TextInv, RowKept
  <2>11. ASSUME known
         PROVE  \/ row' = {} /\ asked' = {}
                \/ \E r \in Rows, a \in Wishes : row' = {r} /\ asked' = {a} /\ Kept(r, a)
    <3>1. CASE row = {} /\ asked = {}
      BY <1>5, <2>1, <3>1
    <3>2. CASE \E r \in Rows, a \in Wishes : row = {r} /\ asked = {a} /\ Kept(r, a)
      <4>1. PICK r \in Rows, a \in Wishes : row = {r} /\ asked = {a} /\ Kept(r, a)
        BY <3>2
      <4>2. row' = {Updated(r, new.dept, s)} /\ asked' = {w(a)}
        BY <1>5, <2>1, <4>1
      <4> QED
        BY <2>3, <2>4, <2>6, <4>1, <4>2
    <3> QED
      BY <2>11, <3>1, <3>2 DEF TextInv, RowKept
  <2>12. ~known => asked' = {}
    BY <1>5 DEF TextInv, RowKept
  <2>13. RowKept'
    BY <1>5, <2>10, <2>11, <2>12 DEF RowKept
  <2> QED
    BY <1>2, <2>9, <2>13 DEF TextInv, UpdateNotCut
<1> QED
  BY <1>1, <1>3, <1>4, <1>5 DEF Put, PutIn

\* A GET reads, and cuts only its answer.
LEMMA GetStep == ASSUME TextInv, Get PROVE TextInv'
<1>1. 0 \in 0..MaxText
  BY DEF MaxText
<1>2. text' \in 0..MaxText /\ full' \in Nat /\ status' \in {"200", "404"}
  BY <1>1, TextBounded DEF TextInv, TypeOK, Get, Answer
<1>3. QED
  BY <1>2 DEF TextInv, TypeOK, UpdateNotCut, RowKept, Get

\* The invariant of the texts is inductive.
THEOREM TextInductive == Spec => []TextInv
<1>0. 0 \in 0..MaxText
  BY DEF MaxText
<1>1. Init => TextInv
  <2> SUFFICES ASSUME Init PROVE TextInv
    OBVIOUS
  <2>1. id \in IdLengths
    BY LengthsAssumption DEF Init
  <2>2. row = {} \/ \E r \in Rows : row = {r}
    BY LengthsAssumption DEF Init
  <2>3. row \subseteq Rows /\ \A r \in row, s \in row : r = s
    BY <2>2
  <2>4. QED
    BY <1>0, <2>1, <2>3 DEF Init, TextInv, TypeOK, UpdateNotCut, RowKept
<1>2. TextInv /\ [Next]_vars => TextInv'
  <2> SUFFICES ASSUME TextInv, [Next]_vars PROVE TextInv'
    OBVIOUS
  <2>1. CASE Delete
    BY <1>0, <2>1 DEF TextInv, TypeOK, UpdateNotCut, RowKept, Delete, Answer
  <2>2. CASE Elsewhere
    BY <2>2, DisturbStep DEF Elsewhere, TextInv, TypeOK, UpdateNotCut, Wishes
  <2>3. CASE UNCHANGED vars
    BY <2>3 DEF TextInv, TypeOK, UpdateNotCut, RowKept, vars
  <2>4. QED
    BY <2>1, <2>2, <2>3, PostStep, PutStep, GetStep DEF Next
<1>3. QED
  BY <1>1, <1>2, PTL DEF Spec

(* The buffer of db_update_employee cuts no UPDATE, whatever the lengths   *)
(* of a request's department and salary and of the id.                     *)
THEOREM UpdatesNotCut == Spec => []UpdateNotCut
  BY TextInductive, PTL DEF TextInv

(* Requests with plain fields of 1 to 99 characters and salaries of six    *)
(* decimals leave the row they ask for, whatever requests came before, as  *)
(* long as no other statement changes it.                                  *)
THEOREM RowsStoredAsAsked == Spec => []StoredAsAsked
<1>1. ASSUME TypeOK, RowKept PROVE StoredAsAsked
  <2> SUFFICES ASSUME known, \A a \in asked :
                        Matched(a.name) /\ Matched(a.dept) /\ a.salary.form = "exact"
               PROVE  row = asked
    BY DEF StoredAsAsked
  <2>1. CASE row = {} /\ asked = {}
    BY <2>1
  <2>2. CASE \E r \in Rows, a \in Wishes : row = {r} /\ asked = {a} /\ Kept(r, a)
    <3>1. PICK r \in Rows, a \in Wishes : row = {r} /\ asked = {a} /\ Kept(r, a)
      BY <2>2
    <3>2. r.name = a.name /\ r.dept = a.dept /\ r.salary = a.salary
      BY <3>1, ScanBounded, LengthsAssumption DEF Kept, Wishes
    <3>3. r = a
      BY <3>2 DEF Rows, Wishes
    <3>4. QED
      BY <3>1, <3>3
  <2>3. QED
    BY <1>1, <2>1, <2>2 DEF RowKept
<1>2. QED
  BY <1>1, TextInductive, PTL DEF TextInv

\* An object of a name and a department of 178 characters fits whole.
LEMMA ShortTextWhole ==
  ASSUME NEW i \in IdLengths, NEW r \in Rows, r.name + r.dept <= 178
  PROVE  RowText(i, r) = RowLength(i, r)
<1>1. /\ r.name \in Nat /\ r.dept \in Nat
      /\ r.salary.text \in 1..24 /\ i \in 1..10
  BY SalariesAssumption DEF Rows, Numbers, Unset, IdLengths
<1>2. RowLength(i, r) \in Nat /\ RowLength(i, r) < 256
  BY <1>1 DEF RowLength
<1>3. QED
  BY <1>2 DEF RowText, snprintf, MaxText

\* A GET sends the whole object of every employee with short enough fields.
LEMMA GetWhole ==
  ASSUME TextInv, Get, NEW r \in row, r.name + r.dept <= 178
  PROVE  text' = full'
<1>1. PICK s \in row : text' = RowText(id, s) /\ full' = RowLength(id, s)
  BY DEF Get, Answer
<1>2. s = r /\ r \in Rows /\ id \in IdLengths
  BY DEF TextInv, TypeOK, RowKept
<1>3. QED
  BY <1>1, <1>2, ShortTextWhole

\* Employees with 178 characters of text at most are served whole.
THEOREM ShortRowsWhole == Spec => RowWhole
<1>1. TextInv /\ [Next]_vars =>
        [Get => \A r \in row : r.name + r.dept <= 178 => text' = full']_vars
  BY GetWhole
<1>2. QED
  BY <1>1, TextInductive, PTL DEF Spec, RowWhole

\* A row is a row, and a text never exceeds its buffer.
THEOREM TextTypes == Spec => []TypeOK
  BY TextInductive, PTL DEF TextInv

-----------------------------------------------------------------------------
(* The lists. *)

\* The texts that server.c and db.c append are as short as ListBuffer assumes.
THEOREM TextsAreEntries ==
  \A i \in IdLengths, r \in Rows : RowText(i, r) \in 0..255
  BY TextBounded DEF MaxText

(* The room that each place of the loop leaves to the next: 512 bytes at   *)
(* server.c's loop head, of which an entry takes 256; one byte at db.c's   *)
(* loop head, and 256 when the record is appended.                         *)
Room ==
  /\ size >= 1024
  /\ At("list", "loop")   => len <= size - 512
  /\ At("list", "grow")   => len <= size - 256
  /\ At("all", "loop")    => len <= size - 2
  /\ At("all", "reserve") => len <= size - 1
  /\ At("all", "record")  => len <= size - 257
  /\ pc \in {"done", "failed"} => len + 1 <= size

LabelsOfAlgorithm ==
  /\ pc = "grow" => algorithm = "list"
  /\ pc \in {"reserve", "record"} => algorithm = "all"

ListInv == ListTypeOK /\ Room /\ LabelsOfAlgorithm /\ SizeProportional

\* A comma is one character or none.
LEMMA CommaBounded == ListTypeOK => Comma \in 0..1
  BY DEF ListTypeOK, Comma

\* What each place of the loop leaves room for is preserved by every step.
LEMMA ListStep == ListInv /\ [ListNext]_listVars => ListInv'
<1> SUFFICES ASSUME ListInv, [ListNext]_listVars PROVE ListInv'
  OBVIOUS
<1> USE DEF ListInv, At
<1>1. CASE Append
  <2>1. Comma \in 0..1
    BY CommaBounded
  <2>2. PICK d \in 0..256 : len' = len + d
    BY <1>1, <2>1, EntriesAssumption DEF Append, ListTypeOK
  <2>3. /\ algorithm = "list" /\ pc = "loop" /\ pc' = "grow" /\ first' = FALSE
        /\ algorithm' = algorithm /\ size' = size /\ n' \in Nat
    BY <1>1 DEF Append, ListTypeOK
  <2>4. ListTypeOK' /\ LabelsOfAlgorithm'
    <3>1. len' \in Nat /\ size' \in Nat
      BY <2>2, <2>3 DEF ListTypeOK
    <3>2. QED
      BY <2>3, <3>1 DEF ListTypeOK, LabelsOfAlgorithm
  <2>5. Room'
    BY <2>2, <2>3 DEF ListTypeOK, Room
  <2>6. SizeProportional'
    <3>1. size \in Nat /\ len \in Nat /\ size' = size
      BY <2>3 DEF ListTypeOK
    <3>2. QED
      BY <2>2, <3>1 DEF SizeProportional
  <2>7. QED
    BY <2>4, <2>5, <2>6
<1>2. CASE Grow
  BY <1>2 DEF Grow, Double, ListTypeOK, Room, LabelsOfAlgorithm, SizeProportional
<1>3. CASE Separate
  <2>1. Comma \in 0..1
    BY CommaBounded
  <2>2. PICK d \in 0..1 : len' = len + d
    BY <1>3, <2>1 DEF Separate
  <2>3. /\ algorithm = "all" /\ pc = "loop" /\ pc' = "reserve" /\ first' = FALSE
        /\ algorithm' = algorithm /\ size' = size /\ n' \in Nat
    BY <1>3 DEF Separate, ListTypeOK
  <2>4. ListTypeOK' /\ LabelsOfAlgorithm'
    <3>1. len' \in Nat /\ size' \in Nat
      BY <2>2, <2>3 DEF ListTypeOK
    <3>2. QED
      BY <2>3, <3>1 DEF ListTypeOK, LabelsOfAlgorithm
  <2>5. Room'
    BY <2>2, <2>3 DEF ListTypeOK, Room
  <2>6. SizeProportional'
    <3>1. size \in Nat /\ len \in Nat /\ size' = size
      BY <2>3 DEF ListTypeOK
    <3>2. QED
      BY <2>2, <3>1 DEF SizeProportional
  <2>7. QED
    BY <2>4, <2>5, <2>6
<1>4. CASE Reserve
  BY <1>4 DEF Reserve, Double, ListTypeOK, Room, LabelsOfAlgorithm, SizeProportional
<1>5. CASE Record
  <2>1. PICK e \in 0..255 : len' = len + e
    BY <1>5, EntriesAssumption DEF Record
  <2>2. QED
    BY <1>5, <2>1 DEF Record, ListTypeOK, Room, LabelsOfAlgorithm, SizeProportional
<1>6. CASE Close
  BY <1>6 DEF Close, ListTypeOK, Room, LabelsOfAlgorithm, SizeProportional
<1>7. CASE UNCHANGED listVars
  BY <1>7 DEF listVars, ListTypeOK, Room, LabelsOfAlgorithm, SizeProportional
<1>8. QED
  BY <1>1, <1>2, <1>3, <1>4, <1>5, <1>6, <1>7 DEF ListNext

\* The room at each place of the loop is an invariant.
THEOREM ListInductive == ListSpec => []ListInv
<1>1. ListInit => ListInv
  BY DEF ListInit, ListInv, ListTypeOK, Room, LabelsOfAlgorithm, SizeProportional, At
<1>2. QED
  BY <1>1, ListStep, PTL DEF ListSpec

(* server.c:84-124 and db.c:196-221: no strcat writes past the end of the  *)
(* buffer, however many employees there are and however long their texts.  *)
THEOREM ListTextFits == ListSpec => []TextFits
<1>1. ListInv => TextFits
  BY DEF ListInv, ListTypeOK, Room, LabelsOfAlgorithm, TextFits, At
<1>2. QED
  BY <1>1, ListInductive, PTL

\* The buffer is never larger than twice the list and its spare room.
THEOREM ListSizeProportional == ListSpec => []SizeProportional
  BY ListInductive, PTL DEF ListInv
=============================================================================
