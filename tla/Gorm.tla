-------------------------------- MODULE Gorm --------------------------------
(***************************************************************************)
(* The part of gorm 1.21 the repositories of models/ rely on (external).   *)
(* A table is a set of rows with different ids.  Every write of a          *)
(* repository is one statement or one transaction, hence one step.         *)
(***************************************************************************)
EXTENDS Integers, Sequences, FiniteSets

(* Save writes every column, and inserts the row if its id is new. *)
Save(T, row) == {r \in T : r.id # row.id} \cup {row}

(* A zero creation time is filled in when the row is inserted, not when it is updated. *)
Stamped(T, row, now) == IF row.created = 0 /\ \A r \in T : r.id # row.id THEN [row EXCEPT !.created = now] ELSE row

(* Create fails on a known id. *)
Create(T, row) == IF \E r \in T : r.id = row.id THEN T ELSE T \cup {row}

(* UPDATE ... WHERE: every row that matches. *)
UpdateWhere(T, Match(_), Change(_)) == {IF Match(r) THEN Change(r) ELSE r : r \in T}

(* A column of a struct given to Updates: a zero value leaves the column alone. *)
NonZero(new, old, zero) == IF new = zero THEN old ELSE new

(* Without ORDER BY the rows may come in any order. *)
Arrangements(S) == {s \in [1..Cardinality(S) -> S] : \A i, j \in DOMAIN s : s[i] = s[j] => i = j}

(* Limit and Offset have no effect unless they are positive.  MySQL has no OFFSET without LIMIT:
   MysqlStore never asks for one. *)
Page(rows, offset, limit) ==
    LET from == IF offset > 0 THEN offset + 1 ELSE 1
        to   == IF limit > 0 /\ from + limit - 1 < Len(rows) THEN from + limit - 1 ELSE Len(rows)
    IN  SubSeq(rows, from, to)

(* ORDER BY created_at, ascending or descending: no two rows of the model were created at one time
   (the code's clock may give two the same, and the database then returns them in any order; here
   the order of their ids stands in). *)
Before(r, s, col, asc) == IF r[col] = s[col] THEN r.id < s.id ELSE (r[col] < s[col]) = asc

(* The i-th row is the one with i - 1 rows before it. *)
OrderBy(S, col, asc) ==
    [i \in 1..Cardinality(S) |-> CHOOSE r \in S : Cardinality({s \in S : Before(s, r, col, asc)}) = i - 1]
=============================================================================
