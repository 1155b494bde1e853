-------------------------------- MODULE Rows --------------------------------
(***************************************************************************)
(* The rows of one table and what the statements that the table layer      *)
(* sends do to them.  The database engine is external: this is what        *)
(* table.c relies on.                                                      *)
(***************************************************************************)
EXTENDS Naturals, SequencesExt

CONSTANTS
  Column,  \* the declared columns, without the id
  Unique,  \* those declared UNIQUE
  Value,   \* what a column may hold
  Radix    \* of the digits of an id in a command: 10

ASSUME RowsAssumption == Unique \subseteq Column /\ Radix \in Nat \ {0, 1}

Row == [Column -> Value]
Id == "id"

\* The rows by id, and the id the next one gets: AUTOINCREMENT remembers it.
NoRows == [rows |-> [i \in {} |-> i], next |-> 1]
TableOf(maxId) ==
  [rows : UNION {[S -> Row] : S \in SUBSET (1 .. maxId)}, next : 1 .. maxId + 1]

Clash(r, s) == \E c \in Unique : r[c] = s[c]

\* A statement that fails leaves no table.
Failed == [failed |-> TRUE]

(* Conditions *)

Everywhere == [col |-> "any"]
Where(c, v) == [col |-> c, val |-> v]
OneOf(c, V) == [col |-> c, among |-> V]

\* The ids of the rows that a condition names.
Matching(t, w) ==
  {i \in DOMAIN t.rows :
     \/ w = Everywhere
     \/ w.col = Id /\ i = w.val
     \/ w.col \in Column /\ t.rows[i][w.col] \in IF "among" \in DOMAIN w THEN w.among ELSE {w.val}}

\* What is left of `id` = i when its last digits are cut.
Shortened(i) == {i \div Radix ^ k : k \in 1 .. i} \ {0}

\* What a buffer that ends behind "WHERE `col`" leaves of a condition: a number with
\* fewer digits, or the bare column, which is true where it reads as a number that is
\* not 0.  An id always does; of another column some values do.
CutShort(w) ==
  IF w.col = Id THEN {Where(Id, j) : j \in Shortened(w.val)} \cup {Everywhere}
  ELSE {OneOf(w.col, V) : V \in SUBSET Value}

(* Statements *)

\* The id without AUTOINCREMENT: one more than the greatest there is.
FreshId_Reusing(t) ==
  CHOOSE i \in {1} \cup {j + 1 : j \in DOMAIN t.rows} : \A j \in DOMAIN t.rows : j < i
FreshId(t) ==
  CHOOSE i \in {t.next} \cup {j + 1 : j \in DOMAIN t.rows} :
    i >= t.next /\ \A j \in DOMAIN t.rows : j < i

Added(t, r) ==
  LET i == FreshId(t) IN
  [ rows |-> [j \in DOMAIN t.rows \cup {i} |-> IF j = i THEN r ELSE t.rows[j]],
    next |-> i + 1 ]

Without(t, ids) == [t EXCEPT !.rows = Restrict(@, DOMAIN @ \ ids)]

Clashing(t, r) == {i \in DOMAIN t.rows : Clash(t.rows[i], r)}

Insert(t, r) == IF Clashing(t, r) = {} THEN Added(t, r) ELSE Failed
InsertOrIgnore(t, r) == IF Clashing(t, r) = {} THEN Added(t, r) ELSE t
Replace(t, r) == Added(Without(t, Clashing(t, r)), r)

InsertOrIgnoreEach(t, rows) == FoldLeft(InsertOrIgnore, t, rows)
ReplaceEach(t, rows) == FoldLeft(Replace, t, rows)

\* SET f, where f gives some columns, or the id, their values.
Change(t, ids, f) ==
  LET id(i) == IF i \in ids /\ Id \in DOMAIN f THEN f[Id] ELSE i
      row(i) == [c \in Column |-> IF i \in ids /\ c \in DOMAIN f THEN f[c] ELSE t.rows[i][c]] IN
  IF \E i, j \in DOMAIN t.rows : i # j /\ (id(i) = id(j) \/ Clash(row(i), row(j)))
  THEN Failed
  ELSE [t EXCEPT !.rows =
         [k \in {id(i) : i \in DOMAIN @} |-> row(CHOOSE i \in DOMAIN @ : id(i) = k)]]

Update(t, w, f) == Change(t, Matching(t, w), f)

\* What an UPDATE that fails leaves where nothing takes it back (MyISAM).
HalfUpdated(t, w, f) ==
  {Change(t, ids, f) : ids \in SUBSET Matching(t, w)} \ {Failed}

Delete(t, w) == Without(t, Matching(t, w))

(* Calls *)

NoAnswer == [none |-> TRUE]

\* What a call asks for.
Adding(call, rows) == [call |-> call, rows |-> rows]
Setting(call, w, f) == [call |-> call, where |-> w, to |-> f]
Deleting(call, w) == [call |-> call, where |-> w]

Meaning(op, t) ==
  CASE op.call = "add" -> Insert(t, op.rows[1])
    [] op.call \in {"add_or_ignore", "add_multi"} -> InsertOrIgnoreEach(t, op.rows)
    [] op.call \in {"add_or_replace", "replace_multi"} -> ReplaceEach(t, op.rows)
    [] op.call \in {"set_by", "set_col", "update"} -> Update(t, op.where, op.to)
    [] op.call \in {"del_by", "clear", "del_where"} -> Delete(t, op.where)
=============================================================================
