------------------------------ MODULE TableApi ------------------------------
(***************************************************************************)
(* The row operations of a table (table.c): each builds a command in a     *)
(* buffer of DB_MAX_CMD_LEN bytes and hands it to modify() of the layer    *)
(* below, which runs it in main and then in the backup (SQLite), or in     *)
(* main alone (MySQL, with MyISAM tables, which know no transactions).     *)
(*                                                                         *)
(* That transactions of other processes stay apart is shown by DbBackup:   *)
(* here one process and its threads.  A transaction is a working copy      *)
(* that unlock() installs or drops.  A command is a sequence of            *)
(* statements; its text matters where the buffer cuts it.                  *)
(***************************************************************************)
EXTENDS Rows

CONSTANTS
  Thread,
  None,
  MaxId,     \* bound on the ids given
  Faults,    \* which of FaultKinds may happen
  U32Max, I64Max, U64Max

FaultKinds ==
  { "main",    \* a statement fails in main
    "backup",  \* a statement fails in the backup
    "cut",     \* a long value fills the buffer and the rest is lost
    "stray" }  \* rollback() is called outside a transaction

ASSUME ApiAssumption ==
  /\ None \notin Thread
  /\ MaxId \in Nat
  /\ Faults \subseteq FaultKinds
  /\ U32Max \in Nat /\ I64Max \in Nat /\ U64Max \in Nat
  /\ MaxId <= U32Max /\ U32Max < I64Max /\ I64Max < U64Max
  /\ Id \notin Column

VARIABLES
  engine,  \* the database behind the table
  base,    \* the committed table in main and in the backup
  work,    \* the table as the open transaction sees it, or base
  undo,    \* need_rollback of both
  owner,   \* the thread between lock() and unlock()
  torn,    \* history: main stopped between the statements of a command
  way,     \* how the command of this step went to the database
  answer   \* the call that this step was, and whether it answered success

vars == <<engine, base, work, undo, owner, torn, way, answer>>

sqlite == engine = "sqlite3"
Tables == [main : TableOf(MaxId), backup : TableOf(MaxId)]

TypeOK ==
  /\ engine \in {"sqlite3", "mysql"}
  /\ base \in Tables /\ work \in Tables
  /\ undo \in BOOLEAN /\ torn \in BOOLEAN
  /\ owner \in Thread \cup {None}
  /\ way \in {"none", "whole", "cut"}
  /\ \A t \in {base.main, work.main, work.backup} : sqlite \/ t \in {base.main, NoRows}

Init ==
  /\ engine \in {"sqlite3", "mysql"}
  /\ base = [main |-> NoRows, backup |-> NoRows]
  /\ work = base
  /\ undo = FALSE
  /\ owner = None
  /\ torn = FALSE
  /\ way = "none"
  /\ answer = NoAnswer

-----------------------------------------------------------------------------
(* Commands *)

Malformed == [call |-> "malformed"]
LastId == [call |-> "last_insert_rowid"]

\* MySQL has no last_insert_rowid().
Effect(st, t) ==
  IF st = Malformed \/ (st = LastId /\ ~sqlite) THEN Failed
  ELSE IF st = LastId THEN t
  ELSE Meaning(st, t)

\* sqlite3_exec and mysql_query go on until a statement fails.
Run(cmd, t) ==
  LET after[k \in 0 .. Len(cmd)] ==
        IF k = 0 THEN [table |-> t, done |-> 0, stopped |-> <<>>]
        ELSE LET r == after[k - 1]
                 st == cmd[k] IN
             IF r.stopped # <<>> THEN r
             ELSE IF Effect(st, r.table) = Failed THEN [r EXCEPT !.stopped = <<st>>]
             ELSE [table |-> Effect(st, r.table), done |-> r.done + 1, stopped |-> <<>>]
  IN after[Len(cmd)]

\* A statement fails although nothing is wrong with it.
Broken(cmd) ==
  {[i \in 1 .. k |-> IF i < k THEN cmd[i] ELSE Malformed] : k \in DOMAIN cmd}

Runs(f, cmd, t) ==
  {Run(c, t) : c \in {cmd} \cup (IF f \in Faults THEN Broken(cmd) ELSE {})}

\* MyISAM keeps what a failed UPDATE has done.
HalfDone(r) ==
  IF r.stopped # <<>> /\ "to" \in DOMAIN r.stopped[1]
  THEN HalfUpdated(r.table, r.stopped[1].where, r.stopped[1].to)
  ELSE {r.table}

\* What the database has and answers after a command.  mysql.c takes the failure
\* of any statement but the first for the end of the results.
OnMysql(cmd) ==
  UNION {{[work |-> [work EXCEPT !.main = t], undo |-> undo,
           ok |-> r.stopped = <<>> \/ r.done > 0, ran |-> r.done] : t \in HalfDone(r)}
         : r \in Runs("main", cmd, work.main)}

\* A backup that fails takes the transaction of both back: "Impossible!".
TakesBack_Never(b) == FALSE
TakesBack(b) == b.stopped # <<>>

\* main first; the backup only when main succeeds.
OnSqlite(cmd) ==
  UNION {{[work |-> [main |-> m.table, backup |-> b.table], undo |-> undo \/ TakesBack(b),
           ok |-> m.stopped = <<>> /\ b.stopped = <<>>, ran |-> m.done]
          : b \in IF m.stopped = <<>> THEN Runs("backup", cmd, work.backup)
                  ELSE {[table |-> work.backup, stopped |-> <<>>]}}
         : m \in Runs("main", cmd, work.main)}

Outcomes(cmd) == IF sqlite THEN OnSqlite(cmd) ELSE OnMysql(cmd)

-----------------------------------------------------------------------------
(* Transactions *)

EndWith_NoCommit(w, u) == base' = base /\ work' = w /\ undo' = FALSE
EndWith_Commits(w, u) == base' = w /\ work' = w /\ undo' = FALSE

\* unlock(): COMMIT or ROLLBACK of both; MyISAM has committed already.
EndWith(w, u) ==
  /\ base' = IF u THEN base ELSE w
  /\ work' = base'
  /\ undo' = FALSE

Lock(p) ==
  /\ owner = None
  /\ owner' = p
  /\ way' = "none" /\ answer' = NoAnswer
  /\ UNCHANGED <<engine, base, work, undo, torn>>

Unlock(p) ==
  /\ owner = p
  /\ owner' = None
  /\ EndWith(work, undo)
  /\ way' = "none" /\ answer' = NoAnswer
  /\ UNCHANGED <<engine, torn>>

\* The process dies; when it comes back db_sqlite3_try_recover copies main over
\* the backup.
Die ==
  /\ base' = IF sqlite THEN [base EXCEPT !.backup = base.main] ELSE base
  /\ work' = base'
  /\ undo' = FALSE /\ owner' = None /\ torn' = FALSE
  /\ way' = "none" /\ answer' = NoAnswer
  /\ UNCHANGED engine

\* rollback() takes no lock.  For MySQL backup.rollback is NULL.
Rollback(p) ==
  IF sqlite
  THEN /\ owner = p \/ "stray" \in Faults
       /\ undo' = TRUE
       /\ way' = "none" /\ answer' = NoAnswer
       /\ UNCHANGED <<engine, base, work, owner, torn>>
  ELSE owner = p /\ Die

\* modify_on_table: op is what the caller asked for, cmd what is sent.
Modify(p, op, cmd, how) ==
  /\ owner \in {None, p}
  /\ \E out \in Outcomes(cmd) :
       /\ out.work \in Tables  \* the bound MaxId
       /\ answer' = [op |-> op, ok |-> out.ok /\ (op.call = "add" => out.ran = 2)]
       /\ torn' = (torn \/ (~out.ok /\ out.ran \in 1 .. Len(cmd) - 1))
       /\ IF owner # None
          THEN work' = out.work /\ undo' = out.undo
               /\ base' = IF sqlite THEN base ELSE out.work
          ELSE EndWith(out.work, out.undo)
  /\ way' = how
  /\ UNCHANGED <<engine, owner>>

Call(p, op, cmd, cuts) ==
  \/ Modify(p, op, cmd, "whole")
  \/ "cut" \in Faults /\ \E rest \in cuts : Modify(p, op, rest, "cut")

-----------------------------------------------------------------------------
(* Operations *)

\* Where nothing of the command is left that SQL accepts: inside a string or an
\* open parenthesis.
Unusable == {<<Malformed>>}

\* INSERT ... ; SELECT last_insert_rowid(): the cut may come after the INSERT.
db_add_row(p) ==
  \E r \in Row :
    LET op == Adding("add", <<r>>) IN
    Call(p, op, <<op, LastId>>, Unusable \cup {<<op>>, <<op, Malformed>>})

\* One statement with all the rows, in a buffer with room for long values.
db_add_multi(p) ==
  \E replace \in BOOLEAN, r, s \in Row :
    LET op == Adding(IF replace THEN "replace_multi" ELSE "add_multi", <<r, s>>) IN
    Call(p, op, <<op>>, {})

db_add_or_replace(p) ==
  \E r \in Row :
    LET op == Adding("add_or_replace", <<r>>) IN Call(p, op, <<op>>, Unusable)

\* "INSERT OR IGNORE INTO ... VALUES(null" is written twice: never a statement.
db_add_or_ignore(p) ==
  \E r \in Row : Call(p, Adding("add_or_ignore", <<r>>), <<Malformed>>, Unusable)

\* get_col_by_index for an index that the table has: the id, or a column.
Named == {Where(Id, i) : i \in 1 .. MaxId} \cup {Where(c, v) : c \in Column, v \in Value}

\* The end of the WHERE may be lost.  Not all of it: the comma that is taken back
\* leaves room for " W", which is no statement.
db_set_by(p) ==
  \E w \in Named, r \in Row :
    LET op == Setting("set_by", w, r) IN
    Call(p, op, <<op>>, Unusable \cup {<<[op EXCEPT !.where = v]>> : v \in CutShort(w)})

Only(c, v) == [d \in {c} |-> v]

\* One column of one row (also db_set_value).  When the value just fits, the
\* whole WHERE is lost.
db_set_col(p) ==
  \E i \in 1 .. MaxId, x \in Named :
    LET op == Setting("set_col", Where(Id, i), Only(x.col, x.val)) IN
    Call(p, op, <<op>>,
         IF x.col = Id THEN {}
         ELSE Unusable \cup {<<[op EXCEPT !.where = w]>> : w \in CutShort(Where(Id, i))})

db_del_by(p) ==
  \E w \in Named :
    LET op == Deleting("del_by", w) IN
    Call(p, op, <<op>>, IF w.col = Id THEN {} ELSE Unusable)

db_clear(p) ==
  LET op == Deleting("clear", Everywhere) IN Call(p, op, <<op>>, {})

\* SET and the condition are the caller's text; without one, every row.
db_update(p) ==
  \E w \in Named \cup {Everywhere}, c \in Column, v \in Value :
    LET op == Setting("update", w, Only(c, v)) IN
    Call(p, op, <<op>>, Unusable \cup {<<[op EXCEPT !.where = Everywhere]>>})

CutDelete_NoParentheses(op) ==
  Unusable \cup {<<[op EXCEPT !.where = w]>> : w \in {Where(Id, i) : i \in 1 .. MaxId}}
CutDelete(op) == Unusable

\* WHERE (condition): a cut condition leaves the parenthesis open.
db_delete(p) ==
  \E w \in Named \cup {Everywhere} :
    LET op == Deleting("del_where", w) IN Call(p, op, <<op>>, CutDelete(op))

\* get_col_by_index takes the index after the last column for a column, and reads
\* past the array: the text is no statement, or the process dies.
PastTheEnd(p) ==
  \/ Modify(p, Deleting("del_by", Where("past", None)), <<Malformed>>, "whole")
  \/ Die

-----------------------------------------------------------------------------
(* Queries: what they find in table t, in the order of the ids *)

db_find_all(t, w) ==
  LET ids == Matching(t, w) IN
  [k \in 1 .. Cardinality(ids) |-> CHOOSE i \in ids : Cardinality({j \in ids : j <= i}) = k]
db_get_all(t) == db_find_all(t, Everywhere)
Slice(s, offset, limit) == SubSeq(s, offset + 1, Min({Len(s), offset + limit}))
db_find_first(t, w) == Slice(db_find_all(t, w), 0, 1)

\* COUNT(*) comes back as the id of the only row.
db_count_by(t, w) == Cardinality(Matching(t, w))

\* SQLite takes no literal beyond 64 bits with a sign.
Accepted(n) == n <= IF sqlite THEN I64Max ELSE U64Max

Limit_AsGiven(limit) == limit
Limit(limit) == IF sqlite /\ limit > U32Max THEN U32Max ELSE limit

db_query(t, w, offset, limit) ==
  IF Accepted(offset) /\ Accepted(Limit(limit))
  THEN Slice(db_find_all(t, w), offset, Limit(limit))
  ELSE <<>>

-----------------------------------------------------------------------------

Next ==
  \/ \E p \in Thread :
       \/ Lock(p) \/ Unlock(p) \/ Rollback(p)
       \/ db_add_row(p) \/ db_add_multi(p) \/ db_add_or_replace(p) \/ db_add_or_ignore(p)
       \/ db_set_by(p) \/ db_set_col(p) \/ db_del_by(p) \/ db_clear(p)
       \/ db_update(p) \/ db_delete(p) \/ PastTheEnd(p)
  \/ Die

Spec == Init /\ [][Next]_vars
-----------------------------------------------------------------------------
(* Properties *)

\* Main and backup hold the same rows, however statements fail, also when the backup
\* fails after main: only an add that main stops behind its INSERT, when the SELECT
\* fails or is cut, keeps its row out of the backup.
CopiesAgree ==
  sqlite /\ ~torn => base.main = base.backup /\ (undo \/ work.main = work.backup)

T == INSTANCE RowStore WITH
  table <- IF undo THEN base.main ELSE work.main,
  saved <- base.main,
  open <- sqlite /\ owner # None

\* Where the answers do not tell the truth: after a cut; when a rollback() that
\* nobody's unlock() has used up, or a failed call in the same transaction, takes
\* the call back; when only the end of add fails, as it always does on MySQL; and
\* when MyISAM keeps half an UPDATE.
Excused ==
  \/ way' = "cut"
  \/ answer' # NoAnswer /\ undo
  \/ answer' # NoAnswer /\ ~answer'.ok /\ torn' /\ answer'.op.call = "add"
  \/ answer' # NoAnswer /\ ~answer'.ok /\ ~sqlite
     /\ answer'.op.call \in {"add", "set_by", "set_col", "update"}

\* Elsewhere each call does all it says and answers success, or nothing and
\* answers failure, and a transaction is taken back as a whole (table.h).
ImplementsRowStore == T!Init /\ [][Excused \/ T!Next]_vars

\* A command that lost its end never deletes a row.
CutDeletesNothing ==
  [][way' = "cut" => DOMAIN work.main.rows \subseteq DOMAIN work'.main.rows]_vars

\* Page by page, whatever the size of a page up to DB_MAX_INT, a query gives the
\* rows that find_all gives, and count and find agree with it.
PagesAreTheRows ==
  \A w \in Named \cup {Everywhere} :
    LET all == db_find_all(work.main, w) IN
    /\ db_count_by(work.main, w) = Len(all)
    /\ Len(db_find_first(work.main, w)) = Min({1, Len(all)})
    /\ \A limit \in 1 .. MaxId \cup {U64Max} :
         FlattenSeq([k \in 1 .. MaxId |-> db_query(work.main, w, (k - 1) * limit, limit)])
           = all
=============================================================================
