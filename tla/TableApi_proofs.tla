--------------------------- MODULE TableApi_proofs ---------------------------
(* For any columns, values, threads and faults: the calls of table.c keep    *)
(* main and backup equal, a cut command deletes nothing, and each call does   *)
(* all of what it says or nothing (RowStore), but for what Excused names; the *)
(* pages of a query are the rows of find_all.                                 *)
EXTENDS TableApi, FiniteSetTheorems, SequenceTheorems, WellFoundedInduction, TLAPS

-----------------------------------------------------------------------------
(* Commands *)

\* What a command came to: it ran, or stopped at st after n statements.
Ran(t, n) == [table |-> t, done |-> n, stopped |-> <<>>]
Stopped(t, n, st) == [table |-> t, done |-> n, stopped |-> <<st>>]

\* Run goes on until a statement fails: a command of one statement,
LEMMA RunOne ==
  ASSUME NEW s, NEW t
  PROVE  Run(<<s>>, t) = IF Effect(s, t) = Failed THEN Stopped(t, 0, s)
                         ELSE Ran(Effect(s, t), 1)
<1> DEFINE next(r, st) ==
             IF r.stopped # <<>> THEN r
             ELSE IF Effect(st, r.table) = Failed THEN [r EXCEPT !.stopped = <<st>>]
             ELSE [table |-> Effect(st, r.table), done |-> r.done + 1, stopped |-> <<>>]
           F(f) == [k \in 0 .. Len(<<s>>) |->
                     IF k = 0 THEN Ran(t, 0) ELSE next(f[k - 1], <<s>>[k])]
           g == [k \in 0 .. 1 |-> IF k = 0 THEN Ran(t, 0) ELSE next(Ran(t, 0), s)]
<1>1. Len(<<s>>) = 1 /\ <<s>>[1] = s
  OBVIOUS
<1>2. Run(<<s>>, t) = (CHOOSE f : f = F(f))[1]
  BY <1>1 DEF Run, Ran
<1>3. next(Ran(t, 0), s) =
        IF Effect(s, t) = Failed THEN Stopped(t, 0, s) ELSE Ran(Effect(s, t), 1)
  BY DEF Ran, Stopped
<1> HIDE DEF next
<1>4. g = F(g)
  BY <1>1
<1>5. \A f : f = F(f) => f = g
  BY <1>1
<1> HIDE DEF F, g
<1>6. Run(<<s>>, t) = g[1]
  BY <1>2, <1>4, <1>5
<1> QED
  BY <1>3, <1>6 DEF g

\* and of two.
LEMMA RunTwo ==
  ASSUME NEW s, NEW u, NEW t
  PROVE  Run(<<s, u>>, t) =
           IF Effect(s, t) = Failed THEN Stopped(t, 0, s)
           ELSE IF Effect(u, Effect(s, t)) = Failed THEN Stopped(Effect(s, t), 1, u)
           ELSE Ran(Effect(u, Effect(s, t)), 2)
<1> DEFINE next(r, st) ==
             IF r.stopped # <<>> THEN r
             ELSE IF Effect(st, r.table) = Failed THEN [r EXCEPT !.stopped = <<st>>]
             ELSE [table |-> Effect(st, r.table), done |-> r.done + 1, stopped |-> <<>>]
           cmd == <<s, u>>
           F(f) == [k \in 0 .. Len(cmd) |-> IF k = 0 THEN Ran(t, 0) ELSE next(f[k - 1], cmd[k])]
           r1 == next(Ran(t, 0), s)
           g == [k \in 0 .. 2 |->
                  IF k = 0 THEN Ran(t, 0) ELSE IF k = 1 THEN r1 ELSE next(r1, u)]
<1>1. Len(cmd) = 2 /\ cmd[1] = s /\ cmd[2] = u
  OBVIOUS
<1>2. Run(cmd, t) = (CHOOSE f : f = F(f))[2]
  BY <1>1 DEF Run, Ran
<1>3. /\ r1 = IF Effect(s, t) = Failed THEN Stopped(t, 0, s) ELSE Ran(Effect(s, t), 1)
      /\ next(r1, u) = IF Effect(s, t) = Failed THEN Stopped(t, 0, s)
           ELSE IF Effect(u, Effect(s, t)) = Failed THEN Stopped(Effect(s, t), 1, u)
           ELSE Ran(Effect(u, Effect(s, t)), 2)
  <2>1. \A st, x, n : next(Stopped(x, n, st), u) = Stopped(x, n, st)
    BY DEF Stopped
  <2>2. \A x, st : \A n \in Nat :
          next(Ran(x, n), st) = IF Effect(st, x) = Failed THEN Stopped(x, n, st)
                                ELSE Ran(Effect(st, x), n + 1)
    BY DEF Ran, Stopped
  <2> HIDE DEF next
  <2> QED
    BY <2>1, <2>2
<1> HIDE DEF next, r1
<1>4. g = F(g)
  BY <1>1 DEF r1
<1>5. \A f : f = F(f) => f = g
  <2> SUFFICES ASSUME NEW f, f = F(f) PROVE f = g
    OBVIOUS
  <2>1. f[0] = Ran(t, 0) /\ f[1] = next(f[0], s) /\ f[2] = next(f[1], u)
    BY <1>1
  <2>2. f = [k \in 0 .. 2 |-> f[k]]
    BY <1>1
  <2>3. \A k \in 0 .. 2 : f[k] = g[k]
    BY <2>1 DEF r1
  <2> QED
    BY <2>2, <2>3
<1> HIDE DEF F, g, cmd
<1>6. Run(cmd, t) = g[2]
  BY <1>2, <1>4, <1>5
<1> QED
  BY <1>3, <1>6 DEF g, cmd

\* Where a command of one statement may break,
LEMMA BrokenOne == ASSUME NEW s PROVE Broken(<<s>>) = {<<Malformed>>}
<1>1. DOMAIN <<s>> = {1}
  OBVIOUS
<1>2. [i \in 1 .. 1 |-> IF i < 1 THEN <<s>>[i] ELSE Malformed] = <<Malformed>>
  OBVIOUS
<1> QED
  BY <1>1, <1>2 DEF Broken

\* and one of two.
LEMMA BrokenTwo == ASSUME NEW s, NEW u
                    PROVE  Broken(<<s, u>>) = {<<Malformed>>, <<s, Malformed>>}
<1>1. DOMAIN <<s, u>> = {1, 2}
  OBVIOUS
<1>2. [i \in 1 .. 1 |-> IF i < 1 THEN <<s, u>>[i] ELSE Malformed] = <<Malformed>>
  OBVIOUS
<1>3. [i \in 1 .. 2 |-> IF i < 2 THEN <<s, u>>[i] ELSE Malformed] = <<s, Malformed>>
  OBVIOUS
<1> QED
  BY <1>1, <1>2, <1>3 DEF Broken

\* What a statement does, by the call it comes from.
LEMMA EffectOf ==
  ASSUME NEW t
  PROVE  /\ Effect(Malformed, t) = Failed
         /\ Effect(LastId, t) = IF sqlite THEN t ELSE Failed
         /\ \A op : op.call \notin {"malformed", "last_insert_rowid"} =>
              Effect(op, t) = Meaning(op, t)
<1>1. Malformed.call = "malformed" /\ LastId.call = "last_insert_rowid"
  BY DEF Malformed, LastId
<1> QED
  BY <1>1 DEF Effect

\* What a command of one statement may come to, when it may be broken,
LEMMA RunsOne ==
  ASSUME NEW f, NEW s, NEW t, NEW r \in Runs(f, <<s>>, t)
  PROVE  \/ Effect(s, t) # Failed /\ r = Ran(Effect(s, t), 1)
         \/ \E st \in {s, Malformed} : r = Stopped(t, 0, st)
<1>1. r \in {Run(<<s>>, t), Run(<<Malformed>>, t)}
  BY BrokenOne DEF Runs
<1> QED
  BY <1>1, RunOne, EffectOf

\* ... and of two.
LEMMA RunsTwo ==
  ASSUME NEW f, NEW s, NEW u, NEW t, NEW r \in Runs(f, <<s, u>>, t)
  PROVE  \/ /\ Effect(s, t) # Failed /\ Effect(u, Effect(s, t)) # Failed
            /\ r = Ran(Effect(u, Effect(s, t)), 2)
         \/ /\ Effect(s, t) # Failed
            /\ \E st \in {s, u, Malformed} : r = Stopped(Effect(s, t), 1, st)
         \/ \E st \in {s, u, Malformed} : r = Stopped(t, 0, st)
<1>1. r \in {Run(<<s, u>>, t), Run(<<Malformed>>, t), Run(<<s, Malformed>>, t)}
  BY BrokenTwo DEF Runs
<1> QED
  BY <1>1, RunOne, RunTwo, EffectOf

\* The fields of what a command came to.
LEMMA RanOrStopped ==
  ASSUME NEW t, NEW n, NEW st
  PROVE  /\ Ran(t, n).stopped = <<>> /\ Ran(t, n).table = t /\ Ran(t, n).done = n
         /\ Stopped(t, n, st).stopped = <<st>> /\ Stopped(t, n, st).stopped # <<>>
         /\ Stopped(t, n, st).table = t /\ Stopped(t, n, st).done = n
BY DEF Ran, Stopped

\* What modify_on_table leaves with SQLite when main got to m.
SqliteEnd(cmd, out, m) ==
  /\ out.ran = m.done
  /\ \/ /\ m.stopped # <<>>
        /\ out.work = [main |-> m.table, backup |-> work.backup]
        /\ out.undo = undo /\ out.ok = FALSE
     \/ /\ m.stopped = <<>>
        /\ \E b \in Runs("backup", cmd, work.backup) :
             /\ out.work = [main |-> m.table, backup |-> b.table]
             /\ out.undo = IF b.stopped = <<>> THEN undo ELSE TRUE
             /\ out.ok = IF b.stopped = <<>> THEN TRUE ELSE FALSE

\* ... and with MySQL when it got to r.
MysqlEnd(out, r) ==
  /\ \E t \in HalfDone(r) : out.work = [work EXCEPT !.main = t]
  /\ out.undo = undo
  /\ r.stopped = <<>> => out.ok = TRUE
  /\ r.stopped # <<>> /\ r.done = 0 => out.ok = FALSE
  /\ out.ran = r.done

\* How modify_on_table ends with SQLite when main got to m and the backup to b.
LEMMA OnSqliteIs ==
  ASSUME NEW cmd, NEW out \in OnSqlite(cmd), undo \in BOOLEAN
  PROVE  \E m \in Runs("main", cmd, work.main) : SqliteEnd(cmd, out, m)
<1> DEFINE Second(m) == IF m.stopped = <<>> THEN Runs("backup", cmd, work.backup)
                        ELSE {[table |-> work.backup, stopped |-> <<>>]}
       R(m, b) == [work |-> [main |-> m.table, backup |-> b.table],
                   undo |-> undo \/ TakesBack(b),
                   ok |-> m.stopped = <<>> /\ b.stopped = <<>>, ran |-> m.done]
<1>1. PICK m \in Runs("main", cmd, work.main) : \E b \in Second(m) : out = R(m, b)
  <2>1. OnSqlite(cmd) = UNION {{R(m, b) : b \in Second(m)} : m \in Runs("main", cmd, work.main)}
    BY DEF OnSqlite
  <2> HIDE DEF R, Second
  <2> QED
    BY <2>1
<1>2. PICK b \in Second(m) : out = R(m, b)
  BY <1>1
<1>3. /\ out.work = [main |-> m.table, backup |-> b.table]
      /\ out.undo = (undo \/ TakesBack(b))
      /\ out.ok = (m.stopped = <<>> /\ b.stopped = <<>>)
      /\ out.ran = m.done
  BY <1>2
<1>4. CASE m.stopped # <<>>
  <2>1. b = [table |-> work.backup, stopped |-> <<>>]
    BY <1>4
  <2>2. b.table = work.backup /\ b.stopped = <<>>
    BY <2>1
  <2>3. out.undo = undo /\ out.ok = FALSE
    BY <1>3, <1>4, <2>2 DEF TakesBack
  <2> QED
    BY <1>3, <1>4, <2>2, <2>3 DEF SqliteEnd
<1>5. CASE m.stopped = <<>>
  <2>1. b \in Runs("backup", cmd, work.backup)
    BY <1>5
  <2>2. /\ out.undo = IF b.stopped = <<>> THEN undo ELSE TRUE
        /\ out.ok = IF b.stopped = <<>> THEN TRUE ELSE FALSE
    BY <1>3, <1>5 DEF TakesBack
  <2> QED
    BY <1>3, <1>5, <2>1, <2>2 DEF SqliteEnd
<1> QED
  BY <1>4, <1>5

\* How modify_on_table ends with MySQL.
LEMMA OnMysqlIs ==
  ASSUME NEW cmd, NEW out \in OnMysql(cmd)
  PROVE  \E r \in Runs("main", cmd, work.main) : MysqlEnd(out, r)
<1> DEFINE R(r, t) == [work |-> [work EXCEPT !.main = t], undo |-> undo,
           ok |-> r.stopped = <<>> \/ r.done > 0, ran |-> r.done]
<1>1. PICK r \in Runs("main", cmd, work.main) : \E t \in HalfDone(r) : out = R(r, t)
  <2>1. OnMysql(cmd) = UNION {{R(r, t) : t \in HalfDone(r)}
                             : r \in Runs("main", cmd, work.main)}
    BY DEF OnMysql
  <2> HIDE DEF R
  <2> QED
    BY <2>1
<1>2. PICK t \in HalfDone(r) : out = R(r, t)
  BY <1>1
<1>3. /\ out.work = [work EXCEPT !.main = t] /\ out.undo = undo /\ out.ran = r.done
      /\ out.ok = (r.stopped = <<>> \/ r.done > 0)
  BY <1>2
<1>4. r.stopped = <<>> => out.ok = TRUE
  BY <1>3
<1>5. r.stopped # <<>> /\ r.done = 0 => out.ok = FALSE
  <2>1. r.done = 0 => ~(r.done > 0)
    OBVIOUS
  <2> QED
    BY <1>3, <2>1
<1> QED
  BY <1>3, <1>4, <1>5 DEF MysqlEnd

\* How the transaction goes on after a command that left w and u.
Ends(w, u) ==
  IF owner = None THEN EndWith(w, u)
  ELSE work' = w /\ undo' = u /\ base' = IF sqlite THEN base ELSE w

\* What a call of modify_on_table does, however the database is called.
LEMMA ModifyIs ==
  ASSUME NEW p \in Thread, NEW op, NEW cmd, NEW how, Modify(p, op, cmd, how)
  PROVE  /\ UNCHANGED <<engine, owner>> /\ way' = how
         /\ \E out \in Outcomes(cmd) :
              /\ out.work \in Tables
              /\ answer' = [op |-> op, ok |-> out.ok /\ (op.call = "add" => out.ran = 2)]
              /\ torn' = (torn \/ (~out.ok /\ out.ran \in 1 .. Len(cmd) - 1))
              /\ Ends(out.work, out.undo)
BY DEF Modify, Ends

-----------------------------------------------------------------------------
(* Types *)

\* MySQL has one copy and no transactions; without a transaction nothing is open.
Plain ==
  /\ ~sqlite => undo = FALSE /\ work = base /\ base.backup = NoRows
  /\ owner = None => work = base

\* The empty table is a table.
LEMMA NoRowsIsTable == NoRows \in TableOf(MaxId)
<1>1. [i \in {} |-> i] \in [{} -> Row]
  OBVIOUS
<1>2. 1 \in 1 .. MaxId + 1
  BY ApiAssumption
<1> QED
  BY <1>1, <1>2 DEF NoRows, TableOf

\* The calls of one statement.
OneStatement == { "add_multi", "replace_multi", "add_or_replace", "set_by", "set_col",
                  "del_by", "clear", "update", "del_where" }

\* What may be sent for op: the whole command, a text that is no statement, or what is
\* left of an INSERT or an UPDATE that was cut; never what is left of a DELETE.
Sends(op, cmd, how) ==
  \/ /\ how = "whole" /\ op.call \in OneStatement /\ cmd = <<op>>
     /\ "to" \in DOMAIN op => op.call \in {"set_by", "set_col", "update"}
  \/ how = "whole" /\ op.call # "add" /\ cmd = <<Malformed>>
  \/ how = "whole" /\ op.call = "add" /\ cmd = <<op, LastId>>
  \/ how = "cut" /\ cmd = <<Malformed>>
  \/ /\ how = "cut"
     /\ \E r \in Row : op = Adding("add", <<r>>) /\ cmd \in {<<op>>, <<op, Malformed>>}
  \/ /\ how = "cut" /\ op.call # "add"
     /\ \E call \in {"set_by", "set_col", "update"} : \E w, f :
          Id \notin DOMAIN f /\ cmd = <<Setting(call, w, f)>>

\* A step that sends a command.
Sent ==
  \E p \in Thread, how \in {"whole", "cut"} : \E op, cmd :
    Sends(op, cmd, how) /\ Modify(p, op, cmd, how)

\* Call sends the whole command, or what a cut leaves of it.
LEMMA CallSends ==
  ASSUME NEW p \in Thread, NEW op, NEW cmd, NEW cuts, Call(p, op, cmd, cuts),
         Sends(op, cmd, "whole"), \A c \in cuts : Sends(op, c, "cut")
  PROVE  Sent
<1>1. CASE Modify(p, op, cmd, "whole")
  BY <1>1 DEF Sent
<1>2. CASE \E c \in cuts : Modify(p, op, c, "cut")
  <2>1. PICK c \in cuts : Modify(p, op, c, "cut")
    BY <1>2
  <2> QED
    BY <2>1 DEF Sent
<1> QED
  BY <1>1, <1>2 DEF Call

\* The fields of what a call asks for.
LEMMA OpFields ==
  ASSUME NEW call, NEW w, NEW x
  PROVE  /\ Adding(call, x).call = call /\ "to" \notin DOMAIN Adding(call, x)
         /\ Setting(call, w, x).call = call
         /\ \A v : [Setting(call, w, x) EXCEPT !.where = v] = Setting(call, v, x)
         /\ Deleting(call, w).call = call /\ "to" \notin DOMAIN Deleting(call, w)
BY DEF Adding, Setting, Deleting

\* Only an index of the id gives the id another value.
LEMMA NamedIs ==
  ASSUME NEW x \in Named
  PROVE  x.col # Id => Id \notin DOMAIN (Only(x.col, x.val))
BY DEF Named, Where, Only

\* What the operations send: an unusable rest after a cut,
LEMMA SendsCut ==
  ASSUME NEW op
  PROVE  \A c \in Unusable : Sends(op, c, "cut")
BY DEF Unusable, Sends

\* the whole command,
LEMMA SendsWhole ==
  ASSUME NEW call \in OneStatement, NEW w, NEW x
  PROVE  /\ Sends(Adding(call, x), <<Adding(call, x)>>, "whole")
         /\ Sends(Deleting(call, w), <<Deleting(call, w)>>, "whole")
         /\ call \in {"set_by", "set_col", "update"} =>
              Sends(Setting(call, w, x), <<Setting(call, w, x)>>, "whole")
<1>1. Sends(Adding(call, x), <<Adding(call, x)>>, "whole")
  <2>1. Adding(call, x).call = call /\ "to" \notin DOMAIN Adding(call, x)
    BY OpFields
  <2> QED
    BY <2>1 DEF Sends
<1>2. Sends(Deleting(call, w), <<Deleting(call, w)>>, "whole")
  <2>1. Deleting(call, w).call = call /\ "to" \notin DOMAIN Deleting(call, w)
    BY OpFields
  <2> QED
    BY <2>1 DEF Sends
<1>3. call \in {"set_by", "set_col", "update"} =>
        Sends(Setting(call, w, x), <<Setting(call, w, x)>>, "whole")
  <2>1. Setting(call, w, x).call = call
    BY OpFields
  <2> QED
    BY <2>1 DEF Sends
<1> QED
  BY <1>1, <1>2, <1>3

\* or an UPDATE whose condition has lost its end.
LEMMA SendsMoved ==
  ASSUME NEW call \in {"set_by", "set_col", "update"}, NEW w, NEW f, Id \notin DOMAIN f, NEW v
  PROVE  Sends(Setting(call, w, f), <<[Setting(call, w, f) EXCEPT !.where = v]>>, "cut")
<1>1. Setting(call, w, f).call # "add"
  BY OpFields
<1>2. [Setting(call, w, f) EXCEPT !.where = v] = Setting(call, v, f)
  BY OpFields
<1> QED
  BY <1>1, <1>2 DEF Sends

\* Every operation of table.c sends what Sends lists; the other steps send nothing.
LEMMA Calls ==
  ASSUME Next
  PROVE  (\E p \in Thread : Lock(p) \/ Unlock(p) \/ Rollback(p)) \/ Die \/ Sent
<1> USE DEF OneStatement
<1>1. ASSUME NEW p \in Thread, db_add_row(p) PROVE Sent
  <2>1. PICK r \in Row :
          Call(p, Adding("add", <<r>>), <<Adding("add", <<r>>), LastId>>,
               Unusable \cup {<<Adding("add", <<r>>)>>, <<Adding("add", <<r>>), Malformed>>})
    BY <1>1 DEF db_add_row
  <2> DEFINE op == Adding("add", <<r>>)
  <2>2. Sends(op, <<op, LastId>>, "whole")
    BY OpFields DEF Sends
  <2>3. \A c \in {<<op>>, <<op, Malformed>>} : Sends(op, c, "cut")
    BY DEF Sends
  <2> HIDE DEF op
  <2> QED
    BY <2>1, <2>2, <2>3, SendsCut, CallSends DEF op
<1>2. ASSUME NEW p \in Thread, db_add_multi(p) PROVE Sent
  <2>1. PICK replace \in BOOLEAN, r \in Row, s \in Row :
           LET op == Adding(IF replace THEN "replace_multi" ELSE "add_multi", <<r, s>>) IN
           Call(p, op, <<op>>, {})
    BY <1>2 DEF db_add_multi
  <2> DEFINE call == IF replace THEN "replace_multi" ELSE "add_multi"
  <2>2. call \in OneStatement
    OBVIOUS
  <2>3. Sends(Adding(call, <<r, s>>), <<Adding(call, <<r, s>>)>>, "whole")
    BY <2>2, SendsWhole
  <2> HIDE DEF call
  <2> QED
    BY <2>1, <2>3, CallSends DEF call
<1>3. ASSUME NEW p \in Thread, db_add_or_replace(p) PROVE Sent
  <2>1. PICK r \in Row : LET op == Adding("add_or_replace", <<r>>) IN
                         Call(p, op, <<op>>, Unusable)
    BY <1>3 DEF db_add_or_replace
  <2> DEFINE op == Adding("add_or_replace", <<r>>)
  <2>2. Sends(op, <<op>>, "whole")
    BY SendsWhole
  <2> HIDE DEF op
  <2> QED
    BY <2>1, <2>2, SendsCut, CallSends DEF op
<1>4. ASSUME NEW p \in Thread, db_add_or_ignore(p) PROVE Sent
  <2>1. PICK r \in Row : Call(p, Adding("add_or_ignore", <<r>>), <<Malformed>>, Unusable)
    BY <1>4 DEF db_add_or_ignore
  <2>2. Sends(Adding("add_or_ignore", <<r>>), <<Malformed>>, "whole")
    BY OpFields DEF Sends
  <2> QED
    BY <2>1, <2>2, SendsCut, CallSends
<1>5. ASSUME NEW p \in Thread, db_set_by(p) PROVE Sent
  <2>1. PICK w \in Named, r \in Row :
          LET op == Setting("set_by", w, r) IN
          Call(p, op, <<op>>,
               Unusable \cup {<<[op EXCEPT !.where = v]>> : v \in CutShort(w)})
    BY <1>5 DEF db_set_by
  <2> DEFINE op == Setting("set_by", w, r)
  <2>2. Id \notin DOMAIN r
    BY ApiAssumption DEF Row
  <2>3. \A v : Sends(op, <<[op EXCEPT !.where = v]>>, "cut")
    BY <2>2, SendsMoved
  <2>4. Sends(op, <<op>>, "whole")
    BY SendsWhole
  <2> HIDE DEF op
  <2> QED
    BY <2>1, <2>3, <2>4, SendsCut, CallSends DEF op
<1>6. ASSUME NEW p \in Thread, db_set_col(p) PROVE Sent
  <2>1. PICK i \in 1 .. MaxId, x \in Named :
          LET op == Setting("set_col", Where(Id, i), Only(x.col, x.val)) IN
          Call(p, op, <<op>>,
         IF x.col = Id THEN {}
         ELSE Unusable \cup {<<[op EXCEPT !.where = w]>> : w \in CutShort(Where(Id, i))})
    BY <1>6 DEF db_set_col
  <2> DEFINE op == Setting("set_col", Where(Id, i), Only(x.col, x.val))
  <2>2. x.col # Id => \A v : Sends(op, <<[op EXCEPT !.where = v]>>, "cut")
    BY NamedIs, SendsMoved
  <2>3. Sends(op, <<op>>, "whole")
    BY SendsWhole
  <2> HIDE DEF op
  <2> QED
    BY <2>1, <2>2, <2>3, SendsCut, CallSends DEF op
<1>7. ASSUME NEW p \in Thread, db_del_by(p) PROVE Sent
  <2>1. PICK w \in Named : LET op == Deleting("del_by", w) IN
                           Call(p, op, <<op>>, IF w.col = Id THEN {} ELSE Unusable)
    BY <1>7 DEF db_del_by
  <2> DEFINE op == Deleting("del_by", w)
  <2>2. Sends(op, <<op>>, "whole")
    BY SendsWhole
  <2> HIDE DEF op
  <2> QED
    BY <2>1, <2>2, SendsCut, CallSends DEF op
<1>8. ASSUME NEW p \in Thread, db_clear(p) PROVE Sent
  <2> DEFINE op == Deleting("clear", Everywhere)
  <2>1. Call(p, op, <<op>>, {})
    BY <1>8 DEF db_clear
  <2>2. Sends(op, <<op>>, "whole")
    BY SendsWhole
  <2> HIDE DEF op
  <2> QED
    BY <2>1, <2>2, CallSends
<1>9. ASSUME NEW p \in Thread, db_update(p) PROVE Sent
  <2>1. PICK w \in Named \cup {Everywhere}, c \in Column, v \in Value :
    LET op == Setting("update", w, Only(c, v)) IN
    Call(p, op, <<op>>, Unusable \cup {<<[op EXCEPT !.where = Everywhere]>>})
    BY <1>9 DEF db_update
  <2> DEFINE op == Setting("update", w, Only(c, v))
  <2>2. Id \notin DOMAIN (Only(c, v))
    BY ApiAssumption DEF Only
  <2>3. Sends(op, <<[op EXCEPT !.where = Everywhere]>>, "cut")
    BY <2>2, SendsMoved
  <2>4. Sends(op, <<op>>, "whole")
    BY SendsWhole
  <2> HIDE DEF op
  <2> QED
    BY <2>1, <2>3, <2>4, SendsCut, CallSends DEF op
<1>10. ASSUME NEW p \in Thread, db_delete(p) PROVE Sent
  <2>1. PICK w \in Named \cup {Everywhere} : LET op == Deleting("del_where", w) IN
                                            Call(p, op, <<op>>, Unusable)
    BY <1>10 DEF db_delete, CutDelete
  <2> DEFINE op == Deleting("del_where", w)
  <2>2. Sends(op, <<op>>, "whole")
    BY SendsWhole
  <2> HIDE DEF op
  <2> QED
    BY <2>1, <2>2, SendsCut, CallSends DEF op
<1>11. ASSUME NEW p \in Thread, PastTheEnd(p), ~Die PROVE Sent
  <2>1. Modify(p, Deleting("del_by", Where("past", None)), <<Malformed>>, "whole")
    BY <1>11 DEF PastTheEnd
  <2>2. Sends(Deleting("del_by", Where("past", None)), <<Malformed>>, "whole")
    BY OpFields DEF Sends
  <2> QED
    BY <2>1, <2>2 DEF Sent
<1> QED
  BY <1>1, <1>2, <1>3, <1>4, <1>5, <1>6, <1>7, <1>8, <1>9, <1>10, <1>11 DEF Next

\* Every step keeps the types: modify_on_table, unlock, rollback and a restart.
LEMMA TypeStep == TypeOK /\ Plain /\ [Next]_vars => TypeOK' /\ Plain'
<1> SUFFICES ASSUME TypeOK, Plain, [Next]_vars PROVE TypeOK' /\ Plain'
  OBVIOUS
<1>1. None \notin Thread
  BY ApiAssumption
<1>2. ASSUME NEW p \in Thread, Lock(p) PROVE TypeOK' /\ Plain'
  BY <1>1, <1>2 DEF Lock, TypeOK, Plain, sqlite
<1>3. ASSUME NEW p \in Thread, Unlock(p) PROVE TypeOK' /\ Plain'
  BY <1>1, <1>3 DEF Unlock, EndWith, TypeOK, Plain, sqlite
<1>4. ASSUME Die PROVE TypeOK' /\ Plain'
  BY <1>1, <1>4 DEF Die, TypeOK, Plain, sqlite, Tables
<1>5. ASSUME NEW p \in Thread, Rollback(p) PROVE TypeOK' /\ Plain'
  BY <1>1, <1>4, <1>5 DEF Rollback, TypeOK, Plain, sqlite
<1>6. ASSUME NEW p \in Thread, NEW op, NEW cmd, NEW how \in {"whole", "cut"},
             Modify(p, op, cmd, how)
      PROVE TypeOK' /\ Plain'
  <2>1. PICK out \in Outcomes(cmd) :
              /\ out.work \in Tables
              /\ torn' = (torn \/ (~out.ok /\ out.ran \in 1 .. Len(cmd) - 1))
              /\ Ends(out.work, out.undo)
    BY <1>6, ModifyIs
  <2>2. UNCHANGED <<engine, owner>> /\ way' = how
    BY <1>6, ModifyIs
  <2>3. torn' \in BOOLEAN
    BY <2>1 DEF TypeOK
  <2>4. CASE sqlite
    <3>1. out.undo \in BOOLEAN
      BY <2>4, OnSqliteIs DEF Outcomes, TypeOK, SqliteEnd
    <3> QED
      BY <2>1, <2>2, <2>3, <2>4, <3>1 DEF Ends, EndWith, TypeOK, Plain, sqlite
  <2>5. CASE ~sqlite
    <3>1. out.undo = FALSE /\ out.work.backup = NoRows
      <4>1. out \in OnMysql(cmd)
        BY <2>5 DEF Outcomes
      <4>2. PICK r \in Runs("main", cmd, work.main) : MysqlEnd(out, r)
        BY <4>1, OnMysqlIs
      <4>3. PICK t \in HalfDone(r) : out.work = [work EXCEPT !.main = t]
        BY <4>2 DEF MysqlEnd
      <4>4. work.backup = NoRows /\ undo = FALSE
        BY <2>5 DEF Plain
      <4>5. out.work.backup = NoRows
        BY <4>3, <4>4 DEF TypeOK, Tables
      <4> QED
        BY <4>2, <4>4, <4>5 DEF MysqlEnd
    <3>2. base' = out.work /\ work' = out.work /\ undo' = FALSE
      BY <2>1, <2>5, <3>1 DEF Ends, EndWith
    <3> QED
      BY <2>1, <2>2, <2>3, <2>5, <3>1, <3>2 DEF TypeOK, Plain, sqlite
  <2> QED
    BY <2>4, <2>5
<1>7. CASE UNCHANGED vars
  <2>1. /\ engine' = engine /\ base' = base /\ work' = work /\ undo' = undo
        /\ owner' = owner /\ torn' = torn /\ way' = way
    BY <1>7 DEF vars
  <2>2. TypeOK'
    BY <2>1 DEF TypeOK, sqlite
  <2>3. Plain'
    BY <2>1 DEF Plain, sqlite
  <2> QED
    BY <2>2, <2>3
<1> QED
  BY <1>2, <1>3, <1>4, <1>5, <1>6, <1>7, Calls DEF Sent

\* Only add sends two statements.
LEMMA OneOrAdd ==
  ASSUME NEW op, NEW cmd, NEW how, Sends(op, cmd, how)
  PROVE  \/ \E s : cmd = <<s>>
         \/ op.call = "add" /\ \E s, u : cmd = <<s, u>>
<1>1. CASE \E r \in Row : op = Adding("add", <<r>>) /\ cmd \in {<<op>>, <<op, Malformed>>}
  BY <1>1, OpFields
<1>2. CASE \E call \in {"set_by", "set_col", "update"} :
             \E w, f : cmd = <<Setting(call, w, f)>>
  BY <1>2
<1>3. CASE cmd = <<op>> \/ cmd = <<Malformed>> \/ (op.call = "add" /\ cmd = <<op, LastId>>)
  BY <1>3
<1> QED
  BY <1>1, <1>2, <1>3 DEF Sends

\* A command of two statements that stopped, but not between them, has done nothing.
LEMMA StoppedFirst ==
  ASSUME NEW cmd, \E s, u : cmd = <<s, u>>, NEW f, NEW t, NEW m \in Runs(f, cmd, t),
         m.stopped # <<>>, m.done \notin 1 .. Len(cmd) - 1
  PROVE  m.table = t
<1>1. PICK s, u : cmd = <<s, u>>
  OBVIOUS
<1>2. m \in Runs(f, <<s, u>>, t) /\ Len(cmd) = 2
  BY <1>1
<1>3. m.done # 1
  BY <1>2
<1>4. \/ m = Ran(Effect(u, Effect(s, t)), 2)
      \/ \E st \in {s, u, Malformed} : m = Stopped(Effect(s, t), 1, st)
      \/ \E st \in {s, u, Malformed} : m = Stopped(t, 0, st)
  BY <1>2, RunsTwo
<1>5. \A x, st : m # Ran(x, 2) /\ m # Stopped(x, 1, st)
  BY <1>3 DEF Ran, Stopped
<1>6. \A st : m = Stopped(t, 0, st) => m.table = t
  BY RanOrStopped
<1> QED
  BY <1>4, <1>5, <1>6

\* Every step keeps the copies equal.
LEMMA CopiesStep == TypeOK /\ Plain /\ CopiesAgree /\ [Next]_vars => CopiesAgree'
<1> SUFFICES ASSUME TypeOK, Plain, CopiesAgree, [Next]_vars, sqlite', ~torn'
             PROVE  base'.main = base'.backup /\ (undo' \/ work'.main = work'.backup)
  BY DEF CopiesAgree
<1> USE DEF sqlite
<1>1. sqlite
  <2>1. Next => UNCHANGED engine
    BY Calls, ModifyIs DEF Lock, Unlock, Rollback, Die, Sent
  <2> QED
    BY <2>1 DEF vars
<1>2. ASSUME NEW p \in Thread, Lock(p)
      PROVE base'.main = base'.backup /\ (undo' \/ work'.main = work'.backup)
  BY <1>1, <1>2 DEF Lock, CopiesAgree
<1>3. ASSUME NEW p \in Thread, Unlock(p)
      PROVE base'.main = base'.backup /\ (undo' \/ work'.main = work'.backup)
  BY <1>1, <1>3 DEF Unlock, EndWith, CopiesAgree, TypeOK
<1>4. ASSUME Die
      PROVE base'.main = base'.backup /\ (undo' \/ work'.main = work'.backup)
  BY <1>1, <1>4 DEF Die, TypeOK, Tables
<1>5. ASSUME NEW p \in Thread, Rollback(p)
      PROVE base'.main = base'.backup /\ (undo' \/ work'.main = work'.backup)
  BY <1>1, <1>5 DEF Rollback, CopiesAgree
<1>6. ASSUME Sent
      PROVE base'.main = base'.backup /\ (undo' \/ work'.main = work'.backup)
  <2>1. PICK p \in Thread, how \in {"whole", "cut"} : \E op, cmd :
          Sends(op, cmd, how) /\ Modify(p, op, cmd, how)
    BY <1>6 DEF Sent
  <2>2. PICK op, cmd : Sends(op, cmd, how) /\ Modify(p, op, cmd, how)
    BY <2>1
  <2>3. PICK out \in OnSqlite(cmd) :
          /\ torn' = (torn \/ (~out.ok /\ out.ran \in 1 .. Len(cmd) - 1))
          /\ Ends(out.work, out.undo)
    BY <1>1, <2>2, ModifyIs DEF Outcomes
  <2>4. ~torn /\ (~out.ok => out.ran \notin 1 .. Len(cmd) - 1)
    BY <2>3
  <2>5. base.main = base.backup /\ (undo \/ work.main = work.backup)
    BY <1>1, <2>4 DEF CopiesAgree
  <2>6. undo \in BOOLEAN /\ work \in Tables /\ base \in Tables
    BY DEF TypeOK
  <2>7. out.undo \/ out.work.main = out.work.backup
    <3>1. PICK m \in Runs("main", cmd, work.main) : SqliteEnd(cmd, out, m)
      BY <2>6, OnSqliteIs
    <3>2. CASE m.stopped # <<>>
      <4>1. /\ out.work = [main |-> m.table, backup |-> work.backup]
            /\ out.undo = undo /\ out.ok = FALSE
        BY <3>1, <3>2 DEF SqliteEnd
      <4>2. out.work.main = work.main
        <5>1. CASE \E s : cmd = <<s>>
          <6>1. PICK s : cmd = <<s>>
            BY <5>1
          <6>2. m \in Runs("main", <<s>>, work.main)
            BY <6>1
          <6>3. PICK st : m = Stopped(work.main, 0, st)
            <7>1. \/ m = Ran(Effect(s, work.main), 1)
                  \/ \E st \in {s, Malformed} : m = Stopped(work.main, 0, st)
              BY <6>2, RunsOne
            <7>2. m # Ran(Effect(s, work.main), 1)
              BY <3>2 DEF Ran
            <7> QED
              BY <7>1, <7>2
          <6> QED
            BY <4>1, <6>3, RanOrStopped
        <5>2. CASE \E s, u : cmd = <<s, u>>
          <6>1. m.done \notin 1 .. Len(cmd) - 1
            BY <2>4, <3>1, <4>1 DEF SqliteEnd
          <6>2. m.table = work.main
            BY <3>2, <5>2, <6>1, StoppedFirst
          <6> QED
            BY <4>1, <6>2
        <5> QED
          BY <2>2, <5>1, <5>2, OneOrAdd
      <4> QED
        BY <2>5, <4>1, <4>2
    <3>3. CASE m.stopped = <<>>
      <4>1. PICK b \in Runs("backup", cmd, work.backup) :
              /\ out.work = [main |-> m.table, backup |-> b.table]
              /\ out.undo = IF b.stopped = <<>> THEN undo ELSE TRUE
        BY <3>1, <3>3 DEF SqliteEnd
      <4>2. CASE b.stopped = <<>> /\ work.main = work.backup
        <5>1. m.table = b.table
          <6>1. CASE \E s : cmd = <<s>>
            BY <3>3, <4>2, <6>1, RunsOne, RanOrStopped
          <6>2. CASE \E s, u : cmd = <<s, u>>
            BY <3>3, <4>2, <6>2, RunsTwo, RanOrStopped
          <6> QED
            BY <2>2, <6>1, <6>2, OneOrAdd
        <5> QED
          BY <4>1, <5>1
      <4> QED
        BY <2>5, <4>1, <4>2
    <3> QED
      BY <3>2, <3>3
  <2>8. CASE owner = None
    <3>1. EndWith(out.work, out.undo)
      BY <2>3, <2>8 DEF Ends
    <3> QED
      BY <2>5, <2>7, <3>1 DEF EndWith
  <2>9. CASE owner # None
    <3>1. work' = out.work /\ undo' = out.undo /\ base' = base
      BY <1>1, <2>3, <2>9 DEF Ends
    <3> QED
      BY <2>5, <2>7, <3>1
  <2> QED
    BY <2>8, <2>9
<1>7. CASE UNCHANGED vars
  BY <1>1, <1>7 DEF vars, CopiesAgree
<1> QED
  BY <1>2, <1>3, <1>4, <1>5, <1>6, <1>7, Calls

-----------------------------------------------------------------------------
(* Cut commands *)

\* An UPDATE that does not set the id keeps all ids,
LEMMA ChangeKeepsIds ==
  ASSUME NEW t \in TableOf(MaxId), NEW ids, NEW f, Id \notin DOMAIN f,
         Change(t, ids, f) # Failed
  PROVE  DOMAIN Change(t, ids, f).rows = DOMAIN t.rows
<1> DEFINE id(i) == IF i \in ids /\ Id \in DOMAIN f THEN f[Id] ELSE i
           row(i) == [c \in Column |->
                       IF i \in ids /\ c \in DOMAIN f THEN f[c] ELSE t.rows[i][c]]
           new == [k \in {id(i) : i \in DOMAIN t.rows} |->
                    row(CHOOSE i \in DOMAIN t.rows : id(i) = k)]
<1>1. Change(t, ids, f) = [t EXCEPT !.rows = new]
  BY DEF Change
<1>2. {id(i) : i \in DOMAIN t.rows} = DOMAIN t.rows
  OBVIOUS
<1> HIDE DEF row, id
<1>3. DOMAIN new = DOMAIN t.rows
  BY <1>2
<1> HIDE DEF new
<1> QED
  BY <1>1, <1>3 DEF TableOf

\* and an INSERT too.
LEMMA InsertKeepsIds ==
  ASSUME NEW t, NEW r, Insert(t, r) # Failed
  PROVE  DOMAIN t.rows \subseteq DOMAIN Insert(t, r).rows
<1> DEFINE i == FreshId(t)
<1>1. Insert(t, r) = [ rows |-> [j \in DOMAIN t.rows \cup {i} |->
                                  IF j = i THEN r ELSE t.rows[j]],
                       next |-> i + 1 ]
  BY DEF Insert, Added
<1> HIDE DEF i
<1> QED
  BY <1>1

\* What add and the UPDATEs ask for.
LEMMA MeaningOf ==
  ASSUME NEW t, NEW w, NEW x, NEW call
  PROVE  /\ call = "add" => Meaning(Adding(call, x), t) = Insert(t, x[1])
         /\ call \in {"set_by", "set_col", "update"} =>
              Meaning(Setting(call, w, x), t) = Update(t, w, x)
BY DEF Meaning, Adding, Setting

\* Neither is an UPDATE.
LEMMA NoTo == "to" \notin DOMAIN Malformed /\ "to" \notin DOMAIN LastId
BY DEF Malformed, LastId

\* MyISAM keeps half of an UPDATE, and of nothing else.
LEMMA HalfDoneIs ==
  ASSUME NEW x, NEW n, NEW st
  PROVE  /\ HalfDone(Ran(x, n)) = {x}
         /\ "to" \notin DOMAIN st => HalfDone(Stopped(x, n, st)) = {x}
         /\ "to" \in DOMAIN st => HalfDone(Stopped(x, n, st)) = HalfUpdated(x, st.where, st.to)
<1>1. HalfDone(Ran(x, n)) = {x}
  BY DEF HalfDone, Ran
<1>2. /\ Stopped(x, n, st).stopped # <<>> /\ Stopped(x, n, st).stopped[1] = st
      /\ Stopped(x, n, st).table = x
  BY DEF Stopped
<1> QED
  BY <1>1, <1>2 DEF HalfDone

\* All ids are still there.
Keeps(x) == DOMAIN work.main.rows \subseteq DOMAIN x.rows

\* A command that ran and kept the ids keeps them with MyISAM too.
LEMMA KeepsRan ==
  ASSUME NEW x, NEW n, Keeps(x), NEW r, r = Ran(x, n)
  PROVE  Keeps(r.table) /\ \A y \in HalfDone(r) : Keeps(y)
<1>1. r.table = x
  BY RanOrStopped
<1>2. HalfDone(r) = {x}
  BY HalfDoneIs
<1> QED
  BY <1>1, <1>2

\* What a cut command leaves has all the ids, half-done or not.
LEMMA CutKeeps ==
  ASSUME TypeOK, NEW op, NEW cmd, Sends(op, cmd, "cut"),
         NEW f, NEW r \in Runs(f, cmd, work.main)
  PROVE  Keeps(r.table) /\ \A x \in HalfDone(r) : Keeps(x)
<1>1. work.main \in TableOf(MaxId)
  BY DEF TypeOK, Tables
<1>2. ASSUME NEW st, "to" \notin DOMAIN st, r = Stopped(work.main, 0, st)
      PROVE  Keeps(r.table) /\ \A x \in HalfDone(r) : Keeps(x)
  BY <1>2, HalfDoneIs, RanOrStopped DEF Keeps
<1>3. CASE cmd = <<Malformed>>
  <2>1. r = Stopped(work.main, 0, Malformed)
    BY <1>3, RunsOne, EffectOf
  <2> QED
    BY <1>2, <2>1, NoTo
<1>4. ASSUME NEW q \in Row, op = Adding("add", <<q>>), cmd \in {<<op>>, <<op, Malformed>>}
      PROVE  Keeps(r.table) /\ \A x \in HalfDone(r) : Keeps(x)
  <2>1. /\ Effect(op, work.main) = Insert(work.main, q)
        /\ "to" \notin DOMAIN op
    <3>1. op.call = "add" /\ "to" \notin DOMAIN op
      BY <1>4, OpFields
    <3>2. Effect(op, work.main) = Meaning(op, work.main)
      BY <3>1, EffectOf
    <3>3. Meaning(op, work.main) = Insert(work.main, <<q>>[1])
      BY <1>4, MeaningOf
    <3> QED
      BY <3>1, <3>2, <3>3
  <2>2. Effect(op, work.main) # Failed => Keeps(Effect(op, work.main))
    BY <2>1, InsertKeepsIds DEF Keeps
  <2>3. CASE cmd = <<op>>
    <3>1. \/ Effect(op, work.main) # Failed /\ r = Ran(Effect(op, work.main), 1)
          \/ \E st \in {op, Malformed} : r = Stopped(work.main, 0, st)
      BY <2>3, RunsOne
    <3>2. CASE Effect(op, work.main) # Failed /\ r = Ran(Effect(op, work.main), 1)
      BY <2>2, <3>2, KeepsRan
    <3>3. CASE \E st \in {op, Malformed} : r = Stopped(work.main, 0, st)
      BY <1>2, <2>1, <3>3, NoTo
    <3> QED
      BY <3>1, <3>2, <3>3
  <2>4. CASE cmd = <<op, Malformed>>
    <3> DEFINE e == Effect(op, work.main)
    <3>1. \/ e # Failed /\ \E st \in {op, Malformed} : r = Stopped(e, 1, st)
          \/ \E st \in {op, Malformed} : r = Stopped(work.main, 0, st)
      BY <2>4, RunsTwo, EffectOf
    <3>2. CASE e # Failed /\ \E st \in {op, Malformed} : r = Stopped(e, 1, st)
      <4>1. PICK st \in {op, Malformed} : r = Stopped(e, 1, st)
        BY <3>2
      <4>2. "to" \notin DOMAIN st
        BY <2>1, NoTo
      <4>3. Keeps(e)
        BY <2>2, <3>2
      <4> HIDE DEF e
      <4> QED
        BY <4>1, <4>2, <4>3, HalfDoneIs, RanOrStopped
    <3>3. CASE \E st \in {op, Malformed} : r = Stopped(work.main, 0, st)
      BY <1>2, <2>1, <3>3, NoTo
    <3> QED
      BY <3>1, <3>2, <3>3
  <2> QED
    BY <1>4, <2>3, <2>4
<1>5. ASSUME NEW call \in {"set_by", "set_col", "update"}, NEW w, NEW g,
             Id \notin DOMAIN g, cmd = <<Setting(call, w, g)>>
      PROVE  Keeps(r.table) /\ \A x \in HalfDone(r) : Keeps(x)
  <2> DEFINE s == Setting(call, w, g)
  <2>1. /\ Effect(s, work.main) = Update(work.main, w, g)
        /\ "to" \in DOMAIN s /\ s.where = w /\ s.to = g
    <3>1. s.call = call /\ "to" \in DOMAIN s /\ s.where = w /\ s.to = g
      BY DEF Setting
    <3>2. Effect(s, work.main) = Meaning(s, work.main)
      BY <3>1, EffectOf
    <3> QED
      BY <3>1, <3>2, MeaningOf
  <2> HIDE DEF s
  <2>2. \A ids : Change(work.main, ids, g) # Failed => Keeps(Change(work.main, ids, g))
    BY <1>1, <1>5, ChangeKeepsIds DEF Keeps
  <2>3. cmd = <<s>>
    BY <1>5 DEF s
  <2>4. \/ Effect(s, work.main) # Failed /\ r = Ran(Effect(s, work.main), 1)
        \/ \E st \in {s, Malformed} : r = Stopped(work.main, 0, st)
    BY <2>3, RunsOne
  <2>5. CASE Effect(s, work.main) # Failed /\ r = Ran(Effect(s, work.main), 1)
    <3>1. Keeps(Effect(s, work.main))
      BY <2>1, <2>2, <2>5 DEF Update
    <3> QED
      BY <2>5, <3>1, KeepsRan
  <2>6. CASE r = Stopped(work.main, 0, s)
    <3>1. HalfDone(r) = HalfUpdated(work.main, w, g)
      BY <2>1, <2>6, HalfDoneIs
    <3>2. \A x \in HalfUpdated(work.main, w, g) : Keeps(x)
      BY <2>2 DEF HalfUpdated
    <3>3. Keeps(work.main)
      BY DEF Keeps
    <3> QED
      BY <2>6, <3>1, <3>2, <3>3, RanOrStopped
  <2>7. CASE r = Stopped(work.main, 0, Malformed)
    BY <1>2, <2>7, NoTo
  <2> QED
    BY <2>4, <2>5, <2>6, <2>7
<1> QED
  BY <1>3, <1>4, <1>5 DEF Sends

\* And so the step, whether unlock() installs it or the transaction goes on.
LEMMA CutStep ==
  ASSUME TypeOK, Plain, Next, way' = "cut"
  PROVE  DOMAIN work.main.rows \subseteq DOMAIN work'.main.rows
<1>1. Sent
  BY Calls DEF Lock, Unlock, Rollback, Die
<1>2. PICK p \in Thread, how \in {"whole", "cut"} : \E op, cmd :
          Sends(op, cmd, how) /\ Modify(p, op, cmd, how)
  BY <1>1 DEF Sent
<1>3. PICK op, cmd : Sends(op, cmd, how) /\ Modify(p, op, cmd, how)
  BY <1>2
<1>4. Sends(op, cmd, "cut")
  BY <1>3, ModifyIs
<1>5. PICK out \in Outcomes(cmd) : Ends(out.work, out.undo)
  BY <1>3, ModifyIs
<1>6. Keeps(out.work.main)
  <2>1. CASE sqlite
    <3>1. out \in OnSqlite(cmd) /\ undo \in BOOLEAN
      BY <2>1 DEF Outcomes, TypeOK
    <3>2. PICK m \in Runs("main", cmd, work.main) : SqliteEnd(cmd, out, m)
      BY <3>1, OnSqliteIs
    <3>3. out.work.main = m.table
      <4>1. CASE m.stopped # <<>>
        <5>1. out.work = [main |-> m.table, backup |-> work.backup]
          BY <3>2, <4>1 DEF SqliteEnd
        <5> QED
          BY <5>1
      <4>2. CASE m.stopped = <<>>
        <5>1. PICK b \in Runs("backup", cmd, work.backup) :
                out.work = [main |-> m.table, backup |-> b.table]
          BY <3>2, <4>2 DEF SqliteEnd
        <5> QED
          BY <5>1
      <4> QED
        BY <4>1, <4>2
    <3> QED
      BY <1>4, <3>3, CutKeeps
  <2>2. CASE ~sqlite
    <3>1. out \in OnMysql(cmd)
      BY <2>2 DEF Outcomes
    <3>2. PICK r \in Runs("main", cmd, work.main) : MysqlEnd(out, r)
      BY <3>1, OnMysqlIs
    <3>3. PICK t \in HalfDone(r) : out.work = [work EXCEPT !.main = t]
      BY <3>2 DEF MysqlEnd
    <3>4. out.work.main = t
      BY <3>3 DEF TypeOK, Tables
    <3> QED
      BY <1>4, <3>3, <3>4, CutKeeps
  <2> QED
    BY <2>1, <2>2
<1>7. /\ work' \in {base, out.work}
      /\ owner = None => work = base
      /\ owner # None => work' = out.work
  BY <1>5 DEF Ends, EndWith, Plain
<1> QED
  BY <1>6, <1>7 DEF Keeps

-----------------------------------------------------------------------------
(* The store *)

\* A single statement with new values is an UPDATE.
LEMMA OneTo ==
  ASSUME NEW op, NEW cmd, Sends(op, cmd, "whole"), cmd = <<op>>, op.call \in OneStatement,
         op.call \notin {"set_by", "set_col", "update"}
  PROVE  "to" \notin DOMAIN op
<1>1. op # Malformed
  BY DEF OneStatement, Malformed
<1> QED
  BY <1>1 DEF Sends

\* The table that the store of RowStore holds.
Table == IF undo THEN base.main ELSE work.main

\* A step of the store that does what the call says,
LEMMA StoreDoes ==
  ASSUME NEW op, NEW x, x = Meaning(op, Table), x # Failed,
         Table' = x, base'.main = IF sqlite /\ owner # None THEN base.main ELSE x,
         answer'.op = op, answer' = [op |-> op, ok |-> TRUE], answer' # NoAnswer,
         UNCHANGED <<engine, owner>>
  PROVE  T!Next
<1>1. T!Do(op)
  BY DEF T!Do, Table, sqlite
<1> QED
  BY <1>1 DEF T!Next

\* and one that refuses it.
LEMMA StoreRefuses ==
  ASSUME NEW op, Table' \in {Table, base.main}, base'.main = base.main,
         answer'.op = op, answer' = [op |-> op, ok |-> FALSE], answer' # NoAnswer,
         UNCHANGED <<engine, owner>>
  PROVE  T!Next
<1>1. T!Refuse(op)
  BY DEF T!Refuse, Table, sqlite
<1> QED
  BY <1>1 DEF T!Next

\* An answer to a call is an answer.
LEMMA AnswerIsOne ==
  ASSUME NEW op, NEW ok
  PROVE  /\ [op |-> op, ok |-> ok] # NoAnswer
         /\ [op |-> op, ok |-> ok].op = op /\ [op |-> op, ok |-> ok].ok = ok
<1>1. "none" \in DOMAIN NoAnswer /\ "none" \notin DOMAIN [op |-> op, ok |-> ok]
  BY DEF NoAnswer
<1> QED
  BY <1>1

\* A whole command sent to SQLite is a step of the store: when main stops nothing has
\* changed, when the backup stops all of the transaction is taken back, and when
\* neither does the call is done.
LEMMA SqliteStores ==
  ASSUME TypeOK, Plain, sqlite, ~undo, NEW op, NEW cmd, Sends(op, cmd, "whole"),
         NEW out \in OnSqlite(cmd), Ends(out.work, out.undo), UNCHANGED <<engine, owner>>,
         ~out.ok => out.ran \notin 1 .. Len(cmd) - 1,
         answer' = [op |-> op, ok |-> out.ok /\ (op.call = "add" => out.ran = 2)]
  PROVE  T!Next
<1>1. /\ undo = FALSE /\ undo \in BOOLEAN /\ Table = work.main
      /\ base \in Tables /\ work \in Tables
  BY DEF TypeOK, Table
<1>2. PICK m \in Runs("main", cmd, work.main) : SqliteEnd(cmd, out, m)
  BY <1>1, OnSqliteIs
<1>3. ASSUME out.ok = FALSE PROVE answer' = [op |-> op, ok |-> FALSE]
  BY <1>3
<1>4. answer' # NoAnswer /\ answer'.op = op
  BY AnswerIsOne
<1>5. ASSUME NEW x, out.work.main = x, out.undo = FALSE
      PROVE  /\ Table' = x
             /\ base'.main = IF sqlite /\ owner # None THEN base.main ELSE x
  BY <1>5 DEF Ends, EndWith, Table, sqlite
<1>6. CASE m.stopped # <<>>
  <2>1. /\ out.work = [main |-> m.table, backup |-> work.backup]
        /\ out.undo = undo /\ out.ok = FALSE
    BY <1>2, <1>6 DEF SqliteEnd
  <2>2. out.work.main = work.main
    <3>1. CASE \E s : cmd = <<s>>
      <4>1. PICK s : cmd = <<s>>
        BY <3>1
      <4>2. m \in Runs("main", <<s>>, work.main)
        BY <4>1
      <4>3. \/ m = Ran(Effect(s, work.main), 1)
            \/ \E st \in {s, Malformed} : m = Stopped(work.main, 0, st)
        BY <4>2, RunsOne
      <4>4. m # Ran(Effect(s, work.main), 1)
        BY <1>6 DEF Ran
      <4>5. PICK st : m = Stopped(work.main, 0, st)
        BY <4>3, <4>4
      <4> QED
        BY <2>1, <4>5, RanOrStopped
    <3>2. CASE \E s, u : cmd = <<s, u>>
      <4>1. m.done \notin 1 .. Len(cmd) - 1
        BY <1>2, <2>1 DEF SqliteEnd
      <4>2. m.table = work.main
        BY <1>6, <3>2, <4>1, StoppedFirst
      <4> QED
        BY <2>1, <4>2
    <3> QED
      BY <3>1, <3>2, OneOrAdd
  <2>3. Table' = work.main /\ base'.main = base.main
    <3>1. owner = None => base.main = work.main
      BY DEF Plain
    <3> QED
      BY <1>1, <1>5, <2>1, <2>2, <3>1
  <2> QED
    BY <1>1, <1>3, <1>4, <2>1, <2>3, StoreRefuses
<1>7. CASE m.stopped = <<>>
  <2>1. PICK b \in Runs("backup", cmd, work.backup) :
              /\ out.work = [main |-> m.table, backup |-> b.table]
              /\ out.undo = IF b.stopped = <<>> THEN undo ELSE TRUE
              /\ out.ok = IF b.stopped = <<>> THEN TRUE ELSE FALSE
    BY <1>2, <1>7 DEF SqliteEnd
  <2>2. CASE b.stopped # <<>>
    <3>1. out.undo = TRUE /\ out.ok = FALSE
      BY <2>1, <2>2
    <3>2. Table' = base.main /\ base'.main = base.main
      BY <3>1 DEF Ends, EndWith, Table, sqlite
    <3>3. answer' = [op |-> op, ok |-> FALSE]
      BY <1>3, <3>1
    <3>4. Table' \in {Table, base.main}
      BY <3>2
    <3> QED
      BY <1>4, <3>2, <3>3, <3>4, StoreRefuses
  <2>3. CASE b.stopped = <<>>
    <3>1. out.undo = FALSE /\ out.ok = TRUE /\ out.work.main = m.table
      BY <1>1, <2>1, <2>3
    <3>2. /\ Meaning(op, work.main) # Failed /\ m.table = Meaning(op, work.main)
          /\ op.call = "add" => m.done = 2
      <4>1. CASE cmd = <<op>> /\ op.call \in OneStatement
        <5>1. Effect(op, work.main) = Meaning(op, work.main)
          BY <4>1, EffectOf DEF OneStatement
        <5>2. m \in Runs("main", <<op>>, work.main)
          BY <4>1
        <5>3. \/ Effect(op, work.main) # Failed /\ m = Ran(Effect(op, work.main), 1)
              \/ \E st \in {op, Malformed} : m = Stopped(work.main, 0, st)
          BY <5>2, RunsOne
        <5>4. Effect(op, work.main) # Failed /\ m = Ran(Effect(op, work.main), 1)
          BY <1>7, <5>3, RanOrStopped
        <5>5. op.call # "add"
          BY <4>1 DEF OneStatement
        <5> QED
          BY <5>1, <5>4, <5>5, RanOrStopped
      <4>2. CASE cmd = <<Malformed>>
        <5>1. m \in Runs("main", <<Malformed>>, work.main)
          BY <4>2
        <5>2. m = Stopped(work.main, 0, Malformed)
          BY <5>1, RunsOne, EffectOf
        <5> QED
          BY <1>7, <5>2, RanOrStopped
      <4>3. CASE cmd = <<op, LastId>> /\ op.call = "add"
        <5>1. Effect(op, work.main) = Meaning(op, work.main)
          BY <4>3, EffectOf
        <5> DEFINE e == Effect(op, work.main)
        <5>2. Effect(LastId, e) = e
          BY EffectOf
        <5>3. m \in Runs("main", <<op, LastId>>, work.main)
          BY <4>3
        <5>4. \/ e # Failed /\ Effect(LastId, e) # Failed /\ m = Ran(Effect(LastId, e), 2)
              \/ \E st \in {op, LastId, Malformed} : m = Stopped(e, 1, st)
              \/ \E st \in {op, LastId, Malformed} : m = Stopped(work.main, 0, st)
          BY <5>3, RunsTwo
        <5> HIDE DEF e
        <5>5. e # Failed /\ m = Ran(e, 2)
          BY <1>7, <5>2, <5>4, RanOrStopped
        <5>6. e = Meaning(op, work.main)
          BY <5>1 DEF e
        <5>7. m.table = e /\ m.done = 2
          BY <5>5 DEF Ran
        <5> QED
          BY <5>5, <5>6, <5>7
      <4> QED
        BY <4>1, <4>2, <4>3 DEF Sends
    <3>3. answer' = [op |-> op, ok |-> TRUE]
      BY <1>2, <3>1, <3>2 DEF SqliteEnd
    <3>4. Table' = m.table /\ base'.main = IF sqlite /\ owner # None THEN base.main ELSE m.table
      BY <1>5, <3>1
    <3> QED
      BY <1>1, <1>4, <3>2, <3>3, <3>4, StoreDoes
  <2> QED
    BY <2>2, <2>3
<1> QED
  BY <1>6, <1>7

\* And one sent to MySQL, unless the end of add or an UPDATE fails: all is committed.
LEMMA MysqlStores ==
  ASSUME TypeOK, Plain, ~sqlite, ~undo, NEW op, NEW cmd, Sends(op, cmd, "whole"),
         NEW out \in OnMysql(cmd), Ends(out.work, out.undo), UNCHANGED <<engine, owner>>,
         answer' = [op |-> op, ok |-> out.ok /\ (op.call = "add" => out.ran = 2)],
         answer'.ok \/ op.call \notin {"add", "set_by", "set_col", "update"}
  PROVE  T!Next
<1>1. /\ undo = FALSE /\ work = base /\ Table = work.main
      /\ base \in Tables /\ work \in Tables
  BY DEF TypeOK, Table, Plain
<1>2. PICK r \in Runs("main", cmd, work.main) : MysqlEnd(out, r)
  BY OnMysqlIs
<1>3. PICK t \in HalfDone(r) : out.work = [work EXCEPT !.main = t]
  BY <1>2 DEF MysqlEnd
<1>4. answer' # NoAnswer /\ answer'.op = op
  BY AnswerIsOne
<1>5. Table' = t /\ base'.main = t
  <2>1. out.work.main = t /\ out.undo = FALSE
    BY <1>1, <1>2, <1>3 DEF Tables, MysqlEnd
  <2>2. base' = out.work /\ work' = out.work /\ undo' = FALSE
    BY <2>1 DEF Ends, EndWith
  <2> QED
    BY <2>1, <2>2 DEF Table
<1>6. ASSUME NEW st, "to" \notin DOMAIN st, r = Stopped(work.main, 0, st) PROVE T!Next
  <2>1. HalfDone(r) = {work.main}
    BY <1>6, HalfDoneIs
  <2>2. Table' = Table /\ base'.main = base.main
    BY <1>1, <1>3, <1>5, <2>1
  <2>3. out.ok = FALSE
    <3>1. r.stopped # <<>> /\ r.done = 0
      BY <1>6, RanOrStopped
    <3> QED
      BY <1>2, <3>1 DEF MysqlEnd
  <2>4. answer' = [op |-> op, ok |-> FALSE]
    BY <2>3
  <2> QED
    BY <1>4, <2>2, <2>4, StoreRefuses
<1>7. CASE cmd = <<op>> /\ op.call \in OneStatement
  <2>1. Effect(op, work.main) = Meaning(op, work.main)
    BY <1>7, EffectOf DEF OneStatement
  <2>2. r \in Runs("main", <<op>>, work.main)
    BY <1>7
  <2>3. \/ Effect(op, work.main) # Failed /\ r = Ran(Effect(op, work.main), 1)
        \/ \E st \in {op, Malformed} : r = Stopped(work.main, 0, st)
    BY <2>2, RunsOne
  <2>4. CASE Effect(op, work.main) # Failed /\ r = Ran(Effect(op, work.main), 1)
    <3>1. t = Meaning(op, work.main)
      <4>1. HalfDone(r) = {Effect(op, work.main)}
        BY <2>4, HalfDoneIs
      <4> QED
        BY <1>3, <2>1, <4>1
    <3>2. out.ok = TRUE
      <4>1. r.stopped = <<>>
        BY <2>4 DEF Ran
      <4> QED
        BY <1>2, <4>1 DEF MysqlEnd
    <3>3. op.call # "add"
      BY <1>7 DEF OneStatement
    <3>4. answer' = [op |-> op, ok |-> TRUE]
      BY <3>2, <3>3
    <3>5. base'.main = IF sqlite /\ owner # None THEN base.main ELSE t
      BY <1>5
    <3> QED
      BY <1>1, <1>4, <1>5, <2>1, <2>4, <3>1, <3>4, <3>5, StoreDoes
  <2>5. CASE r = Stopped(work.main, 0, Malformed)
    BY <1>6, <2>5, NoTo
  <2>6. CASE r = Stopped(work.main, 0, op)
    <3>1. out.ok = FALSE
      <4>1. r.stopped # <<>> /\ r.done = 0
        BY <2>6, RanOrStopped
      <4> QED
        BY <1>2, <4>1 DEF MysqlEnd
    <3>2. answer'.ok = FALSE
      BY <3>1, AnswerIsOne
    <3>3. op.call \notin {"set_by", "set_col", "update"}
      BY <3>2
    <3>4. "to" \notin DOMAIN op
      BY <1>7, <3>3, OneTo
    <3> QED
      BY <1>6, <2>6, <3>4
  <2> QED
    BY <2>3, <2>4, <2>5, <2>6
<1>8. CASE cmd = <<Malformed>>
  <2>1. r \in Runs("main", <<Malformed>>, work.main)
    BY <1>8
  <2>2. r = Stopped(work.main, 0, Malformed)
    BY <2>1, RunsOne, EffectOf
  <2> QED
    BY <1>6, <2>2, NoTo
<1>9. CASE cmd = <<op, LastId>> /\ op.call = "add"
  <2> DEFINE e == Effect(op, work.main)
  <2>1. Effect(LastId, e) = Failed
    BY EffectOf
  <2>2. r \in Runs("main", <<op, LastId>>, work.main)
    BY <1>9
  <2>3. \/ e # Failed /\ Effect(LastId, e) # Failed /\ r = Ran(Effect(LastId, e), 2)
        \/ \E st \in {op, LastId, Malformed} : r = Stopped(e, 1, st)
        \/ \E st \in {op, LastId, Malformed} : r = Stopped(work.main, 0, st)
    BY <2>2, RunsTwo
  <2> HIDE DEF e
  <2>4. r.done # 2
    <3>1. \A x, n, st : Stopped(x, n, st).done = n
      BY DEF Stopped
    <3> QED
      BY <2>1, <2>3, <3>1
  <2>5. answer'.ok = FALSE
    <3>1. out.ran # 2
      BY <1>2, <2>4 DEF MysqlEnd
    <3> QED
      BY <1>9, <3>1, AnswerIsOne
  <2> QED
    BY <1>9, <2>5
<1> QED
  BY <1>7, <1>8, <1>9 DEF Sends

\* Every step but those of Excused is one of the store: lock() begins, unlock() commits
\* or rolls back, rollback() and a restart roll back.
LEMMA StoreStep ==
  ASSUME TypeOK, Plain, Next, ~Excused
  PROVE  T!Next
<1>1. undo \in BOOLEAN /\ base \in Tables /\ work \in Tables /\ None \notin Thread
  BY ApiAssumption DEF TypeOK
<1>2. ASSUME NEW p \in Thread, Lock(p) PROVE T!Next
  <2>1. answer' = NoAnswer /\ Table' = Table /\ base'.main = base.main
    BY <1>2 DEF Lock, Table
  <2>2. CASE sqlite
    <3>1. ~(sqlite /\ owner # None) /\ (sqlite /\ owner # None)'
      BY <1>1, <1>2, <2>2 DEF Lock, sqlite
    <3> QED
      BY <2>1, <3>1 DEF T!Next, T!Begin, Table
  <2>3. CASE ~sqlite
    <3>1. (sqlite /\ owner # None)' <=> (sqlite /\ owner # None)
      BY <1>2, <2>3 DEF Lock, sqlite
    <3> QED
      BY <2>1, <3>1 DEF T!Next, Table
  <2> QED
    BY <2>2, <2>3
<1>3. ASSUME NEW p \in Thread, Unlock(p) PROVE T!Next
  BY <1>1, <1>3 DEF Unlock, EndWith, Plain, sqlite, T!Next, T!RollBack, T!Commit
<1>4. ASSUME Die PROVE T!Next
  BY <1>1, <1>4 DEF Die, Plain, sqlite, T!Next, T!RollBack, Tables
<1>5. ASSUME NEW p \in Thread, Rollback(p) PROVE T!Next
  BY <1>1, <1>4, <1>5 DEF Rollback, sqlite, T!Next, T!RollBack
<1>6. ASSUME Sent PROVE T!Next
  <2>1. PICK p \in Thread, how \in {"whole", "cut"} : \E op, cmd :
          Sends(op, cmd, how) /\ Modify(p, op, cmd, how)
    BY <1>6 DEF Sent
  <2>2. PICK op, cmd : Sends(op, cmd, how) /\ Modify(p, op, cmd, how)
    BY <2>1
  <2>3. UNCHANGED <<engine, owner>> /\ way' = how
    BY <2>2, ModifyIs
  <2>4. PICK out \in Outcomes(cmd) :
          /\ answer' = [op |-> op, ok |-> out.ok /\ (op.call = "add" => out.ran = 2)]
          /\ torn' = (torn \/ (~out.ok /\ out.ran \in 1 .. Len(cmd) - 1))
          /\ Ends(out.work, out.undo)
    BY <2>2, ModifyIs
  <2>5. answer' # NoAnswer /\ answer'.op = op
    BY <2>4, AnswerIsOne
  <2>6. ~undo /\ Sends(op, cmd, "whole")
    BY <2>2, <2>3, <2>5 DEF Excused
  <2>7. CASE sqlite
    <3>1. ASSUME ~out.ok PROVE out.ran \notin 1 .. Len(cmd) - 1
      <4>1. CASE op.call = "add"
        <5>1. ~answer'.ok
          BY <2>4, <3>1, AnswerIsOne
        <5>2. ~torn'
          BY <2>5, <4>1, <5>1 DEF Excused
        <5> QED
          BY <2>4, <3>1, <5>2
      <4>2. CASE \E s : cmd = <<s>>
        BY <4>2
      <4> QED
        BY <2>2, <4>1, <4>2, OneOrAdd
    <3> QED
      BY <2>3, <2>4, <2>6, <2>7, <3>1, SqliteStores DEF Outcomes
  <2>8. CASE ~sqlite
    <3>1. answer'.ok \/ op.call \notin {"add", "set_by", "set_col", "update"}
      BY <2>5, <2>8 DEF Excused
    <3> QED
      BY <2>3, <2>4, <2>6, <2>8, <3>1, MysqlStores DEF Outcomes
  <2> QED
    BY <2>7, <2>8
<1> QED
  BY <1>2, <1>3, <1>4, <1>5, <1>6, Calls

-----------------------------------------------------------------------------
(* The theorems *)

\* The inductive invariant: CopiesAgree needs Plain, since without a transaction the
\* next command starts from the committed copies.
IInv == TypeOK /\ Plain /\ CopiesAgree

\* Every reachable state satisfies the inductive invariant.
THEOREM Inductive == Spec => []IInv
<1>1. Init => IInv
  <2> SUFFICES ASSUME Init PROVE IInv
    OBVIOUS
  <2>1. base = [main |-> NoRows, backup |-> NoRows] /\ work = base /\ undo = FALSE
    BY DEF Init
  <2>2. base \in Tables /\ work \in Tables
    BY <2>1, NoRowsIsTable DEF Tables
  <2>3. base.main = NoRows /\ base.backup = NoRows /\ work.main = NoRows /\ work.backup = NoRows
    BY <2>1
  <2>4. TypeOK
    BY <2>1, <2>2, <2>3 DEF Init, TypeOK
  <2>5. Plain /\ CopiesAgree
    BY <2>1, <2>3 DEF Plain, CopiesAgree
  <2> QED
    BY <2>4, <2>5 DEF IInv
<1>2. IInv /\ [Next]_vars => IInv'
  BY TypeStep, CopiesStep DEF IInv
<1> QED
  BY <1>1, <1>2, PTL DEF Spec

\* Every variable keeps its type, whatever the calls of table.c and their failures; on
\* MySQL there is no second copy and no open transaction.
THEOREM TypeCorrect == Spec => []TypeOK
<1>1. IInv => TypeOK
  BY DEF IInv
<1> QED
  BY <1>1, Inductive, PTL

\* modify_on_table (sqlite3.c, backup.c) keeps main and backup equal after every
\* transaction, and inside one that is not about to be taken back, unless an add whose
\* SELECT failed kept its row out of the backup.
THEOREM CopiesStayEqual == Spec => []CopiesAgree
<1>1. IInv => CopiesAgree
  BY DEF IInv
<1> QED
  BY <1>1, Inductive, PTL

\* A command of table.c that the buffer of DB_MAX_CMD_LEN bytes has cut never takes
\* a row away: what is left of it is no DELETE, and no UPDATE that sets an id.
THEOREM CutsDeleteNothing == Spec => CutDeletesNothing
<1>1. IInv /\ [Next]_vars =>
        [way' = "cut" => DOMAIN work.main.rows \subseteq DOMAIN work'.main.rows]_vars
  BY CutStep DEF IInv
<1> QED
  BY <1>1, Inductive, PTL DEF Spec, CutDeletesNothing

\* The calls of table.c keep what table.h promises (RowStore), for any columns, values,
\* threads and faults: each does all of what it says and answers success, or nothing
\* and answers failure, but for the steps that Excused names.
THEOREM ImplementsStore == Spec => ImplementsRowStore
<1>1. Init => T!Init
  BY DEF Init, T!Init
<1>2. IInv /\ [Next]_vars => [Excused \/ T!Next]_vars
  BY StoreStep DEF IInv
<1> QED
  BY <1>1, <1>2, Inductive, PTL DEF Spec, ImplementsRowStore

-----------------------------------------------------------------------------
(* Queries *)

\* FlattenSeq puts its sequences one behind the other.
LEMMA FlattenIs ==
  ASSUME NEW s, Len(s) \in Nat \ {0}, NEW X, NEW P \in [1 .. Len(s) -> X],
         P[1] = s[1], \A k \in 2 .. Len(s) : P[k] = P[k - 1] \o s[k]
  PROVE  FlattenSeq(s) = P[Len(s)]
<1> DEFINE m == Len(s)
           F(f) == [i \in 1 .. Len(s) |-> IF i = 1 THEN s[i] ELSE f[i - 1] \o s[i]]
<1>1. FlattenSeq(s) = (CHOOSE f : f = F(f))[m]
  BY DEF FlattenSeq
<1>2. P = F(P)
  <2>1. \A k \in 1 .. m : P[k] = IF k = 1 THEN s[k] ELSE P[k - 1] \o s[k]
    <3>1. \A k \in 1 .. m : k = 1 \/ k \in 2 .. m
      OBVIOUS
    <3> QED BY <3>1
  <2>2. P = [k \in 1 .. m |-> P[k]]
    OBVIOUS
  <2> QED BY <2>1, <2>2
<1>3. ASSUME NEW f, f = F(f) PROVE f = P
  <2> DEFINE Bad == {k \in 1 .. m : f[k] # P[k]}
             Less == {ss \in Nat \X Nat : ss[1] < ss[2]}
  <2>1. ASSUME Bad # {} PROVE FALSE
    <3>1. IsWellFoundedOn(Less, Nat)
      BY NatLessThanWellFounded DEF OpToRel
    <3>2. PICK k \in Bad : \A j \in Bad : ~ (<<j, k>> \in Less)
      <4>1. Bad \subseteq Nat /\ Bad # {}
        BY <2>1
      <4> HIDE DEF Bad, Less
      <4> QED BY <3>1, <4>1, WFMin
    <3>3. \A j \in Bad : ~ (j < k)
      <4>1. \A j \in Bad : j < k => <<j, k>> \in Less
        OBVIOUS
      <4> QED BY <3>2, <4>1
    <3>4. k # 1
      <4>1. f[1] = s[1]
        BY <1>3
      <4> QED BY <4>1
    <3>5. k - 1 \in 1 .. m /\ f[k - 1] = P[k - 1]
      BY <3>3, <3>4
    <3>6. f[k] = f[k - 1] \o s[k] /\ P[k] = P[k - 1] \o s[k]
      <4>1. k \in 1 .. m /\ k \in 2 .. m
        BY <3>4
      <4>2. f[k] = F(f)[k]
        BY <1>3
      <4> QED BY <3>4, <4>1, <4>2
    <3> QED BY <3>5, <3>6
  <2>2. \A k \in 1 .. m : f[k] = P[k]
    BY <2>1
  <2>3. f = [k \in 1 .. m |-> f[k]]
    BY <1>3
  <2> HIDE DEF Bad
  <2> QED BY <2>2, <2>3
<1> HIDE DEF F
<1> QED
  BY <1>1, <1>2, <1>3

\* The lesser of two.
LEMMA LeastOfTwo ==
  ASSUME NEW a \in Nat, NEW b \in Nat
  PROVE  Min({a, b}) = IF a <= b THEN a ELSE b
BY DEF Min

\* What find_all gives is one entry for each row that matches.
LEMMA FindAllIs ==
  ASSUME TypeOK, NEW w
  PROVE  LET all == db_find_all(work.main, w) IN
         /\ Matching(work.main, w) \subseteq 1 .. MaxId
         /\ Len(all) = Cardinality(Matching(work.main, w)) /\ Len(all) \in 0 .. MaxId
         /\ \E S : all \in Seq(S)
<1> DEFINE ids == Matching(work.main, w)
           all == db_find_all(work.main, w)
<1>1. ids \subseteq 1 .. MaxId
  <2>1. work.main \in TableOf(MaxId)
    BY DEF TypeOK, Tables
  <2>2. DOMAIN work.main.rows \in SUBSET (1 .. MaxId)
    BY <2>1 DEF TableOf
  <2> QED BY <2>2 DEF Matching
<1>2. Cardinality(ids) \in Nat /\ Cardinality(ids) <= MaxId
  <2>1. IsFiniteSet(1 .. MaxId) /\ Cardinality(1 .. MaxId) = MaxId
    BY FS_Interval, ApiAssumption
  <2> HIDE DEF ids
  <2>2. IsFiniteSet(ids) /\ Cardinality(ids) <= Cardinality(1 .. MaxId)
    BY <1>1, <2>1, FS_Subset
  <2> QED BY <2>1, <2>2, FS_CardinalityType
<1> DEFINE e(k) == CHOOSE i \in ids : Cardinality({j \in ids : j <= i}) = k
           S == {e(k) : k \in 1 .. Cardinality(ids)}
<1>3. all = [k \in 1 .. Cardinality(ids) |-> e(k)]
  BY DEF db_find_all
<1> HIDE DEF all, e, ids
<1>4. all \in Seq(S) /\ Len(all) = Cardinality(ids)
  BY <1>2, <1>3
<1> QED
  BY <1>1, <1>2, <1>4, ApiAssumption DEF all, ids

\* The entries after the first m and up to the k-th, as far as there are.
Between(s, m, k) == SubSeq(s, Min({Len(s), m}) + 1, Min({Len(s), k}))

\* A page is the rows between two limits ...
LEMMA PageIs ==
  ASSUME NEW t, NEW w, Len(db_find_all(t, w)) \in 0 .. MaxId,
         NEW limit \in 1 .. MaxId \cup {U64Max}, NEW o \in Nat
  PROVE  db_query(t, w, o, limit) = Between(db_find_all(t, w), o, o + limit)
<1> DEFINE all == db_find_all(t, w)
           n == Len(all)
           L == Limit(limit)
<1>1. n \in Nat /\ n <= MaxId
  BY ApiAssumption
<1>2. limit \in Nat /\ limit > 0 /\ L \in Nat /\ (L = limit \/ (L >= n /\ limit >= n))
  BY <1>1, ApiAssumption DEF Limit
<1>3. Accepted(L)
  BY ApiAssumption DEF Accepted, Limit
<1>4. ~Accepted(o) => o > n
  BY <1>1, ApiAssumption DEF Accepted
<1> HIDE DEF n, L, all
<1>5. /\ Min({n, o}) = (IF n <= o THEN n ELSE o)
      /\ Min({n, o + limit}) = (IF n <= o + limit THEN n ELSE o + limit)
  BY <1>1, <1>2, LeastOfTwo
<1>6. Min({n, o + L}) = (IF n <= o + L THEN n ELSE o + L)
  BY <1>1, <1>2, LeastOfTwo
<1>7. CASE o >= n
  <2>1. SubSeq(all, o + 1, Min({n, o + L})) = <<>>
    BY <1>1, <1>2, <1>6, <1>7, SubSeqEmpty
  <2>2. SubSeq(all, Min({n, o}) + 1, Min({n, o + limit})) = <<>>
    BY <1>1, <1>2, <1>5, <1>7, SubSeqEmpty
  <2> QED
    BY <1>3, <2>1, <2>2 DEF db_query, Slice, Between, n, L, all
<1>8. CASE o < n
  <2>1. Min({n, o}) = o /\ Min({n, o + L}) = Min({n, o + limit})
    BY <1>1, <1>2, <1>5, <1>6, <1>8
  <2>2. Accepted(o)
    BY <1>1, <1>4, <1>8
  <2> QED
    BY <1>3, <2>1, <2>2 DEF db_query, Slice, Between, n, L, all
<1>9. o >= n \/ o < n
  BY <1>1
<1> QED
  BY <1>7, <1>8, <1>9, Zenon

\* ... so the pages up to the k-th are the rows up to the k-th limit.
LEMMA PagesAre ==
  ASSUME NEW t, NEW w, NEW S, db_find_all(t, w) \in Seq(S), Len(db_find_all(t, w)) <= MaxId,
         NEW limit \in 1 .. MaxId \cup {U64Max}
  PROVE  FlattenSeq([k \in 1 .. MaxId |-> db_query(t, w, (k - 1) * limit, limit)])
           = db_find_all(t, w)
<1>1. Len(db_find_all(t, w)) \in Nat /\ MaxId \in Nat /\ limit \in Nat /\ limit > 0
  BY LenProperties, ApiAssumption
<1>2. ASSUME NEW o \in Nat
      PROVE  db_query(t, w, o, limit) = Between(db_find_all(t, w), o, o + limit)
  <2>1. Len(db_find_all(t, w)) \in 0 .. MaxId
    BY <1>1
  <2> QED BY <2>1, PageIs
<1> DEFINE all == db_find_all(t, w)
<1>3. all \in Seq(S)
  OBVIOUS
<1> DEFINE n == Len(all)
           q(k) == db_query(t, w, (k - 1) * limit, limit)
           pages == [k \in 1 .. MaxId |-> q(k)]
           end(k) == Min({n, k * limit})
           P == [k \in 1 .. MaxId |-> SubSeq(all, 1, end(k))]
<1>4. n \in Nat /\ n <= MaxId
  BY <1>1
<1>5. CASE MaxId = 0
  <2>1. Len(pages) = 0 /\ pages = <<>> /\ all = <<>>
    BY <1>1, <1>4, <1>5, EmptySeq
  <2> HIDE DEF pages
  <2> QED BY <2>1 DEF FlattenSeq, pages
<1>6. CASE MaxId # 0
  <2>1. ASSUME NEW k \in Nat
        PROVE  /\ k * limit \in Nat /\ end(k) \in 0 .. n
               /\ end(k) = (IF n <= k * limit THEN n ELSE k * limit)
    <3>1. k * limit \in Nat
      BY <1>1, <1>4
    <3> QED BY <1>1, <1>4, <3>1, LeastOfTwo
  <2>2. ASSUME NEW k \in 1 .. MaxId
        PROVE  q(k) = SubSeq(all, end(k - 1) + 1, end(k)) /\ end(k - 1) <= end(k)
    <3> DEFINE a == (k - 1) * limit
    <3>1. a \in Nat /\ a + limit = k * limit /\ k \in Nat /\ k - 1 \in Nat
      BY <1>1, <1>4
    <3>2. /\ end(k - 1) = (IF n <= a THEN n ELSE a)
          /\ end(k) = (IF n <= a + limit THEN n ELSE a + limit)
      BY <2>1, <3>1
    <3>3. q(k) = SubSeq(all, Min({n, a}) + 1, Min({n, a + limit}))
      BY <1>2, <3>1 DEF Between
    <3>4. q(k) = SubSeq(all, end(k - 1) + 1, end(k))
      BY <3>1, <3>3
    <3> HIDE DEF a, end, n, q
    <3>5. end(k - 1) <= end(k)
      BY <1>1, <1>4, <3>1, <3>2
    <3> QED BY <3>4, <3>5
  <2>3. end(0) = 0 /\ end(MaxId) = n
    <3> DEFINE a == MaxId * limit
    <3>1. 0 * limit = 0 /\ a >= MaxId /\ a \in Nat
      BY <1>1, <1>4
    <3>2. end(0) = (IF n <= 0 THEN n ELSE 0) /\ end(MaxId) = (IF n <= a THEN n ELSE a)
      BY <1>1, <1>4, <2>1, <3>1
    <3> HIDE DEF a, end, n
    <3> QED BY <1>1, <1>4, <3>1, <3>2
  <2>4. Len(pages) = MaxId /\ \A k \in 1 .. MaxId : pages[k] = q(k)
    BY <1>1, <1>4
  <2> HIDE DEF n, q, pages, end, all
  <2>5. P[1] = pages[1]
    <3>1. 1 \in 1 .. MaxId /\ q(1) = SubSeq(all, end(0) + 1, end(1))
      BY <1>1, <1>4, <1>6, <2>2
    <3> QED BY <2>3, <2>4, <3>1
  <2>6. ASSUME NEW k \in 2 .. MaxId PROVE P[k] = P[k - 1] \o pages[k]
    <3>1. k \in 1 .. MaxId /\ k - 1 \in 1 .. MaxId /\ k \in Nat /\ k - 1 \in Nat
      BY <1>1, <1>4
    <3>2. end(k - 1) \in 0 .. n /\ end(k) \in 0 .. n
      BY <2>1, <3>1
    <3>3. q(k) = SubSeq(all, end(k - 1) + 1, end(k)) /\ end(k - 1) <= end(k)
      BY <2>2, <3>1
    <3>4. SubSeq(all, 1, end(k - 1)) \o SubSeq(all, end(k - 1) + 1, end(k)) = SubSeq(all, 1, end(k))
      <4>1. /\ 1 \in 1 .. n + 1 /\ end(k - 1) \in 1 - 1 .. n
            /\ end(k) \in end(k - 1) .. n
        BY <1>1, <1>4, <3>2, <3>3
      <4> QED BY <1>3, <4>1, ConcatAdjacentSubSeq DEF n
    <3> QED BY <2>4, <3>1, <3>3, <3>4
  <2>7. FlattenSeq(pages) = P[MaxId]
    <3> DEFINE X == {P[k] : k \in 1 .. MaxId}
    <3>1. P \in [1 .. MaxId -> X]
      OBVIOUS
    <3>2. MaxId \in Nat \ {0}
      BY <1>1, <1>4, <1>6
    <3>3. Len(pages) = MaxId /\ \A k \in 2 .. MaxId : P[k] = P[k - 1] \o pages[k]
      BY <2>4, <2>6
    <3> HIDE DEF P, X
    <3> QED BY <2>5, <3>1, <3>2, <3>3, FlattenIs
  <2>8. P[MaxId] = all
    BY <1>1, <1>3, <1>4, <1>6, <2>3, SubSeqFull DEF n
  <2> QED BY <2>4, <2>7, <2>8 DEF pages, q, all
<1> QED
  BY <1>5, <1>6

\* The pages of a query, in every state in which the tables are tables.
LEMMA PagesOfTable == TypeOK => PagesAreTheRows
<1> SUFFICES ASSUME TypeOK, NEW w \in Named \cup {Everywhere}
             PROVE  LET all == db_find_all(work.main, w) IN
                    /\ db_count_by(work.main, w) = Len(all)
                    /\ Len(db_find_first(work.main, w)) = Min({1, Len(all)})
                    /\ \A limit \in 1 .. MaxId \cup {U64Max} :
                         FlattenSeq([k \in 1 .. MaxId |->
                                      db_query(work.main, w, (k - 1) * limit, limit)]) = all
  BY DEF PagesAreTheRows
<1> DEFINE all == db_find_all(work.main, w)
<1>1. PICK S : all \in Seq(S)
  BY FindAllIs
<1>2. db_count_by(work.main, w) = Len(all) /\ Len(all) \in Nat /\ Len(all) <= MaxId
  BY FindAllIs, ApiAssumption DEF db_count_by
<1> HIDE DEF all
<1>3. Len(db_find_first(work.main, w)) = Min({1, Len(all)})
  <2>1. db_find_first(work.main, w) = SubSeq(all, 1, Min({Len(all), 1}))
    BY DEF db_find_first, Slice, all
  <2>2. {Len(all), 1} = {1, Len(all)} /\ Min({1, Len(all)}) = IF 1 <= Len(all) THEN 1 ELSE Len(all)
    BY <1>2, LeastOfTwo
  <2>3. Min({1, Len(all)}) \in 0 .. Len(all)
    BY <1>2, <2>2
  <2> DEFINE m == Min({1, Len(all)})
  <2>4. m \in Nat /\ m <= Len(all)
    BY <1>2, <2>3
  <2> HIDE DEF m
  <2>5. Len(SubSeq(all, 1, m)) = m
    BY <1>1, <1>2, <2>4
  <2> QED BY <2>1, <2>2, <2>5 DEF m
<1>4. ASSUME NEW limit \in 1 .. MaxId \cup {U64Max}
      PROVE  FlattenSeq([k \in 1 .. MaxId |->
                          db_query(work.main, w, (k - 1) * limit, limit)]) = all
  BY <1>1, <1>2, PagesAre DEF all
<1> QED
  BY <1>2, <1>3, <1>4 DEF all

\* Page by page a query gives the rows that find_all gives, for any number of rows
\* and any limit the API takes.
THEOREM PagesMakeTheRows == Spec => []PagesAreTheRows
<1>1. Spec => []TypeOK
  BY TypeCorrect
<1> QED
  BY <1>1, PagesOfTable, PTL
==============================================================================
