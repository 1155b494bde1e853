--------------------------- MODULE TableInit_proofs ---------------------------
(* For any versions, columns, rows and processes: what init_tab leaves of a    *)
(* table in main and backup, when it is interrupted and when it is not.        *)
EXTENDS TableInit, TLAPS

-----------------------------------------------------------------------------
(* The inductive invariant. *)

\* Two databases whose tables have the same columns, or neither has a table.
Alike(d, e) ==
  /\ d.cur = None <=> e.cur = None
  /\ d.cur # None => d.cur.cols = e.cur.cols

\* The parts of the inductive invariant.  Where a process has the lock:
Inside == { "inspect", "backup_data", "create_table", "create_and_restore", "restore_data",
            "unlock", "give_up" }

\* Who is in init_tab has the lock; between transactions nothing is pending.
Ownership ==
  /\ \A p \in Proc : pc[p] \in Inside <=> owner = p
  /\ owner = None => work = base /\ undo = FALSE

\* The rows of main and backup may differ after a command that stopped half-way, the
\* columns never do: a statement that would fail by itself in the backup would fail in
\* main.
Shape ==
  /\ Alike(base["main"], base["backup"])
  /\ undo \/ Alike(work["main"], work["backup"])

\* The copies are equal, or the transaction will be rolled back, or one was torn.
Copies ==
  ~torn => /\ base["main"] = base["backup"]
           /\ undo \/ work["main"] = work["backup"]

\* The table that the transaction has found.
Was == base["main"].cur

\* What init_tab of p has made so far of the databases it found, when nothing hit it.
Stage(p) ==
  /\ pc[p] = "inspect" => work = base
  /\ pc[p] = "create_table" => work = base /\ Was = None
  /\ pc[p] = "backup_data" =>
       /\ work = base /\ Was # None
       /\ known[p] = Columns(Was.cols) /\ Was.cols # ColsOf[ver[p]]
  /\ pc[p] = "create_and_restore" =>
       /\ Was # None /\ known[p] = Columns(Was.cols) /\ Was.cols # ColsOf[ver[p]]
       /\ \A f \in File : work[f] = [cur |-> None, old |-> base[f].cur]
  /\ pc[p] = "restore_data" =>
       /\ Was # None /\ known[p] = Columns(Was.cols) /\ Was.cols # ColsOf[ver[p]]
       /\ \A f \in File :
            work[f] = [cur |-> [cols |-> ColsOf[ver[p]], rows |-> NoRows], old |-> base[f].cur]
  /\ pc[p] = "unlock" =>
       /\ work["main"] = Initialized(base["main"], ColsOf[ver[p]])
       /\ \A f \in File : base[f].old = None => work[f].old = None
  /\ pc[p] # "give_up"

Stages == \A p \in Proc : owner = p /\ ~hit[p] => undo = FALSE /\ Stage(p)

\* Every value is in its own column.
TrueValues(t) ==
  \A id \in DOMAIN t.rows : \A c \in Columns(t.cols) : t.rows[id][c] \in {c, None}

\* As long as nothing failed, and no two versions ran at once.
Calm ==
  faults = 0 =>
    /\ ~torn
    /\ \A p \in Proc : ~hit[p] /\ pc[p] # "failed"
    /\ \A f \in File : base[f].old = None
    /\ \A p, q \in Proc : pc[p] # "down" /\ pc[q] # "down" => ver[p] = ver[q]
    /\ \A p \in Proc : pc[p] = "up" => Was # None /\ Was.cols = ColsOf[ver[p]]
    /\ Was # None => TrueValues(Was)

\* The inductive invariant.
IInv == TypeOK /\ Ownership /\ Shape /\ Copies /\ Stages /\ Calm

-----------------------------------------------------------------------------
(* Commands of one and of two statements. *)

\* What sqlite3_exec has after each statement of a command of one ...
LEMMA PrefixesOne ==
  ASSUME NEW db, NEW s, db # Failed
  PROVE  /\ Prefixes(db, <<s>>) = [k \in 0 .. 1 |-> IF k = 0 THEN db ELSE Exec(db, s)]
         /\ Len(<<s>>) = 1
<1> DEFINE g == [k \in 0 .. 1 |-> IF k = 0 THEN db ELSE Exec(db, s)]
           F(f) == [k \in 0 .. Len(<<s>>) |->
                     IF k = 0 THEN db
                     ELSE IF f[k - 1] = Failed THEN Failed ELSE Exec(f[k - 1], <<s>>[k])]
<1>1. Len(<<s>>) = 1 /\ <<s>>[1] = s
  OBVIOUS
<1>2. g = F(g)
  BY <1>1
<1>3. \A f : f = F(f) => f = g
  BY <1>1
<1>4. Prefixes(db, <<s>>) = CHOOSE f : f = F(f)
  BY DEF Prefixes
<1> HIDE DEF F, g
<1>5. Prefixes(db, <<s>>) = g
  BY <1>2, <1>3, <1>4
<1> QED
  BY <1>1, <1>5 DEF g

\* The database after two statements.
Then(db, s, u) == IF Exec(db, s) = Failed THEN Failed ELSE Exec(Exec(db, s), u)

\* ... and of two.
LEMMA PrefixesTwo ==
  ASSUME NEW db, NEW s, NEW u, db # Failed
  PROVE  /\ Prefixes(db, <<s, u>>) =
              [k \in 0 .. 2 |-> IF k = 0 THEN db
                                ELSE IF k = 1 THEN Exec(db, s) ELSE Then(db, s, u)]
         /\ Len(<<s, u>>) = 2
<1> DEFINE g == [k \in 0 .. 2 |-> IF k = 0 THEN db
                                  ELSE IF k = 1 THEN Exec(db, s) ELSE Then(db, s, u)]
           F(f) == [k \in 0 .. Len(<<s, u>>) |->
                     IF k = 0 THEN db
                     ELSE IF f[k - 1] = Failed THEN Failed ELSE Exec(f[k - 1], <<s, u>>[k])]
<1>1. Len(<<s, u>>) = 2 /\ <<s, u>>[1] = s /\ <<s, u>>[2] = u
  OBVIOUS
<1>2. g = F(g)
  BY <1>1 DEF Then
<1>3. \A f : f = F(f) => f = g
  <2> SUFFICES ASSUME NEW f, f = F(f) PROVE f = g
    OBVIOUS
  <2>1. f[0] = db
    BY <1>1
  <2>2. f[1] = Exec(db, s)
    BY <1>1, <2>1
  <2>3. f[2] = Then(db, s, u)
    BY <1>1, <2>2 DEF Then
  <2>4. f = [k \in 0 .. 2 |-> f[k]]
    BY <1>1
  <2>5. \A k \in 0 .. 2 : f[k] = g[k]
    BY <2>1, <2>2, <2>3
  <2> QED
    BY <2>4, <2>5
<1>4. Prefixes(db, <<s, u>>) = CHOOSE f : f = F(f)
  BY DEF Prefixes
<1> HIDE DEF F, g
<1>5. Prefixes(db, <<s, u>>) = g
  BY <1>2, <1>3, <1>4
<1> QED
  BY <1>1, <1>5 DEF g

\* A failure that is made, and one that has its reason in the database.
Fails(p, reason) ==
  \/ /\ faults < MaxFaults /\ faults' = faults + 1
     /\ hit' = [hit EXCEPT ![p] = TRUE]
  \/ reason /\ UNCHANGED <<faults, hit>>

\* How modify() ends: main and the backup get m and b, main stops at m, or the
\* backup stops at b.
Done(m, b) ==
  /\ m # Failed /\ b # Failed
  /\ work' = [main |-> m, backup |-> b]
  /\ UNCHANGED <<undo, torn, faults, hit>>

MainStops(p, m, next) ==
  /\ m # Failed
  /\ work' = [main |-> m, backup |-> work["backup"]]
  /\ UNCHANGED undo
  /\ Fails(p, next = Failed)

BackupStops(p, m, b, next) ==
  /\ m # Failed /\ b # Failed
  /\ work' = [main |-> m, backup |-> b]
  /\ undo' = TRUE /\ UNCHANGED torn
  /\ Fails(p, next = Failed)

\* modify() with a command of one statement.
LEMMA ModifyOne ==
  ASSUME TypeOK, NEW p \in Proc, NEW s, NEW ok \in BOOLEAN, Modify(p, <<s>>, ok),
         \A f \in File : work[f] # Failed
  PROVE  \/ ok /\ Done(Exec(work["main"], s), Exec(work["backup"], s))
         \/ ~ok /\ MainStops(p, work["main"], Exec(work["main"], s)) /\ UNCHANGED torn
         \/ ~ok /\ BackupStops(p, Exec(work["main"], s), work["backup"],
                               Exec(work["backup"], s))
<1> DEFINE m == Exec(work["main"], s)
           b == Exec(work["backup"], s)
           M == [k \in 0 .. 1 |-> IF k = 0 THEN work["main"] ELSE m]
           B == [k \in 0 .. 1 |-> IF k = 0 THEN work["backup"] ELSE b]
<1>1. /\ Prefixes(work["main"], <<s>>) = M
      /\ Prefixes(work["backup"], <<s>>) = B
      /\ Len(<<s>>) = 1
  BY PrefixesOne DEF File
<1>2. PICK k, j \in 0 .. 1, n \in 0 .. 1 :
        /\ work' = [main |-> M[k], backup |-> B[j]]
        /\ ok <=> k = 1 /\ j = 1
        /\ \/ /\ k < 1 /\ j = 0
              /\ StopsAfter(M, k, n) /\ Fault("main", n)
              /\ torn' = (torn \/ k > 0)
              /\ UNCHANGED undo
           \/ /\ k = 1 /\ M[k] # Failed /\ j < 1
              /\ StopsAfter(B, j, n) /\ Fault("backup", n)
              /\ SetUndo
              /\ UNCHANGED torn
           \/ /\ k = 1 /\ j = 1 /\ n = 0
              /\ M[k] # Failed /\ B[j] # Failed
              /\ UNCHANGED <<undo, torn, faults>>
        /\ hit' = IF n = 1 THEN [hit EXCEPT ![p] = TRUE] ELSE hit
  BY <1>1 DEF Modify
<1>3. /\ M[0] = work["main"] /\ M[1] = m /\ B[0] = work["backup"] /\ B[1] = b
      /\ DOMAIN M = 0 .. 1 /\ DOMAIN B = 0 .. 1
  OBVIOUS
<1>4. faults \in Nat /\ torn \in BOOLEAN
  BY DEF TypeOK
<1> HIDE DEF m, b, M, B
<1>5. \A kind, next : Fault(kind, n) /\ (n = 0 => next = Failed) => Fails(p, next = Failed)
  BY <1>2, <1>4 DEF Fails, Fault
<1>6. CASE k = 1 /\ j = 1
  <2>1. ok /\ Done(m, b)
    BY <1>2, <1>3, <1>6 DEF Done
  <2> QED
    BY <2>1 DEF m, b
<1>7. CASE k = 0
  <2>1. StopsAfter(M, 0, n) /\ Fault("main", n) /\ j = 0 /\ ~ok /\ UNCHANGED <<undo, torn>>
    BY <1>2, <1>4, <1>7
  <2>2. Fails(p, m = Failed)
    BY <1>3, <1>5, <2>1 DEF StopsAfter
  <2>3. ~ok /\ MainStops(p, work["main"], m) /\ UNCHANGED torn
    BY <1>2, <1>3, <1>7, <2>1, <2>2 DEF MainStops, File
  <2> QED
    BY <2>3 DEF m
<1>8. CASE k = 1 /\ j = 0
  <2>1. M[1] # Failed /\ StopsAfter(B, 0, n) /\ Fault("backup", n) /\ SetUndo /\ UNCHANGED torn
    BY <1>2, <1>8
  <2>2. Fails(p, b = Failed)
    BY <1>3, <1>5, <2>1 DEF StopsAfter
  <2>3. ~ok /\ BackupStops(p, m, work["backup"], b)
    BY <1>2, <1>3, <1>8, <2>1, <2>2 DEF BackupStops, SetUndo, File
  <2> QED
    BY <2>3 DEF m, b
<1>9. (k = 1 /\ j = 1) \/ k = 0 \/ (k = 1 /\ j = 0)
  OBVIOUS
<1> QED
  BY <1>6, <1>7, <1>8, <1>9

\* ... and of two.
LEMMA ModifyTwo ==
  ASSUME TypeOK, NEW p \in Proc, NEW s, NEW u, NEW ok \in BOOLEAN, Modify(p, <<s, u>>, ok),
         \A f \in File : work[f] # Failed
  PROVE  LET m == work["main"]
             b == work["backup"] IN
         \/ ok /\ Done(Then(m, s, u), Then(b, s, u))
         \/ ~ok /\ MainStops(p, m, Exec(m, s)) /\ UNCHANGED torn
         \/ ~ok /\ MainStops(p, Exec(m, s), Then(m, s, u)) /\ torn' = TRUE
         \/ ~ok /\ BackupStops(p, Then(m, s, u), b, Exec(b, s))
         \/ ~ok /\ BackupStops(p, Then(m, s, u), Exec(b, s), Then(b, s, u))
<1> DEFINE m == work["main"]
           b == work["backup"]
           m1 == Exec(m, s)
           b1 == Exec(b, s)
           m2 == Then(m, s, u)
           b2 == Then(b, s, u)
           M == [k \in 0 .. 2 |-> IF k = 0 THEN m ELSE IF k = 1 THEN m1 ELSE m2]
           B == [k \in 0 .. 2 |-> IF k = 0 THEN b ELSE IF k = 1 THEN b1 ELSE b2]
<1>1. /\ Prefixes(work["main"], <<s, u>>) = M
      /\ Prefixes(work["backup"], <<s, u>>) = B
      /\ Len(<<s, u>>) = 2
  BY PrefixesTwo DEF File
<1>2. PICK k, j \in 0 .. 2, n \in 0 .. 1 :
        /\ work' = [main |-> M[k], backup |-> B[j]]
        /\ ok <=> k = 2 /\ j = 2
        /\ \/ /\ k < 2 /\ j = 0
              /\ StopsAfter(M, k, n) /\ Fault("main", n)
              /\ torn' = (torn \/ k > 0)
              /\ UNCHANGED undo
           \/ /\ k = 2 /\ M[k] # Failed /\ j < 2
              /\ StopsAfter(B, j, n) /\ Fault("backup", n)
              /\ SetUndo
              /\ UNCHANGED torn
           \/ /\ k = 2 /\ j = 2 /\ n = 0
              /\ M[k] # Failed /\ B[j] # Failed
              /\ UNCHANGED <<undo, torn, faults>>
        /\ hit' = IF n = 1 THEN [hit EXCEPT ![p] = TRUE] ELSE hit
  BY <1>1 DEF Modify
<1>3. /\ M[0] = m /\ M[1] = m1 /\ M[2] = m2
      /\ B[0] = b /\ B[1] = b1 /\ B[2] = b2
      /\ DOMAIN M = 0 .. 2 /\ DOMAIN B = 0 .. 2
  OBVIOUS
<1>4. faults \in Nat /\ torn \in BOOLEAN
  BY DEF TypeOK
<1>5. \A kind, next : Fault(kind, n) /\ (n = 0 => next = Failed) => Fails(p, next = Failed)
  BY <1>2, <1>4 DEF Fails, Fault
<1>6. \A after : DOMAIN after = 0 .. 2 =>
         \A i \in {0, 1} : StopsAfter(after, i, n) =>
            after[i] # Failed /\ (n = 0 => after[i + 1] = Failed)
  BY DEF StopsAfter
<1> HIDE DEF m1, b1, m2, b2, M, B
<1>7. CASE k = 2 /\ j = 2
  <2>1. ok /\ Done(m2, b2)
    BY <1>2, <1>3, <1>7 DEF Done
  <2> QED
    BY <2>1 DEF m2, b2
<1>8. CASE k < 2
  <2>1. /\ StopsAfter(M, k, n) /\ Fault("main", n)
        /\ j = 0 /\ ~ok /\ UNCHANGED undo
        /\ torn' = (torn \/ k > 0)
    BY <1>2, <1>8
  <2>2. CASE k = 0
    <3>1. Fails(p, m1 = Failed) /\ M[0] # Failed
      BY <1>3, <1>5, <1>6, <2>1, <2>2
    <3>2. ~ok /\ MainStops(p, m, m1) /\ UNCHANGED torn
      BY <1>2, <1>3, <1>4, <2>1, <2>2, <3>1 DEF MainStops
    <3> QED
      BY <3>2 DEF m1
  <2>3. CASE k = 1
    <3>1. Fails(p, m2 = Failed) /\ M[1] # Failed
      BY <1>3, <1>5, <1>6, <2>1, <2>3
    <3>2. ~ok /\ MainStops(p, m1, m2)
      BY <1>2, <1>3, <2>1, <2>3, <3>1 DEF MainStops
    <3>3. k > 0
      BY <2>3
    <3>4. torn' = TRUE
      BY <2>1, <3>3, Zenon
    <3> QED
      BY <2>1, <3>2, <3>4 DEF m1, m2
  <2>4. k = 0 \/ k = 1
    BY <1>8
  <2> QED
    BY <2>2, <2>3, <2>4
<1>9. CASE k = 2 /\ j < 2
  <2>1. /\ StopsAfter(B, j, n) /\ Fault("backup", n)
        /\ M[2] # Failed /\ SetUndo /\ UNCHANGED torn /\ ~ok
    BY <1>2, <1>9
  <2>2. CASE j = 0
    <3>1. Fails(p, b1 = Failed) /\ B[0] # Failed
      BY <1>3, <1>5, <1>6, <2>1, <2>2
    <3>2. ~ok /\ BackupStops(p, m2, b, b1)
      BY <1>2, <1>3, <1>9, <2>1, <2>2, <3>1 DEF BackupStops, SetUndo
    <3> QED
      BY <3>2 DEF m2, b1
  <2>3. CASE j = 1
    <3>1. Fails(p, b2 = Failed) /\ B[1] # Failed
      BY <1>3, <1>5, <1>6, <2>1, <2>3
    <3>2. ~ok /\ BackupStops(p, m2, b1, b2)
      BY <1>2, <1>3, <1>9, <2>1, <2>3, <3>1 DEF BackupStops, SetUndo
    <3> QED
      BY <3>2 DEF m2, b1, b2
  <2>4. j = 0 \/ j = 1
    BY <1>9
  <2> QED
    BY <2>2, <2>3, <2>4
<1>10. (k = 2 /\ j = 2) \/ k < 2 \/ (k = 2 /\ j < 2)
  OBVIOUS
<1> QED
  BY <1>7, <1>8, <1>9, <1>10

-----------------------------------------------------------------------------
\* A database is a record of the two tables.
LEMMA FieldsOf ==
  ASSUME NEW db \in Database
  PROVE  /\ db = [cur |-> db.cur, old |-> db.old]
         /\ db.cur \in Table \cup {None} /\ db.old \in Table \cup {None}
BY DEF Database

\* What each statement does (Exec): DROP TABLE IF EXISTS t.old,
LEMMA ExecDropOldIfExists ==
  ASSUME NEW db \in Database
  PROVE  Exec(db, DropOldIfExists) = [cur |-> db.cur, old |-> None]
<1>1. Exec(db, DropOldIfExists) = [db EXCEPT !.old = None]
  BY DEF Exec, DropOldIfExists
<1> QED
  BY <1>1, FieldsOf

\* ALTER TABLE t RENAME TO t.old,
LEMMA ExecRenameToOld ==
  ASSUME NEW db \in Database
  PROVE  Exec(db, RenameToOld) = IF db.cur = None \/ db.old # None THEN Failed
                                 ELSE [cur |-> None, old |-> db.cur]
BY DEF Exec, RenameToOld

\* CREATE TABLE IF NOT EXISTS t,
LEMMA ExecCreate ==
  ASSUME NEW db \in Database, NEW cols
  PROVE  Exec(db, Create(cols)) =
           IF db.cur # None THEN db
           ELSE [cur |-> [cols |-> cols, rows |-> NoRows], old |-> db.old]
<1>1. Exec(db, Create(cols)) = IF db.cur # None THEN db
                               ELSE [db EXCEPT !.cur = [cols |-> cols, rows |-> NoRows]]
  BY DEF Exec, Create
<1> QED
  BY <1>1, FieldsOf

\* INSERT INTO t SELECT ... FROM t.old,
LEMMA ExecInsertOld ==
  ASSUME NEW db \in Database, NEW same
  PROVE  Exec(db, InsertOld(same)) =
           IF \/ db.cur = None \/ db.old = None
              \/ ~(same \subseteq Columns(db.cur.cols) \cap Columns(db.old.cols))
              \/ DOMAIN db.cur.rows \cap DOMAIN db.old.rows # {}
           THEN Failed
           ELSE [cur |-> Copied(db.cur, db.old, same), old |-> db.old]
<1>1. Exec(db, InsertOld(same)) =
        IF \/ db.cur = None \/ db.old = None
           \/ ~(same \subseteq Columns(db.cur.cols) \cap Columns(db.old.cols))
           \/ DOMAIN db.cur.rows \cap DOMAIN db.old.rows # {}
        THEN Failed
        ELSE [db EXCEPT !.cur = Copied(db.cur, db.old, same)]
  BY DEF Exec, InsertOld
<1> QED
  BY <1>1, FieldsOf

\* DROP TABLE t.old,
LEMMA ExecDropOld ==
  ASSUME NEW db \in Database
  PROVE  Exec(db, DropOld) = IF db.old = None THEN Failed ELSE [cur |-> db.cur, old |-> None]
<1>1. Exec(db, DropOld) = IF db.old = None THEN Failed ELSE [db EXCEPT !.old = None]
  BY DEF Exec, DropOld
<1> QED
  BY <1>1, FieldsOf

\* INSERT INTO t VALUES.
LEMMA ExecInsertRow ==
  ASSUME NEW db \in Database, NEW id, NEW cols
  PROVE  Exec(db, InsertRow(id, cols)) =
           IF db.cur = None \/ Len(db.cur.cols) # Len(cols) THEN Failed
           ELSE [cur |-> Inserted(db.cur, id, cols), old |-> db.old]
<1>1. Exec(db, InsertRow(id, cols)) =
        IF db.cur = None \/ Len(db.cur.cols) # Len(cols) THEN Failed
        ELSE [db EXCEPT !.cur = Inserted(db.cur, id, cols)]
  BY DEF Exec, InsertRow
<1> QED
  BY <1>1, FieldsOf

\* A table has the columns of some version, and rows of them.
LEMMA TableIs ==
  \A t : t \in Table <=> \E c \in Layout, S \in SUBSET Id : \E r \in [S -> Row(c)] :
                            t = [cols |-> c, rows |-> r]
BY DEF Table

\* A failed statement is not taken for a database.
LEMMA FailedApart == Failed \notin Database
BY DEF Failed, Database

\* The columns of a version are known, and no two are the same.
LEMMA LayoutIs ==
  ASSUME NEW c \in Layout
  PROVE  /\ c \in Seq(Column)
         /\ Columns(c) \subseteq Column
         /\ \A i, j \in DOMAIN c : c[i] = c[j] => i = j
<1>1. PICK v \in Version : c = ColsOf[v]
  BY DEF Layout
<1>2. \A i, j \in DOMAIN c : c[i] = c[j] => i = j
  BY <1>1, TableAssumption
<1>3. c \in Seq(Column)
  BY <1>1, TableAssumption
<1> QED
  BY <1>1, <1>2, <1>3 DEF Columns

\* What create_table makes is a table.
LEMMA EmptyTable ==
  ASSUME NEW c \in Layout
  PROVE [cols |-> c, rows |-> NoRows] \in Table
<1>1. NoRows \in [{} -> Row(c)]
  BY DEF NoRows
<1> QED
  BY <1>1, TableIs

\* Copying rows, and adding one, leave a table with the columns it had.
LEMMA CopiedIs ==
  ASSUME NEW new \in Table, NEW old \in Table, NEW same,
         same \subseteq Columns(new.cols) \cap Columns(old.cols)
  PROVE  /\ Copied(new, old, same) \in Table
         /\ Copied(new, old, same).cols = new.cols
<1>1. PICK c \in Layout, S \in SUBSET Id :
        \E r \in [S -> Row(c)] : new = [cols |-> c, rows |-> r]
  BY TableIs
<1>2. PICK d \in Layout, T \in SUBSET Id :
        \E r \in [T -> Row(d)] : old = [cols |-> d, rows |-> r]
  BY TableIs
<1> DEFINE r == [id \in DOMAIN new.rows \cup DOMAIN old.rows |->
        IF id \in DOMAIN new.rows THEN new.rows[id]
        ELSE [x \in Columns(new.cols) |->
                IF x \in same THEN old.rows[id][x] ELSE None]]
<1>3. Copied(new, old, same) = [cols |-> c, rows |-> r]
  BY <1>1 DEF Copied
<1>4. r \in [S \cup T -> Row(c)]
  <2>1. DOMAIN new.rows = S /\ DOMAIN old.rows = T /\ new.cols = c /\ old.cols = d
    BY <1>1, <1>2
  <2>2. \A id \in S : new.rows[id] \in Row(c)
    BY <1>1
  <2>3. \A id \in T :
          [x \in Columns(c) |-> IF x \in same THEN old.rows[id][x] ELSE None] \in Row(c)
    <3> SUFFICES ASSUME NEW id \in T, NEW x \in Columns(c), x \in same
                 PROVE  old.rows[id][x] \in Column \cup {None}
      BY DEF Row
    <3>1. old.rows[id] \in Row(d)
      BY <1>2
    <3> QED
      BY <2>1, <3>1 DEF Row
  <2> QED
    BY <2>1, <2>2, <2>3
<1> HIDE DEF r
<1> QED
  BY <1>1, <1>3, <1>4, TableIs

\* ... a row that db_add_row writes by position too.
LEMMA InsertedIs ==
  ASSUME NEW t \in Table, NEW id \in Id, NEW cols \in Layout, Len(t.cols) = Len(cols)
  PROVE  /\ Inserted(t, id, cols) \in Table
         /\ Inserted(t, id, cols).cols = t.cols
<1>1. PICK c \in Layout, S \in SUBSET Id : \E r \in [S -> Row(c)] : t = [cols |-> c, rows |-> r]
  BY TableIs
<1> DEFINE row == [x \in Columns(t.cols) |-> cols[CHOOSE k \in DOMAIN cols : t.cols[k] = x]]
           r == [i \in DOMAIN t.rows \cup {id} |-> IF i # id THEN t.rows[i] ELSE row]
<1>2. Inserted(t, id, cols) = [cols |-> c, rows |-> r]
  <2>1. Inserted(t, id, cols) = [t EXCEPT !.rows = r]
    BY DEF Inserted
  <2> HIDE DEF r
  <2> QED
    BY <1>1, <2>1
<1>3. row \in Row(c)
  <2> SUFFICES ASSUME NEW x \in Columns(c)
               PROVE  cols[CHOOSE k \in DOMAIN cols : t.cols[k] = x] \in Column
    BY <1>1 DEF Row
  <2>1. \E k \in DOMAIN cols : t.cols[k] = x
    BY <1>1, LayoutIs DEF Columns
  <2>2. (CHOOSE k \in DOMAIN cols : t.cols[k] = x) \in DOMAIN cols
    BY <2>1
  <2> QED
    BY <2>2, LayoutIs
<1> HIDE DEF row
<1>4. r \in [S \cup {id} -> Row(c)]
  BY <1>1, <1>3
<1> HIDE DEF r
<1> QED
  BY <1>1, <1>2, <1>4, TableIs

\* The statements of init_tab.
Statement ==
  {DropOldIfExists, RenameToOld, DropOld} \cup {Create(c) : c \in Layout}
    \cup {InsertOld(same) : same \in SUBSET Column}

\* A statement of init_tab that does not fail leaves a database.
LEMMA ExecTyped ==
  ASSUME NEW db \in Database, NEW s \in Statement, Exec(db, s) # Failed
  PROVE  Exec(db, s) \in Database
<1>1. /\ db.cur \in Table \cup {None} /\ db.old \in Table \cup {None}
      /\ db = [cur |-> db.cur, old |-> db.old]
  BY DEF Database
<1>2. CASE s \in {DropOldIfExists, DropOld}
  BY <1>1, <1>2, ExecDropOldIfExists, ExecDropOld DEF Database
<1>3. CASE s = RenameToOld
  BY <1>1, <1>3, ExecRenameToOld DEF Database
<1>4. ASSUME NEW c \in Layout, s = Create(c) PROVE Exec(db, s) \in Database
  BY <1>1, <1>4, ExecCreate, EmptyTable DEF Database
<1>5. ASSUME NEW same, s = InsertOld(same) PROVE Exec(db, s) \in Database
  BY <1>1, <1>5, ExecInsertOld, CopiedIs DEF Database
<1> QED
  BY <1>2, <1>3, <1>4, <1>5 DEF Statement

\* A statement that fails in neither of two databases with alike tables leaves them
\* alike ...
LEMMA ExecAlike ==
  ASSUME NEW d \in Database, NEW e \in Database, Alike(d, e), NEW s \in Statement,
         Exec(d, s) # Failed, Exec(e, s) # Failed
  PROVE  Alike(Exec(d, s), Exec(e, s))
<1>1. /\ d.cur \in Table \cup {None} /\ d.old \in Table \cup {None}
      /\ d = [cur |-> d.cur, old |-> d.old]
      /\ e.cur \in Table \cup {None} /\ e.old \in Table \cup {None}
      /\ e = [cur |-> e.cur, old |-> e.old]
  BY DEF Database
<1>2. CASE s \in {DropOldIfExists, DropOld}
  BY <1>1, <1>2, ExecDropOldIfExists, ExecDropOld DEF Alike
<1>3. CASE s = RenameToOld
  BY <1>1, <1>3, ExecRenameToOld DEF Alike
<1>4. ASSUME NEW c \in Layout, s = Create(c) PROVE Alike(Exec(d, s), Exec(e, s))
  BY <1>1, <1>4, ExecCreate, EmptyTable, NoneAssumption DEF Alike
<1>5. ASSUME NEW same, s = InsertOld(same) PROVE Alike(Exec(d, s), Exec(e, s))
  BY <1>1, <1>5, ExecInsertOld, CopiedIs, NoneAssumption DEF Alike
<1> QED
  BY <1>2, <1>3, <1>4, <1>5 DEF Statement

\* ... and these leave the columns of the table as they were.
LEMMA ExecKeepsCols ==
  ASSUME NEW d \in Database, NEW same, NEW s \in {DropOldIfExists, DropOld, InsertOld(same)},
         Exec(d, s) # Failed
  PROVE  Alike(d, Exec(d, s))
<1>1. /\ d.cur \in Table \cup {None} /\ d.old \in Table \cup {None}
      /\ d = [cur |-> d.cur, old |-> d.old]
  BY DEF Database
<1>2. CASE s \in {DropOldIfExists, DropOld}
  BY <1>1, <1>2, ExecDropOldIfExists, ExecDropOld DEF Alike
<1>3. CASE s = InsertOld(same)
  BY <1>1, <1>3, ExecInsertOld, CopiedIs, NoneAssumption DEF Alike
<1> QED
  BY <1>2, <1>3

-----------------------------------------------------------------------------
\* So does the INSERT of db_add_row.
LEMMA RowTyped ==
  ASSUME NEW db \in Database, NEW id \in Id, NEW cols \in Layout,
         Exec(db, InsertRow(id, cols)) # Failed
  PROVE  /\ Exec(db, InsertRow(id, cols)) \in Database
         /\ Alike(db, Exec(db, InsertRow(id, cols)))
<1>1. /\ db.cur \in Table /\ Len(db.cur.cols) = Len(cols)
      /\ Exec(db, InsertRow(id, cols)) = [cur |-> Inserted(db.cur, id, cols), old |-> db.old]
      /\ db.old \in Table \cup {None}
  BY ExecInsertRow, FieldsOf
<1>2. Inserted(db.cur, id, cols) \in Table /\ Inserted(db.cur, id, cols).cols = db.cur.cols
  BY <1>1, InsertedIs
<1> QED
  BY <1>1, <1>2, NoneAssumption DEF Database, Alike

\* Wherever modify() stops, the databases are databases.
LEMMA ModifyTyped ==
  ASSUME TypeOK, NEW p \in Proc, NEW s \in Statement, NEW u \in Statement, NEW ok \in BOOLEAN,
         Modify(p, <<s>>, ok) \/ Modify(p, <<s, u>>, ok)
  PROVE  /\ work' \in [File -> Database]
         /\ undo' \in BOOLEAN /\ torn' \in BOOLEAN
         /\ hit' \in [Proc -> BOOLEAN] /\ faults' \in 0 .. MaxFaults
<1> DEFINE m == work["main"]
           b == work["backup"]
<1>1. m \in Database /\ b \in Database
  BY DEF TypeOK, File
<1>2. \A f \in File : work[f] # Failed
  BY FailedApart DEF TypeOK
<1>3. \A d \in Database, r \in Statement : Exec(d, r) # Failed => Exec(d, r) \in Database
  BY ExecTyped
<1>4. \A d \in Database : Then(d, s, u) # Failed => Then(d, s, u) \in Database
  BY <1>3 DEF Then
<1>5. /\ undo \in BOOLEAN /\ torn \in BOOLEAN
      /\ hit \in [Proc -> BOOLEAN] /\ faults \in 0 .. MaxFaults /\ MaxFaults \in Nat
  BY TableAssumption DEF TypeOK
<1>6. ASSUME NEW next, Fails(p, next)
      PROVE  hit' \in [Proc -> BOOLEAN] /\ faults' \in 0 .. MaxFaults
  <2>1. CASE UNCHANGED <<faults, hit>>
    BY <1>5, <2>1
  <2>2. CASE faults < MaxFaults /\ faults' = faults + 1 /\ hit' = [hit EXCEPT ![p] = TRUE]
    BY <1>5, <2>2
  <2> QED
    BY <1>6, <2>1, <2>2 DEF Fails
<1>7. \A d, e : d \in Database /\ e \in Database =>
        [main |-> d, backup |-> e] \in [File -> Database]
  BY DEF File
<1>8. CASE Modify(p, <<s>>, ok)
  <2>1. \/ Done(Exec(m, s), Exec(b, s))
        \/ MainStops(p, m, Exec(m, s)) /\ UNCHANGED torn
        \/ BackupStops(p, Exec(m, s), b, Exec(b, s))
    BY <1>2, <1>8, ModifyOne
  <2>2. CASE Done(Exec(m, s), Exec(b, s))
    BY <1>1, <1>3, <1>5, <1>7, <2>2 DEF Done
  <2>3. CASE MainStops(p, m, Exec(m, s)) /\ UNCHANGED torn
    BY <1>1, <1>5, <1>6, <1>7, <2>3 DEF MainStops
  <2>4. CASE BackupStops(p, Exec(m, s), b, Exec(b, s))
    BY <1>1, <1>3, <1>5, <1>6, <1>7, <2>4 DEF BackupStops
  <2> QED
    BY <2>1, <2>2, <2>3, <2>4
<1>9. CASE Modify(p, <<s, u>>, ok)
  <2>1. \/ Done(Then(m, s, u), Then(b, s, u))
        \/ MainStops(p, m, Exec(m, s)) /\ UNCHANGED torn
        \/ MainStops(p, Exec(m, s), Then(m, s, u)) /\ torn' = TRUE
        \/ BackupStops(p, Then(m, s, u), b, Exec(b, s))
        \/ BackupStops(p, Then(m, s, u), Exec(b, s), Then(b, s, u))
    BY <1>2, <1>9, ModifyTwo
  <2>2. CASE Done(Then(m, s, u), Then(b, s, u))
    BY <1>1, <1>4, <1>5, <1>7, <2>2 DEF Done
  <2>3. CASE MainStops(p, m, Exec(m, s)) /\ UNCHANGED torn
    BY <1>1, <1>5, <1>6, <1>7, <2>3 DEF MainStops
  <2>4. CASE MainStops(p, Exec(m, s), Then(m, s, u)) /\ torn' = TRUE
    BY <1>1, <1>3, <1>5, <1>6, <1>7, <2>4 DEF MainStops
  <2>5. CASE BackupStops(p, Then(m, s, u), b, Exec(b, s))
    BY <1>1, <1>4, <1>5, <1>6, <1>7, <2>5 DEF BackupStops
  <2>6. CASE BackupStops(p, Then(m, s, u), Exec(b, s), Then(b, s, u))
    BY <1>1, <1>3, <1>4, <1>5, <1>6, <1>7, <2>6 DEF BackupStops
  <2> QED
    BY <2>1, <2>2, <2>3, <2>4, <2>5, <2>6
<1> QED
  BY <1>8, <1>9

\* The commands that init_tab gives modify().
LEMMA Commands ==
  ASSUME TypeOK, NEW p \in Proc
  PROVE  /\ DropOldIfExists \in Statement /\ RenameToOld \in Statement /\ DropOld \in Statement
         /\ ColsOf[ver[p]] \in Layout
         /\ Create(ColsOf[ver[p]]) \in Statement
         /\ SameCols(p) \subseteq Column
         /\ InsertOld(SameCols(p)) \in Statement
<1>1. ColsOf[ver[p]] \in Layout
  BY DEF TypeOK, Layout
<1>2. SameCols(p) \subseteq Column
  BY DEF TypeOK, SameCols
<1> QED
  BY <1>1, <1>2 DEF Statement

\* Every step keeps the types.
LEMMA TypeStep == TypeOK /\ [Next]_vars => TypeOK'
<1> SUFFICES ASSUME TypeOK, [Next]_vars PROVE TypeOK'
  OBVIOUS
<1> USE DEF dbVars, procVars, history
<1>1. ASSUME NEW p \in Proc, Start(p) PROVE TypeOK'
  BY <1>1, TableAssumption DEF Start, Fault, Goto, PC, TypeOK
<1>2. ASSUME NEW p \in Proc, GetBackup(p) PROVE TypeOK'
  BY <1>2 DEF GetBackup, Goto, PC, File, TypeOK
<1>3. ASSUME NEW p \in Proc, Lock(p) PROVE TypeOK'
  BY <1>3 DEF Lock, Goto, PC, TypeOK
<1>4. ASSUME NEW p \in Proc, Inspect(p) PROVE TypeOK'
  <2> DEFINE t == work["main"].cur
  <2>1. work["main"] \in Database
    BY DEF TypeOK, File
  <2>2. t # None => Columns(t.cols) \subseteq Column
    <3>1. t # None => t \in Table
      BY <2>1, FieldsOf
    <3>2. t \in Table => \E c \in Layout : t.cols = c
      BY TableIs
    <3> QED
      BY <3>1, <3>2, LayoutIs
  <2>3. \/ UNCHANGED <<faults, hit>>
        \/ /\ faults < MaxFaults /\ faults' = faults + 1
           /\ hit' = [hit EXCEPT ![p] = TRUE]
    <3>1. \A kind : Fault(kind, 1) => faults < MaxFaults /\ faults' = faults + 1
      BY DEF Fault
    <3> QED
      BY <1>4, <3>1 DEF Inspect
  <2>4. hit' \in [Proc -> BOOLEAN] /\ faults' \in 0 .. MaxFaults
    <3>1. hit \in [Proc -> BOOLEAN] /\ faults \in 0 .. MaxFaults /\ MaxFaults \in Nat
      BY TableAssumption DEF TypeOK
    <3>2. CASE UNCHANGED <<faults, hit>>
      BY <3>1, <3>2
    <3>3. CASE /\ faults < MaxFaults /\ faults' = faults + 1
               /\ hit' = [hit EXCEPT ![p] = TRUE]
      BY <3>1, <3>3
    <3> QED
      BY <2>3, <3>2, <3>3
  <2>5. known' \in [Proc -> SUBSET Column]
    BY <1>4, <2>2 DEF Inspect, TypeOK
  <2>6. pc' \in [Proc -> PC]
    BY <1>4 DEF Inspect, Goto, PC, TypeOK
  <2> QED
    BY <1>4, <2>4, <2>5, <2>6 DEF Inspect, TypeOK
<1>5. ASSUME NEW p \in Proc, BackupData(p) PROVE TypeOK'
  <2>1. PICK ok \in BOOLEAN : Modify(p, <<DropOldIfExists, RenameToOld>>, ok)
                              /\ Goto(p, IF ok THEN "create_and_restore" ELSE "unlock")
    BY <1>5 DEF BackupData
  <2>2. /\ work' \in [File -> Database]
        /\ undo' \in BOOLEAN /\ torn' \in BOOLEAN
        /\ hit' \in [Proc -> BOOLEAN] /\ faults' \in 0 .. MaxFaults
    BY <2>1, Commands, ModifyTyped
  <2>3. \E l \in PC : pc' = [pc EXCEPT ![p] = l]
    BY <1>5, <2>1 DEF BackupData, Goto, PC
  <2> QED
    BY <1>5, <2>2, <2>3 DEF BackupData, TypeOK
<1>6. ASSUME NEW p \in Proc, CreateTable(p) PROVE TypeOK'
  <2>1. PICK ok \in BOOLEAN :
          /\ Modify(p, <<Create(ColsOf[ver[p]])>>, ok)
          /\ Goto(p, IF ~ok THEN "give_up"
                  ELSE IF pc[p] = "create_table" THEN "unlock" ELSE "restore_data")
    BY <1>6 DEF CreateTable
  <2>2. /\ work' \in [File -> Database]
        /\ undo' \in BOOLEAN /\ torn' \in BOOLEAN
        /\ hit' \in [Proc -> BOOLEAN] /\ faults' \in 0 .. MaxFaults
    BY <2>1, Commands, ModifyTyped
  <2>3. \E l \in PC : pc' = [pc EXCEPT ![p] = l]
    BY <1>6, <2>1 DEF CreateTable, Goto, PC
  <2> QED
    BY <1>6, <2>2, <2>3 DEF CreateTable, TypeOK
<1>7. ASSUME NEW p \in Proc, RestoreData(p) PROVE TypeOK'
  <2>1. PICK ok \in BOOLEAN : Modify(p, <<InsertOld(SameCols(p)), DropOld>>, ok)
    BY <1>7 DEF RestoreData, RestoreCommand
  <2>2. /\ work' \in [File -> Database]
        /\ undo' \in BOOLEAN /\ torn' \in BOOLEAN
        /\ hit' \in [Proc -> BOOLEAN] /\ faults' \in 0 .. MaxFaults
    BY <2>1, Commands, ModifyTyped
  <2>3. \E l \in PC : pc' = [pc EXCEPT ![p] = l]
    BY <1>7, <2>1 DEF RestoreData, Goto, PC
  <2> QED
    BY <1>7, <2>2, <2>3 DEF RestoreData, TypeOK
<1>8. ASSUME NEW p \in Proc, Unlock(p) PROVE TypeOK'
  BY <1>8 DEF Unlock, Finish, Goto, PC, TypeOK
<1>9. ASSUME NEW p \in Proc, Retry(p) PROVE TypeOK'
  BY <1>9 DEF Retry, Goto, PC, TypeOK
<1>10. ASSUME NEW p \in Proc, Add(p) PROVE TypeOK'
  <2>1. PICK id \in Id :
          /\ \A f \in File : Exec(base[f], InsertRow(id, ColsOf[ver[p]])) # Failed
          /\ base' = [f \in File |-> Exec(base[f], InsertRow(id, ColsOf[ver[p]]))]
          /\ work' = base'
    BY <1>10 DEF Add
  <2>2. \A f \in File : Exec(base[f], InsertRow(id, ColsOf[ver[p]])) \in Database
    BY <2>1, Commands, RowTyped DEF TypeOK
  <2> QED
    BY <1>10, <2>1, <2>2 DEF Add, TypeOK
<1>11. ASSUME NEW p \in Proc, Stop(p) PROVE TypeOK'
  BY <1>11 DEF Stop, Goto, PC, TypeOK
<1>12. CASE UNCHANGED vars
  BY <1>12 DEF vars, TypeOK
<1> QED
  BY <1>1, <1>2, <1>3, <1>4, <1>5, <1>6, <1>7, <1>8, <1>9, <1>10, <1>11, <1>12 DEF Next, InitTab

\* The first state has the types.
LEMMA TypeInit == Init => TypeOK
<1> SUFFICES ASSUME Init PROVE TypeOK
  OBVIOUS
<1>1. (CHOOSE v \in Version : TRUE) \in Version /\ MaxFaults \in Nat
  BY TableAssumption
<1>2. NoTable \in Database
  BY DEF NoTable, Database
<1>3. faults \in 0 .. MaxFaults
  BY <1>1 DEF Init
<1>4. pc \in [Proc -> PC] /\ ver \in [Proc -> Version] /\ hit \in [Proc -> BOOLEAN]
  BY <1>1 DEF Init, PC
<1>5. known \in [Proc -> SUBSET Column]
  BY DEF Init
<1> QED
  BY <1>2, <1>3, <1>4, <1>5 DEF Init, TypeOK

-----------------------------------------------------------------------------
\* A step of p in init_tab by modify().
LEMMA ModifySteps ==
  ASSUME TypeOK, NEW p \in Proc, BackupData(p) \/ CreateTable(p) \/ RestoreData(p)
  PROVE  /\ pc[p] \in Inside /\ \E l \in Inside : pc' = [pc EXCEPT ![p] = l]
         /\ UNCHANGED <<base, owner, ver, known>>
BY DEF BackupData, CreateTable, RestoreData, Goto, Inside

\* Every step keeps Ownership: all of init_tab is between lock() and unlock().
LEMMA OwnershipStep == TypeOK /\ Ownership /\ [Next]_vars => Ownership'
<1> SUFFICES ASSUME TypeOK, Ownership, [Next]_vars PROVE Ownership'
  OBVIOUS
<1> USE DEF dbVars, procVars, history
<1>1. None \notin Proc
  BY TableAssumption
<1>2. ASSUME NEW p \in Proc, Start(p) PROVE Ownership'
  BY <1>1, <1>2 DEF Start, Goto, TypeOK, Ownership, Inside
<1>3. ASSUME NEW p \in Proc, GetBackup(p) PROVE Ownership'
  BY <1>1, <1>3 DEF GetBackup, Goto, TypeOK, Ownership, Inside
<1>4. ASSUME NEW p \in Proc, Lock(p) PROVE Ownership'
  BY <1>1, <1>4 DEF Lock, Goto, TypeOK, Ownership, Inside
<1>5. ASSUME NEW p \in Proc, Inspect(p) PROVE Ownership'
  BY <1>1, <1>5 DEF Inspect, Goto, TypeOK, Ownership, Inside
<1>6. ASSUME NEW p \in Proc, BackupData(p) \/ CreateTable(p) \/ RestoreData(p) PROVE Ownership'
  BY <1>1, <1>6, ModifySteps DEF TypeOK, Ownership
<1>7. ASSUME NEW p \in Proc, Unlock(p) PROVE Ownership'
  BY <1>1, <1>7 DEF Unlock, Finish, Goto, TypeOK, Ownership, Inside
<1>8. ASSUME NEW p \in Proc, Retry(p) PROVE Ownership'
  BY <1>1, <1>8 DEF Retry, Goto, TypeOK, Ownership, Inside
<1>9. ASSUME NEW p \in Proc, Add(p) PROVE Ownership'
  BY <1>1, <1>9 DEF Add, TypeOK, Ownership, Inside
<1>10. ASSUME NEW p \in Proc, Stop(p) PROVE Ownership'
  BY <1>1, <1>10 DEF Stop, Goto, TypeOK, Ownership, Inside
<1>11. CASE UNCHANGED vars
  BY <1>11 DEF vars, Ownership
<1> QED
  BY <1>2, <1>3, <1>4, <1>5, <1>6, <1>7, <1>8, <1>9, <1>10, <1>11 DEF Next, InitTab

\* modify() keeps the copies alike, or equal, or sets need_rollback.
LEMMA ModifyAlike ==
  ASSUME TypeOK, NEW p \in Proc, NEW s \in Statement, NEW u \in Statement, NEW same,
         NEW ok \in BOOLEAN,
         \/ Modify(p, <<s>>, ok)
         \/ Modify(p, <<s, u>>, ok) /\ s \in {DropOldIfExists, InsertOld(same)},
         undo \/ Alike(work["main"], work["backup"])
  PROVE  undo' \/ Alike(work'["main"], work'["backup"])
<1> DEFINE m == work["main"]
           b == work["backup"]
<1>1. m \in Database /\ b \in Database /\ undo \in BOOLEAN
  BY DEF TypeOK, File
<1>2. \A f \in File : work[f] # Failed
  BY FailedApart DEF TypeOK
<1>3. \A x, y : /\ [main |-> x, backup |-> y]["main"] = x
                 /\ [main |-> x, backup |-> y]["backup"] = y
  OBVIOUS
<1>4. CASE Modify(p, <<s>>, ok)
  <2>1. \/ Done(Exec(m, s), Exec(b, s))
        \/ MainStops(p, m, Exec(m, s)) /\ UNCHANGED torn
        \/ BackupStops(p, Exec(m, s), b, Exec(b, s))
    BY <1>2, <1>4, ModifyOne
  <2> QED
    BY <1>1, <1>3, <2>1, ExecAlike DEF Done, MainStops, BackupStops
<1>5. CASE Modify(p, <<s, u>>, ok) /\ s \in {DropOldIfExists, InsertOld(same)}
  <2>1. \/ Done(Then(m, s, u), Then(b, s, u))
        \/ MainStops(p, m, Exec(m, s)) /\ UNCHANGED torn
        \/ MainStops(p, Exec(m, s), Then(m, s, u)) /\ torn' = TRUE
        \/ BackupStops(p, Then(m, s, u), b, Exec(b, s))
        \/ BackupStops(p, Then(m, s, u), Exec(b, s), Then(b, s, u))
    BY <1>2, <1>5, ModifyTwo
  <2>2. CASE Done(Then(m, s, u), Then(b, s, u))
    BY <1>1, <1>3, <2>2, ExecAlike, ExecTyped DEF Done, Then
  <2>3. CASE MainStops(p, m, Exec(m, s)) /\ UNCHANGED torn
    BY <1>1, <1>3, <2>3 DEF MainStops
  <2>4. CASE MainStops(p, Exec(m, s), Then(m, s, u)) /\ torn' = TRUE
    <3>1. Alike(m, Exec(m, s))
      BY <1>1, <1>5, <2>4, ExecKeepsCols DEF MainStops
    <3> QED
      BY <1>1, <1>3, <2>4, <3>1 DEF MainStops, Alike
  <2> QED
    BY <2>1, <2>2, <2>3, <2>4 DEF BackupStops
<1> QED
  BY <1>4, <1>5

\* ... equal, unless a command stopped half-way in main.
LEMMA ModifyEqual ==
  ASSUME TypeOK, NEW p \in Proc, NEW s, NEW u, NEW ok \in BOOLEAN,
         Modify(p, <<s>>, ok) \/ Modify(p, <<s, u>>, ok),
         ~torn', ~torn => undo \/ work["main"] = work["backup"]
  PROVE  ~torn /\ (undo' \/ work'["main"] = work'["backup"])
<1> DEFINE m == work["main"]
           b == work["backup"]
<1>1. torn \in BOOLEAN
  BY DEF TypeOK
<1>2. \A f \in File : work[f] # Failed
  BY FailedApart DEF TypeOK
<1>3. \A x, y : /\ [main |-> x, backup |-> y]["main"] = x
                 /\ [main |-> x, backup |-> y]["backup"] = y
  OBVIOUS
<1>4. CASE Modify(p, <<s>>, ok)
  <2>1. \/ Done(Exec(m, s), Exec(b, s))
        \/ MainStops(p, m, Exec(m, s)) /\ UNCHANGED torn
        \/ BackupStops(p, Exec(m, s), b, Exec(b, s))
    BY <1>2, <1>4, ModifyOne
  <2> QED
    BY <1>1, <1>3, <2>1 DEF Done, MainStops, BackupStops
<1>5. CASE Modify(p, <<s, u>>, ok)
  <2>1. \/ Done(Then(m, s, u), Then(b, s, u))
        \/ MainStops(p, m, Exec(m, s)) /\ UNCHANGED torn
        \/ MainStops(p, Exec(m, s), Then(m, s, u)) /\ torn' = TRUE
        \/ BackupStops(p, Then(m, s, u), b, Exec(b, s))
        \/ BackupStops(p, Then(m, s, u), Exec(b, s), Then(b, s, u))
    BY <1>2, <1>5, ModifyTwo
  <2> QED
    BY <1>1, <1>3, <2>1 DEF Done, MainStops, BackupStops
<1> QED
  BY <1>4, <1>5

\* Every step keeps Shape.
LEMMA ShapeStep == TypeOK /\ Ownership /\ Shape /\ [Next]_vars => Shape'
<1> SUFFICES ASSUME TypeOK, Ownership, Shape, [Next]_vars PROVE Shape'
  OBVIOUS
<1> USE DEF dbVars, procVars, history
<1>1. ASSUME NEW p \in Proc, Start(p) \/ Lock(p) \/ Inspect(p) \/ Retry(p) PROVE Shape'
  BY <1>1 DEF Start, Lock, Inspect, Retry, Shape
<1>2. ASSUME NEW p \in Proc, GetBackup(p) PROVE Shape'
  BY <1>2 DEF GetBackup, Shape, Alike, File
<1>3. ASSUME NEW p \in Proc, BackupData(p) PROVE Shape'
  <2>1. PICK ok \in BOOLEAN : Modify(p, <<DropOldIfExists, RenameToOld>>, ok)
    BY <1>3 DEF BackupData
  <2>2. undo' \/ Alike(work'["main"], work'["backup"])
    BY <2>1, Commands, ModifyAlike DEF Shape
  <2> QED
    BY <1>3, <2>2 DEF Shape, BackupData
<1>4. ASSUME NEW p \in Proc, CreateTable(p) PROVE Shape'
  <2>1. PICK ok \in BOOLEAN : Modify(p, <<Create(ColsOf[ver[p]])>>, ok)
    BY <1>4 DEF CreateTable
  <2>2. undo' \/ Alike(work'["main"], work'["backup"])
    BY <2>1, Commands, ModifyAlike DEF Shape
  <2> QED
    BY <1>4, <2>2 DEF Shape, CreateTable
<1>5. ASSUME NEW p \in Proc, RestoreData(p) PROVE Shape'
  <2>1. PICK ok \in BOOLEAN : Modify(p, <<InsertOld(SameCols(p)), DropOld>>, ok)
    BY <1>5 DEF RestoreData, RestoreCommand
  <2>2. undo' \/ Alike(work'["main"], work'["backup"])
    BY <2>1, Commands, ModifyAlike DEF Shape
  <2> QED
    BY <1>5, <2>2 DEF Shape, RestoreData
<1>6. ASSUME NEW p \in Proc, Unlock(p) PROVE Shape'
  BY <1>6 DEF Unlock, Finish, Shape, TypeOK
<1>7. ASSUME NEW p \in Proc, Add(p) PROVE Shape'
  <2>1. PICK id \in Id :
          /\ \A f \in File : Exec(base[f], InsertRow(id, ColsOf[ver[p]])) # Failed
          /\ base' = [f \in File |-> Exec(base[f], InsertRow(id, ColsOf[ver[p]]))]
          /\ work' = base'
    BY <1>7 DEF Add
  <2>2. \A f \in File : Alike(base[f], base'[f])
    BY <2>1, Commands, RowTyped DEF TypeOK
  <2> QED
    BY <1>7, <2>1, <2>2 DEF Add, Shape, Alike, File
<1>8. ASSUME NEW p \in Proc, Stop(p) PROVE Shape'
  BY <1>8 DEF Stop, Shape
<1>9. CASE UNCHANGED vars
  BY <1>9 DEF vars, Shape
<1> QED
  BY <1>1, <1>2, <1>3, <1>4, <1>5, <1>6, <1>7, <1>8, <1>9 DEF Next, InitTab

\* Every step keeps Copies.
LEMMA CopiesStep == TypeOK /\ Ownership /\ Copies /\ [Next]_vars => Copies'
<1> SUFFICES ASSUME TypeOK, Ownership, Copies, [Next]_vars PROVE Copies'
  OBVIOUS
<1> USE DEF dbVars, procVars, history
<1>1. ASSUME NEW p \in Proc, Start(p) \/ Lock(p) \/ Inspect(p) \/ Retry(p) PROVE Copies'
  BY <1>1 DEF Start, Lock, Inspect, Retry, Copies
<1>2. ASSUME NEW p \in Proc, GetBackup(p) PROVE Copies'
  BY <1>2 DEF GetBackup, Copies, File
<1>3. ASSUME NEW p \in Proc, BackupData(p) PROVE Copies'
  <2>1. PICK ok \in BOOLEAN : Modify(p, <<DropOldIfExists, RenameToOld>>, ok)
    BY <1>3 DEF BackupData
  <2>2. ~torn' => ~torn /\ (undo' \/ work'["main"] = work'["backup"])
    BY <2>1, ModifyEqual DEF Copies
  <2> QED
    BY <1>3, <2>2 DEF Copies, BackupData
<1>4. ASSUME NEW p \in Proc, CreateTable(p) PROVE Copies'
  <2>1. PICK ok \in BOOLEAN : Modify(p, <<Create(ColsOf[ver[p]])>>, ok)
    BY <1>4 DEF CreateTable
  <2>2. ~torn' => ~torn /\ (undo' \/ work'["main"] = work'["backup"])
    BY <2>1, ModifyEqual DEF Copies
  <2> QED
    BY <1>4, <2>2 DEF Copies, CreateTable
<1>5. ASSUME NEW p \in Proc, RestoreData(p) PROVE Copies'
  <2>1. PICK ok \in BOOLEAN : Modify(p, <<InsertOld(SameCols(p)), DropOld>>, ok)
    BY <1>5 DEF RestoreData, RestoreCommand
  <2>2. ~torn' => ~torn /\ (undo' \/ work'["main"] = work'["backup"])
    BY <2>1, ModifyEqual DEF Copies
  <2> QED
    BY <1>5, <2>2 DEF Copies, RestoreData
<1>6. ASSUME NEW p \in Proc, Unlock(p) PROVE Copies'
  BY <1>6 DEF Unlock, Finish, Copies, TypeOK
<1>7. ASSUME NEW p \in Proc, Add(p) PROVE Copies'
  BY <1>7 DEF Add, Copies, File
<1>8. ASSUME NEW p \in Proc, Stop(p) PROVE Copies'
  BY <1>8 DEF Stop, Copies
<1>9. CASE UNCHANGED vars
  BY <1>9 DEF vars, Copies
<1> QED
  BY <1>1, <1>2, <1>3, <1>4, <1>5, <1>6, <1>7, <1>8, <1>9 DEF Next, InitTab

-----------------------------------------------------------------------------
\* A database is no failed statement, whatever its tables.
LEMMA NotFailed ==
  ASSUME NEW x, NEW y
  PROVE  [cur |-> x, old |-> y] # Failed
BY DEF Failed

\* The command of backup_data cannot fail by itself where there is a table, whatever
\* an interrupted migration has left,
LEMMA MovesOld ==
  ASSUME NEW db \in Database, db.cur # None
  PROVE  /\ Exec(db, DropOldIfExists) # Failed
         /\ Then(db, DropOldIfExists, RenameToOld) = [cur |-> None, old |-> db.cur]
<1> DEFINE d == [cur |-> db.cur, old |-> None]
<1>1. Exec(db, DropOldIfExists) = d /\ d # Failed
  BY ExecDropOldIfExists, NotFailed
<1>2. d \in Database /\ d.cur = db.cur /\ d.old = None
  BY FieldsOf DEF Database
<1>3. Exec(d, RenameToOld) = [cur |-> None, old |-> db.cur]
  BY <1>2, ExecRenameToOld
<1> QED
  BY <1>1, <1>3 DEF Then

\* nor that of create_table where there is none,
LEMMA CreatesNew ==
  ASSUME NEW db \in Database, db.cur = None, NEW cols
  PROVE  /\ Exec(db, Create(cols)) = [cur |-> [cols |-> cols, rows |-> NoRows], old |-> db.old]
         /\ Exec(db, Create(cols)) # Failed
BY ExecCreate, NotFailed

\* nor that of restore_data on the table that create_table has made: it copies what
\* the abstract migration says.
LEMMA CopiesOld ==
  ASSUME NEW t \in Table, NEW cols \in Layout, NEW same,
         same = Columns(t.cols) \cap Columns(cols)
  PROVE  LET db == [cur |-> [cols |-> cols, rows |-> NoRows], old |-> t] IN
         /\ db \in Database
         /\ Exec(db, InsertOld(same)) # Failed
         /\ Then(db, InsertOld(same), DropOld) = [cur |-> Migrated(t, cols), old |-> None]
         /\ Migrated(t, cols) \in Table
<1> DEFINE new == [cols |-> cols, rows |-> NoRows]
           db == [cur |-> new, old |-> t]
           d == [cur |-> Migrated(t, cols), old |-> t]
<1>1. new \in Table /\ new # None /\ t # None
  BY EmptyTable, NoneAssumption
<1>2. db \in Database /\ db.cur = new /\ db.old = t
  BY <1>1 DEF Database
<1>3. new.cols = cols /\ new.rows = NoRows /\ DOMAIN NoRows = {}
  BY DEF NoRows
<1>4. Copied(new, t, same) = Migrated(t, cols)
  <2>1. \A c \in Columns(cols) : c \in same <=> c \in Columns(t.cols)
    OBVIOUS
  <2>2. Copied(new, t, same) =
          [new EXCEPT !.rows =
             [id \in DOMAIN t.rows |->
                [c \in Columns(cols) |-> IF c \in same THEN t.rows[id][c] ELSE None]]]
    BY <1>3 DEF Copied
  <2>3. \A id : [c \in Columns(cols) |-> IF c \in same THEN t.rows[id][c] ELSE None]
               = [c \in Columns(cols) |-> IF c \in Columns(t.cols) THEN t.rows[id][c] ELSE None]
    BY <2>1
  <2> DEFINE row(id) == [c \in Columns(cols) |->
                       IF c \in Columns(t.cols) THEN t.rows[id][c] ELSE None]
  <2>4. Copied(new, t, same) = [new EXCEPT !.rows = [id \in DOMAIN t.rows |-> row(id)]]
    BY <2>2, <2>3
  <2>5. Migrated(t, cols) = [cols |-> cols, rows |-> [id \in DOMAIN t.rows |-> row(id)]]
    BY DEF Migrated
  <2> HIDE DEF row
  <2> QED
    BY <2>4, <2>5
<1> HIDE DEF new
<1>5. Exec(db, InsertOld(same)) = d
  BY <1>1, <1>2, <1>3, <1>4, ExecInsertOld
<1>6. /\ d \in Database /\ d.cur = Migrated(t, cols) /\ d.old = t
      /\ Migrated(t, cols) \in Table
  <2>1. Copied(new, t, same) \in Table
    BY <1>1, <1>3, CopiedIs
  <2> QED
    BY <1>1, <1>4, <2>1 DEF Database
<1>7. Exec(d, DropOld) = [cur |-> Migrated(t, cols), old |-> None]
  BY <1>1, <1>6, ExecDropOld
<1>8. d # Failed
  BY NotFailed
<1> QED
  BY <1>2, <1>5, <1>6, <1>7, <1>8 DEF Then, new

\* To migrate a table to its own columns is to leave it alone.
LEMMA MigratedToItself ==
  ASSUME NEW t \in Table
  PROVE  Migrated(t, t.cols) = t
<1>1. PICK c \in Layout, S \in SUBSET Id : \E r \in [S -> Row(c)] : t = [cols |-> c, rows |-> r]
  BY TableIs
<1>2. PICK r \in [S -> Row(c)] : t = [cols |-> c, rows |-> r]
  BY <1>1
<1>3. t.cols = c /\ t.rows = r /\ DOMAIN r = S
  BY <1>2
<1>4. \A id \in S : [x \in Columns(c) |-> IF x \in Columns(c) THEN r[id][x] ELSE None] = r[id]
  BY DEF Row
<1>5. Migrated(t, c) =
        [cols |-> c,
         rows |-> [id \in S |->
                     [x \in Columns(c) |-> IF x \in Columns(c) THEN r[id][x] ELSE None]]]
  BY <1>3 DEF Migrated
<1>6. [id \in S |-> [x \in Columns(c) |-> IF x \in Columns(c) THEN r[id][x] ELSE None]] = r
  BY <1>4
<1> QED
  BY <1>2, <1>3, <1>5, <1>6

\* The table that an initialization leaves.
LEMMA InitializedCur ==
  ASSUME NEW db \in Database, NEW cols
  PROVE  Initialized(db, cols).cur = IF db.cur = None THEN [cols |-> cols, rows |-> NoRows]
                                     ELSE Migrated(db.cur, cols)
<1>1. db = [cur |-> db.cur, old |-> db.old] /\ db.cur \in Table \cup {None}
  BY FieldsOf
<1>2. CASE db.cur = None
  <2>1. Initialized(db, cols) = [db EXCEPT !.cur = [cols |-> cols, rows |-> NoRows]]
    BY <1>2 DEF Initialized
  <2> QED
    BY <1>1, <1>2, <2>1
<1>3. CASE db.cur # None /\ db.cur.cols = cols
  BY <1>1, <1>3, MigratedToItself DEF Initialized
<1>4. CASE db.cur # None /\ db.cur.cols # cols
  BY <1>4 DEF Initialized
<1> QED
  BY <1>2, <1>3, <1>4

-----------------------------------------------------------------------------
\* A fault hits p.
Hit(p) == hit' = [hit EXCEPT ![p] = TRUE] /\ faults' = faults + 1
\* modify() works: it is not hit, not torn, and asks for no rollback.
Works == UNCHANGED <<undo, torn, faults, hit>>

\* What is done in an initialization that nothing has hit yet: backup_data moves the
\* table away in both databases, unless it is hit itself,
LEMMA BackupDataWorks ==
  ASSUME TypeOK, Shape, NEW p \in Proc, Stage(p), BackupData(p)
  PROVE  \/ Hit(p)
         \/ /\ Works /\ pc'[p] = "create_and_restore"
            /\ \A f \in File : work'[f] = [cur |-> None, old |-> base[f].cur]
<1> DEFINE m == work["main"]
           b == work["backup"]
<1>1. PICK ok \in BOOLEAN : /\ Modify(p, <<DropOldIfExists, RenameToOld>>, ok)
                            /\ Goto(p, IF ok THEN "create_and_restore" ELSE "unlock")
  BY DEF BackupData
<1>2. work = base /\ Was # None /\ Alike(base["main"], base["backup"])
  BY DEF BackupData, Stage, Shape
<1>3. m \in Database /\ b \in Database /\ m.cur # None /\ b.cur # None
  BY <1>2 DEF TypeOK, File, Alike, Was
<1>4. \A d \in {m, b} : /\ Exec(d, DropOldIfExists) # Failed
                        /\ Then(d, DropOldIfExists, RenameToOld) = [cur |-> None, old |-> d.cur]
                        /\ Then(d, DropOldIfExists, RenameToOld) # Failed
  BY <1>3, MovesOld, NotFailed
<1>5. \A f \in File : work[f] # Failed
  BY FailedApart DEF TypeOK
<1>6. \/ /\ ok
         /\ Done(Then(m, DropOldIfExists, RenameToOld), Then(b, DropOldIfExists, RenameToOld))
      \/ Hit(p)
  BY <1>1, <1>4, <1>5, ModifyTwo DEF MainStops, BackupStops, Fails, Hit
<1>7. CASE /\ ok
           /\ Done(Then(m, DropOldIfExists, RenameToOld), Then(b, DropOldIfExists, RenameToOld))
  <2>1. Works /\ pc'[p] = "create_and_restore"
    BY <1>1, <1>7 DEF Done, Works, Goto, TypeOK
  <2>2. work' = [main |-> [cur |-> None, old |-> base["main"].cur],
                 backup |-> [cur |-> None, old |-> base["backup"].cur]]
    BY <1>2, <1>4, <1>7 DEF Done
  <2> QED
    BY <2>1, <2>2 DEF File
<1> QED
  BY <1>6, <1>7

\* create_table makes an empty one,
LEMMA CreateTableWorks ==
  ASSUME TypeOK, Shape, NEW p \in Proc, Stage(p), CreateTable(p)
  PROVE  \/ Hit(p)
         \/ /\ Works
            /\ pc'[p] = IF pc[p] = "create_table" THEN "unlock" ELSE "restore_data"
            /\ \A f \in File : work'[f] = [cur |-> [cols |-> ColsOf[ver[p]], rows |-> NoRows],
                                           old |-> work[f].old]
<1> DEFINE m == work["main"]
           b == work["backup"]
           s == Create(ColsOf[ver[p]])
<1>1. PICK ok \in BOOLEAN : /\ Modify(p, <<s>>, ok)
                            /\ Goto(p, IF ~ok THEN "give_up"
                                       ELSE IF pc[p] = "create_table"
                                            THEN "unlock" ELSE "restore_data")
  BY DEF CreateTable
<1>2. m \in Database /\ b \in Database /\ m.cur = None /\ b.cur = None
  BY DEF TypeOK, File, Alike, Shape, CreateTable, Stage, Was
<1>3. \A d \in {m, b} : 
         /\ Exec(d, s) = [cur |-> [cols |-> ColsOf[ver[p]], rows |-> NoRows], old |-> d.old]
         /\ Exec(d, s) # Failed
  BY <1>2, CreatesNew
<1>4. \A f \in File : work[f] # Failed
  BY FailedApart DEF TypeOK
<1> HIDE DEF s
<1>5. \/ ok /\ Done(Exec(m, s), Exec(b, s))
      \/ Hit(p)
  BY <1>1, <1>3, <1>4, ModifyOne DEF MainStops, BackupStops, Fails, Hit
<1>6. CASE ok /\ Done(Exec(m, s), Exec(b, s))
  <2>1. Works /\ pc'[p] = IF pc[p] = "create_table" THEN "unlock" ELSE "restore_data"
    BY <1>1, <1>6 DEF Done, Works, Goto, TypeOK
  <2>2. work' = [main |-> [cur |-> [cols |-> ColsOf[ver[p]], rows |-> NoRows], old |-> m.old],
                 backup |-> [cur |-> [cols |-> ColsOf[ver[p]], rows |-> NoRows], old |-> b.old]]
    BY <1>3, <1>6 DEF Done
  <2> QED
    BY <2>1, <2>2 DEF File
<1> QED
  BY <1>5, <1>6

\* and restore_data fills it and drops the old one.
LEMMA RestoreDataWorks ==
  ASSUME TypeOK, Shape, NEW p \in Proc, Stage(p), RestoreData(p)
  PROVE  \/ Hit(p)
         \/ /\ Works /\ pc'[p] = "unlock"
            /\ \A f \in File : work'[f] = [cur |-> Migrated(base[f].cur, ColsOf[ver[p]]),
                                           old |-> None]
<1> DEFINE m == work["main"]
           b == work["backup"]
           s == InsertOld(SameCols(p))
           cols == ColsOf[ver[p]]
           new(f) == [cur |-> Migrated(base[f].cur, cols), old |-> None]
<1>1. PICK ok \in BOOLEAN : Modify(p, <<s, DropOld>>, ok)
  BY DEF RestoreData, RestoreCommand
<1>2. /\ Was # None /\ known[p] = Columns(Was.cols)
      /\ Alike(base["main"], base["backup"])
      /\ \A f \in File :
            work[f] = [cur |-> [cols |-> ColsOf[ver[p]], rows |-> NoRows], old |-> base[f].cur]
  BY DEF RestoreData, Stage, Shape
<1>3. \A f \in File : /\ base[f].cur \in Table
                      /\ SameCols(p) = Columns(base[f].cur.cols) \cap Columns(ColsOf[ver[p]])
  <2>1. \A f \in File : base[f].cur # None /\ base[f].cur.cols = Was.cols
    BY <1>2 DEF Alike, File, Was
  <2>2. \A f \in File : base[f].cur \in Table \cup {None}
    BY FieldsOf DEF TypeOK
  <2> QED
    BY <1>2, <2>1, <2>2 DEF SameCols
<1>4. \A f \in File : Exec(work[f], s) # Failed /\ Then(work[f], s, DropOld) = new(f)
  <2> SUFFICES ASSUME NEW f \in File
               PROVE  Exec(work[f], s) # Failed /\ Then(work[f], s, DropOld) = new(f)
    OBVIOUS
  <2> DEFINE t == base[f].cur
  <2>1. t \in Table /\ cols \in Layout /\ SameCols(p) = Columns(t.cols) \cap Columns(cols)
    BY <1>3, Commands
  <2>2. work[f] = [cur |-> [cols |-> cols, rows |-> NoRows], old |-> t]
    BY <1>2
  <2> HIDE DEF cols, t
  <2>3. /\ Exec(work[f], s) # Failed
        /\ Then(work[f], s, DropOld) = [cur |-> Migrated(t, cols), old |-> None]
    BY <2>1, <2>2, CopiesOld
  <2> QED
    BY <2>3 DEF t
<1>5. \A f \in File : work[f] # Failed /\ new(f) # Failed
  BY FailedApart, NotFailed DEF TypeOK
<1> HIDE DEF s, new
<1>6. \/ ok /\ Done(Then(m, s, DropOld), Then(b, s, DropOld))
      \/ Hit(p)
  BY <1>1, <1>4, <1>5, ModifyTwo DEF MainStops, BackupStops, Fails, Hit, File
<1>7. CASE ok /\ Done(Then(m, s, DropOld), Then(b, s, DropOld))
  <2>1. Works /\ pc'[p] = "unlock"
    BY <1>7 DEF Done, Works, RestoreData, Goto, TypeOK
  <2>2. work' = [main |-> new("main"), backup |-> new("backup")]
    BY <1>4, <1>7 DEF Done, File
  <2>3. \A f \in File : work'[f] = new(f)
    BY <2>2 DEF File
  <2> QED
    BY <2>1, <2>3 DEF new
<1> QED
  BY <1>6, <1>7

\* Another process keeps its stage when p does nothing to the databases.
LEMMA StageKept ==
  ASSUME NEW q \in Proc, UNCHANGED <<base, work>>, Stage(q),
         pc'[q] = pc[q], ver'[q] = ver[q], known'[q] = known[q]
  PROVE  Stage(q)'
BY DEF Stage, Was

\* modify() does not make an earlier fault undone.
LEMMA HitStays ==
  ASSUME TypeOK, NEW p \in Proc, BackupData(p) \/ CreateTable(p) \/ RestoreData(p),
         NEW q \in Proc, ~hit'[q]
  PROVE  ~hit[q]
<1>1. \A cmd, ok : Modify(p, cmd, ok) => hit' = hit \/ hit' = [hit EXCEPT ![p] = TRUE]
  BY DEF Modify
<1>2. hit' = hit \/ hit' = [hit EXCEPT ![p] = TRUE]
  BY <1>1 DEF BackupData, CreateTable, RestoreData
<1> QED
  BY <1>2 DEF TypeOK

\* Every step keeps Stages.
LEMMA StagesStep == TypeOK /\ Ownership /\ Shape /\ Stages /\ [Next]_vars => Stages'
<1> SUFFICES ASSUME TypeOK, Ownership, Shape, Stages, [Next]_vars,
                    NEW q \in Proc, owner' = q, ~hit'[q]
             PROVE  undo' = FALSE /\ Stage(q)'
  BY DEF Stages
<1> USE DEF dbVars, procVars, history
<1>1. None \notin Proc
  BY TableAssumption
<1>2. owner = q /\ ~hit[q] => undo = FALSE /\ Stage(q) /\ pc[q] \in Inside
  BY DEF Stages, Ownership
<1>3. ASSUME NEW p \in Proc, Start(p) PROVE undo' = FALSE /\ Stage(q)'
  <2>1. p # q /\ owner = q
    BY <1>3 DEF Start, Ownership, Inside
  <2> QED
    BY <1>2, <1>3, <2>1, StageKept DEF Start, Goto, TypeOK
<1>4. ASSUME NEW p \in Proc, GetBackup(p) \/ Unlock(p) \/ Add(p) PROVE FALSE
  BY <1>1, <1>4 DEF GetBackup, Unlock, Add
<1>5. ASSUME NEW p \in Proc, Lock(p) PROVE undo' = FALSE /\ Stage(q)'
  <2>1. p = q /\ pc'[q] = "inspect" /\ work' = base' /\ undo' = FALSE
    BY <1>1, <1>5 DEF Lock, Goto, TypeOK, Ownership
  <2> QED
    BY <2>1 DEF Stage
<1>6. ASSUME NEW p \in Proc, Inspect(p) PROVE undo' = FALSE /\ Stage(q)'
  <2>1. p = q /\ owner = q /\ UNCHANGED <<base, work, undo, ver>>
    BY <1>6 DEF Inspect, Ownership, Inside
  <2>2. ~hit[q] /\ work = base
    BY <1>6, <2>1, <1>2 DEF Inspect, TypeOK, Stage
  <2>3. \/ Was = None /\ pc'[q] = "create_table"
        \/ /\ Was # None /\ Was.cols # ColsOf[ver[q]]
           /\ pc'[q] = "backup_data" /\ known'[q] = Columns(Was.cols)
        \/ Was # None /\ Was.cols = ColsOf[ver[q]] /\ pc'[q] = "unlock"
    BY <1>6, <2>1, <2>2 DEF Inspect, Goto, TypeOK, Was, IsChanged
  <2>4. Was # None /\ Was.cols = ColsOf[ver[q]] =>
          Initialized(base["main"], ColsOf[ver[q]]) = base["main"]
    BY DEF Initialized, Was
  <2> QED
    BY <1>2, <2>1, <2>2, <2>3, <2>4 DEF Stage, Was
<1>7. ASSUME NEW p \in Proc, BackupData(p) PROVE undo' = FALSE /\ Stage(q)'
  <2>1. p = q /\ owner = q /\ UNCHANGED <<base, ver, known>>
    BY <1>7 DEF BackupData, Ownership, Inside
  <2>2. ~hit[q] /\ Stage(q)
    BY <1>2, <1>7, <2>1, HitStays
  <2>3. /\ Works /\ pc'[q] = "create_and_restore"
        /\ \A f \in File : work'[f] = [cur |-> None, old |-> base[f].cur]
    BY <1>7, <2>1, <2>2, BackupDataWorks DEF Hit, TypeOK
  <2> QED
    BY <1>2, <1>7, <2>1, <2>2, <2>3 DEF Stage, Was, Works, BackupData
<1>8. ASSUME NEW p \in Proc, CreateTable(p) PROVE undo' = FALSE /\ Stage(q)'
  <2>1. p = q /\ owner = q /\ UNCHANGED <<base, ver, known>>
    BY <1>8 DEF CreateTable, Ownership, Inside
  <2>2. ~hit[q] /\ Stage(q) /\ undo = FALSE
    BY <1>2, <1>8, <2>1, HitStays
  <2>3. /\ Works
        /\ pc'[q] = IF pc[q] = "create_table" THEN "unlock" ELSE "restore_data"
        /\ \A f \in File : work'[f] = [cur |-> [cols |-> ColsOf[ver[q]], rows |-> NoRows],
                                       old |-> work[f].old]
    BY <1>8, <2>1, <2>2, CreateTableWorks DEF Hit, TypeOK
  <2>4. CASE pc[q] = "create_table"
    <3>1. work = base /\ base["main"].cur = None /\ base["main"] \in Database
      BY <2>2, <2>4 DEF Stage, Was, TypeOK, File
    <3>2. Initialized(base["main"], ColsOf[ver[q]]) =
            [cur |-> [cols |-> ColsOf[ver[q]], rows |-> NoRows], old |-> base["main"].old]
      <4>1. Initialized(base["main"], ColsOf[ver[q]]) =
              [base["main"] EXCEPT !.cur = [cols |-> ColsOf[ver[q]], rows |-> NoRows]]
        BY <3>1 DEF Initialized
      <4> QED
        BY <3>1, <4>1, FieldsOf
    <3>3. work'["main"] = Initialized(base["main"], ColsOf[ver[q]])
      BY <2>3, <3>1, <3>2 DEF File
    <3>4. \A f \in File : work'[f].old = base[f].old
      <4> SUFFICES ASSUME NEW f \in File PROVE work'[f].old = base[f].old
        OBVIOUS
      <4>1. work'[f] = [cur |-> [cols |-> ColsOf[ver[q]], rows |-> NoRows], old |-> work[f].old]
        BY <2>3, Zenon
      <4> QED
        BY <3>1, <4>1
    <3> QED
      BY <2>1, <2>2, <2>3, <2>4, <3>3, <3>4 DEF Stage, Works
  <2>5. CASE pc[q] = "create_and_restore"
    <3>1. pc'[q] = "restore_data"
      BY <2>3, <2>5
    <3>2. \A f \in File : work[f].old = base[f].cur
      <4>1. \A f \in File : work[f] = [cur |-> None, old |-> base[f].cur]
        BY <2>2, <2>5 DEF Stage
      <4>2. \A x : [cur |-> None, old |-> x].old = x
        OBVIOUS
      <4> QED
        BY <4>1, <4>2
    <3>3. \A f \in File : work'[f] = [cur |-> [cols |-> ColsOf[ver'[q]], rows |-> NoRows],
                                      old |-> base'[f].cur]
      BY <2>1, <2>3, <3>2
    <3>4. Was' # None /\ known'[q] = Columns(Was'.cols) /\ Was'.cols # ColsOf[ver'[q]]
      BY <2>1, <2>2, <2>5 DEF Stage, Was
    <3> QED
      BY <2>2, <2>3, <3>1, <3>3, <3>4 DEF Stage, Works
  <2> QED
    BY <1>8, <2>1, <2>4, <2>5 DEF CreateTable
<1>9. ASSUME NEW p \in Proc, RestoreData(p) PROVE undo' = FALSE /\ Stage(q)'
  <2>1. p = q /\ owner = q /\ UNCHANGED <<base, ver, known>> /\ pc[q] = "restore_data"
    BY <1>9 DEF RestoreData, Ownership, Inside
  <2>2. ~hit[q] /\ Stage(q) /\ undo = FALSE
    BY <1>2, <1>9, <2>1, HitStays
  <2>3. /\ Works /\ pc'[q] = "unlock"
        /\ \A f \in File : work'[f] = [cur |-> Migrated(base[f].cur, ColsOf[ver[q]]),
                                       old |-> None]
    BY <1>9, <2>1, <2>2, RestoreDataWorks DEF Hit, TypeOK
  <2>4. Was # None /\ Was.cols # ColsOf[ver[q]]
    BY <2>1, <2>2 DEF Stage
  <2>5. work'["main"] = Initialized(base["main"], ColsOf[ver[q]])
    BY <2>3, <2>4 DEF Initialized, Was, File
  <2>6. \A f \in File : work'[f].old = None
    <3> SUFFICES ASSUME NEW f \in File PROVE work'[f].old = None
      OBVIOUS
    <3>1. work'[f] = [cur |-> Migrated(base[f].cur, ColsOf[ver[q]]), old |-> None]
      BY <2>3, Zenon
    <3> QED
      BY <3>1
  <2> QED
    BY <2>1, <2>2, <2>3, <2>5, <2>6 DEF Stage, Works
<1>10. ASSUME NEW p \in Proc, Retry(p) PROVE undo' = FALSE /\ Stage(q)'
  <2>1. p # q /\ owner = q
    BY <1>10 DEF Retry, Ownership, Inside
  <2> QED
    BY <1>2, <1>10, <2>1, StageKept DEF Retry, Goto, TypeOK
<1>11. ASSUME NEW p \in Proc, Stop(p) PROVE undo' = FALSE /\ Stage(q)'
  <2>1. p # q /\ owner = q
    BY <1>1, <1>11 DEF Stop, Ownership, Inside
  <2> QED
    BY <1>2, <1>11, <2>1, StageKept DEF Stop, Goto, TypeOK
<1>12. CASE UNCHANGED vars
  BY <1>2, <1>12, StageKept DEF vars
<1> QED
  BY <1>3, <1>4, <1>5, <1>6, <1>7, <1>8, <1>9, <1>10, <1>11, <1>12 DEF Next, InitTab

\* Rows keep true values when they are migrated, and when a row is added to a table
\* that has the columns of the program that adds it.
LEMMA MigratedTrue ==
  ASSUME NEW t, NEW cols, TrueValues(t)
  PROVE  TrueValues(Migrated(t, cols))
BY DEF Migrated, TrueValues

\* ... the latter.
LEMMA InsertedTrue ==
  ASSUME NEW t \in Table, TrueValues(t), NEW id \in Id, NEW cols \in Layout, t.cols = cols
  PROVE  TrueValues(Inserted(t, id, cols))
<1> DEFINE row == [x \in Columns(t.cols) |-> cols[CHOOSE k \in DOMAIN cols : t.cols[k] = x]]
           r == [i \in DOMAIN t.rows \cup {id} |-> IF i # id THEN t.rows[i] ELSE row]
<1>1. Inserted(t, id, cols) = [t EXCEPT !.rows = r]
  BY DEF Inserted
<1>2. \A x \in Columns(cols) : row[x] = x
  BY DEF Columns
<1> HIDE DEF row
<1>3. \A i \in DOMAIN r : \A x \in Columns(cols) : r[i][x] \in {x, None}
  BY <1>2 DEF TrueValues
<1> HIDE DEF r
<1>4. \E c, y : t = [cols |-> c, rows |-> y]
  BY TableIs
<1> QED
  BY <1>1, <1>3, <1>4 DEF TrueValues

\* Every step keeps Calm.
LEMMA CalmStep ==
  TypeOK /\ Ownership /\ Shape /\ Stages /\ Calm /\ [Next]_vars => Calm'
<1> SUFFICES ASSUME TypeOK, Ownership, Shape, Stages, Calm, [Next]_vars, faults' = 0
             PROVE  Calm'
  BY DEF Calm
<1> USE DEF dbVars, procVars, history
<1>1. None \notin Proc /\ faults \in Nat
  BY TableAssumption DEF TypeOK
<1>2. ASSUME NEW p \in Proc, Start(p) PROVE Calm'
  <2>1. PICK v \in Version :
          /\ \A q \in Proc : pc[q] # "down" => ver[q] = v
          /\ ver' = [ver EXCEPT ![p] = v]
          /\ faults = 0
    <3>1. PICK v \in Version, n \in 0 .. 1 :
            /\ n = 1 <=> \E q \in Proc : pc[q] # "down" /\ ver[q] # v
            /\ faults' = faults + n
            /\ ver' = [ver EXCEPT ![p] = v]
      BY <1>2 DEF Start, Fault
    <3>2. n = 0 /\ faults = 0
      BY <1>1, <3>1
    <3>3. \A q \in Proc : pc[q] # "down" => ver[q] = v
      BY <3>1, <3>2
    <3> QED
      BY <3>1, <3>2, <3>3
  <2> QED
    BY <1>2, <2>1 DEF Start, Goto, TypeOK, Calm, Was
<1>3. ASSUME NEW p \in Proc, GetBackup(p) PROVE Calm'
  BY <1>3 DEF GetBackup, Goto, TypeOK, Calm, Was, File
<1>4. ASSUME NEW p \in Proc, Lock(p) PROVE Calm'
  BY <1>4 DEF Lock, Goto, TypeOK, Calm, Was
<1>5. ASSUME NEW p \in Proc, Inspect(p) PROVE Calm'
  <2>1. ~Fault("exists", 1) /\ ~Fault("columns", 1)
    BY <1>1 DEF Fault
  <2> QED
    BY <1>5, <2>1 DEF Inspect, Goto, TypeOK, Calm, Was
<1>6. ASSUME NEW p \in Proc, BackupData(p) \/ CreateTable(p) \/ RestoreData(p) PROVE Calm'
  <2>1. owner = p /\ pc[p] # "failed"
    BY <1>6 DEF BackupData, CreateTable, RestoreData, Ownership, Inside
  <2>2. faults = 0
    <3>1. \A cmd, ok : Modify(p, cmd, ok) =>
            UNCHANGED faults \/ \E n \in 0 .. 1 : faults' = faults + n
      BY DEF Modify, Fault
    <3>2. UNCHANGED faults \/ \E n \in 0 .. 1 : faults' = faults + n
      BY <1>6, <3>1 DEF BackupData, CreateTable, RestoreData
    <3>3. CASE \E n \in 0 .. 1 : faults' = faults + n
      BY <1>1, <3>3
    <3> QED
      BY <3>2, <3>3
  <2>3. ~Hit(p)
    BY <1>1 DEF Hit
  <2>4. Stage(p)
    BY <2>1, <2>2 DEF Stages, Calm
  <2>5. Works
    BY <1>6, <2>3, <2>4, BackupDataWorks, CreateTableWorks, RestoreDataWorks
  <2>6. PICK l \in Inside : pc' = [pc EXCEPT ![p] = l]
    BY <1>6, ModifySteps
  <2>7. pc[p] \in Inside /\ UNCHANGED <<base, ver>>
    BY <1>6, ModifySteps
  <2> QED
    BY <2>2, <2>5, <2>6, <2>7 DEF Works, Calm, Was, TypeOK, Inside
<1>7. ASSUME NEW p \in Proc, Unlock(p) PROVE Calm'
  <2>1. faults = 0 /\ owner = p /\ undo = FALSE /\ Stage(p)
    BY <1>7 DEF Unlock, Ownership, Inside, Stages, Calm
  <2>2. pc[p] = "unlock" /\ base' = work /\ pc' = [pc EXCEPT ![p] = "up"]
    BY <1>7, <2>1 DEF Unlock, Finish, Stage, Goto
  <2>3. Was' = IF Was = None THEN [cols |-> ColsOf[ver[p]], rows |-> NoRows]
               ELSE Migrated(Was, ColsOf[ver[p]])
    <3>1. Was' = Initialized(base["main"], ColsOf[ver[p]]).cur /\ base["main"] \in Database
      BY <2>1, <2>2 DEF Stage, Was, TypeOK, File
    <3> QED
      BY <3>1, InitializedCur DEF Was
  <2>4. Was' # None /\ Was'.cols = ColsOf[ver[p]] /\ TrueValues(Was')
    <3>1. CASE Was = None
      <4>1. Was' = [cols |-> ColsOf[ver[p]], rows |-> NoRows]
        BY <2>3, <3>1
      <4>2. Was' # None
        BY <4>1, Commands, EmptyTable, NoneAssumption
      <4> QED
        BY <4>1, <4>2 DEF TrueValues, NoRows
    <3>2. CASE Was # None
      <4>1. Was' = Migrated(Was, ColsOf[ver[p]]) /\ TrueValues(Was)
        BY <2>1, <2>3, <3>2 DEF Calm
      <4>2. Was' # None
        <5>1. Was \in Table
          BY <3>2, FieldsOf DEF TypeOK, Was, File
        <5> QED
          BY <4>1, <5>1, Commands, CopiesOld, NoneAssumption
      <4>3. Was'.cols = ColsOf[ver[p]]
        BY <4>1 DEF Migrated
      <4> QED
        BY <4>1, <4>2, <4>3, MigratedTrue
    <3> QED
      BY <3>1, <3>2
  <2>5. \A q \in Proc : pc'[q] # "down" => ver'[q] = ver[p] /\ ~hit'[q] /\ pc'[q] # "failed"
    BY <1>7, <2>1, <2>2 DEF Unlock, Calm, TypeOK
  <2>6. \A f \in File : base'[f].old = None
    BY <2>1, <2>2 DEF Stage, Calm
  <2>7. \A q \in Proc : ~hit'[q] /\ pc'[q] # "failed"
    BY <1>7, <2>1, <2>2 DEF Unlock, Calm, TypeOK
  <2>8. ~torn' /\ UNCHANGED ver
    BY <1>7, <2>1 DEF Unlock, Calm
  <2> QED
    BY <2>4, <2>5, <2>6, <2>7, <2>8 DEF Calm
<1>8. ASSUME NEW p \in Proc, Retry(p) PROVE Calm'
  BY <1>8 DEF Retry, Goto, TypeOK, Calm, Was
<1>9. ASSUME NEW p \in Proc, Add(p) PROVE Calm'
  <2>0. faults = 0 /\ UNCHANGED <<pc, ver, hit, torn>> /\ pc[p] = "up"
    BY <1>9 DEF Add
  <2> DEFINE cols == ColsOf[ver[p]]
  <2>1. PICK id \in Id :
          /\ \A f \in File : Exec(base[f], InsertRow(id, cols)) # Failed
          /\ base' = [f \in File |-> Exec(base[f], InsertRow(id, cols))]
    BY <1>9 DEF Add
  <2>2. /\ base["main"] \in Database /\ Was \in Table
        /\ Was.cols = cols /\ cols \in Layout /\ TrueValues(Was)
    BY <2>0, Commands, FieldsOf DEF Calm, TypeOK, Was, File
  <2>3. \A f \in File : base[f] \in Database /\ base[f].old = None
    BY <2>0 DEF Calm, TypeOK
  <2> HIDE DEF cols
  <2>4. Was' = Inserted(Was, id, cols)
    BY <2>1, <2>2, ExecInsertRow DEF File, Was
  <2>5. Was' \in Table /\ Was'.cols = cols
    BY <2>2, <2>4, InsertedIs
  <2>6. TrueValues(Was')
    BY <2>2, <2>4, InsertedTrue
  <2>7. \A f \in File : base'[f].old = None
    BY <2>1, <2>3, ExecInsertRow
  <2> QED
    BY <2>0, <2>2, <2>5, <2>6, <2>7, NoneAssumption DEF Calm
<1>10. ASSUME NEW p \in Proc, Stop(p) PROVE Calm'
  BY <1>10 DEF Stop, Goto, TypeOK, Calm, Was
<1>11. CASE UNCHANGED vars
  BY <1>11 DEF vars, Calm, Was
<1> QED
  BY <1>2, <1>3, <1>4, <1>5, <1>6, <1>7, <1>8, <1>9, <1>10, <1>11 DEF Next, InitTab

\* The invariant holds when no process has started.
LEMMA IInvInit == Init => IInv
<1> SUFFICES ASSUME Init PROVE IInv
  OBVIOUS
<1>1. TypeOK
  BY TypeInit
<1>2. Ownership
  BY TableAssumption DEF Init, Ownership, Inside
<1>3. Shape /\ Copies
  BY DEF Init, Shape, Copies, Alike, NoTable, File
<1>4. Stages
  BY TableAssumption DEF Init, Stages
<1>5. Calm
  BY DEF Init, Calm, NoTable, File, Was
<1> QED
  BY <1>1, <1>2, <1>3, <1>4, <1>5 DEF IInv

\* Every reachable state satisfies the inductive invariant.
THEOREM Inductive == Spec => []IInv
<1>1. IInv /\ [Next]_vars => IInv'
  BY TypeStep, OwnershipStep, ShapeStep, CopiesStep, StagesStep, CalmStep DEF IInv
<1> QED
  BY IInvInit, <1>1, PTL DEF Spec

\* Every variable keeps its type: whatever statements fail, init_tab (table.c:788) has
\* made tables with the columns of some version, and at most one renamed table.
THEOREM TypeCorrect == Spec => []TypeOK
<1>1. IInv => TypeOK
  BY DEF IInv
<1> QED
  BY Inductive, <1>1, PTL

\* Main and backup hold the same tables after every transaction (modify and unlock,
\* backup.c), unless a command stopped half-way in main.
THEOREM CopiesStayEqual == Spec => []CopiesAgree
<1>1. IInv => CopiesAgree
  BY DEF IInv, Copies, CopiesAgree
<1> QED
  BY Inductive, <1>1, PTL

\* As long as no statement fails, a migration that is interrupted at any point, by the
\* end of its process, leaves no renamed table (backup_data and restore_data).
THEOREM NothingIsLeft == Spec => []NothingLeftOver
<1>1. IInv => NothingLeftOver
  BY DEF IInv, Calm, NothingLeftOver
<1> QED
  BY Inductive, <1>1, PTL

\* As long as the running programs have one version and no statement fails, no value
\* gets into the column of another (db_add_row writes by position).
THEOREM ValuesStay == Spec => []ValuesInTheirColumns
<1>1. IInv => ValuesInTheirColumns
  BY DEF IInv, Calm, TrueValues, Was, ValuesInTheirColumns
<1> QED
  BY Inductive, <1>1, PTL

\* What an initialization commits that nothing has hit.
LEMMA InitializesPreserves ==
  ASSUME IInv, [Next]_vars, NEW p \in Proc, Initializes(p), ~hit[p]
  PROVE  Preserves(p)
<1>1. Unlock(p)
  <2>1. /\ pc \in [Proc -> PC] /\ owner = p /\ pc'[p] \notin Inside /\ pc'[p] # "down"
        /\ pc'[p] # "opened" /\ pc'[p] # "start" /\ pc'[p] # pc[p]
    BY DEF Initializes, IInv, TypeOK, Ownership, Inside
  <2>2. ASSUME NEW q \in Proc, Start(q) \/ GetBackup(q) \/ Retry(q) \/ Stop(q) \/ Lock(q)
        PROVE  FALSE
    BY <2>1, <2>2 DEF Start, GetBackup, Retry, Stop, Lock, Goto, Inside
  <2>3. ASSUME NEW q \in Proc, Inspect(q) \/ BackupData(q) \/ CreateTable(q) \/ RestoreData(q)
        PROVE  FALSE
    BY <2>1, <2>3, ModifySteps DEF IInv, Inspect, Goto, Inside
  <2>4. ASSUME NEW q \in Proc, Unlock(q) PROVE Unlock(p)
    BY <2>1, <2>4 DEF Unlock, IInv, Ownership, Inside
  <2>5. ASSUME NEW q \in Proc, Add(q) PROVE FALSE
    BY <2>1, <2>5 DEF Add, procVars
  <2>6. CASE UNCHANGED vars
    BY <2>1, <2>6 DEF vars, procVars
  <2> QED
    BY <2>2, <2>3, <2>4, <2>5, <2>6 DEF Next, InitTab
<1>2. owner = p /\ undo = FALSE /\ Stage(p)
  BY <1>1 DEF Unlock, IInv, Ownership, Inside, Stages
<1>3. pc[p] = "unlock" /\ base' = work
  BY <1>1, <1>2 DEF Unlock, Finish, Stage
<1> QED
  BY <1>2, <1>3 DEF Stage, Was, Preserves

\* An initialization in which nothing fails makes of main what the columns of the
\* program ask for: the table that was there is kept with its rows and the values of the
\* columns both have; the renamed table of an earlier failure is not restored.
THEOREM MigrationWorks == Spec => MigrationKeepsRows
<1>1. IInv /\ [Next]_vars => [\A p \in Proc : Initializes(p) /\ ~hit[p] => Preserves(p)]_vars
  BY InitializesPreserves
<1> QED
  BY Inductive, <1>1, PTL DEF Spec, MigrationKeepsRows
===============================================================================
