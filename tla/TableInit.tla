----------------------------- MODULE TableInit -----------------------------
(***************************************************************************)
(* Creation and migration of a table (init_tab, table.c): a program whose  *)
(* columns differ from those of the stored table renames the old one,      *)
(* creates a new one, copies the columns both have, and drops the old one. *)
(*                                                                         *)
(* All of it runs in one transaction of the layer below, under its lock;   *)
(* module DbBackup shows that transactions exclude each other and that a   *)
(* crash takes them back, so here a transaction is a working copy of the   *)
(* two databases that unlock() installs or drops.  What this module adds   *)
(* is modify() with a command of several statements: sqlite3_exec stops at *)
(* the first one that fails and the earlier ones stay in the transaction.  *)
(***************************************************************************)
EXTENDS Naturals, Sequences, FiniteSets

CONSTANTS
  Proc,       \* processes that open the table
  Version,    \* versions of the program
  ColsOf,     \* the columns each version declares, in order
  Id,         \* row ids
  Faults,     \* which of FaultKinds may happen
  MaxFaults,  \* how many faults may happen in a run
  None        \* no table, no owner, no value

FaultKinds ==
  { "exists",   \* the query of db_table_exists fails
    "columns",  \* the PRAGMA of db_get_col_name_list fails
    "main",     \* a statement fails in main
    "backup",   \* a statement fails in the backup
    "mixed" }   \* a version starts while a process of another one runs

Columns(cols) == {cols[i] : i \in DOMAIN cols}
Column == UNION {Columns(ColsOf[v]) : v \in Version}

ASSUME TableAssumption ==
  /\ ColsOf \in [Version -> Seq(Column)]
  /\ \A v \in Version : \A i, j \in DOMAIN ColsOf[v] :
       ColsOf[v][i] = ColsOf[v][j] => i = j
  /\ Version # {}
  /\ Faults \subseteq FaultKinds
  /\ MaxFaults \in Nat
  /\ None \notin Proc \cup Column

File == {"main", "backup"}
PC == { "down", "start", "opened", "inspect", "backup_data", "create_table",
        "create_and_restore", "restore_data", "unlock", "give_up",
        "up", "failed" }

VARIABLES
  base,    \* the committed databases: the table, and what backup_data renamed
  work,    \* the databases as the open transaction sees them, or base
  undo,    \* need_rollback
  owner,   \* who is between lock() and unlock()
  pc,      \* where each process is in init_tab
  ver,     \* its version
  known,   \* the columns that cols_is_changed has read
  hit,     \* history: a fault happened in its initialization
  torn,    \* history: a command stopped between two statements in main
  faults   \* how many faults happened

dbVars == <<base, work, undo, owner>>
procVars == <<pc, ver, known>>
history == <<hit, torn, faults>>
vars == <<dbVars, procVars, history>>

\* In a row each column holds the value written for some column, or none.
Row(cols) == [Columns(cols) -> Column \cup {None}]
Layout == {ColsOf[v] : v \in Version}
Table ==
  UNION {[cols : {c}, rows : UNION {[S -> Row(c)] : S \in SUBSET Id}] : c \in Layout}
Database == [cur : Table \cup {None}, old : Table \cup {None}]

ASSUME NoneAssumption == None \notin Table

TypeOK ==
  /\ base \in [File -> Database]
  /\ work \in [File -> Database]
  /\ undo \in BOOLEAN
  /\ owner \in Proc \cup {None}
  /\ pc \in [Proc -> PC]
  /\ ver \in [Proc -> Version]
  /\ known \in [Proc -> SUBSET Column]
  /\ hit \in [Proc -> BOOLEAN]
  /\ torn \in BOOLEAN
  /\ faults \in 0 .. MaxFaults

NoTable == [cur |-> None, old |-> None]

Init ==
  /\ base = [f \in File |-> NoTable]
  /\ work = base
  /\ undo = FALSE
  /\ owner = None
  /\ pc = [p \in Proc |-> "down"]
  /\ ver = [p \in Proc |-> CHOOSE v \in Version : TRUE]  \* Start chooses
  /\ known = [p \in Proc |-> {}]
  /\ hit = [p \in Proc |-> FALSE]
  /\ torn = FALSE
  /\ faults = 0

Goto(p, label) == pc' = [pc EXCEPT ![p] = label]

\* Something fails (n = 1), or nothing does (n = 0).
Fault(kind, n) ==
  /\ n = 1 => kind \in Faults /\ faults < MaxFaults
  /\ faults' = faults + n

-----------------------------------------------------------------------------
(* Statements *)

Failed == [failed |-> TRUE]
NoRows == [id \in {} |-> None]

DropOldIfExists == [do |-> "drop_old_if_exists"]
RenameToOld == [do |-> "rename_to_old"]
Create(cols) == [do |-> "create", cols |-> cols]
InsertOld(same) == [do |-> "insert_old", same |-> same]
DropOld == [do |-> "drop_old"]
InsertRow(id, cols) == [do |-> "insert_row", id |-> id, cols |-> cols]

\* INSERT INTO t(id, same) SELECT id, same FROM t.old
Copied_Whole(new, old, same) == [new EXCEPT !.rows = old.rows]
Copied(new, old, same) ==
  [new EXCEPT !.rows =
     [id \in DOMAIN new.rows \cup DOMAIN old.rows |->
        IF id \in DOMAIN new.rows THEN new.rows[id]
        ELSE [c \in Columns(new.cols) |->
                IF c \in same THEN old.rows[id][c] ELSE None]]]

\* INSERT INTO t VALUES(null, ...): the values go by position.
Inserted(t, id, cols) ==
  [t EXCEPT !.rows =
     [i \in DOMAIN t.rows \cup {id} |->
        IF i # id THEN t.rows[i]
        ELSE [c \in Columns(t.cols) |->
                cols[CHOOSE k \in DOMAIN cols : t.cols[k] = c]]]]

\* The database after one statement, or Failed.
Exec(db, s) ==
  CASE s.do = "drop_old_if_exists" -> [db EXCEPT !.old = None]
    [] s.do = "rename_to_old" ->
         IF db.cur = None \/ db.old # None THEN Failed
         ELSE [cur |-> None, old |-> db.cur]
    [] s.do = "create" ->
         IF db.cur # None THEN db
         ELSE [db EXCEPT !.cur = [cols |-> s.cols, rows |-> NoRows]]
    [] s.do = "insert_old" ->
         IF db.cur = None \/ db.old = None THEN Failed
         ELSE IF ~(s.same \subseteq Columns(db.cur.cols) \cap Columns(db.old.cols))
                 \/ DOMAIN db.cur.rows \cap DOMAIN db.old.rows # {}
              THEN Failed
         ELSE [db EXCEPT !.cur = Copied(@, db.old, s.same)]
    [] s.do = "drop_old" ->
         IF db.old = None THEN Failed ELSE [db EXCEPT !.old = None]
    [] s.do = "insert_row" ->
         IF db.cur = None THEN Failed
         ELSE IF Len(db.cur.cols) # Len(s.cols) THEN Failed
         ELSE [db EXCEPT !.cur = Inserted(@, s.id, s.cols)]

\* The database after each prefix of a command.
Prefixes(db, cmd) ==
  LET after[k \in 0 .. Len(cmd)] ==
        IF k = 0 THEN db
        ELSE IF after[k - 1] = Failed THEN Failed
        ELSE Exec(after[k - 1], cmd[k])
  IN after

\* sqlite3_exec stops after k statements: at the end, at one that fails by
\* itself (n = 0), or at one that is made to fail (n = 1).
StopsAfter(after, k, n) ==
  /\ after[k] # Failed
  /\ IF k + 1 \notin DOMAIN after \/ after[k + 1] = Failed THEN n = 0 ELSE n = 1

SetUndo_Forgotten == UNCHANGED undo
SetUndo == undo' = TRUE

\* modify() of backup.c: the command in main, and when all of it went well in the
\* backup; when that fails both are to be rolled back.
Modify(p, cmd, ok) ==
  LET main == Prefixes(work["main"], cmd)
      backup == Prefixes(work["backup"], cmd) IN
  \E k, j \in 0 .. Len(cmd), n \in 0 .. 1 :
    /\ work' = [main |-> main[k], backup |-> backup[j]]
    /\ ok <=> k = Len(cmd) /\ j = Len(cmd)
    /\ \/ /\ k < Len(cmd) /\ j = 0
          /\ StopsAfter(main, k, n) /\ Fault("main", n)
          /\ torn' = (torn \/ k > 0)
          /\ UNCHANGED undo
       \/ /\ k = Len(cmd) /\ main[k] # Failed /\ j < Len(cmd)
          /\ StopsAfter(backup, j, n) /\ Fault("backup", n)
          /\ SetUndo
          /\ UNCHANGED torn
       \/ /\ k = Len(cmd) /\ j = Len(cmd) /\ n = 0
          /\ main[k] # Failed /\ backup[j] # Failed
          /\ UNCHANGED <<undo, torn, faults>>
    /\ hit' = IF n = 1 THEN [hit EXCEPT ![p] = TRUE] ELSE hit

-----------------------------------------------------------------------------
(* init_tab *)

\* A process starts, with any version; its table is not initialized.
Start(p) ==
  /\ pc[p] = "down"
  /\ \E v \in Version, n \in 0 .. 1 :
       /\ n = 1 <=> \E q \in Proc : pc[q] # "down" /\ ver[q] # v
       /\ Fault("mixed", n)
       /\ ver' = [ver EXCEPT ![p] = v]
  /\ Goto(p, "start")
  /\ UNCHANGED <<dbVars, known, hit, torn>>

\* get_backup_obj: a new db_backup_t copies main over the backup.
GetBackup(p) ==
  /\ pc[p] = "start" /\ owner = None
  /\ base' = [f \in File |-> base["main"]]
  /\ work' = base'
  /\ Goto(p, "opened")
  /\ UNCHANGED <<undo, owner, ver, known, history>>

Lock(p) ==
  /\ pc[p] = "opened" /\ owner = None
  /\ owner' = p
  /\ Goto(p, "inspect")
  /\ UNCHANGED <<base, work, undo, ver, known, history>>

IsChanged_ByLength(t, v) == Len(t.cols) # Len(ColsOf[v])
IsChanged(t, v) == t.cols # ColsOf[v]

\* db_table_exists and cols_is_changed: a query that fails counts as "no table",
\* a PRAGMA that fails as "other columns", none of which is known.
Inspect(p) ==
  LET t == work["main"].cur IN
  /\ pc[p] = "inspect"
  /\ \/ /\ t = None /\ Goto(p, "create_table")
        /\ UNCHANGED <<known, hit, faults>>
     \/ /\ t # None /\ Fault("exists", 1)
        /\ hit' = [hit EXCEPT ![p] = TRUE]
        /\ Goto(p, "create_table")
        /\ UNCHANGED known
     \/ /\ t # None /\ Fault("columns", 1)
        /\ hit' = [hit EXCEPT ![p] = TRUE]
        /\ known' = [known EXCEPT ![p] = {}]
        /\ Goto(p, "backup_data")
     \/ /\ t # None
        /\ known' = [known EXCEPT ![p] = Columns(t.cols)]
        /\ Goto(p, IF IsChanged(t, ver[p]) THEN "backup_data" ELSE "unlock")
        /\ UNCHANGED <<hit, faults>>
  /\ UNCHANGED <<dbVars, ver, torn>>

\* When it fails, the program goes on with the table as it is.
BackupData(p) ==
  /\ pc[p] = "backup_data"
  /\ \E ok \in BOOLEAN :
       /\ Modify(p, <<DropOldIfExists, RenameToOld>>, ok)
       /\ Goto(p, IF ok THEN "create_and_restore" ELSE "unlock")
  /\ UNCHANGED <<base, owner, ver, known>>

\* When it fails, init_tab unlocks, which commits what was done, and returns 0.
CreateTable(p) ==
  /\ pc[p] \in {"create_table", "create_and_restore"}
  /\ \E ok \in BOOLEAN :
       /\ Modify(p, <<Create(ColsOf[ver[p]])>>, ok)
       /\ Goto(p, IF ~ok THEN "give_up"
                  ELSE IF pc[p] = "create_table" THEN "unlock" ELSE "restore_data")
  /\ UNCHANGED <<base, owner, ver, known>>

SameCols_Mine(p) == Columns(ColsOf[ver[p]])
SameCols(p) == known[p] \cap Columns(ColsOf[ver[p]])

RestoreCommand_KeepsOld(p) == <<InsertOld(SameCols(p))>>
RestoreCommand(p) == <<InsertOld(SameCols(p)), DropOld>>

\* Its result is ignored.
RestoreData(p) ==
  /\ pc[p] = "restore_data"
  /\ \E ok \in BOOLEAN : Modify(p, RestoreCommand(p), ok)
  /\ Goto(p, "unlock")
  /\ UNCHANGED <<base, owner, ver, known>>

Finish_Always == base' = work
Finish == base' = IF undo THEN base ELSE work

Unlock(p) ==
  /\ pc[p] \in {"unlock", "give_up"}
  /\ Finish
  /\ undo' = FALSE
  /\ owner' = None
  /\ Goto(p, IF pc[p] = "unlock" THEN "up" ELSE "failed")
  /\ work' = base'
  /\ known' = [known EXCEPT ![p] = {}]
  /\ hit' = [hit EXCEPT ![p] = FALSE]
  /\ UNCHANGED <<ver, torn, faults>>

\* The next operation on a table whose init_tab failed calls it again.
Retry(p) ==
  /\ pc[p] = "failed"
  /\ Goto(p, "opened")
  /\ UNCHANGED <<dbVars, ver, known, history>>

\* db_add_row: lock, INSERT in both databases, unlock.
Add(p) ==
  LET s(id) == InsertRow(id, ColsOf[ver[p]])
      t == base["main"].cur IN
  /\ pc[p] = "up" /\ owner = None
  /\ t # None
  /\ \E id \in Id \ DOMAIN t.rows :
       LET after == [f \in File |-> Exec(base[f], s(id))] IN
       /\ \A f \in File : after[f] # Failed
       /\ base' = after
       /\ work' = after
  /\ UNCHANGED <<undo, owner, procVars, history>>

\* The process ends or dies; an open transaction is gone with it.
Stop(p) ==
  /\ pc[p] # "down"
  /\ IF owner = p
     THEN owner' = None /\ work' = base /\ undo' = FALSE
     ELSE UNCHANGED <<owner, work, undo>>
  /\ known' = [known EXCEPT ![p] = {}]
  /\ hit' = [hit EXCEPT ![p] = FALSE]
  /\ Goto(p, "down")
  /\ UNCHANGED <<base, ver, torn, faults>>

InitTab(p) ==
  \/ GetBackup(p) \/ Lock(p) \/ Inspect(p) \/ BackupData(p)
  \/ CreateTable(p) \/ RestoreData(p) \/ Unlock(p)

Next == \E p \in Proc : Start(p) \/ InitTab(p) \/ Retry(p) \/ Add(p) \/ Stop(p)

Spec == Init /\ [][Next]_vars

-----------------------------------------------------------------------------
(* Properties *)

\* The table of a program that declares cols, made of table t.
Migrated(t, cols) ==
  [cols |-> cols,
   rows |-> [id \in DOMAIN t.rows |->
               [c \in Columns(cols) |->
                  IF c \in Columns(t.cols) THEN t.rows[id][c] ELSE None]]]

\* The database of a program that declares cols, made of database db.  What an earlier
\* migration that failed has left in db.old stays there, or goes with the next
\* migration (table.c:700).
Initialized(db, cols) ==
  IF db.cur = None THEN [db EXCEPT !.cur = [cols |-> cols, rows |-> NoRows]]
  ELSE IF db.cur.cols = cols THEN db
  ELSE [cur |-> Migrated(db.cur, cols), old |-> None]

Preserves(p) == base'["main"] = Initialized(base["main"], ColsOf[ver[p]])

RowIds(db) == UNION {DOMAIN t.rows : t \in {db.cur, db.old} \ {None}}

Initializes(p) == pc[p] \in {"unlock", "give_up"} /\ pc'[p] \in {"up", "failed"}

\* An initialization in which nothing fails (init_tab, table.c:822-852), whatever
\* failed or crashed before it, makes of main what the columns of the program ask for:
\* an empty table where there is none, nothing new where the columns are the same,
\* and otherwise a table with every row of the one that was there and the values of the
\* columns both have.  It is no promise about rows that an earlier failure has left in
\* the renamed table: RenamedRowsKept is about them.
MigrationKeepsRows ==
  [][\A p \in Proc : Initializes(p) /\ ~hit[p] => Preserves(p)]_vars

\* "When the table has changed, load the old data into the new table" (table.c:822):
\* an initialization in which nothing fails loses no row, also none that an earlier
\* one, whose create_table or restore_data failed (table.c:834-847), has committed in
\* the renamed table.
RenamedRowsKept ==
  [][\A p \in Proc :
       Initializes(p) /\ ~hit[p] => RowIds(base["main"]) \subseteq RowIds(base'["main"])]_vars

\* "When the table has changed, load the old data into the new table"
\* (table.c:822): also when a statement fails, the table is migrated or left alone.
MigrationKeepsOrLeaves ==
  [][\A p \in Proc : Initializes(p) =>
       Preserves(p) \/ base'["main"].cur = base["main"].cur]_vars

\* Main and backup hold the same tables after every transaction, unless a command
\* stopped half-way in main, which modify() does not undo.
CopiesAgree == owner = None /\ ~torn => base["main"] = base["backup"]

\* As long as no statement fails, processes that end or die at any point of a
\* migration leave no renamed table behind (backup_data and restore_data,
\* table.c:697-729, are one transaction).
NothingLeftOver == faults = 0 => \A f \in File : base[f].old = None

\* As long as the running programs have one version and no statement fails, no value
\* gets into the column of another, though db_add_row (table.c:142) writes a row by
\* position: init_tab has made the columns those of the program.
ValuesInTheirColumns ==
  faults = 0 =>
    LET t == base["main"].cur IN
    t # None => \A id \in DOMAIN t.rows : \A c \in Columns(t.cols) :
                  t.rows[id][c] \in {c, None}
=============================================================================
