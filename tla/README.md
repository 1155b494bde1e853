# zblog: a TLA+ model of the blog server

zblog is a small blog written in C: CGI handlers (`cgi/`) run in the event loop
of an external HTTP library and keep the posts in a table of an SQLite database.
Most of its logic is in its own database layer, `utils/dbapi`, which keeps **two
copies of every database** - a main file and a `.bak` file - applies every
modification to both inside a transaction, and repairs one from the other when a
process starts. Processes are kept apart by a lock of its own, `utils/ipc/lock.c`.

The verification covers the way of a blog from the browser to the two files: pages and
sessions, the row operations of a table, the memory of results, the registry of database
objects, transactions and repair, the lock, the migration of tables, and the linked list
under all of it.

## Inventory

| Part | State | Operations | Interacts with |
|---|---|---|---|
| `dbapi/backup.c` `db_backup_t` | main and backup connection, recursive mutex, `lock_cnt` | `lock`, `unlock`, `modify`, `query`, `rollback`, `init_backup`, `get_backup_obj` | `database.c`, `ipc_lock`, threads of the process |
| `dbapi/database.c` `database_t` | connection, `lock_cnt`, `need_rollback` | `execute`, `lock` (BEGIN), `unlock` (COMMIT, ROLLBACK), `rollback` | SQLite or MySQL |
| `dbapi/sqlite3.c` | the two files, their journals | `db_execute_sqlite3`, `integrity_check`, `db_sqlite3_try_recover` | file system, `ipc_lock`, other processes |
| `ipc/lock.c` | one System V semaphore per name, `SEM_UNDO` per process | `ipc_lock`, `_nowait`, `_timeout`, `ipc_unlock` | the kernel, other processes |
| `get_backup_obj`, `db_url_to_link` | the list of database objects of a process | look up or make the object of a URL | threads, `init_backup` |
| `dbapi/table.c`, `column.c` | table definition, list of values handed out | `init_tab` (create and migrate), add, set, update, delete, find, count, select | `db_backup_t` |
| `dbapi/result.c` | rows of an answer, in a list | init, free; callbacks hang rows in | engines, `table.c`, callers |
| `dbapi/mysql.c` | one connection | execute, column names | MySQL server |
| `cgi/blog.c`, `cgi/login.c`, `cgi/init.c`, `main.c` | blog table, server sessions, routes | view, list, save, delete; login, logout, filter | table layer, HTTP library |
| `ipc/msg_queue.c`, `shared_memory.c`, `thread.c` | System V queue, segment, thread | put, get; attach; start | nothing in the program calls them |
| `utils/list.h`, `string.c`, `print.c` | linked list; none; log level | list and string helpers, logging | everything |

What is hard:

* **Concurrency.** Threads of a process share two connections under one mutex;
  processes share two files under a semaphore; a starting process copies files
  that others have open. Queries take no lock at all.
* **Failure.** A statement can fail in one copy only; a COMMIT can give up; a
  process can die between or inside the two COMMITs, in the middle of a copy, or
  between the creation of a semaphore and its initialization. A file can be
  damaged or gone.
* **Stale pages.** An editor or a link stays open while others edit and delete, while the
  session expires, and across a login that sends the browser back to what it asked for.
* **Fixed buffers.** A command, a URL and the name of a backup are built in buffers that
  cut what does not fit.
* **Memory.** Rows are allocated in a callback, handed out from a list that is then freed,
  and freed by callers, by `result.free`, or by `db_free_values`.
* **Timeouts.** `DB_EXEC_TIMEOUT` bounds the wait for SQLite's own locks, and the
  results of BEGIN, COMMIT and ROLLBACK are ignored.

What makes each part correct: two equal copies whenever nobody is in a
transaction; nothing confirmed is lost, nothing rolled back remains; transactions
and repairs exclude each other; one owner per lock, and everyone who waits gets
it; a migration keeps every row of its table; a call changes the rows that it names, or none,
and its answer says which; one object, and one backup, for each database; every row is freed once;
a request only does what its session allows, to the blog that its page showed.

## Modules

| Module | Models | Checked by |
|---|---|---|
| `Mutex` | the abstract lock: one owner, released by its owner or its death | `IpcLock!ImplementsMutex` |
| `IpcLock` | `ipc/lock.c`: the semaphore, its creation window, `SEM_UNDO` | `IpcLock_safety`, `IpcLock_live`, `IpcLock_init_death` |
| `IpcLock_proofs` | proofs for any processes, with the refinement of `Mutex` | TLAPS |
| `DbBackup` | `backup.c`, `database.c` and `sqlite3.c` for an on-disk SQLite database | the four `DbBackup_*` runs, and three further configurations |
| `MCDbBackup` | two processes, up to three threads and three modifications | |
| `DbBackup_proofs` | proofs for any processes, threads, modifications and faults: who may do what when, and what the two files hold | TLAPS |
| `TableInit` | `init_tab` of `table.c`: creation and migration of a table, several versions | `TableInit_migrate`, and two further configurations |
| `MCTableInit` | two processes, three versions of a program | |
| `TableInit_proofs` | proofs for any processes, versions, columns and rows | TLAPS |
| `Rows` | the rows of a table, and what each SQL statement does to them | in `TableApi` and `Site` |
| `RowStore` | abstract: what `table.h` promises of one table | `TableApi!ImplementsRowStore` |
| `TableApi` | the row operations of `table.c` on both engines, down to `modify()` | `TableApi` |
| `TableApi_proofs` | proofs for any columns, values, threads and faults, with the refinement of `RowStore` | TLAPS |
| `Site` | `cgi/blog.c`, `cgi/login.c`, the routes: browsers, sessions, blogs | `Site`, and `Site_cut.cfg` |
| `DbUrl` | `db_url_to_link` and the names of the backup | `Registry` |
| `Registry` | `get_backup_obj`, `init_backup`, `init_database` | `Registry` |
| `ZList` | `utils/list.h` over a heap of nodes | `ZList_proofs`, `Results` |
| `Results` | who holds a row and who frees it: `result.c`, the callbacks, `table.c` | `Results` |
| `Results_proofs` | proofs for any addresses and lengths of an answer, on those of `ZList` | TLAPS |
| `MCTableApi`, `MCSite`, `MCRegistry`, `MCResults` | the instances of these for TLC | |
| `Site_proofs`, `Registry_proofs`, `ZList_proofs` | proofs for any constants | TLAPS |

`DbBackup` uses the lock only through its owner (`ipc`), which is what `Mutex`
specifies and `IpcLock` is proved to implement. `TableInit` uses the transactions only
through what `DbBackup` shows of them: they exclude each other, and a crash takes an
open one back; `TableApi` does the same. `TableApi` implements `RowStore`, and `Site` uses
the operations as `Rows` says they are: each does all of what it says, or nothing - or, for
`add` and `set`, what is left of a command that is cut (`CutShort`).
`Results` runs on the operators of `ZList`, which are proved for lists of any length.

### IpcLock

One process is one caller. `pc` follows the code: `get` and `init` are the two
`semget` calls and the `SETVAL` of `get_sem_id`, with another process able to run
between any two of them; `op` is the `semop` loop; `unget` is the second
`get_sem_id` that `ipc_unlock` performs. `undo` is the adjustment the kernel keeps
for `SEM_UNDO`; `SETVAL` clears everybody's, as `semctl(2)` says. The retries of
`ipc_lock_timeout` are bounded by `MaxTries`, which stands for its seconds. The
faults: `death` of a process anywhere, `init_death` inside the creation window,
`no_sem` when `get_sem_id` fails (also in `ipc_unlock`, whose caller goes on as the
owner), `errno` when the logging of a failed `semop` overwrites `EAGAIN`.

### DbBackup

The content of a database is the set of modifications it holds, so that two
files are equal iff their sets are. `txn[p][f]` is the transaction of process
`p` in file `f`: closed, open, or pending after a COMMIT met readers; `rows` is
what it has written. `journal[f]` exists while a COMMIT writes the file and stays
when its process dies there (a *hot* journal): the next read-write access plays it
back (`Access`), a read-only check fails on it (`Verdicts`). The labels of `pc`
are the calls inside `lock()`, `modify()` and `unlock()`:

| Labels | Code |
|---|---|
| `want_mutex`, `want_ipc`, `begin` | `pthread_mutex_lock`, `ipc_lock`, BEGIN in both (backup.c:45-53) |
| `locked` | between the caller's `lock()` and `unlock()` |
| `exec_main`, `exec_backup`, `unlock` | `modify()` (backup.c:91-125) |
| `commit_main`, `write_main`, `commit_backup`, `write_backup`, `release` | `unlock()` (backup.c:56-71, database.c:148-163) |
| `reading` | `query()` |

A caller that locked first modifies, rolls back and unlocks as it likes; a lone
`modify()` takes the same way with `stmt` set from the start. `phase` is the
start-up of a process: `opening` after `init_dbs`, `restoring` during the copy of
`db_sqlite3_try_recover`, `up` afterwards. `linked` is false for a process whose
files another one removed. `acked` and `dropped` record what callers were told:
`acked` gets a transaction's successful modifications when `unlock()` returns
without a rollback, `dropped` what a ROLLBACK removed.

SQLite is external and modelled by what the code depends on; its behaviour was
confirmed with the sqlite3 program: a COMMIT that meets readers keeps PENDING, so
that new readers (and the integrity check) find the database locked; a BEGIN in an
open transaction fails and joins it; an empty file passes the integrity check.

Abstractions: the two releases of `unlock()` are one step (nobody can use one lock
without the other); a query inside a transaction of the same thread is left out (it
changes nothing); nested locking is `modify()` inside a transaction, which nests the
same two counters; readers of the backup do not exist (no code queries it); a copy
is seen as one change at its end, or as an empty or damaged file when it is
interrupted; playing an old journal into a replaced file gives either its old
content or a damaged file.

### TableInit

A database is the table `cur` and what `backup_data` renamed, `old`; a table has its
columns in order and rows that hold in each column the column the value was written
for, so that a value in a wrong column shows. `work` is what the open transaction
sees, `base` what is committed. The labels of `pc` are the calls of `init_tab`:
`inspect` is `db_table_exists` and `cols_is_changed`, then `backup_data`,
`create_table` (`create_and_restore` when it follows a `backup_data`),
`restore_data` and `unlock`; `give_up` is the unlock after `create_table` failed, and
`Retry` the next call on the table, which calls `init_tab` again. `Modify` is
`modify()` with a command of several statements: it stops in main at the first one that
fails, and the earlier ones stay; a failure in the backup rolls both back.

The commit of both databases and the copy at start-up are one step each: what can
happen inside them is the subject of `DbBackup`. Values are never changed, only added
and copied, because a migration does nothing else with them. `torn` remembers that a
command stopped half-way in main, the one case in which the copies differ until the
next start.

`Initialized` says what an initialization makes of the database that it finds: an empty
table where there is none, the same table when the columns are those of the program, and
otherwise the table migrated and nothing renamed. `MigrationKeepsRows` is that the code does
this whenever nothing fails in it, whatever failed before. This is *not* that no row is ever
lost: an initialization in which `create_table` or `restore_data` fails commits the rows in
`old`, from which nothing takes them back, and the next `backup_data` drops it.
`RenamedRowsKept` says that they are kept, and `TableInit_left_behind.cfg` that they
are not (see Findings).

### Rows, RowStore and TableApi

`Rows` is the external part: a table is a function from ids to rows and the id that
AUTOINCREMENT gives next; a condition names rows, a statement gives a new table or fails
(a UNIQUE column that clashes). `Meaning` is what `table.h` says a call does.

`RowStore` is the promise: a call does all of its meaning and answers success, or changes
nothing and answers failure; `lock()` opens a transaction, `unlock()` commits it,
`rollback()`, a failure or a crash takes all of it back.

`TableApi` is the code. Each operation has the name of its function; it makes a command - a
sequence of statements - and gives it to `Modify` (`modify_on_table`), which runs it in
main and then in the backup (`OnSqlite`, backup.c:91-125) or in main alone (`OnMysql`).
`Run` stops at the first statement that fails, as `sqlite3_exec` and `mysql_query` do.
`base` is committed, `work` what the open transaction sees, `undo` is `need_rollback`.
What the end of the buffer may cut off is data of each operation: `Unusable` when what is
left is no SQL (an open string or parenthesis), the whole WHERE (`set_col`, `db_update`),
or the end of it (`CutShort`): an id with fewer digits, which are those of base `Radix`, or
the bare column behind `WHERE`, which is true for every row if it is the id, and for some if
it is another. `torn` remembers that a command was stopped between its statements in main,
which `modify()` does not take back; only `add` has two.

| Fault | Happens |
|---|---|
| `main`, `backup` | a statement fails in that copy although nothing is wrong with it |
| `cut` | a long value fills `DB_MAX_CMD_LEN` and the rest of the command is lost |
| `stray` | `rollback()` is called outside a transaction |

`Excused` names the steps in which the code breaks the promise; everything else is a step
of `RowStore`. A transaction of RowStore is one of SQLite: MyISAM knows none. The queries
are operators on a table, in the order of the ids; `PagesAreTheRows` compares them.

### Site

A request is one step, because the library runs one handler at a time. `next[b]` is the
redirect that a browser follows next, `form[b]` the blog whose editor it has open (for as
long as the user likes), `before[b]` the session's `url.before.login`, a URL with its query.
Whatever the browser asks for goes through `Refused` or `Admitted` (`check_authorized`,
skipped on the white routes). `Expire` is the session timeout, at any time.

`cgi_del_blog` looks for an id in the URL as well as in what was posted, and not at the
method: `Get` has it, as `DelOf(i)`, beside the POST that the script of `blog.html` sends
(`PostDel`). So the URL of a deletion can be kept for after the login, and the redirect
deletes; since nothing clears `url.before.login`, it may be followed again after a later
login. `ChangesNeedLogin` says that a redirect does no more than this.

A statement fails when a title is taken, or by the fault `table`. The fault `cut` is a content
that fills the buffer of the command: an `add` whose question for the id is lost stores the
blog and answers 500, and a `set` may lose digits of its id, or all of them, and change
other rows (`CutShort`). One of all rows fails when there are two, since titles are unique.
`Tick` is the local wall clock, which also goes back. `gone`, `hops` and `login` are history
for the properties. The content of a blog and the time of its last edit, which every edit gives
anew, go the way of the title and are left out; the time of creation is what an edit writes
back from the row that it has read.

### DbUrl and Registry

A text is a sequence of tokens - the two schemes, the separators, words - whose length
stands for bytes, so that `strchr`, the limit of `DB_NAME_LEN` and `snprintf` into a name
are what they are in the code. `BackupUrl` is the name under which `init_dbs` opens the
backup, `RecoveredBackup` the one that `db_sqlite3_try_recover` checks and copies.

The labels of `Registry!pc` are the search under `list_mutex` (`look`), the opening of main
and of the backup, and the addition under the mutex again (`add`); other threads run between
any two. `conns` is the set of open connections, by object and file.

### ZList

A heap is the two functions `next` and `prev`. Every function of `list.h` writes its
pointers in pairs, and `Link` is such a pair; the definitions keep the order of the pairs
where it matters. `Cycle(h, c, n)` says that the nodes `c[0]`, ..., `c[n]` are one list with
head `c[0]`. `Along` is what `zlist_foreach_entry` and its reverse visit.

### Results

The heads are three lists: the result of the running call, the result of a caller of
`find_all`, and the `values` of the table. `Row` is a set of addresses, which `malloc` may
return again after they are freed. `Fetch` is the callback of either engine, `FetchFails`
the callback without memory, `FreeOne` one turn of `zlist_foreach_entry_safe`, with its two
cursors. A row is with one of its holders: a caller (`held`), the call that took it out
(`row`), or a list; `lost` collects those that the code gives up.

## Runs

| Run | Faults | Shows |
|---|---|---|
| `DbBackup_txn` | statement | copies equal when free; nothing rolled back remains |
| `DbBackup_crash` | statement, crash, corrupt | nothing confirmed is lost: in main when it works, in a whole file always; a rollback takes only its own transaction |
| `DbBackup_faults` | all | types, exclusion, stability under the lock |
| `DbBackup_live` | crash, statement | waiters are served, start-up ends |
| `TableInit_migrate` | all | an initialization in which nothing fails keeps the rows of the table; without failures nothing is left behind; copies stay equal |
| `TableApi` | all | implements `RowStore` where not excused; copies agree; a cut command deletes nothing; pages are the rows |
| `Site` | all | a deleted blog's id stays dead, creation times stay but for a cut id, changes need a login, redirects end |
| `Registry` | connect | one object per thread and URL, connections owned, one backup each, URLs read as written |
| `Results` | (no memory, failing queries) | rows in order, nothing dangles, only named leaks |
| `IpcLock_safety` | all | one token, one owner, implements `Mutex` |
| `IpcLock_live` | death | a blocking call is granted, a timed one returns |
| `IpcLock_init_death` | init_death | **violation**, see below |

Six further configurations show a finding each, by the violation of one property:

| Configuration | Module | Violates |
|---|---|---|
| `DbBackup_slow_reader.cfg` | `MCDbBackup` | `RollbackKeepsConfirmed` |
| `DbBackup_lost_main.cfg` | `MCDbBackup` | `AckedSurvives` |
| `DbBackup_hot_journal.cfg` | `MCDbBackup` | `RepairSyncs` |
| `TableInit_pragma.cfg` | `MCTableInit` | `MigrationKeepsOrLeaves` |
| `TableInit_left_behind.cfg` | `MCTableInit` | `RenamedRowsKept` |
| `Site_cut.cfg` | `MCSite` | `EditsStay` |

Bounds. Every hazard of the transaction layer is between two parties - two
threads of a process, two processes, a transaction and a repair - so two processes
with two or three threads meet all of them. Three modifications (`Change`) give a
confirmed one, one in a transaction and one that follows; each is issued once,
which bounds the run. `MaxFaults` is 2 or 3: a failure, and another while its
consequences last. Modifications are interchangeable, so symmetry in `Change` is
sound; it is not used in the run with liveness properties.

The versions of `MCTableInit` replace a column (same number of columns) and drop one.
Two processes race for the migration and run different versions at once (a fault of
its own, `mixed`); two rows and two faults suffice for a migration that fails and leaves
something to the next, which may fail again. One row and one failure are enough for
`TableInit_left_behind.cfg`.

`TableApi`: two threads, ids up to 2 in base 2 (so that an id can lose a digit and still
name a row), one UNIQUE column of two values: enough for a clash, a row that is in the way,
and a statement that hits one of two rows. Ids above `MaxId` end a behaviour. The widths of
integers are 3, 7 and 15 for 2^32-1, 2^63-1 and 2^64-1; only their order matters. Calls of one
thread inside the other's transaction wait, so two threads meet every order. `VIEW State`
leaves out `answer` and `way`: they say what the last step was, no action reads them, and the
action properties look at their new values in each step. About 13,000 states.

`Site`: two browsers, two titles, two blogs, two times: one that edits while the other
deletes, a title that is taken, and, as ids are cut in base 2, a blog that is the other with a
digit lost. About 760,000 states. `Registry`: two threads, three
objects, six URLs, among them SQLite names one below, at, and above the length that leaves
room for `.bak`; a name has 8 tokens. About 21,000 states. `Results`: four addresses and
answers of three rows: an address is reused, a list has a first, a middle and a last row,
and two lists hold rows at once. About 470,000 states. Threads, browsers, titles, values
and addresses are interchangeable, so symmetry in them is sound; there is no liveness
property in these runs. `Registry`, `Site` and `TableApi` may stop at their bounds.

Fairness (`DbBackup!Fairness`, `IpcLock!Fairness`). A thread inside a call runs on,
which the scheduler gives. The strong fairness of `TakeMutex`, `TakeIpc` and the
start of a repair is what the kernel's queue of `semop` callers and the wake-up of
mutexes give to a waiter when the lock keeps coming free; that of the other steps
covers the wait for a connection (`ConnFree`) and for readers, which SQLite retries.
No fairness is assumed for callers, crashes, or restarts. `IpcLock` assumes nothing of
a holder either: `LockGranted` is conditional on nobody keeping the lock for ever, and
`TimeoutReturns` holds even then. In `DbBackup` an `Unlock` is fair, because a
`modify()` on its own always unlocks and the contract of `db_lock` (table.h) is that its
caller does.

## Findings

Data of the transaction layer:

* **A COMMIT that times out goes unnoticed** (database.c:160, `DbBackup_slow_reader.cfg`).
  The transaction stays open after `unlock()`, blocks other processes, is joined by the next
  transaction, and is lost when that one is rolled back.
* **A missing main file destroys its backup** (sqlite3.c:133, `DbBackup_lost_main.cfg`).
  Opening creates it empty before it is checked; it passes, and is copied over the backup.
* **The repair leaves a hot journal behind** (sqlite3.c:130, `DbBackup_hot_journal.cfg`).
  The next access plays it into the fresh copy, so main and backup differ right after the
  repair.
* **A lock can be born dead** (lock.c:67, run `IpcLock_init_death`). A process that dies
  between `semget` and `SETVAL` leaves a semaphore of value 0 that no later caller
  initializes.
* **A failed query of the columns empties the table** (table.c:671, `TableInit_pragma.cfg`).
  It counts as "columns changed, none known": the table is renamed, re-created and refilled
  with its ids only, and the old one is dropped.
* **A migration that fails loses the rows later** (table.c:835, `TableInit_left_behind.cfg`).
  When `create_table` or `restore_data` fails, all rows stay in `t.old`, and this is committed.
  Nothing reads `t.old` again; the next migration, in which nothing fails, begins by
  dropping it (table.c:700).

Operations of a table, found while translating them and named in the models (`Excused`,
`torn`, `lost`, the guards of properties):

* `add_or_ignore` never sends a statement: its command begins twice (table.c:252).
* `add` on MySQL stores the row and answers 0 (table.c:150, mysql.c:143).
* `add` with a command cut inside its second statement answers 0, with the row in main and
  not in the backup (table.c:149).
* `set_col`, `db_set_value` and `update` lose their WHERE, and `set` and `set_by` its end, when a
  value ends where the buffer does (table.c:388-391, 412-414): other rows are changed, or all. For
  a blog this means that saving a long article may overwrite another one, with the time of
  creation of the first (`Site_cut.cfg`). Deletes are safe.
* A limit of 0 gives no rows, not all (table.c:628, table.h:248).
* The index one past the last column is accepted (table.c:32).
* `db_add_multi` computes its room from the size of a pointer (table.c:206).
* An article longer than the command buffer cannot be saved, though its column is declared
  with 1 MB (init.c:33).
* `rollback()` of a MySQL or in-memory database is a call of NULL (backup.c:77).

Objects, files and memory:

* For a URL of 60 to 63 bytes, the repair looks at another file than the backup that was
  opened; at 63 bytes the backup is main itself (backup.c:30, sqlite3.c:98).
* Two threads that ask for a new URL at once make two objects for it (backup.c:197).
* `cgi_index` never frees its result (blog.c:20), nor `cgi_modify_blog` its row when there
  is no title (blog.c:119, which checks the title twice and the content never).
* A second `db_get_value` before `db_free_values` leaks the first row: the arguments of
  `zlist_add_tail` are swapped (table.c:565).

What a user may notice, and no document of the repository speaks of: a blog is deleted by
following a link (`/blog/del?id=...`, blog.c:170), also by the redirect after the login that the
link asked for, and again after each later login of the session (login.c:53-57), where it
meets no other blog only because ids are never reused; after a login that was
asked for by `/logout`, the login is ended again at once (login.c:53-57); a form sent after
the session expired is lost, since only its URL is kept; and of two editors of one blog the
one that saves last wins.

## Proofs

`IpcLock_proofs` proves, for any set of processes and any faults, the type invariant,
`OneToken`, `HeldIsOwned` and `ImplementsMutex`. The inductive invariant `IInv` adds to
these that a semaphore that does not exist, or is being initialized, has value 0 and
nobody's undo, that at most one process is between creation and `SETVAL`, and which
labels own the token. The refinement proof maps every step to an `Acquire`, a `Release`
or a stutter of `Mutex`, with `holder` the only process with an undo entry.

`DbBackup_proofs` proves, for any processes, threads, modifications and any of the
faults, the type invariant, `TransactionsExclusive` and `StableUnderLock`. The type
invariant alone is not inductive: `lock_cnt` stays a natural number only because a
thread that unlocks is counted (`Counted`), and because only one thread per process is
counted, which needs the owners of both locks (`Locks`: who is between lock and unlock
owns the mutex of its process and its process owns the IPC lock; a repair owns the IPC
lock; a thread that does something belongs to a process that is up). `Issuing` says
that a statement being executed is a modification. `IInv` is the conjunction;
`StableUnderLock` then follows step by step: each action that changes a file is a COMMIT
of the owner, or needs the lock free, or all processes down.

On top of this it proves the properties about the content of the two files. Each is stated
under the faults under which it holds, which are those of its run or more; the others break
it, and the configurations of the findings show how:

| Theorem | Property | Faults assumed | What breaks it otherwise |
|---|---|---|---|
| `ConfirmedIsKept` | `RollbackKeepsConfirmed` | all but `slow_reader` | a COMMIT that gave up is joined by the next transaction |
| `RolledBackIsOut` | `RolledBackStaysOut` | all but `slow_reader` | the same: a transaction left open is half-done in one file |
| `ConfirmedInMain` | `AckedInMain` | `statement`, `crash`, `corrupt` | a lost file, a copy cut short, damage that is not reported |
| `ConfirmedSurvives` | `AckedSurvives` | the same | the same |
| `Mirrored` | `MirrorWhenFree` | `statement` | after a crash only the next repair makes the copies equal |

The invariant has three parts on top of `IInv`. `Apart`: what is open, stored, rolled back
and confirmed is kept apart - a modification in an open transaction is neither confirmed
nor in a transaction of another process, and what was rolled back is in no file and no
journal, and in no transaction except between the two ROLLBACKs. `Whole` adds where a confirmed modification may be while it is
not yet everywhere: processes that are up use the files that are there (`LinkedUp`), an
open transaction holds what its thread was told (`DoneWhere`), a COMMIT still to be made has
something to write (`PendingWritten`), a file that is written
has its old content in the journal and nobody copies from it (`CopySource`,
`WrittenClean`, `WritingPre`), and one of the two files is always clean (`OneClean`): this is
what makes a crash between or inside the two COMMITs survivable. `Mirror` says by how much the
files may differ during a transaction: by what is due in the backup, and nothing else.

`TableInit_proofs` proves, for any processes, versions, columns, rows and faults, all five
properties of the run, among them `MigrationKeepsRows`. The invariant:

* `Ownership`: who is in `init_tab` has the lock, and nothing is pending between transactions.
* `Shape`: the columns of main and of the backup are alike at every moment, even when the
  rows differ because a command stopped half-way. So a statement that is wrong in the backup
  is wrong in main, where it stops the command first; a failure in the backup alone is a
  fault, and is rolled back.
* `Copies`: equal, or about to be rolled back, or torn.
* `Stages`: what an initialization that nothing has hit has made so far, as a function of the
  databases that it found: moved away, created empty, filled. `MigrationKeepsRows` is about
  the last step of an initialization, the COMMIT of `unlock()`, and follows from the stage
  before it: what it commits is `Initialized` of what was found, also when that was a
  renamed table alone.
* `Calm`: before the first fault there is no renamed table outside a migration, one version
  runs, and every value is in its column.

Commands of `init_tab` have at most two statements, so no induction over them is needed:
each command is proved by its statements, one lemma per statement and engine step.

`TableApi_proofs` proves, for any columns, values, bounds, threads and faults, the type
invariant, `CopiesAgree`, `CutDeletesNothing` and the refinement `ImplementsRowStore`. A command
of `table.c` has one statement, or two for `add`; `RunOne` and `RunTwo` say what `Run`
makes of these, `RunsOne` and `RunsTwo` where they may stop. `Sends` lists what may reach
the database for a call: all of its command, a text that is no statement, or what a cut
leaves; `Calls` shows that every operation of `table.h` sends one of these, and the rest is
proved once for `modify_on_table` instead of once per operation. The only strengthening is
`Plain`: without a transaction the working copy is the committed one, and MySQL has neither
a second copy nor an open transaction. For the refinement, a command that stops in main
changes nothing (`Refuse`), one that stops in the backup takes the transaction back
(`Refuse`, to the rows saved), one that stops nowhere is `Do`; on MySQL everything is
committed. `Excused` is part of the statement: it names the steps in which the code does
something else (see Findings), and nothing is claimed of them. `PagesMakeTheRows` is an
induction over the pages (`FlattenIs`, by the least page that would differ): up to the k-th
page they are the rows up to k times the limit. Offsets that the engine refuses lie behind
the last row, and so does what a limit cut to 32 bits leaves out.

`Registry_proofs` proves, for any threads, URLs, sizes of a name and failures, the type
invariant, `MadeOnce`, `ConnectionsOwned` and `BackupsApart`. `MadeOnce` is not inductive: it
needs that a thread that is making an object has none for that URL in the list (`Gap`), and
that what it saw there is there still. `ConnectionsOwned` needs that ids tell apart the
objects in the list and those being made (`OwnIds`), so that closing one's main closes
nobody else's. `BackupsApart` is about the names alone: `SuffixFits` shows that with room for
the suffix nothing is cut, from the lengths of the sequences. `AnyUrlReadsBack` is `UrlRoundTrip`
for parts of any length, of which `Parts` has a few: a text is split at its first separator
(`SplitThere`), and `Writable` says where a part may not have one.

`Site_proofs` begins with what the statements leave of a table whose ids are below the next
one (`Sound`): the fresh id is the next, INSERT adds that row and keeps the others, DELETE and
UPDATE keep the ids they should. On this it proves, for any browsers, titles and bounds, an
invariant `IInv`: blogs are `Sound` and the ids of the deleted ones are below the next too
(`Blogs`); a session that is online belongs to a user who logged in, a redirect of such a
session to a deletion is to the one that it was refused before, and a second redirect always
leads to the login form or to the index (`Sessions`). That a cut `set` keeps the times of
creation rests on `UpdatePuts`: as the title is unique, an UPDATE that gives it to rows
succeeds only if it names one row at most, whatever is left of its condition, so either the
edited blog was that row, or a cut id named it. One step property, `Fine`, is proved for every action from
`IInv`, and the five theorems `TypeCorrect`, `NoIdTwice`, `CreationStays`, `OnlyWhenLoggedIn` and
`NoRedirectLoop` follow.

`ZList_proofs` proves what the functions of `list.h` do to a list of any length in any
heap. Everything rests on three facts about a pair of pointers - `Link` makes its link,
keeps every link that starts and ends elsewhere, and leaves a heap - and on `CycleIs`, which
makes the link from the last entry to the head one like the others. A function that puts
in, takes out, replaces, splices or cuts then has a new cycle given by its places, and each
of its links is new or kept. `AlongVisits` says what a loop over a list meets: its entries in
their order, each once, and then the head. It needs induction over the length of the walk,
and no installed prover can instantiate the induction theorems of the library; so the module
first derives from the well-foundedness of `<` on the naturals that a set of naturals that is
not empty has a least element (`LeastOf`), and from that induction over a set (`AllNaturals`).

`Results_proofs` proves, for any finite set of addresses and any length of an answer, the type
invariant, `RowsInOrder`, `NothingDangling` and `NothingLost`: no row is read after it is freed,
none is forgotten but by the three leaks in the findings, and those kept stand in the order in
which they came. A list is the sequence of its rows (`EntriesOf`, from `AlongVisits`), and each
function of `list.h` that is called is an `Append`, a `Tail`, or the empty list on this
sequence, with the other two lists as they were. The invariant:

* `Lists`: the three heads have each a sequence of rows, and the pointers of the heap are these
  three cycles.
* `Owners`: each row that is allocated has one owner: a list, the call that took it out, the
  caller it was given to, or `lost`.
* `Control`: in a loop that frees, `pos` and `nx` are the first row and the one behind it; a
  row that was taken out is linked to itself; a result nobody uses is empty.
* `Order`: what `come` and `dropped` say is what the list holds.

Assumptions: the named assumptions on the constants - `None` is not a process, thread,
modification, URL or table, every thread has a process, there is a version of the program
and none declares a column twice, bounds are natural numbers, a URL is a sequence of tokens,
a name has room for more than a suffix, no column is called `id` (CREATE TABLE would fail),
the columns of a blog are those that `Site` names, its titles are unique, the base of
digits is at least 2, addresses are finitely many and differ
from NULL and the heads, an answer may have a row, a table has at most 2^32-1 rows (a limit
is cut to that), what `atoi` reads as a number is no separator - and, for the content of the
files in `DbBackup`, the sets of faults of the table above. `NoneAssumption` of `DbBackup`
and `TableInit` says that `None` is not one of the records it stands beside.

Checked by TLC only: liveness (`WaiterServed`, `StartUpEnds`, `LockGranted`,
`TimeoutReturns`), which is out of the prover's reach. Every safety property of a passing run
is proved.

## Plan

1. *Done:* `Mutex`, `IpcLock`, `DbBackup`, `TableInit`, `Rows`, `RowStore`, `TableApi`, `Site`,
   `DbUrl`, `Registry`, `ZList`, `Results`, and the proofs above.
2. Left: an abstract migration (every row mapped, or the table left alone) that `TableInit`
   refines.
3. Left: `MsgQueue` and `SharedMemory`, which nothing in the program calls.

## Not modelled

* The HTTP library is a binary; `Site` relies on its header. SQLite, MySQL and the kernel
  are modelled by what the code depends on.
* A failed statement leaves its transaction open in the models; that SQLite takes the whole
  transaction back by itself on some errors (full disk, I/O, memory) is left out, and so is
  the retry of a query after some of its rows had come.
* Formatting and conversion of values, ORDER BY, `print_row`, column names of results as memory,
  rendering of pages, logging.
* The message queue, shared memory, the thread wrapper, `fd_*lock` and most string helpers:
  nothing in the program calls them. The handlers for tests (`/delay`, `/chunked`) touch no
  state.
* Templates, scripts, styles and the build.
