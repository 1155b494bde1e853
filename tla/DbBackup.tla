------------------------------ MODULE DbBackup ------------------------------
(***************************************************************************)
(* The transaction layer of utils/dbapi for an on-disk SQLite database: a  *)
(* db_backup_t (backup.c) owns a main and a backup database_t              *)
(* (database.c), applies every modification to both, and at start-up       *)
(* repairs one file from the other (db_sqlite3_try_recover, sqlite3.c).    *)
(*                                                                         *)
(* A process holds one db_backup_t; its threads share the two connections  *)
(* and a recursive mutex, and all processes share the two files and the    *)
(* lock ipc_lock("db.backup.<name>"), of which only the owner matters here *)
(* (module IpcLock is its implementation).  The content of a database is   *)
(* the set of modifications it holds.  SQLite itself is external: a        *)
(* rollback journal, a RESERVED lock from the first write on, a COMMIT     *)
(* that needs every reader gone and keeps PENDING when it gives up.        *)
(***************************************************************************)
EXTENDS Naturals, FiniteSets

CONSTANTS
  Proc,       \* processes that open the database
  Thread,     \* their threads
  ProcOf,     \* the process of each thread
  Change,     \* modifications, each issued once: bounds the length of a run
  Faults,     \* which of FaultKinds may happen
  MaxFaults,  \* how many faults may happen in a run
  None        \* no owner, no modification

FaultKinds ==
  { "statement",    \* one statement fails in one of the databases
    "slow_reader",  \* a reader outlasts DB_EXEC_TIMEOUT
    "crash",        \* a process dies; SEM_UNDO releases its IPC lock
    "copy_crash",   \* it dies during the cp of try_recover
    "corrupt",      \* a file is damaged while no process runs
    "silent",       \* integrity_check reports damage in rows, not in its code
    "lost" }        \* a file disappears while no process runs

ASSUME ConstantsAssumption ==
  /\ ProcOf \in [Thread -> Proc]
  /\ Faults \subseteq FaultKinds
  /\ MaxFaults \in Nat
  /\ None \notin Proc \cup Thread \cup Change

File == {"main", "backup"}
Phase == {"down", "opening", "restoring", "up"}
PC == { "idle", "reading", "want_mutex", "want_ipc", "begin", "locked",
        "exec_main", "exec_backup", "unlock", "commit_main", "write_main",
        "commit_backup", "write_backup", "release" }

VARIABLES
  phase,        \* start-up state of each process (init_backup)
  linked,       \* its connections still refer to the named files
  ipc,          \* owner of ipc_lock("db.backup.<name>")
  mutex,        \* owner of db_backup_t.mutex, per process
  depth,        \* db_backup_t.lock_cnt, per process
  needRollback, \* database_t.need_rollback, per process and file
  txn,          \* SQLite transaction of each connection
  disk,         \* what each file holds
  journal,      \* rollback journal of a COMMIT that was being written
  copyTo,       \* the file try_recover is overwriting
  pc,           \* where each thread is
  stmt,         \* the modification a thread is issuing
  done,         \* those of its transaction that modify() answered with 1
  used,         \* modifications issued so far
  acked,        \* history: confirmed, their transaction unlocked, no rollback
  dropped,      \* history: modifications of rolled back transactions
  faults        \* how many faults happened

procVars == <<phase, linked, copyTo>>
lockVars == <<ipc, mutex, depth>>
txnVars  == <<needRollback, txn>>
fileVars == <<disk, journal>>
callVars == <<pc, stmt, done>>
history  == <<used, acked, dropped, faults>>
vars == <<procVars, lockVars, txnVars, fileVars, callVars, history>>

Closed == [mode |-> "closed", rows |-> {}]
EmptyFile == [sound |-> TRUE, rows |-> {}]
Damaged == [sound |-> FALSE, rows |-> {}]

TxnState == [mode : {"closed", "open", "pending"}, rows : SUBSET Change]
Content == [sound : BOOLEAN, rows : SUBSET Change]
Journal == [pre : SUBSET Change, add : SUBSET Change]

\* None is neither a file nor a journal.
ASSUME NoneAssumption == None \notin File \cup Journal

ProcTypes ==
  /\ phase \in [Proc -> Phase]
  /\ linked \in [Proc -> BOOLEAN]
  /\ copyTo \in File \cup {None}

LockTypes ==
  /\ ipc \in Proc \cup {None}
  /\ mutex \in [Proc -> Thread \cup {None}]
  /\ depth \in [Proc -> Nat]

TxnTypes ==
  /\ needRollback \in [Proc -> [File -> BOOLEAN]]
  /\ txn \in [Proc -> [File -> TxnState]]

FileTypes ==
  /\ disk \in [File -> Content]
  /\ journal \in [File -> {None} \cup Journal]

CallTypes ==
  /\ pc \in [Thread -> PC]
  /\ stmt \in [Thread -> Change \cup {None}]
  /\ done \in [Thread -> SUBSET Change]

HistoryTypes ==
  /\ used \subseteq Change
  /\ acked \subseteq Change
  /\ dropped \subseteq Change
  /\ faults \in Nat

TypeOK ==
  ProcTypes /\ LockTypes /\ TxnTypes /\ FileTypes /\ CallTypes /\ HistoryTypes

Init ==
  /\ phase = [p \in Proc |-> "down"]
  /\ linked = [p \in Proc |-> FALSE]
  /\ ipc = None
  /\ mutex = [p \in Proc |-> None]
  /\ depth = [p \in Proc |-> 0]
  /\ needRollback = [p \in Proc |-> [f \in File |-> FALSE]]
  /\ txn = [p \in Proc |-> [f \in File |-> Closed]]
  /\ disk = [f \in File |-> EmptyFile]
  /\ journal = [f \in File |-> None]
  /\ copyTo = None
  /\ pc = [t \in Thread |-> "idle"]
  /\ stmt = [t \in Thread |-> None]
  /\ done = [t \in Thread |-> {}]
  /\ used = {} /\ acked = {} /\ dropped = {}
  /\ faults = 0

-----------------------------------------------------------------------------
(* Faults, and the parts of SQLite the code depends on. *)

CommitAt == [main |-> "commit_main", backup |-> "commit_backup"]
WriteAt == [main |-> "write_main", backup |-> "write_backup"]
AfterCommit == [main |-> "commit_backup", backup |-> "release"]

CanFail(kind) == kind \in Faults /\ faults < MaxFaults
Fault(kind) == CanFail(kind) /\ faults' = faults + 1

ThreadsOf(p) == {t \in Thread : ProcOf[t] = p}

\* SQLITE_OPEN_FULLMUTEX: sqlite3_exec keeps the connection for its whole run.
ConnFree(p) == \A t \in ThreadsOf(p) : pc[t] \notin {"reading", "write_main"}

\* Processes other than p whose SELECT holds SHARED on main.
OtherReaders(p) == {t \in Thread : ProcOf[t] # p /\ pc[t] = "reading"}

\* A COMMIT being written, or one that gave up, keeps new readers out.
Barred(p, f) ==
  \/ \E q \in Proc \ {p} : linked[q] /\ txn[q][f].mode = "pending"
  \/ \E t \in Thread : ProcOf[t] # p /\ pc[t] = WriteAt[f]

Writing(f) == \E t \in Thread : pc[t] = WriteAt[f]

\* A journal whose writer died: the next read-write access undoes it.  Pages of
\* a file that was replaced meanwhile are mixed with older ones.
Hot(f) == journal[f] # None /\ ~Writing(f)

Undone(f) ==
  IF ~Hot(f) \/ ~disk[f].sound THEN {disk[f]}
  ELSE LET pre == journal[f].pre IN
       {[sound |-> TRUE, rows |-> pre]} \cup
       (IF disk[f].rows \in {pre, pre \cup journal[f].add} THEN {}
        ELSE {Damaged})

\* Only one connection can have uncommitted writes in a file.
Reserved(p, f) == \E q \in Proc \ {p} : linked[q] /\ txn[q][f].rows # {}

\* An access of p to f: first the hot journal, then the statement.
Access(p, f) ==
  /\ disk' \in {[disk EXCEPT ![f] = d] : d \in Undone(f)}
  /\ journal' = IF Hot(f) THEN [journal EXCEPT ![f] = None] ELSE journal

Goto(t, label) == pc' = [pc EXCEPT ![t] = label]

-----------------------------------------------------------------------------
(* The two locks, the recursion count and need_rollback.  IpcFree_Ignored is *)
(* IpcFree as a plausible slip would have it, and so on: what the properties *)
(* tell from the code.                                                       *)

IpcFree_Ignored == TRUE
IpcFree == ipc = None

UnlockIpc_Forgotten == UNCHANGED ipc
UnlockIpc == ipc' = None

UnlockMutex_Forgotten(p) == UNCHANGED mutex
UnlockMutex(p) == mutex' = [mutex EXCEPT ![p] = None]

\* SEM_UNDO gives back what the dead process held.
IpcAfter_AnyDeath(p) == None
IpcAfter(p) == IF ipc = p THEN None ELSE ipc

Enter_Uncounted(p) == UNCHANGED depth
Enter(p) == depth' = [depth EXCEPT ![p] = @ + 1]

SetRollback_Nowhere(p) == UNCHANGED needRollback
SetRollback_MainOnly(p) == needRollback' = [needRollback EXCEPT ![p]["main"] = TRUE]
SetRollback(p) == needRollback' = [needRollback EXCEPT ![p] = [f \in File |-> TRUE]]

-----------------------------------------------------------------------------
(* lock(): the mutex, then the IPC lock, then BEGIN in backup and main.    *)
(* modify() called without a lock takes and releases it the same way.      *)

CallLock(t) ==
  /\ pc[t] = "idle" /\ phase[ProcOf[t]] = "up"
  /\ Goto(t, "want_mutex")
  /\ UNCHANGED <<procVars, lockVars, txnVars, fileVars, stmt, done, history>>

CallModify(t) ==
  /\ pc[t] = "idle" /\ phase[ProcOf[t]] = "up"
  /\ \E c \in Change \ used :
       /\ stmt' = [stmt EXCEPT ![t] = c]
       /\ used' = used \cup {c}
  /\ Goto(t, "want_mutex")
  /\ UNCHANGED <<procVars, lockVars, txnVars, fileVars, done,
                 acked, dropped, faults>>

TakeMutex(t) ==
  /\ pc[t] = "want_mutex" /\ mutex[ProcOf[t]] = None
  /\ mutex' = [mutex EXCEPT ![ProcOf[t]] = t]
  /\ Goto(t, "want_ipc")
  /\ UNCHANGED <<procVars, ipc, depth, txnVars, fileVars, stmt, done, history>>

TakeIpc(t) ==
  /\ pc[t] = "want_ipc" /\ IpcFree
  /\ ipc' = ProcOf[t]
  /\ Goto(t, "begin")
  /\ UNCHANGED <<procVars, mutex, depth, txnVars, fileVars, stmt, done, history>>

\* BEGIN inside an open transaction fails and is ignored: what that transaction
\* holds becomes part of this one.
Begin(t) ==
  LET p == ProcOf[t] IN
  /\ pc[t] = "begin" /\ ConnFree(p)
  /\ txn' = [txn EXCEPT ![p] = [f \in File |->
                IF @[f].mode = "closed" THEN [mode |-> "open", rows |-> {}]
                ELSE @[f]]]
  /\ Enter(p)
  /\ Goto(t, IF stmt[t] = None THEN "locked" ELSE "exec_main")
  /\ UNCHANGED <<procVars, ipc, mutex, needRollback, fileVars, stmt, done, history>>

-----------------------------------------------------------------------------
(* modify(): main first, then backup; query(): main only, without a lock.  *)

\* modify() inside a transaction: its own lock() only counts.
CallModifyLocked(t) ==
  /\ pc[t] = "locked"
  /\ \E c \in Change \ used :
       /\ stmt' = [stmt EXCEPT ![t] = c]
       /\ used' = used \cup {c}
  /\ Enter(ProcOf[t])
  /\ Goto(t, "exec_main")
  /\ UNCHANGED <<procVars, ipc, mutex, txnVars, fileVars, done,
                 acked, dropped, faults>>

Usable(p, f) == linked[p] /\ disk'[f].sound /\ ~Reserved(p, f) /\ ~Barred(p, f)

AddToTxn(t, f) ==
  txn' = [txn EXCEPT ![ProcOf[t]][f].rows = @ \cup {stmt[t]}]

ExecMain(t) ==
  /\ pc[t] = "exec_main" /\ ConnFree(ProcOf[t])
  /\ Access(ProcOf[t], "main")
  /\ Usable(ProcOf[t], "main")
  /\ AddToTxn(t, "main")
  /\ Goto(t, "exec_backup")
  /\ UNCHANGED <<procVars, lockVars, needRollback, stmt, done, history>>

\* The statement fails, or main stayed busy or unusable for DB_EXEC_TIMEOUT:
\* modify() returns 0 and the transaction goes on without it.
ExecMainFails(t) ==
  /\ pc[t] = "exec_main" /\ ConnFree(ProcOf[t])
  /\ Access(ProcOf[t], "main")
  /\ \/ Fault("statement")
     \/ ~Usable(ProcOf[t], "main") /\ UNCHANGED faults
  /\ stmt' = [stmt EXCEPT ![t] = None]
  /\ Goto(t, "unlock")
  /\ UNCHANGED <<procVars, lockVars, txnVars, done, used, acked, dropped>>

ExecBackup(t) ==
  /\ pc[t] = "exec_backup"
  /\ Access(ProcOf[t], "backup")
  /\ Usable(ProcOf[t], "backup")
  /\ AddToTxn(t, "backup")
  /\ done' = [done EXCEPT ![t] = @ \cup {stmt[t]}]
  /\ stmt' = [stmt EXCEPT ![t] = None]
  /\ Goto(t, "unlock")
  /\ UNCHANGED <<procVars, lockVars, needRollback, history>>

\* "Impossible! We have to rollback"
ExecBackupFails(t) ==
  /\ pc[t] = "exec_backup"
  /\ Access(ProcOf[t], "backup")
  /\ \/ Fault("statement")
     \/ ~Usable(ProcOf[t], "backup") /\ UNCHANGED faults
  /\ SetRollback(ProcOf[t])
  /\ stmt' = [stmt EXCEPT ![t] = None]
  /\ Goto(t, "unlock")
  /\ UNCHANGED <<procVars, lockVars, txn, done, used, acked, dropped>>

Rollback(t) ==
  /\ pc[t] = "locked" /\ ~needRollback[ProcOf[t]]["main"]
  /\ SetRollback(ProcOf[t])
  /\ UNCHANGED <<procVars, lockVars, txn, fileVars, callVars, history>>

QueryBegin(t) ==
  LET p == ProcOf[t] IN
  /\ pc[t] = "idle" /\ phase[p] = "up" /\ ConnFree(p)
  /\ ~Barred(p, "main") /\ linked[p]
  /\ Access(p, "main")
  /\ disk'["main"].sound
  /\ Goto(t, "reading")
  /\ UNCHANGED <<procVars, lockVars, txnVars, stmt, done, history>>

QueryEnd(t) ==
  /\ pc[t] = "reading"
  /\ Goto(t, "idle")
  /\ UNCHANGED <<procVars, lockVars, txnVars, fileVars, stmt, done, history>>

-----------------------------------------------------------------------------
(* unlock(): COMMIT or ROLLBACK in main, then in backup; results ignored.  *)

Unlock(t) ==
  LET p == ProcOf[t] IN
  /\ pc[t] \in {"locked", "unlock"}
  /\ depth' = [depth EXCEPT ![p] = @ - 1]
  /\ Goto(t, IF depth[p] = 1 THEN "commit_main" ELSE "locked")
  /\ UNCHANGED <<procVars, ipc, mutex, txnVars, fileVars, stmt, done, history>>

CommitGuard(t, f) ==
  /\ pc[t] = CommitAt[f]
  /\ f = "main" => ConnFree(ProcOf[t])

\* ROLLBACK, and need_rollback is reset.
RollbackTxn(t, f) ==
  LET p == ProcOf[t] IN
  /\ CommitGuard(t, f) /\ needRollback[p][f]
  /\ txn' = [txn EXCEPT ![p][f] = Closed]
  /\ needRollback' = [needRollback EXCEPT ![p][f] = FALSE]
  /\ dropped' = dropped \cup txn[p][f].rows
  /\ done' = [done EXCEPT ![t] = {}]
  /\ Goto(t, AfterCommit[f])
  /\ UNCHANGED <<procVars, lockVars, fileVars, stmt, used, acked, faults>>

\* Nothing to write, or nowhere: the file was unlinked by another process.
CommitEmpty(t, f) ==
  LET p == ProcOf[t] IN
  /\ CommitGuard(t, f) /\ ~needRollback[p][f]
  /\ linked[p] => txn[p][f].rows = {}
  /\ txn' = [txn EXCEPT ![p][f] = Closed]
  /\ Goto(t, AfterCommit[f])
  /\ UNCHANGED <<procVars, lockVars, needRollback, fileVars, stmt, done, history>>

CommitStart_Skipped(t, f) ==
  /\ CommitGuard(t, f) /\ ~needRollback[ProcOf[t]][f]
  /\ txn[ProcOf[t]][f].rows # {} /\ linked[ProcOf[t]]
  /\ Goto(t, AfterCommit[f])
  /\ UNCHANGED <<procVars, lockVars, txnVars, fileVars, stmt, done, history>>

\* The journal is synced and the pages are being written ...
CommitStart(t, f) ==
  LET p == ProcOf[t] IN
  /\ CommitGuard(t, f) /\ ~needRollback[p][f] /\ txn[p][f].rows # {}
  /\ linked[p] /\ (f = "main" => OtherReaders(p) = {})
  /\ journal' = [journal EXCEPT ![f] = [pre |-> disk[f].rows,
                                        add |-> txn[p][f].rows]]
  /\ Goto(t, WriteAt[f])
  /\ UNCHANGED <<procVars, lockVars, txnVars, disk, stmt, done, history>>

\* ... and the journal is deleted, which commits.
CommitFinish(t, f) ==
  LET p == ProcOf[t] IN
  /\ pc[t] = WriteAt[f]
  /\ disk' = [disk EXCEPT ![f].rows = @ \cup txn[p][f].rows]
  /\ journal' = [journal EXCEPT ![f] = None]
  /\ txn' = [txn EXCEPT ![p][f] = Closed]
  /\ Goto(t, AfterCommit[f])
  /\ UNCHANGED <<procVars, lockVars, needRollback, stmt, done, history>>

\* COMMIT meets readers: PENDING keeps new ones out, the retries go on ...
CommitBusy(t) ==
  LET p == ProcOf[t] IN
  /\ CommitGuard(t, "main") /\ ~needRollback[p]["main"] /\ linked[p]
  /\ txn[p]["main"].rows # {} /\ txn[p]["main"].mode = "open"
  /\ OtherReaders(p) # {}
  /\ txn' = [txn EXCEPT ![p]["main"].mode = "pending"]
  /\ UNCHANGED <<procVars, lockVars, needRollback, fileVars, callVars, history>>

\* ... for DB_EXEC_TIMEOUT.  The transaction stays open, and nobody is told.
CommitTimesOut(t) ==
  LET p == ProcOf[t] IN
  /\ CommitGuard(t, "main") /\ ~needRollback[p]["main"] /\ linked[p]
  /\ txn[p]["main"].rows # {} /\ txn[p]["main"].mode = "pending"
  /\ OtherReaders(p) # {} /\ Fault("slow_reader")
  /\ Goto(t, "commit_backup")
  /\ UNCHANGED <<procVars, lockVars, txnVars, fileVars, stmt, done,
                 used, acked, dropped>>

\* ipc_unlock and pthread_mutex_unlock: the caller has been told 1 for done[t].
Release(t) ==
  LET p == ProcOf[t] IN
  /\ pc[t] = "release"
  /\ UnlockIpc
  /\ UnlockMutex(p)
  /\ acked' = acked \cup done[t]
  /\ done' = [done EXCEPT ![t] = {}]
  /\ Goto(t, "idle")
  /\ UNCHANGED <<procVars, depth, txnVars, fileVars, stmt, used, dropped, faults>>

-----------------------------------------------------------------------------
(* Start-up (init_dbs, db_sqlite3_try_recover) and faults.                 *)

\* init_dbs: both files are opened, and created when missing.
Open(p) ==
  /\ phase[p] = "down"
  /\ phase' = [phase EXCEPT ![p] = "opening"]
  /\ linked' = [linked EXCEPT ![p] = TRUE]
  /\ UNCHANGED <<copyTo, lockVars, txnVars, fileVars, callVars, history>>

\* integrity_check opens read-only: a hot journal or a lock fails it, and an
\* empty file passes it.
Verdicts(p, f) ==
  IF Hot(f) \/ Barred(p, f) THEN {FALSE}
  ELSE IF disk[f].sound THEN {TRUE}
  ELSE {FALSE} \cup (IF "silent" \in Faults THEN {TRUE} ELSE {})

Other(f) == IF f = "main" THEN "backup" ELSE "main"

\* Main is the source whenever it passes, the backup only when main does not.
RestoreTarget_Swapped(good) == IF good["main"] THEN "main" ELSE "backup"
RestoreTarget(good) == IF good["main"] THEN "backup" ELSE "main"

RestoreBegin(p) ==
  /\ phase[p] = "opening" /\ IpcFree
  /\ \E good \in [File -> BOOLEAN] :
       /\ \A f \in File : good[f] \in Verdicts(p, f)
       /\ good["main"] \/ good["backup"]
       /\ copyTo' = RestoreTarget(good)
  /\ ipc' = p
  /\ phase' = [phase EXCEPT ![p] = "restoring"]
  /\ UNCHANGED <<linked, mutex, depth, txnVars, fileVars, callVars, history>>

\* "both malformed, restore default": rm -f of files that this process and
\* the others have open.
BothBad_Either(p) == \E f \in File : FALSE \in Verdicts(p, f)
BothBad(p) == \A f \in File : FALSE \in Verdicts(p, f)

RemoveBoth(p) ==
  /\ phase[p] = "opening" /\ IpcFree
  /\ BothBad(p)
  /\ disk' = [f \in File |-> EmptyFile]
  /\ journal' = [f \in File |-> None]
  /\ linked' = [q \in Proc |-> FALSE]
  /\ phase' = [phase EXCEPT ![p] = "up"]
  /\ UNCHANGED <<copyTo, lockVars, txnVars, callVars, history>>

\* cp -f is done; a hot journal next to the target is still there.
RestoreEnd(p) ==
  /\ phase[p] = "restoring"
  /\ disk' = [disk EXCEPT ![copyTo] = disk[Other(copyTo)]]
  /\ copyTo' = None
  /\ UnlockIpc
  /\ phase' = [phase EXCEPT ![p] = "up"]
  /\ UNCHANGED <<linked, mutex, depth, txnVars, journal, callVars, history>>

\* What dies with a process: its threads, locks and open transactions.
ProcessEnds(p) ==
  /\ phase' = [phase EXCEPT ![p] = "down"]
  /\ linked' = [linked EXCEPT ![p] = FALSE]
  /\ ipc' = IpcAfter(p)
  /\ mutex' = [mutex EXCEPT ![p] = None]
  /\ depth' = [depth EXCEPT ![p] = 0]
  /\ needRollback' = [needRollback EXCEPT ![p] = [f \in File |-> FALSE]]
  /\ txn' = [txn EXCEPT ![p] = [f \in File |-> Closed]]
  /\ pc' = [t \in Thread |-> IF ProcOf[t] = p THEN "idle" ELSE pc[t]]
  /\ stmt' = [t \in Thread |-> IF ProcOf[t] = p THEN None ELSE stmt[t]]
  /\ done' = [t \in Thread |-> IF ProcOf[t] = p THEN {} ELSE done[t]]
  /\ UNCHANGED <<used, acked, dropped>>

Crash(p) ==
  /\ phase[p] \in {"opening", "up"} /\ Fault("crash")
  /\ ProcessEnds(p)
  /\ UNCHANGED <<copyTo, fileVars>>

\* SQLite ignores a journal next to a file of no bytes.
Overwritten(f, d) ==
  /\ disk' = [disk EXCEPT ![f] = d]
  /\ journal' = IF d = EmptyFile THEN [journal EXCEPT ![f] = None] ELSE journal

\* The target was truncated, and holds nothing or a part of the source.
CrashInCopy(p) ==
  /\ phase[p] = "restoring" /\ Fault("copy_crash")
  /\ ProcessEnds(p)
  /\ \E d \in {EmptyFile, Damaged} : Overwritten(copyTo, d)
  /\ copyTo' = None

\* An exit between two calls, or while it waits to start.
Exit(p) ==
  /\ phase[p] \in {"opening", "up"}
  /\ \A t \in ThreadsOf(p) : pc[t] = "idle"
  /\ ProcessEnds(p)
  /\ UNCHANGED <<copyTo, fileVars, faults>>

\* One file goes bad while the other one is whole, which is what a backup is for.
Damage(f, kind, d) ==
  /\ \A p \in Proc : phase[p] = "down"
  /\ disk[f].rows # {} /\ disk[Other(f)].sound /\ ~Hot(Other(f))
  /\ Fault(kind)
  /\ Overwritten(f, d)
  /\ UNCHANGED <<procVars, lockVars, txnVars, callVars, used, acked, dropped>>

Corrupt(f) == Damage(f, "corrupt", Damaged)
Lose(f) == Damage(f, "lost", EmptyFile)

-----------------------------------------------------------------------------
Call(t) == CallLock(t) \/ CallModify(t) \/ CallModifyLocked(t) \/ Rollback(t)

Commit(t, f) ==
  \/ RollbackTxn(t, f) \/ CommitEmpty(t, f)
  \/ CommitStart(t, f) \/ CommitFinish(t, f)

Step(t) ==
  \/ Begin(t) \/ ExecMain(t) \/ ExecMainFails(t)
  \/ ExecBackup(t) \/ ExecBackupFails(t) \/ QueryEnd(t)
  \/ Unlock(t) \/ CommitBusy(t) \/ CommitTimesOut(t) \/ Release(t)
  \/ \E f \in File : Commit(t, f)

Next ==
  \/ \E t \in Thread :
       Call(t) \/ QueryBegin(t) \/ TakeMutex(t) \/ TakeIpc(t) \/ Step(t)
  \/ \E p \in Proc :
       \/ Open(p) \/ RestoreBegin(p) \/ RemoveBoth(p) \/ RestoreEnd(p)
       \/ Crash(p) \/ CrashInCopy(p) \/ Exit(p)
  \/ \E f \in File : Corrupt(f) \/ Lose(f)

Spec == Init /\ [][Next]_vars

\* A thread in a call runs on; a waiter gets a lock or a connection that keeps
\* coming free (the kernel queues semop callers, the mutexes wake them).
Fairness ==
  /\ \A t \in Thread :
       SF_vars(Step(t)) /\ SF_vars(TakeMutex(t)) /\ SF_vars(TakeIpc(t))
  /\ \A p \in Proc :
       SF_vars(RestoreBegin(p) \/ RemoveBoth(p)) /\ WF_vars(RestoreEnd(p))

LiveSpec == Spec /\ Fairness

-----------------------------------------------------------------------------
(* Properties *)

\* Between the BEGIN of lock() and the end of unlock().
InTxn(t) == pc[t] \in PC \ {"idle", "reading", "want_mutex", "want_ipc", "begin"}

\* Between ipc_lock and ipc_unlock.
HoldsIpc(t) == InTxn(t) \/ pc[t] = "begin"

\* Two transactions never overlap, in one process or in two, and none runs while
\* a starting process copies a file: lock() of backup.c and try_recover exclude
\* each other whatever dies, fails or times out.
TransactionsExclusive ==
  /\ \A t, u \in Thread : HoldsIpc(t) /\ HoldsIpc(u) => t = u
  /\ \A p \in Proc : phase[p] = "restoring" => \A t \in Thread : ~HoldsIpc(t)

\* While a thread is in its transaction nobody else changes the committed content
\* of either database (the promise of lock() in backup.h:28), a hot journal that
\* a reader undoes excepted.
StableUnderLock ==
  [][\A t \in Thread : \A f \in File :
       InTxn(t) /\ InTxn(t)' /\ ~Hot(f) /\ disk'[f] # disk[f]
         => pc[t] = WriteAt[f]]_vars

\* When no transaction and no copy is running, main and backup hold the same
\* modifications, counting what a COMMIT that gave up left in its connection.
Held(f) == disk[f].rows \cup UNION {txn[p][f].rows : p \in Proc}
MirrorWhenFree == ipc = None => Held("main") = Held("backup")

\* What a confirmed call wrote is in main, where queries look for it, whenever the
\* database is not being repaired.
AckedInMain ==
  (ipc = None /\ \E p \in Proc : phase[p] = "up") =>
    \A d \in Undone("main") : d.sound => acked \subseteq d.rows

\* Whatever happens to one file, a whole copy of every confirmed modification is
\* left somewhere, also in the middle of a repair.
AckedSurvives ==
  \E f \in File \ {copyTo} :
    \A d \in Undone(f) : d.sound /\ acked \subseteq d.rows

\* A transaction that was rolled back leaves nothing in either file.
RolledBackStaysOut ==
  \A f \in File : \A d \in Undone(f) : d.rows \cap dropped = {}

\* rollback() undoes "the whole transaction between lock and unlock"
\* (database.h:101) and nothing else: no modification that an earlier transaction
\* had confirmed.
RollbackKeepsConfirmed == acked \cap dropped = {}

\* A process that has just been repaired works on a main and a backup that hold
\* the same modifications.
RepairSyncs ==
  [][\A p \in Proc : phase[p] = "restoring" /\ phase'[p] = "up"
       => Undone("main")' = Undone("backup")']_vars

\* Every lock() that waits is granted, unless its process dies.
WaiterServed ==
  \A t \in Thread :
    pc[t] = "want_mutex" ~> pc[t] \notin {"want_mutex", "want_ipc"}

\* A starting process gets through its repair, or dies.
StartUpEnds ==
  \A p \in Proc : phase[p] = "opening" ~> phase[p] \in {"up", "down"}

=============================================================================
