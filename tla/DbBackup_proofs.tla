--------------------------- MODULE DbBackup_proofs ---------------------------
(* For any processes, threads, modifications and faults: the variables keep  *)
(* their types, and transactions and repairs exclude each other.  Under the  *)
(* faults that each theorem names: what is confirmed stays, what was rolled  *)
(* back stays out, and the files mirror each other.                          *)
EXTENDS DbBackup, TLAPS

\* Who may be where, given the two locks and the start-up state.
Locks ==
  /\ \A t \in Thread : HoldsIpc(t) => ipc = ProcOf[t] /\ mutex[ProcOf[t]] = t
  /\ \A t \in Thread : pc[t] = "want_ipc" => mutex[ProcOf[t]] = t
  /\ \A t \in Thread : pc[t] # "idle" => phase[ProcOf[t]] = "up"
  /\ \A p \in Proc : phase[p] = "restoring" => ipc = p

\* A thread between lock() and unlock() is counted.
Counted ==
  \A t \in Thread : pc[t] \in {"locked", "exec_main", "exec_backup", "unlock"}
                      => depth[ProcOf[t]] >= 1

\* A statement that is being executed is a modification.
Issuing ==
  \A t \in Thread : pc[t] \in {"exec_main", "exec_backup"} => stmt[t] # None

\* The types hold before the first process starts.
LEMMA InitTypeOK == Init => TypeOK
<1> SUFFICES ASSUME Init PROVE TypeOK
  OBVIOUS
<1> USE DEF Init
<1>1. ProcTypes
  BY DEF ProcTypes, Phase
<1>2. LockTypes
  BY DEF LockTypes
<1>3. TxnTypes
  BY DEF TxnTypes, TxnState, Closed
<1>4. FileTypes
  BY DEF FileTypes, Content, EmptyFile
<1>5. CallTypes
  BY DEF CallTypes, PC
<1>6. HistoryTypes
  BY DEF HistoryTypes
<1> QED
  BY <1>1, <1>2, <1>3, <1>4, <1>5, <1>6 DEF TypeOK

\* Nobody owns a lock, is counted, or issues a statement before the first start.
LEMMA InitLocks == Init => Locks /\ Counted /\ Issuing
BY ConstantsAssumption
   DEF ConstantsAssumption, Init, Locks, Counted, Issuing, HoldsIpc, InTxn, PC

\* Playing back a hot journal keeps the types of the files.
LEMMA AccessTypes ==
  ASSUME FileTypes, NEW p, NEW f \in File, Access(p, f)
  PROVE  FileTypes'
<1>1. disk[f] \in Content /\ Damaged \in Content
  BY DEF FileTypes, Content, Damaged
<1>2. ASSUME journal[f] # None
      PROVE  [sound |-> TRUE, rows |-> journal[f].pre] \in Content
  <2>1. journal[f] \in Journal
    BY <1>2 DEF FileTypes
  <2> QED
    BY <2>1 DEF Journal, Content
<1>3. Undone(f) \subseteq Content
  BY <1>1, <1>2 DEF Undone, Hot
<1>4. disk' \in [File -> Content]
  BY <1>3 DEF Access, FileTypes
<1>5. journal' \in [File -> {None} \cup Journal]
  BY DEF Access, FileTypes
<1> QED
  BY <1>4, <1>5 DEF FileTypes

\* The transactions stay typed when one of them is replaced, or gains a row.
LEMMA TxnUpdate ==
  ASSUME TxnTypes, NEW p \in Proc, NEW f \in File, NEW r \in TxnState
  PROVE  [txn EXCEPT ![p][f] = r] \in [Proc -> [File -> TxnState]]
BY DEF TxnTypes

\* A statement that is done in a transaction leaves it typed.
LEMMA AddToTxnTypes ==
  ASSUME TxnTypes, CallTypes, NEW t \in Thread, NEW f \in File,
         stmt[t] # None, AddToTxn(t, f)
  PROVE  txn' \in [Proc -> [File -> TxnState]]
<1> USE ConstantsAssumption DEF ConstantsAssumption
<1> DEFINE p == ProcOf[t]
           r == [txn[p][f] EXCEPT !.rows = @ \cup {stmt[t]}]
<1>1. p \in Proc /\ stmt[t] \in Change
  BY DEF CallTypes
<1>2. txn[p][f] \in TxnState
  BY <1>1 DEF TxnTypes
<1>3. r \in TxnState
  BY <1>1, <1>2 DEF TxnState
<1>4. txn' = [txn EXCEPT ![p][f] = r]
  BY DEF AddToTxn
<1> QED
  BY <1>1, <1>3, <1>4, TxnUpdate

\* A COMMIT that met readers leaves the transaction typed.
LEMMA BusyTxnTypes ==
  ASSUME TxnTypes, NEW p \in Proc
  PROVE  [txn EXCEPT ![p]["main"].mode = "pending"] \in [Proc -> [File -> TxnState]]
<1> DEFINE r == [txn[p]["main"] EXCEPT !.mode = "pending"]
<1>1. r \in TxnState
  BY DEF TxnTypes, TxnState, File
<1>2. [txn EXCEPT ![p]["main"].mode = "pending"] = [txn EXCEPT ![p]["main"] = r]
  OBVIOUS
<1> QED
  BY <1>1, <1>2, TxnUpdate DEF File

\* What a fault leaves in a file.
LEMMA FaultContents == EmptyFile \in Content /\ Damaged \in Content
BY DEF EmptyFile, Damaged, Content

\* The labels of unlock(), from COMMIT in main to the release of the locks.
Committing == {"commit_main", "write_main", "commit_backup", "write_backup", "release"}

\* The tables of the labels of unlock() stay among them.
LEMMA CommitLabels ==
  /\ Committing \subseteq PC
  /\ \A f \in File : {CommitAt[f], WriteAt[f], AfterCommit[f]} \subseteq Committing
BY DEF File, CommitAt, WriteAt, AfterCommit, PC, Committing

\* Every step keeps the types.
LEMMA NextTypeOK == TypeOK /\ Counted /\ Issuing /\ [Next]_vars => TypeOK'
<1> SUFFICES ASSUME TypeOK, Counted, Issuing, [Next]_vars PROVE TypeOK'
  OBVIOUS
<1> USE ConstantsAssumption DEF ConstantsAssumption, TypeOK
<1>0. CASE UNCHANGED vars
  BY <1>0 DEF vars, procVars, lockVars, txnVars, fileVars, callVars, history,
     ProcTypes, LockTypes, TxnTypes, FileTypes, CallTypes, HistoryTypes
<1>1. ASSUME NEW t \in Thread, CallLock(t) PROVE TypeOK'
  <2>1. CallTypes'
    BY <1>1 DEF CallLock, Goto, CallTypes, PC
  <2>2. ProcTypes' /\ LockTypes' /\ TxnTypes' /\ FileTypes' /\ HistoryTypes'
    BY <1>1 DEF CallLock, ProcTypes, LockTypes, TxnTypes, FileTypes,
       HistoryTypes, procVars, lockVars, txnVars, fileVars, callVars, history
  <2> QED
    BY <2>1, <2>2 DEF TypeOK
<1>2. ASSUME NEW t \in Thread, CallModify(t) PROVE TypeOK'
  <2>1. CallTypes'
    BY <1>2 DEF CallModify, Goto, CallTypes, PC
  <2>2. HistoryTypes'
    BY <1>2 DEF CallModify, HistoryTypes, CallTypes
  <2>3. ProcTypes' /\ LockTypes' /\ TxnTypes' /\ FileTypes'
    BY <1>2 DEF CallModify, ProcTypes, LockTypes, TxnTypes, FileTypes, procVars,
       lockVars, txnVars, fileVars, callVars, history
  <2> QED
    BY <2>1, <2>2, <2>3 DEF TypeOK
<1>3. ASSUME NEW t \in Thread, CallModifyLocked(t) PROVE TypeOK'
  <2>1. LockTypes'
    BY <1>3 DEF CallModifyLocked, Enter, LockTypes
  <2>2. CallTypes'
    BY <1>3 DEF CallModifyLocked, Goto, CallTypes, PC
  <2>3. HistoryTypes'
    BY <1>3 DEF CallModifyLocked, HistoryTypes, CallTypes
  <2>4. ProcTypes' /\ TxnTypes' /\ FileTypes'
    BY <1>3 DEF CallModifyLocked, ProcTypes, TxnTypes, FileTypes, procVars,
       lockVars, txnVars, fileVars, callVars, history
  <2> QED
    BY <2>1, <2>2, <2>3, <2>4 DEF TypeOK
<1>4. ASSUME NEW t \in Thread, Rollback(t) PROVE TypeOK'
  <2>1. TxnTypes'
    BY <1>4 DEF Rollback, SetRollback, TxnTypes, TxnState, Closed
  <2>2. ProcTypes' /\ LockTypes' /\ FileTypes' /\ CallTypes' /\ HistoryTypes'
    BY <1>4 DEF Rollback, ProcTypes, LockTypes, FileTypes, CallTypes,
       HistoryTypes, procVars, lockVars, txnVars, fileVars, callVars, history
  <2> QED
    BY <2>1, <2>2 DEF TypeOK
<1>5. ASSUME NEW t \in Thread, QueryBegin(t) PROVE TypeOK'
  <2>1. FileTypes'
    BY <1>5, AccessTypes DEF QueryBegin, File
  <2>2. CallTypes'
    BY <1>5 DEF QueryBegin, Goto, CallTypes, PC
  <2>3. ProcTypes' /\ LockTypes' /\ TxnTypes' /\ HistoryTypes'
    BY <1>5 DEF QueryBegin, ProcTypes, LockTypes, TxnTypes, HistoryTypes,
       procVars, lockVars, txnVars, fileVars, callVars, history
  <2> QED
    BY <2>1, <2>2, <2>3 DEF TypeOK
<1>6. ASSUME NEW t \in Thread, TakeMutex(t) PROVE TypeOK'
  <2>1. LockTypes'
    BY <1>6 DEF TakeMutex, LockTypes
  <2>2. CallTypes'
    BY <1>6 DEF TakeMutex, Goto, CallTypes, PC
  <2>3. ProcTypes' /\ TxnTypes' /\ FileTypes' /\ HistoryTypes'
    BY <1>6 DEF TakeMutex, ProcTypes, TxnTypes, FileTypes, HistoryTypes,
       procVars, lockVars, txnVars, fileVars, callVars, history
  <2> QED
    BY <2>1, <2>2, <2>3 DEF TypeOK
<1>7. ASSUME NEW t \in Thread, TakeIpc(t) PROVE TypeOK'
  <2>1. LockTypes'
    BY <1>7 DEF TakeIpc, IpcFree, LockTypes
  <2>2. CallTypes'
    BY <1>7 DEF TakeIpc, Goto, CallTypes, PC
  <2>3. ProcTypes' /\ TxnTypes' /\ FileTypes' /\ HistoryTypes'
    BY <1>7 DEF TakeIpc, ProcTypes, TxnTypes, FileTypes, HistoryTypes, procVars,
       lockVars, txnVars, fileVars, callVars, history
  <2> QED
    BY <2>1, <2>2, <2>3 DEF TypeOK
<1>8. ASSUME NEW t \in Thread, Begin(t) PROVE TypeOK'
  <2>1. LockTypes'
    BY <1>8 DEF Begin, Enter, LockTypes
  <2>2. TxnTypes'
    BY <1>8 DEF Begin, TxnTypes, TxnState, Closed
  <2>3. CallTypes'
    BY <1>8 DEF Begin, Goto, CallTypes, PC
  <2>4. ProcTypes' /\ FileTypes' /\ HistoryTypes'
    BY <1>8 DEF Begin, ProcTypes, FileTypes, HistoryTypes, procVars, lockVars,
       txnVars, fileVars, callVars, history
  <2> QED
    BY <2>1, <2>2, <2>3, <2>4 DEF TypeOK
<1>9. ASSUME NEW t \in Thread, ExecMain(t) PROVE TypeOK'
  <2>1. FileTypes'
    BY <1>9, AccessTypes DEF ExecMain, File
  <2>2. TxnTypes'
    BY <1>9, AddToTxnTypes DEF ExecMain, Issuing, TxnTypes, File
  <2>3. CallTypes'
    BY <1>9 DEF ExecMain, Goto, CallTypes, PC
  <2>4. ProcTypes' /\ LockTypes' /\ HistoryTypes'
    BY <1>9 DEF ExecMain, ProcTypes, LockTypes, HistoryTypes, procVars,
       lockVars, txnVars, fileVars, callVars, history
  <2> QED
    BY <2>1, <2>2, <2>3, <2>4 DEF TypeOK
<1>10. ASSUME NEW t \in Thread, ExecMainFails(t) PROVE TypeOK'
  <2>1. FileTypes'
    BY <1>10, AccessTypes DEF ExecMainFails, File
  <2>2. CallTypes'
    BY <1>10 DEF ExecMainFails, Goto, CallTypes, PC
  <2>3. HistoryTypes'
    BY <1>10 DEF ExecMainFails, Fault, HistoryTypes, CallTypes
  <2>4. ProcTypes' /\ LockTypes' /\ TxnTypes'
    BY <1>10 DEF ExecMainFails, ProcTypes, LockTypes, TxnTypes, procVars,
       lockVars, txnVars, fileVars, callVars, history
  <2> QED
    BY <2>1, <2>2, <2>3, <2>4 DEF TypeOK
<1>11. ASSUME NEW t \in Thread, ExecBackup(t) PROVE TypeOK'
  <2>1. FileTypes'
    BY <1>11, AccessTypes DEF ExecBackup, File
  <2>2. TxnTypes'
    BY <1>11, AddToTxnTypes DEF ExecBackup, Issuing, TxnTypes, File
  <2>3. CallTypes'
    <3>1. stmt[t] \in Change
      BY <1>11 DEF ExecBackup, Issuing, CallTypes
    <3>2. done' \in [Thread -> SUBSET Change]
      BY <1>11, <3>1 DEF ExecBackup, CallTypes
    <3>3. pc' \in [Thread -> PC] /\ stmt' \in [Thread -> Change \cup {None}]
      BY <1>11 DEF ExecBackup, Goto, CallTypes, PC
    <3> QED
      BY <3>2, <3>3 DEF CallTypes
  <2>4. ProcTypes' /\ LockTypes' /\ HistoryTypes'
    BY <1>11 DEF ExecBackup, ProcTypes, LockTypes, HistoryTypes, procVars,
       lockVars, txnVars, fileVars, callVars, history
  <2> QED
    BY <2>1, <2>2, <2>3, <2>4 DEF TypeOK
<1>12. ASSUME NEW t \in Thread, ExecBackupFails(t) PROVE TypeOK'
  <2>1. FileTypes'
    BY <1>12, AccessTypes DEF ExecBackupFails, File
  <2>2. TxnTypes'
    BY <1>12 DEF ExecBackupFails, SetRollback, TxnTypes, TxnState, Closed
  <2>3. CallTypes'
    BY <1>12 DEF ExecBackupFails, Goto, CallTypes, PC
  <2>4. HistoryTypes'
    BY <1>12 DEF ExecBackupFails, Fault, HistoryTypes, CallTypes
  <2>5. ProcTypes' /\ LockTypes'
    BY <1>12 DEF ExecBackupFails, ProcTypes, LockTypes, procVars, lockVars,
       txnVars, fileVars, callVars, history
  <2> QED
    BY <2>1, <2>2, <2>3, <2>4, <2>5 DEF TypeOK
<1>13. ASSUME NEW t \in Thread, QueryEnd(t) PROVE TypeOK'
  <2>1. CallTypes'
    BY <1>13 DEF QueryEnd, Goto, CallTypes, PC
  <2>2. ProcTypes' /\ LockTypes' /\ TxnTypes' /\ FileTypes' /\ HistoryTypes'
    BY <1>13 DEF QueryEnd, ProcTypes, LockTypes, TxnTypes, FileTypes,
       HistoryTypes, procVars, lockVars, txnVars, fileVars, callVars, history
  <2> QED
    BY <2>1, <2>2 DEF TypeOK
<1>14. ASSUME NEW t \in Thread, Unlock(t) PROVE TypeOK'
  <2>1. LockTypes'
    BY <1>14 DEF Unlock, Counted, LockTypes
  <2>2. CallTypes'
    BY <1>14 DEF Unlock, Goto, CallTypes, PC
  <2>3. ProcTypes' /\ TxnTypes' /\ FileTypes' /\ HistoryTypes'
    BY <1>14 DEF Unlock, ProcTypes, TxnTypes, FileTypes, HistoryTypes, procVars,
       lockVars, txnVars, fileVars, callVars, history
  <2> QED
    BY <2>1, <2>2, <2>3 DEF TypeOK
<1>15. ASSUME NEW t \in Thread, CommitBusy(t) PROVE TypeOK'
  <2>1. TxnTypes'
    BY <1>15, BusyTxnTypes DEF CommitBusy, TxnTypes
  <2>2. ProcTypes' /\ LockTypes' /\ FileTypes' /\ CallTypes' /\ HistoryTypes'
    BY <1>15 DEF CommitBusy, ProcTypes, LockTypes, FileTypes, CallTypes,
       HistoryTypes, procVars, lockVars, txnVars, fileVars, callVars, history
  <2> QED
    BY <2>1, <2>2 DEF TypeOK
<1>16. ASSUME NEW t \in Thread, CommitTimesOut(t) PROVE TypeOK'
  <2>1. CallTypes'
    BY <1>16 DEF CommitTimesOut, Goto, CallTypes, PC
  <2>2. HistoryTypes'
    BY <1>16 DEF CommitTimesOut, Fault, HistoryTypes, CallTypes
  <2>3. ProcTypes' /\ LockTypes' /\ TxnTypes' /\ FileTypes'
    BY <1>16 DEF CommitTimesOut, ProcTypes, LockTypes, TxnTypes, FileTypes,
       procVars, lockVars, txnVars, fileVars, callVars, history
  <2> QED
    BY <2>1, <2>2, <2>3 DEF TypeOK
<1>17. ASSUME NEW t \in Thread, Release(t) PROVE TypeOK'
  <2>1. LockTypes'
    BY <1>17 DEF Release, UnlockIpc, UnlockMutex, LockTypes
  <2>2. CallTypes'
    BY <1>17 DEF Release, Goto, CallTypes, PC
  <2>3. HistoryTypes'
    BY <1>17 DEF Release, HistoryTypes, CallTypes
  <2>4. ProcTypes' /\ TxnTypes' /\ FileTypes'
    BY <1>17 DEF Release, ProcTypes, TxnTypes, FileTypes, procVars, lockVars,
       txnVars, fileVars, callVars, history
  <2> QED
    BY <2>1, <2>2, <2>3, <2>4 DEF TypeOK
<1>18. ASSUME NEW t \in Thread, NEW f \in File, RollbackTxn(t, f) PROVE TypeOK'
  <2>1. TxnTypes'
    BY <1>18 DEF RollbackTxn, TxnTypes, TxnState, Closed
  <2>2. CallTypes'
    BY <1>18, CommitLabels DEF RollbackTxn, Goto, CallTypes
  <2>3. HistoryTypes'
    <3>1. txn[ProcOf[t]][f].rows \subseteq Change
      BY DEF TxnTypes, TxnState
    <3> QED
      BY <1>18, <3>1 DEF RollbackTxn, HistoryTypes
  <2>4. ProcTypes' /\ LockTypes' /\ FileTypes'
    BY <1>18 DEF RollbackTxn, ProcTypes, LockTypes, FileTypes, procVars,
       lockVars, txnVars, fileVars, callVars, history
  <2> QED
    BY <2>1, <2>2, <2>3, <2>4 DEF TypeOK
<1>19. ASSUME NEW t \in Thread, NEW f \in File, CommitEmpty(t, f) PROVE TypeOK'
  <2>1. TxnTypes'
    BY <1>19 DEF CommitEmpty, TxnTypes, TxnState, Closed
  <2>2. CallTypes'
    BY <1>19, CommitLabels DEF CommitEmpty, Goto, CallTypes
  <2>3. ProcTypes' /\ LockTypes' /\ FileTypes' /\ HistoryTypes'
    BY <1>19 DEF CommitEmpty, ProcTypes, LockTypes, FileTypes, HistoryTypes,
       procVars, lockVars, txnVars, fileVars, callVars, history
  <2> QED
    BY <2>1, <2>2, <2>3 DEF TypeOK
<1>20. ASSUME NEW t \in Thread, NEW f \in File, CommitStart(t, f) PROVE TypeOK'
  <2>1. FileTypes'
    <3> DEFINE j == [pre |-> disk[f].rows, add |-> txn[ProcOf[t]][f].rows]
    <3>1. j \in Journal
      BY DEF FileTypes, TxnTypes, TxnState, Content, Journal
    <3> QED
      BY <1>20, <3>1 DEF CommitStart, FileTypes
  <2>2. CallTypes'
    BY <1>20, CommitLabels DEF CommitStart, Goto, CallTypes
  <2>3. ProcTypes' /\ LockTypes' /\ TxnTypes' /\ HistoryTypes'
    BY <1>20 DEF CommitStart, ProcTypes, LockTypes, TxnTypes, HistoryTypes,
       procVars, lockVars, txnVars, fileVars, callVars, history
  <2> QED
    BY <2>1, <2>2, <2>3 DEF TypeOK
<1>21. ASSUME NEW t \in Thread, NEW f \in File, CommitFinish(t, f) PROVE TypeOK'
  <2>1. TxnTypes'
    BY <1>21 DEF CommitFinish, TxnTypes, TxnState, Closed
  <2>2. FileTypes'
    <3> DEFINE d == [disk[f] EXCEPT !.rows = @ \cup txn[ProcOf[t]][f].rows]
    <3>0. disk[f] \in Content /\ txn[ProcOf[t]][f].rows \subseteq Change
      BY DEF FileTypes, TxnTypes, TxnState
    <3>1. d \in Content
      BY <3>0 DEF Content
    <3>2. disk' = [disk EXCEPT ![f] = d]
      BY <1>21 DEF CommitFinish
    <3> QED
      BY <1>21, <3>1, <3>2 DEF CommitFinish, FileTypes
  <2>3. CallTypes'
    BY <1>21, CommitLabels DEF CommitFinish, Goto, CallTypes
  <2>4. ProcTypes' /\ LockTypes' /\ HistoryTypes'
    BY <1>21 DEF CommitFinish, ProcTypes, LockTypes, HistoryTypes, procVars,
       lockVars, txnVars, fileVars, callVars, history
  <2> QED
    BY <2>1, <2>2, <2>3, <2>4 DEF TypeOK
<1>22. ASSUME NEW p \in Proc, Open(p) PROVE TypeOK'
  <2>1. ProcTypes'
    BY <1>22 DEF Open, ProcTypes, Phase
  <2>2. LockTypes' /\ TxnTypes' /\ FileTypes' /\ CallTypes' /\ HistoryTypes'
    BY <1>22 DEF Open, LockTypes, TxnTypes, FileTypes, CallTypes, HistoryTypes,
       procVars, lockVars, txnVars, fileVars, callVars, history
  <2> QED
    BY <2>1, <2>2 DEF TypeOK
<1>23. ASSUME NEW p \in Proc, RestoreBegin(p) PROVE TypeOK'
  <2>1. ProcTypes'
    <3>1. copyTo' \in File
      BY <1>23 DEF RestoreBegin, RestoreTarget, File
    <3> QED
      BY <1>23, <3>1 DEF RestoreBegin, ProcTypes, Phase
  <2>2. LockTypes'
    BY <1>23 DEF RestoreBegin, IpcFree, LockTypes
  <2>3. TxnTypes' /\ FileTypes' /\ CallTypes' /\ HistoryTypes'
    BY <1>23 DEF RestoreBegin, TxnTypes, FileTypes, CallTypes, HistoryTypes,
       procVars, lockVars, txnVars, fileVars, callVars, history
  <2> QED
    BY <2>1, <2>2, <2>3 DEF TypeOK
<1>24. ASSUME NEW p \in Proc, RemoveBoth(p) PROVE TypeOK'
  <2>1. ProcTypes'
    BY <1>24 DEF RemoveBoth, ProcTypes, Phase
  <2>2. FileTypes'
    BY <1>24, FaultContents DEF RemoveBoth, FileTypes
  <2>3. LockTypes' /\ TxnTypes' /\ CallTypes' /\ HistoryTypes'
    BY <1>24 DEF RemoveBoth, LockTypes, TxnTypes, CallTypes, HistoryTypes,
       procVars, lockVars, txnVars, fileVars, callVars, history
  <2> QED
    BY <2>1, <2>2, <2>3 DEF TypeOK
<1>25. ASSUME NEW p \in Proc, RestoreEnd(p) PROVE TypeOK'
  <2>1. ProcTypes'
    BY <1>25 DEF RestoreEnd, ProcTypes, Phase
  <2>2. LockTypes'
    BY <1>25 DEF RestoreEnd, UnlockIpc, LockTypes
  <2>3. FileTypes'
    <3>1. disk[Other(copyTo)] \in Content
      BY DEF Other, FileTypes, File
    <3> QED
      BY <1>25, <3>1 DEF RestoreEnd, FileTypes
  <2>4. TxnTypes' /\ CallTypes' /\ HistoryTypes'
    BY <1>25 DEF RestoreEnd, TxnTypes, CallTypes, HistoryTypes, procVars,
       lockVars, txnVars, fileVars, callVars, history
  <2> QED
    BY <2>1, <2>2, <2>3, <2>4 DEF TypeOK
<1>26. ASSUME NEW p \in Proc, Crash(p) PROVE TypeOK'
  <2>1. ProcTypes'
    BY <1>26 DEF Crash, ProcessEnds, ProcTypes, Phase
  <2>2. LockTypes'
    BY <1>26 DEF Crash, ProcessEnds, IpcAfter, LockTypes
  <2>3. TxnTypes'
    BY <1>26 DEF Crash, ProcessEnds, TxnTypes, TxnState, Closed
  <2>4. CallTypes'
    BY <1>26 DEF Crash, ProcessEnds, Goto, CallTypes, PC
  <2>5. HistoryTypes'
    BY <1>26 DEF Crash, ProcessEnds, Fault, HistoryTypes, CallTypes
  <2>6. FileTypes'
    BY <1>26 DEF Crash, ProcessEnds, FileTypes, procVars, lockVars, txnVars,
       fileVars, callVars, history
  <2> QED
    BY <2>1, <2>2, <2>3, <2>4, <2>5, <2>6 DEF TypeOK
<1>27. ASSUME NEW p \in Proc, CrashInCopy(p) PROVE TypeOK'
  <2>1. ProcTypes'
    BY <1>27 DEF CrashInCopy, ProcessEnds, ProcTypes, Phase
  <2>2. LockTypes'
    BY <1>27 DEF CrashInCopy, ProcessEnds, IpcAfter, LockTypes
  <2>3. TxnTypes'
    BY <1>27 DEF CrashInCopy, ProcessEnds, TxnTypes, TxnState, Closed
  <2>4. FileTypes'
    <3>1. PICK d \in {EmptyFile, Damaged} : Overwritten(copyTo, d)
      BY <1>27 DEF CrashInCopy
    <3>2. disk' \in [File -> Content]
      BY <3>1, FaultContents DEF Overwritten, FileTypes
    <3>3. journal' \in [File -> {None} \cup Journal]
      BY <3>1 DEF Overwritten, FileTypes
    <3> QED
      BY <3>2, <3>3 DEF FileTypes
  <2>5. CallTypes'
    BY <1>27 DEF CrashInCopy, ProcessEnds, Goto, CallTypes, PC
  <2>6. HistoryTypes'
    BY <1>27 DEF CrashInCopy, ProcessEnds, Fault, HistoryTypes, CallTypes
  <2> QED
    BY <2>1, <2>2, <2>3, <2>4, <2>5, <2>6 DEF TypeOK
<1>28. ASSUME NEW p \in Proc, Exit(p) PROVE TypeOK'
  <2>1. ProcTypes'
    BY <1>28 DEF Exit, ProcessEnds, ProcTypes, Phase
  <2>2. LockTypes'
    BY <1>28 DEF Exit, ProcessEnds, IpcAfter, LockTypes
  <2>3. TxnTypes'
    BY <1>28 DEF Exit, ProcessEnds, TxnTypes, TxnState, Closed
  <2>4. CallTypes'
    BY <1>28 DEF Exit, ProcessEnds, Goto, CallTypes, PC
  <2>5. HistoryTypes'
    BY <1>28 DEF Exit, ProcessEnds, HistoryTypes, CallTypes
  <2>6. FileTypes'
    BY <1>28 DEF Exit, ProcessEnds, FileTypes, procVars, lockVars, txnVars,
       fileVars, callVars, history
  <2> QED
    BY <2>1, <2>2, <2>3, <2>4, <2>5, <2>6 DEF TypeOK
<1>29. ASSUME NEW f \in File, Corrupt(f) PROVE TypeOK'
  <2>1. FileTypes'
    BY <1>29, FaultContents DEF Corrupt, Damage, Overwritten, FileTypes
  <2>2. HistoryTypes'
    BY <1>29 DEF Corrupt, Damage, Fault, HistoryTypes, CallTypes
  <2>3. ProcTypes' /\ LockTypes' /\ TxnTypes' /\ CallTypes'
    BY <1>29 DEF Corrupt, Damage, ProcTypes, LockTypes, TxnTypes, CallTypes,
       procVars, lockVars, txnVars, fileVars, callVars, history
  <2> QED
    BY <2>1, <2>2, <2>3 DEF TypeOK
<1>30. ASSUME NEW f \in File, Lose(f) PROVE TypeOK'
  <2>1. FileTypes'
    BY <1>30, FaultContents DEF Lose, Damage, Overwritten, FileTypes
  <2>2. HistoryTypes'
    BY <1>30 DEF Lose, Damage, Fault, HistoryTypes, CallTypes
  <2>3. ProcTypes' /\ LockTypes' /\ TxnTypes' /\ CallTypes'
    BY <1>30 DEF Lose, Damage, ProcTypes, LockTypes, TxnTypes, CallTypes,
       procVars, lockVars, txnVars, fileVars, callVars, history
  <2> QED
    BY <2>1, <2>2, <2>3 DEF TypeOK
<1> QED
  BY <1>0, <1>1, <1>2, <1>3, <1>4, <1>5, <1>6, <1>7, <1>8, <1>9, <1>10, <1>11,
     <1>12, <1>13, <1>14, <1>15, <1>16, <1>17, <1>18, <1>19, <1>20,
     <1>21, <1>22, <1>23, <1>24, <1>25, <1>26, <1>27, <1>28, <1>29, <1>30
     DEF Next, Call, Step, Commit

-----------------------------------------------------------------------------
\* The labels a thread passes between BEGIN and the end of unlock().
Inside == PC \ {"idle", "reading", "want_mutex", "want_ipc", "begin"}

\* A step from label to label inside a transaction touches no lock.
LEMMA MoveInTxn ==
  ASSUME pc \in [Thread -> PC], Locks, NEW t \in Thread, HoldsIpc(t),
         NEW l \in Inside, Goto(t, l), UNCHANGED <<phase, ipc, mutex>>
  PROVE  Locks'
BY DEF Locks, HoldsIpc, InTxn, Inside, Goto

\* The steps of unlock().
LEMMA MoveInCommit ==
  ASSUME TypeOK, Locks, Counted, Issuing, NEW t \in Thread,
         pc[t] \in Committing, NEW l \in Committing, Goto(t, l),
         UNCHANGED <<phase, ipc, mutex, depth, stmt>>
  PROVE  Locks' /\ Counted' /\ Issuing'
<1>1. Locks'
  BY MoveInTxn DEF TypeOK, CallTypes, Committing, Inside, PC, HoldsIpc, InTxn
<1>2. Counted' /\ Issuing'
  BY DEF TypeOK, CallTypes, Committing, Goto, Counted, Issuing
<1> QED
  BY <1>1, <1>2

\* Every step keeps the owners of the two locks, and the counts.
LEMMA NextLocks ==
  TypeOK /\ Locks /\ Counted /\ Issuing /\ [Next]_vars
    => Locks' /\ Counted' /\ Issuing'
<1> SUFFICES ASSUME TypeOK, Locks, Counted, Issuing, [Next]_vars
             PROVE  Locks' /\ Counted' /\ Issuing'
  OBVIOUS
<1> USE ConstantsAssumption
    DEF ConstantsAssumption, TypeOK, ProcTypes, LockTypes, CallTypes, PC, Phase
<1>0. CASE UNCHANGED vars
  BY <1>0 DEF vars, procVars, lockVars, txnVars, fileVars, callVars, history,
     Locks, Counted, Issuing, HoldsIpc, InTxn
<1>1. ASSUME NEW t \in Thread, CallLock(t) PROVE Locks' /\ Counted' /\ Issuing'
  <2>1. Locks'
    BY <1>1 DEF CallLock, Goto, procVars, lockVars, txnVars, fileVars, callVars,
       history, Locks, HoldsIpc, InTxn
  <2>2. Counted'
    BY <1>1 DEF CallLock, Goto, procVars, lockVars, txnVars, fileVars, callVars,
       history, Counted, Locks, HoldsIpc, InTxn
  <2>3. Issuing'
    BY <1>1 DEF CallLock, Goto, procVars, lockVars, txnVars, fileVars, callVars,
       history, Issuing
  <2> QED
    BY <2>1, <2>2, <2>3
<1>2. ASSUME NEW t \in Thread, CallModify(t) PROVE Locks' /\ Counted' /\ Issuing'
  <2>1. Locks'
    BY <1>2 DEF CallModify, Goto, procVars, lockVars, txnVars, fileVars,
       callVars, history, Locks, HoldsIpc, InTxn
  <2>2. Counted'
    BY <1>2 DEF CallModify, Goto, procVars, lockVars, txnVars, fileVars,
       callVars, history, Counted, Locks, HoldsIpc, InTxn
  <2>3. Issuing'
    BY <1>2 DEF CallModify, Goto, procVars, lockVars, txnVars, fileVars,
       callVars, history, Issuing
  <2> QED
    BY <2>1, <2>2, <2>3
<1>3. ASSUME NEW t \in Thread, CallModifyLocked(t) PROVE Locks' /\ Counted' /\ Issuing'
  <2>0. HoldsIpc(t) /\ Goto(t, "exec_main") /\ "exec_main" \in Inside
    BY <1>3 DEF CallModifyLocked, Enter, HoldsIpc, InTxn, Inside
  <2>1. Locks'
    BY <1>3, <2>0, MoveInTxn DEF CallModifyLocked, Enter, procVars, lockVars,
       txnVars, fileVars, callVars, history
  <2>2. Counted'
    BY <1>3 DEF CallModifyLocked, Enter, Goto, procVars, lockVars, txnVars,
       fileVars, callVars, history, Counted, Locks, HoldsIpc, InTxn
  <2>3. Issuing'
    BY <1>3 DEF CallModifyLocked, Enter, Goto, procVars, lockVars, txnVars,
       fileVars, callVars, history, Issuing
  <2> QED
    BY <2>1, <2>2, <2>3
<1>4. ASSUME NEW t \in Thread, Rollback(t) PROVE Locks' /\ Counted' /\ Issuing'
  BY <1>4 DEF Rollback, procVars, lockVars, txnVars, fileVars, callVars, history,
     Locks, Counted, Issuing, HoldsIpc, InTxn
<1>5. ASSUME NEW t \in Thread, QueryBegin(t) PROVE Locks' /\ Counted' /\ Issuing'
  <2>1. Locks'
    BY <1>5 DEF QueryBegin, Goto, procVars, lockVars, txnVars, fileVars,
       callVars, history, Locks, HoldsIpc, InTxn
  <2>2. Counted'
    BY <1>5 DEF QueryBegin, Goto, procVars, lockVars, txnVars, fileVars,
       callVars, history, Counted, Locks, HoldsIpc, InTxn
  <2>3. Issuing'
    BY <1>5 DEF QueryBegin, Goto, procVars, lockVars, txnVars, fileVars,
       callVars, history, Issuing
  <2> QED
    BY <2>1, <2>2, <2>3
<1>6. ASSUME NEW t \in Thread, TakeMutex(t) PROVE Locks' /\ Counted' /\ Issuing'
  <2>1. Locks'
    BY <1>6 DEF TakeMutex, Goto, procVars, lockVars, txnVars, fileVars,
       callVars, history, Locks, HoldsIpc, InTxn
  <2>2. Counted'
    BY <1>6 DEF TakeMutex, Goto, procVars, lockVars, txnVars, fileVars,
       callVars, history, Counted, Locks, HoldsIpc, InTxn
  <2>3. Issuing'
    BY <1>6 DEF TakeMutex, Goto, procVars, lockVars, txnVars, fileVars,
       callVars, history, Issuing
  <2> QED
    BY <2>1, <2>2, <2>3
<1>7. ASSUME NEW t \in Thread, TakeIpc(t) PROVE Locks' /\ Counted' /\ Issuing'
  <2>1. Locks'
    BY <1>7 DEF TakeIpc, IpcFree, Goto, procVars, lockVars, txnVars, fileVars,
       callVars, history, Locks, HoldsIpc, InTxn
  <2>2. Counted'
    BY <1>7 DEF TakeIpc, IpcFree, Goto, procVars, lockVars, txnVars, fileVars,
       callVars, history, Counted, Locks, HoldsIpc, InTxn
  <2>3. Issuing'
    BY <1>7 DEF TakeIpc, IpcFree, Goto, procVars, lockVars, txnVars, fileVars,
       callVars, history, Issuing
  <2> QED
    BY <2>1, <2>2, <2>3
<1>8. ASSUME NEW t \in Thread, Begin(t) PROVE Locks' /\ Counted' /\ Issuing'
  <2>1. Locks'
    BY <1>8 DEF Begin, Enter, Goto, procVars, lockVars, txnVars, fileVars,
       callVars, history, Locks, HoldsIpc, InTxn
  <2>2. Counted'
    BY <1>8 DEF Begin, Enter, Goto, procVars, lockVars, txnVars, fileVars,
       callVars, history, Counted, Locks, HoldsIpc, InTxn
  <2>3. Issuing'
    BY <1>8 DEF Begin, Enter, Goto, procVars, lockVars, txnVars, fileVars,
       callVars, history, Issuing
  <2> QED
    BY <2>1, <2>2, <2>3
<1>9. ASSUME NEW t \in Thread, ExecMain(t) PROVE Locks' /\ Counted' /\ Issuing'
  <2>0. HoldsIpc(t) /\ Goto(t, "exec_backup") /\ "exec_backup" \in Inside
    BY <1>9 DEF ExecMain, HoldsIpc, InTxn, Inside
  <2>1. Locks'
    BY <1>9, <2>0, MoveInTxn DEF ExecMain, procVars, lockVars, txnVars,
       fileVars, callVars, history
  <2>2. Counted'
    BY <1>9 DEF ExecMain, Goto, procVars, lockVars, txnVars, fileVars, callVars,
       history, Counted, Locks, HoldsIpc, InTxn
  <2>3. Issuing'
    BY <1>9 DEF ExecMain, Goto, procVars, lockVars, txnVars, fileVars, callVars,
       history, Issuing
  <2> QED
    BY <2>1, <2>2, <2>3
<1>10. ASSUME NEW t \in Thread, ExecMainFails(t) PROVE Locks' /\ Counted' /\ Issuing'
  <2>0. HoldsIpc(t) /\ Goto(t, "unlock") /\ "unlock" \in Inside
    BY <1>10 DEF ExecMainFails, HoldsIpc, InTxn, Inside
  <2>1. Locks'
    BY <1>10, <2>0, MoveInTxn DEF ExecMainFails, procVars, lockVars, txnVars,
       fileVars, callVars, history
  <2>2. Counted'
    BY <1>10 DEF ExecMainFails, Goto, procVars, lockVars, txnVars, fileVars,
       callVars, history, Counted, Locks, HoldsIpc, InTxn
  <2>3. Issuing'
    BY <1>10 DEF ExecMainFails, Goto, procVars, lockVars, txnVars, fileVars,
       callVars, history, Issuing
  <2> QED
    BY <2>1, <2>2, <2>3
<1>11. ASSUME NEW t \in Thread, ExecBackup(t) PROVE Locks' /\ Counted' /\ Issuing'
  <2>0. HoldsIpc(t) /\ Goto(t, "unlock") /\ "unlock" \in Inside
    BY <1>11 DEF ExecBackup, HoldsIpc, InTxn, Inside
  <2>1. Locks'
    BY <1>11, <2>0, MoveInTxn DEF ExecBackup, procVars, lockVars, txnVars,
       fileVars, callVars, history
  <2>2. Counted'
    BY <1>11 DEF ExecBackup, Goto, procVars, lockVars, txnVars, fileVars,
       callVars, history, Counted, Locks, HoldsIpc, InTxn
  <2>3. Issuing'
    BY <1>11 DEF ExecBackup, Goto, procVars, lockVars, txnVars, fileVars,
       callVars, history, Issuing
  <2> QED
    BY <2>1, <2>2, <2>3
<1>12. ASSUME NEW t \in Thread, ExecBackupFails(t) PROVE Locks' /\ Counted' /\ Issuing'
  <2>0. HoldsIpc(t) /\ Goto(t, "unlock") /\ "unlock" \in Inside
    BY <1>12 DEF ExecBackupFails, HoldsIpc, InTxn, Inside
  <2>1. Locks'
    BY <1>12, <2>0, MoveInTxn DEF ExecBackupFails, procVars, lockVars, txnVars,
       fileVars, callVars, history
  <2>2. Counted'
    BY <1>12 DEF ExecBackupFails, Goto, procVars, lockVars, txnVars, fileVars,
       callVars, history, Counted, Locks, HoldsIpc, InTxn
  <2>3. Issuing'
    BY <1>12 DEF ExecBackupFails, Goto, procVars, lockVars, txnVars, fileVars,
       callVars, history, Issuing
  <2> QED
    BY <2>1, <2>2, <2>3
<1>13. ASSUME NEW t \in Thread, QueryEnd(t) PROVE Locks' /\ Counted' /\ Issuing'
  <2>1. Locks'
    BY <1>13 DEF QueryEnd, Goto, procVars, lockVars, txnVars, fileVars,
       callVars, history, Locks, HoldsIpc, InTxn
  <2>2. Counted'
    BY <1>13 DEF QueryEnd, Goto, procVars, lockVars, txnVars, fileVars,
       callVars, history, Counted, Locks, HoldsIpc, InTxn
  <2>3. Issuing'
    BY <1>13 DEF QueryEnd, Goto, procVars, lockVars, txnVars, fileVars,
       callVars, history, Issuing
  <2> QED
    BY <2>1, <2>2, <2>3
<1>14. ASSUME NEW t \in Thread, Unlock(t) PROVE Locks' /\ Counted' /\ Issuing'
  <2> DEFINE l == IF depth[ProcOf[t]] = 1 THEN "commit_main" ELSE "locked"
  <2>0. HoldsIpc(t) /\ Goto(t, l) /\ l \in Inside
    BY <1>14 DEF Unlock, HoldsIpc, InTxn, Inside
  <2>1. Locks'
    BY <1>14, <2>0, MoveInTxn DEF Unlock, procVars, lockVars, txnVars, fileVars,
       callVars, history
  <2>2. Counted'
    BY <1>14 DEF Unlock, Goto, procVars, lockVars, txnVars, fileVars, callVars,
       history, Counted, Locks, HoldsIpc, InTxn
  <2>3. Issuing'
    BY <1>14 DEF Unlock, Goto, procVars, lockVars, txnVars, fileVars, callVars,
       history, Issuing
  <2> QED
    BY <2>1, <2>2, <2>3
<1>15. ASSUME NEW t \in Thread, CommitBusy(t) PROVE Locks' /\ Counted' /\ Issuing'
  BY <1>15 DEF CommitBusy, procVars, lockVars, txnVars, fileVars, callVars,
     history,
     Locks, Counted, Issuing, HoldsIpc, InTxn
<1>16. ASSUME NEW t \in Thread, CommitTimesOut(t) PROVE Locks' /\ Counted' /\ Issuing'
  <2>1. \E l \in Committing : Goto(t, l)
    BY <1>16, CommitLabels DEF CommitTimesOut, CommitGuard, Committing
  <2>2. pc[t] \in Committing /\ UNCHANGED <<phase, ipc, mutex, depth, stmt>>
    BY <1>16, CommitLabels DEF File, CommitTimesOut, CommitGuard, procVars,
       lockVars, txnVars, fileVars, callVars, history, Committing
  <2> QED
    BY <2>1, <2>2, MoveInCommit
<1>17. ASSUME NEW t \in Thread, Release(t) PROVE Locks' /\ Counted' /\ Issuing'
  <2>1. Locks'
    BY <1>17 DEF Release, UnlockIpc, UnlockMutex, Goto, procVars, lockVars,
       txnVars, fileVars, callVars, history, Locks, HoldsIpc, InTxn
  <2>2. Counted'
    BY <1>17 DEF Release, UnlockIpc, UnlockMutex, Goto, procVars, lockVars,
       txnVars, fileVars, callVars, history, Counted, Locks, HoldsIpc, InTxn
  <2>3. Issuing'
    BY <1>17 DEF Release, UnlockIpc, UnlockMutex, Goto, procVars, lockVars,
       txnVars, fileVars, callVars, history, Issuing
  <2> QED
    BY <2>1, <2>2, <2>3
<1>18. ASSUME NEW t \in Thread, NEW f \in File, Commit(t, f)
       PROVE  Locks' /\ Counted' /\ Issuing'
  <2>1. \E l \in Committing : Goto(t, l)
    BY <1>18, CommitLabels DEF Commit, RollbackTxn, CommitEmpty, 
       CommitStart, CommitFinish, CommitGuard, Committing
  <2>2. pc[t] \in Committing /\ UNCHANGED <<phase, ipc, mutex, depth, stmt>>
    BY <1>18, CommitLabels DEF Commit, RollbackTxn, CommitEmpty, 
       CommitStart, CommitFinish, CommitGuard, procVars, lockVars, txnVars,
       fileVars, callVars, history, Committing
  <2> QED
    BY <2>1, <2>2, MoveInCommit
<1>19. ASSUME NEW p \in Proc, Open(p) PROVE Locks' /\ Counted' /\ Issuing'
  BY <1>19 DEF Open, procVars, lockVars, txnVars, fileVars, callVars, history,
     Locks, Counted, Issuing, HoldsIpc, InTxn
<1>20. ASSUME NEW p \in Proc, RestoreBegin(p) PROVE Locks' /\ Counted' /\ Issuing'
  BY <1>20 DEF RestoreBegin, IpcFree, procVars, lockVars, txnVars, fileVars,
     callVars, history,
     Locks, Counted, Issuing, HoldsIpc, InTxn
<1>21. ASSUME NEW p \in Proc, RemoveBoth(p) PROVE Locks' /\ Counted' /\ Issuing'
  BY <1>21 DEF RemoveBoth, procVars, lockVars, txnVars, fileVars, callVars,
     history,
     Locks, Counted, Issuing, HoldsIpc, InTxn
<1>22. ASSUME NEW p \in Proc, RestoreEnd(p) PROVE Locks' /\ Counted' /\ Issuing'
  BY <1>22 DEF RestoreEnd, UnlockIpc, procVars, lockVars, txnVars, fileVars,
     callVars, history,
     Locks, Counted, Issuing, HoldsIpc, InTxn
<1>23. ASSUME NEW p \in Proc, Crash(p) PROVE Locks' /\ Counted' /\ Issuing'
  BY <1>23 DEF Crash, ProcessEnds, IpcAfter, procVars, lockVars, txnVars,
     fileVars, callVars, history,
     Locks, Counted, Issuing, HoldsIpc, InTxn
<1>24. ASSUME NEW p \in Proc, CrashInCopy(p) PROVE Locks' /\ Counted' /\ Issuing'
  BY <1>24 DEF CrashInCopy, ProcessEnds, IpcAfter, procVars, lockVars, txnVars,
     fileVars, callVars, history,
     Locks, Counted, Issuing, HoldsIpc, InTxn
<1>25. ASSUME NEW p \in Proc, Exit(p) PROVE Locks' /\ Counted' /\ Issuing'
  BY <1>25 DEF Exit, ProcessEnds, IpcAfter, procVars, lockVars, txnVars,
     fileVars, callVars, history,
     Locks, Counted, Issuing, HoldsIpc, InTxn
<1>26. ASSUME NEW f \in File, Corrupt(f) PROVE Locks' /\ Counted' /\ Issuing'
  BY <1>26 DEF Corrupt, Damage, procVars, lockVars, txnVars, fileVars, callVars,
     history,
     Locks, Counted, Issuing, HoldsIpc, InTxn
<1>27. ASSUME NEW f \in File, Lose(f) PROVE Locks' /\ Counted' /\ Issuing'
  BY <1>27 DEF Lose, Damage, procVars, lockVars, txnVars, fileVars, callVars,
     history,
     Locks, Counted, Issuing, HoldsIpc, InTxn
<1> QED
  BY <1>0, <1>1, <1>2, <1>3, <1>4, <1>5, <1>6, <1>7, <1>8, <1>9, <1>10, <1>11,
     <1>12, <1>13, <1>14, <1>15, <1>16, <1>17, <1>18, <1>19, <1>20, <1>21,
     <1>22, <1>23, <1>24, <1>25, <1>26, <1>27
     DEF Next, Call, Step

-----------------------------------------------------------------------------
IInv == TypeOK /\ Locks /\ Counted /\ Issuing

\* Types, locks and counters together are an invariant of the whole layer.
LEMMA Inductive == Spec => []IInv
<1>1. Init => IInv
  BY InitTypeOK, InitLocks DEF IInv
<1>2. IInv /\ [Next]_vars => IInv'
  BY NextTypeOK, NextLocks DEF IInv
<1> QED
  BY <1>1, <1>2, PTL DEF Spec

\* Every variable keeps its type; in particular lock_cnt of backup.c never goes
\* below zero, whatever fails or dies.
THEOREM TypeCorrect == Spec => []TypeOK
<1>1. IInv => TypeOK
  BY DEF IInv
<1> QED
  BY <1>1, Inductive, PTL

\* The owners of the locks exclude transactions and repairs from each other.
LEMMA Exclusion == IInv => TransactionsExclusive
<1> SUFFICES ASSUME IInv PROVE TransactionsExclusive
  OBVIOUS
<1>1. ASSUME NEW t \in Thread, NEW u \in Thread, HoldsIpc(t), HoldsIpc(u)
      PROVE  t = u
  BY <1>1 DEF IInv, Locks
<1>2. ASSUME NEW p \in Proc, phase[p] = "restoring", NEW t \in Thread, HoldsIpc(t)
      PROVE  FALSE
  <2>1. ipc = p /\ ipc = ProcOf[t]
    BY <1>2 DEF IInv, Locks
  <2>2. phase[ProcOf[t]] = "up"
    BY <1>2 DEF IInv, Locks, HoldsIpc, InTxn
  <2> QED
    BY <1>2, <2>1, <2>2
<1> QED
  BY <1>1, <1>2 DEF TransactionsExclusive

\* lock() of backup.c and try_recover of sqlite3.c exclude each other: at most one
\* thread of all processes is in a transaction, and none while a file is copied.
THEOREM Exclusive == Spec => []TransactionsExclusive
  BY Exclusion, Inductive, PTL

-----------------------------------------------------------------------------
\* An access to a database changes it only by undoing its hot journal.
LEMMA AccessStable ==
  ASSUME FileTypes, NEW p, NEW g \in File, Access(p, g),
         NEW f \in File, ~Hot(f)
  PROVE  disk'[f] = disk[f]
BY DEF FileTypes, Access, Undone

\* A step that changes the content of a file is a COMMIT or needs the IPC lock.
LEMMA StepStable ==
  ASSUME IInv, Next, NEW t \in Thread, NEW f \in File,
         InTxn(t), ~Hot(f), disk'[f] # disk[f]
  PROVE  pc[t] = WriteAt[f]
<1> USE DEF IInv, TypeOK
<1>1. /\ ipc # None
      /\ \A p \in Proc : phase[p] # "restoring"
      /\ phase[ProcOf[t]] = "up" /\ ProcOf[t] \in Proc
  BY Exclusion, ConstantsAssumption
     DEF ConstantsAssumption, TransactionsExclusive, HoldsIpc, InTxn, Locks
<1>2. ASSUME NEW u \in Thread, NEW g \in File, CommitFinish(u, g)
      PROVE  pc[t] = WriteAt[f]
  <2>1. g = f
    BY <1>2 DEF CommitFinish, FileTypes
  <2>2. HoldsIpc(u) /\ HoldsIpc(t)
    BY <1>2, CommitLabels DEF CommitFinish, HoldsIpc, InTxn, Committing
  <2> QED
    BY <1>2, <2>1, <2>2, Exclusion DEF CommitFinish, TransactionsExclusive
<1>3. ASSUME NEW u \in Thread,
             QueryBegin(u) \/ ExecMain(u) \/ ExecMainFails(u)
               \/ ExecBackup(u) \/ ExecBackupFails(u)
      PROVE  FALSE
  BY <1>3, AccessStable
     DEF File, QueryBegin, ExecMain, ExecMainFails, ExecBackup, ExecBackupFails
<1>4. ASSUME NEW p \in Proc, RemoveBoth(p) \/ RestoreEnd(p) \/ CrashInCopy(p)
      PROVE  FALSE
  BY <1>1, <1>4 DEF RemoveBoth, IpcFree, RestoreEnd, CrashInCopy
<1>5. ASSUME NEW g \in File, Corrupt(g) \/ Lose(g)
      PROVE  FALSE
  BY <1>1, <1>5 DEF Corrupt, Lose, Damage
<1>6. ASSUME NEW u \in Thread,
             Call(u) \/ TakeMutex(u) \/ TakeIpc(u) \/ Begin(u) \/ QueryEnd(u)
               \/ Unlock(u) \/ CommitBusy(u) \/ CommitTimesOut(u) \/ Release(u)
      PROVE  FALSE
  BY <1>6 DEF Call, CallLock, CallModify, CallModifyLocked, Rollback, TakeMutex,
     TakeIpc, Begin, QueryEnd, Unlock, CommitBusy, CommitTimesOut, Release, fileVars
<1>7. ASSUME NEW u \in Thread, NEW g \in File,
             RollbackTxn(u, g) \/ CommitEmpty(u, g) \/ CommitStart(u, g)
      PROVE  FALSE
  BY <1>7 DEF RollbackTxn, CommitEmpty, CommitStart, fileVars
<1>8. ASSUME NEW p \in Proc, Open(p) \/ RestoreBegin(p) \/ Crash(p) \/ Exit(p)
      PROVE  FALSE
  BY <1>8 DEF Open, RestoreBegin, Crash, Exit, fileVars
<1> QED
  BY <1>2, <1>3, <1>4, <1>5, <1>6, <1>7, <1>8 DEF Next, Step, Commit

\* While a thread is in its transaction, nobody else changes what is committed in
\* either database, a hot journal that is undone excepted (backup.h:28).
THEOREM Stable == Spec => StableUnderLock
<1> DEFINE A == \A t \in Thread : \A f \in File :
                  InTxn(t) /\ InTxn(t)' /\ ~Hot(f) /\ disk'[f] # disk[f]
                    => pc[t] = WriteAt[f]
<1>1. IInv /\ [Next]_vars => [A]_vars
  BY StepStable
<1>2. Spec => [][A]_vars
  BY <1>1, Inductive, PTL DEF Spec
<1> QED
  BY <1>2 DEF StableUnderLock

-----------------------------------------------------------------------------
(* What the two files hold. *)

\* What the open transaction of p has written to f.
Written(p, f) == txn[p][f].rows

\* What f holds, or holds again when its journal is undone.
Stored(f) == disk[f].rows \cup (IF journal[f] = None THEN {} ELSE journal[f].pre)

\* Where the thread of p is that owns both locks.
At(p) ==
  IF ipc = p /\ mutex[p] # None /\ ProcOf[mutex[p]] = p THEN pc[mutex[p]] ELSE "idle"

\* Where it may have written to f without having committed it.
Calls == {"locked", "exec_main", "exec_backup", "unlock"}
Writers(f) ==
  Calls \cup {"commit_main", "write_main"}
    \cup (IF f = "main" THEN {} ELSE {"commit_backup", "write_backup"})

Known ==
  /\ \A f \in File : Stored(f) \subseteq used
  /\ \A p \in Proc : \A f \in File : Written(p, f) \subseteq used
  /\ dropped \subseteq used /\ acked \subseteq used
  /\ \A t \in Thread : done[t] \subseteq used

OwnWrites ==
  \A p \in Proc : \A f \in File : Written(p, f) # {} => At(p) \in Writers(f)

\* A modification that has not been executed is nowhere yet.
Fresh ==
  \A t \in Thread : stmt[t] # None =>
    /\ stmt[t] \in used \ (dropped \cup acked)
    /\ \A u \in Thread : stmt[t] \notin done[u] /\ (stmt[u] = stmt[t] => u = t)
    /\ \A f \in File : stmt[t] \notin Stored(f)
    /\ \A p \in Proc : \A f \in File : stmt[t] \in Written(p, f) =>
         pc[t] = "exec_backup" /\ p = ProcOf[t] /\ f = "main"

\* Only between the two ROLLBACKs is a modification dropped that is still open.
DroppedClosed ==
  \A p \in Proc : \A f \in File : Written(p, f) \cap dropped # {} =>
    f = "backup" /\ needRollback[p][f] /\ At(p) = "commit_backup"

\* Only between the two COMMITs is a modification stored that is still open.
StoredClosed ==
  \A p \in Proc : \A f, g \in File : Written(p, f) \cap Stored(g) # {} =>
    /\ f = "backup" /\ g = "main" /\ ~needRollback[p][f]
    /\ At(p) \in {"commit_backup", "write_backup"}

\* Both databases are rolled back, or none.
SameFate ==
  \A p \in Proc :
    /\ needRollback[p]["main"] => needRollback[p]["backup"]
    /\ needRollback[p]["backup"] =>
         IF needRollback[p]["main"] THEN At(p) \in Calls \cup {"commit_main"}
         ELSE At(p) = "commit_backup"

DoneOpen ==
  \A t \in Thread : done[t] # {} => InTxn(t) /\ done[t] \cap (dropped \cup acked) = {}

AckedClosed == \A p \in Proc : \A f \in File : Written(p, f) \cap acked = {}
DroppedGone == \A f \in File : Stored(f) \cap dropped = {}

Apart ==
  /\ Known /\ OwnWrites /\ Fresh /\ DroppedClosed /\ StoredClosed /\ SameFate
  /\ DoneOpen /\ AckedClosed /\ DroppedGone /\ RollbackKeepsConfirmed
-----------------------------------------------------------------------------
(* Where the owner of the locks is, before and after a step. *)

\* Inside a transaction the owner is the thread itself, and nobody else is there.
LEMMA OwnerAt ==
  ASSUME IInv, NEW t \in Thread, HoldsIpc(t)
  PROVE  /\ ProcOf[t] \in Proc /\ At(ProcOf[t]) = pc[t]
         /\ \A p \in Proc \ {ProcOf[t]} : At(p) = "idle"
         /\ \A u \in Thread : HoldsIpc(u) => u = t
BY ConstantsAssumption DEF ConstantsAssumption, IInv, Locks, At

\* A step of the owner moves it, and nobody else.
LEMMA OwnerGoes ==
  ASSUME IInv, NEW t \in Thread, HoldsIpc(t), NEW l, Goto(t, l),
         UNCHANGED <<ipc, mutex>>
  PROVE  /\ At(ProcOf[t])' = l
         /\ \A p \in Proc \ {ProcOf[t]} : At(p)' = "idle"
         /\ \A u \in Thread \ {t} : pc'[u] = pc[u]
         /\ pc'[t] = l
BY ConstantsAssumption
   DEF ConstantsAssumption, IInv, TypeOK, CallTypes, Locks, At, Goto

\* A process whose threads are outside has nothing open.
LEMMA NothingOpen ==
  ASSUME Apart, NEW p \in Proc, At(p) \notin Inside, NEW f \in File
  PROVE  Written(p, f) = {} /\ ~needRollback[p][f]
BY DEF Apart, OwnWrites, SameFate, Writers, Calls, Inside, PC, File

\* No transaction runs while a file is copied.
LEMMA NobodyInside ==
  ASSUME IInv, NEW q \in Proc, phase[q] = "restoring", NEW p \in Proc
  PROVE  At(p) \notin Inside
<1>1. \A t \in Thread : ~HoldsIpc(t)
  BY Exclusion DEF TransactionsExclusive
<1> QED
  BY <1>1 DEF At, Inside, HoldsIpc, InTxn, IInv, TypeOK, LockTypes

\* An access to a database adds nothing to what the files hold.
LEMMA AccessStored ==
  ASSUME FileTypes, NEW p, NEW g \in File, Access(p, g), NEW f \in File
  PROVE  Stored(f)' \subseteq Stored(f)
BY DEF FileTypes, Access, Undone, Hot, Damaged, Stored

-----------------------------------------------------------------------------
(* Steps that write nothing new. *)

\* The transaction of p stays where it is, or goes from call to call.
Continues(p) ==
  /\ \A f \in File : Written(p, f)' = Written(p, f)
  /\ needRollback'[p] = needRollback[p]
  /\ \/ At(p) \notin Inside
     \/ At(p)' = At(p)
     \/ At(p) \in Calls /\ At(p)' \in Calls \cup {"commit_main"}

\* It is gone.
Ends(p) == \A f \in File : Written(p, f)' = {} /\ ~needRollback'[p][f]

\* What a thread has been told, and what it is issuing.
Keeps(t) ==
  /\ done'[t] = {} \/ (done'[t] = done[t] /\ (InTxn(t) => InTxn(t)'))
  /\ \/ stmt'[t] = None
     \/ stmt'[t] = stmt[t] /\ (pc[t] = "exec_backup" => pc'[t] = "exec_backup")

\* Steps of this kind keep everything apart.
LEMMA NothingNew ==
  ASSUME TypeOK, Apart,
         UNCHANGED <<used, dropped, acked>>,
         \A f \in File : Stored(f)' \subseteq Stored(f),
         \A p \in Proc : Continues(p) \/ Ends(p),
         \A t \in Thread : Keeps(t)
  PROVE  Apart'
<1> USE DEF Apart
<1>0. \A p \in Proc : \A f \in File :
        Written(p, f)' \subseteq Written(p, f) /\ (needRollback'[p][f] => needRollback[p][f])
  BY DEF Continues, Ends
<1>1. Known'
  BY <1>0 DEF Known, Keeps
<1>2. OwnWrites'
  <2> SUFFICES ASSUME NEW p \in Proc, NEW f \in File, Written(p, f)' # {}
               PROVE  At(p)' \in Writers(f)
    BY DEF OwnWrites
  <2> QED
    BY DEF Continues, Ends, OwnWrites, Writers, Calls, Inside, PC
<1>3. Fresh'
  BY <1>0 DEF Fresh, Keeps
<1>4. DroppedClosed'
  BY <1>0 DEF DroppedClosed, Continues, Ends, Calls, Inside, PC
<1>5. StoredClosed'
  BY <1>0 DEF StoredClosed, Continues, Ends, Calls, Inside, PC
<1>6. SameFate'
  BY <1>0 DEF SameFate, Continues, Ends, Calls, Inside, PC, File
<1>7. DoneOpen'
  BY DEF DoneOpen, Keeps
<1>8. AckedClosed' /\ DroppedGone' /\ RollbackKeepsConfirmed'
  BY <1>0 DEF AckedClosed, DroppedGone, RollbackKeepsConfirmed
<1> QED
  BY <1>1, <1>2, <1>3, <1>4, <1>5, <1>6, <1>7, <1>8

\* Steps that end a transaction before its COMMIT: the process is gone.
LEMMA GoneApart ==
  ASSUME IInv, Apart, NEW p \in Proc, ProcessEnds(p),
         \A f \in File : Stored(f)' \subseteq Stored(f)
  PROVE  Apart'
<1> USE ConstantsAssumption DEF ConstantsAssumption, IInv, TypeOK
<1>1. Ends(p)
  BY DEF ProcessEnds, Ends, Written, Closed, TxnTypes
<1>2. ASSUME NEW q \in Proc \ {p} PROVE Continues(q)
  <2>1. At(q)' = At(q) \/ At(q) \notin Inside
    BY DEF At, ProcessEnds, IpcAfter, LockTypes, CallTypes, Inside, PC
  <2> QED
    BY <2>1 DEF ProcessEnds, Continues, Written, TxnTypes
<1>3. \A t \in Thread : Keeps(t)
  BY DEF Keeps, ProcessEnds, CallTypes, InTxn
<1>4. UNCHANGED <<used, dropped, acked>>
  BY DEF ProcessEnds
<1> QED
  BY <1>1, <1>2, <1>3, <1>4, NothingNew

\* A step that leaves transactions and calls alone.
LEMMA IdleApart ==
  ASSUME IInv, Apart,
         UNCHANGED <<txnVars, callVars, mutex, used, acked, dropped>>,
         \A p \in Proc : At(p) \notin Inside \/ At(p)' = At(p),
         \A f \in File : Stored(f)' \subseteq Stored(f)
  PROVE  Apart'
<1>1. \A p \in Proc : Continues(p)
  BY DEF Continues, Written, txnVars
<1>2. \A t \in Thread : Keeps(t)
  BY DEF Keeps, InTxn, callVars
<1> QED
  BY <1>1, <1>2, NothingNew DEF IInv

\* A thread that is in no transaction, or ends one, goes on.
LEMMA OutsideApart ==
  ASSUME IInv, Apart, NEW t \in Thread, NEW l, Goto(t, l), ~InTxn(t),
         UNCHANGED <<needRollback, stmt, done, used, acked, dropped>>,
         \A p \in Proc : \A f \in File : Written(p, f)' = Written(p, f),
         \A p \in Proc : At(p) \notin Inside \/ At(p)' = At(p),
         \A f \in File : Stored(f)' \subseteq Stored(f)
  PROVE  Apart'
<1>1. \A p \in Proc : Continues(p)
  BY DEF Continues
<1>2. \A u \in Thread : Keeps(u)
  BY DEF Keeps, InTxn, Goto, IInv, TypeOK, CallTypes
<1> QED
  BY <1>1, <1>2, NothingNew DEF IInv

-----------------------------------------------------------------------------
\* Every step that writes nothing new keeps everything apart.
LEMMA QuietApart ==
  ASSUME IInv, Apart,
         \/ UNCHANGED vars
         \/ \E t \in Thread :
              \/ CallLock(t) \/ QueryBegin(t) \/ QueryEnd(t) \/ TakeMutex(t)
              \/ TakeIpc(t) \/ Begin(t) \/ ExecMainFails(t) \/ Unlock(t) \/ CommitBusy(t)
         \/ \E p \in Proc :
              \/ Open(p) \/ RestoreBegin(p) \/ RemoveBoth(p)
              \/ Crash(p) \/ CrashInCopy(p) \/ Exit(p)
         \/ \E f \in File : Corrupt(f) \/ Lose(f)
  PROVE  Apart'
<1> USE ConstantsAssumption DEF ConstantsAssumption, IInv, TypeOK
<1>a. \A f \in File : UNCHANGED fileVars => Stored(f)' = Stored(f)
  BY DEF fileVars, Stored
<1>b. \A p \in Proc : \A f \in File : UNCHANGED txnVars => Written(p, f)' = Written(p, f)
  BY DEF txnVars, Written
<1>0. CASE UNCHANGED vars
  BY <1>0, <1>a, IdleApart DEF vars, lockVars, history, At, callVars
<1>1. ASSUME NEW t \in Thread, CallLock(t) PROVE Apart'
  <2>1. ~InTxn(t) /\ \A p \in Proc : At(p) \notin Inside \/ At(p)' = At(p)
    BY <1>1 DEF CallLock, Goto, At, InTxn, Inside, lockVars, CallTypes, LockTypes
  <2> QED
    BY <1>1, <1>a, <1>b, <2>1, OutsideApart DEF CallLock, txnVars, history
<1>2. ASSUME NEW t \in Thread, QueryBegin(t) PROVE Apart'
  <2>1. ~InTxn(t) /\ \A p \in Proc : At(p) \notin Inside \/ At(p)' = At(p)
    BY <1>2 DEF QueryBegin, Goto, At, InTxn, Inside, lockVars, CallTypes, LockTypes
  <2>2. \A f \in File : Stored(f)' \subseteq Stored(f)
    BY <1>2, AccessStored DEF QueryBegin, File
  <2> QED
    BY <1>2, <1>b, <2>1, <2>2, OutsideApart DEF QueryBegin, txnVars, history
<1>3. ASSUME NEW t \in Thread, QueryEnd(t) PROVE Apart'
  <2>1. ~InTxn(t) /\ \A p \in Proc : At(p) \notin Inside \/ At(p)' = At(p)
    BY <1>3 DEF QueryEnd, Goto, At, InTxn, Inside, lockVars, CallTypes, LockTypes
  <2> QED
    BY <1>3, <1>a, <1>b, <2>1, OutsideApart DEF QueryEnd, txnVars, history
<1>4. ASSUME NEW t \in Thread, TakeMutex(t) PROVE Apart'
  <2>1. ~InTxn(t) /\ \A p \in Proc : At(p) \notin Inside \/ At(p)' = At(p)
    BY <1>4 DEF TakeMutex, Goto, At, InTxn, Inside, CallTypes, LockTypes
  <2> QED
    BY <1>4, <1>a, <1>b, <2>1, OutsideApart DEF TakeMutex, txnVars, history
<1>5. ASSUME NEW t \in Thread, TakeIpc(t) PROVE Apart'
  <2>1. ~InTxn(t) /\ \A p \in Proc : At(p) \notin Inside \/ At(p)' = At(p)
    BY <1>5 DEF TakeIpc, IpcFree, Goto, At, InTxn, Inside, CallTypes, LockTypes
  <2> QED
    BY <1>5, <1>a, <1>b, <2>1, OutsideApart DEF TakeIpc, txnVars, history
<1>6. ASSUME NEW t \in Thread, Begin(t) PROVE Apart'
  <2>1. ~InTxn(t) /\ \A p \in Proc : At(p) \notin Inside \/ At(p)' = At(p)
    BY <1>6 DEF Begin, Goto, At, InTxn, Inside, CallTypes, LockTypes
  <2>2. \A p \in Proc : \A f \in File : Written(p, f)' = Written(p, f)
    <3> SUFFICES ASSUME NEW p \in Proc, NEW f \in File PROVE Written(p, f)' = Written(p, f)
      OBVIOUS
    <3>1. At(ProcOf[t]) = "begin"
      BY <1>6, OwnerAt DEF Begin, HoldsIpc
    <3>2. Written(ProcOf[t], f) = {}
      BY <3>1, NothingOpen DEF Inside
    <3> QED
      BY <1>6, <3>2 DEF Begin, Written, TxnTypes
  <2> QED
    BY <1>6, <1>a, <2>1, <2>2, OutsideApart DEF Begin, history
<1>7. ASSUME NEW t \in Thread, ExecMainFails(t) PROVE Apart'
  <2>1. \A f \in File : Stored(f)' \subseteq Stored(f)
    BY <1>7, AccessStored DEF ExecMainFails, File
  <2>2. HoldsIpc(t) /\ Goto(t, "unlock") /\ UNCHANGED <<ipc, mutex>>
    BY <1>7 DEF ExecMainFails, HoldsIpc, InTxn, PC, lockVars
  <2>3. \A p \in Proc : Continues(p)
    BY <1>7, <1>b, <2>2, OwnerAt, OwnerGoes
       DEF ExecMainFails, Continues, Calls, txnVars, Inside
  <2>4. \A u \in Thread : Keeps(u)
    BY <1>7, <2>2 DEF ExecMainFails, Keeps, InTxn, Goto, CallTypes, PC
  <2> QED
    BY <1>7, <2>1, <2>3, <2>4, NothingNew DEF ExecMainFails
<1>8. ASSUME NEW t \in Thread, Unlock(t) PROVE Apart'
  <2> DEFINE l == IF depth[ProcOf[t]] = 1 THEN "commit_main" ELSE "locked"
  <2>1. HoldsIpc(t) /\ Goto(t, l) /\ UNCHANGED <<ipc, mutex>>
    BY <1>8 DEF Unlock, HoldsIpc, InTxn, PC
  <2>2. \A p \in Proc : Continues(p)
    BY <1>8, <1>b, <2>1, OwnerAt, OwnerGoes DEF Unlock, Continues, Calls, txnVars, Inside
  <2>3. \A u \in Thread : Keeps(u)
    BY <1>8 DEF Unlock, Keeps, InTxn, Goto, CallTypes, PC
  <2> QED
    BY <1>8, <1>a, <2>2, <2>3, NothingNew DEF Unlock, history
<1>9. ASSUME NEW t \in Thread, CommitBusy(t) PROVE Apart'
  <2>1. \A p \in Proc : Continues(p)
    BY <1>9 DEF CommitBusy, Continues, Written, At, TxnTypes, lockVars, callVars
  <2>2. \A u \in Thread : Keeps(u)
    BY <1>9 DEF CommitBusy, Keeps, InTxn, callVars
  <2> QED
    BY <1>9, <1>a, <2>1, <2>2, NothingNew DEF CommitBusy, history
<1>10. ASSUME NEW p \in Proc, Open(p) \/ RestoreBegin(p) PROVE Apart'
  <2>1. \A q \in Proc : At(q) \notin Inside \/ At(q)' = At(q)
    BY <1>10 DEF Open, RestoreBegin, IpcFree, At, Inside, lockVars, callVars
  <2> QED
    BY <1>10, <1>a, <2>1, IdleApart DEF Open, RestoreBegin, lockVars, history
<1>11. ASSUME NEW p \in Proc, RemoveBoth(p) PROVE Apart'
  <2>1. \A f \in File : Stored(f)' \subseteq Stored(f)
    BY <1>11 DEF RemoveBoth, Stored, EmptyFile
  <2> QED
    BY <1>11, <2>1, IdleApart DEF RemoveBoth, lockVars, history, At, callVars
<1>12. ASSUME NEW p \in Proc, Crash(p) \/ Exit(p) PROVE Apart'
  BY <1>12, <1>a, GoneApart DEF Crash, Exit
<1>13. ASSUME NEW f \in File, NEW d \in {EmptyFile, Damaged}, Overwritten(f, d)
       PROVE  \A g \in File : Stored(g)' \subseteq Stored(g)
  BY <1>13 DEF Overwritten, Stored, EmptyFile, Damaged, FileTypes
<1>14. ASSUME NEW p \in Proc, CrashInCopy(p) PROVE Apart'
  <2>1. \A g \in File : Stored(g)' \subseteq Stored(g)
    <3>1. PICK d \in {EmptyFile, Damaged} : Overwritten(copyTo, d)
      BY <1>14 DEF CrashInCopy
    <3> QED
      BY <3>1 DEF Overwritten, Stored, EmptyFile, Damaged, FileTypes
  <2> QED
    BY <1>14, <2>1, GoneApart DEF CrashInCopy
<1>15. ASSUME NEW f \in File, Corrupt(f) \/ Lose(f) PROVE Apart'
  BY <1>13, <1>15, IdleApart DEF Corrupt, Lose, Damage, lockVars, At, callVars
<1> QED
  BY <1>0, <1>1, <1>2, <1>3, <1>4, <1>5, <1>6, <1>7, <1>8, <1>9, <1>10, <1>11,
     <1>12, <1>14, <1>15

-----------------------------------------------------------------------------
(* Steps that write. *)

\* The thread of a transaction is the only one with something open or done.
LEMMA OnlyWriter ==
  ASSUME IInv, Apart, NEW t \in Thread, InTxn(t)
  PROVE  /\ \A p \in Proc \ {ProcOf[t]} : \A f \in File :
              Written(p, f) = {} /\ ~needRollback[p][f]
         /\ \A u \in Thread \ {t} : done[u] = {}
<1>1. HoldsIpc(t)
  BY DEF HoldsIpc
<1>2. \A p \in Proc \ {ProcOf[t]} : At(p) = "idle"
  BY <1>1, OwnerAt
<1>3. \A u \in Thread \ {t} : ~InTxn(u)
  BY <1>1, OwnerAt DEF HoldsIpc
<1> QED
  BY <1>2, <1>3, NothingOpen DEF Inside, Apart, DoneOpen

\* A call to modify() brings in a modification that nobody has issued.
LEMMA CallApart ==
  ASSUME IInv, Apart, NEW t \in Thread, CallModify(t) \/ CallModifyLocked(t)
  PROVE  Apart'
<1> USE ConstantsAssumption DEF ConstantsAssumption, IInv, TypeOK, Apart
<1>1. PICK c \in Change \ used : stmt' = [stmt EXCEPT ![t] = c] /\ used' = used \cup {c}
  BY DEF CallModify, CallModifyLocked
<1>2. /\ \A f \in File : Stored(f)' = Stored(f)
      /\ \A p \in Proc : \A f \in File : Written(p, f)' = Written(p, f)
      /\ UNCHANGED <<needRollback, acked, dropped, done, ipc, mutex>>
  BY DEF CallModify, CallModifyLocked, fileVars, Stored, Written, txnVars, lockVars
<1>3. pc[t] \in {"idle", "locked"} /\ \E l \in {"want_mutex", "exec_main"} : Goto(t, l)
  BY DEF CallModify, CallModifyLocked
<1>4. \A p \in Proc :
        At(p) \notin Inside \/ At(p)' = At(p) \/ (At(p) \in Calls /\ At(p)' \in Calls)
  <2>1. CASE CallModify(t)
    BY <2>1 DEF CallModify, Goto, At, Inside, lockVars, CallTypes, LockTypes
  <2>2. CASE CallModifyLocked(t)
    <3>1. HoldsIpc(t) /\ Goto(t, "exec_main")
      BY <2>2 DEF CallModifyLocked, HoldsIpc, InTxn, PC
    <3> QED
      BY <2>2, <3>1, <1>2, OwnerAt, OwnerGoes DEF CallModifyLocked, Calls, Inside
  <2> QED
    BY <2>1, <2>2
<1>5. Known'
  BY <1>1, <1>2 DEF Known
<1>6. OwnWrites' /\ DroppedClosed' /\ StoredClosed' /\ SameFate'
  BY <1>2, <1>4
     DEF OwnWrites, DroppedClosed, StoredClosed, SameFate, Writers, Calls, Inside, PC, File
<1>7. Fresh'
  BY <1>1, <1>2, <1>3 DEF Fresh, Known, Goto, CallTypes
<1>8. DoneOpen'
  BY <1>1, <1>2, <1>3 DEF DoneOpen, InTxn, Goto, CallTypes, CallModify, CallModifyLocked, PC
<1>9. AckedClosed' /\ DroppedGone' /\ RollbackKeepsConfirmed'
  BY <1>2 DEF AckedClosed, DroppedGone, RollbackKeepsConfirmed
<1> QED
  BY <1>5, <1>6, <1>7, <1>8, <1>9

\* rollback(), or a failure in the backup: the transaction of both is to be undone.
LEMMA SetRollbackApart ==
  ASSUME IInv, Apart, NEW t \in Thread, Rollback(t) \/ ExecBackupFails(t)
  PROVE  Apart'
<1> USE ConstantsAssumption DEF ConstantsAssumption, IInv, TypeOK, Apart
<1> DEFINE p == ProcOf[t]
<1>1. pc[t] \in {"locked", "exec_backup"} /\ InTxn(t) /\ HoldsIpc(t)
  BY DEF Rollback, ExecBackupFails, InTxn, HoldsIpc, PC
<1>2. /\ \A f \in File : Stored(f)' \subseteq Stored(f)
      /\ \A q \in Proc : \A f \in File : Written(q, f)' = Written(q, f)
      /\ UNCHANGED <<used, acked, dropped, done, ipc, mutex>>
  BY AccessStored
     DEF Rollback, ExecBackupFails, fileVars, callVars, Stored, Written, history, lockVars, File
<1>3. /\ needRollback'[p] = [f \in File |-> TRUE]
      /\ \A q \in Proc \ {p} : needRollback'[q] = needRollback[q]
  BY DEF Rollback, ExecBackupFails, SetRollback, TxnTypes
<1>4. /\ At(p) \in Calls /\ At(p)' \in Calls
      /\ \A q \in Proc \ {p} : At(q) = "idle" /\ At(q)' = "idle"
  <2>1. \E l \in {"locked", "unlock"} : Goto(t, l)
    BY <1>1 DEF Rollback, ExecBackupFails, Goto, callVars, CallTypes
  <2> QED
    BY <1>1, <1>2, <2>1, OwnerAt, OwnerGoes DEF Calls
<1>5. \A u \in Thread : Keeps(u)
  BY DEF Rollback, ExecBackupFails, Keeps, InTxn, Goto, callVars, CallTypes, PC
<1>6. Known' /\ AckedClosed' /\ DroppedGone' /\ RollbackKeepsConfirmed'
  BY <1>2 DEF Known, AckedClosed, DroppedGone, RollbackKeepsConfirmed
<1>7. OwnWrites' /\ DroppedClosed' /\ StoredClosed' /\ SameFate'
  BY <1>2, <1>3, <1>4
     DEF OwnWrites, DroppedClosed, StoredClosed, SameFate, Writers, Calls, File
<1>8. Fresh' /\ DoneOpen'
  BY <1>2, <1>5 DEF Fresh, DoneOpen, Keeps
<1> QED
  BY <1>6, <1>7, <1>8

\* A statement that is done, in main or in the backup.
LEMMA ExecApart ==
  ASSUME IInv, Apart, NEW t \in Thread, ExecMain(t) \/ ExecBackup(t)
  PROVE  Apart'
<1> USE ConstantsAssumption DEF ConstantsAssumption, IInv, TypeOK, Apart
<1> DEFINE p == ProcOf[t]
           g == IF ExecMain(t) THEN "main" ELSE "backup"
<1>0. pc[t] = "exec_main" <=> ExecMain(t)
  BY DEF ExecMain, ExecBackup
<1>1. /\ pc[t] \in {"exec_main", "exec_backup"} /\ InTxn(t) /\ HoldsIpc(t)
      /\ stmt[t] # None /\ p \in Proc
  BY DEF ExecMain, ExecBackup, InTxn, HoldsIpc, PC, Issuing
<1>2. /\ \A f \in File : Stored(f)' \subseteq Stored(f)
      /\ UNCHANGED <<needRollback, used, acked, dropped, ipc, mutex>>
  BY AccessStored DEF ExecMain, ExecBackup, history, lockVars, File
<1>3. \A q \in Proc : \A f \in File :
        Written(q, f)' = Written(q, f) \cup (IF q = p /\ f = g THEN {stmt[t]} ELSE {})
  BY <1>0, <1>1 DEF ExecMain, ExecBackup, AddToTxn, Written, TxnTypes, TxnState, File
<1>4. /\ At(p) \in Calls /\ At(p)' \in Calls
      /\ \A q \in Proc \ {p} : At(q) = "idle" /\ At(q)' = "idle"
      /\ \A u \in Thread : InTxn(u) => InTxn(u)'
  <2>1. \E l \in {"exec_backup", "unlock"} : Goto(t, l)
    BY DEF ExecMain, ExecBackup
  <2>2. \A u \in Thread : InTxn(u) => InTxn(u)'
    BY <2>1 DEF Goto, InTxn, CallTypes, PC
  <2> QED
    BY <1>1, <1>2, <2>1, <2>2, OwnerAt, OwnerGoes DEF Calls
<1>5. \/ done' = done /\ stmt' = stmt /\ g = "main" /\ pc' = [pc EXCEPT ![t] = "exec_backup"]
      \/ /\ done' = [done EXCEPT ![t] = @ \cup {stmt[t]}] /\ stmt' = [stmt EXCEPT ![t] = None]
         /\ \A u \in Thread \ {t} : pc'[u] = pc[u]
  BY <1>0, <1>1 DEF ExecMain, ExecBackup, Goto, CallTypes
<1>6. Known'
  BY <1>1, <1>2, <1>3, <1>5 DEF Known, Fresh, CallTypes
<1>7. OwnWrites' /\ SameFate'
  BY <1>2, <1>3, <1>4 DEF OwnWrites, SameFate, Writers, Calls, File
<1>8. DroppedClosed' /\ StoredClosed'
  BY <1>1, <1>2, <1>3, <1>4 DEF DroppedClosed, StoredClosed, Calls, Fresh
<1>9. Fresh'
  BY <1>1, <1>2, <1>3, <1>5 DEF Fresh, CallTypes
<1>10. DoneOpen'
  BY <1>1, <1>2, <1>4, <1>5 DEF DoneOpen, Fresh, CallTypes
<1>11. AckedClosed' /\ DroppedGone' /\ RollbackKeepsConfirmed'
  BY <1>1, <1>2, <1>3 DEF AckedClosed, DroppedGone, RollbackKeepsConfirmed, Fresh
<1> QED
  BY <1>6, <1>7, <1>8, <1>9, <1>10, <1>11

-----------------------------------------------------------------------------
(* unlock(), and the end of a copy. *)

\* The end of the transaction in one of the databases, by COMMIT or ROLLBACK:
\* where the thread is, and that its transaction is over there.
LEMMA EndsIn ==
  ASSUME IInv, NEW t \in Thread, NEW f \in File,
         pc[t] \in {CommitAt[f], WriteAt[f]}, Goto(t, AfterCommit[f]),
         txn' = [txn EXCEPT ![ProcOf[t]][f] = Closed], UNCHANGED <<ipc, mutex>>
  PROVE  /\ InTxn(t) /\ HoldsIpc(t) /\ ProcOf[t] \in Proc
         /\ At(ProcOf[t]) = pc[t] /\ At(ProcOf[t])' = AfterCommit[f]
         /\ \A q \in Proc \ {ProcOf[t]} : At(q) = "idle" /\ At(q)' = "idle"
         /\ \A q \in Proc : \A g \in File :
              Written(q, g)' = IF q = ProcOf[t] /\ g = f THEN {} ELSE Written(q, g)
         /\ pc[t] # "exec_backup" /\ \A u \in Thread : InTxn(u) => InTxn(u)'
<1>1. InTxn(t) /\ HoldsIpc(t) /\ pc[t] # "exec_backup"
  BY CommitLabels DEF InTxn, HoldsIpc, Committing, PC
<1>2. \A u \in Thread : InTxn(u) => InTxn(u)'
  BY CommitLabels DEF Goto, InTxn, Committing, PC, IInv, TypeOK, CallTypes
<1>3. \A q \in Proc : \A g \in File :
        Written(q, g)' = IF q = ProcOf[t] /\ g = f THEN {} ELSE Written(q, g)
  BY DEF Written, Closed, IInv, TypeOK, TxnTypes
<1> QED
  BY <1>1, <1>2, <1>3, OwnerAt, OwnerGoes

\* ROLLBACK: what was open in this database is dropped, and not stored.
LEMMA RollbackApart ==
  ASSUME IInv, Apart, NEW t \in Thread, NEW f \in File, RollbackTxn(t, f)
  PROVE  Apart'
<1> USE ConstantsAssumption DEF ConstantsAssumption, IInv, TypeOK, Apart
<1> DEFINE p == ProcOf[t]
<1>1. /\ pc[t] = CommitAt[f] /\ Goto(t, AfterCommit[f]) /\ needRollback[p][f]
      /\ UNCHANGED <<ipc, mutex, stmt, used, acked>>
      /\ dropped' = dropped \cup Written(p, f)
      /\ \A g \in File : Stored(g)' = Stored(g)
  BY DEF RollbackTxn, CommitGuard, lockVars, fileVars, Stored, Written
<1>2. /\ InTxn(t) /\ HoldsIpc(t) /\ p \in Proc
      /\ At(p) = pc[t] /\ At(p)' = AfterCommit[f]
      /\ \A q \in Proc \ {p} : At(q) = "idle" /\ At(q)' = "idle"
      /\ \A q \in Proc : \A g \in File :
           Written(q, g)' = IF q = p /\ g = f THEN {} ELSE Written(q, g)
      /\ pc[t] # "exec_backup" /\ \A u \in Thread : InTxn(u) => InTxn(u)'
  BY <1>1, EndsIn DEF RollbackTxn
<1>3. done'[t] = {} /\ \A u \in Thread \ {t} : done[u] = {} /\ done'[u] = {}
  BY <1>2, OnlyWriter DEF RollbackTxn, CallTypes
<1>4. /\ ~needRollback'[p][f]
      /\ \A q \in Proc : \A g \in File \ {f} : needRollback'[q][g] = needRollback[q][g]
      /\ \A q \in Proc \ {p} : needRollback'[q] = needRollback[q]
  BY DEF RollbackTxn, TxnTypes
<1>5. \A g, h \in File : Written(p, g) \cap Stored(h) = {}
  BY <1>1, <1>2 DEF StoredClosed, SameFate, File, CommitAt
<1>6. Known'
  BY <1>1, <1>2, <1>3 DEF Known
<1>7. OwnWrites'
  BY <1>1, <1>2, OnlyWriter DEF OwnWrites, Writers, Calls, File, CommitAt, AfterCommit
<1>8. Fresh'
  <2>1. \A u \in Thread : stmt[u] # None => stmt[u] \notin Written(p, f)
    BY <1>1, <1>2 DEF Fresh, HoldsIpc, InTxn, PC, Locks
  <2> QED
    BY <1>1, <1>2, <1>3, <2>1 DEF Fresh, RollbackTxn, Goto, CallTypes
<1>9. DroppedClosed'
  <2>1. CASE f = "main"
    BY <1>1, <1>2, <1>4, <2>1, OnlyWriter
       DEF DroppedClosed, SameFate, File, CommitAt, AfterCommit
  <2>2. CASE f = "backup"
    <3>1. \A q \in Proc : \A g \in File : Written(q, g)' = {}
      BY <1>1, <1>2, <2>2, OnlyWriter DEF OwnWrites, Writers, Calls, File, CommitAt
    <3> QED
      BY <3>1 DEF DroppedClosed
  <2> QED
    BY <2>1, <2>2 DEF File
<1>10. StoredClosed'
  BY <1>1, <1>2, <1>5, OnlyWriter DEF StoredClosed
<1>11. SameFate'
  BY <1>1, <1>2, <1>4 DEF SameFate, File, CommitAt, AfterCommit, Calls
<1>12. DoneOpen' /\ AckedClosed' /\ RollbackKeepsConfirmed'
  BY <1>1, <1>2, <1>3 DEF DoneOpen, AckedClosed, RollbackKeepsConfirmed
<1>13. DroppedGone'
  BY <1>1, <1>2, <1>5 DEF DroppedGone
<1> QED
  BY <1>6, <1>7, <1>8, <1>9, <1>10, <1>11, <1>12, <1>13

\* The end of a COMMIT: what was open in this database is stored, and not dropped.
LEMMA CommitApart ==
  ASSUME IInv, Apart, NEW t \in Thread, NEW f \in File,
         CommitEmpty(t, f) \/ (CommitFinish(t, f) /\ ~needRollback[ProcOf[t]][f])
  PROVE  Apart'
<1> USE ConstantsAssumption DEF ConstantsAssumption, IInv, TypeOK, Apart
<1> DEFINE p == ProcOf[t]
<1>1. /\ pc[t] \in {CommitAt[f], WriteAt[f]} /\ Goto(t, AfterCommit[f])
      /\ ~needRollback[p][f]
      /\ UNCHANGED <<ipc, mutex, needRollback, stmt, done, used, acked, dropped>>
  BY DEF CommitEmpty, CommitFinish, CommitGuard, lockVars, history
<1>2. /\ InTxn(t) /\ HoldsIpc(t) /\ p \in Proc
      /\ At(p) = pc[t] /\ At(p)' = AfterCommit[f]
      /\ \A q \in Proc \ {p} : At(q) = "idle" /\ At(q)' = "idle"
      /\ \A q \in Proc : \A g \in File :
           Written(q, g)' = IF q = p /\ g = f THEN {} ELSE Written(q, g)
      /\ pc[t] # "exec_backup" /\ \A u \in Thread : InTxn(u) => InTxn(u)'
  BY <1>1, EndsIn DEF CommitEmpty, CommitFinish
<1>3. \A g \in File : Stored(g)' \subseteq Stored(g) \cup (IF g = f THEN Written(p, f) ELSE {})
  BY DEF CommitEmpty, CommitFinish, fileVars, Stored, Written, FileTypes, Content
<1>4. Written(p, f) \cap dropped = {} /\ \A g \in File : ~needRollback[p][g]
  BY <1>1, <1>2
     DEF DroppedClosed, SameFate, File, CommitAt, WriteAt, Calls
<1>5. Known'
  BY <1>1, <1>2, <1>3 DEF Known
<1>6. OwnWrites'
  BY <1>1, <1>2, OnlyWriter DEF OwnWrites, Writers, Calls, File, CommitAt, WriteAt, AfterCommit
<1>7. Fresh'
  <2>1. \A u \in Thread : stmt[u] # None => stmt[u] \notin Written(p, f)
    BY <1>1, <1>2 DEF Fresh, HoldsIpc, InTxn, PC, Locks
  <2> QED
    BY <1>1, <1>2, <1>3, <2>1 DEF Fresh, Goto, CallTypes
<1>8. DroppedClosed' /\ SameFate'
  BY <1>1, <1>2, <1>4, OnlyWriter DEF DroppedClosed, SameFate, File
<1>9. StoredClosed'
  <2>1. CASE f = "main"
    BY <1>1, <1>2, <1>3, <1>4, <2>1, OnlyWriter
       DEF StoredClosed, File, CommitAt, WriteAt, AfterCommit
  <2>2. CASE f = "backup"
    <3>1. \A q \in Proc : \A g \in File : Written(q, g)' = {}
      BY <1>1, <1>2, <2>2, OnlyWriter DEF OwnWrites, Writers, Calls, File, CommitAt, WriteAt
    <3> QED
      BY <3>1 DEF StoredClosed
  <2> QED
    BY <2>1, <2>2 DEF File
<1>10. DoneOpen' /\ AckedClosed' /\ RollbackKeepsConfirmed'
  BY <1>1, <1>2 DEF DoneOpen, AckedClosed, RollbackKeepsConfirmed
<1>11. DroppedGone'
  BY <1>1, <1>3, <1>4 DEF DroppedGone
<1> QED
  BY <1>5, <1>6, <1>7, <1>8, <1>9, <1>10, <1>11

\* The start of a COMMIT stores nothing yet.
LEMMA StartApart ==
  ASSUME IInv, Apart, NEW t \in Thread, NEW f \in File, CommitStart(t, f)
  PROVE  Apart'
<1> USE ConstantsAssumption DEF ConstantsAssumption, IInv, TypeOK, Apart
<1> DEFINE p == ProcOf[t]
<1>1. /\ pc[t] = CommitAt[f] /\ Goto(t, WriteAt[f]) /\ ~needRollback[p][f]
      /\ HoldsIpc(t) /\ p \in Proc
      /\ UNCHANGED <<ipc, mutex, needRollback, stmt, done, used, acked, dropped>>
  BY CommitLabels
     DEF CommitStart, CommitGuard, lockVars, txnVars, history, HoldsIpc, InTxn, Committing, PC
<1>2. /\ \A g \in File : Stored(g)' \subseteq Stored(g)
      /\ \A q \in Proc : \A g \in File : Written(q, g)' = Written(q, g)
  BY DEF CommitStart, Stored, Written, FileTypes, txnVars
<1>3. /\ At(p) = CommitAt[f] /\ At(p)' = WriteAt[f]
      /\ \A q \in Proc \ {p} : At(q) = "idle" /\ At(q)' = "idle"
  BY <1>1, OwnerAt, OwnerGoes
<1>4. \A g \in File : ~needRollback[p][g]
  BY <1>1, <1>3 DEF SameFate, File, CommitAt, Calls
<1>5. Known' /\ AckedClosed' /\ DroppedGone' /\ RollbackKeepsConfirmed'
  BY <1>1, <1>2 DEF Known, AckedClosed, DroppedGone, RollbackKeepsConfirmed
<1>6. OwnWrites' /\ DroppedClosed' /\ StoredClosed' /\ SameFate'
  BY <1>1, <1>2, <1>3, <1>4
     DEF OwnWrites, DroppedClosed, StoredClosed, SameFate, Writers, Calls, File, CommitAt,
         WriteAt
<1>7. Fresh' /\ DoneOpen'
  BY <1>1, <1>2 DEF Fresh, DoneOpen, Goto, CallTypes, InTxn, File, CommitAt, WriteAt, PC
<1> QED
  BY <1>5, <1>6, <1>7

\* The locks are given back: what modify() answered is confirmed, and closed.
LEMMA ReleaseApart ==
  ASSUME IInv, Apart, NEW t \in Thread, Release(t)
  PROVE  Apart'
<1> USE ConstantsAssumption DEF ConstantsAssumption, IInv, TypeOK, Apart
<1>1. InTxn(t) /\ HoldsIpc(t) /\ pc[t] = "release"
  BY DEF Release, InTxn, HoldsIpc, PC
<1>2. \A q \in Proc : \A f \in File : Written(q, f) = {} /\ ~needRollback[q][f]
  BY <1>1, OwnerAt, OnlyWriter DEF OwnWrites, SameFate, Writers, Calls, File
<1>3. /\ \A q \in Proc : \A f \in File : Written(q, f)' = {} /\ ~needRollback'[q][f]
      /\ \A f \in File : Stored(f)' = Stored(f)
      /\ \A u \in Thread : done'[u] = {}
      /\ acked' = acked \cup done[t] /\ UNCHANGED <<used, dropped, stmt>>
  BY <1>1, <1>2, OnlyWriter DEF Release, txnVars, fileVars, Written, Stored, CallTypes
<1>4. Known' /\ AckedClosed' /\ DroppedGone' /\ DoneOpen'
  BY <1>3 DEF Known, AckedClosed, DroppedGone, DoneOpen
<1>5. OwnWrites' /\ DroppedClosed' /\ StoredClosed' /\ SameFate'
  BY <1>3 DEF OwnWrites, DroppedClosed, StoredClosed, SameFate, File
<1>6. Fresh' /\ RollbackKeepsConfirmed'
  BY <1>3 DEF Fresh, RollbackKeepsConfirmed, DoneOpen
<1> QED
  BY <1>4, <1>5, <1>6

\* A copy stores what the other file holds, when nothing is open.
LEMMA CopyApart ==
  ASSUME IInv, Apart, NEW p \in Proc, RestoreEnd(p)
  PROVE  Apart'
<1> USE ConstantsAssumption DEF ConstantsAssumption, IInv, TypeOK, Apart
<1>1. \A q \in Proc : \A f \in File : Written(q, f) = {} /\ ~needRollback[q][f]
  BY NobodyInside, NothingOpen DEF RestoreEnd
<1>2. \A q \in Proc : \A f \in File : Written(q, f)' = {} /\ ~needRollback'[q][f]
  BY <1>1 DEF RestoreEnd, txnVars, Written
<1>3. \A f \in File : Stored(f)' \subseteq Stored("main") \cup Stored("backup")
  BY DEF RestoreEnd, Stored, Other, FileTypes, Content, File
<1>4. UNCHANGED <<used, dropped, acked, done, stmt, pc>>
  BY DEF RestoreEnd, callVars, history
<1>5. Known' /\ DroppedGone' /\ DoneOpen'
  BY <1>2, <1>3, <1>4 DEF Known, DroppedGone, DoneOpen, InTxn, File
<1>6. OwnWrites' /\ DroppedClosed' /\ StoredClosed' /\ SameFate' /\ AckedClosed'
  BY <1>2 DEF OwnWrites, DroppedClosed, StoredClosed, SameFate, AckedClosed, File
<1>7. Fresh' /\ RollbackKeepsConfirmed'
  BY <1>2, <1>3, <1>4 DEF Fresh, RollbackKeepsConfirmed, File
<1> QED
  BY <1>5, <1>6, <1>7

\* Nothing is issued, open, stored, dropped or confirmed before the first start.
LEMMA InitApart == Init => Apart
BY DEF Init, Apart, Known, OwnWrites, Fresh, DroppedClosed, StoredClosed, SameFate,
   DoneOpen, AckedClosed, DroppedGone, RollbackKeepsConfirmed, Written, Stored,
   Closed, EmptyFile, File

\* A COMMIT that is being written is not to be rolled back.
LEMMA WritingWanted ==
  ASSUME IInv, Apart, NEW t \in Thread, NEW f \in File, pc[t] = WriteAt[f]
  PROVE  ~needRollback[ProcOf[t]][f]
<1>1. HoldsIpc(t)
  BY CommitLabels DEF HoldsIpc, InTxn, Committing, PC
<1>2. At(ProcOf[t]) = WriteAt[f] /\ ProcOf[t] \in Proc
  BY <1>1, OwnerAt
<1> QED
  BY <1>2 DEF Apart, SameFate, File, WriteAt, Calls

\* As long as no reader outlasts a COMMIT, every step keeps everything apart.
LEMMA NextApart ==
  ASSUME "slow_reader" \notin Faults
  PROVE  IInv /\ Apart /\ [Next]_vars => Apart'
<1> SUFFICES ASSUME IInv, Apart, [Next]_vars PROVE Apart'
  OBVIOUS
<1>1. ASSUME NEW t \in Thread, CommitTimesOut(t) PROVE FALSE
  BY <1>1 DEF CommitTimesOut, Fault, CanFail
<1>2. ASSUME NEW t \in Thread, NEW f \in File, Commit(t, f) PROVE Apart'
  <2>1. ASSUME CommitFinish(t, f) PROVE Apart'
    BY <2>1, WritingWanted, CommitApart DEF CommitFinish
  <2> QED
    BY <1>2, <2>1, RollbackApart, CommitApart, StartApart DEF Commit
<1>3. ASSUME NEW t \in Thread, Call(t) PROVE Apart'
  BY <1>3, QuietApart, CallApart, SetRollbackApart DEF Call
<1>4. ASSUME NEW t \in Thread, Step(t) PROVE Apart'
  BY <1>1, <1>2, <1>4, QuietApart, ExecApart, SetRollbackApart, ReleaseApart DEF Step
<1> QED
  BY <1>3, <1>4, QuietApart, CopyApart DEF Next

\* What the two locks, the issuing of modifications and the order of the steps
\* keep apart stays apart.
LEMMA ApartAlways ==
  ASSUME "slow_reader" \notin Faults
  PROVE  Spec => [](IInv /\ Apart)
<1>1. Init => Apart
  BY InitApart
<1>2. IInv /\ Apart /\ [Next]_vars => Apart'
  BY NextApart
<1> QED
  BY <1>1, <1>2, Inductive, PTL DEF Spec

\* rollback() undoes its transaction and nothing that an earlier one had confirmed
\* (database.h:101), whatever dies, fails, is damaged or disappears, as long as no
\* reader outlasts DB_EXEC_TIMEOUT.
THEOREM ConfirmedIsKept ==
  ASSUME "slow_reader" \notin Faults
  PROVE  Spec => []RollbackKeepsConfirmed
<1>1. IInv /\ Apart => RollbackKeepsConfirmed
  BY DEF Apart
<1> QED
  BY <1>1, ApartAlways, PTL

\* A transaction that was rolled back leaves nothing in either file, nor in a
\* journal from which it could come back, under the same faults.
THEOREM RolledBackIsOut ==
  ASSUME "slow_reader" \notin Faults
  PROVE  Spec => []RolledBackStaysOut
<1>1. IInv /\ Apart => RolledBackStaysOut
  <2> SUFFICES ASSUME IInv, Apart, NEW f \in File, NEW d \in Undone(f)
               PROVE  d.rows \cap dropped = {}
    BY DEF RolledBackStaysOut
  <2>1. d.rows \subseteq Stored(f)
    BY DEF Undone, Hot, Damaged, Stored
  <2> QED
    BY <2>1 DEF Apart, DroppedGone
<1> QED
  BY <1>1, ApartAlways, PTL

-----------------------------------------------------------------------------
(* No confirmed modification is lost. *)

\* A whole file that needs no repair.
Clean(f) == disk[f].sound /\ ~Hot(f)

LinkedUp == \A p \in Proc : phase[p] # "down" => linked[p]

PendingWritten ==
  \A p \in Proc : \A f \in File : txn[p][f].mode = "pending" => Written(p, f) # {}

\* The source of a copy is whole.
CopySource ==
  /\ \A p \in Proc : phase[p] = "restoring" => copyTo \in File /\ Clean(Other(copyTo))
  /\ copyTo # None => \E p \in Proc : phase[p] = "restoring"

\* What is open was written to whole files.
WrittenClean ==
  \A p \in Proc :
    /\ Written(p, "main") # {} => Clean("main")
    /\ Written(p, "backup") # {} => Clean("main") /\ Clean("backup")

\* Where a transaction has written to both databases alike.
Level == {"locked", "exec_main", "unlock", "commit_main", "write_main"}

\* Up to the COMMIT in main, a transaction that is not to be rolled back has
\* written the same to both files, but for the statement between them.
Balanced ==
  \A t \in Thread : ~needRollback[ProcOf[t]]["main"] =>
    /\ pc[t] \in Level =>
         Written(ProcOf[t], "main") = Written(ProcOf[t], "backup")
    /\ pc[t] = "exec_backup" =>
         Written(ProcOf[t], "main") = Written(ProcOf[t], "backup") \cup {stmt[t]}

\* A statement that is executed in the backup has been executed in main.
Executed ==
  \A t \in Thread : pc[t] = "exec_backup" => stmt[t] \in Written(ProcOf[t], "main")

\* What modify() has answered is open or stored, in both files.
DoneWhere ==
  \A t \in Thread : done[t] # {} => \A f \in File :
    Clean(f) /\ done[t] \subseteq Written(ProcOf[t], f) \cup disk[f].rows

\* While a COMMIT is being written its journal has what the file holds.
WritingPre ==
  \A t \in Thread : \A f \in File : pc[t] = WriteAt[f] =>
    /\ disk[f].sound /\ Written(ProcOf[t], f) # {}
    /\ journal[f] # None /\ journal[f].pre = disk[f].rows

\* Every file has what was confirmed, or a journal that brings it back, or needs
\* a repair ...
AckedKept ==
  \A f \in File :
    /\ journal[f] = None /\ disk[f].sound => acked \subseteq disk[f].rows
    /\ journal[f] # None => acked \subseteq journal[f].pre

\* ... and one of them is whole.
OneClean == \E f \in File : Clean(f)

Whole ==
  /\ LinkedUp /\ PendingWritten /\ CopySource /\ WrittenClean /\ Balanced
  /\ Executed /\ DoneWhere /\ WritingPre /\ AckedKept /\ OneClean

-----------------------------------------------------------------------------
(* Steps that write nothing new to a whole file. *)

\* A step leaves f alone, or undoes its hot journal.
Kept(f) ==
  /\ Writing(f)' = Writing(f)
  /\ \/ disk'[f] = disk[f] /\ journal'[f] = journal[f]
     \/ /\ Hot(f) /\ journal'[f] = None
        /\ disk'[f].sound => disk'[f].rows = journal[f].pre

\* The thread writes nothing: it goes from a call to the next, gives its
\* transaction up, or is in none.
Moves(t) ==
  LET p == ProcOf[t] IN
  /\ \A f \in File : pc'[t] # WriteAt[f]  \/  pc'[t] = pc[t]
  /\ \/ pc'[t] = pc[t] /\ stmt'[t] = stmt[t] /\ needRollback'[p] = needRollback[p]
     \/ pc[t] \in Level /\ pc'[t] \in Level /\ needRollback'[p] = needRollback[p]
     \/ pc'[t] \notin Level \cup {"exec_backup"}
     \/ needRollback'[p]["main"] /\ pc'[t] # "exec_backup"
     \/ pc'[t] # "exec_backup" /\ \A f \in File : Written(p, f)' = {}

\* An access to a database leaves it alone, or undoes its hot journal.
LEMMA AccessKept ==
  ASSUME FileTypes, NEW p, NEW g \in File, Access(p, g), NEW f \in File,
         Writing(f)' = Writing(f)
  PROVE  Kept(f)
BY DEF FileTypes, Access, Undone, Hot, Damaged, Kept

\* What is kept stays whole.
LEMMA KeptClean ==
  ASSUME NEW f \in File, Kept(f), Clean(f)
  PROVE  Clean(f)' /\ disk'[f] = disk[f] /\ journal'[f] = journal[f]
BY DEF Kept, Clean, Hot

\* Such steps lose nothing.
LEMMA GoesOn ==
  ASSUME IInv, Whole, LinkedUp', PendingWritten',
         UNCHANGED acked, UNCHANGED copyTo,
         \A p \in Proc : phase'[p] = "restoring" <=> phase[p] = "restoring",
         \A f \in File : Kept(f),
         \A p \in Proc : \A f \in File : Written(p, f)' = Written(p, f),
         \A t \in Thread : Moves(t) /\ done'[t] \in {{}, done[t]}
  PROVE  Whole'
<1> USE ConstantsAssumption DEF ConstantsAssumption, Whole
<1>1. \A f \in File : Clean(f) =>
        Clean(f)' /\ disk'[f] = disk[f] /\ journal'[f] = journal[f]
  BY KeptClean
<1>2. CopySource'
  BY <1>1 DEF CopySource, Other, File
<1>3. WrittenClean' /\ OneClean'
  BY <1>1 DEF WrittenClean, OneClean, File
<1>4. Balanced'
  <2> SUFFICES ASSUME NEW t \in Thread, ~needRollback'[ProcOf[t]]["main"]
               PROVE  /\ pc'[t] \in Level =>
                           Written(ProcOf[t], "main")' = Written(ProcOf[t], "backup")'
                      /\ pc'[t] = "exec_backup" =>
                           Written(ProcOf[t], "main")'
                             = Written(ProcOf[t], "backup")' \cup {stmt'[t]}
    BY DEF Balanced
  <2>1. ProcOf[t] \in Proc /\ \A f \in File : Written(ProcOf[t], f)' = Written(ProcOf[t], f)
    OBVIOUS
  <2> QED
    BY <2>1 DEF Balanced, Moves, Level, File
<1>5. Executed' /\ DoneWhere'
  BY <1>1 DEF Executed, DoneWhere, Moves, Level, File
<1>6. WritingPre'
  BY DEF WritingPre, Moves, Kept, Hot, Writing
<1>7. AckedKept'
  BY DEF AckedKept, Kept, Hot
<1> QED
  BY <1>2, <1>3, <1>4, <1>5, <1>6, <1>7

\* A thread's step that changes neither its transaction nor a whole file.
LEMMA ThreadGoesOn ==
  ASSUME IInv, Whole, NEW t \in Thread, UNCHANGED <<procVars, acked>>,
         \A f \in File : Kept(f),
         \A p \in Proc : \A f \in File :
           /\ Written(p, f)' = Written(p, f)
           /\ txn'[p][f].mode = "pending" => txn[p][f].mode = "pending",
         \A u \in Thread : Moves(u) /\ done'[u] \in {{}, done[u]}
  PROVE  Whole'
<1>1. LinkedUp' /\ PendingWritten'
  BY DEF Whole, LinkedUp, PendingWritten, procVars
<1> QED
  BY <1>1, GoesOn DEF procVars

\* Another thread than the one that moves.
LEMMA OthersMove ==
  ASSUME IInv, NEW t \in Thread, NEW l, Goto(t, l), NEW u \in Thread \ {t},
         stmt'[u] = stmt[u], needRollback' = needRollback
  PROVE  Moves(u)
BY DEF Moves, Goto, IInv, TypeOK, CallTypes

\* Calls, reads, failures in main, the wait for the locks and for readers: nothing
\* is written.
LEMMA QuietWhole ==
  ASSUME IInv, Whole, NEW t \in Thread,
         \/ CallLock(t) \/ CallModify(t) \/ CallModifyLocked(t)
         \/ QueryBegin(t) \/ QueryEnd(t) \/ TakeMutex(t) \/ TakeIpc(t)
         \/ ExecMainFails(t) \/ Unlock(t)
  PROVE  Whole'
<1> USE ConstantsAssumption DEF ConstantsAssumption, IInv, TypeOK
<1>1. \E l \in {"want_mutex", "exec_main", "reading", "idle", "want_ipc", "begin",
                "unlock", "commit_main", "locked"} : Goto(t, l)
  BY DEF CallLock, CallModify, CallModifyLocked, QueryBegin, QueryEnd, TakeMutex, TakeIpc,
     ExecMainFails, Unlock
<1>2. UNCHANGED <<procVars, acked, txn, needRollback>>
      /\ \A u \in Thread \ {t} : stmt'[u] = stmt[u]
  BY DEF CallLock, CallModify, CallModifyLocked, QueryBegin, QueryEnd, TakeMutex, TakeIpc,
     ExecMainFails, Unlock, history, txnVars, CallTypes
<1>3. Moves(t)
  BY DEF CallLock, CallModify, CallModifyLocked, QueryBegin, QueryEnd, TakeMutex, TakeIpc,
     ExecMainFails, Unlock, Goto, CallTypes, Moves, Level, WriteAt, File, txnVars
<1>4. \A f \in File : Writing(f)' = Writing(f)
  BY DEF CallLock, CallModify, CallModifyLocked, QueryBegin, QueryEnd, TakeMutex, TakeIpc,
     ExecMainFails, Unlock, Goto, CallTypes, Writing, WriteAt, File
<1>5. \A f \in File : Kept(f)
  <2>1. CASE UNCHANGED fileVars
    BY <1>4, <2>1 DEF fileVars, Kept
  <2>2. CASE Access(ProcOf[t], "main")
    BY <1>4, <2>2, AccessKept DEF File
  <2> QED
    BY <2>1, <2>2
       DEF CallLock, CallModify, CallModifyLocked, QueryBegin, QueryEnd, TakeMutex, TakeIpc,
           ExecMainFails, Unlock
<1>6. UNCHANGED done
  BY DEF CallLock, CallModify, CallModifyLocked, QueryBegin, QueryEnd, TakeMutex, TakeIpc,
     ExecMainFails, Unlock
<1> QED
  BY <1>1, <1>2, <1>3, <1>5, <1>6, OthersMove, ThreadGoesOn DEF Written

\* BEGIN finds nothing open, and opens.
LEMMA BeginWhole ==
  ASSUME IInv, Apart, Whole, NEW t \in Thread, Begin(t)
  PROVE  Whole'
<1> USE ConstantsAssumption DEF ConstantsAssumption, IInv, TypeOK
<1> DEFINE p == ProcOf[t]
<1>1. At(p) = "begin" /\ \A f \in File : Written(p, f) = {}
  BY OwnerAt, NothingOpen DEF Begin, HoldsIpc, Inside
<1>2. \A q \in Proc : \A f \in File :
        /\ Written(q, f)' = Written(q, f)
        /\ txn'[q][f].mode = "pending" => txn[q][f].mode = "pending"
  BY <1>1 DEF Begin, Written, TxnTypes
<1>3. /\ UNCHANGED <<procVars, acked, needRollback, stmt, done, disk, journal>>
      /\ \E l \in {"locked", "exec_main"} : Goto(t, l)
  BY DEF Begin, history, fileVars
<1>4. \A f \in File : Kept(f)
  BY <1>3 DEF Begin, Kept, Writing, Goto, WriteAt, CallTypes, File
<1>5. Moves(t)
  BY <1>1, <1>2, <1>3 DEF Moves, Goto, CallTypes, WriteAt, File
<1> QED
  BY <1>2, <1>3, <1>4, <1>5, OthersMove, ThreadGoesOn

\* rollback(), or a failure in the backup: from now on nothing needs to be level.
LEMMA SetRollbackWhole ==
  ASSUME IInv, Apart, Whole, NEW t \in Thread, Rollback(t) \/ ExecBackupFails(t)
  PROVE  Whole'
<1> USE ConstantsAssumption DEF ConstantsAssumption, IInv, TypeOK
<1>1. HoldsIpc(t) /\ \E l \in {"locked", "unlock"} : pc' = [pc EXCEPT ![t] = l]
  BY DEF Rollback, ExecBackupFails, HoldsIpc, InTxn, PC, Goto, callVars, CallTypes
<1>2. /\ UNCHANGED <<procVars, acked, txn, done>>
      /\ needRollback'[ProcOf[t]]["main"]
      /\ \A q \in Proc \ {ProcOf[t]} : needRollback'[q] = needRollback[q]
      /\ \A u \in Thread \ {t} : stmt'[u] = stmt[u]
  BY DEF Rollback, ExecBackupFails, SetRollback, history, callVars, TxnTypes, CallTypes, File
<1>3. \A f \in File : Writing(f)' = Writing(f)
  BY <1>1 DEF Rollback, ExecBackupFails, Writing, WriteAt, CallTypes, File
<1>4. \A f \in File : Kept(f)
  BY <1>3, AccessKept DEF Rollback, ExecBackupFails, fileVars, Kept, File
<1>5. \A u \in Thread : Moves(u)
  <2>1. \A u \in Thread \ {t} : ~HoldsIpc(u)
    BY <1>1, OwnerAt
  <2> QED
    BY <1>1, <1>2, <2>1 DEF Moves, CallTypes, WriteAt, File, Level, HoldsIpc, InTxn, PC
<1> QED
  BY <1>2, <1>4, <1>5, ThreadGoesOn DEF Written

\* A COMMIT that meets readers keeps PENDING.
LEMMA BusyWhole ==
  ASSUME IInv, Whole, NEW t \in Thread, CommitBusy(t)
  PROVE  Whole'
<1> USE ConstantsAssumption DEF ConstantsAssumption, IInv, TypeOK, Whole
<1>1. /\ UNCHANGED <<procVars, acked, needRollback, done, stmt, pc, disk, journal>>
      /\ \A p \in Proc : \A f \in File : Written(p, f)' = Written(p, f)
  BY DEF CommitBusy, history, callVars, fileVars, Written, TxnTypes
<1>2. LinkedUp' /\ PendingWritten'
  <2>1. LinkedUp'
    BY <1>1 DEF LinkedUp, procVars
  <2>2. Written(ProcOf[t], "main") # {}
    BY DEF CommitBusy, Written
  <2>3. \A p \in Proc : \A f \in File :
          txn'[p][f].mode = "pending"
            => txn[p][f].mode = "pending" \/ (p = ProcOf[t] /\ f = "main")
    BY DEF CommitBusy, TxnTypes
  <2> QED
    BY <1>1, <2>1, <2>2, <2>3 DEF PendingWritten
<1>3. \A f \in File : Kept(f)
  BY <1>1 DEF Kept, Writing
<1>4. \A u \in Thread : Moves(u)
  BY <1>1 DEF Moves
<1> QED
  BY <1>1, <1>2, <1>3, <1>4, GoesOn DEF procVars

\* A process starts; it copies from a file that passed integrity_check.
LEMMA StartUpWhole ==
  ASSUME IInv, Whole, "silent" \notin Faults, NEW p \in Proc, Open(p) \/ RestoreBegin(p)
  PROVE  Whole'
<1> USE ConstantsAssumption DEF ConstantsAssumption, IInv, TypeOK, Whole
<1>1. /\ UNCHANGED <<acked, needRollback, txn, done, stmt, pc, disk, journal>>
      /\ \A q \in Proc : linked[q] => linked'[q]
      /\ phase' = [phase EXCEPT ![p] = phase'[p]]
  BY DEF Open, RestoreBegin, history, callVars, fileVars, txnVars, ProcTypes
<1>2. LinkedUp'
  BY <1>1 DEF Open, RestoreBegin, LinkedUp, ProcTypes
<1>3. CopySource'
  <2>1. CASE Open(p)
    BY <1>1, <2>1 DEF Open, CopySource, ProcTypes, Clean, Hot, Writing
  <2>2. CASE RestoreBegin(p)
    <3>1. copyTo' \in File /\ Clean(Other(copyTo'))
      BY <2>2 DEF RestoreBegin, Clean, Verdicts, RestoreTarget, Other, File
    <3>2. \A f \in File : Clean(f)' = Clean(f)
      BY <1>1 DEF Clean, Hot, Writing
    <3>3. \A q \in Proc : phase'[q] = "restoring" <=> q = p
      BY <2>2 DEF RestoreBegin, IpcFree, Locks, ProcTypes
    <3> QED
      BY <3>1, <3>2, <3>3 DEF CopySource, Other, File
  <2> QED
    BY <2>1, <2>2
<1>4. \A f \in File : Clean(f)' = Clean(f) /\ \A q \in Proc : Written(q, f)' = Written(q, f)
  BY <1>1 DEF Clean, Hot, Writing, Written
<1>5. PendingWritten' /\ WrittenClean' /\ Balanced' /\ Executed' /\ DoneWhere'
  BY <1>1, <1>4 DEF PendingWritten, WrittenClean, Balanced, Executed, DoneWhere, File
<1>6. WritingPre' /\ AckedKept' /\ OneClean'
  BY <1>1, <1>4 DEF WritingPre, AckedKept, OneClean
<1> QED
  BY <1>2, <1>3, <1>5, <1>6

-----------------------------------------------------------------------------
(* Steps that write, and those that end a transaction. *)

\* A database that has just been used is whole.
LEMMA UsedClean ==
  ASSUME FileTypes, NEW p, NEW g \in File, Access(p, g), disk'[g].sound,
         Writing(g)' = Writing(g)
  PROVE  Clean(g)'
BY DEF FileTypes, Access, Hot, Clean, Writing

\* A statement adds its modification to the open transaction of its process.
LEMMA ExecWhole ==
  ASSUME IInv, Apart, Whole, NEW t \in Thread, ExecMain(t) \/ ExecBackup(t)
  PROVE  Whole'
<1> USE ConstantsAssumption DEF ConstantsAssumption, IInv, TypeOK, Whole
<1> DEFINE p == ProcOf[t]
<1>0. PICK g \in File : /\ ExecMain(t) => g = "main" /\ pc[t] = "exec_main"
                        /\ ExecBackup(t) => g = "backup" /\ pc[t] = "exec_backup"
  BY DEF ExecMain, ExecBackup, File
<1>1. /\ HoldsIpc(t) /\ p \in Proc
      /\ \A u \in Thread \ {t} : ~HoldsIpc(u)
      /\ \E l \in {"exec_backup", "unlock"} : pc' = [pc EXCEPT ![t] = l]
  BY OwnerAt DEF ExecMain, ExecBackup, InTxn, HoldsIpc, PC, Goto
<1>2. /\ UNCHANGED <<procVars, needRollback, acked>>
      /\ \A q \in Proc : \A f \in File :
           Written(q, f)' = Written(q, f) \cup (IF q = p /\ f = g THEN {stmt[t]} ELSE {})
  BY <1>0, <1>1 DEF ExecMain, ExecBackup, history, AddToTxn, Written, TxnTypes, TxnState, File
<1>a. \A q \in Proc : \A f \in File : txn'[q][f].mode = txn[q][f].mode
  <2>1. AddToTxn(t, g)
    BY <1>0 DEF ExecMain, ExecBackup
  <2> QED
    BY <1>1, <2>1 DEF AddToTxn, TxnTypes, TxnState
<1>3. \A f \in File : Writing(f)' = Writing(f)
  BY <1>0, <1>1 DEF ExecMain, ExecBackup, Writing, WriteAt, CallTypes, File
<1>4. (\A f \in File : Kept(f)) /\ Clean(g)'
  <2>1. Access(p, g) /\ disk'[g].sound
    BY <1>0 DEF ExecMain, ExecBackup, Usable
  <2> QED
    BY <1>3, <2>1, AccessKept, UsedClean
<1>5. \A f \in File : Clean(f) => Clean(f)' /\ disk'[f] = disk[f] /\ journal'[f] = journal[f]
  BY <1>4, KeptClean
<1>6. /\ \A u \in Thread \ {t} : done'[u] = done[u] /\ stmt'[u] = stmt[u]
      /\ ExecMain(t) => stmt' = stmt /\ done' = done /\ pc'[t] = "exec_backup"
      /\ ExecBackup(t) => done'[t] = done[t] \cup {stmt[t]} /\ pc'[t] = "unlock"
  BY DEF ExecMain, ExecBackup, CallTypes, Goto
<1>7. LinkedUp' /\ PendingWritten' /\ CopySource' /\ OneClean'
  BY <1>2, <1>a, <1>5 DEF LinkedUp, PendingWritten, CopySource, OneClean, procVars, Other, File
<1>8. WrittenClean'
  <2>1. ExecBackup(t) => Written(p, "main") # {}
    BY <1>0 DEF Executed
  <2> QED
    <3>1. CASE ExecMain(t)
      BY <1>0, <1>2, <1>4, <1>5, <3>1 DEF WrittenClean, File
    <3>2. CASE ExecBackup(t)
      BY <1>0, <1>2, <1>4, <1>5, <2>1, <3>2 DEF WrittenClean, File
    <3> QED
      BY <3>1, <3>2
<1>9. Balanced' /\ Executed'
  <2>1. \A u \in Thread \ {t} : pc'[u] \notin Level \cup {"exec_backup"}
    BY <1>1 DEF Level, HoldsIpc, InTxn, PC, CallTypes
  <2>2. CASE ExecMain(t)
    <3>1. ~needRollback[p]["main"] => Written(p, "main") = Written(p, "backup")
      BY <1>0, <2>2 DEF Balanced, Level
    <3> QED
      BY <1>0, <1>1, <1>2, <1>6, <2>1, <2>2, <3>1 DEF Balanced, Executed, Level, File
  <2>3. CASE ExecBackup(t)
    <3>1. ~needRollback[p]["main"]
            => Written(p, "main") = Written(p, "backup") \cup {stmt[t]}
      BY <1>0, <2>3 DEF Balanced
    <3> QED
      BY <1>0, <1>1, <1>2, <1>6, <2>1, <2>3, <3>1 DEF Balanced, Executed, Level, File
  <2> QED
    BY <2>2, <2>3
<1>10. DoneWhere'
  <2>1. ASSUME NEW u \in Thread, done'[u] # {}, NEW f \in File
        PROVE  Clean(f)' /\ done'[u] \subseteq Written(ProcOf[u], f)' \cup disk'[f].rows
    <3>1. CASE done'[u] = done[u]
      BY <1>2, <1>5, <2>1, <3>1 DEF DoneWhere
    <3>2. CASE u = t /\ ExecBackup(t)
      <4>1. stmt[t] \in Written(p, "main") /\ stmt[t] \in Written(p, "backup")'
        BY <1>0, <1>1, <1>2, <3>2 DEF Executed, File
      <4>2. Clean(f)'
        <5>1. Written(p, "main") # {} /\ g = "backup"
          BY <1>0, <3>2 DEF Executed
        <5> QED
          BY <1>1, <1>4, <1>5, <5>1 DEF WrittenClean, File
      <4>3. stmt[t] \in Written(p, f)' /\ done[t] \subseteq Written(p, f)' \cup disk'[f].rows
        BY <1>1, <1>2, <1>5, <4>1 DEF DoneWhere, File
      <4> QED
        BY <1>6, <3>2, <4>2, <4>3
    <3> QED
      BY <1>6, <3>1, <3>2
  <2> QED
    BY <2>1 DEF DoneWhere
<1>11. WritingPre'
  BY <1>0, <1>1 DEF WritingPre, HoldsIpc, InTxn, PC, WriteAt, File, CallTypes
<1>12. AckedKept'
  BY <1>2, <1>4 DEF AckedKept, Kept, Hot
<1> QED
  BY <1>7, <1>8, <1>9, <1>10, <1>11, <1>12

\* ROLLBACK, or a COMMIT of nothing: the transaction is over in f, and f is alone.
LEMMA NothingStored ==
  ASSUME IInv, Apart, Whole, NEW t \in Thread, NEW f \in File,
         RollbackTxn(t, f) \/ CommitEmpty(t, f)
  PROVE  Whole'
<1> USE ConstantsAssumption DEF ConstantsAssumption, IInv, TypeOK, Whole
<1> DEFINE p == ProcOf[t]
<1>1. /\ pc[t] = CommitAt[f] /\ pc' = [pc EXCEPT ![t] = AfterCommit[f]]
      /\ txn' = [txn EXCEPT ![p][f] = Closed]
      /\ UNCHANGED <<procVars, disk, journal, acked, ipc, mutex, stmt>>
      /\ \A q \in Proc \ {p} : needRollback'[q] = needRollback[q]
  BY DEF RollbackTxn, CommitEmpty, CommitGuard, Goto, fileVars, history, lockVars, TxnTypes
<1>2. /\ HoldsIpc(t) /\ p \in Proc
      /\ \A u \in Thread \ {t} : ~HoldsIpc(u)
      /\ \A q \in Proc : \A g \in File :
           Written(q, g)' = IF q = p /\ g = f THEN {} ELSE Written(q, g)
  BY <1>1, EndsIn, OwnerAt DEF Goto
<1>3. \A g \in File : Clean(g)' = Clean(g)
  BY <1>1 DEF Clean, Hot, Writing, CallTypes, CommitAt, AfterCommit, WriteAt, File
<1>4. LinkedUp' /\ PendingWritten' /\ CopySource' /\ OneClean' /\ WrittenClean' /\ AckedKept'
  <2>1. PendingWritten'
    BY <1>1, <1>2 DEF PendingWritten, TxnTypes, Closed
  <2> QED
    BY <1>1, <1>2, <1>3, <2>1
       DEF LinkedUp, CopySource, OneClean, WrittenClean, AckedKept, procVars, Other, File
<1>5. Balanced' /\ Executed' /\ WritingPre'
  BY <1>1, <1>2
     DEF Balanced, Executed, WritingPre, Level, HoldsIpc, InTxn, PC, AfterCommit, WriteAt, File,
         CallTypes
<1>6. DoneWhere'
  <2>1. CASE RollbackTxn(t, f)
    <3>1. \A u \in Thread : done'[u] = {}
      BY <1>2, <2>1, OnlyWriter
         DEF RollbackTxn, CallTypes, InTxn, PC, CommitGuard, CommitAt, File
    <3> QED
      BY <3>1 DEF DoneWhere
  <2>2. CASE CommitEmpty(t, f)
    <3>1. Written(p, f) = {} /\ done' = done
      <4>1. linked[p]
        BY <1>1, <1>2 DEF LinkedUp, Locks, CommitAt, File
      <4> QED
        BY <2>2, <4>1 DEF CommitEmpty, Written
    <3> QED
      BY <1>1, <1>2, <1>3, <3>1 DEF DoneWhere
  <2> QED
    BY <2>1, <2>2
<1> QED
  BY <1>4, <1>5, <1>6

\* The start of a COMMIT: the journal gets what the whole file holds.
LEMMA StartWhole ==
  ASSUME IInv, Whole, NEW t \in Thread, NEW f \in File, CommitStart(t, f)
  PROVE  Whole'
<1> USE ConstantsAssumption DEF ConstantsAssumption, IInv, TypeOK, Whole
<1> DEFINE p == ProcOf[t]
<1>1. /\ pc[t] = CommitAt[f] /\ pc' = [pc EXCEPT ![t] = WriteAt[f]]
      /\ UNCHANGED <<procVars, disk, needRollback, txn, done, stmt, acked>>
      /\ journal' = [journal EXCEPT ![f] = [pre |-> disk[f].rows, add |-> txn[p][f].rows]]
      /\ Written(p, f) # {}
  BY DEF CommitStart, CommitGuard, Goto, txnVars, history, Written
<1>2. HoldsIpc(t) /\ p \in Proc /\ \A u \in Thread \ {t} : ~HoldsIpc(u)
  BY <1>1, CommitLabels, OwnerAt DEF HoldsIpc, InTxn, Committing, PC
<1>3. Clean(f)
  BY <1>1, <1>2 DEF WrittenClean, File
<1>4. journal[f] = None
  BY <1>1, <1>2, <1>3 DEF Clean, Hot, Writing, HoldsIpc, InTxn, PC, CommitAt, WriteAt, File
<1>5. \A g \in File : Clean(g) => Clean(g)'
  <2>1. Writing(f)' /\ \A g \in File \ {f} : Writing(g)' = Writing(g)
    BY <1>1, <1>2 DEF Writing, CallTypes, CommitAt, WriteAt, File
  <2> QED
    BY <1>1, <2>1 DEF Clean, Hot, FileTypes
<1>6. \A q \in Proc : \A g \in File : Written(q, g)' = Written(q, g)
  BY <1>1 DEF Written
<1>7. LinkedUp' /\ PendingWritten' /\ CopySource' /\ OneClean' /\ WrittenClean'
  BY <1>1, <1>5, <1>6
     DEF LinkedUp, PendingWritten, CopySource, OneClean, WrittenClean, procVars, Other, File
<1>8. Balanced' /\ Executed' /\ DoneWhere'
  BY <1>1, <1>2, <1>5, <1>6
     DEF Balanced, Executed, DoneWhere, Level, CommitAt, WriteAt, File, CallTypes
<1>9. WritingPre'
  <2>1. \A u \in Thread \ {t} : \A g \in File : pc'[u] # WriteAt[g]
    BY <1>1, <1>2 DEF HoldsIpc, InTxn, PC, WriteAt, File, CallTypes
  <2>2. \A g \in File : pc'[t] = WriteAt[g] => g = f
    BY <1>1 DEF WriteAt, File, CallTypes
  <2>3. journal'[f] # None /\ journal'[f].pre = disk[f].rows
    <3>1. [pre |-> disk[f].rows, add |-> txn[p][f].rows] \in Journal
      BY <1>2 DEF FileTypes, Content, TxnTypes, TxnState, Journal
    <3> QED
      BY <1>1, <1>4, <3>1, NoneAssumption DEF NoneAssumption, FileTypes
  <2> QED
    BY <1>1, <1>3, <1>6, <2>1, <2>2, <2>3 DEF WritingPre, Clean
<1>10. AckedKept'
  BY <1>1, <1>3, <1>4 DEF AckedKept, Clean, FileTypes
<1> QED
  BY <1>7, <1>8, <1>9, <1>10

\* The end of a COMMIT: what was open is in the file.
LEMMA FinishWhole ==
  ASSUME IInv, Whole, NEW t \in Thread, NEW f \in File, CommitFinish(t, f)
  PROVE  Whole'
<1> USE ConstantsAssumption DEF ConstantsAssumption, IInv, TypeOK, Whole
<1> DEFINE p == ProcOf[t]
<1>1. /\ pc[t] = WriteAt[f] /\ pc' = [pc EXCEPT ![t] = AfterCommit[f]]
      /\ txn' = [txn EXCEPT ![p][f] = Closed]
      /\ UNCHANGED <<procVars, needRollback, done, stmt, acked, ipc, mutex>>
      /\ journal' = [journal EXCEPT ![f] = None]
      /\ \A g \in File \ {f} : disk'[g] = disk[g]
      /\ disk'[f].sound = disk[f].sound /\ disk'[f].rows = disk[f].rows \cup Written(p, f)
  BY DEF CommitFinish, Goto, history, lockVars, Written, FileTypes, Content
<1>2. /\ HoldsIpc(t) /\ p \in Proc /\ \A u \in Thread \ {t} : ~HoldsIpc(u)
      /\ \A q \in Proc : \A g \in File :
           Written(q, g)' = IF q = p /\ g = f THEN {} ELSE Written(q, g)
  BY <1>1, EndsIn, OwnerAt DEF Goto
<1>3. \A g \in File : Clean(g) => Clean(g)'
  <2>1. \A g \in File \ {f} : Writing(g)' = Writing(g)
    BY <1>1, <1>2 DEF Writing, CallTypes, AfterCommit, WriteAt, File
  <2> QED
    BY <1>1, <2>1 DEF Clean, Hot, FileTypes
<1>4. LinkedUp' /\ PendingWritten' /\ CopySource' /\ OneClean' /\ WrittenClean'
  <2>1. PendingWritten'
    BY <1>1, <1>2 DEF PendingWritten, TxnTypes, Closed
  <2> QED
    BY <1>1, <1>2, <1>3, <2>1
       DEF LinkedUp, CopySource, OneClean, WrittenClean, procVars, Other, File
<1>5. Balanced' /\ Executed' /\ WritingPre'
  BY <1>1, <1>2
     DEF Balanced, Executed, WritingPre, Level, HoldsIpc, InTxn, PC, AfterCommit, WriteAt, File,
         CallTypes
<1>6. DoneWhere'
  BY <1>1, <1>2, <1>3 DEF DoneWhere
<1>7. AckedKept'
  BY <1>1 DEF AckedKept, WritingPre, FileTypes
<1> QED
  BY <1>4, <1>5, <1>6, <1>7

\* The locks are given back when nothing is open: what is confirmed is in both files.
LEMMA ReleaseWhole ==
  ASSUME IInv, Apart, Whole, NEW t \in Thread, Release(t)
  PROVE  Whole'
<1> USE ConstantsAssumption DEF ConstantsAssumption, IInv, TypeOK, Whole
<1>1. HoldsIpc(t) /\ \A u \in Thread \ {t} : ~HoldsIpc(u)
  BY OwnerAt DEF Release, InTxn, HoldsIpc, PC
<1>2. \A q \in Proc : \A f \in File : Written(q, f) = {}
  BY <1>1, OwnerAt DEF Apart, OwnWrites, Writers, Calls, File, Release
<1>3. /\ UNCHANGED <<procVars, disk, journal, txn, stmt, needRollback>>
      /\ pc' = [pc EXCEPT ![t] = "idle"]
      /\ done' = [done EXCEPT ![t] = {}] /\ acked' = acked \cup done[t]
  BY DEF Release, txnVars, fileVars, Goto
<1>4. \A f \in File : ~Writing(f) /\ ~Writing(f)'
  BY <1>1, <1>3 DEF Writing, WriteAt, File, HoldsIpc, InTxn, PC, Release, CallTypes
<1>5. \A f \in File : Clean(f)' = Clean(f) /\ \A q \in Proc : Written(q, f)' = {}
  BY <1>2, <1>3, <1>4 DEF Clean, Hot, Written
<1>6. LinkedUp' /\ PendingWritten' /\ CopySource' /\ OneClean' /\ WrittenClean'
  BY <1>2, <1>3, <1>5
     DEF LinkedUp, PendingWritten, CopySource, OneClean, WrittenClean, procVars, Other, File
<1>7. Balanced' /\ Executed' /\ WritingPre'
  BY <1>1, <1>3, <1>4, <1>5
     DEF Balanced, Executed, WritingPre, Level, HoldsIpc, InTxn, PC, File, CallTypes, Writing
<1>8. DoneWhere'
  BY <1>2, <1>3, <1>5 DEF DoneWhere, CallTypes
<1>9. AckedKept'
  <2>1. done[t] # {} => \A f \in File : journal[f] = None /\ done[t] \subseteq disk[f].rows
    BY <1>2, <1>4 DEF DoneWhere, Clean, Hot
  <2> QED
    BY <1>3, <2>1 DEF AckedKept
<1> QED
  BY <1>6, <1>7, <1>8, <1>9

\* The end of a repair: the target holds what its source, a whole file, holds.
LEMMA CopyWhole ==
  ASSUME IInv, Apart, Whole, NEW p \in Proc, RestoreEnd(p)
  PROVE  Whole'
<1> USE ConstantsAssumption DEF ConstantsAssumption, IInv, TypeOK, Whole
<1>1. \A q \in Proc : \A f \in File : Written(q, f) = {}
  BY NobodyInside, NothingOpen DEF RestoreEnd
<1>2. \A t \in Thread : ~HoldsIpc(t)
  BY Exclusion DEF RestoreEnd, TransactionsExclusive
<1>3. \A f \in File : ~Writing(f)
  BY <1>2 DEF Writing, WriteAt, File, HoldsIpc, InTxn, PC
<1> PICK f \in File : f = copyTo
  BY DEF RestoreEnd, CopySource
<1>4. /\ UNCHANGED <<linked, txn, needRollback, journal, pc, stmt, done, acked>>
      /\ phase' = [phase EXCEPT ![p] = "up"]
      /\ copyTo' = None
      /\ disk' = [disk EXCEPT ![f] = disk[Other(f)]]
  BY DEF RestoreEnd, txnVars, callVars, history
<1>5. Clean(Other(f)) /\ Other(f) \in File /\ Other(f) # f
  BY DEF RestoreEnd, CopySource, Other, File
<1>6. Clean(Other(f))' /\ \A q \in Proc : \A g \in File : Written(q, g)' = {}
  BY <1>1, <1>4, <1>5 DEF Clean, Hot, Writing, Written
<1>7. LinkedUp' /\ PendingWritten' /\ CopySource' /\ OneClean' /\ WrittenClean'
  <2>1. LinkedUp' /\ PendingWritten'
    BY <1>1, <1>4 DEF LinkedUp, PendingWritten, ProcTypes, RestoreEnd, Written
  <2>2. CopySource'
    BY <1>4 DEF CopySource, Locks, ProcTypes, RestoreEnd
  <2> QED
    BY <1>5, <1>6, <2>1, <2>2 DEF OneClean, WrittenClean, File
<1>8. Balanced' /\ Executed' /\ WritingPre' /\ DoneWhere'
  <2>1. \A t \in Thread : done[t] = {}
    BY <1>2 DEF Apart, DoneOpen, HoldsIpc
  <2> QED
    BY <1>2, <1>3, <1>4, <1>6, <2>1
       DEF Balanced, Executed, WritingPre, DoneWhere, Level, HoldsIpc, InTxn, PC, File, Writing
<1>9. AckedKept'
  <2>1. journal[Other(f)] = None /\ acked \subseteq disk[Other(f)].rows
    BY <1>3, <1>5 DEF Clean, Hot, AckedKept
  <2> QED
    BY <1>4, <2>1 DEF AckedKept, FileTypes
<1> QED
  BY <1>7, <1>8, <1>9

-----------------------------------------------------------------------------
(* Starts, deaths and damage. *)

\* The databases are never both taken for bad: one is whole, and nothing is locked.
LEMMA NotBothBad ==
  ASSUME IInv, Apart, Whole, NEW p \in Proc
  PROVE  ~RemoveBoth(p)
<1> USE ConstantsAssumption DEF ConstantsAssumption, IInv, TypeOK
<1> SUFFICES ASSUME RemoveBoth(p) PROVE FALSE
  OBVIOUS
<1>1. \A q \in Proc : At(q) \notin Inside
  BY DEF RemoveBoth, IpcFree, At, Inside, PC
<1>2. \A q \in Proc : \A f \in File : txn[q][f].mode # "pending"
  BY <1>1, NothingOpen DEF Whole, PendingWritten
<1>3. \A f \in File : ~Writing(f)
  BY DEF RemoveBoth, IpcFree, Writing, WriteAt, File, HoldsIpc, InTxn, PC, Locks
<1>4. \A f \in File : ~Barred(p, f)
  BY <1>2, <1>3 DEF Barred, Writing
<1> QED
  BY <1>4 DEF RemoveBoth, BothBad, Verdicts, Whole, OneClean, Clean

\* A process dies or exits: its transaction is gone, and a COMMIT it was writing
\* has left a journal next to one of the files.
LEMMA EndWhole ==
  ASSUME IInv, Apart, Whole, NEW p \in Proc, phase[p] # "restoring",
         ProcessEnds(p), UNCHANGED <<copyTo, fileVars>>
  PROVE  Whole'
<1> USE ConstantsAssumption DEF ConstantsAssumption, IInv, TypeOK, Whole
<1>1. /\ UNCHANGED <<disk, journal, acked, copyTo>>
      /\ phase' = [phase EXCEPT ![p] = "down"]
      /\ \A q \in Proc : linked'[q] = (linked[q] /\ q # p)
      /\ \A q \in Proc \ {p} : txn'[q] = txn[q] /\ needRollback'[q] = needRollback[q]
      /\ \A t \in Thread : IF ProcOf[t] = p
           THEN pc'[t] = "idle" /\ done'[t] = {}
           ELSE pc'[t] = pc[t] /\ done'[t] = done[t] /\ stmt'[t] = stmt[t]
  BY DEF ProcessEnds, fileVars, ProcTypes, TxnTypes
<1>2. /\ \A q \in Proc \ {p} : \A f \in File : Written(q, f)' = Written(q, f)
      /\ \A f \in File : Written(p, f)' = {} /\ txn'[p][f].mode = "closed"
  BY <1>1 DEF ProcessEnds, Written, Closed, TxnTypes
<1>3. LinkedUp' /\ PendingWritten'
  BY <1>1, <1>2 DEF LinkedUp, PendingWritten, ProcTypes
<1>4. WritingPre' /\ AckedKept'
  BY <1>1, <1>2 DEF WritingPre, AckedKept, WriteAt, File
<1>5. \A f \in File : Clean(f) /\ ~Clean(f)' =>
        \E t \in Thread : ProcOf[t] = p /\ pc[t] = WriteAt[f]
  BY <1>1 DEF Clean, Hot, Writing
<1>6. \A t \in Thread : ProcOf[t] = p /\ HoldsIpc(t) =>
        /\ \A u \in Thread \ {t} : ~HoldsIpc(u)
        /\ \A q \in Proc \ {p} : \A f \in File : Written(q, f) = {}
  BY OwnerAt, NothingOpen DEF Inside
<1>7. \A q \in Proc \ {p} : \A f \in File : Written(q, f) # {} =>
        \A g \in File : Clean(g) => Clean(g)'
  BY <1>5, <1>6 DEF HoldsIpc, InTxn, PC, WriteAt, File
<1>8. WrittenClean'
  BY <1>2, <1>7 DEF WrittenClean, File
<1>9. Balanced' /\ Executed'
  BY <1>1, <1>2 DEF Balanced, Executed, Level, File
<1>10. DoneWhere'
  <2>1. \A t \in Thread : done'[t] # {} => HoldsIpc(t) /\ ProcOf[t] # p
    BY <1>1 DEF Apart, DoneOpen, HoldsIpc
  <2>2. \A f \in File : Clean(f) /\ ~Clean(f)' => \A t \in Thread : done'[t] = {}
    BY <1>5, <1>6, <2>1 DEF HoldsIpc, InTxn, PC, WriteAt, File
  <2> QED
    BY <1>1, <1>2, <2>1, <2>2 DEF DoneWhere
<1>11. \A q \in Proc : phase[q] = "restoring" => \A f \in File : Clean(f) => Clean(f)'
  <2> SUFFICES ASSUME NEW q \in Proc, phase[q] = "restoring"
               PROVE  \A t \in Thread : ~HoldsIpc(t)
    BY <1>5 DEF HoldsIpc, InTxn, PC, WriteAt, File
  <2> QED
    BY Exclusion DEF TransactionsExclusive
<1>12. CopySource'
  BY <1>1, <1>11 DEF CopySource, Other, File, ProcTypes
<1>13. OneClean'
  <2>1. CASE \A f \in File : Clean(f) => Clean(f)'
    BY <2>1 DEF OneClean
  <2>2. CASE \E f \in File : Clean(f) /\ ~Clean(f)'
    <3> PICK f \in File, t \in Thread : ProcOf[t] = p /\ pc[t] = WriteAt[f]
      BY <1>5, <2>2
    <3>1. Written(p, f) # {} /\ HoldsIpc(t)
      BY DEF WritingPre, HoldsIpc, InTxn, PC, WriteAt, File
    <3>2. CASE f = "main"
      <4>1. Written(p, "backup") # {}
        <5>1. ~needRollback[p]["main"]
          BY <3>1, <3>2, WritingWanted
        <5> QED
          BY <3>1, <3>2, <5>1 DEF Balanced, Level, WriteAt
      <4>2. Clean("backup")
        BY <4>1 DEF WrittenClean
      <4>3. Clean("backup")'
        BY <1>5, <1>6, <3>1, <3>2, <4>2 DEF WriteAt, HoldsIpc, InTxn, PC, File
      <4> QED
        BY <4>3 DEF OneClean, File
    <3>3. CASE f = "backup"
      <4>1. Clean("main")
        BY <3>1, <3>3 DEF WrittenClean
      <4>2. Clean("main")'
        BY <1>5, <1>6, <3>1, <3>3, <4>1 DEF WriteAt, HoldsIpc, InTxn, PC, File
      <4> QED
        BY <4>2 DEF OneClean, File
    <3> QED
      BY <3>2, <3>3 DEF File
  <2> QED
    BY <2>1, <2>2
<1> QED
  BY <1>3, <1>4, <1>8, <1>9, <1>10, <1>12, <1>13

\* A file is damaged while no process runs and the other one is whole.
LEMMA CorruptWhole ==
  ASSUME IInv, Apart, Whole, NEW f \in File, Corrupt(f)
  PROVE  Whole'
<1> USE ConstantsAssumption DEF ConstantsAssumption, IInv, TypeOK, Whole
<1>1. /\ UNCHANGED <<procVars, txn, needRollback, pc, stmt, done, acked, journal>>
      /\ disk' = [disk EXCEPT ![f] = Damaged]
      /\ Clean(Other(f)) /\ Other(f) \in File /\ Other(f) # f
      /\ \A p \in Proc : phase[p] = "down"
  BY DEF Corrupt, Damage, Overwritten, Damaged, EmptyFile, txnVars, callVars, Clean, Other, File
<1>2. \A t \in Thread : pc[t] = "idle"
  BY <1>1 DEF Locks
<1>3. \A q \in Proc : \A g \in File : Written(q, g) = {} /\ Written(q, g)' = {}
  BY <1>1, <1>2, NothingOpen DEF At, LockTypes, Inside, PC, Written
<1>4. \A t \in Thread : done[t] = {}
  BY <1>2 DEF Apart, DoneOpen, InTxn
<1>5. Clean(Other(f))'
  BY <1>1 DEF Clean, Hot, Writing, FileTypes
<1>6. LinkedUp' /\ PendingWritten' /\ CopySource' /\ OneClean' /\ WrittenClean'
  BY <1>1, <1>3, <1>5
     DEF LinkedUp, PendingWritten, CopySource, OneClean, WrittenClean, procVars, Written, File
<1>7. Balanced' /\ Executed' /\ DoneWhere' /\ WritingPre'
  BY <1>1, <1>2, <1>4 DEF Balanced, Executed, DoneWhere, WritingPre, Level, WriteAt, File
<1>8. AckedKept'
  BY <1>1 DEF AckedKept, FileTypes, Damaged
<1> QED
  BY <1>6, <1>7, <1>8

\* Two empty files are whole.
LEMMA InitWhole == Init => Whole
BY DEF Init, Whole, LinkedUp, PendingWritten, CopySource, WrittenClean, Balanced, Executed,
   DoneWhere, WritingPre, AckedKept, OneClean, Clean, Hot, Written, Level, WriteAt, Closed,
   EmptyFile, File

\* Statements that fail, processes that die at any point but in a copy, and damage
\* that integrity_check reports lose nothing.
LEMMA NextWhole ==
  ASSUME Faults \subseteq {"statement", "crash", "corrupt"}
  PROVE  IInv /\ Apart /\ Whole /\ [Next]_vars => Whole'
<1> SUFFICES ASSUME IInv, Apart, Whole, [Next]_vars PROVE Whole'
  OBVIOUS
<1>1. \A kind \in {"slow_reader", "copy_crash", "silent", "lost"} :
        kind \notin Faults /\ ~Fault(kind)
  BY DEF Fault, CanFail
<1>2. ASSUME NEW t \in Thread, Call(t) PROVE Whole'
  BY <1>2, QuietWhole, SetRollbackWhole DEF Call
<1>3. ASSUME NEW t \in Thread, Step(t) PROVE Whole'
  BY <1>1, <1>3, QuietWhole, BeginWhole, ExecWhole, SetRollbackWhole, BusyWhole, ReleaseWhole,
     NothingStored, StartWhole, FinishWhole DEF Step, Commit, CommitTimesOut
<1>4. ASSUME NEW p \in Proc,
             Open(p) \/ RestoreBegin(p) \/ RemoveBoth(p) \/ RestoreEnd(p)
               \/ Crash(p) \/ CrashInCopy(p) \/ Exit(p)
      PROVE  Whole'
  <2>1. CASE Crash(p) \/ Exit(p)
    BY <2>1, EndWhole DEF Crash, Exit
  <2>2. ~CrashInCopy(p)
    BY <1>1 DEF CrashInCopy
  <2> QED
    BY <1>1, <1>4, <2>1, <2>2, StartUpWhole, NotBothBad, CopyWhole
<1>5. ASSUME NEW f \in File, Corrupt(f) \/ Lose(f) PROVE Whole'
  BY <1>1, <1>5, CorruptWhole DEF Lose, Damage
<1>6. CASE UNCHANGED vars
  <2>1. LinkedUp' /\ PendingWritten'
    BY <1>6 DEF Whole, LinkedUp, PendingWritten, vars, procVars, txnVars, Written
  <2>2. \A f \in File : Kept(f)
    BY <1>6 DEF Kept, Writing, vars, fileVars, callVars
  <2>3. \A t \in Thread : Moves(t)
    BY <1>6 DEF Moves, vars, callVars, txnVars
  <2> QED
    BY <1>6, <2>1, <2>2, <2>3, GoesOn DEF vars, procVars, callVars, txnVars, history, Written
<1> QED
  BY <1>2, <1>3, <1>4, <1>5, <1>6, QuietWhole DEF Next

\* Under these faults the files are whole, or can be repaired, all the time.
LEMMA WholeAlways ==
  ASSUME Faults \subseteq {"statement", "crash", "corrupt"}
  PROVE  Spec => [](IInv /\ Apart /\ Whole)
<1>1. Init => Whole
  BY InitWhole
<1>2. IInv /\ Apart /\ Whole /\ [Next]_vars => Whole'
  BY NextWhole
<1>3. Spec => [](IInv /\ Apart)
  BY ApartAlways
<1> QED
  BY <1>1, <1>2, <1>3, PTL DEF Spec

\* Whenever nobody is in a transaction or a repair, main holds what a confirmed
\* call wrote, or is damaged, or gets it back from its journal at the next access.
THEOREM ConfirmedInMain ==
  ASSUME Faults \subseteq {"statement", "crash", "corrupt"}
  PROVE  Spec => []AckedInMain
<1>1. IInv /\ Apart /\ Whole => AckedInMain
  <2> SUFFICES ASSUME IInv, Whole, ipc = None, NEW d \in Undone("main"), d.sound
               PROVE  acked \subseteq d.rows
    BY DEF AckedInMain
  <2> USE ConstantsAssumption DEF ConstantsAssumption, IInv, Whole
  <2>1. ~Writing("main")
    BY DEF Writing, WriteAt, HoldsIpc, InTxn, PC, Locks
  <2>2. CASE journal["main"] = None
    BY <2>2 DEF Undone, Hot, AckedKept, File
  <2>3. CASE journal["main"] # None
    <3>1. Hot("main") /\ d # Damaged
      BY <2>1, <2>3 DEF Hot, Damaged
    <3>2. disk["main"].sound
      BY <3>1 DEF Undone
    <3>3. d = [sound |-> TRUE, rows |-> journal["main"].pre]
      BY <3>1, <3>2 DEF Undone
    <3> QED
      BY <2>3, <3>3 DEF AckedKept, File
  <2> QED
    BY <2>2, <2>3
<1> QED
  BY <1>1, WholeAlways, PTL

\* At every moment, also in the middle of a COMMIT or of a repair, one of the files
\* that is not being overwritten gives every confirmed modification.
THEOREM ConfirmedSurvives ==
  ASSUME Faults \subseteq {"statement", "crash", "corrupt"}
  PROVE  Spec => []AckedSurvives
<1>1. IInv /\ Apart /\ Whole => AckedSurvives
  <2> SUFFICES ASSUME IInv, Whole PROVE AckedSurvives
    OBVIOUS
  <2> USE DEF Whole
  <2>1. \E f \in File \ {copyTo} : Clean(f)
    BY NoneAssumption DEF NoneAssumption, CopySource, OneClean, Other, File
  <2>2. ASSUME NEW f \in File, Clean(f)
        PROVE  Undone(f) = {disk[f]} /\ acked \subseteq disk[f].rows
    BY <2>2 DEF Clean, Hot, Undone, Writing, WritingPre, AckedKept
  <2> QED
    BY <2>1, <2>2 DEF AckedSurvives, Clean
<1> QED
  BY <1>1, WholeAlways, PTL

-----------------------------------------------------------------------------
(* Main and backup are the same when nobody works on them. *)

\* Main is committed, the backup is not yet.
Between(t) == pc[t] \in {"commit_backup", "write_backup"}

\* What the backup still lacks then.
Due(t) ==
  IF needRollback[ProcOf[t]]["backup"] THEN {} ELSE Written(ProcOf[t], "backup")

\* Both files are whole, and differ by what is due.
Mirror ==
  /\ \A f \in File : Clean(f)
  /\ (\A t \in Thread : ~Between(t)) => disk["main"].rows = disk["backup"].rows
  /\ \A t \in Thread : Between(t) =>
       disk["main"].rows = disk["backup"].rows \cup Due(t)

\* A step that commits nothing leaves whole files alone.
LEMMA MirrorStays ==
  ASSUME Mirror, UNCHANGED disk, \A f \in File : Clean(f)',
         \A t \in Thread : (Between(t)' <=> Between(t)) /\ (Between(t) => Due(t)' = Due(t))
  PROVE  Mirror'
BY DEF Mirror

\* Another thread than the owner of the locks is not between the two COMMITs.
LEMMA OthersNotBetween ==
  ASSUME IInv, NEW t \in Thread, HoldsIpc(t), NEW u \in Thread \ {t}
  PROVE  ~Between(u)
BY OwnerAt DEF Between, HoldsIpc, InTxn, PC

\* The steps of a thread before its COMMIT in main.
LEMMA QuietMirror ==
  ASSUME IInv, Mirror, NEW t \in Thread,
         \/ CallLock(t) \/ CallModify(t) \/ CallModifyLocked(t)
         \/ QueryBegin(t) \/ QueryEnd(t) \/ TakeMutex(t) \/ TakeIpc(t)
         \/ ExecMainFails(t) \/ Unlock(t) \/ CommitBusy(t) \/ Release(t)
  PROVE  Mirror'
<1> USE ConstantsAssumption DEF ConstantsAssumption, IInv, TypeOK
<1>1. /\ UNCHANGED <<txn, needRollback>> \/ CommitBusy(t)
      /\ \A u \in Thread : Between(u)' <=> Between(u)
      /\ \A f \in File : Writing(f)' = Writing(f)
  BY DEF CallLock, CallModify, CallModifyLocked, QueryBegin, QueryEnd, TakeMutex, TakeIpc,
     ExecMainFails, Unlock, CommitBusy, Release, callVars, txnVars, Goto, CallTypes,
     Between, Writing, WriteAt, File
<1>2. (UNCHANGED fileVars) \/ Access(ProcOf[t], "main")
  BY DEF CallLock, CallModify, CallModifyLocked, QueryBegin, QueryEnd, TakeMutex, TakeIpc,
     ExecMainFails, Unlock, CommitBusy, Release
<1>3. UNCHANGED disk /\ \A f \in File : Clean(f)'
  BY <1>1, <1>2 DEF Mirror, Clean, Hot, Access, Undone, fileVars, FileTypes, File
<1>4. \A u \in Thread : Due(u)' = Due(u)
  <2>1. UNCHANGED needRollback /\ \A p \in Proc : \A f \in File : Written(p, f)' = Written(p, f)
    <3>1. CASE UNCHANGED <<txn, needRollback>>
      BY <3>1 DEF Written
    <3>2. CASE CommitBusy(t)
      BY <3>2 DEF CommitBusy, Written, TxnTypes
    <3> QED
      BY <1>1, <3>1, <3>2
  <2> QED
    BY <2>1 DEF Due, File
<1> QED
  BY <1>1, <1>3, <1>4, MirrorStays

\* BEGIN, a statement, rollback(): the owner is not between its COMMITs.
LEMMA WorkMirror ==
  ASSUME IInv, Mirror, NEW t \in Thread,
         Begin(t) \/ Rollback(t) \/ ExecMain(t) \/ ExecBackup(t) \/ ExecBackupFails(t)
  PROVE  Mirror'
<1> USE ConstantsAssumption DEF ConstantsAssumption, IInv, TypeOK
<1>1. HoldsIpc(t) /\ ~Between(t)
  BY DEF Begin, Rollback, ExecMain, ExecBackup, ExecBackupFails, HoldsIpc, InTxn, PC, Between
<1>2. \A u \in Thread : ~Between(u) /\ ~Between(u)'
  <2>1. \A u \in Thread \ {t} : ~Between(u)
    BY <1>1, OthersNotBetween
  <2> QED
    BY <1>1, <2>1
       DEF Begin, Rollback, ExecMain, ExecBackup, ExecBackupFails, Goto, callVars, CallTypes,
           Between
<1>3. \A f \in File : Writing(f)' = Writing(f)
  BY DEF Begin, Rollback, ExecMain, ExecBackup, ExecBackupFails, Goto, callVars, CallTypes,
     Writing, WriteAt, File
<1>4. (UNCHANGED fileVars) \/ \E f \in File : Access(ProcOf[t], f)
  BY DEF Begin, Rollback, ExecMain, ExecBackup, ExecBackupFails, File
<1>5. UNCHANGED disk /\ \A f \in File : Clean(f)'
  BY <1>3, <1>4 DEF Mirror, Clean, Hot, Access, Undone, fileVars, FileTypes
<1> QED
  BY <1>2, <1>5, MirrorStays

\* The end of the transaction in main makes due what is open in the backup; its end
\* in the backup settles it.
LEMMA CommitMirror ==
  ASSUME IInv, Apart, Whole, Mirror, NEW t \in Thread, NEW f \in File,
         RollbackTxn(t, f) \/ CommitEmpty(t, f) \/ CommitFinish(t, f)
  PROVE  Mirror'
<1> USE ConstantsAssumption DEF ConstantsAssumption, IInv, TypeOK
<1> DEFINE p == ProcOf[t]
<1>1. /\ pc[t] \in {CommitAt[f], WriteAt[f]} /\ Goto(t, AfterCommit[f])
      /\ txn' = [txn EXCEPT ![p][f] = Closed] /\ UNCHANGED <<ipc, mutex>>
  BY DEF RollbackTxn, CommitEmpty, CommitFinish, CommitGuard, lockVars
<1>2. /\ HoldsIpc(t) /\ p \in Proc /\ At(p) = pc[t]
      /\ \A g \in File : Written(p, g)' = IF g = f THEN {} ELSE Written(p, g)
  BY <1>1, EndsIn
<1>3. \A u \in Thread \ {t} : ~Between(u) /\ ~Between(u)'
  BY <1>1, <1>2, OthersNotBetween DEF Between, Goto, CallTypes
<1>4. /\ Between(t) <=> f = "backup"
      /\ Between(t)' <=> f = "main"
  BY <1>1 DEF Between, Goto, CallTypes, CommitAt, WriteAt, AfterCommit, File
<1> DEFINE new == IF needRollback[p][f] THEN {} ELSE Written(p, f)
<1>5. /\ \A g \in File \ {f} : disk'[g] = disk[g]
      /\ disk'[f].sound = disk[f].sound /\ disk'[f].rows = disk[f].rows \cup new
      /\ UNCHANGED journal \/ journal' = [journal EXCEPT ![f] = None]
      /\ needRollback'[p]["backup"] <=> f = "main" /\ needRollback[p]["backup"]
  <2>1. CASE RollbackTxn(t, f)
    BY <2>1 DEF RollbackTxn, fileVars, TxnTypes, File
  <2>2. CASE CommitEmpty(t, f)
    <3>1. linked[p]
      BY <1>1, <1>2 DEF Whole, LinkedUp, Locks, CommitAt, WriteAt, File
    <3> QED
      BY <1>2, <2>2, <3>1 DEF CommitEmpty, CommitGuard, fileVars, Written, File
  <2>3. CASE CommitFinish(t, f)
    <3>1. ~needRollback[p][f]
      BY <2>3, WritingWanted DEF CommitFinish
    <3> QED
      BY <2>3, <3>1 DEF CommitFinish, FileTypes, Content, Written, File
  <2> QED
    BY <2>1, <2>2, <2>3
<1>6. \A g \in File : Clean(g)'
  <2>1. \A g \in File \ {f} : Writing(g)' = Writing(g)
    BY <1>1, <1>3 DEF Writing, Goto, CallTypes, CommitAt, WriteAt, AfterCommit, File
  <2>2. journal'[f] = None \/ (pc[t] = CommitAt[f] /\ journal'[f] = journal[f])
    BY <1>1 DEF RollbackTxn, CommitEmpty, CommitFinish, fileVars, CommitGuard, FileTypes
  <2>3. pc[t] = CommitAt[f] => Writing(f)' = Writing(f)
    BY <1>1 DEF Writing, Goto, CallTypes, CommitAt, WriteAt, AfterCommit, File
  <2> QED
    BY <1>5, <2>1, <2>2, <2>3 DEF Mirror, Clean, Hot, FileTypes
<1>7. CASE f = "main"
  <2>1. needRollback[p]["main"] <=> needRollback[p]["backup"]
    BY <1>1, <1>2, <1>7 DEF Apart, SameFate, CommitAt, WriteAt, Calls
  <2>2. ~needRollback[p]["main"] => Written(p, "main") = Written(p, "backup")
    BY <1>1, <1>7 DEF Whole, Balanced, Level, CommitAt, WriteAt
  <2>3. Due(t)' = new
    BY <1>2, <1>5, <1>7, <2>1, <2>2 DEF Due, File
  <2>4. disk["main"].rows = disk["backup"].rows
    BY <1>3, <1>4, <1>7 DEF Mirror
  <2> QED
    BY <1>3, <1>4, <1>5, <1>6, <1>7, <2>3, <2>4 DEF Mirror, File
<1>8. CASE f = "backup"
  <2>1. disk["main"].rows = disk["backup"].rows \cup new
    BY <1>4, <1>8 DEF Mirror, Due
  <2> QED
    BY <1>3, <1>4, <1>5, <1>6, <1>8, <2>1 DEF Mirror, File
<1> QED
  BY <1>7, <1>8 DEF File

\* The start of a COMMIT leaves both files as they are.
LEMMA StartMirror ==
  ASSUME IInv, Mirror, NEW t \in Thread, NEW f \in File, CommitStart(t, f)
  PROVE  Mirror'
<1> USE ConstantsAssumption DEF ConstantsAssumption, IInv, TypeOK
<1>1. /\ pc[t] = CommitAt[f] /\ Goto(t, WriteAt[f])
      /\ UNCHANGED <<disk, txn, needRollback>>
      /\ \A g \in File \ {f} : journal'[g] = journal[g]
  BY DEF CommitStart, CommitGuard, txnVars, FileTypes
<1>2. /\ \A u \in Thread : (Between(u)' <=> Between(u)) /\ Due(u)' = Due(u)
      /\ Writing(f)' /\ \A g \in File \ {f} : Writing(g)' = Writing(g)
  BY <1>1 DEF Between, Due, Written, Writing, Goto, CallTypes, CommitAt, WriteAt, File
<1> QED
  BY <1>1, <1>2, MirrorStays DEF Mirror, Clean, Hot

\* Starts, ends and copies, when nobody dies.
LEMMA StartUpMirror ==
  ASSUME IInv, Mirror, NEW p \in Proc, Open(p) \/ RestoreBegin(p) \/ RestoreEnd(p) \/ Exit(p)
  PROVE  Mirror'
<1> USE ConstantsAssumption DEF ConstantsAssumption, IInv, TypeOK
<1>1. /\ \A t \in Thread : ProcOf[t] = p => pc[t] = "idle" \/ ~Exit(p)
      /\ \A t \in Thread : pc'[t] = pc[t]
      /\ UNCHANGED journal
  BY DEF Open, RestoreBegin, RestoreEnd, Exit, ProcessEnds, ThreadsOf, callVars, fileVars,
     CallTypes
<1>2. \A t \in Thread : (Between(t)' <=> Between(t)) /\ (Between(t) => Due(t)' = Due(t))
  BY <1>1
     DEF Open, RestoreBegin, RestoreEnd, Exit, ProcessEnds, txnVars, Between, Due, Written,
         TxnTypes
<1>3. CASE ~RestoreEnd(p)
  BY <1>1, <1>2, <1>3, MirrorStays
     DEF Open, RestoreBegin, Exit, fileVars, Mirror, Clean, Hot, Writing
<1>4. CASE RestoreEnd(p)
  <2>1. \A t \in Thread : ~HoldsIpc(t)
    BY <1>4, Exclusion DEF RestoreEnd, TransactionsExclusive
  <2>2. \A t \in Thread : ~Between(t)
    BY <2>1 DEF Between, HoldsIpc, InTxn, PC
  <2>3. \A f \in File : disk'[f] \in {disk["main"], disk["backup"]}
    BY <1>4 DEF RestoreEnd, Other, FileTypes, File
  <2>4. \A f \in File : disk'[f].rows = disk["main"].rows /\ disk'[f].sound
    BY <2>2, <2>3 DEF Mirror, Clean, File
  <2> QED
    BY <1>1, <1>2, <2>2, <2>4 DEF Mirror, Clean, Hot, Writing, File
<1> QED
  BY <1>3, <1>4

\* Two empty files are the same.
LEMMA InitMirror == Init => Mirror
BY DEF Init, Mirror, Clean, Hot, Between, EmptyFile, File

\* As long as no process dies and no file is touched from outside, every step leaves
\* the two files the same, but for what is due.
LEMMA NextMirror ==
  ASSUME Faults \subseteq {"statement"}
  PROVE  IInv /\ Apart /\ Whole /\ Mirror /\ [Next]_vars => Mirror'
<1> SUFFICES ASSUME IInv, Apart, Whole, Mirror, [Next]_vars PROVE Mirror'
  OBVIOUS
<1>1. \A kind \in {"slow_reader", "crash", "copy_crash", "corrupt", "lost"} : ~Fault(kind)
  BY DEF Fault, CanFail
<1>2. ASSUME NEW t \in Thread, Call(t) PROVE Mirror'
  BY <1>2, QuietMirror, WorkMirror DEF Call
<1>3. ASSUME NEW t \in Thread, Step(t) PROVE Mirror'
  BY <1>1, <1>3, QuietMirror, WorkMirror, CommitMirror, StartMirror
     DEF Step, Commit, CommitTimesOut
<1>4. ASSUME NEW p \in Proc,
             Open(p) \/ RestoreBegin(p) \/ RemoveBoth(p) \/ RestoreEnd(p)
               \/ Crash(p) \/ CrashInCopy(p) \/ Exit(p)
      PROVE  Mirror'
  BY <1>1, <1>4, StartUpMirror, NotBothBad DEF Crash, CrashInCopy
<1>5. ASSUME NEW f \in File PROVE ~Corrupt(f) /\ ~Lose(f)
  BY <1>1 DEF Corrupt, Lose, Damage
<1>6. CASE UNCHANGED vars
  BY <1>6, MirrorStays
     DEF Mirror, Clean, Hot, Writing, Between, Due, Written, vars, fileVars, txnVars, callVars
<1> QED
  BY <1>2, <1>3, <1>4, <1>5, <1>6, QuietMirror DEF Next

\* Whatever statements fail and whoever rolls back, main and backup hold the same
\* modifications whenever the lock of the database is free.
THEOREM Mirrored ==
  ASSUME Faults \subseteq {"statement"}
  PROVE  Spec => []MirrorWhenFree
<1>1. Init => Mirror
  BY InitMirror
<1>2. IInv /\ Apart /\ Whole /\ Mirror /\ [Next]_vars => Mirror'
  BY NextMirror
<1>3. Spec => [](IInv /\ Apart /\ Whole)
  BY WholeAlways
<1>4. IInv /\ Apart /\ Mirror => MirrorWhenFree
  <2> SUFFICES ASSUME IInv, Apart, Mirror, ipc = None PROVE Held("main") = Held("backup")
    BY DEF MirrorWhenFree
  <2>1. \A p \in Proc : \A f \in File : Written(p, f) = {}
    BY ConstantsAssumption, NothingOpen DEF ConstantsAssumption, At, Inside, PC
  <2>2. \A t \in Thread : ~Between(t)
    BY ConstantsAssumption
       DEF ConstantsAssumption, Between, HoldsIpc, InTxn, PC, IInv, Locks
  <2> QED
    BY <2>1, <2>2 DEF Mirror, Held, Written, File
<1> QED
  BY <1>1, <1>2, <1>3, <1>4, PTL DEF Spec
=============================================================================
