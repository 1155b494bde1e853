--------------------------- MODULE IpcLock_proofs ---------------------------
(* For any set of processes: the semaphore holds one token, whoever is told  *)
(* it has the lock owns it, and the implementation refines Mutex.            *)
EXTENDS IpcLock, TLAPS

\* The semaphore between semget and SETVAL, and before it exists: no token yet.
Window ==
  /\ ~exists => /\ val = 0
                /\ \A p \in Proc : undo[p] = 0 /\ pc[p] # "init"
  /\ \A p \in Proc : pc[p] = "init" =>
       /\ val = 0
       /\ \A q \in Proc : undo[q] = 0 /\ (pc[q] = "init" => q = p)

IInv == TypeOK /\ OneToken /\ HeldIsOwned /\ Window

\* The invariant holds when no process has called yet.
LEMMA InitIInv == Init => IInv
<1> SUFFICES ASSUME Init PROVE IInv
  OBVIOUS
<1>1. TypeOK
  <2>1. exists \in BOOLEAN
    BY DEF Init
  <2>2. MaxTries \in Nat
    BY LockAssumption DEF LockAssumption
  <2>3. pc \in [Proc -> PC]
    BY DEF Init, PC
  <2>4. tries \in [Proc -> 0 .. MaxTries]
    BY <2>2 DEF Init
  <2>5. val \in Nat /\ undo \in [Proc -> Nat] /\ kind \in [Proc -> Kind]
    BY DEF Init, Kind
  <2> QED
    BY <2>1, <2>3, <2>4, <2>5 DEF TypeOK
<1>2. OneToken /\ HeldIsOwned /\ Window
  BY DEF Init, OneToken, HeldIsOwned, Window
<1> QED
  BY <1>1, <1>2 DEF IInv

\* Every step of every process keeps it.
LEMMA NextIInv == IInv /\ [Next]_vars => IInv'
<1> SUFFICES ASSUME IInv, [Next]_vars PROVE IInv'
  OBVIOUS
<1> USE LockAssumption DEF LockAssumption, IInv, TypeOK, OneToken, HeldIsOwned, Window, PC, Kind, Goto
<1>1. CASE UNCHANGED vars
  BY <1>1 DEF vars
<1>2. ASSUME NEW p \in Proc, Call(p) PROVE IInv'
  BY <1>2 DEF Call
<1>3. ASSUME NEW p \in Proc, Create(p) PROVE IInv'
  BY <1>3 DEF Create
<1>4. ASSUME NEW p \in Proc, Find(p) PROVE IInv'
  BY <1>4 DEF Find
<1>5. ASSUME NEW p \in Proc, Initialize(p) PROVE IInv'
  BY <1>5 DEF Initialize, SetVal
<1>6. ASSUME NEW p \in Proc, GetFails(p) PROVE IInv'
  BY <1>6 DEF GetFails
<1>7. ASSUME NEW p \in Proc, ReturnBad(p) PROVE IInv'
  BY <1>7 DEF ReturnBad
<1>8. ASSUME NEW p \in Proc, Take(p) PROVE IInv'
  BY <1>8 DEF Take, CanTake
<1>9. ASSUME NEW p \in Proc, NowaitFails(p) PROVE IInv'
  BY <1>9 DEF NowaitFails
<1>10. ASSUME NEW p \in Proc, TimeoutRetries(p) PROVE IInv'
  BY <1>10 DEF TimeoutRetries, CountTry
<1>11. ASSUME NEW p \in Proc, TimeoutFails(p) PROVE IInv'
  BY <1>11 DEF TimeoutFails
<1>12. ASSUME NEW p \in Proc, Unlock(p) PROVE IInv'
  BY <1>12 DEF Unlock
<1>13. ASSUME NEW p \in Proc, UnlockFind(p) PROVE IInv'
  BY <1>13 DEF UnlockFind
<1>14. ASSUME NEW p \in Proc, UnlockGetFails(p) PROVE IInv'
  BY <1>14 DEF UnlockGetFails
<1>15. ASSUME NEW p \in Proc, Post(p) PROVE IInv'
  BY <1>15 DEF Post, Settle
<1>16. ASSUME NEW p \in Proc, Death(p) PROVE IInv'
  BY <1>16 DEF Death, GiveBack
<1> QED
  BY <1>1, <1>2, <1>3, <1>4, <1>5, <1>6, <1>7, <1>8, <1>9, <1>10, <1>11, <1>12,
     <1>13, <1>14, <1>15, <1>16 DEF Next, Get, Op, Give

\* The inductive invariant holds in every state that the lock reaches.
THEOREM Inductive == Spec => []IInv
BY InitIInv, NextIInv, PTL DEF Spec

\* Every variable keeps its type, for any number of processes.
THEOREM TypeCorrect == Spec => []TypeOK
BY Inductive, PTL DEF IInv

\* The semaphore of lock.c never holds two tokens and is owed to one process.
THEOREM OneTokenAlways == Spec => []OneToken
BY Inductive, PTL DEF IInv

\* Whoever ipc_lock answered with 1 owns the lock until it unlocks.
THEOREM HeldIsOwnedAlways == Spec => []HeldIsOwned
BY Inductive, PTL DEF IInv

-----------------------------------------------------------------------------
(* Refinement of Mutex *)

\* The process that owns the token is the one SEM_UNDO owes it to.
LEMMA HolderIs ==
  TypeOK /\ OneToken =>
    /\ \A p \in Proc : undo[p] > 0 => holder = p
    /\ (\A p \in Proc : undo[p] = 0) => holder = None
<1> SUFFICES ASSUME TypeOK, OneToken
             PROVE  /\ \A p \in Proc : undo[p] > 0 => holder = p
                    /\ (\A p \in Proc : undo[p] = 0) => holder = None
  OBVIOUS
<1>1. ASSUME NEW p \in Proc, undo[p] > 0 PROVE holder = p
  <2>1. \A q \in Proc : undo[q] > 0 => q = p
    BY <1>1 DEF OneToken
  <2>2. holder \in Proc /\ undo[holder] > 0
    BY <1>1 DEF holder
  <2> QED
    BY <2>1, <2>2
<1>2. ASSUME \A p \in Proc : undo[p] = 0 PROVE holder = None
  <2>1. ~ \E p \in Proc : undo[p] > 0
    BY <1>2
  <2> QED
    BY <2>1 DEF holder
<1> QED
  BY <1>1, <1>2

\* A step of the semaphore is a step of the mutex, or none.
LEMMA StepSimulated == IInv /\ IInv' /\ [Next]_vars => [M!Next]_holder
<1> SUFFICES ASSUME IInv, IInv', [Next]_vars PROVE [M!Next]_holder
  OBVIOUS
<1>a. /\ \A p \in Proc : undo[p] > 0 => holder = p
      /\ (\A p \in Proc : undo[p] = 0) => holder = None
  BY HolderIs DEF IInv
<1>b. /\ \A p \in Proc : undo'[p] > 0 => holder' = p
      /\ (\A p \in Proc : undo'[p] = 0) => holder' = None
  <2>1. (TypeOK /\ OneToken =>
           /\ \A p \in Proc : undo[p] > 0 => holder = p
           /\ (\A p \in Proc : undo[p] = 0) => holder = None)'
    BY HolderIs, PTL
  <2> QED
    BY <2>1 DEF IInv
<1>c. ASSUME undo' = undo PROVE [M!Next]_holder
  BY <1>c DEF holder
<1>1. ASSUME NEW p \in Proc, Initialize(p) PROVE [M!Next]_holder
  <2>1. \A q \in Proc : undo[q] = 0 /\ undo'[q] = 0
    BY <1>1 DEF Initialize, SetVal, IInv, Window
  <2> QED
    BY <2>1, <1>a, <1>b
<1>2. ASSUME NEW p \in Proc, Take(p) PROVE [M!Next]_holder
  <2>1. (\A q \in Proc : undo[q] = 0) /\ undo'[p] = 1
    BY <1>2 DEF Take, CanTake, IInv, TypeOK, OneToken
  <2>2. holder = None /\ holder' = p
    BY <2>1, <1>a, <1>b
  <2> QED
    BY <2>2 DEF M!Next, M!Acquire
<1>3. ASSUME NEW p \in Proc, undo[p] = 1, undo' = [undo EXCEPT ![p] = 0]
      PROVE [M!Next]_holder
  <2>1. undo[p] > 0 /\ \A q \in Proc : undo'[q] = 0
    <3>1. undo \in [Proc -> Nat]
      BY DEF IInv, TypeOK
    <3>2. \A q \in Proc : q # p => undo[q] = 0
      BY <1>3, <3>1 DEF IInv, OneToken
    <3> QED
      BY <1>3, <3>1, <3>2
  <2>2. holder = p /\ holder' = None
    BY <2>1, <1>a, <1>b
  <2> QED
    BY <2>2 DEF M!Next, M!Release
<1>4. ASSUME NEW p \in Proc, Post(p) PROVE [M!Next]_holder
  <2>1. undo[p] = 1 /\ undo' = [undo EXCEPT ![p] = 0]
    <3>1. undo[p] = 1
      BY <1>4 DEF Post, IInv, HeldIsOwned
    <3>2. undo' = [undo EXCEPT ![p] = undo[p] - 1]
      BY <1>4 DEF Post, Settle
    <3>3. undo[p] - 1 = 0
      BY <3>1
    <3> QED
      BY <3>1, <3>2, <3>3
  <2> QED
    BY <2>1, <1>3
<1>5. ASSUME NEW p \in Proc, Death(p) PROVE [M!Next]_holder
  <2>1. undo[p] \in {0, 1} /\ undo' = [undo EXCEPT ![p] = 0]
    BY <1>5 DEF Death, IInv, TypeOK, OneToken
  <2>2. CASE undo[p] = 0
    BY <2>1, <2>2, <1>c DEF IInv, TypeOK
  <2>3. CASE undo[p] = 1
    BY <2>1, <2>3, <1>3
  <2> QED
    BY <2>1, <2>2, <2>3
<1>6. CASE UNCHANGED vars
  BY <1>6, <1>c DEF vars
<1>7. ASSUME NEW p \in Proc, Call(p) \/ Get(p) \/ Op(p) \/ Unlock(p) \/ Give(p) \/ Death(p)
      PROVE [M!Next]_holder
  BY <1>7, <1>1, <1>2, <1>4, <1>5, <1>c
     DEF Call, Get, Create, Find, GetFails, ReturnBad, Op, NowaitFails,
         TimeoutRetries, TimeoutFails, Give, Unlock, UnlockFind, UnlockGetFails
<1> QED
  BY <1>6, <1>7 DEF Next

\* lock.c implements the mutex that lock.h promises, deaths and failed calls
\* included (but not that a free lock is granted: see FreeLockIsGranted).
THEOREM Refinement == Spec => ImplementsMutex
<1>1. Init => M!Init
  BY HolderIs, InitIInv DEF Init, IInv, M!Init
<1>2. Spec => []IInv
  BY Inductive
<1> QED
  BY <1>1, <1>2, StepSimulated, PTL DEF Spec, ImplementsMutex, M!Spec
=============================================================================
