------------------------------ MODULE IpcLock ------------------------------
(***************************************************************************)
(* The lock between processes of utils/ipc/lock.c: a System V semaphore,   *)
(* found or created by name on every call (get_sem_id), taken and given    *)
(* back with SEM_UNDO (ipc_lock_op).  One name, one caller per process.    *)
(* Creating the semaphore and giving it its value 1 are two system calls,  *)
(* with a shell command between them.                                      *)
(***************************************************************************)
EXTENDS Naturals

\* Find_Resets is Find as a plausible slip would have it, and so on: what the
\* properties tell from the code.
CONSTANTS
  Proc,      \* processes that use the name
  None,      \* nobody
  MaxTries,  \* attempts of ipc_lock_timeout before its time is over
  Faults     \* which of FaultKinds may happen

FaultKinds ==
  { "death",       \* a process dies (but not in the middle of get_sem_id)
    "init_death",  \* a process dies between semget and SETVAL
    "no_sem",      \* get_sem_id fails
    "errno" }      \* logging a failed semop leaves another errno behind

ASSUME LockAssumption ==
  /\ None \notin Proc
  /\ MaxTries \in Nat
  /\ Faults \subseteq FaultKinds

Kind == {"block", "nowait", "timeout"}
PC == {"idle", "get", "init", "op", "bad", "held", "unget", "post"}

VARIABLES
  exists,  \* the semaphore has been created
  val,     \* its value
  undo,    \* SEM_UNDO adjustment owed to each process
  pc,      \* where each process is
  kind,    \* which lock function it called
  tries    \* failed attempts of ipc_lock_timeout

vars == <<exists, val, undo, pc, kind, tries>>

TypeOK ==
  /\ exists \in BOOLEAN
  /\ val \in Nat
  /\ undo \in [Proc -> Nat]
  /\ pc \in [Proc -> PC]
  /\ kind \in [Proc -> Kind]
  /\ tries \in [Proc -> 0 .. MaxTries]

Init ==
  /\ exists = FALSE
  /\ val = 0
  /\ undo = [p \in Proc |-> 0]
  /\ pc = [p \in Proc |-> "idle"]
  /\ kind = [p \in Proc |-> "block"]
  /\ tries = [p \in Proc |-> 0]

Goto(p, label) == pc' = [pc EXCEPT ![p] = label]

\* ipc_lock, ipc_lock_nowait, ipc_lock_timeout; the lock is not reentrant.
Call(p) ==
  /\ pc[p] = "idle"
  /\ \E k \in Kind : kind' = [kind EXCEPT ![p] = k]
  /\ tries' = [tries EXCEPT ![p] = 0]
  /\ Goto(p, "get")
  /\ UNCHANGED <<exists, val, undo>>

\* semget(IPC_CREAT | IPC_EXCL): the creator gets a semaphore of value 0.
Create(p) ==
  /\ pc[p] = "get" /\ ~exists
  /\ exists' = TRUE
  /\ val' = 0
  /\ Goto(p, "init")
  /\ UNCHANGED <<undo, kind, tries>>

Find_Resets(p) ==
  /\ pc[p] = "get" /\ exists
  /\ val' = 1 /\ undo' = [q \in Proc |-> 0]
  /\ Goto(p, "op")
  /\ UNCHANGED <<exists, kind, tries>>

\* EEXIST: semget again, whether or not the creator has set the value.
Find(p) ==
  /\ pc[p] = "get" /\ exists
  /\ Goto(p, "op")
  /\ UNCHANGED <<exists, val, undo, kind, tries>>

\* semctl(SETVAL) also clears the SEM_UNDO adjustments of every process.
SetVal(p) == val' = 1 /\ undo' = [q \in Proc |-> 0]

Initialize(p) ==
  /\ pc[p] = "init"
  /\ SetVal(p)
  /\ Goto(p, "op")
  /\ UNCHANGED <<exists, kind, tries>>

GetFails(p) ==
  /\ "no_sem" \in Faults
  /\ pc[p] \in {"get", "init"}
  /\ Goto(p, "bad")
  /\ UNCHANGED <<exists, val, undo, kind, tries>>

\* sem_id < 0: ipc_lock retries for ever with the same sem_id, the others return.
ReturnBad(p) ==
  /\ pc[p] = "bad" /\ kind[p] # "block"
  /\ Goto(p, "idle")
  /\ UNCHANGED <<exists, val, undo, kind, tries>>

CanTake_Blind(p) == TRUE
CanTake(p) == val > 0

Take(p) ==
  /\ pc[p] = "op" /\ CanTake(p)
  /\ val' = val - 1
  /\ undo' = [undo EXCEPT ![p] = @ + 1]
  /\ Goto(p, "held")
  /\ UNCHANGED <<exists, kind, tries>>

\* EAGAIN of the calls that do not block.
NowaitFails(p) ==
  /\ pc[p] = "op" /\ kind[p] = "nowait" /\ val = 0
  /\ Goto(p, "idle")
  /\ UNCHANGED <<exists, val, undo, kind, tries>>

CountTry_Forgotten(p) == UNCHANGED tries
CountTry(p) == tries' = [tries EXCEPT ![p] = @ + 1]

TimeoutRetries(p) ==
  /\ pc[p] = "op" /\ kind[p] = "timeout" /\ val = 0 /\ tries[p] < MaxTries
  /\ CountTry(p)
  /\ UNCHANGED <<exists, val, undo, pc, kind>>

\* Out of time, or errno is no longer EAGAIN.
TimeoutFails(p) ==
  /\ pc[p] = "op" /\ kind[p] = "timeout" /\ val = 0
  /\ tries[p] = MaxTries \/ "errno" \in Faults
  /\ Goto(p, "idle")
  /\ UNCHANGED <<exists, val, undo, kind, tries>>

\* ipc_unlock finds the semaphore by name first ...
Unlock(p) ==
  /\ pc[p] = "held"
  /\ Goto(p, "unget")
  /\ UNCHANGED <<exists, val, undo, kind, tries>>

UnlockFind(p) ==
  /\ pc[p] = "unget"
  /\ Goto(p, "post")
  /\ UNCHANGED <<exists, val, undo, kind, tries>>

\* ... and when that fails the caller goes on, still the owner.
UnlockGetFails(p) ==
  /\ "no_sem" \in Faults
  /\ pc[p] = "unget"
  /\ Goto(p, "idle")
  /\ UNCHANGED <<exists, val, undo, kind, tries>>

Settle_NoUndo(p) == UNCHANGED undo
Settle(p) == undo' = [undo EXCEPT ![p] = @ - 1]

Post(p) ==
  /\ pc[p] = "post"
  /\ val' = val + 1
  /\ Settle(p)
  /\ Goto(p, "idle")
  /\ UNCHANGED <<exists, kind, tries>>

\* The kernel applies the adjustment of a process that dies.
GiveBack_Never(p) == UNCHANGED val
GiveBack(p) == val' = val + undo[p]

Death(p) ==
  /\ \/ "death" \in Faults /\ pc[p] # "init"
     \/ "init_death" \in Faults /\ pc[p] = "init"
  /\ GiveBack(p)
  /\ undo' = [undo EXCEPT ![p] = 0]
  /\ Goto(p, "idle")
  /\ UNCHANGED <<exists, kind, tries>>

Get(p) == Create(p) \/ Find(p) \/ Initialize(p) \/ GetFails(p) \/ ReturnBad(p)
Op(p) == Take(p) \/ NowaitFails(p) \/ TimeoutRetries(p) \/ TimeoutFails(p)
Give(p) == UnlockFind(p) \/ UnlockGetFails(p) \/ Post(p)

Next ==
  \E p \in Proc : Call(p) \/ Get(p) \/ Op(p) \/ Unlock(p) \/ Give(p) \/ Death(p)

Spec == Init /\ [][Next]_vars

\* Calls run on, and the kernel queues the callers of a blocking semop.  Nothing
\* makes a holder unlock.
Fairness == \A p \in Proc : WF_vars(Get(p) \/ Give(p)) /\ SF_vars(Op(p))

LiveSpec == Spec /\ Fairness
-----------------------------------------------------------------------------
(* Properties *)

\* The process the lock belongs to, whatever its caller believes.
holder == IF \E p \in Proc : undo[p] > 0 THEN CHOOSE p \in Proc : undo[p] > 0
          ELSE None

\* One token: it is in the semaphore, or owed to exactly one process, or not yet
\* made.  Neither the creation window, nor a death, nor a failed unlock makes a
\* second one.
OneToken ==
  /\ val <= 1
  /\ val = 1 => \A p \in Proc : undo[p] = 0
  /\ \A p, q \in Proc : undo[p] > 0 /\ undo[q] > 0 => p = q
  /\ \A p \in Proc : undo[p] <= 1

\* A process that ipc_lock told it has the lock really owns it until it unlocks.
HeldIsOwned == \A p \in Proc : pc[p] \in {"held", "unget", "post"} => undo[p] = 1

\* The semaphore implements the lock that lock.h promises.
M == INSTANCE Mutex WITH owner <- holder
ImplementsMutex == M!Spec

\* If no process keeps the lock for ever, a blocking call gets it (or dies): no
\* death of an owner blocks the others, because of SEM_UNDO.
LockGranted ==
  (\A q \in Proc : []<>(pc[q] # "held")) =>
    \A p \in Proc : pc[p] = "get" ~> pc[p] \in {"held", "idle"}

\* ipc_lock_timeout comes back, also when the owner never unlocks: "or times out"
\* (lock.h:50).
TimeoutReturns ==
  \A p \in Proc : pc[p] = "op" /\ kind[p] = "timeout" ~> pc[p] # "op"

Wanted == \E p \in Proc : pc[p] = "op"

\* ipc_lock waits only "until the owner releases it" (lock.h:25): a lock that
\* nobody owns is granted to somebody who wants it.
FreeLockIsGranted ==
  Wanted /\ holder = None ~> holder # None \/ ~Wanted
=============================================================================
