------------------------------- MODULE Mutex -------------------------------
(* What ipc_lock and ipc_unlock promise (utils/ipc/lock.h): one process at a *)
(* time owns a name, and only its own unlock, or its death, gives it up.     *)
CONSTANTS Proc, None
VARIABLE owner

Init == owner = None

Acquire(p) == owner = None /\ owner' = p
Release(p) == owner = p /\ owner' = None

Next == \E p \in Proc : Acquire(p) \/ Release(p)

Spec == Init /\ [][Next]_owner
=============================================================================
