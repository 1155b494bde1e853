----------------------------- MODULE MCDbBackup -----------------------------
(* DbBackup on small sets: up to two threads of process p1, one of p2. *)
EXTENDS DbBackup, TLC

CONSTANTS p1, p2, t1, t2, t3, c1, c2, c3

MCProcOf == [t \in Thread |-> IF t = t3 THEN p2 ELSE p1]

ChangesAlike == Permutations(Change)
=============================================================================
