---------------------------- MODULE MCTableApi ----------------------------
(* Two threads, one unique column of two values, ids up to 2 in base 2. *)
EXTENDS TableApi, TLC
CONSTANTS t1, t2, x, y
\* answer and way only say what the step was.
State == <<engine, base, work, undo, owner, torn>>
Alike == Permutations({t1, t2}) \cup Permutations({x, y})
=============================================================================
