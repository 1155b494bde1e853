---------------------------- MODULE MCTableInit ----------------------------
(* Two processes, a version that replaces one column, and one that drops it. *)
EXTENDS TableInit, TLC

CONSTANTS p1, p2, v1, v2, v3, a, b, c

MCColsOf == v1 :> <<a, b>> @@ v2 :> <<a, c>> @@ v3 :> <<a>>

Alike == Permutations({p1, p2})
=============================================================================
