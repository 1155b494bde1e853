------------------------------- MODULE MCSite -------------------------------
(* Two browsers, two titles, blogs up to id 2. *)
EXTENDS Site, TLC
CONSTANTS b1, b2, x, y
MCValue == Title \cup 0 .. MaxTime
Alike == Permutations({b1, b2}) \cup Permutations({x, y})
=============================================================================
