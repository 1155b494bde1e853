----------------------------- MODULE MCResults -----------------------------
EXTENDS Results, TLC
\* The addresses that malloc returns differ in nothing.
Alike == Permutations(Row)
=============================================================================
