------------------------------ MODULE RowStore ------------------------------
(***************************************************************************)
(* What table.h promises of one table: each call does all of what it says  *)
(* and answers success, or does nothing and answers failure; lock() opens  *)
(* a transaction, and rollback(), a failure or a crash takes all of it     *)
(* back.  What a call means for the rows is a parameter: Meaning of Rows.  *)
(***************************************************************************)

CONSTANTS
  Meaning(_, _),  \* the rows after a call, or Failed
  Failed,
  NoRows,         \* the empty table
  NoAnswer        \* this step was no call

VARIABLES
  table,   \* the rows
  saved,   \* the rows at the last commit
  open,    \* between lock() and unlock()
  answer   \* the call that this step was, and whether it succeeded

Do(op) ==
  /\ Meaning(op, table) # Failed
  /\ table' = Meaning(op, table)
  /\ saved' = IF open THEN saved ELSE table'
  /\ answer' = [op |-> op, ok |-> TRUE]
  /\ UNCHANGED open

\* A call that fails may take the transaction around it back.
Refuse(op) ==
  /\ table' \in {table, saved}
  /\ answer' = [op |-> op, ok |-> FALSE]
  /\ UNCHANGED <<saved, open>>

Begin == ~open /\ open' /\ UNCHANGED <<table, saved>>
Commit == open /\ ~open' /\ saved' = table /\ UNCHANGED table
RollBack == table' = saved /\ open' \in {open, FALSE} /\ UNCHANGED saved

Next ==
  \/ answer' # NoAnswer /\ (Do(answer'.op) \/ Refuse(answer'.op))
  \/ answer' = NoAnswer /\ (Begin \/ Commit \/ RollBack \/ UNCHANGED <<table, saved, open>>)

Init == table = NoRows /\ saved = NoRows /\ ~open /\ answer = NoAnswer

Spec == Init /\ [][Next]_<<table, saved, open, answer>>
=============================================================================
