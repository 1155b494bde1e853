------------------------------ MODULE Results ------------------------------
(***************************************************************************)
(* The memory of rows: who holds them, in which list they hang, and who    *)
(* frees them (result.c, the callbacks of sqlite3.c and mysql.c, and the   *)
(* calls of table.c that take rows out of a result).                       *)
(*                                                                         *)
(* Three lists: the result of the call that is running ("local"), the one  *)
(* of a caller of find_all ("theirs"), and the table's list of rows whose  *)
(* values db_get_value handed out ("values").  An address that was freed   *)
(* may be the next that malloc returns.                                    *)
(***************************************************************************)
EXTENDS ZList, Sequences, SequencesExt

CONSTANTS
  Row,       \* addresses
  MaxAnswer  \* bound on the rows of an answer

Heads == {"local", "theirs", "values"}

ASSUME ResultsAssumption ==
  /\ IsFiniteSet(Row) /\ Row \cap Heads = {}
  /\ NULL \notin Row \cup Heads
  /\ MaxAnswer \in Nat \ {0}

VARIABLES
  heap,    \* the links of the heads and of the rows
  live,    \* the rows that malloc gave out and nobody freed
  holds,   \* which row of the answer a live row is a copy of
  call,    \* the query that runs, or "free" for the loop that frees a list
  list,    \* the list it works on
  then,    \* the query that the loop is the end of
  pos, nx, \* the cursors of the loop
  row,     \* the row that find_first has taken out
  answer,  \* how many rows came for a result, and which of them found no memory
  held,    \* the rows that callers have from find_first
  lost     \* history: rows that the code gives up without freeing them

vars == <<heap, live, holds, call, list, then, pos, nx, row, answer, held, lost>>

Queries == {"find_first", "get_value", "count", "add", "find_all"}
NoAnswer == [come |-> 0, dropped |-> {}]
ListOf(q) == IF q = "find_all" THEN "theirs" ELSE "local"
Entries(l) == Along(heap.next, l)
In(l) == ToSet(Entries(l))

TypeOK ==
  /\ heap.next \in [Row \cup Heads \cup {NULL} -> Row \cup Heads \cup {NULL}]
  /\ heap.prev \in [Row \cup Heads \cup {NULL} -> Row \cup Heads \cup {NULL}]
  /\ heap.next[NULL] = NULL /\ heap.prev[NULL] = NULL
  /\ live \subseteq Row /\ held \subseteq Row /\ lost \subseteq Row
  /\ holds \in [Row -> 0..MaxAnswer]
  /\ call \in Queries \cup {"free", "none"}
  /\ list \in Heads \cup {"none"} /\ then \in Queries \cup {"none"}
  /\ {pos, nx} \subseteq Row \cup Heads \cup {NULL}
  /\ row \in Row \cup {NULL}
  /\ answer \in [{"local", "theirs"} -> [come : 0..MaxAnswer, dropped : SUBSET (1..MaxAnswer)]]

Init ==
  /\ LET self == [x \in Row \cup Heads \cup {NULL} |-> IF x \in Heads THEN x ELSE NULL]
     IN  heap = [next |-> self, prev |-> self]
  /\ live = {} /\ held = {} /\ lost = {}
  /\ holds = [r \in Row |-> 0]
  /\ call = "none" /\ list = "none" /\ then = "none"
  /\ pos = NULL /\ nx = NULL /\ row = NULL
  /\ answer = [l \in {"local", "theirs"} |-> NoAnswer]

-----------------------------------------------------------------------------
(* A query *)

\* db_result_init forgets what hangs in the list: a caller frees that first.
Query(q) ==
  /\ call = "none"
  /\ q = "find_all" => zlist_empty(heap, "theirs")
  /\ call' = q /\ list' = ListOf(q)
  /\ heap' = INIT_ZLIST(heap, ListOf(q))
  /\ answer' = [answer EXCEPT ![ListOf(q)] = NoAnswer]
  /\ UNCHANGED <<live, holds, then, pos, nx, row, held, lost>>

\* One row for a count and for the row of an id.  find_first asks for one too,
\* but a long value may push its LIMIT 1 out of the command; and add asks for the
\* new id once for each row of the table.
MoreComes ==
  /\ call \in Queries
  /\ answer[list].come < (IF call \in {"count", "get_value"} THEN 1 ELSE MaxAnswer)

Hang_Front(h, r) == zlist_add(h, r, list)
Hang(h, r) == zlist_add_tail(h, r, list)

\* The callback, once for each row of the answer.
Fetch ==
  /\ MoreComes
  /\ \E r \in Row \ live :
       /\ live' = live \cup {r}
       /\ heap' = Hang(heap, r)
       /\ holds' = [holds EXCEPT ![r] = answer[list].come + 1]
  /\ answer' = [answer EXCEPT ![list].come = @ + 1]
  /\ UNCHANGED <<call, list, then, pos, nx, row, held, lost>>

\* malloc fails: the row is left out, and the query goes on and succeeds.
FetchFails ==
  /\ MoreComes
  /\ answer' = [answer EXCEPT ![list] =
                  [come |-> @.come + 1, dropped |-> @.dropped \cup {@.come + 1}]]
  /\ UNCHANGED <<heap, live, holds, call, list, then, pos, nx, row, held, lost>>

\* A query that fails leaves the rows that had come: find_all's caller still has
\* the list, a local one is gone.
QueryFails ==
  /\ call \in Queries
  /\ lost' = IF list = "local" THEN lost \cup In(list) ELSE lost
  /\ heap' = IF list = "local" THEN INIT_ZLIST(heap, list) ELSE heap
  /\ answer' = IF list = "local" THEN [answer EXCEPT !["local"] = NoAnswer] ELSE answer
  /\ call' = "none" /\ list' = "none"
  /\ UNCHANGED <<live, holds, then, pos, nx, row, held>>

\* result.free, and the loop of db_free_values: zlist_foreach_entry_safe
First_Second(h, l) == h.next[h.next[l]]
First(h, l) == h.next[l]

StartFree(h, l, q) ==
  /\ heap' = h
  /\ call' = "free" /\ list' = l /\ then' = q
  /\ pos' = First(h, l) /\ nx' = h.next[First(h, l)]

FindAllEnds ==
  /\ call = "find_all"
  /\ call' = "none" /\ list' = "none"
  /\ UNCHANGED <<heap, live, holds, then, pos, nx, row, answer, held, lost>>

Taken_Hanging(h, r) == h
Taken(h, r) == zlist_del_init(h, r)

FindFirstEnds ==
  /\ call \in {"find_first", "get_value"}
  /\ \/ /\ zlist_empty(heap, "local")
        /\ StartFree(heap, "local", call)
        /\ UNCHANGED row
     \/ /\ ~zlist_empty(heap, "local")
        /\ row' = heap.next["local"]
        /\ StartFree(Taken(heap, row'), "local", call)
  /\ UNCHANGED <<live, holds, answer, held, lost>>

\* The number is read, and the result freed; also when add fails in the backup.
CountEnds ==
  /\ call \in {"count", "add"}
  /\ StartFree(heap, "local", call)
  /\ UNCHANGED <<live, holds, row, answer, held, lost>>

-----------------------------------------------------------------------------
(* Freeing *)

FreeResult ==
  /\ call = "none"
  /\ StartFree(heap, "theirs", "none")
  /\ UNCHANGED <<live, holds, row, answer, held, lost>>

FreeValues ==
  /\ call = "none"
  /\ StartFree(heap, "values", "none")
  /\ UNCHANGED <<live, holds, row, answer, held, lost>>

FreeOne ==
  /\ call = "free" /\ pos # list
  /\ heap' = zlist_del(heap, pos)
  /\ live' = live \ {pos}
  /\ holds' = [holds EXCEPT ![pos] = 0]
  /\ pos' = nx /\ nx' = heap'.next[nx]
  /\ UNCHANGED <<call, list, then, row, answer, held, lost>>

\* find_first has freed the rest and hands its row out.  db_get_value hangs it
\* into the table's list, with the two arguments of zlist_add_tail swapped: the
\* head goes before the row, and the rows that hung there are left behind.
Keeps_Unchecked == then = "get_value"
Keeps == then = "get_value" /\ row # NULL

FreeEnds ==
  /\ call = "free" /\ pos = list
  /\ heap' = IF Keeps THEN zlist_add_tail(heap, "values", row) ELSE heap
  /\ lost' = IF Keeps THEN lost \cup In("values") ELSE lost
  /\ held' = IF then = "find_first" THEN held \cup ({row} \ {NULL}) ELSE held
  /\ answer' = [l \in DOMAIN answer |-> IF l = list THEN NoAnswer ELSE answer[l]]
  /\ call' = "none" /\ list' = "none" /\ then' = "none"
  /\ pos' = NULL /\ nx' = NULL /\ row' = NULL
  /\ UNCHANGED <<live, holds>>

\* A caller frees a row of find_first.
FreeRow(r) ==
  /\ call = "none"
  /\ r \in held
  /\ held' = held \ {r} /\ live' = live \ {r}
  /\ holds' = [holds EXCEPT ![r] = 0]
  /\ UNCHANGED <<heap, call, list, then, pos, nx, row, answer, lost>>

\* cgi_index returns without freeing its result.
Abandon ==
  /\ call = "none"
  /\ lost' = lost \cup In("theirs")
  /\ heap' = INIT_ZLIST(heap, "theirs")
  /\ answer' = [answer EXCEPT !["theirs"] = NoAnswer]
  /\ UNCHANGED <<live, holds, call, list, then, pos, nx, row, held>>

Next ==
  \/ \E q \in Queries : Query(q)
  \/ Fetch \/ FetchFails \/ QueryFails
  \/ FindAllEnds \/ FindFirstEnds \/ CountEnds
  \/ FreeResult \/ FreeValues \/ FreeOne \/ FreeEnds
  \/ \E r \in Row : FreeRow(r)
  \/ Abandon

Spec == Init /\ [][Next]_vars

-----------------------------------------------------------------------------
(* Properties *)

Kept(l) == (1..answer[l].come) \ answer[l].dropped

\* A caller of find_all finds the rows of the answer in the order in which the
\* database gave them, forwards (db_foreach_result) and backwards (..._reverse),
\* without those for which there was no memory; find_first takes the first of
\* them; and what other calls do with their results changes none of it.
RowsInOrder ==
  /\ \A l \in {"local", "theirs"} :
       (call = "free" => list # l) =>
         /\ {holds[r] : r \in ToSet(Entries(l))} = Kept(l)
         /\ \A i, j \in DOMAIN Entries(l) : i < j => holds[Entries(l)[i]] < holds[Entries(l)[j]]
         /\ Along(heap.prev, l) = Reverse(Entries(l))
  /\ row # NULL => holds[row] \in Kept("local") /\ \A k \in Kept("local") : holds[row] <= k

\* Nobody has a pointer to a row that was freed: callers, the three lists and the
\* cursors of the loop that frees one; and no row is in two places, from where
\* it would be freed twice.
NothingDangling ==
  /\ held \subseteq live
  /\ row # NULL => row \in live /\ row \notin held
  /\ call = "free" => {pos, nx} \subseteq live \cup Heads
  /\ \A l \in Heads :
       /\ \A x \in In(l) \cup {l} : {heap.next[x], heap.prev[x]} \subseteq live \cup Heads
       /\ In(l) \cap (held \cup {row} \cup Heads) = {}
       /\ \A m \in Heads \ {l} : In(l) \cap In(m) = {}

\* Every row that was allocated is with a caller or in a list, where the next call
\* to free it finds it, except those that the code gives up: the rows of a failed
\* query, of a result that its caller abandons, and of db_get_value when it is
\* called again before db_free_values.
NothingLost ==
  live = held \cup ({row} \ {NULL}) \cup (UNION {In(l) : l \in Heads}) \cup lost
=============================================================================
