------------------------------- MODULE ZList -------------------------------
(***************************************************************************)
(* list.h: circular doubly linked lists whose links lie in the entries.    *)
(* A heap h gives the two pointers of every node; the head is a node like  *)
(* the entries.  Every function of list.h writes its pointers in pairs,    *)
(* a.next = b with b.prev = a: Link is such a pair, and the pairs are in   *)
(* the order of the code, which matters when two of the nodes are one.     *)
(***************************************************************************)
EXTENDS Integers, FiniteSets

CONSTANT NULL

Link(h, a, b) == [next |-> [h.next EXCEPT ![a] = b], prev |-> [h.prev EXCEPT ![b] = a]]

INIT_ZLIST(h, x) == Link(h, x, x)

\* __zff_list_add, and its two callers
Between(h, new, prev, next) == Link(Link(h, new, next), prev, new)
zlist_add(h, new, head) == Between(h, new, head, h.next[head])
zlist_add_tail(h, new, head) == Between(h, new, h.prev[head], head)

\* __zff_list_del: the neighbours point to each other.
Unlink(h, x) == Link(h, h.prev[x], h.next[x])

zlist_del(h, x) ==
  LET u == Unlink(h, x)
  IN  [next |-> [u.next EXCEPT ![x] = NULL], prev |-> [u.prev EXCEPT ![x] = NULL]]

zlist_del_init(h, x) == INIT_ZLIST(Unlink(h, x), x)

\* The second read of old.prev comes after the first pair was written.
zlist_replace(h, old, new) ==
  LET g == Link(h, new, h.next[old]) IN Link(g, g.prev[old], new)

zlist_replace_init(h, old, new) == INIT_ZLIST(zlist_replace(h, old, new), old)

zlist_move(h, x, head) == zlist_add(Unlink(h, x), x, head)
zlist_move_tail(h, x, head) == zlist_add_tail(Unlink(h, x), x, head)

zlist_is_last(h, x, head) == h.next[x] = head
zlist_empty(h, head) == h.next[head] = head
zlist_is_singular(h, head) == ~zlist_empty(h, head) /\ h.next[head] = h.prev[head]

zlist_rotate_left(h, head) ==
  IF zlist_empty(h, head) THEN h ELSE zlist_move_tail(h, h.next[head], head)

\* What head holds up to and with x goes to list.
zlist_cut_position(h, list, head, x) ==
  IF zlist_empty(h, head) \/ (zlist_is_singular(h, head) /\ h.next[head] # x /\ head # x)
  THEN h
  ELSE IF x = head THEN INIT_ZLIST(h, list)
  ELSE Link(Link(Link(h, list, h.next[head]), x, list), head, h.next[x])

\* __zff_list_splice
Inserted(h, list, prev, next) == Link(Link(h, prev, h.next[list]), h.prev[list], next)

zlist_splice(h, list, head) ==
  IF zlist_empty(h, list) THEN h ELSE Inserted(h, list, head, h.next[head])

zlist_splice_tail(h, list, head) ==
  IF zlist_empty(h, list) THEN h ELSE Inserted(h, list, h.prev[head], head)

zlist_splice_init(h, list, head) ==
  IF zlist_empty(h, list) THEN h ELSE INIT_ZLIST(zlist_splice(h, list, head), list)

zlist_splice_tail_init(h, list, head) ==
  IF zlist_empty(h, list) THEN h ELSE INIT_ZLIST(zlist_splice_tail(h, list, head), list)

\* The entries that zlist_foreach_entry (link = next) or ..._reverse (prev)
\* visits, in that order; a walk that does not come back to head is cut off.
Along(link, head) ==
  LET at[k \in Nat] == IF k = 0 THEN head ELSE link[at[k - 1]]
      size == Cardinality(DOMAIN link)
      n == CHOOSE k \in 0..size :
             /\ k = size \/ at[k + 1] = head
             /\ \A i \in 1..k : at[i] # head
  IN  [k \in 1..n |-> at[k]]

-----------------------------------------------------------------------------
(* The nodes c[0], ..., c[n] are one list, c[0] its head. *)

Linked(h, a, b) == h.next[a] = b /\ h.prev[b] = a

Cycle(h, c, n) ==
  /\ \A i, j \in 0..n : c[i] = c[j] => i = j
  /\ \A i \in 0..(n - 1) : Linked(h, c[i], c[i + 1])
  /\ Linked(h, c[n], c[0])
=============================================================================
