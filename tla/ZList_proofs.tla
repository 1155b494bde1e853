---------------------------- MODULE ZList_proofs ----------------------------
(***************************************************************************)
(* What the operations of list.h do to a list, whatever its length and     *)
(* whatever else the heap holds.                                           *)
(***************************************************************************)
EXTENDS ZList, FiniteSetTheorems, WellFoundedInduction, TLAPS

Heap(Node) == [next : [Node -> Node], prev : [Node -> Node]]

\* c with x put in at place k, and with the entry at place k taken out
With(c, n, k, x) ==
  [i \in 0..(n + 1) |-> IF i < k THEN c[i] ELSE IF i = k THEN x ELSE c[i - 1]]

Without(c, n, k) == [i \in 0..(n - 1) |-> IF i < k THEN c[i] ELSE c[i + 1]]

\* the place after i in a list of n entries, where the head comes after the last
After(n, i) == IF i = n THEN 0 ELSE i + 1

-----------------------------------------------------------------------------
(* One pair of pointers *)

\* A pair of pointers leaves a heap.
LEMMA LinkInHeap ==
  ASSUME NEW Node, NEW h \in Heap(Node), NEW a \in Node, NEW b \in Node
  PROVE  Link(h, a, b) \in Heap(Node)
BY DEF Link, Heap

\* It links its two nodes.
LEMMA LinkMakes ==
  ASSUME NEW Node, NEW h \in Heap(Node), NEW a \in Node, NEW b \in Node
  PROVE  Linked(Link(h, a, b), a, b)
BY DEF Link, Linked, Heap

\* It keeps every link that starts and ends elsewhere.
LEMMA LinkKeeps ==
  ASSUME NEW Node, NEW h \in Heap(Node), NEW a \in Node, NEW b \in Node,
         NEW p \in Node, NEW q \in Node, p # a, q # b, Linked(h, p, q)
  PROVE  Linked(Link(h, a, b), p, q)
BY DEF Link, Linked, Heap

\* The three conjuncts of Cycle as one: every place is linked to the one after it.
LEMMA CycleIs ==
  ASSUME NEW h, NEW n \in Nat, NEW c
  PROVE  Cycle(h, c, n) <=> /\ \A i, j \in 0..n : c[i] = c[j] => i = j
                            /\ \A i \in 0..n : Linked(h, c[i], c[After(n, i)])
<1>1. ASSUME \A i \in 0..(n - 1) : Linked(h, c[i], c[i + 1]), Linked(h, c[n], c[0]), NEW i \in 0..n
      PROVE  Linked(h, c[i], c[After(n, i)])
  BY <1>1 DEF After
<1>2. ASSUME \A i \in 0..n : Linked(h, c[i], c[After(n, i)])
      PROVE  (\A i \in 0..(n - 1) : Linked(h, c[i], c[i + 1])) /\ Linked(h, c[n], c[0])
  BY <1>2 DEF After
<1> QED BY <1>1, <1>2 DEF Cycle

-----------------------------------------------------------------------------
(* The operations *)

\* INIT_ZLIST makes a list of nothing but its head.
THEOREM InitIsEmpty ==
  ASSUME NEW Node, NEW h \in Heap(Node), NEW x \in Node
  PROVE  Cycle(INIT_ZLIST(h, x), [i \in 0..0 |-> x], 0)
BY LinkMakes DEF Cycle, INIT_ZLIST

\* __zff_list_add between two neighbours: one more entry, the others in their order.
LEMMA BetweenPuts ==
  ASSUME NEW Node, NEW h \in Heap(Node),
         NEW n \in Nat, NEW c \in [0..n -> Node], Cycle(h, c, n),
         NEW x \in Node, \A i \in 0..n : c[i] # x,
         NEW k \in 1..(n + 1)
  PROVE  Cycle(Between(h, x, c[k - 1], c[After(n, k - 1)]), With(c, n, k, x), n + 1)
<1> DEFINE nx == c[After(n, k - 1)]
           g == Link(h, x, nx)
           d == With(c, n, k, x)
<1>1. nx \in Node /\ c[k - 1] \in Node
  BY DEF After
<1>2. /\ g \in Heap(Node) /\ Linked(g, x, nx)
      /\ Linked(Link(g, c[k - 1], x), c[k - 1], x)
  BY <1>1, LinkInHeap, LinkMakes
<1>3. x # c[k - 1] /\ nx # x
  BY DEF After
<1>4. Linked(Link(g, c[k - 1], x), x, nx)
  BY <1>1, <1>2, <1>3, LinkKeeps
<1>5. ASSUME NEW i \in 0..n, i # k - 1
      PROVE  Linked(Link(g, c[k - 1], x), c[i], c[After(n, i)])
  <2>1. c[i] \in Node /\ c[After(n, i)] \in Node /\ Linked(h, c[i], c[After(n, i)])
    <3>1. Linked(h, c[i], c[After(n, i)])
      BY CycleIs
    <3> QED BY <3>1 DEF After
  <2>2. c[i] # x /\ c[After(n, i)] # x
    BY DEF After
  <2>3. c[i] # c[k - 1] /\ c[After(n, i)] # nx
    BY <1>5 DEF After, Cycle
  <2>4. Linked(g, c[i], c[After(n, i)])
    BY <1>1, <2>1, <2>2, <2>3, LinkKeeps
  <2> QED BY <1>1, <1>2, <2>1, <2>2, <2>3, <2>4, LinkKeeps
<1>6. \A i \in 0..(n + 1) : d[i] = (IF i < k THEN c[i] ELSE IF i = k THEN x ELSE c[i - 1])
  BY DEF With
<1>7. \A i, j \in 0..(n + 1) : d[i] = d[j] => i = j
  BY <1>6 DEF Cycle
<1>8. ASSUME NEW i \in 0..(n + 1)
      PROVE  Linked(Link(g, c[k - 1], x), d[i], d[After(n + 1, i)])
  <2> HIDE DEF g
  <2>1. CASE i = k - 1
    BY <2>1, <1>2, <1>6 DEF After
  <2>2. CASE i = k
    BY <2>2, <1>4, <1>6 DEF After
  <2>3. CASE i < k - 1
    <3>1. d[i] = c[i] /\ d[After(n + 1, i)] = c[After(n, i)]
      BY <2>3, <1>6 DEF After
    <3> QED BY <2>3, <3>1, <1>5
  <2>4. CASE i > k
    <3>1. d[i] = c[i - 1] /\ d[After(n + 1, i)] = c[After(n, i - 1)]
      BY <2>4, <1>6 DEF After
    <3> QED BY <2>4, <3>1, <1>5
  <2> QED BY <2>1, <2>2, <2>3, <2>4
<1> HIDE DEF d
<1>9. Cycle(Link(g, c[k - 1], x), d, n + 1)
  BY <1>7, <1>8, CycleIs
<1> QED BY <1>9 DEF Between, d, g

\* A heap that differs only outside the list still holds the list.
LEMMA ElsewhereKeeps ==
  ASSUME NEW h, NEW g, NEW n \in Nat, NEW c, Cycle(h, c, n),
         \A i \in 0..n : g.next[c[i]] = h.next[c[i]] /\ g.prev[c[i]] = h.prev[c[i]]
  PROVE  Cycle(g, c, n)
BY DEF Cycle, Linked

\* A pair of nodes outside a list leaves the list alone.
LEMMA AsideKeeps ==
  ASSUME NEW Node, NEW h \in Heap(Node),
         NEW n \in Nat, NEW c \in [0..n -> Node], Cycle(h, c, n),
         NEW a \in Node, NEW b \in Node, \A i \in 0..n : c[i] # a /\ c[i] # b
  PROVE  Cycle(Link(h, a, b), c, n)
<1>1. \A i \in 0..n : c[i] \in Node
  OBVIOUS
<1>2. \A i \in 0..n : /\ Link(h, a, b).next[c[i]] = h.next[c[i]]
                      /\ Link(h, a, b).prev[c[i]] = h.prev[c[i]]
  BY <1>1 DEF Link, Heap
<1> HIDE DEF Link
<1> QED BY <1>2, ElsewhereKeeps

\* zlist_add: the new entry is the first.
THEOREM AddPutsFirst ==
  ASSUME NEW Node, NEW h \in Heap(Node),
         NEW n \in Nat, NEW c \in [0..n -> Node], Cycle(h, c, n),
         NEW x \in Node, \A i \in 0..n : c[i] # x
  PROVE  Cycle(zlist_add(h, x, c[0]), With(c, n, 1, x), n + 1)
<1>1. h.next[c[0]] = c[After(n, 0)]
  BY CycleIs DEF Linked
<1>2. Cycle(Between(h, x, c[1 - 1], c[After(n, 1 - 1)]), With(c, n, 1, x), n + 1)
  BY BetweenPuts, 1 \in 1..(n + 1)
<1> QED BY <1>1, <1>2 DEF zlist_add

\* zlist_add_tail: the new entry is the last.
THEOREM AddTailPutsLast ==
  ASSUME NEW Node, NEW h \in Heap(Node),
         NEW n \in Nat, NEW c \in [0..n -> Node], Cycle(h, c, n),
         NEW x \in Node, \A i \in 0..n : c[i] # x
  PROVE  Cycle(zlist_add_tail(h, x, c[0]), With(c, n, n + 1, x), n + 1)
<1>1. h.prev[c[0]] = c[n]
  BY DEF Cycle, Linked
<1>2. Cycle(Between(h, x, c[(n + 1) - 1], c[After(n, (n + 1) - 1)]), With(c, n, n + 1, x), n + 1)
  BY BetweenPuts, n + 1 \in 1..(n + 1)
<1>3. (n + 1) - 1 = n /\ After(n, n) = 0
  BY DEF After
<1> QED BY <1>1, <1>2, <1>3 DEF zlist_add_tail

\* Passing a node by leaves a heap.
LEMMA UnlinkInHeap ==
  ASSUME NEW Node, NEW h \in Heap(Node), NEW x \in Node
  PROVE  Unlink(h, x) \in Heap(Node)
<1>1. h.prev[x] \in Node /\ h.next[x] \in Node
  BY DEF Heap
<1>2. Link(h, h.prev[x], h.next[x]) \in Heap(Node)
  BY <1>1, LinkInHeap
<1> QED BY <1>2 DEF Unlink

\* __zff_list_del: the list goes on without the entry.
LEMMA UnlinkTakes ==
  ASSUME NEW Node, NEW h \in Heap(Node),
         NEW n \in Nat, NEW c \in [0..n -> Node], Cycle(h, c, n),
         NEW k \in 1..n
  PROVE  Cycle(Unlink(h, c[k]), Without(c, n, k), n - 1)
<1> DEFINE nx == c[After(n, k)]
           g == Link(h, c[k - 1], nx)
           d == Without(c, n, k)
<1>1. nx \in Node /\ c[k - 1] \in Node /\ n - 1 \in Nat
  BY DEF After
<1>2. Unlink(h, c[k]) = g
  <2>1. Linked(h, c[k - 1], c[k])
    BY DEF Cycle
  <2>2. Linked(h, c[k], nx)
    BY CycleIs, k \in 0..n
  <2> QED BY <2>1, <2>2 DEF Unlink, Linked
<1>3. Linked(g, c[k - 1], nx)
  BY <1>1, LinkMakes
<1>4. ASSUME NEW i \in 0..n, i # k - 1, i # k PROVE Linked(g, c[i], c[After(n, i)])
  <2>1. Linked(h, c[i], c[After(n, i)])
    BY CycleIs
  <2>2. c[i] \in Node /\ c[After(n, i)] \in Node
    BY DEF After
  <2>3. c[i] # c[k - 1] /\ c[After(n, i)] # nx
    BY <1>4 DEF After, Cycle
  <2> QED BY <1>1, <2>1, <2>2, <2>3, LinkKeeps
<1>5. \A i \in 0..(n - 1) : d[i] = (IF i < k THEN c[i] ELSE c[i + 1])
  BY DEF Without
<1>6. \A i, j \in 0..(n - 1) : d[i] = d[j] => i = j
  BY <1>5 DEF Cycle
<1>7. ASSUME NEW i \in 0..(n - 1) PROVE Linked(g, d[i], d[After(n - 1, i)])
  <2> HIDE DEF g
  <2>1. CASE i = k - 1
    BY <2>1, <1>3, <1>5 DEF After
  <2>2. CASE i < k - 1
    <3>1. d[i] = c[i] /\ d[After(n - 1, i)] = c[After(n, i)]
      BY <2>2, <1>5 DEF After
    <3> QED BY <2>2, <3>1, <1>4
  <2>3. CASE i >= k
    <3>1. d[i] = c[i + 1] /\ d[After(n - 1, i)] = c[After(n, i + 1)]
      BY <2>3, <1>5 DEF After
    <3> QED BY <2>3, <3>1, <1>4
  <2> QED BY <2>1, <2>2, <2>3
<1> HIDE DEF d, g
<1>8. Cycle(g, d, n - 1)
  BY <1>1, <1>6, <1>7, CycleIs
<1> QED BY <1>2, <1>8 DEF d

\* zlist_del: the entry is out of the list, whose other entries stay in order.
THEOREM DelTakesOut ==
  ASSUME NEW Node, NULL \in Node, NEW h \in Heap(Node),
         NEW n \in Nat, NEW c \in [0..n -> Node], Cycle(h, c, n),
         NEW k \in 1..n
  PROVE  Cycle(zlist_del(h, c[k]), Without(c, n, k), n - 1)
<1> DEFINE u == Unlink(h, c[k])
           d == Without(c, n, k)
<1>1. Cycle(u, d, n - 1) /\ n - 1 \in Nat
  BY UnlinkTakes
<1>2. \A i \in 0..(n - 1) : d[i] # c[k] /\ d[i] \in Node
  BY DEF Without, Cycle
<1>3. u \in Heap(Node) /\ c[k] \in Node
  BY UnlinkInHeap
<1> HIDE DEF u, d
<1> DEFINE g == [next |-> [u.next EXCEPT ![c[k]] = NULL], prev |-> [u.prev EXCEPT ![c[k]] = NULL]]
<1>4. \A i \in 0..(n - 1) : g.next[d[i]] = u.next[d[i]] /\ g.prev[d[i]] = u.prev[d[i]]
  BY <1>2, <1>3 DEF Heap
<1> HIDE DEF g
<1>5. Cycle(g, d, n - 1)
  BY <1>1, <1>4, ElsewhereKeeps
<1> QED BY <1>5 DEF zlist_del, u, d, g

\* zlist_del_init: so too, and the entry is an empty list of its own.
THEOREM DelInitTakesOut ==
  ASSUME NEW Node, NEW h \in Heap(Node),
         NEW n \in Nat, NEW c \in [0..n -> Node], Cycle(h, c, n),
         NEW k \in 1..n
  PROVE  /\ Cycle(zlist_del_init(h, c[k]), Without(c, n, k), n - 1)
         /\ Cycle(zlist_del_init(h, c[k]), [i \in 0..0 |-> c[k]], 0)
<1> DEFINE u == Unlink(h, c[k])
           d == Without(c, n, k)
<1>1. Cycle(u, d, n - 1) /\ n - 1 \in Nat
  BY UnlinkTakes
<1>2. (\A i \in 0..(n - 1) : d[i] # c[k]) /\ d \in [0..(n - 1) -> Node]
  BY DEF Without, Cycle
<1>3. u \in Heap(Node) /\ c[k] \in Node
  BY UnlinkInHeap
<1> HIDE DEF u, d
<1>4. Cycle(Link(u, c[k], c[k]), d, n - 1)
  BY <1>1, <1>2, <1>3, AsideKeeps
<1>5. Cycle(INIT_ZLIST(u, c[k]), [i \in 0..0 |-> c[k]], 0)
  BY <1>3, InitIsEmpty
<1> QED BY <1>4, <1>5 DEF zlist_del_init, INIT_ZLIST, u, d

\* zlist_replace: the new entry stands in the old one's place.
THEOREM ReplaceStandsIn ==
  ASSUME NEW Node, NEW h \in Heap(Node),
         NEW n \in Nat, NEW c \in [0..n -> Node], Cycle(h, c, n),
         NEW x \in Node, \A i \in 0..n : c[i] # x,
         NEW k \in 0..n
  PROVE  Cycle(zlist_replace(h, c[k], x), [c EXCEPT ![k] = x], n)
<1> DEFINE nx == c[After(n, k)]
           g == Link(h, x, nx)
           pv == g.prev[c[k]]
           d == [c EXCEPT ![k] = x]
<1>1. nx \in Node /\ c[k] \in Node /\ h.next[c[k]] = nx /\ nx # x
  <2>1. Linked(h, c[k], nx)
    BY CycleIs
  <2> QED BY <2>1 DEF After, Linked
<1>2. g \in Heap(Node) /\ Linked(g, x, nx)
  BY <1>1, LinkInHeap, LinkMakes
<1>3. pv \in Node /\ (n = 0 => pv = x) /\ (n # 0 => \E j \in 0..n : After(n, j) = k /\ pv = c[j] /\ j # k)
  <2>1. pv \in Node
    BY <1>1, <1>2 DEF Heap
  <2>2. n = 0 => pv = x
    BY <1>1 DEF Link, Heap, After
  <2>3. ASSUME n # 0 PROVE \E j \in 0..n : After(n, j) = k /\ pv = c[j] /\ j # k
    <3> DEFINE j == IF k = 0 THEN n ELSE k - 1
    <3>1. j \in 0..n /\ After(n, j) = k /\ j # k
      BY <2>3 DEF After
    <3>2. Linked(h, c[j], c[k])
      BY <3>1, CycleIs
    <3>3. nx # c[k]
      BY <2>3 DEF After, Cycle
    <3>4. g.prev[c[k]] = h.prev[c[k]]
      BY <1>1, <3>3 DEF Link, Heap
    <3> QED BY <3>1, <3>2, <3>4 DEF Linked
  <2> QED BY <2>1, <2>2, <2>3
<1>4. zlist_replace(h, c[k], x) = Link(g, pv, x)
  BY <1>1 DEF zlist_replace
<1>5. Linked(Link(g, pv, x), pv, x)
  BY <1>2, <1>3, LinkMakes
<1> HIDE DEF g, pv
<1>6. \A i \in 0..n : d[i] = IF i = k THEN x ELSE c[i]
  OBVIOUS
<1>7. \A i, j \in 0..n : d[i] = d[j] => i = j
  BY <1>6 DEF Cycle
<1>8. ASSUME NEW i \in 0..n PROVE Linked(Link(g, pv, x), d[i], d[After(n, i)])
  <2>1. CASE n = 0
    BY <2>1, <1>3, <1>5, <1>6 DEF After
  <2>2. CASE n # 0
    <3>1. PICK j \in 0..n : After(n, j) = k /\ pv = c[j] /\ j # k
      BY <2>2, <1>3
    <3>2. CASE i = j
      BY <3>1, <3>2, <1>5, <1>6
    <3>3. CASE i = k
      <4>1. d[i] = x /\ d[After(n, i)] = nx
        BY <2>2, <3>3, <1>6 DEF After
      <4>2. pv # x
        BY <3>1
      <4>3. Linked(Link(g, pv, x), x, nx)
        BY <1>1, <1>2, <1>3, <4>2, LinkKeeps
      <4> QED BY <4>1, <4>3
    <3>4. CASE i # j /\ i # k
      <4>1. d[i] = c[i] /\ d[After(n, i)] = c[After(n, i)] /\ c[i] \in Node /\ c[After(n, i)] \in Node
        BY <3>1, <3>4, <1>6 DEF After
      <4>2. Linked(h, c[i], c[After(n, i)])
        BY CycleIs
      <4>3. c[i] # x /\ c[After(n, i)] # x /\ c[i] # pv /\ c[After(n, i)] # nx
        BY <3>1, <3>4 DEF After, Cycle
      <4>4. Linked(g, c[i], c[After(n, i)])
        BY <1>1, <4>1, <4>2, <4>3, LinkKeeps DEF g
      <4>5. Linked(Link(g, pv, x), c[i], c[After(n, i)])
        BY <1>2, <1>3, <4>1, <4>3, <4>4, LinkKeeps
      <4> QED BY <4>1, <4>5
    <3> QED BY <3>2, <3>3, <3>4
  <2> QED BY <2>1, <2>2
<1> HIDE DEF d
<1>9. Cycle(Link(g, pv, x), d, n)
  BY <1>7, <1>8, CycleIs
<1> QED BY <1>4, <1>9 DEF d

\* c with the entries of the list e, which has m of them, put in at place k
Joined(c, n, k, e, m) ==
  [i \in 0..(n + m) |-> IF i < k THEN c[i] ELSE IF i < k + m THEN e[i - k + 1] ELSE c[i - m]]

\* __zff_list_splice: all entries of the other list, in their order, between two neighbours.
LEMMA InsertedJoins ==
  ASSUME NEW Node, NEW h \in Heap(Node),
         NEW n \in Nat, NEW c \in [0..n -> Node], Cycle(h, c, n),
         NEW m \in Nat \ {0}, NEW e \in [0..m -> Node], Cycle(h, e, m),
         \A i \in 0..n, j \in 0..m : c[i] # e[j],
         NEW k \in 1..(n + 1)
  PROVE  Cycle(Inserted(h, e[0], c[k - 1], c[After(n, k - 1)]), Joined(c, n, k, e, m), n + m)
<1> DEFINE nx == c[After(n, k - 1)]
           g == Link(h, c[k - 1], e[1])
           f == Link(g, e[m], nx)
           d == Joined(c, n, k, e, m)
<1>1. /\ nx \in Node /\ c[k - 1] \in Node /\ e[1] \in Node /\ e[m] \in Node
      /\ c[k - 1] # e[m] /\ e[1] # nx
  BY DEF After
<1>2. Inserted(h, e[0], c[k - 1], nx) = f
  <2>1. Linked(h, e[0], e[1]) /\ Linked(h, e[m], e[0])
    BY DEF Cycle
  <2> QED BY <2>1 DEF Inserted, Linked
<1>3. g \in Heap(Node) /\ Linked(g, c[k - 1], e[1]) /\ Linked(f, e[m], nx)
  BY <1>1, LinkInHeap, LinkMakes
<1>4. Linked(f, c[k - 1], e[1])
  BY <1>1, <1>3, LinkKeeps
<1>5. ASSUME NEW i \in 0..n, i # k - 1 PROVE Linked(f, c[i], c[After(n, i)])
  <2>1. Linked(h, c[i], c[After(n, i)])
    BY CycleIs
  <2>2. /\ c[i] \in Node /\ c[After(n, i)] \in Node
        /\ c[i] # e[m] /\ c[After(n, i)] # e[1]
    BY DEF After
  <2>3. c[i] # c[k - 1] /\ c[After(n, i)] # nx
    BY <1>5 DEF After, Cycle
  <2>4. Linked(g, c[i], c[After(n, i)])
    BY <1>1, <2>1, <2>2, <2>3, LinkKeeps
  <2> QED BY <1>1, <1>3, <2>2, <2>3, <2>4, LinkKeeps
<1>6. ASSUME NEW i \in 1..(m - 1) PROVE Linked(f, e[i], e[i + 1])
  <2>1. Linked(h, e[i], e[i + 1])
    BY DEF Cycle
  <2>2. /\ e[i] \in Node /\ e[i + 1] \in Node
        /\ e[i] # c[k - 1] /\ e[i + 1] # nx
    BY DEF After
  <2>3. e[i] # e[m] /\ e[i + 1] # e[1]
    BY DEF Cycle
  <2>4. Linked(g, e[i], e[i + 1])
    BY <1>1, <2>1, <2>2, <2>3, LinkKeeps
  <2> QED BY <1>1, <1>3, <2>2, <2>3, <2>4, LinkKeeps
<1> HIDE DEF g, f
<1>7. \A i \in 0..(n + m) : d[i] = (IF i < k THEN c[i] ELSE IF i < k + m THEN e[i - k + 1] ELSE c[i - m])
  BY DEF Joined
<1>8. ASSUME NEW i \in 0..(n + m), NEW j \in 0..(n + m), d[i] = d[j] PROVE i = j
  <2>1. CASE i < k
    BY <2>1, <1>7, <1>8 DEF Cycle
  <2>2. CASE i >= k /\ i < k + m
    BY <2>2, <1>7, <1>8 DEF Cycle
  <2>3. CASE i >= k + m
    BY <2>3, <1>7, <1>8 DEF Cycle
  <2> QED BY <2>1, <2>2, <2>3
<1>9. ASSUME NEW i \in 0..(n + m) PROVE Linked(f, d[i], d[After(n + m, i)])
  <2>1. CASE i = k - 1
    BY <2>1, <1>4, <1>7 DEF After
  <2>2. CASE i < k - 1
    <3>1. d[i] = c[i] /\ d[After(n + m, i)] = c[After(n, i)]
      BY <2>2, <1>7 DEF After
    <3> QED BY <2>2, <3>1, <1>5
  <2>3. CASE i >= k /\ i < k + m - 1
    <3>1. d[i] = e[i - k + 1] /\ d[After(n + m, i)] = e[(i - k + 1) + 1]
      BY <2>3, <1>7 DEF After
    <3> QED BY <2>3, <3>1, <1>6
  <2>4. CASE i = k + m - 1
    <3>1. d[i] = e[m] /\ d[After(n + m, i)] = nx
      BY <2>4, <1>7 DEF After
    <3> QED BY <3>1, <1>3
  <2>5. CASE i >= k + m
    <3>1. d[i] = c[i - m] /\ d[After(n + m, i)] = c[After(n, i - m)]
      BY <2>5, <1>7 DEF After
    <3> QED BY <2>5, <3>1, <1>5
  <2> QED BY <2>1, <2>2, <2>3, <2>4, <2>5
<1> HIDE DEF d
<1>10. n + m \in Nat /\ Cycle(f, d, n + m)
  BY <1>8, <1>9, CycleIs
<1> QED BY <1>2, <1>10 DEF d

\* zlist_splice and zlist_splice_tail: the other list's entries come first, or last.
THEOREM SpliceJoins ==
  ASSUME NEW Node, NEW h \in Heap(Node),
         NEW n \in Nat, NEW c \in [0..n -> Node], Cycle(h, c, n),
         NEW m \in Nat \ {0}, NEW e \in [0..m -> Node], Cycle(h, e, m),
         \A i \in 0..n, j \in 0..m : c[i] # e[j]
  PROVE  /\ Cycle(zlist_splice(h, e[0], c[0]), Joined(c, n, 1, e, m), n + m)
         /\ Cycle(zlist_splice_tail(h, e[0], c[0]), Joined(c, n, n + 1, e, m), n + m)
<1>1. ~zlist_empty(h, e[0])
  BY DEF zlist_empty, Cycle, Linked
<1>2. h.next[c[0]] = c[After(n, 0)]
  <2>1. Linked(h, c[0], c[After(n, 0)])
    BY CycleIs, 0 \in 0..n
  <2> QED BY <2>1 DEF Linked
<1>3. h.prev[c[0]] = c[n]
  BY DEF Cycle, Linked
<1>4. Cycle(Inserted(h, e[0], c[1 - 1], c[After(n, 1 - 1)]), Joined(c, n, 1, e, m), n + m)
  BY InsertedJoins, 1 \in 1..(n + 1)
<1>5. Cycle(Inserted(h, e[0], c[(n + 1) - 1], c[After(n, (n + 1) - 1)]), Joined(c, n, n + 1, e, m), n + m)
  BY InsertedJoins, n + 1 \in 1..(n + 1)
<1>6. (n + 1) - 1 = n /\ After(n, n) = 0
  BY DEF After
<1>7. Cycle(zlist_splice(h, e[0], c[0]), Joined(c, n, 1, e, m), n + m)
  BY <1>1, <1>2, <1>4 DEF zlist_splice
<1>8. Cycle(zlist_splice_tail(h, e[0], c[0]), Joined(c, n, n + 1, e, m), n + m)
  BY <1>1, <1>3, <1>5, <1>6 DEF zlist_splice_tail
<1> QED BY <1>7, <1>8

\* zlist_splice_init and zlist_splice_tail_init: so too, and the other list is empty.
THEOREM SpliceInitEmpties ==
  ASSUME NEW Node, NEW h \in Heap(Node),
         NEW n \in Nat, NEW c \in [0..n -> Node], Cycle(h, c, n),
         NEW m \in Nat \ {0}, NEW e \in [0..m -> Node], Cycle(h, e, m),
         \A i \in 0..n, j \in 0..m : c[i] # e[j]
  PROVE  /\ Cycle(zlist_splice_init(h, e[0], c[0]), Joined(c, n, 1, e, m), n + m)
         /\ Cycle(zlist_splice_tail_init(h, e[0], c[0]), Joined(c, n, n + 1, e, m), n + m)
         /\ Cycle(zlist_splice_init(h, e[0], c[0]), [i \in 0..0 |-> e[0]], 0)
         /\ Cycle(zlist_splice_tail_init(h, e[0], c[0]), [i \in 0..0 |-> e[0]], 0)
<1>1. ~zlist_empty(h, e[0])
  BY DEF zlist_empty, Cycle, Linked
<1>2. ASSUME NEW p \in Node, NEW q \in Node PROVE Inserted(h, e[0], p, q) \in Heap(Node)
  <2>1. h.next[e[0]] \in Node /\ h.prev[e[0]] \in Node
    BY DEF Heap
  <2>2. Link(h, p, h.next[e[0]]) \in Heap(Node)
    BY <2>1, LinkInHeap
  <2>3. Link(Link(h, p, h.next[e[0]]), h.prev[e[0]], q) \in Heap(Node)
    BY <2>1, <2>2, LinkInHeap
  <2> QED BY <2>3 DEF Inserted
<1>3. h.next[c[0]] \in Node /\ h.prev[c[0]] \in Node /\ c[0] \in Node /\ e[0] \in Node
  BY DEF Heap
<1>4. /\ zlist_splice(h, e[0], c[0]) \in Heap(Node)
      /\ zlist_splice_tail(h, e[0], c[0]) \in Heap(Node)
  BY <1>1, <1>2, <1>3 DEF zlist_splice, zlist_splice_tail
<1>5. ASSUME NEW g \in Heap(Node), NEW k \in {1, n + 1}, Cycle(g, Joined(c, n, k, e, m), n + m)
      PROVE  /\ Cycle(INIT_ZLIST(g, e[0]), Joined(c, n, k, e, m), n + m)
             /\ Cycle(INIT_ZLIST(g, e[0]), [i \in 0..0 |-> e[0]], 0)
  <2> DEFINE d == Joined(c, n, k, e, m)
  <2>1. d \in [0..(n + m) -> Node] /\ \A i \in 0..(n + m) : d[i] # e[0]
    BY DEF Joined, Cycle
  <2> HIDE DEF d
  <2>2. n + m \in Nat
    OBVIOUS
  <2>3. Cycle(Link(g, e[0], e[0]), d, n + m)
    BY <1>3, <1>5, <2>1, <2>2, AsideKeeps DEF d
  <2>4. Cycle(INIT_ZLIST(g, e[0]), [i \in 0..0 |-> e[0]], 0)
    BY <1>3, InitIsEmpty
  <2> QED BY <2>3, <2>4 DEF INIT_ZLIST, d
<1>6. /\ zlist_splice_init(h, e[0], c[0]) = INIT_ZLIST(zlist_splice(h, e[0], c[0]), e[0])
      /\ zlist_splice_tail_init(h, e[0], c[0]) = INIT_ZLIST(zlist_splice_tail(h, e[0], c[0]), e[0])
  BY <1>1 DEF zlist_splice_init, zlist_splice_tail_init
<1> QED BY <1>4, <1>5, <1>6, SpliceJoins

\* zlist_cut_position: the entries up to x = c[k] go to list, the others stay,
\* both in their order.
THEOREM CutSplits ==
  ASSUME NEW Node, NEW h \in Heap(Node),
         NEW n \in Nat, NEW c \in [0..n -> Node], Cycle(h, c, n),
         NEW list \in Node, \A i \in 0..n : c[i] # list,
         NEW k \in 1..n
  PROVE  /\ Cycle(zlist_cut_position(h, list, c[0], c[k]),
                  [i \in 0..k |-> IF i = 0 THEN list ELSE c[i]], k)
         /\ Cycle(zlist_cut_position(h, list, c[0], c[k]),
                  [i \in 0..(n - k) |-> IF i = 0 THEN c[0] ELSE c[i + k]], n - k)
<1> DEFINE nx == c[After(n, k)]
           g1 == Link(h, list, c[1])
           g2 == Link(g1, c[k], list)
           f == Link(g2, c[0], nx)
           a == [i \in 0..k |-> IF i = 0 THEN list ELSE c[i]]
           b == [i \in 0..(n - k) |-> IF i = 0 THEN c[0] ELSE c[i + k]]
<1>1. /\ nx \in Node /\ c[0] \in Node /\ c[1] \in Node /\ c[k] \in Node
      /\ list # nx /\ list # c[0] /\ list # c[k] /\ list # c[1]
      /\ c[k] # c[0] /\ nx # c[1]
  BY DEF After, Cycle
<1>2. zlist_cut_position(h, list, c[0], c[k]) = f
  <2>1. Linked(h, c[0], c[1])
    BY DEF Cycle
  <2>2. Linked(h, c[k], nx)
    BY CycleIs, k \in 0..n
  <2>3. ~zlist_empty(h, c[0])
    BY <2>1 DEF zlist_empty, Linked, Cycle
  <2>4. ~(zlist_is_singular(h, c[0]) /\ h.next[c[0]] # c[k] /\ c[0] # c[k])
    <3> SUFFICES ASSUME h.next[c[0]] = h.prev[c[0]] PROVE h.next[c[0]] = c[k]
      BY DEF zlist_is_singular
    <3>1. c[1] = c[n]
      BY <2>1 DEF Linked, Cycle
    <3>2. n = 1
      BY <3>1 DEF Cycle
    <3> QED BY <3>2, <2>1 DEF Linked
  <2> QED BY <1>1, <2>1, <2>2, <2>3, <2>4 DEF zlist_cut_position, Linked
<1>3. g1 \in Heap(Node) /\ Linked(g1, list, c[1])
  BY <1>1, LinkInHeap, LinkMakes
<1>4. g2 \in Heap(Node) /\ Linked(g2, c[k], list) /\ Linked(g2, list, c[1])
  BY <1>1, <1>3, LinkInHeap, LinkMakes, LinkKeeps
<1>5. Linked(f, c[0], nx) /\ Linked(f, c[k], list) /\ Linked(f, list, c[1])
  BY <1>1, <1>4, LinkMakes, LinkKeeps
<1>6. ASSUME NEW i \in 1..n, i # k PROVE Linked(f, c[i], c[After(n, i)])
  <2>1. Linked(h, c[i], c[After(n, i)])
    BY CycleIs, i \in 0..n
  <2>2. /\ c[i] \in Node /\ c[After(n, i)] \in Node
        /\ c[i] # list /\ c[After(n, i)] # list
    BY DEF After
  <2>3. c[i] # c[k] /\ c[i] # c[0] /\ c[After(n, i)] # nx /\ c[After(n, i)] # c[1]
    BY <1>6 DEF After, Cycle
  <2>4. Linked(g1, c[i], c[After(n, i)])
    BY <1>1, <2>1, <2>2, <2>3, LinkKeeps
  <2>5. Linked(g2, c[i], c[After(n, i)])
    BY <1>1, <1>3, <2>2, <2>3, <2>4, LinkKeeps
  <2> QED BY <1>1, <1>4, <2>2, <2>3, <2>5, LinkKeeps
<1> HIDE DEF f, g1, g2
<1>7. Cycle(f, a, k)
  <2>1. \A i \in 0..k : a[i] = IF i = 0 THEN list ELSE c[i]
    OBVIOUS
  <2>2. \A i, j \in 0..k : a[i] = a[j] => i = j
    BY <2>1 DEF Cycle
  <2>3. ASSUME NEW i \in 0..k PROVE Linked(f, a[i], a[After(k, i)])
    <3>1. CASE i = 0
      BY <3>1, <2>1, <1>5 DEF After
    <3>2. CASE i = k
      BY <3>2, <2>1, <1>5 DEF After
    <3>3. CASE i # 0 /\ i # k
      <4>1. a[i] = c[i] /\ a[After(k, i)] = c[After(n, i)]
        BY <3>3, <2>1 DEF After
      <4> QED BY <3>3, <4>1, <1>6
    <3> QED BY <3>1, <3>2, <3>3
  <2> HIDE DEF a
  <2> QED BY <2>2, <2>3, CycleIs, k \in Nat
<1>8. Cycle(f, b, n - k)
  <2>1. \A i \in 0..(n - k) : b[i] = IF i = 0 THEN c[0] ELSE c[i + k]
    OBVIOUS
  <2>2. \A i, j \in 0..(n - k) : b[i] = b[j] => i = j
    BY <2>1 DEF Cycle
  <2>3. ASSUME NEW i \in 0..(n - k) PROVE Linked(f, b[i], b[After(n - k, i)])
    <3>1. CASE i = 0
      <4>1. b[i] = c[0] /\ b[After(n - k, i)] = nx
        BY <3>1, <2>1 DEF After
      <4> QED BY <4>1, <1>5
    <3>2. CASE i # 0
      <4>1. b[i] = c[i + k] /\ b[After(n - k, i)] = c[After(n, i + k)]
        BY <3>2, <2>1 DEF After
      <4> QED BY <3>2, <4>1, <1>6
    <3> QED BY <3>1, <3>2
  <2> HIDE DEF b
  <2>4. n - k \in Nat
    OBVIOUS
  <2> QED BY <2>2, <2>3, <2>4, CycleIs
<1> HIDE DEF a, b
<1>9. Cycle(zlist_cut_position(h, list, c[0], c[k]), a, k) /\ Cycle(zlist_cut_position(h, list, c[0], c[k]), b, n - k)
  BY <1>2, <1>7, <1>8
<1> QED BY <1>9 DEF a, b

\* zlist_move_tail within a list: entry k goes to the end.
THEOREM MoveTailMoves ==
  ASSUME NEW Node, NEW h \in Heap(Node),
         NEW n \in Nat, NEW c \in [0..n -> Node], Cycle(h, c, n),
         NEW k \in 1..n
  PROVE  Cycle(zlist_move_tail(h, c[k], c[0]), With(Without(c, n, k), n - 1, n, c[k]), n)
<1> DEFINE d == Without(c, n, k)
           u == Unlink(h, c[k])
<1>1. Cycle(u, d, n - 1) /\ n - 1 \in Nat
  BY UnlinkTakes
<1>2. /\ d \in [0..(n - 1) -> Node] /\ d[0] = c[0]
      /\ \A i \in 0..(n - 1) : d[i] # c[k]
  BY DEF Without, Cycle
<1>3. u \in Heap(Node) /\ c[k] \in Node
  BY UnlinkInHeap
<1> HIDE DEF d, u
<1>4. Cycle(zlist_add_tail(u, c[k], d[0]), With(d, n - 1, (n - 1) + 1, c[k]), (n - 1) + 1)
  BY <1>1, <1>2, <1>3, AddTailPutsLast
<1>5. (n - 1) + 1 = n
  OBVIOUS
<1> QED BY <1>2, <1>4, <1>5 DEF zlist_move_tail, d, u

\* zlist_rotate_left: the first entry becomes the last.
THEOREM RotateTurns ==
  ASSUME NEW Node, NEW h \in Heap(Node),
         NEW n \in Nat \ {0}, NEW c \in [0..n -> Node], Cycle(h, c, n)
  PROVE  Cycle(zlist_rotate_left(h, c[0]), With(Without(c, n, 1), n - 1, n, c[1]), n)
<1>1. h.next[c[0]] = c[1] /\ c[1] # c[0]
  BY DEF Cycle, Linked
<1>2. Cycle(zlist_move_tail(h, c[1], c[0]), With(Without(c, n, 1), n - 1, n, c[1]), n)
  BY MoveTailMoves, 1 \in 1..n
<1> QED BY <1>1, <1>2 DEF zlist_rotate_left, zlist_empty

-----------------------------------------------------------------------------
(* Walking along a list *)

\* A set of natural numbers that has a member has a least one ...
LEMMA LeastOf ==
  ASSUME NEW T, T \subseteq Nat, T # {}
  PROVE  \E m \in T : \A k \in T : m <= k
<1> DEFINE Less == {ss \in Nat \X Nat : ss[1] < ss[2]}
<1>1. IsWellFoundedOn(Less, Nat)
  BY NatLessThanWellFounded DEF OpToRel
<1>2. ASSUME NEW x \in T, NEW y \in T, <<y, x>> \notin Less PROVE x <= y
  BY <1>2
<1> HIDE DEF Less
<1>3. \E x \in T : \A y \in T : ~ (<<y, x>> \in Less)
  BY <1>1, WFMin
<1> QED
  BY <1>2, <1>3

\* ... so a set with 0 and with the successor of each of its members has them all.
LEMMA AllNaturals ==
  ASSUME NEW S, 0 \in S, \A n \in Nat : n \in S => n + 1 \in S
  PROVE  \A n \in Nat : n \in S
<1> DEFINE T == {k \in Nat : k \notin S}
<1>1. ASSUME T # {} PROVE FALSE
  <2>1. PICK m \in T : \A k \in T : m <= k
    BY <1>1, LeastOf
  <2>2. m - 1 \in Nat /\ m - 1 \notin T
    BY <2>1
  <2> QED BY <2>1, <2>2
<1> QED BY <1>1

\* A walk along the links
Walks(f, link, x) == f[0] = x /\ \A k \in Nat \ {0} : f[k] = link[f[k - 1]]

\* There is one from every node.
LEMMA WalkExists ==
  ASSUME NEW Node, NEW link \in [Node -> Node], NEW x \in Node
  PROVE  \E f \in [Nat -> Node] : Walks(f, link, x)
<1> DEFINE Goes(g, k) == g[0] = x /\ \A i \in 1..k : g[i] = link[g[i - 1]]
           w(k) == CHOOSE g \in [0..k -> Node] : Goes(g, k)
           f == [k \in Nat |-> w(k)[k]]
<1>1. \A k \in Nat : \E g \in [0..k -> Node] : Goes(g, k)
  <2> DEFINE S == {k \in Nat : \E g \in [0..k -> Node] : Goes(g, k)}
  <2>1. 0 \in S
    <3>1. [i \in 0..0 |-> x] \in [0..0 -> Node] /\ Goes([i \in 0..0 |-> x], 0)
      OBVIOUS
    <3> QED BY <3>1
  <2>2. ASSUME NEW k \in Nat, k \in S PROVE k + 1 \in S
    <3>1. PICK g \in [0..k -> Node] : Goes(g, k)
      BY <2>2
    <3> DEFINE h == [i \in 0..(k + 1) |-> IF i = k + 1 THEN link[g[k]] ELSE g[i]]
    <3>2. h \in [0..(k + 1) -> Node]
      OBVIOUS
    <3>3. Goes(h, k + 1)
      BY <3>1
    <3> HIDE DEF Goes, h
    <3> QED BY <3>2, <3>3
  <2> HIDE DEF S
  <2>3. \A k \in Nat : k \in S
    BY <2>1, <2>2, AllNaturals
  <2> QED BY <2>3 DEF S
<1>2. ASSUME NEW k \in Nat, NEW j \in Nat, NEW g, NEW h, Goes(g, k), Goes(h, j), k <= j
      PROVE  g[k] = h[k]
  <2> DEFINE S == {i \in Nat : i <= k => g[i] = h[i]}
  <2>1. 0 \in S
    BY <1>2
  <2>2. ASSUME NEW i \in Nat, i \in S PROVE i + 1 \in S
    BY <1>2, <2>2
  <2> HIDE DEF S
  <2>3. \A i \in Nat : i \in S
    BY <2>1, <2>2, AllNaturals
  <2> QED BY <2>3 DEF S
<1>3. ASSUME NEW k \in Nat PROVE Goes(w(k), k) /\ w(k) \in [0..k -> Node]
  BY <1>1
<1> HIDE DEF w, Goes
<1>4. f[0] = x
  BY <1>3 DEF Goes
<1>5. ASSUME NEW k \in Nat, k # 0 PROVE f[k] = link[f[k - 1]]
  <2>1. Goes(w(k), k) /\ Goes(w(k - 1), k - 1) /\ k - 1 \in Nat
    BY <1>3, <1>5
  <2>2. w(k - 1)[k - 1] = w(k)[k - 1]
    BY <1>2, <2>1
  <2>3. w(k)[k] = link[w(k)[k - 1]]
    BY <1>5, <2>1 DEF Goes
  <2> QED BY <2>1, <2>2, <2>3
<1>6. f \in [Nat -> Node]
  BY <1>3
<1> HIDE DEF f
<1> QED BY <1>4, <1>5, <1>6 DEF Walks

\* The links lead from each place to the one after it, and places differ.
Round(link, c, n) ==
  /\ \A i, j \in 0..n : c[i] = c[j] => i = j
  /\ \A i \in 0..n : link[c[i]] = c[After(n, i)]

\* zlist_foreach_entry visits the entries of a list, all of them and in their order:
\* also of a list that is linked by prev, where it is ..._reverse.
THEOREM AlongVisits ==
  ASSUME NEW Node, IsFiniteSet(Node), NEW link \in [Node -> Node],
         NEW n \in Nat, NEW c \in [0..n -> Node],
         Round(link, c, n)
  PROVE  /\ Along(link, c[0]) \in [1..n -> Node]
         /\ \A k \in 1..n : Along(link, c[0])[k] = c[k]
<1> DEFINE F(f) == [k \in Nat |-> IF k = 0 THEN c[0] ELSE link[f[k - 1]]]
           at == CHOOSE f : f = F(f)
           size == Cardinality(DOMAIN link)
           Stops(k) == /\ k = size \/ at[k + 1] = c[0]
                       /\ \A i \in 1..k : at[i] # c[0]
           m == CHOOSE k \in 0..size : Stops(k)
<1>1. at = F(at)
  <2> HIDE DEF F
  <2>1. PICK f \in [Nat -> Node] : Walks(f, link, c[0])
    BY WalkExists, c[0] \in Node
  <2>2. f = F(f)
    BY <2>1 DEF Walks, F
  <2> QED BY <2>2
<1>9. Along(link, c[0]) = [k \in 1..m |-> at[k]]
  BY Zenon DEF Along
<1> HIDE DEF at
<1>2. \A i \in 0..n : at[i] = c[i]
  <2> DEFINE S == {i \in Nat : i <= n => at[i] = c[i]}
  <2>1. 0 \in S
    BY <1>1
  <2>2. ASSUME NEW i \in Nat, i \in S PROVE i + 1 \in S
    <3>1. at[i + 1] = link[at[i]]
      BY <1>1
    <3>2. ASSUME i + 1 <= n PROVE at[i + 1] = c[i + 1]
      BY <2>2, <3>1, <3>2 DEF After, Round
    <3> QED BY <3>2
  <2> HIDE DEF S
  <2>3. \A i \in Nat : i \in S
    BY <2>1, <2>2, AllNaturals
  <2> QED BY <2>3 DEF S
<1>3. at[n + 1] = c[0]
  <2>1. at[n + 1] = link[at[n]]
    BY <1>1
  <2> QED BY <1>2, <2>1 DEF After, Round
<1>4. size \in Nat /\ n < size
  <2>1. size = Cardinality(Node) /\ size \in Nat
    BY FS_CardinalityType
  <2>2. c \in Injection(0..n, Node)
    BY DEF Injection, IsInjective, Round
  <2>3. IsFiniteSet(0..n) /\ Cardinality(0..n) = n + 1
    BY FS_Interval
  <2>4. Cardinality(0..n) <= Cardinality(Node)
    BY <2>2, FS_Injection DEF ExistsInjection
  <2> QED BY <2>1, <2>3, <2>4
<1> HIDE DEF size
<1>5. Stops(n)
  BY <1>2, <1>3 DEF Round
<1>6. ASSUME NEW k \in 0..size, Stops(k) PROVE k = n
  <2>1. ~(k < n)
    <3> SUFFICES ASSUME k < n PROVE FALSE
      OBVIOUS
    <3>1. at[k + 1] = c[k + 1] /\ c[k + 1] # c[0]
      BY <1>2, <1>4 DEF Round
    <3> QED BY <1>4, <1>6, <3>1
  <2>2. ~(k > n)
    BY <1>3, <1>4, <1>6
  <2> QED BY <1>4, <2>1, <2>2
<1>7. m = n
  BY <1>4, <1>5, <1>6
<1> HIDE DEF m
<1> QED BY <1>2, <1>7, <1>9
=============================================================================
