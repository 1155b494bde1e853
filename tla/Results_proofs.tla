---------------------------- MODULE Results_proofs ----------------------------
(* For any addresses and any number of rows of an answer: callers find the    *)
(* rows in order, no pointer to a freed row is left, and only the named leaks *)
(* lose rows.                                                                 *)
EXTENDS Results, ZList_proofs

Node == Row \cup Heads \cup {NULL}

\* The places of a list: its head, and then its entries.
Ring(l, s) == [i \in 0..Len(s) |-> IF i = 0 THEN l ELSE s[i]]

IsList(h, l, s) == s \in Seq(Row) /\ Cycle(h, Ring(l, s), Len(s))

\* The pointers of these nodes are the same in both heaps.
SameAt(h, g, S) == \A x \in S : g.next[x] = h.next[x] /\ g.prev[x] = h.prev[x]

-----------------------------------------------------------------------------
(* Lists as sequences of rows *)

\* The places of a list are nodes, and no two of them are one.
LEMMA RingIs ==
  ASSUME NEW h, NEW l \in Heads, NEW s, IsList(h, l, s)
  PROVE  /\ Len(s) \in Nat /\ Ring(l, s) \in [0..Len(s) -> Node] /\ Ring(l, s)[0] = l
         /\ \A i \in 1..Len(s) : Ring(l, s)[i] = s[i] /\ s[i] \in Row
         /\ \A i, j \in 1..Len(s) : s[i] = s[j] => i = j
<1>1. s \in Seq(Row) /\ Len(s) \in Nat /\ \A i \in 1..Len(s) : s[i] \in Row
  BY DEF IsList
<1>2. /\ Ring(l, s) \in [0..Len(s) -> Node] /\ Ring(l, s)[0] = l
      /\ \A i \in 1..Len(s) : Ring(l, s)[i] = s[i]
  BY <1>1 DEF Ring, Node
<1>3. \A i, j \in 0..Len(s) : Ring(l, s)[i] = Ring(l, s)[j] => i = j
  BY DEF IsList, Cycle
<1> QED
  BY <1>1, <1>2, <1>3

\* The loops of list.h see the entries, forwards and backwards.
LEMMA EntriesOf ==
  ASSUME NEW h \in Heap(Node), NEW l \in Heads, NEW s, IsList(h, l, s)
  PROVE  Along(h.next, l) = s /\ Along(h.prev, l) = Reverse(s)
<1> DEFINE n == Len(s)
           c == Ring(l, s)
           d == [i \in 0..n |-> IF i = 0 THEN c[0] ELSE c[n + 1 - i]]
<1>1. IsFiniteSet(Node)
  <2>1. IsFiniteSet(Heads)
    <3>1. IsFiniteSet({"local"}) /\ IsFiniteSet({"theirs"}) /\ IsFiniteSet({"values"})
      BY FS_Singleton
    <3>2. IsFiniteSet({"local"} \cup {"theirs"})
      BY <3>1, FS_Union
    <3>3. IsFiniteSet(({"local"} \cup {"theirs"}) \cup {"values"})
      BY <3>1, <3>2, FS_Union
    <3>4. Heads = ({"local"} \cup {"theirs"}) \cup {"values"}
      BY DEF Heads
    <3> QED BY <3>3, <3>4
  <2>2. IsFiniteSet(Row \cup Heads) /\ IsFiniteSet({NULL})
    BY <2>1, FS_Union, FS_Singleton, ResultsAssumption
  <2> QED BY <2>2, FS_Union DEF Node
<1>2. /\ n \in Nat /\ c \in [0..n -> Node] /\ c[0] = l
      /\ \A i \in 1..n : c[i] = s[i] /\ s[i] \in Row
      /\ s \in Seq(Row)
  BY RingIs DEF IsList
<1>3. /\ \A i, j \in 0..n : c[i] = c[j] => i = j
      /\ \A i \in 0..n : h.next[c[i]] = c[After(n, i)]
      /\ \A i \in 0..n : h.prev[c[After(n, i)]] = c[i]
  BY <1>2, CycleIs DEF IsList, Linked
<1>4. h.next \in [Node -> Node] /\ h.prev \in [Node -> Node]
  BY DEF Heap
<1> HIDE DEF c, n
<1>5. /\ Along(h.next, c[0]) \in [1..n -> Node]
      /\ \A k \in 1..n : Along(h.next, c[0])[k] = c[k]
  <2>1. Round(h.next, c, n)
    BY <1>3 DEF Round
  <2> QED BY <1>1, <1>2, <1>4, <2>1, AlongVisits
<1>6. /\ d \in [0..n -> Node] /\ d[0] = c[0]
      /\ \A i, j \in 0..n : d[i] = d[j] => i = j
  BY <1>2, <1>3
<1>7. ASSUME NEW i \in 0..n PROVE h.prev[d[i]] = d[After(n, i)]
  <2>1. CASE n = 0
    BY <1>2, <1>3, <2>1 DEF After
  <2>2. CASE n # 0 /\ i = 0
    <3>1. h.prev[c[After(n, n)]] = c[n]
      BY <1>2, <1>3
    <3> QED BY <1>2, <2>2, <3>1 DEF After
  <2>3. CASE n # 0 /\ i # 0
    <3>1. n - i \in 0..n /\ h.prev[c[After(n, n - i)]] = c[n - i]
      BY <1>2, <1>3
    <3>2. After(n, n - i) = n + 1 - i
      BY <1>2, <2>3 DEF After
    <3>3. d[After(n, i)] = c[n - i]
      BY <1>2, <2>3 DEF After
    <3>4. d[i] = c[n + 1 - i]
      BY <2>3
    <3> QED BY <3>1, <3>2, <3>3, <3>4
  <2> QED BY <2>1, <2>2, <2>3
<1> HIDE DEF d
<1>8. /\ Along(h.prev, d[0]) \in [1..n -> Node]
      /\ \A k \in 1..n : Along(h.prev, d[0])[k] = d[k]
  <2>1. Round(h.prev, d, n)
    BY <1>6, <1>7 DEF Round
  <2> QED BY <1>1, <1>2, <1>4, <1>6, <2>1, AlongVisits
<1>9. s = [k \in 1..n |-> c[k]]
  BY <1>2 DEF n
<1>10. Reverse(s) = [k \in 1..n |-> d[k]]
  BY <1>2 DEF Reverse, d, n
<1>11. Along(h.next, l) = s
  BY <1>2, <1>5, <1>9
<1>12. Along(h.prev, l) = Reverse(s)
  BY <1>2, <1>6, <1>8, <1>10
<1> QED
  BY <1>11, <1>12

\* A list whose pointers are as they were is the list it was.
LEMMA ListKept ==
  ASSUME NEW h, NEW g, NEW l \in Heads, NEW s, IsList(h, l, s), SameAt(h, g, ToSet(s) \cup {l})
  PROVE  IsList(g, l, s)
<1> DEFINE n == Len(s)
           c == Ring(l, s)
<1>1. \A i \in 0..n : c[i] \in ToSet(s) \cup {l}
  <2>1. DOMAIN s = 1..n /\ c[0] = l /\ \A i \in 1..n : c[i] = s[i]
    BY RingIs DEF IsList
  <2> HIDE DEF n, c
  <2> QED BY <2>1 DEF ToSet
<1>2. n \in Nat /\ Cycle(h, c, n)
  BY RingIs DEF IsList
<1> HIDE DEF n, c
<1>3. \A i \in 0..n : g.next[c[i]] = h.next[c[i]] /\ g.prev[c[i]] = h.prev[c[i]]
  BY <1>1 DEF SameAt
<1>4. Cycle(g, c, n)
  BY <1>2, <1>3, ElsewhereKeeps
<1> QED BY <1>4 DEF IsList, n, c

\* INIT_ZLIST empties a list, whatever the head pointed to.
LEMMA InitList ==
  ASSUME NEW h \in Heap(Node), NEW l \in Heads
  PROVE  /\ INIT_ZLIST(h, l) \in Heap(Node)
         /\ IsList(INIT_ZLIST(h, l), l, <<>>)
         /\ SameAt(h, INIT_ZLIST(h, l), Node \ {l})
<1>1. l \in Node
  BY DEF Node
<1>2. INIT_ZLIST(h, l) \in Heap(Node)
  BY <1>1, LinkInHeap DEF INIT_ZLIST
<1>3. Ring(l, <<>>) = [i \in 0..0 |-> l] /\ Len(<<>>) = 0 /\ <<>> \in Seq(Row)
  BY DEF Ring
<1>4. Cycle(INIT_ZLIST(h, l), [i \in 0..0 |-> l], 0)
  BY <1>1, InitIsEmpty
<1>5. SameAt(h, INIT_ZLIST(h, l), Node \ {l})
  BY <1>1 DEF SameAt, INIT_ZLIST, Link, Heap
<1> QED
  BY <1>2, <1>3, <1>4, <1>5 DEF IsList

\* A callback hangs its row behind the others.
LEMMA HangList ==
  ASSUME NEW h \in Heap(Node), NEW l \in Heads, NEW s, IsList(h, l, s),
         NEW r \in Row, r \notin ToSet(s)
  PROVE  /\ zlist_add_tail(h, r, l) \in Heap(Node)
         /\ IsList(zlist_add_tail(h, r, l), l, Append(s, r))
         /\ SameAt(h, zlist_add_tail(h, r, l), Node \ (ToSet(s) \cup {l, r}))
<1> DEFINE g == zlist_add_tail(h, r, l)
           n == Len(s)
           c == Ring(l, s)
<1>1. /\ n \in Nat /\ c \in [0..n -> Node] /\ c[0] = l /\ s \in Seq(Row)
      /\ \A i \in 1..n : c[i] = s[i] /\ s[i] \in Row
      /\ Cycle(h, c, n)
  BY RingIs DEF IsList
<1>2. r \in Node /\ l \in Node /\ r # l
  BY ResultsAssumption DEF Node
<1>3. \A i \in 0..n : c[i] # r
  BY <1>1, <1>2 DEF ToSet
<1>4. h.prev[l] = c[n] /\ c[n] \in ToSet(s) \cup {l} /\ c[n] \in Node
  BY <1>1 DEF Cycle, Linked, ToSet
<1>5. Cycle(g, With(c, n, n + 1, r), n + 1)
  BY <1>1, <1>2, <1>3, AddTailPutsLast
<1>6. Append(s, r) \in Seq(Row) /\ Len(Append(s, r)) = n + 1
  BY <1>1
<1>7. With(c, n, n + 1, r) = Ring(l, Append(s, r))
  BY <1>1, <1>6 DEF With, Ring
<1>8. g \in Heap(Node)
  <2>1. Link(h, r, l) \in Heap(Node)
    BY <1>2, LinkInHeap
  <2> QED BY <1>2, <1>4, <2>1, LinkInHeap DEF zlist_add_tail, Between
<1>9. SameAt(h, g, Node \ (ToSet(s) \cup {l, r}))
  BY <1>2, <1>4 DEF SameAt, zlist_add_tail, Between, Link, Heap
<1> QED
  BY <1>5, <1>6, <1>7, <1>8, <1>9 DEF IsList

\* The first entry goes, and the others stay ...
LEMMA PopList ==
  ASSUME NEW h \in Heap(Node), NEW l \in Heads, NEW s, IsList(h, l, s), s # <<>>,
         NEW g, g \in {zlist_del(h, s[1]), zlist_del_init(h, s[1])}
  PROVE  /\ g \in Heap(Node)
         /\ IsList(g, l, Tail(s))
         /\ SameAt(h, g, Node \ (ToSet(s) \cup {l}))
<1> DEFINE n == Len(s)
           c == Ring(l, s)
           u == Unlink(h, s[1])
<1>1. /\ n \in Nat /\ c \in [0..n -> Node] /\ c[0] = l /\ s \in Seq(Row)
      /\ \A i \in 1..n : c[i] = s[i] /\ s[i] \in Row
      /\ Cycle(h, c, n)
  BY RingIs DEF IsList
<1>2. 1 \in 1..n /\ s[1] = c[1] /\ s[1] \in Row /\ s[1] \in Node /\ NULL \in Node
  BY <1>1 DEF Node
<1>3. Cycle(g, Without(c, n, 1), n - 1)
  <2>1. Cycle(zlist_del(h, c[1]), Without(c, n, 1), n - 1)
    BY <1>1, <1>2, DelTakesOut
  <2>2. Cycle(zlist_del_init(h, c[1]), Without(c, n, 1), n - 1)
    BY <1>1, <1>2, DelInitTakesOut
  <2> QED BY <1>2, <2>1, <2>2
<1>4. Tail(s) \in Seq(Row) /\ Len(Tail(s)) = n - 1 /\ \A i \in 1..(n - 1) : Tail(s)[i] = s[i + 1]
  BY <1>1, <1>2
<1>5. Without(c, n, 1) = Ring(l, Tail(s))
  BY <1>1, <1>2, <1>4 DEF Without, Ring
<1>6. u \in Heap(Node)
  BY <1>2, UnlinkInHeap
<1>7. /\ h.prev[s[1]] \in ToSet(s) \cup {l}
      /\ h.next[s[1]] \in ToSet(s) \cup {l}
      /\ s[1] \in ToSet(s)
  <2>1. h.prev[c[1]] = c[0] /\ h.next[c[1]] = c[After(n, 1)]
    <3>1. Linked(h, c[0], c[After(n, 0)]) /\ Linked(h, c[1], c[After(n, 1)])
      BY <1>1, <1>2, CycleIs
    <3> QED BY <1>2, <3>1 DEF After, Linked
  <2>2. ASSUME NEW k \in Nat, 1 \in 1..k PROVE After(k, 1) \in 0..k
    BY <2>2 DEF After
  <2>3. After(n, 1) \in 0..n
    BY <1>1, <1>2, <2>2
  <2> QED BY <1>1, <1>2, <2>1, <2>3 DEF ToSet
<1>8. SameAt(h, u, Node \ (ToSet(s) \cup {l}))
  BY <1>2, <1>7 DEF SameAt, Unlink, Link, Heap
<1>9. g \in Heap(Node) /\ SameAt(u, g, Node \ ToSet(s))
  <2>1. CASE g = zlist_del(h, s[1])
    BY <1>2, <1>6, <1>7, <2>1 DEF zlist_del, Heap, SameAt
  <2>2. CASE g = zlist_del_init(h, s[1])
    BY <1>2, <1>6, <1>7, <2>2 DEF zlist_del_init, INIT_ZLIST, Link, Heap, SameAt
  <2> QED BY <2>1, <2>2
<1> QED
  BY <1>3, <1>4, <1>5, <1>8, <1>9 DEF IsList, SameAt

\* ... and after zlist_del_init it is linked to itself.
LEMMA PopInit ==
  ASSUME NEW h \in Heap(Node), NEW r \in Row
  PROVE  Linked(zlist_del_init(h, r), r, r)
<1>1. r \in Node
  BY DEF Node
<1> QED
  BY <1>1, UnlinkInHeap, LinkMakes DEF zlist_del_init, INIT_ZLIST

\* zlist_add_tail with its arguments swapped, for a row linked to itself: the head
\* gets that row as its only entry.
LEMMA SwapList ==
  ASSUME NEW h \in Heap(Node), NEW l \in Heads, NEW r \in Row, Linked(h, r, r)
  PROVE  /\ zlist_add_tail(h, l, r) \in Heap(Node)
         /\ IsList(zlist_add_tail(h, l, r), l, <<r>>)
         /\ SameAt(h, zlist_add_tail(h, l, r), Node \ {l, r})
<1> DEFINE g == zlist_add_tail(h, l, r)
<1>1. r \in Node /\ l \in Node /\ r # l
  BY ResultsAssumption DEF Node
<1>2. g = Link(Link(h, l, r), r, l)
  BY DEF zlist_add_tail, Between, Linked
<1>3. g \in Heap(Node)
  BY <1>1, <1>2, LinkInHeap
<1>4. SameAt(h, g, Node \ {l, r})
  BY <1>1, <1>2 DEF SameAt, Link, Heap
<1>5. Linked(g, l, r) /\ Linked(g, r, l)
  BY <1>1, <1>2 DEF Linked, Link, Heap
<1>6. <<r>> \in Seq(Row) /\ Len(<<r>>) = 1 /\ <<r>>[1] = r
  OBVIOUS
<1>7. Ring(l, <<r>>)[0] = l /\ Ring(l, <<r>>)[1] = r
  BY <1>6 DEF Ring
<1>8. Cycle(g, Ring(l, <<r>>), 1)
  BY <1>1, <1>5, <1>7 DEF Cycle
<1> QED
  BY <1>3, <1>4, <1>6, <1>8 DEF IsList

-----------------------------------------------------------------------------
(* The invariant *)

\* The three lists are lists of rows.
Lists == heap \in Heap(Node) /\ \A l \in Heads : IsList(heap, l, Entries(l))

\* Every live row has one owner: a caller, the row that find_first has taken out, a
\* list, or nobody.
Owners ==
  /\ held \subseteq live /\ lost \subseteq live /\ held \cap lost = {}
  /\ row # NULL => row \in live \ (held \cup lost)
  /\ \A l \in Heads : In(l) \subseteq live \ (held \cup lost \cup {row})
  /\ \A l, m \in Heads : l # m => In(l) \cap In(m) = {}
  /\ \A r \in live : r \in held \cup lost \cup {row} \/ \E l \in Heads : r \in In(l)

\* Which list a call works on, where the loop that frees stands, and that a local
\* result is empty when no call uses it.
Control ==
  /\ call \in Queries => list = ListOf(call)
  /\ call = "none" => list = "none"
  /\ call = "free" => list \in Heads /\ pos = heap.next[list] /\ nx = heap.next[pos]
  /\ call # "free" => row = NULL /\ then = "none"
  /\ row # NULL => then \in {"find_first", "get_value"} /\ Linked(heap, row, row)
  /\ Entries("local") # <<>> => list = "local"

\* The rows of a result are those of the answer that found memory, in their order.
Ordered(l) ==
  /\ {holds[r] : r \in ToSet(Entries(l))} = Kept(l)
  /\ \A i, j \in DOMAIN Entries(l) : i < j => holds[Entries(l)[i]] < holds[Entries(l)[j]]

Order ==
  /\ \A l \in {"local", "theirs"} : answer[l].dropped \subseteq 1..answer[l].come
  /\ \A l \in {"local", "theirs"} : (call = "free" => list # l) => Ordered(l)
  /\ row # NULL => holds[row] \in Kept("local") /\ \A k \in Kept("local") : holds[row] <= k

IInv == TypeOK /\ Lists /\ Owners /\ Control /\ Order

-----------------------------------------------------------------------------
(* What the steps rely on *)

\* The first entry is the one that the head points to, and the others are the rest.
LEMMA FirstOf ==
  ASSUME NEW h, NEW l \in Heads, NEW s, IsList(h, l, s)
  PROVE  /\ s = <<>> => h.next[l] = l /\ ToSet(s) = {}
         /\ s # <<>> => /\ h.next[l] = s[1] /\ s[1] \in Row /\ s[1] \in ToSet(s)
                        /\ ToSet(Tail(s)) = ToSet(s) \ {s[1]}
<1> DEFINE n == Len(s)
           c == Ring(l, s)
<1>1. /\ n \in Nat /\ c[0] = l /\ s \in Seq(Row) /\ DOMAIN s = 1..n
      /\ \A i \in 1..n : c[i] = s[i] /\ s[i] \in Row
      /\ \A i, j \in 1..n : s[i] = s[j] => i = j
  <2>1. s \in Seq(Row) /\ DOMAIN s = 1..n
    BY DEF IsList
  <2>2. n \in Nat /\ c[0] = l /\ \A i \in 1..n : c[i] = s[i] /\ s[i] \in Row
    BY RingIs
  <2>3. \A i, j \in 1..n : s[i] = s[j] => i = j
    BY RingIs
  <2> QED BY <2>1, <2>2, <2>3
<1>2. h.next[c[0]] = c[After(n, 0)]
  <2>1. Cycle(h, c, n) /\ 0 \in 0..n
    BY <1>1 DEF IsList
  <2>2. Linked(h, c[0], c[After(n, 0)])
    BY <1>1, <2>1, CycleIs
  <2> QED BY <2>2 DEF Linked
<1>3. CASE s = <<>>
  <2>1. n = 0
    BY <1>3
  <2> HIDE DEF n, c
  <2> QED BY <1>1, <1>2, <1>3, <2>1 DEF After, ToSet
<1>4. CASE s # <<>>
  <2>1. n # 0 /\ Len(Tail(s)) = n - 1 /\ Tail(s) \in Seq(Row) /\ \A i \in 1..(n - 1) : Tail(s)[i] = s[i + 1]
    BY <1>1, <1>4
  <2>2. DOMAIN Tail(s) = 1..(n - 1)
    BY <2>1
  <2> HIDE DEF n, c
  <2>3. h.next[l] = s[1] /\ s[1] \in Row /\ s[1] \in ToSet(s)
    BY <1>1, <1>2, <2>1 DEF After, ToSet
  <2>4. ASSUME NEW x \in ToSet(Tail(s)) PROVE x \in ToSet(s) \ {s[1]}
    <3>1. PICK i \in 1..(n - 1) : x = s[i + 1]
      BY <2>1, <2>2, <2>4 DEF ToSet
    <3>2. i + 1 \in 1..n /\ i + 1 # 1 /\ 1 \in 1..n
      BY <1>1, <2>1
    <3> QED BY <1>1, <3>1, <3>2 DEF ToSet
  <2>5. ASSUME NEW x \in ToSet(s) \ {s[1]} PROVE x \in ToSet(Tail(s))
    <3>1. PICK i \in 1..n : x = s[i]
      BY <1>1, <2>5 DEF ToSet
    <3>2. i # 1 /\ i - 1 \in 1..(n - 1) /\ (i - 1) + 1 = i
      BY <1>1, <2>5, <3>1
    <3>3. x = Tail(s)[i - 1]
      BY <2>1, <3>1, <3>2
    <3> QED BY <2>2, <3>2, <3>3 DEF ToSet
  <2> QED BY <1>4, <2>3, <2>4, <2>5
<1> QED
  BY <1>3, <1>4

\* The entries after zlist_add_tail.
LEMMA AppendSet ==
  ASSUME NEW s \in Seq(Row), NEW r
  PROVE  ToSet(Append(s, r)) = ToSet(s) \cup {r}
<1>1. /\ DOMAIN s = 1..Len(s) /\ DOMAIN Append(s, r) = 1..(Len(s) + 1) /\ Len(s) \in Nat
      /\ Append(s, r)[Len(s) + 1] = r
      /\ \A i \in 1..Len(s) : Append(s, r)[i] = s[i]
  OBVIOUS
<1>2. ASSUME NEW x \in ToSet(s) \cup {r} PROVE x \in ToSet(Append(s, r))
  BY <1>1, <1>2 DEF ToSet
<1>3. ASSUME NEW x \in ToSet(Append(s, r)) PROVE x \in ToSet(s) \cup {r}
  BY <1>1, <1>3 DEF ToSet
<1> QED
  BY <1>2, <1>3

\* A step that changes one list leaves the others what they were.
LEMMA OneList ==
  ASSUME Lists, heap' \in Heap(Node), NEW l \in Heads, NEW s, IsList(heap', l, s),
         NEW X, X \subseteq Row,
         SameAt(heap, heap', Node \ (In(l) \cup {l} \cup X)),
         \A m \in Heads : m # l => In(m) \cap (In(l) \cup X) = {}
  PROVE  /\ Lists'
         /\ Entries(l)' = s
         /\ \A m \in Heads : m # l => Entries(m)' = Entries(m)
         /\ heap'.next[NULL] = heap.next[NULL] /\ heap'.prev[NULL] = heap.prev[NULL]
<1>1. ASSUME NEW m \in Heads, m # l PROVE IsList(heap', m, Entries(m))
  <2>1. IsList(heap, m, Entries(m))
    BY DEF Lists
  <2>2. In(m) \subseteq Row /\ In(l) \subseteq Row
    BY RingIs DEF Lists, IsList, In, ToSet
  <2>3. m \notin Row /\ l \notin Row
    BY ResultsAssumption
  <2>4. In(m) \cup {m} \subseteq Node \ (In(l) \cup {l} \cup X)
    BY <1>1, <2>2, <2>3 DEF Node
  <2>5. SameAt(heap, heap', ToSet(Entries(m)) \cup {m})
    BY <2>4 DEF SameAt, In
  <2> QED BY <2>1, <2>5, ListKept
<1>2. ASSUME NEW m \in Heads, NEW t, IsList(heap', m, t) PROVE Entries(m)' = t
  BY <1>2, EntriesOf DEF Entries
<1>3. Entries(l)' = s /\ \A m \in Heads : m # l => Entries(m)' = Entries(m)
  BY <1>1, <1>2
<1>4. \A m \in Heads : IsList(heap', m, Entries(m)')
  BY <1>1, <1>3
<1>5. NULL \in Node \ (In(l) \cup {l} \cup X)
  <2>1. In(l) \subseteq Row
    BY RingIs DEF Lists, IsList, In, ToSet
  <2> QED BY <2>1, ResultsAssumption DEF Node
<1> QED
  BY <1>3, <1>4, <1>5 DEF Lists, SameAt

\* A result is in order as long as its entries, what they hold and its answer stay.
LEMMA OrderedStays ==
  ASSUME NEW l \in {"local", "theirs"}, Ordered(l), Entries(l)' = Entries(l),
         answer'[l] = answer[l], \A r \in ToSet(Entries(l)) : holds'[r] = holds[r]
  PROVE  Ordered(l)'
<1>1. Kept(l)' = Kept(l)
  BY DEF Kept
<1>2. \A i \in DOMAIN Entries(l) : Entries(l)[i] \in ToSet(Entries(l))
  BY DEF ToSet
<1> QED
  BY <1>1, <1>2 DEF Ordered

\* Who owns the rows stays as it is when neither they nor the lists change.
LEMMA OwnersStay ==
  ASSUME Owners, UNCHANGED <<live, row, held, lost>>, \A m \in Heads : In(m)' = In(m)
  PROVE  Owners'
<1>1. \A l \in Heads : In(l)' \subseteq live' \ (held' \cup lost' \cup {row'})
  BY DEF Owners
<1>2. \A l, m \in Heads : l # m => In(l)' \cap In(m)' = {}
  BY DEF Owners
<1>3. \A r \in live' : r \in held' \cup lost' \cup {row'} \/ \E l \in Heads : r \in In(l)'
  BY DEF Owners
<1> QED
  BY <1>1, <1>2, <1>3 DEF Owners

\* A step that changes no pointer leaves all lists what they were.
LEMMA NoList ==
  ASSUME Lists, heap' = heap
  PROVE  Lists' /\ \A m \in Heads : Entries(m)' = Entries(m) /\ In(m)' = In(m)
BY DEF Lists, Entries, In

-----------------------------------------------------------------------------
(* The steps *)

LEMMA Begins == Init => IInv
<1> SUFFICES ASSUME Init PROVE IInv
  OBVIOUS
<1>1. TypeOK /\ heap \in Heap(Node)
  BY ResultsAssumption DEF Init, TypeOK, Heap, Node, NoAnswer, Heads
<1>2. ASSUME NEW l \in Heads PROVE IsList(heap, l, <<>>)
  <2>1. Linked(heap, l, l)
    BY DEF Init, Linked
  <2>2. Len(<<>>) = 0 /\ <<>> \in Seq(Row) /\ Ring(l, <<>>)[0] = l
    BY DEF Ring
  <2> QED BY <2>1, <2>2 DEF IsList, Cycle
<1>3. \A l \in Heads : Entries(l) = <<>>
  BY <1>1, <1>2, EntriesOf DEF Entries
<1>4. \A l \in Heads : In(l) = {} /\ ToSet(Entries(l)) = {}
  BY <1>3 DEF In, ToSet
<1>5. Owners
  BY <1>4 DEF Init, Owners
<1>6. Control
  <2>1. "local" \in Heads
    BY DEF Heads
  <2> QED BY <1>3, <2>1 DEF Init, Control, Queries
<1>7. ASSUME NEW l \in {"local", "theirs"}
      PROVE  Ordered(l) /\ answer[l].dropped \subseteq 1..answer[l].come
  <2>1. l \in Heads /\ answer[l] = [come |-> 0, dropped |-> {}]
    BY DEF Heads, Init, NoAnswer
  <2>2. Kept(l) = {}
    BY <2>1 DEF Kept
  <2>3. Entries(l) = <<>> /\ ToSet(Entries(l)) = {}
    BY <1>3, <1>4, <2>1
  <2> QED BY <2>1, <2>2, <2>3 DEF Ordered
<1> QED
  BY <1>1, <1>2, <1>3, <1>5, <1>6, <1>7 DEF IInv, Lists, Order, Init

\* A row of an answer is a live row that is in the list of the call alone.
LEMMA FetchKeeps == ASSUME IInv, Fetch PROVE IInv'
<1> USE DEF IInv
<1>1. PICK r \in Row \ live :
        /\ live' = live \cup {r}
        /\ heap' = zlist_add_tail(heap, r, list)
        /\ holds' = [holds EXCEPT ![r] = answer[list].come + 1]
  BY DEF Fetch, Hang
<1>2. /\ call \in Queries /\ list = ListOf(call) /\ list \in {"local", "theirs"} /\ list \in Heads
      /\ answer[list].come \in Nat /\ answer[list].come + 1 \in 1..MaxAnswer
      /\ answer' = [answer EXCEPT ![list].come = @ + 1]
      /\ UNCHANGED <<call, list, then, pos, nx, row, held, lost>>
      /\ call # "free" /\ call # "none" /\ row = NULL
  BY ResultsAssumption DEF Fetch, MoreComes, Control, ListOf, Heads, TypeOK, Queries
<1>3. IsList(heap, list, Entries(list)) /\ Entries(list) \in Seq(Row)
  BY <1>2 DEF Lists, IsList
<1>4. r \notin ToSet(Entries(list)) /\ \A l \in Heads : r \notin In(l)
  BY <1>1, <1>2 DEF Owners, In
<1>5. /\ heap' \in Heap(Node)
      /\ IsList(heap', list, Append(Entries(list), r))
      /\ SameAt(heap, heap', Node \ (In(list) \cup {list, r}))
  BY <1>1, <1>2, <1>3, <1>4, HangList DEF Lists, In
<1>6. /\ Lists'
      /\ Entries(list)' = Append(Entries(list), r)
      /\ \A m \in Heads : m # list => Entries(m)' = Entries(m)
      /\ heap'.next[NULL] = heap.next[NULL] /\ heap'.prev[NULL] = heap.prev[NULL]
  <2>1. SameAt(heap, heap', Node \ (In(list) \cup {list} \cup {r})) /\ {r} \subseteq Row
    BY <1>5
  <2>2. \A m \in Heads : m # list => In(m) \cap (In(list) \cup {r}) = {}
    BY <1>2, <1>4 DEF Owners
  <2> QED BY <1>2, <1>5, <2>1, <2>2, OneList
<1>7. /\ In(list)' = In(list) \cup {r}
      /\ \A m \in Heads : m # list => In(m)' = In(m)
  BY <1>2, <1>3, <1>6, AppendSet DEF In
<1>8. TypeOK'
  <2>1. holds' \in [Row -> 0..MaxAnswer]
    BY <1>1, <1>2 DEF TypeOK
  <2>2. answer' \in [{"local", "theirs"} -> [come : 0..MaxAnswer, dropped : SUBSET (1..MaxAnswer)]]
    BY <1>2 DEF TypeOK
  <2>3. live' \subseteq Row
    BY <1>1 DEF TypeOK
  <2> QED BY <1>2, <1>5, <1>6, <2>1, <2>2, <2>3 DEF TypeOK, Heap, Node
<1>9. Owners'
  <2>1. held' \subseteq live' /\ lost' \subseteq live' /\ held' \cap lost' = {}
    BY <1>1, <1>2 DEF Owners
  <2>2. \A l \in Heads : In(l)' \subseteq live' \ (held' \cup lost' \cup {row'})
    BY <1>1, <1>2, <1>7, ResultsAssumption DEF Owners
  <2>3. \A l, m \in Heads : l # m => In(l)' \cap In(m)' = {}
    BY <1>2, <1>4, <1>7 DEF Owners
  <2>4. \A x \in live' : x \in held' \cup lost' \cup {row'} \/ \E l \in Heads : x \in In(l)'
    BY <1>1, <1>2, <1>7 DEF Owners
  <2> QED BY <1>2, <2>1, <2>2, <2>3, <2>4 DEF Owners
<1>10. Control'
  <2>1. Entries("local")' # <<>> => list = "local"
    BY <1>2, <1>6 DEF Control, Heads
  <2> QED BY <1>2, <2>1 DEF Control
<1>11. Order'
  <2> DEFINE e == Entries(list)
             k == answer[list].come + 1
  <2>1. answer'[list].come = k /\ answer'[list].dropped = answer[list].dropped
        /\ \A l \in {"local", "theirs"} : l # list => answer'[l] = answer[l]
    BY <1>2 DEF TypeOK
  <2>2. \A l \in {"local", "theirs"} : answer'[l].dropped \subseteq 1..answer'[l].come
    BY <1>2, <2>1 DEF Order
  <2>3. Kept(list)' = Kept(list) \cup {k}
    BY <1>2, <2>1 DEF Order, Kept
  <2>4. Ordered(list)
    BY <1>2 DEF Order
  <2>5. /\ holds'[r] = k /\ \A x \in Row \ {r} : holds'[x] = holds[x]
        /\ ToSet(e) \subseteq Row \ {r}
        /\ \A x \in ToSet(e) : holds[x] < k
    <3>1. holds'[r] = k /\ \A x \in Row \ {r} : holds'[x] = holds[x]
      BY <1>1, <1>2 DEF TypeOK
    <3>2. ToSet(e) \subseteq Row \ {r}
      BY <1>3, <1>4 DEF ToSet
    <3>3. \A x \in ToSet(e) : holds[x] \in Kept(list)
      BY <2>4 DEF Ordered
    <3>4. \A x \in Kept(list) : x < k
      BY <1>2 DEF Kept
    <3> QED BY <3>1, <3>2, <3>3, <3>4
  <2>6. {holds'[x] : x \in ToSet(Entries(list)')} = Kept(list)'
    <3>1. ToSet(Entries(list)') = ToSet(e) \cup {r}
      BY <1>3, <1>6, AppendSet
    <3>2. {holds'[x] : x \in ToSet(e) \cup {r}} = {holds[x] : x \in ToSet(e)} \cup {k}
      BY <2>5
    <3> QED BY <2>3, <2>4, <3>1, <3>2 DEF Ordered
  <2>7. ASSUME NEW i \in DOMAIN Entries(list)', NEW j \in DOMAIN Entries(list)', i < j
        PROVE  holds'[(Entries(list)')[i]] < holds'[(Entries(list)')[j]]
    <3>1. i \in DOMAIN e /\ (Entries(list)')[i] = e[i] /\ e[i] \in ToSet(e)
      BY <1>3, <1>6, <2>7 DEF ToSet
    <3>2. CASE j \in DOMAIN e
      <4>1. (Entries(list)')[j] = e[j] /\ e[j] \in ToSet(e)
        BY <1>3, <1>6, <3>2 DEF ToSet
      <4> QED BY <2>4, <2>5, <2>7, <3>1, <3>2, <4>1 DEF Ordered
    <3>3. CASE j \notin DOMAIN e
      <4>1. (Entries(list)')[j] = r
        BY <1>3, <1>6, <2>7, <3>3
      <4> QED BY <2>5, <3>1, <4>1
    <3> QED BY <3>2, <3>3
  <2>8. Ordered(list)'
    BY <1>2, <2>6, <2>7 DEF Ordered
  <2>9. ASSUME NEW l \in {"local", "theirs"}, l # list PROVE Ordered(l)'
    <3>1. l \in Heads /\ Entries(l)' = Entries(l)
      BY <1>6, <2>9 DEF Heads
    <3>2. IsList(heap, l, Entries(l)) /\ Entries(l) \in Seq(Row) /\ r \notin ToSet(Entries(l))
      BY <1>4, <3>1 DEF Lists, IsList, In
    <3>3. \A x \in ToSet(Entries(l)) : holds'[x] = holds[x]
      BY <1>1, <3>2 DEF TypeOK, ToSet
    <3>4. Ordered(l) /\ answer'[l] = answer[l]
      BY <1>2, <2>1, <2>9 DEF Order
    <3> QED BY <3>1, <3>3, <3>4, OrderedStays
  <2> QED BY <1>2, <2>2, <2>8, <2>9 DEF Order
<1> QED
  BY <1>6, <1>8, <1>9, <1>10, <1>11

\* A result that is used again is empty: nothing of it is forgotten.
LEMMA QueryKeeps == ASSUME IInv, NEW q \in Queries, Query(q) PROVE IInv'
<1> USE DEF IInv
<1> DEFINE l == ListOf(q)
<1>1. /\ l \in Heads /\ l \in {"local", "theirs"}
      /\ call = "none" /\ call' = q /\ list' = l /\ row = NULL /\ list = "none" /\ then = "none"
      /\ heap' = INIT_ZLIST(heap, l) /\ answer' = [answer EXCEPT ![l] = NoAnswer]
      /\ UNCHANGED <<live, holds, then, pos, nx, row, held, lost>>
  BY DEF Query, ListOf, Heads, Control
<1>2. Entries(l) = <<>> /\ In(l) = {}
  <2>1. Entries(l) = <<>>
    <3>1. CASE q = "find_all"
      <4>1. heap.next["theirs"] = "theirs" /\ l = "theirs"
        BY <3>1 DEF Query, zlist_empty, ListOf
      <4>2. IsList(heap, l, Entries(l)) /\ l \notin Row
        BY <1>1, ResultsAssumption DEF Lists
      <4> QED BY <1>1, <4>1, <4>2, FirstOf
    <3>2. CASE q # "find_all"
      BY <1>1, <3>2 DEF ListOf, Control
    <3> QED BY <3>1, <3>2
  <2> QED BY <2>1 DEF In, ToSet
<1> HIDE DEF l
<1>3. /\ heap' \in Heap(Node) /\ IsList(heap', l, <<>>) /\ SameAt(heap, heap', Node \ {l})
  BY <1>1, InitList DEF Lists
<1>4. /\ Lists'
      /\ Entries(l)' = <<>>
      /\ \A m \in Heads : m # l => Entries(m)' = Entries(m)
      /\ heap'.next[NULL] = heap.next[NULL] /\ heap'.prev[NULL] = heap.prev[NULL]
  <2>1. SameAt(heap, heap', Node \ (In(l) \cup {l} \cup {})) /\ {} \subseteq Row
    BY <1>2, <1>3
  <2>2. \A m \in Heads : m # l => In(m) \cap (In(l) \cup {}) = {}
    BY <1>2
  <2> QED BY <1>1, <1>3, <2>1, <2>2, OneList
<1>5. \A m \in Heads : Entries(m)' = Entries(m) /\ In(m)' = In(m)
  BY <1>2, <1>4 DEF In
<1>6. TypeOK'
  <2>1. answer' \in [{"local", "theirs"} -> [come : 0..MaxAnswer, dropped : SUBSET (1..MaxAnswer)]]
    BY <1>1, ResultsAssumption DEF TypeOK, NoAnswer
  <2> QED BY <1>1, <1>3, <1>4, <2>1 DEF TypeOK, Heap, Node
<1>7. Owners'
  BY <1>1, <1>5, OwnersStay
<1>8. Control'
  <2>1. q # "none" /\ q # "free" /\ "local" \in Heads
    BY DEF Queries, Heads
  <2>2. Entries("local") = <<>>
    BY <1>1 DEF Control
  <2> QED BY <1>1, <1>5, <2>1, <2>2 DEF Control, l
<1>9. Order'
  <2>1. answer'[l] = NoAnswer /\ \A m \in {"local", "theirs"} : m # l => answer'[m] = answer[m]
    BY <1>1 DEF TypeOK
  <2>2. ASSUME NEW m \in {"local", "theirs"}
        PROVE  Ordered(m)' /\ answer'[m].dropped \subseteq 1..answer'[m].come
    <3>1. CASE m = l
      <4>1. Kept(m)' = {} /\ answer'[m].dropped \subseteq 1..answer'[m].come
        BY <2>1, <3>1 DEF Kept, NoAnswer
      <4>2. Entries(m)' = <<>> /\ ToSet(Entries(m)') = {}
        BY <1>4, <3>1 DEF ToSet
      <4> QED BY <4>1, <4>2 DEF Ordered
    <3>2. CASE m # l
      <4>1. Ordered(m) /\ answer'[m] = answer[m] /\ m \in Heads
        BY <1>1, <2>1, <3>2 DEF Order, Heads
      <4>2. \A r \in ToSet(Entries(m)) : holds'[r] = holds[r]
        BY <1>1
      <4> QED BY <1>5, <4>1, <4>2, OrderedStays DEF Order
    <3> QED BY <3>1, <3>2
  <2> QED BY <1>1, <2>2 DEF Order
<1> QED
  BY <1>4, <1>6, <1>7, <1>8, <1>9

\* A row that finds no memory is missing in its place.
LEMMA FetchFailsKeeps == ASSUME IInv, FetchFails PROVE IInv'
<1> USE DEF IInv
<1>1. /\ call \in Queries /\ list \in {"local", "theirs"} /\ list \in Heads
      /\ answer[list].come \in Nat /\ answer[list].come + 1 \in 1..MaxAnswer
      /\ UNCHANGED <<heap, live, holds, call, list, then, pos, nx, row, held, lost>>
      /\ call # "free" /\ row = NULL
  BY ResultsAssumption DEF FetchFails, MoreComes, Control, ListOf, Heads, TypeOK, Queries
<1> DEFINE k == answer[list].come + 1
<1>2. /\ answer'[list].come = k /\ answer'[list].dropped = answer[list].dropped \cup {k}
      /\ \A l \in {"local", "theirs"} : l # list => answer'[l] = answer[l]
      /\ answer' \in [{"local", "theirs"} -> [come : 0..MaxAnswer, dropped : SUBSET (1..MaxAnswer)]]
  <2>1. [come |-> k, dropped |-> answer[list].dropped \cup {k}]
           \in [come : 0..MaxAnswer, dropped : SUBSET (1..MaxAnswer)]
    BY <1>1 DEF TypeOK
  <2>2. answer' = [answer EXCEPT ![list] = [come |-> k, dropped |-> answer[list].dropped \cup {k}]]
    BY DEF FetchFails
  <2> QED BY <1>1, <2>1, <2>2 DEF TypeOK
<1>3. Lists' /\ \A m \in Heads : Entries(m)' = Entries(m) /\ In(m)' = In(m)
  BY <1>1, NoList
<1>4. TypeOK'
  BY <1>1, <1>2 DEF TypeOK
<1>5. Owners'
  BY <1>1, <1>3, OwnersStay
<1>6. Control'
  BY <1>1, <1>3 DEF Control, Heads
<1>7. Order'
  <2>1. \A l \in {"local", "theirs"} : answer'[l].dropped \subseteq 1..answer'[l].come
    BY <1>1, <1>2 DEF Order
  <2>2. \A l \in {"local", "theirs"} : Kept(l)' = Kept(l)
    BY <1>1, <1>2 DEF Kept, Order
  <2>3. ASSUME NEW l \in {"local", "theirs"} PROVE Ordered(l)'
    <3>1. Ordered(l) /\ l \in Heads
      BY <1>1 DEF Order, Heads
    <3> QED BY <1>1, <1>3, <2>2, <3>1 DEF Ordered
  <2> QED BY <1>1, <2>1, <2>3 DEF Order
<1> QED
  BY <1>3, <1>4, <1>5, <1>6, <1>7

\* What a failed query had found stays with the caller of find_all, and is lost for
\* the others.
LEMMA QueryFailsKeeps == ASSUME IInv, QueryFails PROVE IInv'
<1> USE DEF IInv
<1>1. /\ call \in Queries /\ list \in {"local", "theirs"} /\ list \in Heads
      /\ call' = "none" /\ list' = "none" /\ call # "free" /\ row = NULL /\ then = "none"
      /\ UNCHANGED <<live, holds, then, pos, nx, row, held>>
  BY DEF QueryFails, Control, ListOf, Heads, Queries
<1>2. CASE list = "theirs"
  <2>1. UNCHANGED <<heap, answer, lost>>
    BY <1>2 DEF QueryFails
  <2>2. Lists' /\ \A m \in Heads : Entries(m)' = Entries(m) /\ In(m)' = In(m)
    BY <2>1, NoList
  <2>3. TypeOK'
    BY <1>1, <2>1 DEF TypeOK
  <2>4. Owners'
    BY <1>1, <2>1, <2>2, OwnersStay
  <2>5. Control'
    BY <1>1, <1>2, <2>2 DEF Control, Heads, Queries
  <2>6. ASSUME NEW l \in {"local", "theirs"} PROVE Ordered(l)'
    <3>1. Ordered(l) /\ l \in Heads /\ answer'[l] = answer[l]
      BY <1>1, <2>1 DEF Order, Heads
    <3> QED BY <1>1, <2>2, <3>1, OrderedStays
  <2>7. Order'
    BY <1>1, <2>1, <2>6 DEF Order
  <2> QED BY <2>2, <2>3, <2>4, <2>5, <2>7
<1>3. CASE list = "local"
  <2>1. /\ heap' = INIT_ZLIST(heap, "local") /\ lost' = lost \cup In("local")
        /\ answer' = [answer EXCEPT !["local"] = NoAnswer]
    BY <1>3 DEF QueryFails
  <2>2. heap' \in Heap(Node) /\ IsList(heap', "local", <<>>) /\ SameAt(heap, heap', Node \ {"local"})
    BY <1>1, <1>3, <2>1, InitList DEF Lists
  <2>3. /\ Lists'
        /\ Entries("local")' = <<>>
        /\ \A m \in Heads : m # "local" => Entries(m)' = Entries(m)
        /\ heap'.next[NULL] = heap.next[NULL] /\ heap'.prev[NULL] = heap.prev[NULL]
    <3>1. SameAt(heap, heap', Node \ (In("local") \cup {"local"} \cup {})) /\ {} \subseteq Row
      BY <2>2 DEF SameAt
    <3>2. \A m \in Heads : m # "local" => In(m) \cap (In("local") \cup {}) = {}
      BY <1>1, <1>3 DEF Owners
    <3> QED BY <1>1, <1>3, <2>2, <3>1, <3>2, OneList
  <2>4. In("local")' = {} /\ \A m \in Heads : m # "local" => In(m)' = In(m)
    BY <2>3 DEF In, ToSet
  <2>5. TypeOK'
    <3>1. answer' \in [{"local", "theirs"} -> [come : 0..MaxAnswer, dropped : SUBSET (1..MaxAnswer)]]
      BY <2>1, ResultsAssumption DEF TypeOK, NoAnswer
    <3>2. lost' \subseteq Row
      BY <1>1, <1>3, <2>1 DEF TypeOK, Owners
    <3> QED BY <1>1, <2>2, <2>3, <3>1, <3>2 DEF TypeOK, Heap, Node
  <2>6. Owners'
    <3>1. held' \subseteq live' /\ lost' \subseteq live' /\ held' \cap lost' = {}
      BY <1>1, <1>3, <2>1 DEF Owners
    <3>2. \A l \in Heads : In(l)' \subseteq live' \ (held' \cup lost' \cup {row'})
      BY <1>1, <1>3, <2>1, <2>4 DEF Owners
    <3>3. \A l, m \in Heads : l # m => In(l)' \cap In(m)' = {}
      BY <2>4 DEF Owners
    <3>4. \A x \in live' : x \in held' \cup lost' \cup {row'} \/ \E l \in Heads : x \in In(l)'
      BY <1>1, <2>1, <2>4 DEF Owners
    <3> QED BY <1>1, <3>1, <3>2, <3>3, <3>4 DEF Owners
  <2>7. Control'
    BY <1>1, <2>3 DEF Control, Queries
  <2>8. Order'
    <3>1. answer'["local"] = NoAnswer /\ answer'["theirs"] = answer["theirs"]
      BY <2>1 DEF TypeOK
    <3>2. Ordered("local")'
      <4>1. Kept("local")' = {} /\ Entries("local")' = <<>> /\ ToSet(Entries("local")') = {}
        BY <2>3, <3>1 DEF Kept, NoAnswer, ToSet
      <4> QED BY <4>1 DEF Ordered
    <3>3. Ordered("theirs")'
      <4>1. Ordered("theirs") /\ Entries("theirs")' = Entries("theirs")
        BY <1>1, <2>3 DEF Order, Heads
      <4> QED BY <1>1, <3>1, <4>1, OrderedStays
    <3>4. \A l \in {"local", "theirs"} : answer'[l].dropped \subseteq 1..answer'[l].come
      BY <3>1 DEF Order, NoAnswer
    <3> QED BY <1>1, <3>2, <3>3, <3>4 DEF Order
  <2> QED BY <2>3, <2>5, <2>6, <2>7, <2>8
<1> QED
  BY <1>1, <1>2, <1>3

LEMMA FindAllEndsKeeps == ASSUME IInv, FindAllEnds PROVE IInv'
<1> USE DEF IInv
<1>1. /\ call = "find_all" /\ list = "theirs" /\ call' = "none" /\ list' = "none" /\ call # "free"
      /\ row = NULL /\ then = "none"
      /\ UNCHANGED <<heap, live, holds, then, pos, nx, row, answer, held, lost>>
  BY DEF FindAllEnds, Control, ListOf, Queries
<1>2. Lists' /\ \A m \in Heads : Entries(m)' = Entries(m) /\ In(m)' = In(m)
  BY <1>1, NoList
<1>3. TypeOK'
  BY <1>1 DEF TypeOK
<1>4. Owners'
  BY <1>1, <1>2, OwnersStay
<1>5. Control'
  BY <1>1, <1>2 DEF Control, Heads, Queries
<1>6. ASSUME NEW l \in {"local", "theirs"} PROVE Ordered(l)'
  <2>1. Ordered(l) /\ l \in Heads /\ answer'[l] = answer[l]
    BY <1>1 DEF Order, Heads
  <2> QED BY <1>1, <1>2, <2>1, OrderedStays
<1>7. Order'
  BY <1>1, <1>6 DEF Order
<1> QED
  BY <1>2, <1>3, <1>4, <1>5, <1>7

\* The loop that frees a list starts: no pointer and no row changes.
LEMMA StartKeeps ==
  ASSUME IInv, call \in Queries \cup {"none"}, NEW l \in Heads, NEW q \in Queries \cup {"none"},
         StartFree(heap, l, q), UNCHANGED <<live, holds, row, answer, held, lost>>,
         Entries("local") # <<>> => l = "local"
  PROVE  IInv'
<1> USE DEF IInv
<1>1. /\ call # "free" /\ row = NULL
      /\ heap' = heap /\ call' = "free" /\ list' = l /\ then' = q
      /\ pos' = heap.next[l] /\ nx' = heap.next[heap.next[l]]
      /\ UNCHANGED <<live, holds, row, answer, held, lost>>
  BY DEF StartFree, First, Control, Queries
<1>2. Lists' /\ \A m \in Heads : Entries(m)' = Entries(m) /\ In(m)' = In(m)
  BY <1>1, NoList
<1>3. TypeOK'
  <2>1. {pos', nx'} \subseteq Row \cup Heads \cup {NULL}
    BY <1>1 DEF TypeOK
  <2> QED BY <1>1, <2>1 DEF TypeOK
<1>4. Owners'
  BY <1>1, <1>2, OwnersStay
<1>5. Control'
  BY <1>1, <1>2 DEF Control, Heads, Queries
<1>6. ASSUME NEW m \in {"local", "theirs"} PROVE Ordered(m)'
  <2>1. Ordered(m) /\ m \in Heads /\ answer'[m] = answer[m]
    BY <1>1 DEF Order, Heads
  <2> QED BY <1>1, <1>2, <2>1, OrderedStays
<1>7. Order'
  BY <1>1, <1>6 DEF Order
<1> QED
  BY <1>2, <1>3, <1>4, <1>5, <1>7

\* find_first takes the first row out and frees the others.
LEMMA FindFirstKeeps == ASSUME IInv, FindFirstEnds PROVE IInv'
<1> USE DEF IInv
<1>1. /\ call \in {"find_first", "get_value"} /\ call \in Queries /\ call # "free" /\ list = "local"
      /\ "local" \in Heads /\ row = NULL /\ UNCHANGED <<live, holds, answer, held, lost>>
  BY DEF FindFirstEnds, Control, ListOf, Heads, Queries
<1>2. CASE zlist_empty(heap, "local") /\ StartFree(heap, "local", call) /\ UNCHANGED row
  BY <1>1, <1>2, StartKeeps
<1>3. CASE /\ ~zlist_empty(heap, "local") /\ row' = heap.next["local"]
           /\ StartFree(Taken(heap, row'), "local", call)
  <2> DEFINE e == Entries("local")
  <2>1. /\ heap' = zlist_del_init(heap, row') /\ call' = "free" /\ list' = "local" /\ then' = call
        /\ pos' = heap'.next["local"] /\ nx' = heap'.next[pos']
    BY <1>3 DEF StartFree, Taken, First
  <2>2. IsList(heap, "local", e) /\ heap \in Heap(Node)
    BY <1>1 DEF Lists
  <2>3. /\ e # <<>> /\ row' = e[1] /\ row' \in Row /\ row' \in ToSet(e)
        /\ ToSet(Tail(e)) = ToSet(e) \ {row'}
    <3>1. heap.next["local"] # "local"
      BY <1>3 DEF zlist_empty
    <3> QED BY <1>1, <1>3, <2>2, <3>1, FirstOf
  <2>4. /\ heap' \in Heap(Node) /\ IsList(heap', "local", Tail(e))
        /\ SameAt(heap, heap', Node \ (In("local") \cup {"local"}))
        /\ Linked(heap', row', row')
    BY <1>1, <2>1, <2>2, <2>3, PopList, PopInit DEF In
  <2>5. /\ Lists'
        /\ Entries("local")' = Tail(e)
        /\ \A m \in Heads : m # "local" => Entries(m)' = Entries(m)
        /\ heap'.next[NULL] = heap.next[NULL] /\ heap'.prev[NULL] = heap.prev[NULL]
    <3>1. SameAt(heap, heap', Node \ (In("local") \cup {"local"} \cup {})) /\ {} \subseteq Row
      BY <2>4
    <3>2. \A m \in Heads : m # "local" => In(m) \cap (In("local") \cup {}) = {}
      BY <1>1 DEF Owners
    <3> QED BY <1>1, <2>4, <3>1, <3>2, OneList
  <2>6. /\ In("local")' = In("local") \ {row'} /\ row' \in In("local")
        /\ \A m \in Heads : m # "local" => In(m)' = In(m)
    BY <2>3, <2>5 DEF In
  <2>7. TypeOK'
    <3>1. {pos', nx'} \subseteq Row \cup Heads \cup {NULL}
      BY <1>1, <2>1, <2>4 DEF Heap, Node
    <3> QED BY <1>1, <2>1, <2>3, <2>4, <2>5, <3>1 DEF TypeOK, Heap, Node
  <2>8. Owners'
    <3>1. row' \in live' \ (held' \cup lost')
      BY <1>1, <2>6 DEF Owners
    <3>2. \A l \in Heads : In(l)' \subseteq live' \ (held' \cup lost' \cup {row'})
      BY <1>1, <2>6 DEF Owners
    <3>3. \A l, m \in Heads : l # m => In(l)' \cap In(m)' = {}
      BY <2>6 DEF Owners
    <3>4. \A x \in live' : x \in held' \cup lost' \cup {row'} \/ \E l \in Heads : x \in In(l)'
      BY <1>1, <2>6, ResultsAssumption DEF Owners, TypeOK
    <3> QED BY <1>1, <3>1, <3>2, <3>3, <3>4 DEF Owners
  <2>9. Control'
    BY <1>1, <2>1, <2>4 DEF Control, Queries
  <2>10. Order'
    <3>1. Ordered("local") /\ Ordered("theirs")
      BY <1>1 DEF Order
    <3>2. Ordered("theirs")'
      <4>1. Entries("theirs")' = Entries("theirs")
        BY <2>5 DEF Heads
      <4> QED BY <1>1, <3>1, <4>1, OrderedStays
    <3>3. holds[row'] \in Kept("local")
      BY <2>3, <3>1 DEF Ordered
    <3>4. ASSUME NEW k \in Kept("local") PROVE holds[row'] <= k
      <4>1. PICK x \in ToSet(e) : k = holds[x]
        BY <3>1 DEF Ordered
      <4>2. PICK i \in DOMAIN e : x = e[i]
        BY <4>1 DEF ToSet
      <4>3. e \in Seq(Row) /\ 1 \in DOMAIN e /\ (i = 1 \/ 1 < i)
        BY <2>2, <2>3 DEF IsList
      <4>4. holds[row'] \in Nat /\ k \in Nat
        BY <2>3 DEF TypeOK, Kept
      <4>5. CASE i = 1
        BY <2>3, <4>1, <4>2, <4>4, <4>5
      <4>6. CASE 1 < i
        <5>1. holds[e[1]] < holds[e[i]]
          BY <3>1, <4>2, <4>3, <4>6 DEF Ordered
        <5> QED BY <2>3, <4>1, <4>2, <4>4, <5>1
      <4> QED BY <4>3, <4>5, <4>6
    <3>5. Kept("local")' = Kept("local")
      BY <1>1 DEF Kept
    <3> QED BY <1>1, <2>1, <3>2, <3>3, <3>4, <3>5 DEF Order
  <2> QED BY <2>5, <2>7, <2>8, <2>9, <2>10
<1> QED
  BY <1>2, <1>3 DEF FindFirstEnds

\* Freeing the first entry of the list: it had no other owner.
LEMMA FreeOneKeeps == ASSUME IInv, FreeOne PROVE IInv'
<1> USE DEF IInv
<1> DEFINE e == Entries(list)
<1>1. /\ call = "free" /\ list \in Heads /\ pos = heap.next[list] /\ nx = heap.next[pos] /\ pos # list
      /\ heap' = zlist_del(heap, pos) /\ live' = live \ {pos} /\ holds' = [holds EXCEPT ![pos] = 0]
      /\ pos' = nx /\ nx' = heap'.next[nx]
      /\ UNCHANGED <<call, list, then, row, answer, held, lost>>
  BY DEF FreeOne, Control
<1>2. IsList(heap, list, e) /\ heap \in Heap(Node)
  BY <1>1 DEF Lists
<1>3. /\ e # <<>> /\ pos = e[1] /\ pos \in Row /\ pos \in ToSet(e)
      /\ ToSet(Tail(e)) = ToSet(e) \ {pos}
  BY <1>1, <1>2, FirstOf
<1>4. /\ heap' \in Heap(Node) /\ IsList(heap', list, Tail(e))
      /\ SameAt(heap, heap', Node \ (In(list) \cup {list}))
  BY <1>1, <1>2, <1>3, PopList DEF In
<1>5. /\ Lists'
      /\ Entries(list)' = Tail(e)
      /\ \A m \in Heads : m # list => Entries(m)' = Entries(m)
      /\ heap'.next[NULL] = heap.next[NULL] /\ heap'.prev[NULL] = heap.prev[NULL]
  <2>1. SameAt(heap, heap', Node \ (In(list) \cup {list} \cup {})) /\ {} \subseteq Row
    BY <1>4
  <2>2. \A m \in Heads : m # list => In(m) \cap (In(list) \cup {}) = {}
    BY <1>1 DEF Owners
  <2> QED BY <1>1, <1>4, <2>1, <2>2, OneList
<1>6. /\ In(list)' = In(list) \ {pos} /\ pos \in In(list)
      /\ \A m \in Heads : m # list => In(m)' = In(m) /\ pos \notin In(m)
  BY <1>1, <1>3, <1>5 DEF In, Owners
<1>7. TypeOK'
  <2>1. {pos', nx'} \subseteq Row \cup Heads \cup {NULL}
    BY <1>1, <1>4 DEF TypeOK, Heap, Node
  <2>2. holds' \in [Row -> 0..MaxAnswer]
    <3>1. 0 \in 0..MaxAnswer
      BY ResultsAssumption
    <3> QED BY <1>1, <3>1 DEF TypeOK
  <2> QED BY <1>1, <1>4, <1>5, <2>1, <2>2 DEF TypeOK, Heap, Node
<1>8. pos \notin held \cup lost \cup {row}
  BY <1>1, <1>6 DEF Owners
<1>9. Owners'
  <2>1. held' \subseteq live' /\ lost' \subseteq live' /\ held' \cap lost' = {}
    BY <1>1, <1>8 DEF Owners
  <2>2. row' # NULL => row' \in live' \ (held' \cup lost')
    BY <1>1, <1>8 DEF Owners
  <2>3. \A l \in Heads : In(l)' \subseteq live' \ (held' \cup lost' \cup {row'})
    BY <1>1, <1>6 DEF Owners
  <2>4. \A l, m \in Heads : l # m => In(l)' \cap In(m)' = {}
    <3>1. \A l \in Heads : In(l)' \subseteq In(l)
      BY <1>1, <1>6
    <3> QED BY <3>1 DEF Owners
  <2>5. \A x \in live' : x \in held' \cup lost' \cup {row'} \/ \E l \in Heads : x \in In(l)'
    BY <1>1, <1>6 DEF Owners
  <2> QED BY <2>1, <2>2, <2>3, <2>4, <2>5 DEF Owners
<1>10. Control'
  <2>1. heap'.next[list] = nx
    <3>1. heap.prev[pos] = list
      <4>1. /\ Ring(list, e)[0] = list /\ Ring(list, e)[1] = pos /\ 0 \in 0..(Len(e) - 1)
        BY <1>2, <1>3, RingIs DEF IsList, Ring
      <4>2. Cycle(heap, Ring(list, e), Len(e))
        BY <1>2 DEF IsList
      <4>3. Linked(heap, Ring(list, e)[0], Ring(list, e)[0 + 1])
        BY <4>1, <4>2 DEF Cycle
      <4> QED BY <4>1, <4>3 DEF Linked
    <3>2. list \in Node /\ pos \in Node /\ nx \in Node
      BY <1>1, <1>2, <1>3 DEF Node, Heap
    <3> QED BY <1>1, <1>2, <3>1, <3>2 DEF zlist_del, Unlink, Link, Heap
  <2>2. row' # NULL => Linked(heap', row', row')
    <3>1. SUFFICES ASSUME row # NULL PROVE Linked(heap', row, row)
      BY <1>1
    <3>2. row \in Node \ (In(list) \cup {list}) /\ Linked(heap, row, row)
      BY <1>1, <3>1, ResultsAssumption DEF Control, Owners, TypeOK, Node
    <3> QED BY <1>4, <3>2 DEF SameAt, Linked
  <2>3. Entries("local")' # <<>> => list' = "local"
    BY <1>1, <1>5 DEF Control, Heads
  <2> QED BY <1>1, <2>1, <2>2, <2>3 DEF Control, Queries
<1>11. Order'
  <2>1. ASSUME NEW l \in {"local", "theirs"}, l # list PROVE Ordered(l)'
    <3>1. Ordered(l) /\ l \in Heads /\ answer'[l] = answer[l] /\ Entries(l)' = Entries(l)
      BY <1>1, <1>5, <2>1 DEF Order, Heads
    <3>2. \A x \in ToSet(Entries(l)) : x \in Row /\ x # pos
      <4>1. IsList(heap, l, Entries(l))
        BY <3>1 DEF Lists
      <4> QED BY <1>6, <2>1, <3>1, <4>1 DEF In, IsList, ToSet
    <3>3. \A x \in ToSet(Entries(l)) : holds'[x] = holds[x]
      BY <1>1, <3>2 DEF TypeOK
    <3> QED BY <3>1, <3>3, OrderedStays
  <2>2. row # NULL => holds'[row] = holds[row]
    BY <1>1, <1>8 DEF TypeOK
  <2>3. Kept("local")' = Kept("local")
    BY <1>1 DEF Kept
  <2> QED BY <1>1, <2>1, <2>2, <2>3 DEF Order
<1> QED
  BY <1>5, <1>7, <1>9, <1>10, <1>11

\* The loop ends with an empty list; find_first hands its row to the caller, and
\* db_get_value makes it the only one in the table's list.
LEMMA FreeEndsKeeps == ASSUME IInv, FreeEnds PROVE IInv'
<1> USE DEF IInv
<1>1. /\ call = "free" /\ list \in Heads /\ pos = list /\ pos = heap.next[list]
      /\ call' = "none" /\ list' = "none" /\ then' = "none" /\ pos' = NULL /\ nx' = NULL /\ row' = NULL
      /\ heap' = IF Keeps THEN zlist_add_tail(heap, "values", row) ELSE heap
      /\ lost' = IF Keeps THEN lost \cup In("values") ELSE lost
      /\ held' = IF then = "find_first" THEN held \cup ({row} \ {NULL}) ELSE held
      /\ answer' = [l \in DOMAIN answer |-> IF l = list THEN NoAnswer ELSE answer[l]]
      /\ live' = live /\ holds' = holds
  BY DEF FreeEnds, Control
<1>2. Entries(list) = <<>> /\ In(list) = {}
  <2>1. IsList(heap, list, Entries(list)) /\ list \notin Row
    BY <1>1, ResultsAssumption DEF Lists
  <2>2. Entries(list) = <<>>
    BY <1>1, <2>1, FirstOf
  <2> QED BY <2>2 DEF In, ToSet
<1>3. Entries("local") = <<>> /\ In("local") = {}
  BY <1>2 DEF Control, In, ToSet
<1>4. /\ Lists'
      /\ Entries("local")' = Entries("local") /\ Entries("theirs")' = Entries("theirs")
      /\ ~Keeps => Entries("values")' = Entries("values")
      /\ Keeps => Entries("values")' = <<row>>
      /\ heap' \in Heap(Node)
      /\ heap'.next[NULL] = heap.next[NULL] /\ heap'.prev[NULL] = heap.prev[NULL]
  <2>1. CASE ~Keeps
    <3>1. heap' = heap
      BY <1>1, <2>1
    <3> QED BY <2>1, <3>1, NoList DEF Lists, Heads
  <2>2. CASE Keeps
    <3>1. row \in Row /\ Linked(heap, row, row) /\ heap \in Heap(Node) /\ "values" \in Heads
      BY <2>2 DEF Keeps, Control, TypeOK, Lists, Heads
    <3>2. /\ heap' \in Heap(Node) /\ IsList(heap', "values", <<row>>)
          /\ SameAt(heap, heap', Node \ {"values", row})
      BY <1>1, <2>2, <3>1, SwapList
    <3>3. SameAt(heap, heap', Node \ (In("values") \cup {"values"} \cup {row})) /\ {row} \subseteq Row
      BY <3>1, <3>2 DEF SameAt
    <3>4. \A m \in Heads : m # "values" => In(m) \cap (In("values") \cup {row}) = {}
      BY <3>1 DEF Owners
    <3>5. /\ Lists'
          /\ Entries("values")' = <<row>>
          /\ \A m \in Heads : m # "values" => Entries(m)' = Entries(m)
          /\ heap'.next[NULL] = heap.next[NULL] /\ heap'.prev[NULL] = heap.prev[NULL]
      BY <3>1, <3>2, <3>3, <3>4, OneList
    <3> QED BY <2>2, <3>2, <3>5 DEF Heads
  <2> QED BY <2>1, <2>2
<1>5. /\ In("local")' = {} /\ In("theirs")' = In("theirs")
      /\ ~Keeps => In("values")' = In("values")
      /\ Keeps => In("values")' = {row}
  <2>1. ToSet(<<row>>) = {row}
    BY DEF ToSet
  <2> QED BY <1>3, <1>4, <2>1 DEF In
<1>6. \A l \in Heads : In(l) \subseteq Row
  BY RingIs DEF Lists, IsList, In, ToSet
<1>7. TypeOK'
  <2>1. answer' \in [{"local", "theirs"} -> [come : 0..MaxAnswer, dropped : SUBSET (1..MaxAnswer)]]
    BY <1>1, ResultsAssumption DEF TypeOK, NoAnswer
  <2>2. lost' \subseteq Row /\ held' \subseteq Row
    BY <1>1, <1>6 DEF TypeOK, Heads
  <2>3. {pos', nx'} \subseteq Row \cup Heads \cup {NULL}
    BY <1>1
  <2>4. list' \in Heads \cup {"none"} /\ then' \in Queries \cup {"none"}
        /\ call' \in Queries \cup {"free", "none"} /\ row' \in Row \cup {NULL}
    BY <1>1
  <2>5. /\ heap'.next \in [Row \cup Heads \cup {NULL} -> Row \cup Heads \cup {NULL}]
        /\ heap'.prev \in [Row \cup Heads \cup {NULL} -> Row \cup Heads \cup {NULL}]
        /\ heap'.next[NULL] = NULL /\ heap'.prev[NULL] = NULL
    BY <1>4 DEF TypeOK, Heap, Node
  <2>6. live' \subseteq Row /\ holds' \in [Row -> 0..MaxAnswer]
    BY <1>1 DEF TypeOK
  <2> QED BY <2>1, <2>2, <2>3, <2>4, <2>5, <2>6 DEF TypeOK
<1>8. Owners'
  <2>1. CASE Keeps
    <3>1. /\ row # NULL /\ row \in live \ (held \cup lost) /\ row \notin In("theirs") \cup In("values")
          /\ held' = held /\ lost' = lost \cup In("values")
          /\ "theirs" \in Heads /\ "values" \in Heads /\ "local" \in Heads
      BY <1>1, <2>1 DEF Keeps, Owners, Heads
    <3>2. held' \subseteq live' /\ lost' \subseteq live' /\ held' \cap lost' = {}
      BY <1>1, <3>1 DEF Owners
    <3>3. \A l \in Heads : In(l)' \subseteq live' \ (held' \cup lost' \cup {row'})
      <4>1. In("theirs") \subseteq live \ (held \cup lost) /\ In("theirs") \cap In("values") = {}
        BY <3>1 DEF Owners
      <4>2. NULL \notin In("theirs")
        BY <1>6, <3>1, ResultsAssumption
      <4> QED BY <1>1, <1>5, <2>1, <3>1, <4>1, <4>2 DEF Heads
    <3>4. \A l, m \in Heads : l # m => In(l)' \cap In(m)' = {}
      BY <1>5, <2>1, <3>1 DEF Heads
    <3>5. \A x \in live' : x \in held' \cup lost' \cup {row'} \/ \E l \in Heads : x \in In(l)'
      <4>1. ASSUME NEW x \in live
            PROVE  x \in held \cup lost \cup In("values") \/ x = row \/ x \in In("theirs")
        BY <1>3, <3>1 DEF Owners, Heads
      <4> QED BY <1>1, <1>5, <2>1, <3>1, <4>1
    <3> QED BY <1>1, <3>2, <3>3, <3>4, <3>5 DEF Owners
  <2>2. CASE ~Keeps
    <3>1. /\ lost' = lost /\ \A l \in Heads : In(l)' = In(l) /\ In(l) \subseteq Row
          /\ held' = held \cup ({row} \ {NULL})
      BY <1>1, <1>3, <1>5, <1>6, <2>2 DEF Heads, Keeps, Control
    <3>2. held' \subseteq live' /\ lost' \subseteq live' /\ held' \cap lost' = {}
      BY <1>1, <3>1 DEF Owners
    <3>3. \A l \in Heads : In(l)' \subseteq live' \ (held' \cup lost' \cup {row'})
      BY <1>1, <3>1, ResultsAssumption DEF Owners
    <3>4. \A l, m \in Heads : l # m => In(l)' \cap In(m)' = {}
      BY <3>1 DEF Owners
    <3>5. \A x \in live' : x \in held' \cup lost' \cup {row'} \/ \E l \in Heads : x \in In(l)'
      BY <1>1, <3>1 DEF Owners, TypeOK
    <3> QED BY <1>1, <3>2, <3>3, <3>4, <3>5 DEF Owners
  <2> QED BY <2>1, <2>2
<1>9. Control'
  BY <1>1, <1>3, <1>4 DEF Control, Queries
<1>10. ASSUME NEW l \in {"local", "theirs"}
       PROVE  Ordered(l)' /\ answer'[l].dropped \subseteq 1..answer'[l].come
  <2>1. l \in DOMAIN answer /\ l \in Heads /\ Entries(l)' = Entries(l)
    BY <1>4 DEF TypeOK, Heads
  <2>2. CASE l = list
    <3>1. answer'[l] = NoAnswer /\ Entries(l)' = <<>>
      BY <1>1, <1>2, <2>1, <2>2
    <3>2. Kept(l)' = {} /\ ToSet(Entries(l)') = {} /\ answer'[l].dropped \subseteq 1..answer'[l].come
      BY <3>1 DEF Kept, NoAnswer, ToSet
    <3> QED BY <3>1, <3>2 DEF Ordered
  <2>3. CASE l # list
    <3>1. answer'[l] = answer[l] /\ Ordered(l)
      BY <1>1, <2>1, <2>3 DEF Order
    <3> QED BY <1>1, <2>1, <3>1, OrderedStays DEF Order
  <2> QED BY <2>2, <2>3
<1>11. Order'
  BY <1>1, <1>10 DEF Order
<1> QED
  BY <1>4, <1>7, <1>8, <1>9, <1>11

LEMMA FreeRowKeeps == ASSUME IInv, NEW r \in Row, FreeRow(r) PROVE IInv'
<1> USE DEF IInv
<1>1. /\ call = "none" /\ row = NULL /\ r \in held /\ held' = held \ {r} /\ live' = live \ {r}
      /\ holds' = [holds EXCEPT ![r] = 0]
      /\ UNCHANGED <<heap, call, list, then, pos, nx, row, answer, lost>>
  BY DEF FreeRow, Control
<1>2. Lists' /\ \A m \in Heads : Entries(m)' = Entries(m) /\ In(m)' = In(m)
  BY <1>1, NoList
<1>3. TypeOK'
  <2>1. holds' \in [Row -> 0..MaxAnswer]
    <3>1. 0 \in 0..MaxAnswer
      BY ResultsAssumption
    <3> QED BY <1>1, <3>1 DEF TypeOK
  <2> QED BY <1>1, <2>1 DEF TypeOK
<1>4. \A m \in Heads : r \notin In(m)
  BY <1>1 DEF Owners
<1>5. Owners'
  <2>1. held' \subseteq live' /\ lost' \subseteq live' /\ held' \cap lost' = {}
    BY <1>1 DEF Owners
  <2>2. \A l \in Heads : In(l)' \subseteq live' \ (held' \cup lost' \cup {row'})
    BY <1>1, <1>2, <1>4 DEF Owners
  <2>3. \A l, m \in Heads : l # m => In(l)' \cap In(m)' = {}
    BY <1>2 DEF Owners
  <2>4. \A x \in live' : x \in held' \cup lost' \cup {row'} \/ \E l \in Heads : x \in In(l)'
    BY <1>1, <1>2 DEF Owners
  <2> QED BY <1>1, <2>1, <2>2, <2>3, <2>4 DEF Owners
<1>6. Control'
  BY <1>1, <1>2 DEF Control, Heads
<1>7. ASSUME NEW l \in {"local", "theirs"} PROVE Ordered(l)'
  <2>1. Ordered(l) /\ l \in Heads /\ answer'[l] = answer[l] /\ Entries(l)' = Entries(l)
    BY <1>1, <1>2 DEF Order, Heads
  <2>2. \A x \in ToSet(Entries(l)) : x \in Row /\ x # r
    <3>1. IsList(heap, l, Entries(l))
      BY <2>1 DEF Lists
    <3> QED BY <1>4, <2>1, <3>1 DEF In, IsList, ToSet
  <2>3. \A x \in ToSet(Entries(l)) : holds'[x] = holds[x]
    BY <1>1, <2>2 DEF TypeOK
  <2> QED BY <2>1, <2>3, OrderedStays
<1>8. Order'
  BY <1>1, <1>7 DEF Order
<1> QED
  BY <1>2, <1>3, <1>5, <1>6, <1>8

LEMMA AbandonKeeps == ASSUME IInv, Abandon PROVE IInv'
<1> USE DEF IInv
<1>1. /\ call = "none" /\ row = NULL /\ list = "none" /\ "theirs" \in Heads
      /\ heap' = INIT_ZLIST(heap, "theirs") /\ lost' = lost \cup In("theirs")
      /\ answer' = [answer EXCEPT !["theirs"] = NoAnswer]
      /\ UNCHANGED <<live, holds, call, list, then, pos, nx, row, held>>
  BY DEF Abandon, Control, Heads
<1>2. heap' \in Heap(Node) /\ IsList(heap', "theirs", <<>>) /\ SameAt(heap, heap', Node \ {"theirs"})
  BY <1>1, InitList DEF Lists
<1>3. /\ Lists'
      /\ Entries("theirs")' = <<>>
      /\ \A m \in Heads : m # "theirs" => Entries(m)' = Entries(m)
      /\ heap'.next[NULL] = heap.next[NULL] /\ heap'.prev[NULL] = heap.prev[NULL]
  <2>1. SameAt(heap, heap', Node \ (In("theirs") \cup {"theirs"} \cup {})) /\ {} \subseteq Row
    BY <1>2 DEF SameAt
  <2>2. \A m \in Heads : m # "theirs" => In(m) \cap (In("theirs") \cup {}) = {}
    BY <1>1 DEF Owners
  <2> QED BY <1>1, <1>2, <2>1, <2>2, OneList
<1>4. In("theirs")' = {} /\ \A m \in Heads : m # "theirs" => In(m)' = In(m)
  BY <1>3 DEF In, ToSet
<1>5. TypeOK'
  <2>1. answer' \in [{"local", "theirs"} -> [come : 0..MaxAnswer, dropped : SUBSET (1..MaxAnswer)]]
    BY <1>1, ResultsAssumption DEF TypeOK, NoAnswer
  <2>2. lost' \subseteq Row
    BY <1>1 DEF TypeOK, Owners
  <2> QED BY <1>1, <1>2, <1>3, <2>1, <2>2 DEF TypeOK, Heap, Node
<1>6. Owners'
  <2>1. held' \subseteq live' /\ lost' \subseteq live' /\ held' \cap lost' = {}
    BY <1>1 DEF Owners
  <2>2. \A l \in Heads : In(l)' \subseteq live' \ (held' \cup lost' \cup {row'})
    BY <1>1, <1>4 DEF Owners
  <2>3. \A l, m \in Heads : l # m => In(l)' \cap In(m)' = {}
    BY <1>4 DEF Owners
  <2>4. \A x \in live' : x \in held' \cup lost' \cup {row'} \/ \E l \in Heads : x \in In(l)'
    BY <1>1, <1>4 DEF Owners
  <2> QED BY <1>1, <2>1, <2>2, <2>3, <2>4 DEF Owners
<1>7. Control'
  BY <1>1, <1>3 DEF Control, Queries, Heads
<1>8. Order'
  <2>1. answer'["theirs"] = NoAnswer /\ answer'["local"] = answer["local"]
    BY <1>1 DEF TypeOK
  <2>2. Ordered("theirs")'
    <3>1. Kept("theirs")' = {} /\ Entries("theirs")' = <<>> /\ ToSet(Entries("theirs")') = {}
      BY <1>3, <2>1 DEF Kept, NoAnswer, ToSet
    <3> QED BY <3>1 DEF Ordered
  <2>3. Ordered("local")'
    <3>1. Ordered("local") /\ Entries("local")' = Entries("local")
      BY <1>1, <1>3 DEF Order, Heads
    <3> QED BY <1>1, <2>1, <3>1, OrderedStays
  <2>4. \A l \in {"local", "theirs"} : answer'[l].dropped \subseteq 1..answer'[l].come
    BY <2>1 DEF Order, NoAnswer
  <2> QED BY <1>1, <2>2, <2>3, <2>4 DEF Order
<1> QED
  BY <1>3, <1>5, <1>6, <1>7, <1>8

LEMMA Stutters == ASSUME IInv, UNCHANGED vars PROVE IInv'
<1> USE DEF IInv, vars
<1>1. Lists' /\ \A m \in Heads : Entries(m)' = Entries(m) /\ In(m)' = In(m)
  BY NoList
<1>2. TypeOK'
  BY DEF TypeOK
<1>3. Owners'
  BY <1>1, OwnersStay
<1>4. Control'
  BY <1>1 DEF Control, Heads
<1>5. \A l \in {"local", "theirs"} : Kept(l)' = Kept(l) /\ Entries(l)' = Entries(l)
  BY <1>1 DEF Kept, Heads
<1>6. Order'
  BY <1>5 DEF Order, Ordered
<1> QED
  BY <1>1, <1>2, <1>3, <1>4, <1>6

-----------------------------------------------------------------------------
(* Theorems *)

LEMMA Inductive == Spec => []IInv
<1>1. Init => IInv
  BY Begins
<1>2. IInv /\ [Next]_vars => IInv'
  <2> SUFFICES ASSUME IInv, [Next]_vars PROVE IInv'
    OBVIOUS
  <2>1. ASSUME NEW q \in Queries, Query(q) PROVE IInv'
    BY <2>1, QueryKeeps
  <2>2. CASE Fetch
    BY <2>2, FetchKeeps
  <2>3. CASE FetchFails
    BY <2>3, FetchFailsKeeps
  <2>4. CASE QueryFails
    BY <2>4, QueryFailsKeeps
  <2>5. CASE FindAllEnds
    BY <2>5, FindAllEndsKeeps
  <2>6. CASE FindFirstEnds
    BY <2>6, FindFirstKeeps
  <2>7. CASE CountEnds
    <3>1. call \in Queries /\ list = "local" /\ "local" \in Heads
      BY <2>7 DEF CountEnds, IInv, Control, ListOf, Queries, Heads
    <3> QED BY <2>7, <3>1, StartKeeps DEF CountEnds
  <2>8. CASE FreeResult
    <3>1. Entries("local") = <<>> /\ "theirs" \in Heads
      BY <2>8 DEF FreeResult, IInv, Control, Heads
    <3> QED BY <2>8, <3>1, StartKeeps DEF FreeResult
  <2>9. CASE FreeValues
    <3>1. Entries("local") = <<>> /\ "values" \in Heads
      BY <2>9 DEF FreeValues, IInv, Control, Heads
    <3> QED BY <2>9, <3>1, StartKeeps DEF FreeValues
  <2>10. CASE FreeOne
    BY <2>10, FreeOneKeeps
  <2>11. CASE FreeEnds
    BY <2>11, FreeEndsKeeps
  <2>12. ASSUME NEW r \in Row, FreeRow(r) PROVE IInv'
    BY <2>12, FreeRowKeeps
  <2>13. CASE Abandon
    BY <2>13, AbandonKeeps
  <2>14. CASE UNCHANGED vars
    BY <2>14, Stutters
  <2> QED
    BY <2>1, <2>2, <2>3, <2>4, <2>5, <2>6, <2>7, <2>8, <2>9, <2>10, <2>11, <2>12, <2>13, <2>14 DEF Next
<1> QED
  BY <1>1, <1>2, PTL DEF Spec

\* Pointers point to rows, heads or nothing, and nothing to NULL's pointers is written.
THEOREM TypeCorrect == Spec => []TypeOK
<1>1. IInv => TypeOK
  BY DEF IInv
<1> QED
  BY <1>1, Inductive, PTL

\* db_foreach_result and its reverse see the rows of the answer that found memory, in
\* the order of the database, and find_first takes the first of them.
THEOREM InTheirOrder == Spec => []RowsInOrder
<1>1. ASSUME IInv PROVE RowsInOrder
  <2>1. \A l \in Heads : Along(heap.prev, l) = Reverse(Entries(l))
    BY <1>1, EntriesOf DEF IInv, Lists
  <2> QED
    BY <1>1, <2>1 DEF IInv, Order, Ordered, RowsInOrder, Heads
<1> QED
  BY <1>1, Inductive, PTL

\* No pointer of a caller, of a list or of the loop that frees one leads to a row that
\* was freed, and no row has two owners, each of which would free it.
THEOREM NoneDangles == Spec => []NothingDangling
<1>1. ASSUME IInv PROVE NothingDangling
  <2> USE <1>1 DEF IInv
  <2>1. ASSUME NEW l \in Heads, NEW x \in In(l) \cup {l}
        PROVE  {heap.next[x], heap.prev[x]} \subseteq In(l) \cup {l}
    <3> DEFINE e == Entries(l)
               n == Len(e)
               c == Ring(l, e)
    <3>1. IsList(heap, l, e)
      BY DEF Lists
    <3>2. /\ n \in Nat /\ c[0] = l /\ DOMAIN e = 1..n
          /\ \A i \in 1..n : c[i] = e[i]
      BY <3>1, RingIs DEF IsList
    <3>3. Cycle(heap, c, n)
      BY <3>1 DEF IsList
    <3> HIDE DEF e, n, c
    <3>4. \A i \in 0..n : c[i] \in In(l) \cup {l}
      BY <3>2 DEF In, ToSet, e
    <3>5. \E i \in 0..n : x = c[i]
      BY <3>2 DEF In, ToSet, e
    <3>6. /\ \A i \in 0..n : Linked(heap, c[i], c[After(n, i)])
          /\ \A i \in 0..n : After(n, i) \in 0..n
      <4>1. \A i \in 0..n : Linked(heap, c[i], c[After(n, i)])
        BY <3>2, <3>3, CycleIs
      <4>2. \A i \in 0..n : After(n, i) \in 0..n
        BY <3>2 DEF After
      <4> QED BY <4>1, <4>2
    <3>7. \A i \in 0..n : \E j \in 0..n : After(n, j) = i
      <4>1. ASSUME NEW i \in 0..n PROVE \E j \in 0..n : After(n, j) = i
        <5>1. CASE i = 0
          BY <3>2, <5>1 DEF After
        <5>2. CASE i # 0
          <6>1. i - 1 \in 0..n /\ After(n, i - 1) = i
            BY <3>2, <5>2 DEF After
          <6> QED BY <6>1
        <5> QED BY <5>1, <5>2
      <4> QED BY <4>1
    <3> QED BY <3>4, <3>5, <3>6, <3>7 DEF Linked
  <2>2. \A l \in Heads : In(l) \subseteq live /\ In(l) \subseteq Row
    BY RingIs DEF Owners, Lists, IsList, In, ToSet
  <2>3. \A l \in Heads : \A x \in In(l) \cup {l} : {heap.next[x], heap.prev[x]} \subseteq live \cup Heads
    BY <2>1, <2>2
  <2>4. call = "free" => {pos, nx} \subseteq live \cup Heads
    <3> SUFFICES ASSUME call = "free" PROVE {pos, nx} \subseteq live \cup Heads
      OBVIOUS
    <3>1. list \in Heads /\ pos = heap.next[list] /\ nx = heap.next[pos]
      BY DEF Control
    <3>2. pos \in In(list) \cup {list}
      BY <2>1, <3>1
    <3>3. nx \in In(list) \cup {list}
      BY <2>1, <3>1, <3>2
    <3> QED BY <2>2, <3>1, <3>2, <3>3
  <2>5. \A l \in Heads : In(l) \cap (held \cup {row} \cup Heads) = {}
    BY <2>2, ResultsAssumption DEF Owners
  <2>6. \A l \in Heads : \A m \in Heads \ {l} : In(l) \cap In(m) = {}
    BY DEF Owners
  <2>7. held \subseteq live /\ (row # NULL => row \in live /\ row \notin held)
    BY DEF Owners
  <2> QED
    BY <2>3, <2>4, <2>5, <2>6, <2>7 DEF NothingDangling
<1> QED
  BY <1>1, Inductive, PTL

\* What is allocated is freed by somebody, but for the rows of a failed query, of the
\* result that cgi_index does not free, and of values that db_get_value replaces.
THEOREM NoneLost == Spec => []NothingLost
<1>1. ASSUME IInv PROVE NothingLost
  <2>1. ASSUME NEW r \in live
        PROVE  r \in held \cup ({row} \ {NULL}) \cup (UNION {In(l) : l \in Heads}) \cup lost
    <3>1. r # NULL
      BY <1>1, ResultsAssumption DEF IInv, TypeOK
    <3>2. r \in held \cup lost \cup {row} \/ \E l \in Heads : r \in In(l)
      BY <1>1 DEF IInv, Owners
    <3>3. ASSUME NEW l \in Heads, r \in In(l) PROVE r \in UNION {In(m) : m \in Heads}
      BY <3>3
    <3> QED BY <3>1, <3>2, <3>3
  <2>2. held \cup lost \cup ({row} \ {NULL}) \subseteq live
    BY <1>1 DEF IInv, Owners
  <2>3. \A l \in Heads : In(l) \subseteq live
    BY <1>1 DEF IInv, Owners
  <2>4. UNION {In(l) : l \in Heads} \subseteq live
    BY <2>3
  <2> QED BY <2>1, <2>2, <2>4 DEF NothingLost
<1> QED
  BY <1>1, Inductive, PTL
=============================================================================
