----------------------------- MODULE Site_proofs -----------------------------
(* For any browsers, titles and bounds: the id of a deleted blog is not used  *)
(* again, the time of creation stays, only who is logged in changes blogs,    *)
(* and redirects end.                                                         *)
EXTENDS Site, TLAPS

(* What the statements leave of a table, for any columns and values. *)

\* A table whose ids are below the next one.
Sound(t) ==
  /\ t = [rows |-> t.rows, next |-> t.next]
  /\ t.next \in Nat \ {0}
  /\ t.rows = [i \in DOMAIN t.rows |-> t.rows[i]]
  /\ DOMAIN t.rows \subseteq 1 .. (t.next - 1)
  /\ \A i \in DOMAIN t.rows : t.rows[i] \in Row

\* With AUTOINCREMENT the id of a new row is the one that is remembered.
LEMMA FreshIdIsNext == ASSUME NEW t, Sound(t) PROVE FreshId(t) = t.next
<1> DEFINE S == {t.next} \cup {j + 1 : j \in DOMAIN t.rows}
           P(i) == i >= t.next /\ \A j \in DOMAIN t.rows : j < i
<1>1. t.next \in S /\ P(t.next)
  BY DEF Sound
<1>2. \A i \in S : P(i) => i = t.next
  BY DEF Sound
<1>3. FreshId(t) = CHOOSE i \in S : P(i)
  BY DEF FreshId
<1> QED
  BY <1>1, <1>2, <1>3

\* An INSERT adds the row under the next id, and keeps the others.
LEMMA InsertAdds ==
  ASSUME NEW t, Sound(t), NEW r \in Row, Insert(t, r) # Failed
  PROVE  /\ Sound(Insert(t, r))
         /\ Insert(t, r).next = t.next + 1
         /\ DOMAIN Insert(t, r).rows = DOMAIN t.rows \cup {t.next}
         /\ \A i \in DOMAIN t.rows : Insert(t, r).rows[i] = t.rows[i]
         /\ Insert(t, r).rows[t.next] = r
<1> DEFINE f == [i \in DOMAIN t.rows \cup {t.next} |-> IF i = t.next THEN r ELSE t.rows[i]]
<1>1. Insert(t, r) = [rows |-> f, next |-> t.next + 1]
  BY FreshIdIsNext DEF Insert, Added
<1>3. t.next \notin DOMAIN t.rows
  BY DEF Sound
<1>4. /\ DOMAIN f = DOMAIN t.rows \cup {t.next}
      /\ \A i \in DOMAIN t.rows : f[i] = t.rows[i]
      /\ f[t.next] = r /\ f = [i \in DOMAIN f |-> f[i]]
  BY <1>3
<1> HIDE DEF f
<1>5. Sound(Insert(t, r))
  BY <1>1, <1>4 DEF Sound
<1> QED
  BY <1>1, <1>4, <1>5

\* A DELETE keeps the other rows, and the next id.
LEMMA DeleteKeeps ==
  ASSUME NEW t, Sound(t), NEW w
  PROVE  /\ Sound(Delete(t, w))
         /\ Delete(t, w).next = t.next
         /\ DOMAIN Delete(t, w).rows \subseteq DOMAIN t.rows
         /\ \A i \in DOMAIN Delete(t, w).rows : Delete(t, w).rows[i] = t.rows[i]
<1> DEFINE S == DOMAIN t.rows \ Matching(t, w)
<1>1. Delete(t, w) = [rows |-> [i \in S |-> t.rows[i]], next |-> t.next]
  BY DEF Delete, Without, Restrict, Sound
<1> HIDE DEF S
<1>2. S \subseteq DOMAIN t.rows
  BY DEF S
<1>3. Sound(Delete(t, w))
  BY <1>1, <1>2 DEF Sound
<1> QED
  BY <1>1, <1>2, <1>3

\* An UPDATE of all columns puts the new row in the place of every row it names, and
\* can name only one when a column is unique.
LEMMA UpdatePuts ==
  ASSUME NEW t, Sound(t), NEW w, NEW r \in Row, Id \notin Column, Unique # {},
         Update(t, w, r) # Failed
  PROVE  /\ Sound(Update(t, w, r))
         /\ Update(t, w, r).next = t.next
         /\ DOMAIN Update(t, w, r).rows = DOMAIN t.rows
         /\ \A i \in DOMAIN t.rows :
              Update(t, w, r).rows[i] = IF i \in Matching(t, w) THEN r ELSE t.rows[i]
         /\ \A i, j \in Matching(t, w) : i = j
<1> DEFINE ids == Matching(t, w)
           id(i) == IF i \in ids /\ Id \in DOMAIN r THEN r[Id] ELSE i
           row(i) == [c \in Column |->
                       IF i \in ids /\ c \in DOMAIN r THEN r[c] ELSE t.rows[i][c]]
           new == [j \in {id(i) : i \in DOMAIN t.rows} |->
                    row(CHOOSE i \in DOMAIN t.rows : id(i) = j)]
<1>1. ids \subseteq DOMAIN t.rows
  BY DEF Matching
<1>2. DOMAIN r = Column
  BY DEF Row
<1>3. /\ Update(t, w, r) = [t EXCEPT !.rows = new]
      /\ \A i, j \in DOMAIN t.rows : i # j => ~Clash(row(i), row(j))
  BY DEF Update, Change
<1>4. \A i : id(i) = i
  BY <1>2
<1>5. \A i \in DOMAIN t.rows : row(i) = IF i \in ids THEN r ELSE t.rows[i]
  BY <1>2 DEF Sound, Row
<1> HIDE DEF id, row
<1>6. {id(i) : i \in DOMAIN t.rows} = DOMAIN t.rows
  BY <1>4
<1>7. \A j \in DOMAIN t.rows : (CHOOSE i \in DOMAIN t.rows : id(i) = j) = j
  BY <1>4
<1>8. new = [j \in DOMAIN t.rows |-> IF j \in ids THEN r ELSE t.rows[j]]
  BY <1>5, <1>6, <1>7
<1>9. Update(t, w, r) = [rows |-> new, next |-> t.next]
  BY <1>3 DEF Sound
<1>10. \A i, j \in ids : i = j
  BY <1>1, <1>3, <1>5 DEF Clash
<1> HIDE DEF new, ids
<1>11. DOMAIN new = DOMAIN t.rows /\ new = [j \in DOMAIN new |-> new[j]]
       /\ \A i \in DOMAIN t.rows : new[i] = IF i \in ids THEN r ELSE t.rows[i]
  BY <1>8
<1>12. Sound(Update(t, w, r))
  BY <1>9, <1>11 DEF Sound
<1> QED
  BY <1>9, <1>10, <1>11, <1>12 DEF ids

-----------------------------------------------------------------------------
(* The pages *)

\* The types of what the browsers and the sessions keep.
Typed ==
  /\ clock \in 0 .. MaxTime
  /\ online \in [Browser -> BOOLEAN]
  /\ before \in [Browser -> Url \cup {None}]
  /\ form \in [Browser -> BlogId \cup {New, None}]
  /\ next \in [Browser -> Url \cup {None}]
  /\ gone \subseteq BlogId
  /\ hops \in [Browser -> Nat]
  /\ login \in [Browser -> BOOLEAN]

\* Rows, and the ids of deleted ones, have ids below the next.
Blogs ==
  /\ Sound(blogs)
  /\ blogs.next <= MaxId + 1
  /\ gone \subseteq 1 .. (blogs.next - 1)
  /\ DeletedStaysDeleted

\* The session knows who is logged in, a second redirect is to a page everybody may
\* see, and one to a deletion is to what this session was refused.
Sessions ==
  /\ \A b \in Browser : online[b] => login[b]
  /\ \A b \in Browser :
       \/ next[b] = None /\ hops[b] = 0
       \/ hops[b] = 1
       \/ hops[b] = 2 /\ next[b] \in {LoginPage, Home}
  /\ \A b \in Browser : \A i \in BlogId :
       online[b] /\ next[b] # None /\ next[b] = DelOf(i) => before[b] = DelOf(i)

IInv == Typed /\ Blogs /\ Sessions

\* The bounds.
LEMMA Bounds == MaxId \in Nat /\ MaxTime \in Nat
BY SiteAssumption, Zenon DEF SiteAssumption

\* It holds before the first request.
LEMMA InitIInv == Init => IInv
<1> SUFFICES ASSUME Init PROVE IInv
  OBVIOUS
<1> USE Bounds
<1>1. Typed
  <2>1. clock \in 0 .. MaxTime /\ gone \subseteq BlogId
    BY DEF Init
  <2>2. \A v, S : v \in S => [b \in Browser |-> v] \in [Browser -> S]
    OBVIOUS
  <2> QED
    BY <2>1, <2>2 DEF Init, Typed
<1>2. DOMAIN NoRows.rows = {} /\ NoRows.next = 1 /\ Sound(NoRows)
  BY DEF NoRows, Sound
<1>3. Blogs
  BY <1>2 DEF Init, Blogs, DeletedStaysDeleted
<1>4. Sessions
  BY DEF Init, Sessions
<1> QED
  BY <1>1, <1>3, <1>4 DEF IInv

\* A step that leaves the table and the deleted ids alone.
LEMMA TableKept ==
  ASSUME IInv, UNCHANGED <<blogs, gone>>
  PROVE  Blogs'
BY DEF IInv, Blogs, DeletedStaysDeleted

\* What CreationKept says of a step.
Kept ==
  \A i \in DOMAIN blogs.rows \cap DOMAIN blogs'.rows :
    \/ blogs'.rows[i]["created_time"] = blogs.rows[i]["created_time"]
    \/ /\ "cut" \in Faults
       /\ \E b \in Browser :
            /\ form[b] \in DOMAIN blogs.rows \ {i} /\ i \in Shortened(form[b])
            /\ blogs'.rows[i]["created_time"] = blogs.rows[form[b]]["created_time"]

\* When no blog changes, nothing of one does.
LEMMA SameBlogsKept == ASSUME UNCHANGED blogs PROVE Kept
BY DEF Kept

\* What the handlers put into a row is a value, and titles are unique.
LEMMA TimesAreValues ==
  /\ Row = [{"title", "created_time"} -> Value]
  /\ Title \subseteq Value
  /\ \A n \in 0 .. MaxTime : n \in Value
BY SiteAssumption, Zenon DEF SiteAssumption, Row

\* ... and the id is no column.
LEMMA IdApart == Id \notin Column /\ Unique # {}
<1>1. Column = {"title", "created_time"} /\ Unique = {"title"}
  BY SiteAssumption, Zenon DEF SiteAssumption
<1> QED
  BY <1>1 DEF Id

\* The URLs.
LEMMA Paths ==
  /\ Home.path = "/" /\ LoginPage.path = "/login" /\ Logout.path = "/logout"
  /\ Add.path = "/blog/add" /\ Del.path = "/blog/del"
  /\ \A i : DelOf(i).path = "/blog/del" /\ Show(i).path = "/blog" /\ Mdf(i).path = "/blog/mdf"
  /\ {Home, LoginPage, Logout, Add, Del} \subseteq Url
  /\ \A i \in BlogId : DelOf(i) \in Url /\ Show(i) \in Url /\ Mdf(i) \in Url
BY DEF Home, LoginPage, Logout, Add, Del, DelOf, Show, Mdf, Url

\* An URL of /blog/del with an id is that of a blog.
LEMMA DeletingUrl ==
  ASSUME NEW u \in Url, u.path = "/blog/del", "id" \in DOMAIN u
  PROVE  u.id \in BlogId /\ u = DelOf(u.id)
<1>1. u \notin {Home, LoginPage, Logout, Add} /\ \A i : u # Show(i) /\ u # Mdf(i)
  BY Paths
<1>2. u # Del
  BY DEF Del
<1>3. PICK i \in BlogId : u = DelOf(i)
  BY <1>1, <1>2 DEF Url
<1> QED
  BY <1>3 DEF DelOf

\* A new blog: the others stay, its id is fresh.
LEMMA AddKeeps ==
  ASSUME IInv, NEW t \in Title, UNCHANGED gone,
         NEW r, r = [c \in Column |-> IF c = "title" THEN t ELSE clock],
         Storable(Insert(blogs, r)), blogs' = Insert(blogs, r)
  PROVE  Blogs' /\ Kept /\ Show(FreshId(blogs)) \in Url
<1> USE Bounds DEF IInv
<1>1. r \in Row
  <2>1. clock \in 0 .. MaxTime
    BY DEF Typed
  <2>2. \A c \in Column : r[c] \in Value
    BY <2>1, TimesAreValues
  <2> QED
    BY <2>2 DEF Row
<1>2. /\ Sound(blogs')
      /\ blogs'.next = blogs.next + 1
      /\ DOMAIN blogs'.rows = DOMAIN blogs.rows \cup {blogs.next}
      /\ \A i \in DOMAIN blogs.rows : blogs'.rows[i] = blogs.rows[i]
  BY <1>1, InsertAdds DEF Blogs, Storable
<1>3. blogs.next \in Nat \ {0} /\ blogs.next \notin DOMAIN blogs.rows /\ blogs.next \notin gone
  BY DEF Blogs, Sound
<1>4. blogs.next \in BlogId
  BY <1>2, <1>3 DEF BlogId, Storable
<1>5. Show(FreshId(blogs)) \in Url
  BY <1>4, FreshIdIsNext, Paths DEF Blogs
<1>6. Blogs'
  BY <1>2, <1>3 DEF Blogs, DeletedStaysDeleted, Storable
<1>7. Kept
  BY <1>2, <1>3 DEF Kept
<1> QED
  BY <1>5, <1>6, <1>7

\* What the condition of a set names: the row, one with a shortened id, or all.
LEMMA NamedRows ==
  ASSUME NEW k, NEW w \in {Where(Id, k)} \cup CutShort(Where(Id, k)), NEW t,
         NEW i \in Matching(t, w)
  PROVE  \/ i = k
         \/ w # Where(Id, k) /\ i \in Shortened(k)
         \/ w # Where(Id, k) /\ Matching(t, w) = DOMAIN t.rows
<1> USE IdApart
<1>1. \A j : Where(Id, j).col = Id /\ Where(Id, j).val = j /\ Where(Id, j) # Everywhere
  BY DEF Where, Everywhere
<1>2. \A j : i \in Matching(t, Where(Id, j)) => i = j
  BY <1>1 DEF Matching
<1>3. CutShort(Where(Id, k)) = {Where(Id, j) : j \in Shortened(k)} \cup {Everywhere}
  BY <1>1 DEF CutShort
<1>4. Matching(t, Everywhere) = DOMAIN t.rows
  BY DEF Matching
<1>5. CASE w = Everywhere
  BY <1>1, <1>4, <1>5
<1>6. ASSUME NEW j \in Shortened(k), w = Where(Id, j), j # k PROVE w # Where(Id, k)
  BY <1>1, <1>6
<1> QED
  BY <1>2, <1>3, <1>5, <1>6

\* An edit: every blog keeps its id and its time of creation, but for the one that a
\* shortened id names; if all are named, there is only one.
LEMMA ModifyKeeps ==
  ASSUME IInv, NEW b \in Browser, NEW t \in Title, UNCHANGED gone,
         NEW k \in DOMAIN blogs.rows, form[b] = k,
         NEW w \in {Where(Id, k)} \cup CutShort(Where(Id, k)),
         w = Where(Id, k) \/ "cut" \in Faults,
         Storable(Update(blogs, w, Modified(blogs.rows[k], t))),
         blogs' = Update(blogs, w, Modified(blogs.rows[k], t))
  PROVE  Blogs' /\ Kept
<1> USE Bounds DEF IInv
<1> DEFINE r == Modified(blogs.rows[k], t)
<1>1. r \in Row /\ r["created_time"] = blogs.rows[k]["created_time"]
  <2>1. blogs.rows[k] \in Row
    BY DEF Blogs, Sound
  <2> QED
    BY <2>1, TimesAreValues DEF Modified
<1> HIDE DEF r
<1>2. /\ Sound(blogs')
      /\ blogs'.next = blogs.next
      /\ DOMAIN blogs'.rows = DOMAIN blogs.rows
      /\ \A i \in DOMAIN blogs.rows :
           blogs'.rows[i] = IF i \in Matching(blogs, w) THEN r ELSE blogs.rows[i]
      /\ \A i, j \in Matching(blogs, w) : i = j
  <2>1. Sound(blogs) /\ blogs' = Update(blogs, w, r) /\ Update(blogs, w, r) # Failed
    BY DEF Blogs, Storable, r
  <2> QED
    BY <1>1, <2>1, IdApart, UpdatePuts
<1>3. Blogs'
  BY <1>2 DEF Blogs, DeletedStaysDeleted
<1>4. Kept
  <2> SUFFICES ASSUME NEW i \in DOMAIN blogs.rows,
                      i \in Matching(blogs, w), i # k
               PROVE  "cut" \in Faults /\ i \in Shortened(k)
    BY <1>1, <1>2 DEF Kept
  <2>1. w # Where(Id, k) /\ (i \in Shortened(k) \/ Matching(blogs, w) = DOMAIN blogs.rows)
    BY NamedRows
  <2> QED
    BY <1>2, <2>1
<1> QED
  BY <1>3, <1>4

\* A deleted blog: the others stay, and its id is remembered.
LEMMA DeleteRemembers ==
  ASSUME IInv, NEW i \in BlogId, blogs' = Delete(blogs, Where(Id, i)),
         gone' = gone \cup (DOMAIN blogs.rows \ DOMAIN blogs'.rows)
  PROVE  Blogs' /\ Kept
<1> USE Bounds DEF IInv
<1>1. /\ Sound(blogs')
      /\ blogs'.next = blogs.next
      /\ DOMAIN blogs'.rows \subseteq DOMAIN blogs.rows
      /\ \A j \in DOMAIN blogs'.rows : blogs'.rows[j] = blogs.rows[j]
  BY DeleteKeeps DEF Blogs
<1>2. gone' \subseteq 1 .. (blogs'.next - 1)
  BY <1>1 DEF Blogs, Sound
<1>3. DOMAIN blogs'.rows \cap gone' = {}
  BY <1>1 DEF Blogs, DeletedStaysDeleted
<1> QED
  BY <1>1, <1>2, <1>3 DEF Blogs, DeletedStaysDeleted, Kept

\* The deletions of GET and POST.
LEMMA DelServes ==
  ASSUME IInv, NEW b \in Browser, NEW u \in Url, cgi_del_blog(b, u)
  PROVE  /\ Blogs' /\ Kept /\ gone' \subseteq BlogId
         /\ \E v \in {None, Home} : next' = [next EXCEPT ![b] = v]
         /\ blogs' # blogs => \E i \in BlogId : u = DelOf(i) /\ blogs' = Delete(blogs, Where(Id, i))
<1>1. u.path = "/blog/del" /\ gone' = gone \cup (DOMAIN blogs.rows \ DOMAIN blogs'.rows)
  BY DEF cgi_del_blog
<1>2. gone' \subseteq BlogId
  BY <1>1, Bounds DEF IInv, Typed, Blogs, Sound, BlogId
<1>3. CASE UNCHANGED blogs
  <2>1. gone' = gone
    BY <1>1, <1>3
  <2>2. \E v \in {None, Home} : next' = [next EXCEPT ![b] = v]
    BY DEF cgi_del_blog, Execute, Respond, Redirect
  <2> QED
    BY <1>2, <1>3, <2>1, <2>2, TableKept, SameBlogsKept
<1>4. CASE blogs' # blogs
  <2>1. /\ "id" \in DOMAIN u /\ blogs' = Delete(blogs, Where(Id, u.id))
        /\ next' = [next EXCEPT ![b] = Home]
    BY <1>4 DEF cgi_del_blog, Execute, Redirect
  <2>2. u.id \in BlogId /\ u = DelOf(u.id)
    BY <1>1, <2>1, DeletingUrl
  <2> QED
    BY <1>1, <1>2, <2>1, <2>2, DeleteRemembers
<1> QED
  BY <1>3, <1>4

\* What a request of browser b leaves.
Served(b) ==
  /\ online' \in [Browser -> BOOLEAN] /\ login' \in [Browser -> BOOLEAN]
  /\ before' \in [Browser -> Url \cup {None}]
  /\ form' \in [Browser -> BlogId \cup {New, None}]
  /\ \A c \in Browser : online'[c] => login'[c]
  /\ \E v \in Url \cup {None} : next' = [next EXCEPT ![b] = v]
  /\ UNCHANGED clock /\ gone' \subseteq BlogId
  /\ Blogs' /\ Kept
  /\ blogs' # blogs => login[b]
  /\ \A c \in Browser \ {b} : online'[c] = online[c] /\ before'[c] = before[c]
  /\ \A i \in BlogId : next'[b] # None /\ next'[b] = DelOf(i) => before'[b] = DelOf(i)

\* Outside the white list the session must be online.
LEMMA AdmittedOnline ==
  ASSUME IInv, NEW b \in Browser, NEW u, Admitted(b, u), u.path \notin White
  PROVE  login[b]
BY DEF IInv, Sessions, Admitted

\* A GET leads to the form of the login, to the index, or nowhere, and changes no blog
\* unless it asks for a deletion.
LEMMA GetServed ==
  ASSUME IInv, NEW b \in Browser, NEW u \in Url, Get(b, u)
  PROVE  /\ Served(b)
         /\ next'[b] \in {None, LoginPage, Home}
         /\ u \in {LoginPage, Home} => next'[b] = None
         /\ blogs' # blogs => \E i \in BlogId : u = DelOf(i) /\ blogs' = Delete(blogs, Where(Id, i))
<1> USE DEF IInv, Typed, Sessions
<1>0. /\ \A i : DelOf(i) \notin {LoginPage, Home}
      /\ LoginPage \in Url /\ Home \in Url
      /\ \A v \in {LoginPage, Home} :
           v.path \in White /\ v # Logout /\ v # Add /\ v.path # "/blog/mdf" /\ v.path # "/blog/del"
  BY Paths DEF White
<1>1. CASE Refused(b, u)
  <2>1. /\ UNCHANGED <<blogs, clock, online, form, gone, login>>
        /\ before' = [before EXCEPT ![b] = u] /\ next' = [next EXCEPT ![b] = LoginPage]
        /\ u \notin {LoginPage, Home}
    BY <1>0, <1>1 DEF Refused, Redirect
  <2>2. Blogs' /\ Kept
    BY <2>1, TableKept, SameBlogsKept
  <2> QED
    BY <1>0, <2>1, <2>2 DEF Served
<1>2. CASE ShowPage(b, u)
  <2>1. UNCHANGED <<server, form, gone, login>> /\ next' = [next EXCEPT ![b] = None]
    BY <1>2 DEF ShowPage, Respond, Redirect
  <2>2. Blogs' /\ Kept
    BY <2>1, TableKept, SameBlogsKept DEF server
  <2> QED
    BY <2>1, <2>2 DEF Served, server
<1>3. CASE cgi_logout(b, u)
  <2>1. /\ UNCHANGED <<blogs, clock, before, form, gone>>
        /\ online' = [online EXCEPT ![b] = FALSE] /\ login' = [login EXCEPT ![b] = FALSE]
        /\ next' = [next EXCEPT ![b] = LoginPage]
        /\ u \notin {LoginPage, Home}
    BY <1>0, <1>3 DEF cgi_logout, Redirect
  <2>2. Blogs' /\ Kept
    BY <2>1, TableKept, SameBlogsKept
  <2> QED
    BY <1>0, <2>1, <2>2 DEF Served
<1>4. CASE ShowEditor(b, u)
  <2>1. form' \in [Browser -> BlogId \cup {New, None}]
    BY <1>4, Bounds DEF ShowEditor, Blogs, Sound, BlogId
  <2>2. UNCHANGED <<server, gone, login>> /\ next' = [next EXCEPT ![b] = None]
    BY <1>4 DEF ShowEditor, Respond, Redirect
  <2>3. Blogs' /\ Kept
    BY <2>2, TableKept, SameBlogsKept DEF server
  <2> QED
    BY <2>1, <2>2, <2>3 DEF Served, server
<1>5. CASE Admitted(b, u) /\ cgi_del_blog(b, u)
  <2>1. UNCHANGED <<clock, online, before, form, login>> /\ u \notin {LoginPage, Home}
    BY <1>0, <1>5 DEF cgi_del_blog
  <2>2. login[b]
    BY <1>5, AdmittedOnline DEF cgi_del_blog, White
  <2>3. PICK v \in {None, Home} : next' = [next EXCEPT ![b] = v]
    BY <1>5, DelServes
  <2>4. /\ Blogs' /\ Kept /\ gone' \subseteq BlogId
        /\ blogs' # blogs => \E i \in BlogId : u = DelOf(i) /\ blogs' = Delete(blogs, Where(Id, i))
    BY <1>5, DelServes
  <2> QED
    BY <1>0, <2>1, <2>2, <2>3, <2>4 DEF Served
<1> QED
  BY <1>1, <1>2, <1>3, <1>4, <1>5 DEF Get

\* A form that is refused is served like a GET.
LEMMA RefusedServed ==
  ASSUME IInv, NEW b \in Browser, NEW u \in Url, Refused(b, u)
  PROVE  Served(b)
<1>1. Get(b, u)
  BY DEF Get
<1> QED
  BY <1>1, GetServed

\* A handler that is admitted, touches only the table and leads to a page.
LEMMA FormServed ==
  ASSUME IInv, NEW b \in Browser, UNCHANGED <<clock, online, before, form, gone, login>>,
         login[b], Blogs', Kept,
         NEW v, next' = [next EXCEPT ![b] = v], v = None \/ \E i \in BlogId : v = Show(i)
  PROVE  Served(b)
<1>1. v \in Url \cup {None}
  BY Paths
<1>2. v # None => \A i : v # DelOf(i)
  BY Paths
<1>3. next'[b] = v
  BY DEF IInv, Typed
<1> QED
  BY <1>1, <1>2, <1>3 DEF Served, IInv, Typed, Sessions

\* The handlers of the forms.
LEMMA PostServed ==
  ASSUME IInv, NEW b \in Browser,
         cgi_login(b) \/ cgi_add_blog(b) \/ cgi_modify_blog(b) \/ PostDel(b)
  PROVE  Served(b)
<1> USE DEF IInv, Typed
<1>1. CASE cgi_login(b)
  <2>1. UNCHANGED <<blogs, clock, gone, form, before>>
    BY <1>1 DEF cgi_login, server
  <2>2. Blogs' /\ Kept
    BY <2>1, TableKept, SameBlogsKept
  <2>3. LoginPage \in Url /\ Home \in Url /\ \A i : DelOf(i) \notin {LoginPage, Home}
    BY Paths
  <2>4. PICK v \in {LoginPage, Home, before[b]} : next' = [next EXCEPT ![b] = v]
    BY <1>1 DEF cgi_login, Redirect
  <2>5. /\ online' \in [Browser -> BOOLEAN] /\ login' \in [Browser -> BOOLEAN]
        /\ \A c \in Browser : online'[c] => login'[c]
        /\ \A c \in Browser \ {b} : online'[c] = online[c]
    BY <1>1 DEF cgi_login, server, Sessions
  <2>6. v \in Url \cup {None} /\ next'[b] = v
    BY <2>3, <2>4
  <2> QED
    BY <2>1, <2>2, <2>3, <2>4, <2>5, <2>6 DEF Served
<1>2. CASE cgi_add_blog(b)
  <2>1. CASE Refused(b, Add)
    BY <2>1, RefusedServed, Paths
  <2>2. CASE ~Refused(b, Add)
    <3>1. /\ Admitted(b, Add) /\ UNCHANGED <<clock, online, before, form, gone, login>>
      BY <1>2, <2>2 DEF cgi_add_blog
    <3>2. PICK t \in Title :
            LET new == Insert(blogs, [c \in Column |-> IF c = "title" THEN t ELSE clock]) IN
            \/ Execute(b, new, Show(FreshId(blogs)))
            \/ ((Storable(new) /\ blogs' = new) \/ UNCHANGED blogs) /\ Respond(b)
      BY <1>2, <2>2 DEF cgi_add_blog
    <3>3. login[b]
      BY <3>1, AdmittedOnline, Paths DEF White
    <3> DEFINE r == [c \in Column |-> IF c = "title" THEN t ELSE clock]
    <3>4. CASE Storable(Insert(blogs, r)) /\ blogs' = Insert(blogs, r)
      <4>1. Blogs' /\ Kept
        BY <3>1, <3>4, AddKeeps
      <4>2. FreshId(blogs) \in BlogId
        <5>1. Sound(blogs) /\ FreshId(blogs) = blogs.next /\ blogs.next \in Nat \ {0}
          BY FreshIdIsNext DEF Blogs, Sound
        <5>2. blogs'.next = blogs.next + 1 /\ blogs'.next <= MaxId + 1
          BY <3>4, <5>1 DEF Storable, Insert, Added
        <5> QED
          BY <5>1, <5>2, Bounds DEF BlogId
      <4>3. \E v \in {None, Show(FreshId(blogs))} : next' = [next EXCEPT ![b] = v]
        BY <3>2 DEF Execute, Respond, Redirect
      <4> QED
        BY <3>1, <3>3, <4>1, <4>2, <4>3, FormServed
    <3>5. CASE UNCHANGED blogs /\ Respond(b)
      BY <3>1, <3>3, <3>5, TableKept, SameBlogsKept, FormServed DEF Respond, Redirect
    <3> QED
      BY <3>2, <3>4, <3>5 DEF Execute
  <2> QED
    BY <2>1, <2>2
<1>3. CASE cgi_modify_blog(b)
  <2> DEFINE k == form[b]
  <2>1. k \in BlogId /\ Mdf(k) \in Url
    BY <1>3, Paths DEF cgi_modify_blog
  <2>2. CASE Refused(b, Mdf(k))
    BY <2>1, <2>2, RefusedServed
  <2>3. CASE ~Refused(b, Mdf(k))
    <3>1. Admitted(b, Mdf(k)) /\ UNCHANGED <<clock, online, before, form, gone, login>>
      BY <1>3, <2>3 DEF cgi_modify_blog
    <3>2. login[b]
      BY <3>1, AdmittedOnline, Paths DEF White
    <3>3. CASE UNCHANGED blogs /\ Respond(b)
      BY <3>1, <3>2, <3>3, TableKept, SameBlogsKept, FormServed DEF Respond, Redirect
    <3>4. CASE ~(UNCHANGED blogs /\ Respond(b))
      <4>1. k \in DOMAIN blogs.rows
        BY <1>3, <2>3, <3>4 DEF cgi_modify_blog
      <4>2. PICK t \in Title,
                 w \in {Where(Id, k)} \cup IF "cut" \in Faults THEN CutShort(Where(Id, k)) ELSE {} :
              Execute(b, Update(blogs, w, Modified(blogs.rows[k], t)), Show(k))
        BY <1>3, <2>3, <3>4, <4>1 DEF cgi_modify_blog
      <4>3. /\ Storable(Update(blogs, w, Modified(blogs.rows[k], t)))
            /\ blogs' = Update(blogs, w, Modified(blogs.rows[k], t))
            /\ next' = [next EXCEPT ![b] = Show(k)]
        BY <3>4, <4>2 DEF Execute, Redirect
      <4>4. /\ w \in {Where(Id, k)} \cup CutShort(Where(Id, k))
            /\ w = Where(Id, k) \/ "cut" \in Faults
        BY <4>2
      <4> HIDE DEF k
      <4>5. form[b] = k
        BY DEF k
      <4>6. Blogs' /\ Kept
        BY <3>1, <4>1, <4>3, <4>4, <4>5, ModifyKeeps
      <4> QED
        BY <2>1, <3>1, <3>2, <4>3, <4>6, FormServed
    <3> QED
      BY <3>3, <3>4
  <2> QED
    BY <2>2, <2>3
<1>4. CASE PostDel(b)
  <2>1. CASE Refused(b, Del)
    BY <2>1, RefusedServed, Paths
  <2>2. CASE ~Refused(b, Del)
    <3>1. Admitted(b, Del) /\ \E i \in BlogId : cgi_del_blog(b, DelOf(i))
      BY <1>4, <2>2 DEF PostDel
    <3>2. PICK i \in BlogId : cgi_del_blog(b, DelOf(i))
      BY <3>1
    <3>3. Admitted(b, DelOf(i))
      BY <3>1, Paths DEF Admitted
    <3>4. Get(b, DelOf(i))
      BY <3>2, <3>3 DEF Get
    <3> QED
      BY <3>4, GetServed, Paths
  <2> QED
    BY <2>1, <2>2
<1> QED
  BY <1>1, <1>2, <1>3, <1>4

\* What ChangesNeedLogin says of a step.
ByWhomItMay ==
  blogs' # blogs =>
    \E b \in Browser :
      /\ login[b]
      /\ \/ next[b] = None
         \/ \E i \in BlogId :
              /\ next[b] = DelOf(i) /\ before[b] = DelOf(i)
              /\ blogs' = Delete(blogs, Where(Id, i))

\* What a step keeps: the invariant, the times of creation, and who may change a blog.
Fine == IInv' /\ Kept /\ ByWhomItMay

\* After a request, the other browsers are where they were.
LEMMA SessionsStep ==
  ASSUME IInv, NEW b \in Browser, Served(b), NEW n,
         hops' = [hops EXCEPT ![b] = n],
         \/ next'[b] = None /\ hops'[b] = 0
         \/ hops'[b] = 1
         \/ hops'[b] = 2 /\ next'[b] \in {LoginPage, Home}
  PROVE  Sessions'
<1>1. \A c \in Browser \ {b} : next'[c] = next[c] /\ hops'[c] = hops[c]
                               /\ online'[c] = online[c] /\ before'[c] = before[c]
  BY DEF IInv, Typed, Served
<1>2. \A c \in Browser : online'[c] => login'[c]
  BY DEF Served
<1>3. \A c \in Browser : \/ next'[c] = None /\ hops'[c] = 0
                         \/ hops'[c] = 1
                         \/ hops'[c] = 2 /\ next'[c] \in {LoginPage, Home}
  BY <1>1 DEF IInv, Sessions
<1>4. \A c \in Browser : \A i \in BlogId :
        online'[c] /\ next'[c] # None /\ next'[c] = DelOf(i) => before'[c] = DelOf(i)
  BY <1>1 DEF IInv, Sessions, Served
<1> QED
  BY <1>2, <1>3, <1>4 DEF Sessions

\* A redirect that is followed leads to a page, to the login form or to the index.
LEMMA FollowFine == ASSUME IInv, NEW b \in Browser, Follow(b) PROVE Fine
<1>1. next[b] \in Url /\ next[b] # None /\ Get(b, next[b])
  BY DEF Follow, IInv, Typed
<1>2. /\ Served(b)
      /\ next'[b] \in {None, LoginPage, Home}
      /\ next[b] \in {LoginPage, Home} => next'[b] = None
      /\ blogs' # blogs =>
           \E i \in BlogId : next[b] = DelOf(i) /\ blogs' = Delete(blogs, Where(Id, i))
  BY <1>1, GetServed
<1>3. hops' = [hops EXCEPT ![b] = IF next'[b] = None THEN 0 ELSE hops[b] + 1]
  BY DEF Follow
<1>4. Typed'
  BY <1>2, <1>3 DEF IInv, Typed, Served
<1>5. Sessions'
  <2>1. \/ next'[b] = None /\ hops'[b] = 0
        \/ hops'[b] = 2 /\ next'[b] \in {LoginPage, Home}
    BY <1>1, <1>2, <1>3 DEF IInv, Typed, Sessions
  <2> QED
    BY <1>2, <1>3, <2>1, SessionsStep
<1>6. ByWhomItMay
  <2> SUFFICES ASSUME blogs' # blogs PROVE ByWhomItMay
    BY DEF ByWhomItMay
  <2>1. PICK i \in BlogId : next[b] = DelOf(i) /\ blogs' = Delete(blogs, Where(Id, i))
    BY <1>2
  <2>2. online[b]
    <3>1. ~Refused(b, next[b])
      BY DEF Refused
    <3>2. Admitted(b, next[b])
      BY <1>1, <3>1 DEF Get
    <3> QED
      BY <2>1, <3>2, Paths DEF Admitted, White
  <2>3. before[b] = DelOf(i) /\ login[b]
    BY <1>1, <2>1, <2>2 DEF IInv, Sessions
  <2> QED
    BY <2>1, <2>3 DEF ByWhomItMay
<1> QED
  BY <1>2, <1>4, <1>5, <1>6 DEF IInv, Served, Fine

\* What the user does starts at most one redirect.
LEMMA UserFine == ASSUME IInv, NEW b \in Browser, User(b) PROVE Fine
<1>1. Served(b)
  <2>1. ASSUME NEW u \in Url, Get(b, u) PROVE Served(b)
    BY <2>1, GetServed
  <2> QED
    BY <2>1, PostServed DEF User
<1>2. next[b] = None /\ hops' = [hops EXCEPT ![b] = IF next'[b] = None THEN 0 ELSE 1]
  BY DEF User
<1>3. Typed'
  BY <1>1, <1>2 DEF IInv, Typed, Served
<1>4. Sessions'
  <2>1. (next'[b] = None /\ hops'[b] = 0) \/ hops'[b] = 1
    BY <1>2 DEF IInv, Typed
  <2> QED
    BY <1>1, <1>2, <2>1, SessionsStep
<1>5. ByWhomItMay
  BY <1>1, <1>2 DEF ByWhomItMay, Served
<1> QED
  BY <1>1, <1>3, <1>4, <1>5 DEF IInv, Served, Fine

\* Sessions that expire, and a clock that jumps, disturb nothing.
LEMMA ExpireFine == ASSUME IInv, NEW b \in Browser, Expire(b) PROVE Fine
<1>1. Blogs' /\ Kept
  BY TableKept, SameBlogsKept DEF Expire
<1>2. Typed' /\ Sessions'
  BY DEF Expire, IInv, Typed, Sessions
<1> QED
  BY <1>1, <1>2 DEF Expire, IInv, Fine, ByWhomItMay

\* ... the latter.
LEMMA TickFine == ASSUME IInv, Tick PROVE Fine
<1>1. Blogs' /\ Kept
  BY TableKept, SameBlogsKept DEF Tick
<1>2. Typed' /\ Sessions'
  BY DEF Tick, IInv, Typed, Sessions
<1> QED
  BY <1>1, <1>2 DEF Tick, IInv, Fine, ByWhomItMay

\* Every step is fine, so the invariant holds.
LEMMA NextFine == IInv /\ [Next]_vars => IInv' /\ [Fine]_vars
<1> SUFFICES ASSUME IInv, [Next]_vars PROVE IInv' /\ [Fine]_vars
  OBVIOUS
<1>1. CASE UNCHANGED vars
  <2>1. Blogs'
    BY <1>1, TableKept DEF vars, server
  <2>2. Typed' /\ Sessions'
    BY <1>1 DEF vars, server, IInv, Typed, Sessions
  <2> QED
    BY <1>1, <2>1, <2>2 DEF IInv
<1>2. CASE Next
  <2>1. Fine
    BY <1>2, FollowFine, UserFine, ExpireFine, TickFine DEF Next
  <2> QED
    BY <2>1 DEF Fine
<1> QED
  BY <1>1, <1>2

\* The invariant and the step property hold of the whole site.
LEMMA SpecFine == Spec => []IInv /\ [][Fine]_vars
BY InitIInv, NextFine, PTL DEF Spec

\* The variables of the blog pages keep their types: ids and times stay within
\* what the handlers of cgi/blog.c give out.
THEOREM TypeCorrect == Spec => []TypeOK
<1>1. ASSUME Typed, Blogs PROVE TypeOK
  <2> DEFINE S == DOMAIN blogs.rows
  <2>1. MaxId \in Nat
    BY Bounds
  <2>2. /\ blogs = [rows |-> blogs.rows, next |-> blogs.next]
        /\ blogs.next \in 1 .. MaxId + 1
        /\ blogs.rows = [i \in S |-> blogs.rows[i]]
        /\ S \subseteq 1 .. MaxId
        /\ \A i \in S : blogs.rows[i] \in Row
    BY <1>1, <2>1 DEF Blogs, Sound
  <2>3. blogs.rows \in [S -> Row] /\ S \in SUBSET (1 .. MaxId)
    BY <2>2
  <2> HIDE DEF S
  <2>4. blogs.rows \in UNION {[R -> Row] : R \in SUBSET (1 .. MaxId)}
    BY <2>3
  <2>5. blogs \in TableOf(MaxId)
    BY <2>2, <2>4 DEF TableOf
  <2> QED
    BY <1>1, <2>5 DEF Typed, TypeOK
<1>2. IInv => TypeOK
  BY <1>1 DEF IInv
<1> QED
  BY <1>2, SpecFine, PTL

\* AUTOINCREMENT gives every blog an id of its own: a stale editor or link never
\* reaches another blog.
THEOREM NoIdTwice == Spec => []DeletedStaysDeleted
<1>1. IInv => DeletedStaysDeleted
  BY DEF IInv, Blogs
<1> QED
  BY <1>1, SpecFine, PTL

\* cgi_modify_blog writes the row back with the time of its creation; only a cut id
\* carries it to another blog.
THEOREM CreationStays == Spec => CreationKept
<1>1. [Fine]_vars =>
        [\A i \in DOMAIN blogs.rows \cap DOMAIN blogs'.rows :
           LET created(t, j) == t.rows[j]["created_time"] IN
           \/ created(blogs', i) = created(blogs, i)
           \/ /\ "cut" \in Faults
              /\ \E b \in Browser :
                   /\ form[b] \in DOMAIN blogs.rows \ {i} /\ i \in Shortened(form[b])
                   /\ created(blogs', i) = created(blogs, form[b])]_vars
  BY DEF Fine, Kept
<1> QED
  BY <1>1, SpecFine, PTL DEF CreationKept

\* The white list and check_authorized keep everybody else away, and a redirect does no
\* more than the deletion that was refused before.
THEOREM OnlyWhenLoggedIn == Spec => ChangesNeedLogin
<1>1. [Fine]_vars =>
        [blogs' # blogs =>
           \E b \in Browser :
             /\ login[b]
             /\ \/ next[b] = None
                \/ \E i \in BlogId :
                     /\ next[b] = DelOf(i) /\ before[b] = DelOf(i)
                     /\ blogs' = Delete(blogs, Where(Id, i))]_vars
  BY DEF Fine, ByWhomItMay
<1> QED
  BY <1>1, SpecFine, PTL DEF ChangesNeedLogin

\* No browser is sent in circles between a page and the login form.
THEOREM NoRedirectLoop == Spec => []RedirectsEnd
<1>1. IInv => RedirectsEnd
  BY DEF IInv, Sessions, RedirectsEnd
<1> QED
  BY <1>1, SpecFine, PTL
=============================================================================
