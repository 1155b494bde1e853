-------------------------------- MODULE Site --------------------------------
(***************************************************************************)
(* The pages of the blog (cgi/blog.c, cgi/login.c) and what guards them    *)
(* (the routes of cgi/init.c, check_authorized): browsers that ask for     *)
(* pages, follow redirects and send the forms that the pages show them,    *)
(* sessions that expire, and the table of blogs.                           *)
(*                                                                         *)
(* The server (libholyhttp) runs one handler at a time, so a request is a  *)
(* step.  A statement on the table is what module Rows says it is, or      *)
(* fails; one whose content is so long that the buffer of the command ends *)
(* in it is what is left of it.  The content of a blog and the time of its *)
(* last edit, which every edit gives anew, go the way of its title.        *)
(***************************************************************************)
EXTENDS Rows

CONSTANTS
  Browser,
  Title,
  MaxId, MaxTime,  \* bounds on ids and on the clock
  Faults,          \* which of FaultKinds may happen
  None, New

FaultKinds ==
  { "table",  \* a statement fails
    "cut" }   \* the command of an add or a set is cut short

ASSUME SiteAssumption ==
  /\ Column = {"title", "created_time"}
  /\ Unique = {"title"}
  /\ Value = Title \cup 0 .. MaxTime
  /\ MaxId \in Nat /\ MaxTime \in Nat
  /\ Faults \subseteq FaultKinds

VARIABLES
  blogs,   \* the table
  clock,   \* what get_datetime_str tells
  online,  \* the "online" of each session
  before,  \* its "url.before.login"
  form,    \* the blog whose editor a browser has open: an id, or New
  next,    \* where a browser has been redirected to
  gone,    \* history: ids of the blogs that were deleted
  hops,    \* history: redirects it has followed since its user did something
  login    \* history: logged in, and neither logged out nor expired since

server == <<blogs, clock, online, before>>
vars == <<server, form, next, gone, hops, login>>

BlogId == 1 .. MaxId

Home == [path |-> "/"]
LoginPage == [path |-> "/login"]
Logout == [path |-> "/logout"]
Add == [path |-> "/blog/add"]
Del == [path |-> "/blog/del"]
DelOf(i) == [path |-> "/blog/del", id |-> i]
Show(i) == [path |-> "/blog", id |-> i]
Mdf(i) == [path |-> "/blog/mdf", id |-> i]

Url ==
  {Home, LoginPage, Logout, Add, Del}
    \cup UNION {{Show(i), Mdf(i), DelOf(i)} : i \in BlogId}

TypeOK ==
  /\ blogs \in TableOf(MaxId)
  /\ clock \in 0 .. MaxTime
  /\ online \in [Browser -> BOOLEAN]
  /\ before \in [Browser -> Url \cup {None}]
  /\ form \in [Browser -> BlogId \cup {New, None}]
  /\ next \in [Browser -> Url \cup {None}]
  /\ gone \subseteq BlogId
  /\ hops \in [Browser -> Nat]
  /\ login \in [Browser -> BOOLEAN]

Init ==
  /\ blogs = NoRows
  /\ clock = 0
  /\ online = [b \in Browser |-> FALSE]
  /\ before = [b \in Browser |-> None]
  /\ form = [b \in Browser |-> None]
  /\ next = [b \in Browser |-> None]
  /\ gone = {}
  /\ hops = [b \in Browser |-> 0]
  /\ login = [b \in Browser |-> FALSE]

Redirect(b, u) == next' = [next EXCEPT ![b] = u]
\* A page or an error status: the browser stays.
Respond(b) == Redirect(b, None)

-----------------------------------------------------------------------------
(* Routes *)

White_NoLogin == {"/", "/blog"}
White_Del == {"/", "/login", "/blog", "/blog/del"}
White == {"/", "/login", "/blog"}

\* check_authorized keeps the URL, without what was posted, for after the login.
Refused(b, u) ==
  /\ u.path \notin White /\ ~online[b]
  /\ before' = [before EXCEPT ![b] = u]
  /\ Redirect(b, LoginPage)
  /\ UNCHANGED <<blogs, clock, online, form, gone, login>>

Admitted(b, u) == u.path \in White \/ online[b]

-----------------------------------------------------------------------------
(* Handlers of GET *)

\* cgi_index, cgi_show_blog, the form of cgi_login.
ShowPage(b, u) ==
  /\ u.path \in {"/", "/blog", "/login"}
  /\ Respond(b)
  /\ UNCHANGED <<server, form, gone, login>>

cgi_logout(b, u) ==
  /\ u = Logout
  /\ online' = [online EXCEPT ![b] = FALSE]
  /\ login' = [login EXCEPT ![b] = FALSE]
  /\ Redirect(b, LoginPage)
  /\ UNCHANGED <<blogs, clock, before, form, gone>>

\* The editor; 404 when the blog is not there.
ShowEditor(b, u) ==
  /\ \/ u = Add /\ form' = [form EXCEPT ![b] = New]
     \/ u.path = "/blog/mdf"
        /\ form' = [form EXCEPT ![b] = IF u.id \in DOMAIN blogs.rows THEN u.id ELSE @]
  /\ Respond(b)
  /\ UNCHANGED <<server, gone, login>>

Storable(new) == new # Failed /\ new.next <= MaxId + 1

\* The statement succeeds, or nothing has changed and the answer is 500.
Execute(b, new, u) ==
  \/ Storable(new) /\ blogs' = new /\ Redirect(b, u)
  \/ (new = Failed \/ "table" \in Faults) /\ UNCHANGED blogs /\ Respond(b)

\* Looks for an id, in the URL or posted, and not at the method.  Deleting what is not
\* there succeeds.
cgi_del_blog(b, arg) ==
  /\ arg.path = "/blog/del"
  /\ IF "id" \in DOMAIN arg
     THEN Execute(b, Delete(blogs, Where(Id, arg.id)), Home)
     ELSE Respond(b) /\ UNCHANGED blogs  \* 400
  /\ gone' = gone \cup (DOMAIN blogs.rows \ DOMAIN blogs'.rows)
  /\ UNCHANGED <<clock, online, before, form, login>>

Get(b, u) ==
  \/ Refused(b, u)
  \/ /\ Admitted(b, u)
     /\ ShowPage(b, u) \/ cgi_logout(b, u) \/ ShowEditor(b, u) \/ cgi_del_blog(b, u)

-----------------------------------------------------------------------------
(* Handlers of POST *)

cgi_login(b) ==
  \/ /\ online' = [online EXCEPT ![b] = TRUE]
     /\ login' = [login EXCEPT ![b] = TRUE]
     /\ Redirect(b, IF before[b] \in {None, LoginPage} THEN Home ELSE before[b])
     /\ UNCHANGED <<blogs, clock, before, form, gone>>
  \/ /\ Redirect(b, LoginPage)  \* wrong name or password
     /\ UNCHANGED <<server, form, gone, login>>

\* A command that is cut stores the blog when all that is lost is the question for its
\* id (table.c:149); the answer is 500 all the same.
cgi_add_blog(b) ==
  /\ form[b] = New
  /\ \/ Refused(b, Add)
     \/ /\ Admitted(b, Add)
        /\ \E t \in Title :
             LET new == Insert(blogs, [c \in Column |-> IF c = "title" THEN t ELSE clock]) IN
             \/ Execute(b, new, Show(FreshId(blogs)))
             \/ /\ "cut" \in Faults
                /\ (Storable(new) /\ blogs' = new) \/ UNCHANGED blogs
                /\ Respond(b)
        /\ UNCHANGED <<clock, online, before, form, gone, login>>

Modified_Created(r, t) == [r EXCEPT !["title"] = t, !["created_time"] = clock]
Modified_Unchecked(r, t) == [r EXCEPT !["title"] = None]  \* a form without a title
Modified(r, t) == [r EXCEPT !["title"] = t]

\* Reads the row, changes what the form has and writes all of it back.  A command that
\* is cut behind the id, or in it, writes it elsewhere (table.c:388-391).
cgi_modify_blog(b) ==
  /\ form[b] \in BlogId
  /\ \/ Refused(b, Mdf(form[b]))
     \/ /\ Admitted(b, Mdf(form[b]))
        /\ IF form[b] \in DOMAIN blogs.rows
           THEN LET mine == Where(Id, form[b])
                    put(w, t) == Update(blogs, w, Modified(blogs.rows[form[b]], t)) IN
                \E t \in Title :
                  \/ \E w \in {mine} \cup IF "cut" \in Faults THEN CutShort(mine) ELSE {} :
                       Execute(b, put(w, t), Show(form[b]))
                  \/ "cut" \in Faults /\ UNCHANGED blogs /\ Respond(b)
           ELSE Respond(b) /\ UNCHANGED blogs
        /\ UNCHANGED <<clock, online, before, form, gone, login>>

\* The script of blog.html posts the id; the URL that is kept is without it.
PostDel(b) ==
  \/ Refused(b, Del)
  \/ Admitted(b, Del) /\ \E i \in BlogId : cgi_del_blog(b, DelOf(i))

-----------------------------------------------------------------------------

\* 15 minutes without a request.
Expire(b) ==
  /\ online' = [online EXCEPT ![b] = FALSE]
  /\ before' = [before EXCEPT ![b] = None]
  /\ login' = [login EXCEPT ![b] = FALSE]
  /\ UNCHANGED <<blogs, clock, form, next, gone, hops>>

\* Local time: it goes back too.
Tick ==
  /\ clock' \in 0 .. MaxTime \ {clock}
  /\ UNCHANGED <<blogs, online, before, form, next, gone, hops, login>>

Follow(b) ==
  /\ next[b] # None
  /\ Get(b, next[b])
  /\ hops' = [hops EXCEPT ![b] = IF next'[b] = None THEN 0 ELSE @ + 1]

\* The user clicks, types an address or submits when no redirect is under way.
User(b) ==
  /\ next[b] = None
  /\ \/ \E u \in Url : Get(b, u)
     \/ cgi_login(b) \/ cgi_add_blog(b) \/ cgi_modify_blog(b) \/ PostDel(b)
  /\ hops' = [hops EXCEPT ![b] = IF next'[b] = None THEN 0 ELSE 1]

Next == Tick \/ \E b \in Browser : Follow(b) \/ User(b) \/ Expire(b)

Spec == Init /\ [][Next]_vars
-----------------------------------------------------------------------------
(* Properties *)

\* The id of a blog that was deleted never names another one: an editor, a link
\* or a redirect that still has it cannot reach a blog it was not meant for.
DeletedStaysDeleted == DOMAIN blogs.rows \cap gone = {}

\* The time of creation stays, whoever edits (cgi_modify_blog writes back what it has
\* read, blog.c:116-123), however the clock goes, and also when a cut command reaches
\* every row, which the unique titles stop.  Only a cut id takes the time of the edited
\* blog to another one (EditsStay).
CreationKept ==
  [][\A i \in DOMAIN blogs.rows \cap DOMAIN blogs'.rows :
       LET created(t, j) == t.rows[j]["created_time"] IN
       \/ created(blogs', i) = created(blogs, i)
       \/ /\ "cut" \in Faults
          /\ \E b \in Browser :
               /\ form[b] \in DOMAIN blogs.rows \ {i} /\ i \in Shortened(form[b])
               /\ created(blogs', i) = created(blogs, form[b])]_vars

\* set changes a row "by its id" (table.h:118): an edit changes the blog whose
\* editor is open, and no other.
EditsStay ==
  [][\A i \in DOMAIN blogs.rows \cap DOMAIN blogs'.rows :
       blogs'.rows[i] # blogs.rows[i] => \E b \in Browser : form[b] = i]_vars

\* Only who has logged in, and has neither logged out nor been away too long since,
\* changes the blogs.  A redirect changes them only after a login, and then it does no
\* more than the deletion that this session was refused before (cgi_del_blog takes a
\* GET, and check_authorized has kept its URL, login.c:24).
ChangesNeedLogin ==
  [][blogs' # blogs =>
       \E b \in Browser :
         /\ login[b]
         /\ \/ next[b] = None
            \/ \E i \in BlogId :
                 /\ next[b] = DelOf(i) /\ before[b] = DelOf(i)
                 /\ blogs' = Delete(blogs, Where(Id, i))]_vars

\* Every chain of redirects ends, and soon: after a login at the page that was asked
\* for before, at the form for the next login if that was /logout, or at the index if
\* it was a deletion.
RedirectsEnd == \A b \in Browser : hops[b] <= 2
=============================================================================
