------------------------------ MODULE Registry ------------------------------
(***************************************************************************)
(* The database objects of a process (get_backup_obj, backup.c): one for   *)
(* each URL, found in a list under list_mutex, or else made, which opens   *)
(* the connections, and only then added to the list, under it again.       *)
(***************************************************************************)
EXTENDS DbUrl

CONSTANTS
  Thread,
  Url,      \* the URLs that are asked for
  MaxMade,  \* bound on the objects made
  Faults,   \* which of FaultKinds may happen
  None

FaultKinds == {"connect"}  \* a connection cannot be made

ASSUME RegistryAssumption ==
  /\ MaxMade \in Nat
  /\ Faults \subseteq FaultKinds
  /\ None \notin Url
  /\ \A u \in Url : u \in Seq(STRING)

VARIABLES
  backups,  \* the list: objects with their URL, and who made them
  conns,    \* the open connections: of an object, to main or to the backup
  made,     \* how many objects have been made
  pc,       \* where each thread is in get_backup_obj
  url,      \* what it asks for
  new,      \* the object it is making
  seen      \* history: an object for its URL was in the list when it called

vars == <<backups, conns, made, pc, url, new, seen>>

Object == [id : Nat, url : Url, maker : Thread]

TypeOK ==
  /\ backups \in Seq(Object)
  /\ conns \subseteq Nat \X {"main", "backup"}
  /\ made \in Nat
  /\ pc \in [Thread -> {"idle", "look", "main", "backup", "add"}]
  /\ url \in [Thread -> Url \cup {None}]
  /\ new \in [Thread -> Nat]
  /\ seen \in [Thread -> BOOLEAN]

Init ==
  /\ backups = <<>>
  /\ conns = {}
  /\ made = 0
  /\ pc = [t \in Thread |-> "idle"]
  /\ url = [t \in Thread |-> None]
  /\ new = [t \in Thread |-> 0]
  /\ seen = [t \in Thread |-> FALSE]

Goto(t, label) ==
  pc' = [pc EXCEPT ![t] = label] /\ UNCHANGED <<url, seen>>

Return(t) ==
  /\ pc' = [pc EXCEPT ![t] = "idle"]
  /\ url' = [url EXCEPT ![t] = None]
  /\ new' = [new EXCEPT ![t] = 0]
  /\ seen' = [seen EXCEPT ![t] = FALSE]

Making(t) == pc[t] \in {"main", "backup", "add"}

Named(u) == {i \in DOMAIN backups : backups[i].url = u}

\* A NULL URL is refused at once.
Call(t) ==
  /\ pc[t] = "idle"
  /\ pc' = [pc EXCEPT ![t] = "look"]
  /\ \E u \in Url :
       /\ url' = [url EXCEPT ![t] = u]
       /\ seen' = [seen EXCEPT ![t] = Named(u) # {}]
  /\ UNCHANGED <<backups, conns, made, new>>

\* The search, under list_mutex.
Found_Head(u) == backups # <<>> /\ backups[1].url = u
Found(u) == Named(u) # {}

Look(t) ==
  /\ pc[t] = "look"
  /\ \/ Found(url[t]) /\ Return(t) /\ UNCHANGED made
     \/ /\ ~Found(url[t])
        /\ made < MaxMade
        /\ made' = made + 1
        /\ new' = [new EXCEPT ![t] = made + 1]
        /\ Goto(t, "main")
  /\ UNCHANGED <<backups, conns>>

Good(u) == Fits(u) /\ db_url_to_link(u) # Unknown

\* init_database of main: too long, of no known type, or no connection.
OpenMain(t) ==
  /\ pc[t] = "main"
  /\ \/ /\ Good(url[t])
        /\ conns' = conns \cup {<<new[t], "main">>}
        /\ Goto(t, IF HasBackup(url[t]) THEN "backup" ELSE "add")
        /\ UNCHANGED new
     \/ /\ ~Good(url[t]) \/ "connect" \in Faults
        /\ Return(t)
        /\ UNCHANGED conns
  /\ UNCHANGED <<backups, made>>

CloseMain_Forgotten(t) == conns
CloseMain(t) == conns \ {<<new[t], "main">>}

\* init_database of the backup; when it fails main is closed and the object freed.
OpenBackup(t) ==
  /\ pc[t] = "backup"
  /\ \/ /\ conns' = conns \cup {<<new[t], "backup">>}
        /\ Goto(t, "add")
        /\ UNCHANGED new
     \/ /\ "connect" \in Faults
        /\ conns' = CloseMain(t)
        /\ Return(t)
  /\ UNCHANGED <<backups, made>>

\* What is in the list has its own copy of the URL.
Made_Freed(t) == [id |-> new[t], url |-> url'[t], maker |-> t]
Made(t) == [id |-> new[t], url |-> url[t], maker |-> t]

\* db_sqlite3_try_recover, and zlist_add_tail under list_mutex.
AddTail(t) ==
  /\ pc[t] = "add"
  /\ Return(t)
  /\ backups' = Append(backups, Made(t))
  /\ UNCHANGED <<conns, made>>

Next ==
  \E t \in Thread : Call(t) \/ Look(t) \/ OpenMain(t) \/ OpenBackup(t) \/ AddTail(t)

Spec == Init /\ [][Next]_vars
-----------------------------------------------------------------------------
(* Properties *)

\* Two threads may each make an object for one URL (there is a gap between the
\* search and the addition), but no thread makes two: an object that was there
\* when get_backup_obj was called is found, and none is made.
MadeOnce ==
  /\ \A i, j \in DOMAIN backups :
       backups[i].url = backups[j].url /\ backups[i].maker = backups[j].maker => i = j
  /\ \A t \in Thread : Making(t) => ~seen[t]

\* Every open connection belongs to an object in the list, or to one being made:
\* a failure half way leaves none behind, and closes none that is in use.
Files(u) == IF HasBackup(u) THEN {"main", "backup"} ELSE {"main"}

Opened(t) ==
  IF pc[t] = "backup" THEN {"main"} ELSE IF pc[t] = "add" THEN Files(url[t]) ELSE {}

ConnectionsOwned ==
  conns = {c \in (1 .. made) \X {"main", "backup"} :
             \/ \E i \in DOMAIN backups : c[1] = backups[i].id /\ c[2] \in Files(backups[i].url)
             \/ \E t \in Thread : c[1] = new[t] /\ c[2] \in Opened(t)}

\* Each SQLite file has one backup, not itself, as long as its name is short enough.
BackupsApart == \A i \in DOMAIN backups : OneBackup(backups[i].url)
=============================================================================
