-------------------------- MODULE Registry_proofs --------------------------
(* For any threads, any URLs and any length of names: no thread makes two    *)
(* objects for a URL, no connection is lost, there is one backup of each     *)
(* file whose name has room for the suffix, and URLs are read as written.    *)
EXTENDS Registry, SequenceTheorems, TLAPS

\* Objects are told apart by their ids, also those that are being made.
OwnIds ==
  /\ \A i \in DOMAIN backups : backups[i].id \in 1 .. made
  /\ \A t \in Thread : Making(t) =>
       /\ new[t] \in 1 .. made
       /\ \A s \in Thread : Making(s) /\ new[s] = new[t] => s = t
       /\ \A i \in DOMAIN backups : backups[i].id # new[t]

\* What a thread is making it has not made before; what it has seen in the list
\* is there still.
Gap ==
  /\ \A t \in Thread : pc[t] # "idle" => url[t] \in Url
  /\ \A t \in Thread : Making(t) =>
       \A i \in DOMAIN backups : ~(backups[i].url = url[t] /\ backups[i].maker = t)
  /\ \A t \in Thread : pc[t] = "look" /\ seen[t] =>
       \E i \in DOMAIN backups : backups[i].url = url[t]
  /\ \A t \in Thread : pc[t] = "backup" => HasBackup(url[t])

IInv == TypeOK /\ MadeOnce /\ ConnectionsOwned /\ OwnIds /\ Gap

\* The invariant holds in the empty registry.
LEMMA InitIInv == Init => IInv
<1> SUFFICES ASSUME Init PROVE IInv
  OBVIOUS
<1>1. TypeOK
  BY DEF Init, TypeOK
<1>2. MadeOnce
  BY DEF Init, MadeOnce, Making
<1>3. ConnectionsOwned
  BY DEF Init, ConnectionsOwned, Opened
<1>4. OwnIds /\ Gap
  BY DEF Init, OwnIds, Gap, Making
<1> QED
  BY <1>1, <1>2, <1>3, <1>4 DEF IInv

\* A call looks at the list and changes nothing that is made.
LEMMA CallIInv == ASSUME IInv, NEW t \in Thread, Call(t) PROVE IInv'
<1> USE DEF IInv
<1>1. PICK u \in Url :
        url' = [url EXCEPT ![t] = u] /\ seen' = [seen EXCEPT ![t] = Named(u) # {}]
  BY DEF Call
<1>2. TypeOK'
  BY <1>1 DEF Call, TypeOK
<1>3. \A s \in Thread : Making(s)' => Making(s) /\ s # t /\ new'[s] = new[s] /\ url'[s] = url[s]
  BY <1>1 DEF Call, TypeOK, Making
<1>4. MadeOnce'
  BY <1>1, <1>3 DEF Call, TypeOK, MadeOnce
<1>5. OwnIds'
  BY <1>3 DEF Call, OwnIds
<1>6. Gap'
  <2>1. \A s \in Thread : pc'[s] # "idle" => url'[s] \in Url
    BY <1>1 DEF Call, TypeOK, Gap
  <2>2. \A s \in Thread : Making(s)' =>
          \A i \in DOMAIN backups' : ~(backups'[i].url = url'[s] /\ backups'[i].maker = s)
    BY <1>3 DEF Call, Gap
  <2>3. ASSUME NEW s \in Thread, pc'[s] = "look", seen'[s]
        PROVE \E i \in DOMAIN backups : backups[i].url = url'[s]
    <3>1. CASE s = t
      <4>1. seen'[t] = (Named(u) # {}) /\ url'[t] = u
        BY <1>1 DEF TypeOK
      <4> QED
        BY <4>1, <2>3, <3>1 DEF Named
    <3>2. CASE s # t
      <4>1. seen[s] /\ pc[s] = "look" /\ url'[s] = url[s]
        BY <1>1, <2>3, <3>2 DEF Call, TypeOK
      <4> QED
        BY <4>1 DEF Gap
    <3> QED
      BY <3>1, <3>2
  <2>4. \A s \in Thread : pc'[s] = "backup" => HasBackup(url'[s])
    BY <1>1 DEF Call, TypeOK, Gap
  <2> QED
    BY <2>1, <2>2, <2>3, <2>4 DEF Call, Gap
<1>7. ConnectionsOwned'
  <2>1. \A s \in Thread : Opened(s)' = Opened(s)
    BY <1>1 DEF Call, TypeOK, Opened
  <2> QED
    BY <2>1 DEF Call, ConnectionsOwned
<1> QED
  BY <1>2, <1>4, <1>5, <1>6, <1>7

\* The search returns what is there, or reserves an id for a new object.
LEMMA LookIInv == ASSUME IInv, NEW t \in Thread, Look(t) PROVE IInv'
<1> USE DEF IInv
<1>1. CASE Found(url[t]) /\ Return(t) /\ UNCHANGED made
  <2>1. TypeOK' /\ OwnIds'
    BY <1>1 DEF Look, Return, TypeOK, OwnIds, Making
  <2>2. MadeOnce' /\ Gap'
    BY <1>1 DEF Look, Return, TypeOK, MadeOnce, Gap, Named, Making
  <2>3. \A s \in Thread : /\ Opened(s)' = Opened(s)
                          /\ s # t => new'[s] = new[s]
                          /\ s = t => Opened(s) = {}
    BY <1>1 DEF Look, Return, TypeOK, Opened
  <2>4. ConnectionsOwned'
    BY <1>1, <2>3 DEF Look, ConnectionsOwned
  <2> QED
    BY <2>1, <2>2, <2>4
<1>2. CASE ~Found(url[t]) /\ made' = made + 1 /\ new' = [new EXCEPT ![t] = made + 1]
           /\ Goto(t, "main")
  <2>1. TypeOK'
    BY <1>2 DEF Look, Goto, TypeOK
  <2>2. OwnIds'
    BY <1>2 DEF Look, Goto, TypeOK, OwnIds, Making
  <2>3. ~seen[t]
    BY <1>2 DEF Look, Gap, Found, Named
  <2>4. MadeOnce' /\ Gap'
    BY <1>2, <2>3 DEF Look, Goto, TypeOK, MadeOnce, Gap, Named, Found, Making
  <2>5. \A s \in Thread : /\ Opened(s)' = Opened(s)
                          /\ s # t => new'[s] = new[s]
                          /\ s = t => Opened(s) = {}
    BY <1>2 DEF Look, Goto, TypeOK, Opened
  <2>6. \A c : c \in (1 .. made') \X {"main", "backup"} /\ c \notin (1 .. made) \X {"main", "backup"}
               => c[1] = made + 1
    BY <1>2 DEF TypeOK
  <2>7. \A i \in DOMAIN backups : backups[i].id # made + 1
    BY DEF OwnIds, TypeOK
  <2>8. \A s \in Thread : Opened(s) # {} => new[s] # made + 1
    BY DEF OwnIds, TypeOK, Making, Opened
  <2>9. (1 .. made) \X {"main", "backup"} \subseteq (1 .. made') \X {"main", "backup"}
    BY <1>2 DEF TypeOK
  <2>10. ConnectionsOwned'
    BY <1>2, <2>5, <2>6, <2>7, <2>8, <2>9 DEF Look, ConnectionsOwned
  <2> QED
    BY <2>1, <2>2, <2>4, <2>10
<1> QED
  BY <1>1, <1>2 DEF Look

\* The main connection of an object that is being made is its own.
LEMMA OpenMainIInv == ASSUME IInv, NEW t \in Thread, OpenMain(t) PROVE IInv'
<1> USE DEF IInv
<1>1. CASE /\ conns' = conns \cup {<<new[t], "main">>}
           /\ Goto(t, IF HasBackup(url[t]) THEN "backup" ELSE "add")
           /\ UNCHANGED new
  <2>1. new[t] \in 1 .. made /\ Opened(t) = {}
    BY DEF OpenMain, OwnIds, Making, Opened
  <2>2. TypeOK'
    BY <1>1 DEF OpenMain, Goto, TypeOK
  <2>3. OwnIds' /\ MadeOnce'
    BY <1>1 DEF OpenMain, Goto, TypeOK, OwnIds, MadeOnce, Making
  <2>4. Gap'
    BY <1>1 DEF OpenMain, Goto, TypeOK, Gap, Named, Making
  <2>5. \A s \in Thread : Opened(s)' = IF s = t THEN {"main"} ELSE Opened(s)
    BY <1>1 DEF OpenMain, Goto, TypeOK, Opened, Files
  <2>6. ConnectionsOwned'
    BY <1>1, <2>1, <2>5 DEF OpenMain, ConnectionsOwned
  <2> QED
    BY <2>2, <2>3, <2>4, <2>6
<1>2. CASE Return(t) /\ UNCHANGED conns
  <2>1. TypeOK' /\ OwnIds'
    BY <1>2 DEF OpenMain, Return, TypeOK, OwnIds, Making
  <2>2. MadeOnce' /\ Gap'
    BY <1>2 DEF OpenMain, Return, TypeOK, MadeOnce, Gap, Named, Making
  <2>3. \A s \in Thread : /\ Opened(s)' = Opened(s)
                          /\ s # t => new'[s] = new[s]
                          /\ s = t => Opened(s) = {}
    BY <1>2 DEF OpenMain, Return, TypeOK, Opened
  <2>4. ConnectionsOwned'
    BY <1>2, <2>3 DEF OpenMain, ConnectionsOwned
  <2> QED
    BY <2>1, <2>2, <2>4
<1> QED
  BY <1>1, <1>2 DEF OpenMain

\* With the backup the object has both; without it, the main one is closed again.
LEMMA OpenBackupIInv == ASSUME IInv, NEW t \in Thread, OpenBackup(t) PROVE IInv'
<1> USE DEF IInv
<1>1. /\ new[t] \in 1 .. made /\ Opened(t) = {"main"} /\ Files(url[t]) = {"main", "backup"}
      /\ \A s \in Thread : s # t /\ Opened(s) # {} => new[s] # new[t]
      /\ \A i \in DOMAIN backups : backups[i].id # new[t]
  BY DEF OpenBackup, OwnIds, Gap, Making, Opened, Files
<1>2. CASE /\ conns' = conns \cup {<<new[t], "backup">>}
           /\ Goto(t, "add")
           /\ UNCHANGED new
  <2>1. TypeOK'
    BY <1>2 DEF OpenBackup, Goto, TypeOK
  <2>2. OwnIds' /\ MadeOnce'
    BY <1>2 DEF OpenBackup, Goto, TypeOK, OwnIds, MadeOnce, Making
  <2>3. Gap'
    BY <1>2 DEF OpenBackup, Goto, TypeOK, Gap, Named, Making
  <2>4. \A s \in Thread : Opened(s)' = IF s = t THEN {"main", "backup"} ELSE Opened(s)
    BY <1>1, <1>2 DEF OpenBackup, Goto, TypeOK, Opened, Files
  <2>5. ConnectionsOwned'
    BY <1>1, <1>2, <2>4 DEF OpenBackup, ConnectionsOwned
  <2> QED
    BY <2>1, <2>2, <2>3, <2>5
<1>3. CASE conns' = CloseMain(t) /\ Return(t)
  <2>1. TypeOK' /\ OwnIds'
    BY <1>3 DEF OpenBackup, CloseMain, Return, TypeOK, OwnIds, Making
  <2>2. MadeOnce' /\ Gap'
    BY <1>3 DEF OpenBackup, Return, TypeOK, MadeOnce, Gap, Named, Making
  <2>3. \A s \in Thread : /\ Opened(s)' = IF s = t THEN {} ELSE Opened(s)
                          /\ s # t => new'[s] = new[s]
    BY <1>3 DEF OpenBackup, Return, TypeOK, Opened
  <2>4. ConnectionsOwned'
    BY <1>1, <1>3, <2>3 DEF OpenBackup, CloseMain, ConnectionsOwned
  <2> QED
    BY <2>1, <2>2, <2>4
<1> QED
  BY <1>2, <1>3 DEF OpenBackup

\* The finished object takes its id and its connections into the list.
LEMMA AddTailIInv == ASSUME IInv, NEW t \in Thread, AddTail(t) PROVE IInv'
<1> USE DEF IInv
<1>1. /\ new[t] \in 1 .. made /\ url[t] \in Url /\ Opened(t) = Files(url[t])
      /\ Made(t) \in Object
  BY DEF AddTail, OwnIds, Gap, Making, Opened, Made, TypeOK, Object
<1>2. /\ DOMAIN backups' = 1 .. (Len(backups) + 1)
      /\ DOMAIN backups = 1 .. Len(backups) /\ Len(backups) \in Nat
      /\ \A i \in DOMAIN backups : backups'[i] = backups[i]
      /\ backups'[Len(backups) + 1] = Made(t)
  BY <1>1 DEF AddTail, TypeOK
<1>3. TypeOK'
  BY <1>1 DEF AddTail, Return, TypeOK
<1>4. \A i \in DOMAIN backups' :
        \/ i \in DOMAIN backups /\ backups'[i] = backups[i]
        \/ i = Len(backups) + 1 /\ i \notin DOMAIN backups /\ backups'[i] = Made(t)
  BY <1>2
<1>5. Made(t).id = new[t] /\ Made(t).url = url[t] /\ Made(t).maker = t
  BY DEF Made
<1>6. \A s \in Thread : /\ Making(s)' => Making(s) /\ s # t
                        /\ s # t => new'[s] = new[s] /\ url'[s] = url[s] /\ seen'[s] = seen[s]
                                     /\ pc'[s] = pc[s]
                        /\ pc'[t] = "idle"
  BY DEF AddTail, Return, TypeOK, Making
<1>7. MadeOnce'
  BY <1>4, <1>5, <1>6 DEF AddTail, MadeOnce, Gap, Making
<1>8. OwnIds'
  BY <1>1, <1>4, <1>5, <1>6 DEF AddTail, OwnIds, Making
<1>9. Gap'
  BY <1>2, <1>4, <1>5, <1>6 DEF AddTail, Gap, Making
<1>10. ConnectionsOwned'
  <2>1. \A s \in Thread : /\ Opened(s)' = IF s = t THEN {} ELSE Opened(s)
                          /\ s # t => new'[s] = new[s]
    BY DEF AddTail, Return, TypeOK, Opened
  <2>2. Len(backups) + 1 \in DOMAIN backups'
    BY <1>2
  <2> QED
    BY <1>1, <1>2, <1>4, <1>5, <2>1, <2>2 DEF AddTail, ConnectionsOwned
<1> QED
  BY <1>3, <1>7, <1>8, <1>9, <1>10

\* Every step keeps the invariant.
LEMMA NextIInv == IInv /\ [Next]_vars => IInv'
<1> SUFFICES ASSUME IInv, [Next]_vars PROVE IInv'
  OBVIOUS
<1>1. CASE UNCHANGED vars
  <2>1. TypeOK' /\ MadeOnce'
    BY <1>1 DEF IInv, vars, TypeOK, MadeOnce, Making
  <2>2. OwnIds' /\ Gap'
    BY <1>1 DEF IInv, vars, OwnIds, Gap, Making
  <2>3. ConnectionsOwned'
    BY <1>1 DEF IInv, vars, ConnectionsOwned, Opened
  <2> QED
    BY <2>1, <2>2, <2>3 DEF IInv
<1>2. ASSUME NEW t \in Thread, Call(t) \/ Look(t) \/ OpenMain(t) \/ OpenBackup(t) \/ AddTail(t)
      PROVE IInv'
  BY <1>2, CallIInv, LookIInv, OpenMainIInv, OpenBackupIInv, AddTailIInv
<1> QED
  BY <1>1, <1>2 DEF Next

\* What get_backup_obj keeps, whatever the threads do.
LEMMA SpecIInv == Spec => []IInv
BY InitIInv, NextIInv, PTL DEF Spec

\* The state of the registry has its types.
THEOREM TypeCorrect == Spec => []TypeOK
<1>1. IInv => TypeOK
  BY DEF IInv
<1> QED
  BY <1>1, SpecIInv, PTL

\* No thread makes an object for a URL that it has made one for before, or that
\* was in the list when it called get_backup_obj.
THEOREM NoSecondObject == Spec => []MadeOnce
<1>1. IInv => MadeOnce
  BY DEF IInv
<1> QED
  BY <1>1, SpecIInv, PTL

\* init_dbs and destroy lose no connection and close none in use.
THEOREM NoLostConnection == Spec => []ConnectionsOwned
<1>1. IInv => ConnectionsOwned
  BY DEF IInv
<1> QED
  BY <1>1, SpecIInv, PTL

\* A suffix that fits is added at the end, with the scheme or without it.
LEMMA SuffixFits ==
  ASSUME NEW u \in Seq(STRING), HasBackup(u), Len(u) + Len(Bak) < NameLen
  PROVE  OneBackup(u)
<1> USE NameAssumption
<1> DEFINE Token == STRING \cup {".", "b", "a", "k"}
<1> HIDE DEF Token
<1>1. u # <<>> /\ Head(u) = Sqlite3
  BY DEF HasBackup, StartsWith
<1>2. u \in Seq(Token)
  <2>1. u \in [1 .. Len(u) -> STRING] /\ Len(u) \in Nat
    BY LenProperties
  <2>2. u \in [1 .. Len(u) -> Token]
    BY <2>1 DEF Token
  <2> QED
    BY <2>1, <2>2
<1>3. Bak \in Seq(Token) /\ Len(Bak) = 4
  <2>1. "." \in Token /\ "b" \in Token /\ "a" \in Token /\ "k" \in Token
    BY DEF Token
  <2> QED
    BY <2>1 DEF Bak
<1>4. Tail(u) \in Seq(Token) /\ Len(Tail(u)) = Len(u) - 1
  BY <1>1, <1>2, HeadTailProperties
<1>5. ASSUME NEW s \in Seq(Token)
      PROVE  s \o Bak \in Seq(Token) /\ Len(s \o Bak) = Len(s) + 4
  <2>1. s \o Bak \in Seq(Token) /\ Len(s \o Bak) = Len(s) + Len(Bak)
    BY <1>3, ConcatProperties
  <2> QED
    BY <1>3, <2>1
<1>6. Len(u) \in Nat
  BY <1>2, LenProperties
<1>7. BackupUrl(u) = u \o Bak
  BY <1>2, <1>3, <1>5, <1>6 DEF BackupUrl, Cut
<1>8. Head(u \o Bak) = Sqlite3 /\ u \o Bak # <<>> /\ Tail(u \o Bak) = Tail(u) \o Bak
  <2>1. /\ Len(u) > 0 /\ Len(u \o Bak) > 0
        /\ u[1] = Sqlite3 /\ (u \o Bak)[1] = u[1]
    BY <1>1, <1>2, <1>3, <1>5, <1>6
  <2>2. /\ Len(Tail(u \o Bak)) = Len(Tail(u) \o Bak)
        /\ \A i \in 1 .. Len(Tail(u) \o Bak) : Tail(u \o Bak)[i] = (Tail(u) \o Bak)[i]
    BY <1>1, <1>2, <1>3, <1>4, <1>5, <1>6, <2>1
  <2>3. Tail(u \o Bak) \in Seq(Token)
    BY <1>2, <1>5, <2>1, HeadTailProperties
  <2>4. Tail(u \o Bak) = Tail(u) \o Bak
    BY <1>4, <1>5, <2>2, <2>3, SeqEqual
  <2> QED
    BY <2>1, <2>4
<1>9. OpenedBackup(u) = Tail(u) \o Bak
  BY <1>7, <1>8 DEF OpenedBackup, db_url_to_link, StartsWith
<1>10. RecoveredBackup(u) = Tail(u) \o Bak
  BY <1>3, <1>4, <1>5, <1>6 DEF RecoveredBackup, Cut
<1>11. db_url_to_link(u).database = Tail(u)
  BY <1>1 DEF db_url_to_link, StartsWith
<1>12. Tail(u) \o Bak # Tail(u)
  <2>1. Len(Tail(u) \o Bak) = Len(Tail(u)) + 4
    BY <1>4, <1>5
  <2>2. Len(Tail(u)) \in Nat
    BY <1>4, LenProperties
  <2>3. \A n \in Nat : n + 4 # n
    OBVIOUS
  <2>4. Len(Tail(u)) + 4 # Len(Tail(u))
    BY <2>2, <2>3, Zenon
  <2> QED
    BY <2>1, <2>4, Zenon
<1> QED
  BY <1>9, <1>10, <1>11, <1>12 DEF OneBackup

\* Every file in the list whose name has room for the suffix has one backup, and
\* the recovery checks and copies the one that is open.
THEOREM OneBackupEach == Spec => []BackupsApart
<1>1. IInv => BackupsApart
  <2> SUFFICES ASSUME TypeOK, NEW i \in DOMAIN backups PROVE OneBackup(backups[i].url)
    BY DEF IInv, BackupsApart
  <2>1. backups[i] \in Object
    BY DEF TypeOK
  <2>2. backups[i].url \in Seq(STRING)
    BY <2>1, RegistryAssumption DEF RegistryAssumption, Object
  <2> QED
    BY <2>2, SuffixFits DEF OneBackup
<1> QED
  BY <1>1, SpecIInv, PTL
-----------------------------------------------------------------------------
(* URLs: what is written comes back, for parts of any length *)

\* All tokens are strings; the provers know that of no literal.
Token == STRING \cup {Mysql, "/", "@", ":", "u", "p", "q", "h", "d", "e",
                    "default", "root", "localhost", "3306"}
Text == Seq(Token)

\* The parts a URL has room for: no separator where it would be read as one.
Writable(p) ==
  /\ p \in [usr : Text, pwd : Text, host : Text, port : Text, db : Text]
  /\ \A s \in {p.usr, p.pwd, p.host, p.port} : ~Has(s, "/") /\ ~Has(s, "@")
  /\ ~Has(p.usr, ":") /\ ~Has(p.host, ":")
  /\ p.port = <<>> \/ \E n \in Number : p.port = <<n>>

\* A text without the separator is all before it.
LEMMA NoSplit ==
  ASSUME NEW s, NEW c, ~Has(s, c) PROVE Before(s, c) = s /\ After(s, c) = <<>>
BY DEF Before, After

\* A text is split at the first separator.
LEMMA SplitThere ==
  ASSUME NEW W, NEW c \in W, NEW a \in Seq(W), NEW b \in Seq(W), ~Has(a, c)
  PROVE  LET s == a \o (<<c>> \o b)
         IN  s \in Seq(W) /\ Has(s, c) /\ Before(s, c) = a /\ After(s, c) = b
<1> DEFINE s == a \o (<<c>> \o b)
           k == Len(a) + 1
<1>1. <<c>> \in Seq(W) /\ Len(<<c>>) = 1 /\ <<c>>[1] = c
  OBVIOUS
<1>2. Len(a) \in Nat /\ Len(b) \in Nat
  BY <1>1, LenProperties
<1>3. /\ <<c>> \o b \in Seq(W) /\ Len(<<c>> \o b) = 1 + Len(b)
      /\ (<<c>> \o b)[1] = c
      /\ \A i \in 1 .. Len(b) : (<<c>> \o b)[i + 1] = b[i]
  BY <1>1, <1>2
<1>4. /\ s \in Seq(W) /\ Len(s) = Len(a) + 1 + Len(b)
      /\ \A i \in 1 .. Len(a) : s[i] = a[i]
      /\ s[k] = c
      /\ \A i \in 1 .. Len(b) : s[k + i] = b[i]
  BY <1>1, <1>2, <1>3
<1>5. DOMAIN s = 1 .. Len(s) /\ DOMAIN a = 1 .. Len(a)
  BY <1>1, <1>4, LenProperties
<1> HIDE DEF s
<1>6. /\ k \in DOMAIN s /\ s[k] = c
      /\ \A j \in DOMAIN s : s[j] = c => k <= j
  <2>1. ASSUME NEW j \in DOMAIN s, s[j] = c, j < k PROVE FALSE
    <3>1. j \in 1 .. Len(a)
      BY <1>2, <1>5, <2>1
    <3>2. a[j] = c
      BY <1>4, <2>1, <3>1
    <3> QED BY <1>5, <3>1, <3>2 DEF Has
  <2>2. k \in DOMAIN s
    BY <1>2, <1>4, <1>5
  <2> QED BY <1>2, <1>4, <1>5, <2>1, <2>2
<1>7. Split(s, c) = k
  <2>1. \A i \in DOMAIN s :
          (s[i] = c /\ \A j \in DOMAIN s : s[j] = c => i <= j) => i = k
    BY <1>2, <1>5, <1>6
  <2> QED BY <1>6, <2>1 DEF Split
<1>8. Has(s, c)
  BY <1>6 DEF Has
<1>9. SubSeq(s, 1, k - 1) = a
  BY <1>1, <1>2, <1>4
<1>10. SubSeq(s, k + 1, Len(s)) = b
  <2>1. s = (a \o <<c>>) \o b
    BY <1>1, ConcatAssociative DEF s
  <2>2. a \o <<c>> \in Seq(W) /\ Len(a \o <<c>>) = k
    BY <1>1, <1>2
  <2>3. CASE b = <<>>
    BY <1>2, <1>4, <2>3
  <2>4. CASE b # <<>>
    <3>1. Len(b) # 0
      BY <2>4, EmptySeq
    <3>2. k + 1 \in k + 1 .. k + Len(b) /\ Len(s) \in k + 1 .. k + Len(b)
      BY <1>2, <1>4, <3>1
    <3>3. SubSeq(s, k + 1, Len(s)) = SubSeq(b, k + 1 - k, Len(s) - k)
      BY <2>1, <2>2, <3>2, SubSeqOfConcat2
    <3>4. k + 1 - k = 1 /\ Len(s) - k = Len(b)
      BY <1>2, <1>4
    <3>5. SubSeq(b, 1, Len(b)) = b
      BY SubSeqFull
    <3> QED BY <3>3, <3>4, <3>5
  <2> QED BY <2>3, <2>4
<1> QED
  BY <1>4, <1>7, <1>8, <1>9, <1>10 DEF Before, After, s

\* A token is in a text put together where it is in a part.
LEMMA HasParts ==
  ASSUME NEW W, NEW c, NEW a \in Seq(W), NEW b \in Seq(W)
  PROVE  a \o b \in Seq(W) /\ (Has(a \o b, c) <=> Has(a, c) \/ Has(b, c))
<1>1. /\ Len(a) \in Nat /\ Len(b) \in Nat /\ DOMAIN a = 1 .. Len(a) /\ DOMAIN b = 1 .. Len(b)
  BY LenProperties
<1>2. /\ a \o b \in Seq(W) /\ DOMAIN (a \o b) = 1 .. Len(a) + Len(b)
      /\ \A i \in 1 .. Len(a) : (a \o b)[i] = a[i]
      /\ \A i \in 1 .. Len(b) : (a \o b)[Len(a) + i] = b[i]
  BY <1>1
<1>3. Has(a \o b, c) => Has(a, c) \/ Has(b, c)
  <2> SUFFICES ASSUME NEW i \in 1 .. Len(a) + Len(b), (a \o b)[i] = c
               PROVE  Has(a, c) \/ Has(b, c)
    BY <1>2 DEF Has
  <2>1. CASE i <= Len(a)
    BY <1>1, <1>2, <2>1 DEF Has
  <2>2. CASE i > Len(a)
    <3>1. i - Len(a) \in 1 .. Len(b) /\ b[i - Len(a)] = c
      <4>1. i - Len(a) \in 1 .. Len(b) /\ Len(a) + (i - Len(a)) = i
        BY <1>1, <2>2
      <4> QED BY <1>2, <4>1
    <3> QED BY <1>1, <3>1 DEF Has
  <2> QED BY <1>1, <2>1, <2>2
<1>4. Has(a, c) => Has(a \o b, c)
  BY <1>1, <1>2 DEF Has
<1>5. Has(b, c) => Has(a \o b, c)
  <2> SUFFICES ASSUME NEW i \in 1 .. Len(b), b[i] = c PROVE Has(a \o b, c)
    BY <1>1 DEF Has
  <2>1. Len(a) + i \in 1 .. Len(a) + Len(b) /\ (a \o b)[Len(a) + i] = c
    BY <1>1, <1>2
  <2> QED BY <1>2, <2>1 DEF Has
<1> QED
  BY <1>2, <1>3, <1>4, <1>5

\* The tokens of a text written out.
LEMMA WrittenOut ==
  ASSUME NEW W
  PROVE  /\ <<>> \in Seq(W) /\ \A d : ~Has(<<>>, d)
         /\ \A a \in W : <<a>> \in Seq(W) /\ \A d : Has(<<a>>, d) <=> d = a
         /\ \A a, b, c \in W :
              <<a, b, c>> \in Seq(W) /\ \A d : Has(<<a, b, c>>, d) <=> d \in {a, b, c}
         /\ \A a, b, c, e, f \in W : <<a, b, c, e, f>> \in Seq(W)
<1>1. <<>> \in Seq(W) /\ \A d : ~Has(<<>>, d)
  <2>1. DOMAIN <<>> = {} /\ <<>> \in Seq(W)
    OBVIOUS
  <2> QED BY <2>1 DEF Has
<1>2. ASSUME NEW a \in W
      PROVE  <<a>> \in Seq(W) /\ \A d : Has(<<a>>, d) <=> d = a
  <2>1. <<a>> \in Seq(W) /\ DOMAIN <<a>> = {1} /\ <<a>>[1] = a
    OBVIOUS
  <2> QED BY <2>1 DEF Has
<1>3. ASSUME NEW a \in W, NEW b \in W, NEW c \in W
      PROVE  <<a, b, c>> \in Seq(W) /\ \A d : Has(<<a, b, c>>, d) <=> d \in {a, b, c}
  <2>1. DOMAIN <<a, b, c>> = 1 .. 3 /\ 1 .. 3 = {1, 2, 3}
    OBVIOUS
  <2>2. /\ <<a, b, c>> \in Seq(W)
        /\ <<a, b, c>>[1] = a /\ <<a, b, c>>[2] = b /\ <<a, b, c>>[3] = c
    OBVIOUS
  <2> QED BY <2>1, <2>2 DEF Has
<1>4. ASSUME NEW a \in W, NEW b \in W, NEW c \in W, NEW e \in W, NEW f \in W
      PROVE  <<a, b, c, e, f>> \in Seq(W)
  OBVIOUS
<1> QED
  BY <1>1, <1>2, <1>3, <1>4

\* Every URL that can be written comes back in its parts.
THEOREM AnyUrlReadsBack == \A p : Writable(p) => ReadsBack(p)
<1> SUFFICES ASSUME NEW p, Writable(p) PROVE ReadsBack(p)
  OBVIOUS
<1> DEFINE colon == IF p.pwd = <<>> THEN <<>> ELSE <<":">> \o p.pwd
           login == p.usr \o colon
           usr == IF p.usr \o p.pwd = <<>> THEN <<>> ELSE login \o <<"@">>
           port == IF p.port = <<>> THEN <<>> ELSE <<":">> \o p.port
           host == p.host \o port
           path == usr \o host
           db == IF p.db = <<>> THEN <<>> ELSE <<"/">> \o p.db
<1>1. /\ p.usr \in Text /\ p.pwd \in Text /\ p.host \in Text /\ p.port \in Text /\ p.db \in Text
      /\ \A s \in {p.usr, p.pwd, p.host, p.port} : ~Has(s, "/") /\ ~Has(s, "@")
      /\ ~Has(p.usr, ":") /\ ~Has(p.host, ":")
  BY DEF Writable
<1>2. ASSUME NEW c \in Token
      PROVE  <<c>> \in Text /\ \A d : Has(<<c>>, d) <=> c = d
  BY WrittenOut DEF Text
<1>3. <<>> \in Text /\ \A d : ~Has(<<>>, d)
  <2>1. Mysql \in Token
    BY DEF Token
  <2> QED BY <2>1, WrittenOut DEF Text
<1>4. \A a, b \in Text : a \o b \in Text /\ \A d : Has(a \o b, d) <=> Has(a, d) \/ Has(b, d)
  BY HasParts DEF Text
<1>5. /\ Mysql \in Token /\ "/" \in Token /\ "@" \in Token /\ ":" \in Token
      /\ "/" # "@" /\ "/" # ":" /\ "@" # ":"
  BY DEF Token
<1>6. \A a, b, c \in Text : (a \o b) \o c = a \o (b \o c)
  BY ConcatAssociative DEF Text
<1>7. colon \in Text /\ ~Has(colon, "/") /\ ~Has(colon, "@")
  BY <1>1, <1>2, <1>3, <1>4, <1>5
<1> HIDE DEF colon
<1>8. login \in Text /\ ~Has(login, "/") /\ ~Has(login, "@")
  BY <1>1, <1>4, <1>7
<1> HIDE DEF login
<1>9. usr \in Text /\ ~Has(usr, "/")
  BY <1>1, <1>2, <1>3, <1>4, <1>5, <1>8
<1>10. port \in Text /\ ~Has(port, "/") /\ ~Has(port, "@")
  BY <1>1, <1>2, <1>3, <1>4, <1>5
<1> HIDE DEF port
<1>11. host \in Text /\ ~Has(host, "/") /\ ~Has(host, "@")
  BY <1>1, <1>4, <1>10
<1> HIDE DEF host
<1>12. path \in Text /\ ~Has(path, "/")
  BY <1>4, <1>9, <1>11
<1>13. db \in Text
  BY <1>1, <1>2, <1>3, <1>4, <1>5
<1> HIDE DEF usr, path, db
<1>14. Spelled(p) = <<Mysql>> \o (path \o db)
  <2> USE DEF Text
  <2>1. <<Mysql>> \in Text
    BY <1>2, <1>5
  <2>2. Spelled(p) = ((((<<Mysql>> \o usr) \o p.host) \o port) \o db)
    BY DEF Spelled, usr, port, db, login, colon
  <2>3. ((<<Mysql>> \o usr) \o p.host) \o port = (<<Mysql>> \o usr) \o host
    <3>1. <<Mysql>> \o usr \in Text
      BY <1>4, <1>9, <2>1
    <3>2. p.host \in Text /\ port \in Text
      BY <1>1, <1>10
    <3> HIDE DEF Text
    <3> QED BY <3>1, <3>2, <1>6 DEF host
  <2>4. (<<Mysql>> \o usr) \o host = <<Mysql>> \o path
    BY <1>9, <1>11, <2>1, ConcatAssociative DEF path
  <2>5. (<<Mysql>> \o path) \o db = <<Mysql>> \o (path \o db)
    BY <1>12, <1>13, <2>1, ConcatAssociative
  <2> QED BY <2>2, <2>3, <2>4, <2>5
<1>15. StartsWith(Spelled(p), Mysql) /\ Tail(Spelled(p)) = path \o db
  <2>1. path \o db \in Seq(Token)
    BY <1>4, <1>12, <1>13 DEF Text
  <2> HIDE DEF Token
  <2>2. <<Mysql>> \o (path \o db) # <<>> /\ Head(<<Mysql>> \o (path \o db)) = Mysql
    BY <1>5, <2>1
  <2>3. Tail(<<Mysql>> \o (path \o db)) = path \o db
    BY <1>5, <2>1
  <2> QED BY <1>14, <2>2, <2>3 DEF StartsWith
<1>16. Before(path \o db, "/") = path /\ After(path \o db, "/") = p.db
  <2>1. CASE p.db = <<>>
    <3>1. path \o db = path
      BY <1>12, <2>1, ConcatEmptySeq DEF db, Text
    <3> QED BY <1>12, <2>1, <3>1, NoSplit
  <2>2. CASE p.db # <<>>
    BY <1>1, <1>5, <1>12, <2>2, SplitThere DEF db, Text
  <2> QED BY <2>1, <2>2
<1>17. Before(login, ":") = p.usr /\ After(login, ":") = p.pwd
  <2>1. CASE p.pwd = <<>>
    <3>1. login = p.usr
      BY <1>1, <2>1, ConcatEmptySeq DEF login, colon, Text
    <3> QED BY <1>1, <2>1, <3>1, NoSplit
  <2>2. CASE p.pwd # <<>>
    BY <1>1, <1>5, <2>2, SplitThere DEF login, colon, Text
  <2> QED BY <2>1, <2>2
<1>18. Before(host, ":") = p.host /\ After(host, ":") = p.port
  <2>1. CASE p.port = <<>>
    <3>1. host = p.host
      BY <1>1, <2>1, ConcatEmptySeq DEF host, port, Text
    <3> QED BY <1>1, <2>1, <3>1, NoSplit
  <2>2. CASE p.port # <<>>
    BY <1>1, <1>5, <2>2, SplitThere DEF host, port, Text
  <2> QED BY <2>1, <2>2
<1>19. /\ (IF Has(path, "@") THEN Before(path, "@") ELSE <<>>) = login
       /\ (IF Has(path, "@") THEN After(path, "@") ELSE path) = host
  <2>1. CASE p.usr \o p.pwd = <<>>
    <3>1. p.usr = <<>> /\ p.pwd = <<>>
      BY <1>1, <2>1, ConcatEqualIffEmpty DEF Text
    <3>2. login = <<>>
      BY <1>3, <3>1, ConcatEmptySeq DEF login, colon, Text
    <3>3. path = host
      BY <1>11, <2>1, ConcatEmptySeq DEF usr, path, Text
    <3> QED BY <1>11, <3>2, <3>3
  <2>2. CASE p.usr \o p.pwd # <<>>
    <3>1. path = login \o (<<"@">> \o host)
      <4>1. <<"@">> \in Text
        BY <1>2, <1>5
      <4> QED BY <1>6, <1>8, <1>11, <2>2, <4>1 DEF path, usr
    <3>2. Has(path, "@") /\ Before(path, "@") = login /\ After(path, "@") = host
      BY <1>5, <1>8, <1>11, <3>1, SplitThere DEF Text
    <3> QED BY <3>2
  <2> QED BY <2>1, <2>2
<1>20. Port(p.port) = Or(p.port, <<"3306">>)
  <2>1. CASE p.port = <<>>
    BY <2>1 DEF Port, Or
  <2>2. ASSUME NEW n \in Number, p.port = <<n>> PROVE Port(p.port) = p.port
    <3>1. <<n>> \in Seq(Number) /\ Len(<<n>>) = 1 /\ <<n>>[1] = n
      OBVIOUS
    <3>2. <<n>> # <<>> /\ Head(<<n>>) = n
      BY <3>1
    <3>3. SubSeq(<<n>>, 1, 1) = <<n>>
      BY <3>1, SubSeqFull
    <3> QED BY <2>2, <3>2, <3>3 DEF Port
  <2>3. p.port # <<>> => Or(p.port, <<"3306">>) = p.port
    BY DEF Or
  <2> QED BY <2>1, <2>2, <2>3 DEF Writable
<1>21. Mysql # Sqlite3
  BY DEF Mysql, Sqlite3
<1>22. db_url_to_link(Spelled(p)) = MysqlLink(path \o db)
  <2>1. ~StartsWith(Spelled(p), Sqlite3)
    BY <1>15, <1>21 DEF StartsWith
  <2> QED BY <1>15, <2>1 DEF db_url_to_link
<1> QED
  BY <1>16, <1>17, <1>18, <1>19, <1>20, <1>22 DEF MysqlLink, ReadsBack

\* What a URL spells out is what is connected to, in every state.
THEOREM UrlsReadBack == Spec => []UrlRoundTrip
<1>1. \A p \in Parts : Writable(p)
  <2> SUFFICES ASSUME NEW p \in Parts PROVE Writable(p)
    OBVIOUS
  <2>1. ASSUME NEW n \in Number
        PROVE  n \in Token /\ n # "/" /\ n # "@"
    BY NumberAssumption DEF Token
  <2>2. /\ p = [usr |-> p.usr, pwd |-> p.pwd, host |-> p.host, port |-> p.port, db |-> p.db]
        /\ p.usr \in {<<>>, <<"u">>} /\ p.pwd \in {<<>>, <<"p">>, <<"p", ":", "q">>}
        /\ p.host \in {<<>>, <<"h">>} /\ p.port \in {<<>>} \cup {<<n>> : n \in Number}
        /\ p.db \in {<<>>, <<"d">>, <<"d", "/", "@", ":", "e">>}
    BY DEF Parts
  <2>3. /\ "/" \in Token /\ "@" \in Token /\ ":" \in Token /\ "u" \in Token /\ "p" \in Token
        /\ "q" \in Token /\ "h" \in Token /\ "d" \in Token /\ "e" \in Token
    BY DEF Token
  <2> HIDE DEF Token
  <2>4. /\ <<>> \in Text /\ \A d : ~Has(<<>>, d)
        /\ \A c \in Token : <<c>> \in Text /\ \A d : Has(<<c>>, d) <=> d = c
    BY WrittenOut DEF Text
  <2>5. /\ <<"p", ":", "q">> \in Text
        /\ \A d : Has(<<"p", ":", "q">>, d) <=> d \in {"p", ":", "q"}
    <3>1. \A a, b, c \in Token :
            <<a, b, c>> \in Text /\ \A d : Has(<<a, b, c>>, d) <=> d \in {a, b, c}
      BY WrittenOut DEF Text
    <3> QED BY <2>3, <3>1, Zenon
  <2>6. <<"d", "/", "@", ":", "e">> \in Text
    <3>1. \A a, b, c, e, f \in Token : <<a, b, c, e, f>> \in Text
      BY WrittenOut DEF Text
    <3> QED BY <2>3, <3>1, Zenon
  <2>7. p.usr \in Text /\ \A c \in {"/", "@", ":"} : ~Has(p.usr, c)
    BY <2>2, <2>3, <2>4, <2>5, <2>6
  <2>8. p.pwd \in Text /\ \A c \in {"/", "@"} : ~Has(p.pwd, c)
    BY <2>2, <2>3, <2>4, <2>5, <2>6
  <2>9. p.host \in Text /\ \A c \in {"/", "@", ":"} : ~Has(p.host, c)
    BY <2>2, <2>3, <2>4, <2>5, <2>6
  <2>10. p.port \in Text /\ \A c \in {"/", "@"} : ~Has(p.port, c)
    BY <2>1, <2>2, <2>3, <2>4
  <2>11. p.db \in Text
    BY <2>2, <2>3, <2>4, <2>5, <2>6
  <2>12. p \in [usr : Text, pwd : Text, host : Text, port : Text, db : Text]
    BY <2>2, <2>7, <2>8, <2>9, <2>10, <2>11
  <2> QED
    BY <2>2, <2>7, <2>8, <2>9, <2>10, <2>12 DEF Writable
<1>2. UrlRoundTrip
  BY <1>1, AnyUrlReadsBack DEF UrlRoundTrip
<1> QED
  BY <1>2, PTL
=============================================================================
