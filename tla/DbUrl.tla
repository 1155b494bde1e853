------------------------------- MODULE DbUrl -------------------------------
(***************************************************************************)
(* Database URLs (db_url_to_link, database.c) and the names of the backup  *)
(* (backup.c, sqlite3.c).  A text is a sequence of tokens: the separators, *)
(* the two schemes, and words; its length in tokens stands for bytes.      *)
(***************************************************************************)
EXTENDS Naturals, Sequences

CONSTANTS
  NameLen,  \* DB_NAME_LEN: a buffer for a name and its final 0
  Number    \* words that atoi reads as a number, and not as 0

ASSUME NameAssumption == NameLen \in Nat /\ NameLen > 5
ASSUME NumberAssumption == Number \subseteq STRING \ {"/", "@", ":"}

Sqlite3 == "sqlite3://"
Mysql == "mysql://"
Bak == <<".", "b", "a", "k">>

StartsWith(s, token) == s # <<>> /\ Head(s) = token

Has(s, c) == \E i \in DOMAIN s : s[i] = c

\* strchr finds the first; strrchr would find the last.
Split_Last(s, c) == CHOOSE i \in DOMAIN s : s[i] = c /\ \A j \in DOMAIN s : s[j] = c => j <= i
Split(s, c) == CHOOSE i \in DOMAIN s : s[i] = c /\ \A j \in DOMAIN s : s[j] = c => i <= j

Before(s, c) == IF Has(s, c) THEN SubSeq(s, 1, Split(s, c) - 1) ELSE s
After(s, c) == IF Has(s, c) THEN SubSeq(s, Split(s, c) + 1, Len(s)) ELSE <<>>

Or(s, default) == IF s = <<>> THEN default ELSE s

Port(s) == IF s # <<>> /\ Head(s) \in Number THEN SubSeq(s, 1, 1) ELSE <<"3306">>

\* mysql://[<username>[:<password>]@]<host>[:<port>]/database
MysqlLink(text) ==
  LET path == Before(text, "/")
      usrpwd == IF Has(path, "@") THEN Before(path, "@") ELSE <<>>
      hsturl == IF Has(path, "@") THEN After(path, "@") ELSE path IN
  [ type |-> "mysql",
    database |-> Or(After(text, "/"), <<"default">>),
    username |-> Or(Before(usrpwd, ":"), <<"root">>),
    password |-> After(usrpwd, ":"),
    host |-> Or(Before(hsturl, ":"), <<"localhost">>),
    port |-> Port(After(hsturl, ":")) ]

Unknown == [type |-> "unknown"]

db_url_to_link(url) ==
  IF StartsWith(url, Sqlite3) THEN [type |-> "sqlite3", database |-> Tail(url)]
  ELSE IF StartsWith(url, Mysql) THEN MysqlLink(Tail(url))
  ELSE Unknown

\* init_database refuses a URL that does not fit into a name.
Fits(url) == Len(url) < NameLen

InMemory(url) == db_url_to_link(url).database = <<":memory:">>
HasBackup(url) == StartsWith(url, Sqlite3) /\ ~InMemory(url)

\* snprintf(.., "%s.bak", ..) into a name: the end may be lost.
Cut(s) == IF Len(s) < NameLen THEN s ELSE SubSeq(s, 1, NameLen - 1)

BackupUrl(url) == Cut(url \o Bak)

\* The backup that init_dbs opens, and the one that db_sqlite3_try_recover checks
\* and copies: it adds the suffix to the name without the scheme.
OpenedBackup(url) == db_url_to_link(BackupUrl(url)).database
RecoveredBackup_OfPath(url) == Cut(<<"path", "/">> \o Tail(url) \o Bak)
RecoveredBackup(url) == Cut(Tail(url) \o Bak)

-----------------------------------------------------------------------------
(* Properties *)

\* What a URL spells out is what is connected to: each part comes back, and the
\* default for a part left out.  The password may have a ':' in it, and the name of
\* the database anything.
Spelled(p) ==
  <<Mysql>>
  \o (IF p.usr \o p.pwd = <<>> THEN <<>>
      ELSE p.usr \o (IF p.pwd = <<>> THEN <<>> ELSE <<":">> \o p.pwd) \o <<"@">>)
  \o p.host \o (IF p.port = <<>> THEN <<>> ELSE <<":">> \o p.port)
  \o (IF p.db = <<>> THEN <<>> ELSE <<"/">> \o p.db)

Parts ==
  [ usr : {<<>>, <<"u">>}, pwd : {<<>>, <<"p">>, <<"p", ":", "q">>},
    host : {<<>>, <<"h">>}, port : {<<>>} \cup {<<n>> : n \in Number},
    db : {<<>>, <<"d">>, <<"d", "/", "@", ":", "e">>} ]

ReadsBack(p) ==
  db_url_to_link(Spelled(p)) =
    [ type |-> "mysql", database |-> Or(p.db, <<"default">>),
      username |-> Or(p.usr, <<"root">>), password |-> p.pwd,
      host |-> Or(p.host, <<"localhost">>), port |-> Or(p.port, <<"3306">>) ]

UrlRoundTrip == \A p \in Parts : ReadsBack(p)

\* With room for the suffix there is one backup, and it is not main itself.
OneBackup(url) ==
  HasBackup(url) /\ Len(url) + Len(Bak) < NameLen =>
    /\ OpenedBackup(url) = RecoveredBackup(url)
    /\ OpenedBackup(url) # db_url_to_link(url).database
=============================================================================
