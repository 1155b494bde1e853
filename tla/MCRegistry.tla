----------------------------- MODULE MCRegistry -----------------------------
(* URLs of every type, and SQLite names around the length where the suffix of *)
(* the backup has no room any more.                                           *)
EXTENDS Registry, TLC
CONSTANTS t1, t2
File(n) == [i \in 1 .. n |-> IF i = 1 THEN Sqlite3 ELSE "a"]
MCUrl ==
  { File(NameLen - 5), File(NameLen - 4), File(NameLen),
    <<Sqlite3, ":memory:">>,
    <<Mysql, "u", ":", "p", "@", "h", "/", "d">>,
    <<"http://", "h">> }
Alike == Permutations({t1, t2})
=============================================================================
