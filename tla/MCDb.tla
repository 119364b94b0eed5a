-------------------------------- MODULE MCDb --------------------------------
(* A small instance of Db for TLC, with the reports on every committed     *)
(* state: two larger contents with the same beginning, and a small one     *)
(* without a prefix.  A byte has two values, a number three bytes.         *)
EXTENDS DbReports

MCPaths == {"a", "b", "c"}
MCRank == [a |-> 1, b |-> 2, c |-> 3]
MCLen == [a |-> 2, b |-> 1, c |-> 1]
Small == <<0, 0>>
Large == <<1, 0>>
Other == <<1, 1>>
MCHashes == {Small, Large, Other}
MCMetas ==
  { [size |-> IF h = Small THEN 1 ELSE IF h = Large THEN 2 ELSE 3, mtime_secs |-> 1,
     hash256 |-> h, sha1prefix_4k |-> IF h = Small THEN {} ELSE {<<1>>}] : h \in MCHashes }
=============================================================================
