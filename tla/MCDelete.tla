------------------------------ MODULE MCDelete ------------------------------
(* Deletes on every small disk a first scan has indexed: four paths, two   *)
(* contents, known and unknown mtimes, every policy, filters that take     *)
(* all, a part and one of the paths.                                       *)
EXTENDS Delete

MCPaths == {"a", "b", "c", "d"}
MCRank == [a |-> 1, b |-> 2, c |-> 3, d |-> 4]
MCLen == [a |-> 2, b |-> 1, c |-> 3, d |-> 1]
MCHashes == {"h1", "h2"}
MCSize == [h1 |-> 1, h2 |-> 1]
MCMetas == [size : {1}, mtime_secs : 0..2, hash256 : MCHashes]
MCFilters == {MCPaths, {"a", "b"}, {"b", "c", "d"}, {"d"}}
MCFaults == {"remove", "delete crash"}
MCCrash == {"delete crash"}

(* The database after a scan of the whole disk. *)
Scanned(d) ==
  LET found == SetToSeq({ p \in Paths : d[p] # {} })
  IN  FoldLeft(LAMBDA e, p : WriteVersion(e, p, CHOOSE f \in d[p] : TRUE), EmptyDb, found)

MCInit ==
  /\ disk \in [Paths -> {{}} \cup { {File(h, t)} : h \in Hashes, t \in 0..MaxTime }]
  /\ db = Scanned(disk)
  /\ now = MaxTime
  /\ faults = 0
  /\ DeleteInit

MCSpec == MCInit /\ [][DeleteNext]_<<worldVars, deleteVars>>
=============================================================================
