------------------------------ MODULE DupePlan ------------------------------
(***************************************************************************)
(* Duplicate groups and what a delete run plans for them, as operators on  *)
(* a database value (dupe_groups.rs, plan_group of delete.rs).             *)
(*                                                                         *)
(* A PathFilter is the set of the paths it matches; one without prefixes   *)
(* is the set of all (PathMatch says which set that is).  Paths are        *)
(* ordered by PathRank, and PathLen is their length.                       *)
(***************************************************************************)
EXTENDS DbTables, Integers, FiniteSets, Sequences, SequencesExt

CONSTANTS
  PathRank,  \* position of a path in the order of strings
  PathLen    \* length of a path

ASSUME DupePlanAssumption ==
  /\ PathRank \in [Paths -> Nat]
  /\ PathLen \in [Paths -> Nat]
  /\ \A p, q \in Paths : PathRank[p] = PathRank[q] => p = q

AllPolicies ==
  {"Oldest", "Newest", "ShortestPath", "LongestPath", "AlphaFirst", "AlphaLast"}

-----------------------------------------------------------------------------
(* load_live_dupe_groups *)

(* sort_by: the elements of S, each once, none behind one of higher rank.  *)
Sorted(S, rank) ==
  CHOOSE s \in [1..Cardinality(S) -> S] :
    /\ IsInjective(s)
    /\ \A i, j \in DOMAIN s : i < j => rank[s[i]] <= rank[s[j]]

ByPath(d, fids) == Sorted(fids, [f \in fids |-> PathRank[PathOf(d, f)]])

(* a < b for tuples of integers of one length. *)
TupleLess(a, b) ==
  \E i \in DOMAIN a : a[i] < b[i] /\ \A j \in 1..(i - 1) : a[j] = b[j]

HeaderRank(d, group) ==
  LET key(f) == <<PathLen[PathOf(d, f)], PathRank[PathOf(d, f)]>>
      header == CHOOSE f \in group : \A g \in group \ {f} : TupleLess(key(f), key(g))
  IN  PathRank[PathOf(d, header)]

(* The groups of at least two Live versions of which one matches.          *)
DupeGroups(d, flt) ==
  { group \in { LiveEntries(d, h) : h \in Hashes } :
      /\ Cardinality(group) >= 2
      /\ \E f \in group : PathOf(d, f) \in flt }

LoadLiveDupeGroups(d, flt) ==
  Sorted(DupeGroups(d, flt), [group \in DupeGroups(d, flt) |-> HeaderRank(d, group)])

-----------------------------------------------------------------------------
(* plan_group and choose_keeper *)

(* The sort key of an entry; the least is kept.  mtime 0 means unknown.    *)
OldestKeyUnknownFirst(mtime, path) == <<mtime, PathRank[path]>>  \* mutant: no flag

OldestKey(mtime, path) == <<IF mtime = 0 THEN 1 ELSE 0, mtime, PathRank[path]>>

KeeperKey(policy, mtime, path) ==
  CASE policy = "Oldest"       -> OldestKey(mtime, path)
    [] policy = "Newest"       -> <<IF mtime = 0 THEN 1 ELSE 0, -mtime, PathRank[path]>>
    [] policy = "ShortestPath" -> <<PathLen[path], PathRank[path]>>
    [] policy = "LongestPath"  -> <<-PathLen[path], PathRank[path]>>
    [] policy = "AlphaFirst"   -> <<PathRank[path]>>
    [] policy = "AlphaLast"    -> <<-PathRank[path]>>

ChooseKeeper(d, policy, group) ==
  LET key(f) == KeeperKey(policy, d.file_meta[f].mtime_secs, PathOf(d, f))
  IN  CHOOSE f \in group : \A g \in group \ {f} : TupleLess(key(f), key(g))

(* The versions of a group to delete. *)
ToDeleteAllSelected(d, policy, flt, group) ==  \* mutant: no keeper is chosen
  { f \in group : PathOf(d, f) \in flt }

ToDelete(d, policy, flt, group) ==
  LET selected == { f \in group : PathOf(d, f) \in flt }
  IN  IF selected = group THEN group \ {ChooseKeeper(d, policy, group)} ELSE selected
=============================================================================
