------------------------------- MODULE Reports ------------------------------
(***************************************************************************)
(* The read-only commands as functions of a database value and the file    *)
(* they are asked about: dupes, potential, stats, check and check-hash     *)
(* (dupes.rs, potential.rs, stats.rs, check.rs).  Each reads one snapshot. *)
(*                                                                         *)
(* A size bound is an Option, a set of at most one number.  Metadata has   *)
(* one more field here, sha1prefix_4k, an Option too.                      *)
(***************************************************************************)
EXTENDS DupePlan, FiniteSetsExt

SizeInRange(size, min, max) ==
  /\ \A m \in min : size >= m
  /\ \A m \in max : size <= m

SizeIn(d, fid) == d.file_meta[fid].size

VersionsIn(d, state) == { f \in DOMAIN d.file_state : d.file_state[f] = state }

-----------------------------------------------------------------------------
(* run_dupes: the groups whose first entry has a size in the range.        *)
DupesReport(d, flt, min, max) ==
  { g \in DupeGroups(d, flt) : SizeInRange(SizeIn(d, Head(ByPath(d, g))), min, max) }

-----------------------------------------------------------------------------
(* potential::load_groups: by prefix of the content, the Live versions     *)
(* that are the only Live one with their content, where that leaves two.   *)
WithPrefix(d, prefix) ==
  { f \in VersionsIn(d, Live) : d.file_meta[f].sha1prefix_4k = {prefix} }

EveryBucket(d, prefix) == WithPrefix(d, prefix)  \* mutant: exact duplicates stay

SingleBuckets(d, prefix) ==
  { f \in WithPrefix(d, prefix) :
      \A g \in WithPrefix(d, prefix) \ {f} :
        d.file_meta[g].hash256 # d.file_meta[f].hash256 }

KnownPrefixes(d) == UNION { d.file_meta[f].sha1prefix_4k : f \in DOMAIN d.file_meta }

PotentialGroups(d) ==
  { g \in { SingleBuckets(d, prefix) : prefix \in KnownPrefixes(d) } : Cardinality(g) >= 2 }

(* filter_groups: sizes by entry, the path filter by group.                *)
PotentialReport(d, flt, min, max) ==
  { g \in { { f \in group : SizeInRange(SizeIn(d, f), min, max) } :
              group \in PotentialGroups(d) } :
      Cardinality(g) >= 2 /\ \E f \in g : PathOf(d, f) \in flt }

-----------------------------------------------------------------------------
(* stats::compute, and the unique size print derives from it. *)
TotalSize(d, fids) == MapThenSumSet(LAMBDA f : SizeIn(d, f), fids)

WholeGroup(group) == Cardinality(group)  \* mutant: every entry counts as extra

ExtraOfGroup(group) == Cardinality(group) - 1

Stats(d) ==
  LET groups == DupeGroups(d, Paths)
      first(g) == Head(ByPath(d, g))
  IN  [ live_files        |-> Cardinality(VersionsIn(d, Live)),
        live_bytes        |-> TotalSize(d, VersionsIn(d, Live)),
        total_versions    |-> Cardinality(DOMAIN d.file_state),
        replaced_versions |-> Cardinality(VersionsIn(d, Replaced)),
        missing_versions  |-> Cardinality(VersionsIn(d, Missing)),
        dupe_groups       |-> Cardinality(groups),
        dupe_extra_files  |-> MapThenSumSet(ExtraOfGroup, groups),
        dupe_bytes        |-> MapThenSumSet(
                                LAMBDA g : ExtraOfGroup(g) * SizeIn(d, first(g)), groups) ]

UniqueBytes(s) == IF s.dupe_bytes > s.live_bytes THEN 0 ELSE s.live_bytes - s.dupe_bytes

-----------------------------------------------------------------------------
(* check_by_sha, and the last part of check_one. *)
CheckByHash(d, hash) ==
  LET entries == LookupFilesByHash256(d, hash)
  IN  IF entries = {} THEN "NotFound"
      ELSE IF entries \cap VersionsIn(d, Live) # {} THEN "Exists"
      ELSE "KnownRemoved"

(* The current version of a path, if it is Live and has the size and mtime *)
(* of the file: what check takes for the same file without hashing it.     *)
MatchedBySize(d, path, file) ==  \* mutant: the mtime is not compared
  { f \in GetCurrentByPath(d, path) : d.file_state[f] = Live /\ SizeIn(d, f) = file.size }

Matched(d, path, file) ==
  { f \in GetCurrentByPath(d, path) :
      d.file_state[f] = Live /\ CurrentSizeMtimeIs(d, path, file.size, file.mtime_secs) }

(* check_one, for a path with the given regular file.  Where there is none *)
(* it matters whether something else is: then metadata succeeds, and the   *)
(* database is not asked.  A file that cannot be hashed ends the command.  *)
CheckOne(d, path, onDisk, isOther) ==
  IF onDisk = {}
  THEN IF ~isOther /\ GetCurrentByPath(d, path) \cap VersionsIn(d, Missing) # {}
       THEN "KnownRemoved" ELSE "NotFound"
  ELSE LET file == CHOOSE f \in onDisk : TRUE
       IN  IF Matched(d, path, file) # {} THEN "Exists" ELSE CheckByHash(d, file.hash256)

(* print_hash_peers: the other versions with the content of a file that is *)
(* there, and whether it calls the file one of several (DUPES).            *)
HashLookedUp(d, path, file) ==
  IF Matched(d, path, file) = {} THEN {file.hash256}
  ELSE { d.file_meta[f].hash256 : f \in Matched(d, path, file) }

AllPeers(d, path, file) ==  \* mutant: none excluded
  UNION { LookupFilesByHash256(d, h) : h \in HashLookedUp(d, path, file) }

Peers(d, path, file) ==
  (UNION { LookupFilesByHash256(d, h) : h \in HashLookedUp(d, path, file) })
    \ Matched(d, path, file)

SaysDupes(d, path, file) == Peers(d, path, file) \cap VersionsIn(d, Live) # {}
=============================================================================
