------------------------------ MODULE DbReports -----------------------------
(***************************************************************************)
(* What stats, dupes and potential say of every state batches, sweeps and  *)
(* deletions can leave in the database, and how its values are stored.     *)
(* Commands exclude each other: what is read is what was committed when no *)
(* batch is open.                                                          *)
(***************************************************************************)
EXTENDS Db, Reports, Codec

ASSUME ReportsAssumption ==
  Metas \subseteq [size : Nat, mtime_secs : Nat, hash256 : Hashes,
                   sha1prefix_4k : SUBSET UNION { m.sha1prefix_4k : m \in Metas }]

(* No file is written while it is hashed: what has one hash has one size   *)
(* and one beginning.                                                      *)
FilesAtRest ==
  \A m, n \in Metas :
    m.hash256 = n.hash256 => m.size = n.size /\ m.sha1prefix_4k = n.sha1prefix_4k

(* The size of what a set of versions holds, each content counted once. *)
SizeOnce(fids) ==
  LET metas == { [db.file_meta[f] EXCEPT !.mtime_secs = 0] : f \in fids }
  IN  MapThenSumSet(LAMBDA m : m.size, metas)

(* The figures of stats agree with the history: every version is counted   *)
(* once, every known path has exactly one version that is Live or Missing, *)
(* the duplicate files are the Live ones beyond one per content, and the   *)
(* unique size is that of the distinct contents (stats.rs).                *)
StatsMatchLog ==
  LET s == Stats(db)
      contents == { h \in Hashes : Log!Copies(h) # {} }
  IN  ~writing =>
      /\ s.total_versions = s.live_files + s.replaced_versions + s.missing_versions
      /\ s.total_versions = Len(LogOf(db))
      /\ s.live_files = Cardinality(LivePaths(db))
      /\ s.live_files + s.missing_versions = Cardinality(DOMAIN db.path_to_id)
      /\ s.dupe_extra_files = s.live_files - Cardinality(contents)
      /\ UniqueBytes(s) = SizeOnce(VersionsIn(db, Live))

(* "Potential duplicates are files that look similar at the beginning but  *)
(* are not exactly the same" (docs/USAGE.md): whatever the size range, no  *)
(* file is reported by dupes and by potential, and no two by potential     *)
(* have the same content.                                                  *)
ReportsDisjoint ==
  ~writing =>
    \A min, max \in {{}, {2}, {3}} : \A potential \in PotentialReport(db, Paths, min, max) :
      /\ \A f, g \in potential :
           db.file_meta[f].hash256 = db.file_meta[g].hash256 => f = g
      /\ \A exact \in DupesReport(db, Paths, {}, {}) : potential \cap exact = {}

(* What the tables hold as bytes (file_meta.rs, codec.rs) is what Db says: *)
(* every blob decodes to the metadata it was made from and no beginning of *)
(* it decodes at all, and the list of a hash, to which file ids were added *)
(* one by one, unpacks to its versions in ascending order.                 *)
StoredIsRead ==
  ~writing =>
  /\ \A fid \in DOMAIN db.file_meta :
       LET blob == Encode(db.file_meta[fid])
       IN  /\ Decode(blob) = {db.file_meta[fid]}
           /\ \A n \in 0..(Len(blob) - 1) : Decode(SubSeq(blob, 1, n)) = {}
  /\ \A h \in Hashes :
       LET ids == SetToSortSeq(db.hash256_to_files[h], LAMBDA f, g : f < g)
       IN  Unpack(FoldLeft(AddId, <<>>, ids)) = ids
=============================================================================
