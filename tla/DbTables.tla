------------------------------ MODULE DbTables ------------------------------
(***************************************************************************)
(* The tables of index.redb (schema.rs) as one value, and the transactions *)
(* and queries of DbHandle (db.rs) as operators on such a value.           *)
(*                                                                         *)
(* A database value d is a record of tables.  Paths, hashes and metadata   *)
(* blobs are opaque; FileMeta keeps the fields the program compares.  The  *)
(* packed, sorted, duplicate-free list of file ids that hash256_to_files   *)
(* holds for a hash is the set of those ids, and an absent key is {}.      *)
(* A counter of kv_u64 that was never written reads as 1, so it starts at  *)
(* 1 here.                                                                 *)
(***************************************************************************)
EXTENDS Naturals

CONSTANTS
  Paths,   \* normalized path strings
  Hashes,  \* BLAKE3-256 values
  Metas    \* FileMeta values: records with size, mtime_secs and hash256

ASSUME MetasAssumption ==
  \A m \in Metas : /\ m.hash256 \in Hashes
                   /\ m.size \in Nat
                   /\ m.mtime_secs \in Nat

(* FileState as the u8 that file_state stores. *)
Live == 0
Replaced == 1
Missing == 2
FileStates == {Live, Replaced, Missing}

(* Table insert: k now maps to v, every other key keeps its value. *)
Put(f, k, v) == [x \in DOMAIN f \cup {k} |-> IF x = k THEN v ELSE f[x]]

TableNames ==
  {"next_path_id", "next_file_id", "path_to_id", "id_to_path", "path_current",
   "file_meta", "file_to_path", "file_state", "hash256_to_files"}

EmptyTable == [x \in {} |-> x]

(* What ensure_schema leaves in a new database: every table, no rows. *)
EmptyDb ==
  [ next_path_id     |-> 1,
    next_file_id     |-> 1,
    path_to_id       |-> EmptyTable,
    id_to_path       |-> EmptyTable,
    path_current     |-> EmptyTable,
    file_meta        |-> EmptyTable,
    file_to_path     |-> EmptyTable,
    file_state       |-> EmptyTable,
    hash256_to_files |-> [h \in Hashes |-> {}] ]

-----------------------------------------------------------------------------
(* The path id an item of a batch works on: the known one, or the next     *)
(* counter value for a path never seen before.                             *)
PathIdFor(d, path) ==
  IF path \in DOMAIN d.path_to_id THEN d.path_to_id[path] ELSE d.next_path_id

(* KEY_NEXT_PATH_ID after an item: advanced only for a new path.           *)
NextPathIdKept(d, path) == d.next_path_id  \* mutant: the counter is not stored

NextPathIdAfter(d, path) ==
  IF path \in DOMAIN d.path_to_id THEN d.next_path_id ELSE d.next_path_id + 1

(* KEY_NEXT_FILE_ID after an item. *)
NextFileIdKept(d) == d.next_file_id  \* mutant: the counter is not stored

NextFileIdAfter(d) == d.next_file_id + 1

(* file_state once the current version of a path, if any, is Replaced.     *)
SupersedeNothing(d, pid) == d.file_state  \* mutant: step 2 is missing

SupersedeCurrent(d, pid) ==
  IF pid \in DOMAIN d.path_current
  THEN Put(d.file_state, d.path_current[pid], Replaced)
  ELSE d.file_state

(* One turn of the loop of write_batch_versions: find or create the path   *)
(* id, mark the previous current version Replaced, allocate a file id,     *)
(* insert the new Live version and add it to the hash index.               *)
WriteVersion(d, path, meta) ==
  LET pid == PathIdFor(d, path)
      fid == d.next_file_id
  IN  [ next_path_id     |-> NextPathIdAfter(d, path),
        next_file_id     |-> NextFileIdAfter(d),
        path_to_id       |-> Put(d.path_to_id, path, pid),
        id_to_path       |-> Put(d.id_to_path, pid, path),
        path_current     |-> Put(d.path_current, pid, fid),
        file_meta        |-> Put(d.file_meta, fid, meta),
        file_to_path     |-> Put(d.file_to_path, fid, pid),
        file_state       |-> Put(SupersedeCurrent(d, pid), fid, Live),
        hash256_to_files |-> [d.hash256_to_files EXCEPT
                                 ![meta.hash256] = @ \cup {fid}] ]

(* mark_missing_not_seen: the Live current version of every path that lies *)
(* under a scanned root (scope) and was not seen becomes Missing.          *)
MarkMissingNotSeen(d, scope, seen) ==
  LET gone == { d.path_current[pid] :
                  pid \in { i \in DOMAIN d.path_current \cap DOMAIN d.id_to_path :
                              d.id_to_path[i] \in scope \ seen } }
  IN  [d EXCEPT !.file_state =
         [f \in DOMAIN @ |-> IF f \in gone /\ @[f] = Live THEN Missing ELSE @[f]]]

(* mark_files_missing: of the given versions, those still Live become      *)
(* Missing.                                                                *)
MarkAnyFilesMissing(d, fids) ==  \* mutant: the state is not looked at
  [d EXCEPT !.file_state =
     [f \in DOMAIN @ |-> IF f \in fids THEN Missing ELSE @[f]]]

MarkFilesMissing(d, fids) ==
  [d EXCEPT !.file_state =
     [f \in DOMAIN @ |-> IF f \in fids /\ @[f] = Live THEN Missing ELSE @[f]]]

-----------------------------------------------------------------------------
(* Queries.  An Option is the set of its at most one value.                *)

(* get_current_by_path: the version path_current holds for a path,         *)
(* whatever its state.                                                     *)
GetCurrentByPath(d, path) ==
  { d.path_current[pid] :
      pid \in { i \in DOMAIN d.path_current :
                  /\ path \in DOMAIN d.path_to_id
                  /\ d.path_to_id[path] = i
                  /\ d.path_current[i] \in DOMAIN d.file_meta } }

(* get_current_size_mtime_by_path, compared as the preflight of a scan     *)
(* does: the current version of the path has this size and mtime.          *)
CurrentSizeMtimeIs(d, path, size, mtime) ==
  \E f \in GetCurrentByPath(d, path) :
    d.file_meta[f].size = size /\ d.file_meta[f].mtime_secs = mtime

(* lookup_files_by_hash256: every version recorded for the hash.           *)
LookupFilesByHash256(d, hash) ==
  d.hash256_to_files[hash] \cap DOMAIN d.file_meta

(* The path a version was observed at.                                     *)
PathOf(d, fid) == d.id_to_path[d.file_to_path[fid]]

(* The Live entries load_live_dupe_groups collects for a hash.             *)
EntriesInAnyState(d, hash) ==  \* mutant: the state is not looked at
  LookupFilesByHash256(d, hash) \cap DOMAIN d.file_to_path

LiveEntries(d, hash) ==
  { f \in LookupFilesByHash256(d, hash) :
      /\ f \in DOMAIN d.file_state
      /\ d.file_state[f] = Live
      /\ f \in DOMAIN d.file_to_path
      /\ d.file_to_path[f] \in DOMAIN d.id_to_path }
-----------------------------------------------------------------------------
(* The value seen as a VersionLog: versions by file id, and Live paths.    *)
LogOf(d) ==
  [fid \in 1..(d.next_file_id - 1) |->
     [path |-> PathOf(d, fid), meta |-> d.file_meta[fid]]]

LivePaths(d) ==
  { PathOf(d, fid) : fid \in { f \in DOMAIN d.file_state : d.file_state[f] = Live } }

-----------------------------------------------------------------------------
(* Consistency of the tables of one database value, by parts.              *)

(* Every table has the rows the two counters say, and nothing else.        *)
Typed(d) ==
  /\ DOMAIN d = TableNames
  /\ d.next_path_id \in Nat \ {0}
  /\ d.next_file_id \in Nat \ {0}
  /\ d.id_to_path \in [1..(d.next_path_id - 1) -> Paths]
  /\ DOMAIN d.path_to_id \subseteq Paths
  /\ d.path_to_id \in [DOMAIN d.path_to_id -> 1..(d.next_path_id - 1)]
  /\ d.path_current \in [1..(d.next_path_id - 1) -> 1..(d.next_file_id - 1)]
  /\ d.file_meta \in [1..(d.next_file_id - 1) -> Metas]
  /\ d.file_to_path \in [1..(d.next_file_id - 1) -> 1..(d.next_path_id - 1)]
  /\ d.file_state \in [1..(d.next_file_id - 1) -> FileStates]
  /\ d.hash256_to_files \in [Hashes -> SUBSET (1..(d.next_file_id - 1))]

(* path_to_id and id_to_path are inverse to each other. *)
PathIdsInverse(d) ==
  /\ \A path \in DOMAIN d.path_to_id : d.id_to_path[d.path_to_id[path]] = path
  /\ \A pid \in DOMAIN d.id_to_path :
       /\ d.id_to_path[pid] \in DOMAIN d.path_to_id
       /\ d.path_to_id[d.id_to_path[pid]] = pid

(* path_current points to a version of that very path. *)
CurrentIsOwn(d) ==
  \A pid \in DOMAIN d.path_current : d.file_to_path[d.path_current[pid]] = pid

(* A version is Replaced exactly when it is not the current one of its     *)
(* path.                                                                   *)
ReplacedIffSuperseded(d) ==
  \A fid \in DOMAIN d.file_state :
    d.file_state[fid] = Replaced <=> d.path_current[d.file_to_path[fid]] # fid

(* The hash index lists a version under its own hash and nowhere else.     *)
IndexExact(d) ==
  \A h \in Hashes, fid \in DOMAIN d.file_meta :
    fid \in d.hash256_to_files[h] <=> d.file_meta[fid].hash256 = h

Consistent(d) ==
  /\ PathIdsInverse(d)
  /\ CurrentIsOwn(d)
  /\ ReplacedIffSuperseded(d)
  /\ IndexExact(d)

(* The history of d is kept by e: no version loses its metadata or its     *)
(* path, no path its id, and no version goes back to an earlier state.     *)
MayBecome(s, t) == \/ s = t
                   \/ s = Live
                   \/ s = Missing /\ t = Replaced

Extends(d, e) ==
  /\ \A path \in DOMAIN d.path_to_id :
       path \in DOMAIN e.path_to_id /\ e.path_to_id[path] = d.path_to_id[path]
  /\ \A fid \in DOMAIN d.file_meta :
       /\ fid \in DOMAIN e.file_meta
       /\ e.file_meta[fid] = d.file_meta[fid]
       /\ e.file_to_path[fid] = d.file_to_path[fid]
       /\ MayBecome(d.file_state[fid], e.file_state[fid])
=============================================================================
