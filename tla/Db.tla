--------------------------------- MODULE Db ---------------------------------
(***************************************************************************)
(* The database of deldupes as a state machine (db.rs).                    *)
(*                                                                         *)
(* db is the committed state, what begin_read sees and what survives a     *)
(* crash.  tx is the working copy of the write transaction that is open    *)
(* while writing is TRUE; write_batch_versions changes it item by item and *)
(* either commits it or leaves without committing (an error returned by ?, *)
(* or a crash), which redb rolls back.  LOCK admits one process, and in it *)
(* one thread at a time writes, so there is never a second transaction.    *)
(***************************************************************************)
EXTENDS DbTables

CONSTANT
  MaxFileId  \* bound: file ids are allocated up to this one

ASSUME MaxFileIdAssumption == MaxFileId \in Nat

VARIABLES db, tx, writing

vars == <<db, tx, writing>>

Init ==
  /\ db = EmptyDb
  /\ tx = EmptyDb
  /\ writing = FALSE

(* write_batch_versions up to its loop. *)
BeginBatch ==
  /\ ~writing
  /\ writing' = TRUE
  /\ UNCHANGED <<db, tx>>

(* One item of the batch: a version of path with metadata meta. *)
WriteItem(path, meta) ==
  /\ writing
  /\ tx.next_file_id <= MaxFileId
  /\ tx' = WriteVersion(tx, path, meta)
  /\ UNCHANGED <<db, writing>>

(* tx.commit() succeeds. *)
CommitBatch ==
  /\ writing
  /\ db' = tx
  /\ writing' = FALSE
  /\ UNCHANGED tx

(* The transaction ends without a commit: redb keeps the old state. *)
AbortBatch ==
  /\ writing
  /\ tx' = db
  /\ writing' = FALSE
  /\ UNCHANGED db

(* The sweep a scan ends with.  scope: the paths under its roots, of which *)
(* some are seen.                                                          *)
SweepMissing(scope, seen) ==
  /\ ~writing
  /\ db' = MarkMissingNotSeen(db, scope, seen)
  /\ tx' = db'
  /\ UNCHANGED writing

(* What a delete run records for one group.  fids: the files it removed,   *)
(* versions that were listed as duplicates.                                *)
RecordRemoved(fids) ==
  /\ ~writing
  /\ db' = MarkFilesMissing(db, fids)
  /\ tx' = db'
  /\ UNCHANGED writing

Next ==
  \/ BeginBatch
  \/ \E path \in Paths, meta \in Metas : WriteItem(path, meta)
  \/ CommitBatch
  \/ AbortBatch
  \/ \E scope \in SUBSET Paths : \E seen \in SUBSET scope : SweepMissing(scope, seen)
  \/ \E fids \in SUBSET DOMAIN db.file_state : RecordRemoved(fids)

Spec == Init /\ [][Next]_vars

-----------------------------------------------------------------------------
(* Properties *)

(* The type invariant: both copies of the database are well formed.        *)
TypeOK == writing \in BOOLEAN /\ Typed(db) /\ Typed(tx)

(* Whatever is committed, by batches cut anywhere, by sweeps and by        *)
(* deletions, path ids are a bijection, the current version belongs to its *)
(* path, exactly the superseded versions are Replaced and the hash index   *)
(* is exact: a duplicate group read from any snapshot (dupe_groups.rs)     *)
(* lists each path at most once.                                           *)
DbConsistent == Consistent(db)

(* Two different Live versions never have the same path string: what lets  *)
(* delete.rs keep one file id of a group and remove the others' paths.     *)
LivePathsDistinct ==
  \A f, g \in DOMAIN db.file_state :
    /\ db.file_state[f] = Live
    /\ db.file_state[g] = Live
    /\ PathOf(db, f) = PathOf(db, g)
    => f = g

(* "History is preserved instead of overwritten" (README.md): no step,     *)
(* commit or rollback takes a version, its path or its metadata out of the *)
(* committed state, and a version only moves from Live to Missing or       *)
(* Replaced and from Missing to Replaced.                                  *)
HistoryKept == [][Extends(db, db')]_db

(* The abstract specification the tables implement. *)
Log == INSTANCE VersionLog WITH log <- LogOf(db), live <- LivePaths(db)

(* The eight tables and their transactions implement the VersionLog: each  *)
(* commit appends versions behind the old ones and makes exactly their     *)
(* paths Live, each sweep or deletion only takes paths out of Live.        *)
ImplementsVersionLog == Log!LogSpec

(* The groups the hash index yields are those of the log: for each content *)
(* exactly the Live paths whose latest recorded version has it.            *)
GroupsAreOfLatest ==
  \A h \in Hashes : { PathOf(db, f) : f \in LiveEntries(db, h) } = Log!Copies(h)
=============================================================================
