----------------------------- MODULE Lifecycle -----------------------------
(***************************************************************************)
(* Scans, deletes and a user, over the life of one database.  LOCK admits  *)
(* one command at a time; the user is never locked out.                    *)
(***************************************************************************)
EXTENDS Scan, Delete, Reports

VARIABLES
  quiet,   \* history: nothing but the running scan acted since it started
  missed,  \* history: paths the running scan could not have listed
  fresh    \* history: since a quiet scan of everything, only commands that
           \* ended well have acted

lifecycleHistory == <<quiet, missed, fresh>>
vars == <<worldVars, scanVars, deleteVars, lifecycleHistory>>

Init ==
  /\ WorldInit
  /\ ScanInit
  /\ DeleteInit
  /\ quiet = FALSE
  /\ missed = {}
  /\ fresh = FALSE

-----------------------------------------------------------------------------
(* The user, at any moment *)

UserActs ==
  /\ quiet' = FALSE
  /\ fresh' = FALSE
  /\ trusted' = FALSE
  /\ UNCHANGED <<scanVars, deleting, filter, preserve, groups, plan, removed, before>>

UserWrites(path, hash) ==
  /\ Write(path, hash)
  /\ UserActs
  /\ UNCHANGED missed

UserErases(path) ==
  /\ Erase(path)
  /\ UserActs
  /\ missed' = missed \cup {path}

-----------------------------------------------------------------------------
(* Scans *)

StartScan(o) ==
  /\ ~deleting
  /\ ScanStart(o)
  /\ quiet' = TRUE
  /\ missed' = { p \in Paths : ~IsOnDisk(p) }
  /\ UNCHANGED <<deleteVars, fresh>>

ScanStep ==
  /\ \/ \E l \in todo : ListFile(l)
     \/ \E l \in listed : StatFile(l)
     \/ \E job \in jobs : HashJob(job) \/ DropJob(job)
     \/ CommitFull
     \/ CommitRest
  /\ UNCHANGED <<deleteVars, lifecycleHistory>>

ScanFault ==
  /\ \/ \E job \in jobs : FailJob(job)
     \/ ScanCrash
  /\ quiet' = FALSE
  /\ fresh' = FALSE
  /\ UNCHANGED <<deleteVars, missed>>

ScanOverlooks(l) ==
  /\ OverlookFile(l)
  /\ quiet' = FALSE
  /\ missed' = missed \cup {l[1]}
  /\ fresh' = FALSE
  /\ UNCHANGED deleteVars

FinishScan ==
  /\ ScanFinish
  /\ fresh' = \/ fresh
              \/ quiet /\ opts.walked = Paths /\ opts.detect
  /\ quiet' = FALSE
  /\ missed' = {}
  /\ UNCHANGED deleteVars

-----------------------------------------------------------------------------
(* Deletes *)

StartDelete(flt, policy) ==
  /\ ~scanning
  /\ DeleteStart(flt, policy)
  /\ UNCHANGED <<scanVars, lifecycleHistory>>

StepDelete ==
  /\ DeleteStep
  /\ UNCHANGED <<scanVars, lifecycleHistory>>

(* A run that ends in the middle of a group. *)
BreakDelete ==
  /\ RemoveFails \/ DeleteCrash
  /\ fresh' = FALSE
  /\ UNCHANGED <<scanVars, quiet, missed>>

Next ==
  \/ \E path \in Paths, hash \in Hashes : UserWrites(path, hash)
  \/ \E path \in Paths : UserErases(path)
  \/ \E l \in todo : ScanOverlooks(l)
  \/ \E o \in ScanOptions : StartScan(o)
  \/ ScanStep
  \/ ScanFault
  \/ FinishScan
  \/ \E flt \in Filters, policy \in Preserves : StartDelete(flt, policy)
  \/ StepDelete
  \/ BreakDelete

Spec == Init /\ [][Next]_vars

-----------------------------------------------------------------------------
(* Properties *)

(* The type invariant.  A listing is in one place only, what a scan holds  *)
(* of a listed path is about a path it has seen, and what is committed is  *)
(* well formed and consistent.                                             *)
TypeOK ==
  /\ Typed(db)
  /\ Consistent(db)
  /\ \A p \in Paths : disk[p] \subseteq Metas /\ Cardinality(disk[p]) <= 1
  /\ DeleteTypeOK
  /\ ~(scanning /\ deleting)
  /\ todo \cup listed \subseteq opts.walked \X (1..opts.times)
  /\ todo \cap listed = {}
  /\ { <<j.path, j.time>> : j \in jobs } \cap (todo \cup listed) = {}
  /\ { j.path : j \in jobs } \cup { r.path : r \in Range(results) } \subseteq seen

(* The identity shortcut is sound (docs/specs.md section 8): whatever the  *)
(* user does between the stat of a file, its hashing and the commit, and   *)
(* however runs are cut off, a current record with the size and mtime of   *)
(* the file at its path has the hash of its content.  So the preflight     *)
(* skips only files whose record is right.                                 *)
UnchangedIsIdentical ==
  \A p \in Paths : \A f \in disk[p] : \A fid \in GetCurrentByPath(db, p) :
    LET m == db.file_meta[fid]
    IN  m.size = f.size /\ m.mtime_secs = f.mtime_secs => m.hash256 = f.hash256

(* check (check.rs) knows a file that is there by its content: whether it  *)
(* takes the identity shortcut or hashes, and whatever scans, deletes, the *)
(* user and failures did before, it calls the file NOT_FOUND if and only   *)
(* if no version has its content, and answers what check-hash answers for  *)
(* that content.  Where the file is as its record says and the record is   *)
(* Missing, the second is left open: documents and code want different     *)
(* answers (PresentIsNotMissing).                                          *)
CheckAgrees ==
  \A p \in Paths : \A f \in disk[p], isOther \in BOOLEAN :
    LET answer == CheckOne(db, p, disk[p], isOther)
    IN  /\ answer = "NotFound" <=> LookupFilesByHash256(db, f.hash256) = {}
        /\ \/ answer = CheckByHash(db, f.hash256)
           \/ \E fid \in GetCurrentByPath(db, p) :
                db.file_meta[fid] = f /\ db.file_state[fid] = Missing

(* The duplicates check lists of a file, found by the recorded hash where  *)
(* it takes the identity shortcut and by the file's own where not, are all *)
(* Live versions of its content at other paths, at any moment.  Its own    *)
(* version may be among them only if the file was touched: the comment at  *)
(* check.rs:301 takes each of them for another file.                       *)
DupesAreOthers ==
  \A p \in Paths : \A f \in disk[p] :
    LET live == LookupFilesByHash256(db, f.hash256) \cap VersionsIn(db, Live)
        dupes == Peers(db, p, f) \cap VersionsIn(db, Live)
    IN  /\ dupes \subseteq live
        /\ \A fid \in live \ dupes : PathOf(db, fid) = p
        /\ \A fid \in dupes :
             PathOf(db, fid) = p => db.file_meta[fid].mtime_secs # f.mtime_secs

(* What check says can be relied on after a quiet scan of everything, and  *)
(* through commands that end well since: a recorded file that is gone is   *)
(* KNOWN_REMOVED, unless a directory has its place, where check looks no   *)
(* further; and one said to have live duplicates has a copy at another     *)
(* path (unless that one was emptied, see FreshIsTrue).                    *)
CheckIsTrue ==
  fresh /\ ~deleting =>
    \A p \in Paths :
      /\ ~IsOnDisk(p) /\ GetCurrentByPath(db, p) # {}
           => \A isOther \in BOOLEAN :
                CheckOne(db, p, disk[p], isOther) = "KnownRemoved" <=> ~isOther
      /\ \A f \in disk[p] :
           f.size > 0 /\ SaysDupes(db, p, f)
             => \E q \in Paths \ {p} : \E g \in disk[q] :
                  g.hash256 = f.hash256 \/ g.size = 0

(* The sweep of a run that walks all of its scope marks as Missing only    *)
(* versions whose path was, at some moment of that run, not there to be    *)
(* listed: never a file that was there all along, empty or unchanged ones  *)
(* included.                                                               *)
SweepsOnlyUnseen ==
  [][ scanning /\ opts.walked = opts.scope =>
        \A fid \in DOMAIN db.file_state :
          db.file_state[fid] = Live /\ db'.file_state[fid] = Missing
            => PathOf(db, fid) \in missed ]_vars

(* A scan during which nothing else happened leaves, for every non-empty   *)
(* file it walked, a current record equal to the file, whatever earlier    *)
(* runs, crashes and rollbacks left behind; and with deletion detection no *)
(* Live version of an absent path of its scope.                            *)
ScanIsComplete ==
  [][ FinishScan /\ quiet =>
        /\ \A p \in opts.walked : \A f \in disk[p] :
             f.size > 0 =>
               \E fid \in GetCurrentByPath(db', p) : db'.file_meta[fid] = f
        /\ opts.detect =>
             \A fid \in DOMAIN db'.file_state :
               LET p == PathOf(db', fid)
               IN  p \in opts.scope /\ ~IsOnDisk(p) => db'.file_state[fid] # Live ]_vars

(* After a quiet scan of everything, and through any commands that end     *)
(* well since, what the database calls Live is on disk as recorded, except *)
(* where the file is now empty.  It is what a delete run must be able to   *)
(* rely on; DeleteIsSafeAfterScan says the same without the exception.     *)
FreshIsTrue ==
  fresh /\ ~deleting =>
    \A fid \in DOMAIN db.file_state :
      db.file_state[fid] = Live =>
        \E f \in disk[PathOf(db, fid)] :
          f.hash256 = db.file_meta[fid].hash256 \/ f.size = 0

(* The abstract specification of the database. *)
Log == INSTANCE VersionLog WITH log <- LogOf(db), live <- LivePaths(db)

(* Commands, failures and the user together implement the VersionLog.      *)
CommandsImplementLog == Log!LogSpec

-----------------------------------------------------------------------------
(* What the documents say and some runs refute *)

(* NeverLastCopy for runs that follow a quiet scan of everything, the      *)
(* workflow docs/USAGE.md describes.                                       *)
DeleteIsSafeAfterScan ==
  [][ RemoveFile /\ fresh => \A h \in Hashes :
        SizeOf[h] > 0 /\ Holds(disk, h) => Holds(disk', h) ]_vars

(* "Live: currently present as a valid, current file version; Missing:     *)
(* known removed or otherwise not present anymore", and of check, "compare *)
(* (size, mtime_secs) against DB current entry; if same -> report EXISTS"  *)
(* (docs/specs.md): after a quiet scan of everything no file that is       *)
(* present as its current record says is called Missing, or check at least *)
(* says that it exists.                                                    *)
PresentIsNotMissing ==
  fresh /\ ~deleting =>
    \A p \in Paths : \A fid \in GetCurrentByPath(db, p) :
      db.file_meta[fid] \in disk[p] =>
        \/ db.file_state[fid] # Missing
        \/ CheckOne(db, p, disk[p], FALSE) = "Exists"
=============================================================================
