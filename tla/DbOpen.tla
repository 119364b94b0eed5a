------------------------------- MODULE DbOpen -------------------------------
(***************************************************************************)
(* Opening a database directory (dbpath.rs, db::open): every command does  *)
(* it first, any number of processes at once, and each may die anywhere.   *)
(* The directory is looked at before LOCK is held, and what was seen then  *)
(* decides whether the files are created after.                            *)
(***************************************************************************)
EXTENDS Naturals, FiniteSets

CONSTANTS
  Procs,       \* the processes
  MaxStarts,   \* bound: how many commands are started
  MaxCrashes   \* bound: how many die

ASSUME OpenAssumption == MaxStarts \in Nat /\ MaxCrashes \in Nat

VARIABLES
  dir,      \* the database directory exists
  lock,     \* LOCK exists in it
  meta,     \* meta.toml: "none", "created", "written"
  index,    \* index.redb: "none", "created", "redb", "schema"
  holder,   \* processes holding the lock on LOCK
  pc,       \* where each process is
  sawEmpty, \* its DbDirState is Empty
  starts, crashes

vars == <<dir, lock, meta, index, holder, pc, sawEmpty, starts, crashes>>

files == <<dir, lock, meta, index>>

Init ==
  /\ dir \in BOOLEAN
  /\ lock = FALSE
  /\ meta = "none"
  /\ index = "none"
  /\ holder = {}
  /\ pc = [p \in Procs |-> "idle"]
  /\ sawEmpty = [p \in Procs |-> FALSE]
  /\ starts = 0
  /\ crashes = 0

Goto(p, place) == pc' = [pc EXCEPT ![p] = place]

(* The process is over, and the system drops its lock. *)
LeaveLocked(p) == Goto(p, "idle") /\ UNCHANGED holder  \* mutant: the lock outlives it

Leave(p) ==
  /\ Goto(p, "idle")
  /\ holder' = holder \ {p}

Start(p) ==
  /\ pc[p] = "idle"
  /\ starts < MaxStarts
  /\ starts' = starts + 1
  /\ Goto(p, "look")
  /\ UNCHANGED <<files, holder, sawEmpty, crashes>>

-----------------------------------------------------------------------------
(* ensure_db_dir_is_valid_or_empty *)

(* No directory: it is created.  (create_dir_all is content with one that  *)
(* has appeared meanwhile.)                                                *)
CreateDir(p) ==
  /\ pc[p] = "look"
  /\ ~dir
  /\ Goto(p, "create dir")
  /\ UNCHANGED <<files, holder, sawEmpty, starts, crashes>>

DirCreated(p) ==
  /\ pc[p] = "create dir"
  /\ dir' = TRUE
  /\ sawEmpty' = [sawEmpty EXCEPT ![p] = TRUE]
  /\ Goto(p, "make LOCK")
  /\ UNCHANGED <<lock, meta, index, holder, starts, crashes>>

(* read_dir: no entries, or some. *)
NoEntries == ~lock /\ meta = "none" /\ index = "none"

ListDir(p) ==
  /\ pc[p] = "look"
  /\ dir
  /\ sawEmpty' = [sawEmpty EXCEPT ![p] = NoEntries]
  /\ Goto(p, IF NoEntries THEN "make LOCK" ELSE "check files")
  /\ UNCHANGED <<files, holder, starts, crashes>>

HasBoth == index # "none" /\ meta # "none"

LooksValid(p) ==
  /\ pc[p] = "check files"
  /\ HasBoth
  /\ Goto(p, "make LOCK")
  /\ UNCHANGED <<files, holder, sawEmpty, starts, crashes>>

(* "Directory exists but does not look like a deldupes database". *)
LooksForeign(p) ==
  /\ pc[p] = "check files"
  /\ ~HasBoth
  /\ Leave(p)
  /\ UNCHANGED <<files, sawEmpty, starts, crashes>>

-----------------------------------------------------------------------------
(* open_and_lock *)

MakeLock(p) ==
  /\ pc[p] = "make LOCK"
  /\ lock' = TRUE
  /\ Goto(p, "lock")
  /\ UNCHANGED <<dir, meta, index, holder, sawEmpty, starts, crashes>>

MayLockAlways == TRUE  \* mutant: the result of try_lock_exclusive is dropped

MayLock == holder = {}

IndexFirst(p) == IF sawEmpty[p] THEN "init index" ELSE "require"  \* mutant: wrong order

LookAgain(p) == IF NoEntries THEN "init meta" ELSE "require"  \* mutant: after LOCK is made

AfterLock(p) == IF sawEmpty[p] THEN "init meta" ELSE "require"

TryLock(p) ==
  /\ pc[p] = "lock"
  /\ IF MayLock
     THEN /\ holder' = holder \cup {p}
          /\ Goto(p, AfterLock(p))
     ELSE Leave(p)
  /\ UNCHANGED <<files, sawEmpty, starts, crashes>>

-----------------------------------------------------------------------------
(* init_db_dir: meta.toml, then index.redb, each only if absent. *)

InitMeta(p) ==
  /\ pc[p] = "init meta"
  /\ IF meta = "none"
     THEN meta' = "created" /\ Goto(p, "write meta")
     ELSE UNCHANGED meta /\ Goto(p, "init index")
  /\ UNCHANGED <<dir, lock, index, holder, sawEmpty, starts, crashes>>

WriteMeta(p) ==
  /\ pc[p] = "write meta"
  /\ meta' = "written"
  /\ Goto(p, "init index")
  /\ UNCHANGED <<dir, lock, index, holder, sawEmpty, starts, crashes>>

CreatedAnew == "created"  \* mutant: File::create without the exists() check

IndexCreated == IF index = "none" THEN "created" ELSE index

InitIndex(p) ==
  /\ pc[p] = "init index"
  /\ index' = IndexCreated
  /\ Goto(p, "init redb")
  /\ UNCHANGED <<dir, lock, meta, holder, sawEmpty, starts, crashes>>

(* Database::create makes an empty file a redb database and opens one that *)
(* already is.                                                             *)
RedbCreated == IF index = "created" THEN "redb" ELSE index

InitRedb(p) ==
  /\ pc[p] = "init redb"
  /\ index' = RedbCreated
  /\ Goto(p, "require")
  /\ UNCHANGED <<dir, lock, meta, holder, sawEmpty, starts, crashes>>

-----------------------------------------------------------------------------
(* The rest of open *)

RequireBoth(p) ==
  /\ pc[p] = "require"
  /\ IF HasBoth THEN Goto(p, "open redb") /\ UNCHANGED holder ELSE Leave(p)
  /\ UNCHANGED <<files, sawEmpty, starts, crashes>>

OpenRedb(p) ==
  /\ pc[p] = "open redb"
  /\ index' = RedbCreated
  /\ Goto(p, "schema")
  /\ UNCHANGED <<dir, lock, meta, holder, sawEmpty, starts, crashes>>

EnsureSchema(p) ==
  /\ pc[p] = "schema"
  /\ index' = "schema"
  /\ Goto(p, "open")
  /\ UNCHANGED <<dir, lock, meta, holder, sawEmpty, starts, crashes>>

(* The command ends and drops its DbHandle. *)
Close(p) ==
  /\ pc[p] = "open"
  /\ Leave(p)
  /\ UNCHANGED <<files, sawEmpty, starts, crashes>>

Crash(p) ==
  /\ pc[p] # "idle"
  /\ crashes < MaxCrashes
  /\ crashes' = crashes + 1
  /\ Leave(p)
  /\ UNCHANGED <<files, sawEmpty, starts>>

Step(p) ==
  \/ CreateDir(p) \/ DirCreated(p) \/ ListDir(p) \/ LooksValid(p) \/ LooksForeign(p)
  \/ MakeLock(p) \/ TryLock(p)
  \/ InitMeta(p) \/ WriteMeta(p) \/ InitIndex(p) \/ InitRedb(p)
  \/ RequireBoth(p) \/ OpenRedb(p) \/ EnsureSchema(p) \/ Close(p)

Next == \E p \in Procs : Start(p) \/ Step(p) \/ Crash(p)

Spec == Init /\ [][Next]_vars

-----------------------------------------------------------------------------
(* Properties *)

Locked == {"init meta", "write meta", "init index", "init redb", "require",
           "open redb", "schema", "open"}

(* The type invariant. *)
TypeOK ==
  /\ dir \in BOOLEAN
  /\ lock \in BOOLEAN
  /\ meta \in {"none", "created", "written"}
  /\ index \in {"none", "created", "redb", "schema"}
  /\ lock \/ meta # "none" \/ index # "none" => dir
  /\ \A p \in Procs : p \in holder <=> pc[p] \in Locked
  /\ starts \in 0..MaxStarts
  /\ crashes \in 0..MaxCrashes

(* No two processes initialize or use the database at once, and whoever    *)
(* has a handle has a database with a schema behind it, though the look at *)
(* the directory that steers the initialization was taken without lock.    *)
OneReadyHandle ==
  /\ Cardinality({ p \in Procs : pc[p] \in Locked }) <= 1
  /\ \A p \in Procs : pc[p] = "open" => index = "schema" /\ meta # "none"

(* An index, once there, is never created anew: a process that saw the     *)
(* directory empty, and gets the lock after another has initialized it and *)
(* used it, leaves the data alone.                                         *)
NeverReset ==
  [][ /\ index # "none" => index' # "none"
      /\ index \in {"redb", "schema"} => index' # "created"
      /\ index = "schema" => index' = "schema" ]_vars

(* meta.toml comes first: wherever a process dies, an index that exists is *)
(* accepted by every later look at the directory.                          *)
IndexIsAccepted == index # "none" => HasBoth

(* Without crashes, first commands that race leave a usable database: they *)
(* do not turn each other away until none has made one.                    *)
RaceHasWinner ==
  (/\ starts > 0
   /\ crashes = 0
   /\ \A p \in Procs : pc[p] = "idle") => index = "schema"

(* "If the database does not exist yet, it will be created automatically"  *)
(* (docs/USAGE.md), as far as it goes: a command that runs alone, in a     *)
(* directory only deldupes has used, is turned away only where an earlier  *)
(* one died before it had made the index; no order of commands that end by *)
(* themselves leaves such a directory.                                     *)
AloneIsAccepted ==
  [][ \A p \in Procs :
        LooksForeign(p) /\ (\A q \in Procs \ {p} : pc[q] = "idle")
          => crashes > 0 /\ index = "none" ]_vars
=============================================================================
