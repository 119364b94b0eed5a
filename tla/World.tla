------------------------------- MODULE World -------------------------------
(***************************************************************************)
(* What the commands of deldupes share: the committed database, the files  *)
(* on disk, and the user who changes files while nothing or anything runs. *)
(*                                                                         *)
(* A file is what the program can tell of it, so it has the fields of a    *)
(* FileMeta: its size, its mtime in seconds and the hash of its content.   *)
(* disk[p] is the set of the at most one regular file at path p.  Where    *)
(* there is none a directory may be, which only check tells from nothing.  *)
(***************************************************************************)
EXTENDS DbTables, FiniteSets

CONSTANTS
  SizeOf,      \* the size of the content with a given hash
  MaxTime,     \* bound: the user's writes happen at seconds up to this one
  FaultKinds,  \* the faults of an instance (see Fault)
  MaxFaults    \* bound: how many of them happen

VARIABLES db, disk, now, faults

worldVars == <<db, disk, now, faults>>

File(hash, time) == [size |-> SizeOf[hash], mtime_secs |-> time, hash256 |-> hash]

(* What a scan can record is metadata: the size and mtime of a file and    *)
(* any hash, since a file may change between its stat and its hashing.     *)
ASSUME WorldAssumption ==
  /\ SizeOf \in [Hashes -> Nat]
  /\ MaxTime \in Nat \ {0}
  /\ MaxFaults \in Nat
  /\ \A g, h \in Hashes, t \in 0..MaxTime : [File(g, t) EXCEPT !.hash256 = h] \in Metas

IsOnDisk(path) == disk[path] # {}

(* Some path holds the content with this hash, in a given disk. *)
Holds(d, hash) == \E path \in Paths : \E f \in d[path] : f.hash256 = hash

(* Every duplicate group the database can produce is true: a Live version  *)
(* is the content that is now at its path.                                 *)
LiveIsTrue ==
  \A fid \in DOMAIN db.file_state :
    db.file_state[fid] = Live =>
      \E f \in disk[PathOf(db, fid)] : f.hash256 = db.file_meta[fid].hash256

-----------------------------------------------------------------------------
WorldInit ==
  /\ db = EmptyDb
  /\ disk \in [Paths -> {{}} \cup { {File(h, 1)} : h \in Hashes }]
  /\ now = 1
  /\ faults = 0

(* The user writes a file.  Each write has a second of its own: the        *)
(* identity shortcut of the program (equal size and mtime_secs mean an     *)
(* unchanged file) cannot see two writes within one second.                *)
Write(path, hash) ==
  /\ now < MaxTime
  /\ now' = now + 1
  /\ disk' = [disk EXCEPT ![path] = {File(hash, now + 1)}]
  /\ UNCHANGED <<db, faults>>

(* The user removes a file. *)
Erase(path) ==
  /\ IsOnDisk(path)
  /\ disk' = [disk EXCEPT ![path] = {}]
  /\ UNCHANGED <<db, now, faults>>

(* Something outside the program fails:                                    *)
(*   "walk"         a directory cannot be listed                           *)
(*   "read"         a file cannot be read for hashing                      *)
(*   "scan crash"   the process of a scan, or its writer, dies             *)
(*   "remove"       remove_file fails on a file that is there              *)
(*   "delete crash" the process of a delete dies                           *)
Fault(kind) ==
  /\ kind \in FaultKinds
  /\ faults < MaxFaults
  /\ faults' = faults + 1
=============================================================================
