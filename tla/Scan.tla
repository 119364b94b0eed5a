-------------------------------- MODULE Scan --------------------------------
(***************************************************************************)
(* The scan command (scan.rs): the main thread walks the roots and makes   *)
(* hash jobs, workers hash, the writer commits results in batches, and a   *)
(* sweep marks what was not seen.  The threads are the actions below, in   *)
(* any order; their queues and joins are the subject of ScanPipeline.      *)
(*                                                                         *)
(* The options of a run are the paths under its roots (scope), those of    *)
(* them the walk reaches (walked: without --no-recursive all of them, with *)
(* it the direct entries of the roots), how often it lists each (twice     *)
(* when --no-recursive is given a root twice) and detect_deletes.  How the *)
(* roots and the tree of directories give these sets is the subject of     *)
(* Walk.  A listing is a path and the number of the time it is listed.     *)
(***************************************************************************)
EXTENDS World, Sequences, SequencesExt

CONSTANTS
  ScanOptions,  \* the option records runs are started with
  BatchSize     \* BATCH_SIZE of the writer

ASSUME ScanAssumption ==
  /\ BatchSize \in Nat \ {0}
  /\ \A o \in ScanOptions : /\ o.walked \subseteq o.scope
                            /\ o.scope \subseteq Paths
                            /\ o.times \in 1..2
                            /\ o.detect \in BOOLEAN

VARIABLES
  scanning,  \* a scan runs
  opts,      \* its options
  todo,      \* listings the walk has still to make
  listed,    \* listings made, not yet passed to enqueue_if_candidate
  seen,      \* paths recorded as seen
  jobs,      \* hash jobs queued or being worked on
  results    \* hash results not yet committed, in the order they were sent

scanVars == <<scanning, opts, todo, listed, seen, jobs, results>>

NoOptions == [scope |-> {}, walked |-> {}, times |-> 1, detect |-> FALSE]

ScanInit ==
  /\ scanning = FALSE
  /\ opts = NoOptions
  /\ todo = {}
  /\ listed = {}
  /\ seen = {}
  /\ jobs = {}
  /\ results = <<>>

(* A run ends, however it does, and its variables are gone. *)
ScanEnds ==
  /\ scanning' = FALSE
  /\ opts' = NoOptions
  /\ todo' = {}
  /\ listed' = {}
  /\ seen' = {}
  /\ jobs' = {}
  /\ results' = <<>>

ScanStart(o) ==
  /\ ~scanning
  /\ scanning' = TRUE
  /\ opts' = o
  /\ todo' = o.walked \X (1..o.times)
  /\ UNCHANGED <<listed, seen, jobs, results, worldVars>>

(* Roots are walked one after the other: a file is listed again only when  *)
(* enqueue_if_candidate is done with what the root before gave.            *)
IsNext(l) == \A k \in todo \cup listed : l[2] <= k[2]

(* The walk reads the directory of a path and finds a file there, or not.  *)
ListFile(l) ==
  /\ l \in todo
  /\ IsNext(l)
  /\ todo' = todo \ {l}
  /\ listed' = IF IsOnDisk(l[1]) THEN listed \cup {l} ELSE listed
  /\ UNCHANGED <<scanning, opts, seen, jobs, results, worldVars>>

(* The walk passes over an error, and over everything below it. *)
OverlookFile(l) ==
  /\ l \in todo
  /\ IsNext(l)
  /\ IsOnDisk(l[1])
  /\ Fault("walk")
  /\ todo' = todo \ {l}
  /\ UNCHANGED <<scanning, opts, listed, seen, jobs, results, db, disk, now>>

-----------------------------------------------------------------------------
(* enqueue_if_candidate: the path counts as seen whatever happens next; a  *)
(* job carries the size and mtime read here, and none is made for a file   *)
(* that is gone, empty, or equal in size and mtime to the current version. *)
SeenUnlessEmpty(path) ==  \* mutant: empty files return before the insert
  IF \E f \in disk[path] : f.size > 0 THEN seen \cup {path} ELSE seen

SeenWith(path) == seen \cup {path}

CandidatesNewPathsOnly(path) ==  \* mutant: any current version ends the check
  { f \in disk[path] : f.size > 0 /\ GetCurrentByPath(db, path) = {} }

Candidates(path) ==
  { f \in disk[path] :
      f.size > 0 /\ ~CurrentSizeMtimeIs(db, path, f.size, f.mtime_secs) }

StatFile(l) ==
  /\ l \in listed
  /\ listed' = listed \ {l}
  /\ seen' = SeenWith(l[1])
  /\ jobs' = jobs \cup
       { [path |-> l[1], time |-> l[2], size |-> f.size, mtime |-> f.mtime_secs] :
           f \in Candidates(l[1]) }
  /\ UNCHANGED <<scanning, opts, todo, results, worldVars>>

-----------------------------------------------------------------------------
(* worker_loop: the content is read until now, the size and mtime are the  *)
(* job's.  Of a file written since the stat the pieces read may be of any  *)
(* age: the hash can be that of the new content or of any mixture.         *)
ResultOf(job, hash) ==
  [path |-> job.path,
   meta |-> [size |-> job.size, mtime_secs |-> job.mtime, hash256 |-> hash]]

HashesReadOf(job, file) ==
  IF file.mtime_secs = job.mtime THEN {file.hash256} ELSE Hashes

HashJob(job) ==
  /\ job \in jobs
  /\ jobs' = jobs \ {job}
  /\ \E file \in disk[job.path] : \E hash \in HashesReadOf(job, file) :
       results' = Append(results, ResultOf(job, hash))
  /\ UNCHANGED <<scanning, opts, todo, listed, seen, worldVars>>

(* The file is gone: the job ends without a result. *)
DropJob(job) ==
  /\ job \in jobs
  /\ ~IsOnDisk(job.path)
  /\ jobs' = jobs \ {job}
  /\ UNCHANGED <<scanning, opts, todo, listed, seen, results, worldVars>>

(* The file cannot be read: the same. *)
FailJob(job) ==
  /\ job \in jobs
  /\ IsOnDisk(job.path)
  /\ Fault("read")
  /\ jobs' = jobs \ {job}
  /\ UNCHANGED <<scanning, opts, todo, listed, seen, results, db, disk, now>>

-----------------------------------------------------------------------------
(* The walk is over and all workers are done: nobody sends results.        *)
DrainedWalkOnly == todo = {} /\ listed = {}  \* mutant: workers are not joined

Drained == todo = {} /\ listed = {} /\ jobs = {}

(* write_batch_versions, from begin_write to commit. *)
WriteBatchRestat(d, batch) ==  \* mutant: mtime is read when the version is written
  LET mtime(r) == IF IsOnDisk(r.path) THEN (CHOOSE f \in disk[r.path] : TRUE).mtime_secs
                  ELSE r.meta.mtime_secs
  IN  FoldLeft(LAMBDA e, r : WriteVersion(e, r.path, [r.meta EXCEPT !.mtime_secs = mtime(r)]),
               d, batch)

WriteBatch(d, batch) ==
  FoldLeft(LAMBDA e, r : WriteVersion(e, r.path, r.meta), d, batch)

(* writer_loop: full batches as they come, the rest once all senders left. *)
CommitFull ==
  /\ Len(results) >= BatchSize
  /\ db' = WriteBatch(db, SubSeq(results, 1, BatchSize))
  /\ results' = SubSeq(results, BatchSize + 1, Len(results))
  /\ UNCHANGED <<scanning, opts, todo, listed, seen, jobs, disk, now, faults>>

CommitRest ==
  /\ Drained
  /\ Len(results) \in 1..(BatchSize - 1)
  /\ db' = WriteBatch(db, results)
  /\ results' = <<>>
  /\ UNCHANGED <<scanning, opts, todo, listed, seen, jobs, disk, now, faults>>

(* Workers and writer are joined, the sweep is made, run_scan returns. *)
ScanFinish ==
  /\ scanning
  /\ Drained
  /\ results = <<>>
  /\ db' = IF opts.detect THEN MarkMissingNotSeen(db, opts.scope, seen) ELSE db
  /\ ScanEnds
  /\ UNCHANGED <<disk, now, faults>>

(* The process dies, or the writer fails and run_scan returns its error:   *)
(* what was not committed is lost and nothing is swept.                    *)
ScanCrash ==
  /\ scanning
  /\ Fault("scan crash")
  /\ ScanEnds
  /\ UNCHANGED <<db, disk, now>>
=============================================================================
