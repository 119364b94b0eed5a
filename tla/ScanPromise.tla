---------------------------- MODULE ScanPromise -----------------------------
(***************************************************************************)
(* What a scan does with its hash jobs, without threads, channels or       *)
(* joins: jobs are made, each ends in a result or in nothing, results are  *)
(* committed in the order they come, BATCH_SIZE at a time and the rest     *)
(* when no job is left, and the sweep comes last.  An error throws away    *)
(* what is not committed.  Scan has these steps with files and a database; *)
(* ScanPipeline is shown to implement them with threads.                   *)
(***************************************************************************)
EXTENDS Naturals, Sequences

CONSTANTS
  Jobs,      \* how many jobs the walk makes
  BatchSize  \* BATCH_SIZE

VARIABLES
  made,       \* how many jobs are made
  pending,    \* jobs made and not ended
  results,    \* results not yet committed
  committed,  \* results committed, in that order
  outcome     \* "running", "swept", "error"

vars == <<made, pending, results, committed, outcome>>

Init ==
  /\ made = 0
  /\ pending = {}
  /\ results = <<>>
  /\ committed = <<>>
  /\ outcome = "running"

Drained == made = Jobs /\ pending = {}

Make ==
  /\ made < Jobs
  /\ made' = made + 1
  /\ pending' = pending \cup {made + 1}
  /\ UNCHANGED <<results, committed, outcome>>

Hash(job) ==
  /\ pending' = pending \ {job}
  /\ results' = Append(results, job)
  /\ UNCHANGED <<made, committed, outcome>>

Drop(job) ==
  /\ pending' = pending \ {job}
  /\ UNCHANGED <<made, results, committed, outcome>>

CommitFirst(n) ==
  /\ committed' = committed \o SubSeq(results, 1, n)
  /\ results' = SubSeq(results, n + 1, Len(results))
  /\ UNCHANGED <<made, pending, outcome>>

CommitFull == Len(results) >= BatchSize /\ CommitFirst(BatchSize)

CommitRest == Drained /\ Len(results) < BatchSize /\ CommitFirst(Len(results))

Sweep ==
  /\ Drained
  /\ results = <<>>
  /\ outcome' = "swept"
  /\ UNCHANGED <<made, pending, results, committed>>

Fail ==
  /\ made' = 0
  /\ pending' = {}
  /\ results' = <<>>
  /\ outcome' = "error"
  /\ UNCHANGED committed

Next ==
  /\ outcome = "running"
  /\ \/ Make
     \/ \E job \in pending : Hash(job) \/ Drop(job)
     \/ CommitFull
     \/ CommitRest
     \/ Sweep
     \/ Fail

PromiseSpec == Init /\ [][Next]_vars
=============================================================================
