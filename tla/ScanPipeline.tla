---------------------------- MODULE ScanPipeline ----------------------------
(***************************************************************************)
(* The threads of a scan (scan.rs): the main thread makes jobs and joins   *)
(* the others, workers hash, one writer commits.  Two bounded crossbeam    *)
(* channels connect them.  A channel has its queue; recv fails when it is  *)
(* empty and has no senders left, send fails when it has no receivers      *)
(* left, and blocks while the queue is full.                               *)
(*                                                                         *)
(* A job is its number in the order the walk makes them.                   *)
(***************************************************************************)
EXTENDS Naturals, Sequences, SequencesExt, FiniteSets

CONSTANTS
  Workers,       \* the worker threads
  Jobs,          \* how many jobs the walk makes
  JobQueue,      \* capacity of the job channel, threads * 256
  ResultQueue,   \* capacity of the result channel, threads * 8192
  BatchSize,     \* BATCH_SIZE
  WriterMayFail  \* write_batch_versions may return an error

ASSUME PipelineAssumption ==
  /\ IsFiniteSet(Workers)
  /\ Workers # {}
  /\ Jobs \in Nat
  /\ JobQueue \in Nat \ {0}
  /\ ResultQueue \in Nat \ {0}
  /\ BatchSize \in Nat \ {0}
  /\ WriterMayFail \in BOOLEAN

VARIABLES
  main,       \* where run_scan is
  made,       \* how many jobs the walk has sent
  jobs,       \* the job channel
  worker,     \* where each worker is
  holding,    \* the result a worker wants to send, as a set of at most one
  results,    \* the result channel
  writer,     \* where the writer is
  batch,      \* its batch
  committed,  \* what it committed, in that order
  dropped     \* history: jobs that ended without a result

vars == <<main, made, jobs, worker, holding, results, writer, batch, committed, dropped>>

Init ==
  /\ main = "walk"
  /\ made = 0
  /\ jobs = <<>>
  /\ worker = [w \in Workers |-> "recv"]
  /\ holding = [w \in Workers |-> {}]
  /\ results = <<>>
  /\ writer = "recv"
  /\ batch = <<>>
  /\ committed = <<>>
  /\ dropped = {}

(* job_tx is dropped after the walk, each result sender with its worker,   *)
(* and res_rx with the writer.  run_scan itself keeps a job receiver, so   *)
(* the job channel never runs out of them.                                 *)
JobSendersGone == main # "walk"
ResultSendersGone == \A w \in Workers : worker[w] = "gone"
ResultReceiverGone == writer \in {"ok", "failed"}

-----------------------------------------------------------------------------
(* The main thread *)

JobRoomOffByOne == Len(jobs) <= JobQueue  \* mutant: the bound is off by one

JobRoom == Len(jobs) < JobQueue

SendJob ==
  /\ main = "walk"
  /\ made < Jobs
  /\ JobRoom
  /\ made' = made + 1
  /\ jobs' = Append(jobs, made + 1)
  /\ UNCHANGED <<main, worker, holding, results, writer, batch, committed, dropped>>

EndWalk ==
  /\ main = "walk"
  /\ made = Jobs
  /\ main' = "join workers"
  /\ UNCHANGED <<made, jobs, worker, holding, results, writer, batch, committed, dropped>>

AllWorkersJoined == \A w \in Workers : worker[w] = "gone"

JoinWorkers ==
  /\ main = "join workers"
  /\ AllWorkersJoined
  /\ main' = "join writer"
  /\ UNCHANGED <<made, jobs, worker, holding, results, writer, batch, committed, dropped>>

(* The writer's error ends run_scan before the sweep. *)
SweepWhateverTheWriter == {"ok", "failed"}  \* mutant: the join's result is dropped

SweepAfter == {"ok"}

JoinWriter ==
  /\ main = "join writer"
  /\ writer \in {"ok", "failed"}
  /\ main' = IF writer \in SweepAfter THEN "swept" ELSE "error"
  /\ UNCHANGED <<made, jobs, worker, holding, results, writer, batch, committed, dropped>>

-----------------------------------------------------------------------------
(* A worker *)

TakeJob(w) ==
  /\ worker[w] = "recv"
  /\ jobs # <<>>
  /\ jobs' = Tail(jobs)
  /\ \/ /\ worker' = [worker EXCEPT ![w] = "send"]
        /\ holding' = [holding EXCEPT ![w] = {Head(jobs)}]
        /\ UNCHANGED dropped
     \/ /\ dropped' = dropped \cup {Head(jobs)}  \* it could not be hashed
        /\ UNCHANGED <<worker, holding>>
  /\ UNCHANGED <<main, made, results, writer, batch, committed>>

NoMoreJobsNow == jobs = <<>>  \* mutant: an empty queue is taken for a closed one

NoMoreJobs == jobs = <<>> /\ JobSendersGone

LeaveIdle(w) ==
  /\ worker[w] = "recv"
  /\ NoMoreJobs
  /\ worker' = [worker EXCEPT ![w] = "gone"]
  /\ UNCHANGED <<main, made, jobs, holding, results, writer, batch, committed, dropped>>

SendResult(w) ==
  /\ worker[w] = "send"
  /\ ~ResultReceiverGone
  /\ Len(results) < ResultQueue
  /\ results' = results \o SetToSeq(holding[w])
  /\ holding' = [holding EXCEPT ![w] = {}]
  /\ worker' = [worker EXCEPT ![w] = "recv"]
  /\ UNCHANGED <<main, made, jobs, writer, batch, committed, dropped>>

(* The send fails: the worker breaks out of its loop. *)
LeaveRefused(w) ==
  /\ worker[w] = "send"
  /\ ResultReceiverGone
  /\ worker' = [worker EXCEPT ![w] = "gone"]
  /\ holding' = [holding EXCEPT ![w] = {}]
  /\ UNCHANGED <<main, made, jobs, results, writer, batch, committed, dropped>>

-----------------------------------------------------------------------------
(* The writer *)

TakeResult ==
  /\ writer = "recv"
  /\ results # <<>>
  /\ results' = Tail(results)
  /\ batch' = Append(batch, Head(results))
  /\ writer' = IF Len(batch) + 1 >= BatchSize THEN "commit" ELSE "recv"
  /\ UNCHANGED <<main, made, jobs, worker, holding, committed, dropped>>

BatchKept == batch  \* mutant: batch.clear() is missing

BatchCleared == <<>>

Commit ==
  /\ writer = "commit"
  /\ committed' = committed \o batch
  /\ batch' = BatchCleared
  /\ writer' = "recv"
  /\ UNCHANGED <<main, made, jobs, worker, holding, results, dropped>>

(* The channel is closed: the rest is flushed. *)
Flush ==
  /\ writer = "recv"
  /\ results = <<>>
  /\ ResultSendersGone
  /\ committed' = committed \o batch
  /\ batch' = <<>>
  /\ writer' = "ok"
  /\ UNCHANGED <<main, made, jobs, worker, holding, results, dropped>>

(* A commit or the flush fails, and the writer returns its error. *)
WriterFails ==
  /\ WriterMayFail
  /\ \/ writer = "commit"
     \/ writer = "recv" /\ results = <<>> /\ ResultSendersGone /\ batch # <<>>
  /\ writer' = "failed"
  /\ UNCHANGED <<main, made, jobs, worker, holding, results, batch, committed, dropped>>

-----------------------------------------------------------------------------
MainStep == SendJob \/ EndWalk \/ JoinWorkers \/ JoinWriter
WorkerStep(w) == TakeJob(w) \/ LeaveIdle(w) \/ SendResult(w) \/ LeaveRefused(w)
WriterStep == TakeResult \/ Commit \/ Flush \/ WriterFails

Next == MainStep \/ (\E w \in Workers : WorkerStep(w)) \/ WriterStep

(* Each thread is scheduled while it can run.  The choice of write_batch_  *)
(* versions between success and failure is nobody's obligation.            *)
Fairness ==
  /\ WF_vars(MainStep)
  /\ \A w \in Workers : WF_vars(WorkerStep(w))
  /\ WF_vars(WriterStep)

Spec == Init /\ [][Next]_vars /\ Fairness

-----------------------------------------------------------------------------
(* Properties *)

InHands == UNION { holding[w] : w \in Workers }

(* The type invariant. *)
TypeOK ==
  /\ main \in {"walk", "join workers", "join writer", "swept", "error"}
  /\ made \in 0..Jobs
  /\ Len(jobs) <= JobQueue
  /\ Len(results) <= ResultQueue
  /\ Len(batch) <= BatchSize
  /\ \A w \in Workers : /\ worker[w] \in {"recv", "send", "gone"}
                        /\ worker[w] = "send" <=> holding[w] # {}
  /\ writer \in {"recv", "commit", "ok", "failed"}

(* Until the writer fails, every job the walk sent is in exactly one       *)
(* place: a queue, a worker's hands, the batch, the database, or dropped   *)
(* because it could not be hashed.  Nothing is lost at a hand-over, a      *)
(* batch boundary or the closing of a channel, and nothing comes twice.    *)
EachJobOnce ==
  LET queued == jobs \o results \o batch \o committed
  IN  writer # "failed" =>
        /\ Range(queued) \cup InHands \cup dropped = 1..made
        /\ Len(queued) + Cardinality(InHands) + Cardinality(dropped) = made

(* The sweep marks as Missing what the walk did not see; it must not run   *)
(* over a database the scan's own results have not reached.  When it runs, *)
(* every job that could be hashed has been committed, exactly once.        *)
SweepAfterCommits ==
  main = "swept" => /\ Range(committed) = 1..Jobs \ dropped
                    /\ IsInjective(committed)

(* The threads implement the steps the module Scan takes in their place:   *)
(* results in queues and batches are one sequence, committed from its      *)
(* front; every hand-over between threads is invisible, and from a failure *)
(* of the writer on nothing is.                                            *)
Promise == INSTANCE ScanPromise WITH
  made    <- IF writer = "failed" THEN 0 ELSE made,
  pending <- IF writer = "failed" THEN {} ELSE Range(jobs) \cup InHands,
  results <- IF writer = "failed" THEN <<>> ELSE batch \o results,
  outcome <- IF writer = "failed" THEN "error"
             ELSE IF main = "swept" THEN "swept" ELSE "running"

KeepsPromise == Promise!PromiseSpec

Ended == main \in {"swept", "error"}

(* Unless the writer fails the scan ends: no thread waits for ever on a    *)
(* full or an empty queue, at any capacities, nor main on a join.          *)
EndsUnlessWriterFails == []<>(Ended \/ writer = "failed")

(* "Clean shutdown via channel close + joins" (docs/specs.md): the scan    *)
(* ends in any case.                                                       *)
ShutsDown == <>Ended
=============================================================================
