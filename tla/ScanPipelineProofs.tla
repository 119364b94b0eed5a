------------------------- MODULE ScanPipelineProofs -------------------------
(***************************************************************************)
(* Theorems about ScanPipeline, for any number of workers and jobs and any *)
(* capacities and batch size: the threads of a scan lose and double no     *)
(* job, sweep after the last commit, and implement ScanPromise.            *)
(***************************************************************************)
EXTENDS ScanPipeline, SeqLemmas

(* Shapes of the variables. *)
Shape ==
  /\ main \in {"walk", "join workers", "join writer", "swept", "error"}
  /\ made \in 0..Jobs
  /\ jobs \in Seq(Nat)
  /\ worker \in [Workers -> {"recv", "send", "gone"}]
  /\ holding \in [Workers -> SUBSET Nat]
  /\ results \in Seq(Nat)
  /\ writer \in {"recv", "commit", "ok", "failed"}
  /\ batch \in Seq(Nat)
  /\ committed \in Seq(Nat)
  /\ dropped \in SUBSET Nat

(* A worker holds one result while it wants to send it, and else none. *)
OneInHand ==
  \A w \in Workers : IF worker[w] = "send" THEN \E job \in Nat : holding[w] = {job}
                                           ELSE holding[w] = {}

(* What fits: a batch is full exactly when the writer commits one. *)
Room ==
  /\ Len(jobs) <= JobQueue
  /\ Len(results) <= ResultQueue
  /\ writer = "recv" => Len(batch) < BatchSize
  /\ writer = "commit" => Len(batch) = BatchSize
  /\ writer = "ok" => batch = <<>>
  /\ writer = "failed" => Len(batch) <= BatchSize

(* The places a job can be in have none in common and none twice, and      *)
(* together have all jobs made.                                            *)
OnePlace ==
  /\ IsInjective(jobs)
  /\ IsInjective(results)
  /\ IsInjective(batch)
  /\ IsInjective(committed)
  /\ \A v, w \in Workers : v # w => holding[v] \cap holding[w] = {}
  /\ Range(jobs) \cap Range(results) = {}
  /\ Range(jobs) \cap Range(batch) = {}
  /\ Range(jobs) \cap Range(committed) = {}
  /\ Range(jobs) \cap InHands = {}
  /\ Range(jobs) \cap dropped = {}
  /\ Range(results) \cap Range(batch) = {}
  /\ Range(results) \cap Range(committed) = {}
  /\ Range(results) \cap InHands = {}
  /\ Range(results) \cap dropped = {}
  /\ Range(batch) \cap Range(committed) = {}
  /\ Range(batch) \cap InHands = {}
  /\ Range(batch) \cap dropped = {}
  /\ Range(committed) \cap InHands = {}
  /\ Range(committed) \cap dropped = {}
  /\ InHands \cap dropped = {}
  /\ Range(jobs) \cup Range(results) \cup Range(batch) \cup Range(committed)
       \cup InHands \cup dropped = 1..made

(* The order in which the threads end.  A worker is only gone, unless the  *)
(* writer has failed, when the walk is over and the job queue drained; the *)
(* writer has only ended well when all workers are gone and it has         *)
(* committed everything.                                                   *)
EndsInOrder ==
  /\ main # "walk" => made = Jobs
  /\ main \in {"join writer", "swept", "error"} => \A w \in Workers : worker[w] = "gone"
  /\ main = "swept" => writer = "ok"
  /\ writer = "ok" => results = <<>> /\ \A w \in Workers : worker[w] = "gone"
  /\ writer # "failed" =>
       \A w \in Workers : worker[w] = "gone" => main # "walk" /\ jobs = <<>>

IInv ==
  /\ Shape
  /\ OneInHand
  /\ Room
  /\ writer # "failed" => OnePlace
  /\ EndsInOrder

-----------------------------------------------------------------------------
(* The hands of all workers together *)

(* A worker with empty hands takes something. *)
LEMMA HandsTake ==
  ASSUME holding \in [Workers -> SUBSET Nat], NEW w \in Workers, NEW job,
         holding[w] = {}, holding' = [holding EXCEPT ![w] = {job}]
  PROVE  InHands' = InHands \cup {job}
<1>1. ASSUME NEW x \in InHands' PROVE x \in InHands \cup {job}
  <2>1. PICK v \in Workers : x \in holding'[v]
    BY <1>1 DEF InHands
  <2>2. CASE v = w
    BY <2>1, <2>2
  <2>3. CASE v # w
    BY <2>1, <2>3 DEF InHands
  <2>4. QED
    BY <2>2, <2>3
<1>2. ASSUME NEW x \in InHands PROVE x \in InHands'
  <2>1. PICK v \in Workers : x \in holding[v]
    BY <1>2 DEF InHands
  <2>2. holding'[v] = holding[v]
    BY <2>1
  <2>3. QED
    BY <2>1, <2>2 DEF InHands
<1>3. job \in InHands'
  <2>1. holding'[w] = {job}
    OBVIOUS
  <2>2. QED
    BY <2>1 DEF InHands
<1>4. QED
  BY <1>1, <1>2, <1>3

(* A worker that shares nothing with the others empties its hands. *)
LEMMA HandsGive ==
  ASSUME holding \in [Workers -> SUBSET Nat], NEW w \in Workers, NEW job,
         \A u, v \in Workers : u # v => holding[u] \cap holding[v] = {},
         holding[w] = {job}, holding' = [holding EXCEPT ![w] = {}]
  PROVE  InHands' = InHands \ {job} /\ job \in InHands
<1>1. ASSUME NEW x \in InHands' PROVE x \in InHands \ {job}
  <2>1. PICK v \in Workers : x \in holding'[v]
    BY <1>1 DEF InHands
  <2>2. v # w /\ x \in holding[v]
    BY <2>1
  <2>3. x # job
    BY <2>2
  <2>4. QED
    BY <2>2, <2>3 DEF InHands
<1>2. ASSUME NEW x \in InHands, x # job PROVE x \in InHands'
  <2>1. PICK v \in Workers : x \in holding[v]
    BY <1>2 DEF InHands
  <2>2. v # w
    BY <1>2, <2>1
  <2>3. holding'[v] = holding[v]
    BY <2>2
  <2>4. QED
    BY <2>1, <2>3 DEF InHands
<1>3. job \in InHands
  BY DEF InHands
<1>4. QED
  BY <1>1, <1>2, <1>3

(* When all workers are gone all hands are empty. *)
LEMMA NobodyHolds ==
  ASSUME OneInHand, \A w \in Workers : worker[w] = "gone"
  PROVE  InHands = {}
  BY DEF OneInHand, InHands

-----------------------------------------------------------------------------
(* Initially no job is made and every place is empty. *)
LEMMA InitIInv == Init => IInv
<1> SUFFICES ASSUME Init PROVE IInv
  OBVIOUS
<1> USE PipelineAssumption DEF Init
<1>1. Shape /\ OneInHand
  BY EmptySeq DEF Shape, OneInHand
<1>2. Room /\ EndsInOrder
  BY EmptyQueue DEF Room, EndsInOrder
<1>3. OnePlace
  <2>1. InHands = {}
    BY DEF InHands
  <2>2. 1..made = {}
    OBVIOUS
  <2>3. QED
    BY <2>1, <2>2, EmptyQueue DEF OnePlace
<1>4. QED
  BY <1>1, <1>2, <1>3 DEF IInv

(* The main thread. *)
LEMMA MainKeepsIInv == ASSUME IInv, MainStep PROVE IInv'
<1> USE PipelineAssumption DEF IInv
<1>1. CASE SendJob
  <2> USE <1>1 DEF SendJob
  <2>1. made + 1 \in Nat /\ made' \in 0..Jobs
    BY DEF Shape
  <2>2. /\ jobs' \in Seq(Nat)
        /\ Len(jobs') = Len(jobs) + 1
    BY <2>1, AppendProperties DEF Shape
  <2>3. Shape' /\ OneInHand'
    BY <2>1, <2>2 DEF Shape, OneInHand
  <2>4. Room'
    BY <2>2, LenProperties DEF Room, JobRoom, Shape
  <2>5. ASSUME OnePlace PROVE OnePlace'
    <3>1. made + 1 \notin 1..made /\ 1..made' = 1..made \cup {made + 1}
      BY DEF Shape
    <3>2. /\ Range(jobs') = Range(jobs) \cup {made + 1}
          /\ made + 1 \notin Range(jobs) => (IsInjective(jobs) => IsInjective(jobs'))
      BY <2>1, AppendQueue DEF Shape
    <3>3. InHands' = InHands
      BY DEF InHands
    <3>4. QED
      BY <2>5, <3>1, <3>2, <3>3 DEF OnePlace
  <2>6. EndsInOrder'
    BY DEF EndsInOrder
  <2>7. QED
    BY <2>3, <2>4, <2>5, <2>6
<1>2. CASE EndWalk \/ JoinWorkers \/ JoinWriter
  <2> USE <1>2 DEF EndWalk, JoinWorkers, JoinWriter, AllWorkersJoined, SweepAfter
  <2>1. Shape' /\ OneInHand' /\ Room'
    BY DEF Shape, OneInHand, Room
  <2>2. InHands' = InHands
    BY DEF InHands
  <2>3. OnePlace => OnePlace'
    BY <2>2 DEF OnePlace
  <2>4. EndsInOrder'
    BY DEF EndsInOrder, Shape
  <2>5. QED
    BY <2>1, <2>3, <2>4
<1>3. QED
  BY <1>1, <1>2 DEF MainStep

(* The queues are sequences of numbers. *)
LEMMA Queues ==
  ASSUME IInv
  PROVE  /\ jobs \in Seq(Nat) /\ Len(jobs) \in Nat
         /\ results \in Seq(Nat) /\ Len(results) \in Nat
         /\ batch \in Seq(Nat) /\ Len(batch) \in Nat
         /\ committed \in Seq(Nat) /\ Len(committed) \in Nat
  BY LenProperties DEF IInv, Shape

(* A worker. *)
LEMMA WorkerKeepsIInv == ASSUME IInv, NEW w \in Workers, WorkerStep(w) PROVE IInv'
<1>1. CASE TakeJob(w)
  <2>1. jobs \in Seq(Nat) /\ jobs # <<>> /\ jobs' = Tail(jobs)
    BY <1>1, Queues DEF TakeJob
  <2>2. /\ Head(jobs) \in Nat
        /\ jobs' \in Seq(Nat)
        /\ Len(jobs') = Len(jobs) - 1
        /\ Head(jobs) \in Range(jobs)
        /\ Range(jobs) = Range(jobs') \cup {Head(jobs)}
        /\ IsInjective(jobs) => IsInjective(jobs') /\ Head(jobs) \notin Range(jobs')
    BY <2>1, TailQueue
  <2>3. holding[w] = {}
    BY <1>1 DEF TakeJob, IInv, OneInHand
  <2>4. /\ UNCHANGED <<main, made, results, writer, batch, committed>>
        /\ \/ /\ worker' = [worker EXCEPT ![w] = "send"]
              /\ holding' = [holding EXCEPT ![w] = {Head(jobs)}]
              /\ UNCHANGED dropped
           \/ /\ dropped' = dropped \cup {Head(jobs)}
              /\ UNCHANGED <<worker, holding>>
    BY <1>1 DEF TakeJob
  <2>5. Shape'
    <3> DEFINE job == Head(jobs)
    <3>1. job \in Nat /\ jobs' \in Seq(Nat)
      BY <2>2
    <3>2. \/ /\ worker' = [worker EXCEPT ![w] = "send"]
             /\ holding' = [holding EXCEPT ![w] = {job}]
             /\ UNCHANGED dropped
          \/ dropped' = dropped \cup {job} /\ UNCHANGED <<worker, holding>>
      BY <2>4
    <3> HIDE DEF job
    <3>3. /\ worker \in [Workers -> {"recv", "send", "gone"}]
          /\ holding \in [Workers -> SUBSET Nat]
          /\ dropped \in SUBSET Nat
      BY DEF IInv, Shape
    <3>4. worker' \in [Workers -> {"recv", "send", "gone"}]
      BY <3>2, <3>3
    <3>5. holding' \in [Workers -> SUBSET Nat]
      BY <3>1, <3>2, <3>3
    <3>6. dropped' \in SUBSET Nat
      BY <3>1, <3>2, <3>3
    <3>7. QED
      BY <2>4, <3>1, <3>4, <3>5, <3>6 DEF IInv, Shape
  <2>6. OneInHand'
    <3>1. CASE UNCHANGED <<worker, holding>>
      BY <3>1 DEF IInv, OneInHand
    <3>2. CASE /\ worker' = [worker EXCEPT ![w] = "send"]
               /\ holding' = [holding EXCEPT ![w] = {Head(jobs)}]
      <4>1. Head(jobs) \in Nat /\ worker'[w] = "send" /\ holding'[w] = {Head(jobs)}
        BY <2>2, <3>2 DEF IInv, Shape
      <4>2. \A v \in Workers \ {w} : worker'[v] = worker[v] /\ holding'[v] = holding[v]
        BY <3>2 DEF IInv, Shape
      <4>3. QED
        BY <4>1, <4>2 DEF IInv, OneInHand
    <3>3. QED
      BY <2>4, <3>1, <3>2
  <2>7. Room'
    BY <2>2, <2>4, Queues, PipelineAssumption DEF IInv, Room
  <2>8. ASSUME OnePlace PROVE OnePlace'
    <3>1. CASE holding' = [holding EXCEPT ![w] = {Head(jobs)}] /\ dropped' = dropped
      <4>1. InHands' = InHands \cup {Head(jobs)}
        BY <2>3, <3>1, HandsTake DEF IInv, Shape
      <4>2. \A u, v \in Workers : u # v => holding'[u] \cap holding'[v] = {}
        <5>1. \A v \in Workers : Head(jobs) \notin holding[v]
          BY <2>2, <2>8 DEF OnePlace, InHands
        <5>2. holding \in [Workers -> SUBSET Nat]
          BY DEF IInv, Shape
        <5>3. QED
          BY <2>8, <3>1, <5>1, <5>2 DEF OnePlace
      <4>3. QED
        BY <2>2, <2>4, <2>8, <3>1, <4>1, <4>2 DEF OnePlace
    <3>2. CASE UNCHANGED holding /\ dropped' = dropped \cup {Head(jobs)}
      <4>1. InHands' = InHands
        BY <3>2 DEF InHands
      <4>2. QED
        BY <2>2, <2>4, <2>8, <3>2, <4>1 DEF OnePlace
    <3>3. QED
      BY <2>4, <3>1, <3>2
  <2>9. EndsInOrder'
    BY <2>1, <2>4, <1>1 DEF TakeJob, IInv, EndsInOrder, Shape
  <2>10. QED
    BY <2>4, <2>5, <2>6, <2>7, <2>8, <2>9 DEF IInv
<1>2. CASE LeaveIdle(w)
  <2> USE <1>2 DEF LeaveIdle, NoMoreJobs, JobSendersGone
  <2>1. Shape' /\ OneInHand' /\ Room'
    BY DEF IInv, Shape, OneInHand, Room
  <2>2. OnePlace => OnePlace'
    BY DEF OnePlace, InHands
  <2>3. EndsInOrder'
    BY DEF IInv, EndsInOrder, Shape
  <2>4. QED
    BY <2>1, <2>2, <2>3 DEF IInv
<1>3. CASE SendResult(w)
  <2>1. PICK job \in Nat : holding[w] = {job}
    BY <1>3 DEF SendResult, IInv, OneInHand
  <2>2. SetToSeq(holding[w]) = <<job>>
    BY <2>1, SingletonSeq
  <2>3. results' = Append(results, job)
    BY <1>3, <2>2, Queues, AppendIsConcat DEF SendResult
  <2>4. /\ results' \in Seq(Nat)
        /\ Len(results') = Len(results) + 1
        /\ Range(results') = Range(results) \cup {job}
        /\ IsInjective(results) /\ job \notin Range(results) => IsInjective(results')
    BY <2>3, Queues, AppendQueue
  <2>5. /\ holding' = [holding EXCEPT ![w] = {}]
        /\ worker' = [worker EXCEPT ![w] = "recv"]
        /\ worker[w] = "send"
        /\ Len(results) < ResultQueue
        /\ UNCHANGED <<main, made, jobs, writer, batch, committed, dropped>>
    BY <1>3 DEF SendResult
  <2>6. Shape'
    BY <2>4, <2>5 DEF IInv, Shape
  <2>7. OneInHand'
    BY <2>5 DEF IInv, Shape, OneInHand
  <2>8. Room'
    BY <2>4, <2>5, Queues, PipelineAssumption DEF IInv, Room
  <2>9. ASSUME OnePlace PROVE OnePlace'
    <3>1. holding \in [Workers -> SUBSET Nat]
      BY DEF IInv, Shape
    <3>2. \A u, v \in Workers : u # v => holding[u] \cap holding[v] = {}
      BY <2>9 DEF OnePlace
    <3>3. InHands' = InHands \ {job} /\ job \in InHands
      BY <2>1, <2>5, <3>1, <3>2, HandsGive
    <3>4. \A u, v \in Workers : u # v => holding'[u] \cap holding'[v] = {}
      BY <2>5, <3>1, <3>2
    <3>5. QED
      BY <2>4, <2>5, <2>9, <3>3, <3>4 DEF OnePlace
  <2>10. EndsInOrder'
    BY <2>5 DEF IInv, EndsInOrder, Shape
  <2>11. QED
    BY <2>5, <2>6, <2>7, <2>8, <2>9, <2>10 DEF IInv
<1>4. CASE LeaveRefused(w)
  <2> USE <1>4 DEF LeaveRefused, ResultReceiverGone
  <2>1. writer = "failed"
    BY DEF IInv, EndsInOrder
  <2>2. Shape' /\ OneInHand' /\ Room'
    BY DEF IInv, Shape, OneInHand, Room
  <2>3. EndsInOrder'
    BY <2>1 DEF IInv, EndsInOrder, Shape
  <2>4. QED
    BY <2>1, <2>2, <2>3 DEF IInv
<1>5. QED
  BY <1>1, <1>2, <1>3, <1>4 DEF WorkerStep

(* The writer. *)
LEMMA WriterKeepsIInv == ASSUME IInv, WriterStep PROVE IInv'
<1>1. CASE TakeResult
  <2>1. /\ writer = "recv"
        /\ results # <<>>
        /\ results' = Tail(results)
        /\ batch' = Append(batch, Head(results))
        /\ writer' = IF Len(batch) + 1 >= BatchSize THEN "commit" ELSE "recv"
        /\ UNCHANGED <<main, made, jobs, worker, holding, committed, dropped>>
    BY <1>1 DEF TakeResult
  <2>2. /\ Head(results) \in Nat
        /\ results' \in Seq(Nat)
        /\ Len(results') = Len(results) - 1
        /\ Head(results) \in Range(results)
        /\ Range(results) = Range(results') \cup {Head(results)}
        /\ IsInjective(results) =>
             IsInjective(results') /\ Head(results) \notin Range(results')
    BY <2>1, Queues, TailQueue
  <2>3. /\ batch' \in Seq(Nat)
        /\ Len(batch') = Len(batch) + 1
        /\ Range(batch') = Range(batch) \cup {Head(results)}
        /\ IsInjective(batch) /\ Head(results) \notin Range(batch) => IsInjective(batch')
    BY <2>1, <2>2, Queues, AppendQueue
  <2>4. Shape' /\ OneInHand'
    BY <2>1, <2>2, <2>3 DEF IInv, Shape, OneInHand
  <2>5. Room'
    <3>1. Len(batch) < BatchSize /\ Len(results') <= ResultQueue /\ Len(jobs') <= JobQueue
      BY <2>1, <2>2, Queues, PipelineAssumption DEF IInv, Room
    <3>2. Len(batch) \in Nat /\ BatchSize \in Nat
      BY Queues, PipelineAssumption
    <3>3. CASE Len(batch) + 1 >= BatchSize
      <4>1. writer' = "commit" /\ Len(batch') = BatchSize
        BY <2>1, <2>3, <3>1, <3>2, <3>3
      <4>2. QED
        BY <3>1, <4>1 DEF Room
    <3>4. CASE ~(Len(batch) + 1 >= BatchSize)
      <4>1. writer' = "recv" /\ Len(batch') < BatchSize
        BY <2>1, <2>3, <3>1, <3>2, <3>4
      <4>2. QED
        BY <3>1, <4>1 DEF Room
    <3>5. QED
      BY <3>3, <3>4
  <2>6. ASSUME OnePlace PROVE OnePlace'
    <3>1. InHands' = InHands
      BY <2>1 DEF InHands
    <3>2. QED
      BY <2>1, <2>2, <2>3, <2>6, <3>1 DEF OnePlace
  <2>7. EndsInOrder'
    BY <2>1 DEF IInv, EndsInOrder, Shape
  <2>8. QED
    BY <2>1, <2>4, <2>5, <2>6, <2>7 DEF IInv
<1>2. CASE Commit \/ Flush
  <2>1. /\ writer # "failed"
        /\ writer' \in {"recv", "ok"}
        /\ writer' = "ok" => results = <<>> /\ \A w \in Workers : worker[w] = "gone"
        /\ batch' = <<>>
        /\ committed' = committed \o batch
        /\ UNCHANGED <<main, made, jobs, worker, holding, results, dropped>>
    BY <1>2 DEF Commit, Flush, BatchCleared, ResultSendersGone
  <2>2. /\ committed' \in Seq(Nat)
        /\ Range(committed') = Range(committed) \cup Range(batch)
        /\ IsInjective(committed) /\ IsInjective(batch)
             /\ Range(committed) \cap Range(batch) = {} => IsInjective(committed')
    BY <2>1, Queues, ConcatQueue
  <2>3. batch' \in Seq(Nat) /\ Len(batch') = 0 /\ Range(batch') = {} /\ IsInjective(batch')
    BY <2>1, EmptyQueue
  <2>4. Shape' /\ OneInHand'
    BY <2>1, <2>2, <2>3 DEF IInv, Shape, OneInHand
  <2>5. Room'
    BY <2>1, <2>3, PipelineAssumption DEF IInv, Room
  <2>6. ASSUME OnePlace PROVE OnePlace'
    <3>1. InHands' = InHands
      BY <2>1 DEF InHands
    <3>2. QED
      BY <2>1, <2>2, <2>3, <2>6, <3>1 DEF OnePlace
  <2>7. writer # "ok" \/ main # "swept"
    BY <1>2 DEF Commit, Flush
  <2>8. EndsInOrder'
    BY <2>1, <2>7, <1>2 DEF Commit, Flush, IInv, EndsInOrder
  <2>9. QED
    BY <2>1, <2>4, <2>5, <2>6, <2>8 DEF IInv
<1>3. CASE WriterFails
  <2> USE <1>3 DEF WriterFails
  <2>1. Shape' /\ OneInHand'
    BY DEF IInv, Shape, OneInHand
  <2>2. Room'
    <3>1. Len(batch) <= BatchSize
      BY Queues, PipelineAssumption DEF IInv, Room
    <3>2. QED
      BY <3>1 DEF IInv, Room
  <2>3. EndsInOrder'
    BY DEF IInv, EndsInOrder
  <2>4. QED
    BY <2>1, <2>2, <2>3 DEF IInv
<1>4. QED
  BY <1>1, <1>2, <1>3 DEF WriterStep

(* Every step keeps the invariant. *)
LEMMA NextIInv == IInv /\ [Next]_vars => IInv'
<1> SUFFICES ASSUME IInv, [Next]_vars PROVE IInv'
  OBVIOUS
<1>1. CASE UNCHANGED vars
  <2> USE <1>1 DEF vars
  <2>1. Shape' /\ OneInHand' /\ Room' /\ EndsInOrder'
    BY DEF IInv, Shape, OneInHand, Room, EndsInOrder
  <2>2. OnePlace => OnePlace'
    BY DEF OnePlace, InHands
  <2>3. QED
    BY <2>1, <2>2 DEF IInv
<1>2. QED
  BY <1>1, MainKeepsIInv, WorkerKeepsIInv, WriterKeepsIInv DEF Next

(* In every reachable state the invariant holds. *)
LEMMA Invariance == Spec => []IInv
  BY InitIInv, NextIInv, PTL DEF Spec

-----------------------------------------------------------------------------
(* Every reachable state is well formed: queues and batch stay within      *)
(* their bounds, and a worker holds a result exactly while it sends one.   *)
THEOREM PipelineTypeCorrect == Spec => []TypeOK
<1>1. IInv => TypeOK
  <2> SUFFICES ASSUME IInv PROVE TypeOK
    OBVIOUS
  <2>1. Len(batch) <= BatchSize
    <3>1. Len(batch) < BatchSize \/ Len(batch) = BatchSize \/ Len(batch) <= BatchSize
          \/ batch = <<>>
      BY DEF IInv, Shape, Room
    <3>2. QED
      BY <3>1, Queues, EmptyQueue, PipelineAssumption
  <2>2. \A w \in Workers : worker[w] = "send" <=> holding[w] # {}
    BY DEF IInv, OneInHand
  <2>3. QED
    BY <2>1, <2>2 DEF IInv, Shape, Room, TypeOK
<1>2. QED
  BY <1>1, Invariance, PTL

(* Until the writer fails, every job made is in exactly one place of the   *)
(* pipeline: none is lost or doubled at any hand-over.                     *)
THEOREM EachJobOnceHolds == Spec => []EachJobOnce
<1>1. ASSUME IInv, writer # "failed"
      PROVE  LET queued == jobs \o results \o batch \o committed
             IN  /\ Range(queued) \cup InHands \cup dropped = 1..made
                 /\ Len(queued) + Cardinality(InHands) + Cardinality(dropped) = made
  <2> DEFINE jr == jobs \o results
             jrb == jr \o batch
             queued == jrb \o committed
  <2>1. OnePlace /\ made \in Nat
    <3>1. made \in 0..Jobs
      BY <1>1 DEF IInv, Shape
    <3>2. QED
      BY <1>1, <3>1, PipelineAssumption DEF IInv
  <2>2. jr \in Seq(Nat) /\ Range(jr) = Range(jobs) \cup Range(results) /\ IsInjective(jr)
    BY <1>1, <2>1, Queues, ConcatQueue DEF OnePlace
  <2>3. jrb \in Seq(Nat) /\ Range(jrb) = Range(jr) \cup Range(batch) /\ IsInjective(jrb)
    <3> HIDE DEF jr
    <3>1. Range(jr) \cap Range(batch) = {} /\ IsInjective(batch)
      BY <2>1, <2>2 DEF OnePlace
    <3>2. QED
      BY <1>1, <2>2, <3>1, Queues, ConcatQueue
  <2>4. /\ queued \in Seq(Nat)
        /\ Range(queued) = Range(jrb) \cup Range(committed)
        /\ IsInjective(queued)
    <3> HIDE DEF jrb
    <3>1. Range(jrb) \cap Range(committed) = {} /\ IsInjective(committed)
      BY <2>1, <2>2, <2>3 DEF OnePlace
    <3>2. QED
      BY <1>1, <2>3, <3>1, Queues, ConcatQueue
  <2> HIDE DEF jr, jrb, queued
  <2>5. Range(queued) \cup InHands \cup dropped = 1..made
    BY <2>1, <2>2, <2>3, <2>4 DEF OnePlace
  <2>6. /\ Range(queued) \cap InHands = {}
        /\ (Range(queued) \cup InHands) \cap dropped = {}
    BY <2>1, <2>2, <2>3, <2>4 DEF OnePlace
  <2>7. IsFiniteSet(1..made) /\ Cardinality(1..made) = made
    BY <2>1, FS_Interval
  <2>8. IsFiniteSet(InHands) /\ IsFiniteSet(dropped)
    BY <2>5, <2>7, FS_Subset
  <2>9. IsFiniteSet(Range(queued)) /\ Cardinality(Range(queued)) = Len(queued)
    BY <2>4, QueueCount
  <2>10. /\ IsFiniteSet(Range(queued) \cup InHands)
         /\ Cardinality(Range(queued) \cup InHands) = Len(queued) + Cardinality(InHands)
    BY <2>6, <2>8, <2>9, DisjointCount
  <2>11. Cardinality(Range(queued) \cup InHands \cup dropped)
           = Cardinality(Range(queued) \cup InHands) + Cardinality(dropped)
    BY <2>6, <2>8, <2>10, DisjointCount
  <2>12. Len(queued) + Cardinality(InHands) + Cardinality(dropped) = made
    BY <2>5, <2>7, <2>10, <2>11
  <2>13. QED
    BY <2>5, <2>12 DEF queued, jrb, jr
<1>2. IInv => EachJobOnce
  BY <1>1 DEF EachJobOnce
<1>3. QED
  BY <1>2, Invariance, PTL

(* The sweep runs only when every job that could be hashed is committed,   *)
(* and none twice.                                                         *)
THEOREM SweepAfterCommitsHolds == Spec => []SweepAfterCommits
<1>1. ASSUME IInv, main = "swept"
      PROVE  Range(committed) = 1..Jobs \ dropped /\ IsInjective(committed)
  <2> USE <1>1 DEF IInv
  <2>1. writer = "ok" /\ made = Jobs
    BY DEF EndsInOrder
  <2>2. results = <<>> /\ batch = <<>> /\ \A w \in Workers : worker[w] = "gone"
    BY <2>1 DEF EndsInOrder, Room
  <2>3. jobs = <<>>
    BY <2>1, <2>2, PipelineAssumption DEF EndsInOrder
  <2>4. InHands = {}
    BY <2>2, NobodyHolds
  <2>5. OnePlace
    BY <2>1
  <2>6. Range(jobs) = {} /\ Range(results) = {} /\ Range(batch) = {}
    BY <2>2, <2>3, EmptyQueue
  <2>7. QED
    BY <2>1, <2>4, <2>5, <2>6 DEF OnePlace
<1>2. IInv => SweepAfterCommits
  BY <1>1 DEF SweepAfterCommits
<1>3. QED
  BY <1>2, Invariance, PTL

-----------------------------------------------------------------------------
(* The threads implement ScanPromise *)

(* The mapped variables while the writer has not failed.                   *)
PromisedVars == <<made, Range(jobs) \cup InHands, batch \o results, committed, main = "swept">>

(* While the writer has not failed, a step that leaves the mapped          *)
(* variables as they are is a stutter of the promise.                      *)
LEMMA HandOverStutters ==
  ASSUME writer # "failed", writer' # "failed", UNCHANGED PromisedVars
  PROVE  UNCHANGED Promise!vars
  BY DEF Promise!vars, PromisedVars

(* From the writer's failure on, whatever happens is a stutter: nothing is *)
(* committed and nothing swept any more.                                   *)
LEMMA AfterFailureStutters ==
  ASSUME IInv, [Next]_vars, writer = "failed"
  PROVE  UNCHANGED Promise!vars
<1>1. writer' = writer /\ committed' = committed
  BY DEF Next, MainStep, SendJob, EndWalk, JoinWorkers, JoinWriter, WorkerStep, TakeJob,
         LeaveIdle, SendResult, LeaveRefused, WriterStep, TakeResult, Commit, Flush,
         WriterFails, vars
<1>2. QED
  BY <1>1 DEF Promise!vars

(* While a thread other than main has something to do, nothing is swept.   *)
LEMMA NotSwept ==
  ASSUME IInv, writer # "ok"
  PROVE  main # "swept"
  BY DEF IInv, EndsInOrder

(* A step of the main thread makes a job, sweeps, or is invisible.         *)
LEMMA MainSimulates ==
  ASSUME IInv, MainStep, writer # "failed"
  PROVE  [Promise!Next]_(Promise!vars)
<1>1. CASE SendJob
  <2>1. /\ main = "walk" /\ made < Jobs /\ made' = made + 1
        /\ jobs' = Append(jobs, made + 1)
        /\ UNCHANGED <<main, worker, holding, results, writer, batch, committed, dropped>>
    BY <1>1 DEF SendJob
  <2>2. made + 1 \in Nat
    <3>1. made \in 0..Jobs
      BY DEF IInv, Shape
    <3>2. QED
      BY <3>1, PipelineAssumption
  <2>3. Range(jobs') = Range(jobs) \cup {made + 1}
    BY <2>1, <2>2, Queues, AppendQueue
  <2>4. InHands' = InHands
    BY <2>1 DEF InHands
  <2>5. Promise!Make
    BY <2>1, <2>3, <2>4 DEF Promise!Make
  <2>6. QED
    BY <2>1, <2>5 DEF Promise!Next
<1>2. CASE EndWalk \/ JoinWorkers
  <2>1. InHands' = InHands
    BY <1>2 DEF EndWalk, JoinWorkers, InHands
  <2>2. UNCHANGED PromisedVars
    BY <1>2, <2>1 DEF EndWalk, JoinWorkers, PromisedVars
  <2>3. QED
    BY <1>2, <2>2, HandOverStutters DEF EndWalk, JoinWorkers
<1>3. CASE JoinWriter
  <2>1. /\ main = "join writer" /\ writer = "ok" /\ main' = "swept"
        /\ UNCHANGED <<made, jobs, worker, holding, results, writer, batch, committed, dropped>>
    BY <1>3 DEF JoinWriter, SweepAfter
  <2>2. made = Jobs /\ results = <<>> /\ batch = <<>> /\ InHands = {} /\ Range(jobs) = {}
    <3>1. made = Jobs /\ results = <<>> /\ batch = <<>>
          /\ \A w \in Workers : worker[w] = "gone"
      BY <2>1 DEF IInv, EndsInOrder, Room
    <3>2. jobs = <<>>
      BY <2>1, <3>1, PipelineAssumption DEF IInv, EndsInOrder
    <3>3. QED
      BY <3>1, <3>2, NobodyHolds, EmptyQueue DEF IInv
  <2>3. InHands' = InHands
    BY <2>1 DEF InHands
  <2>4. batch \o results = <<>>
    BY <2>2, EmptyQueue, ConcatEmptySeq
  <2>5. Promise!Sweep
    BY <2>1, <2>2, <2>3, <2>4 DEF Promise!Sweep, Promise!Drained
  <2>6. QED
    BY <2>1, <2>5 DEF Promise!Next
<1>4. QED
  BY <1>1, <1>2, <1>3 DEF MainStep

(* A worker's step drops its job, ends it in a result when that is sent,   *)
(* or is invisible.                                                        *)
LEMMA WorkerSimulates ==
  ASSUME IInv, NEW w \in Workers, WorkerStep(w), writer # "failed"
  PROVE  [Promise!Next]_(Promise!vars)
<1>0. OnePlace /\ holding \in [Workers -> SUBSET Nat]
  BY DEF IInv, Shape
<1>1. CASE TakeJob(w)
  <2>1. /\ jobs \in Seq(Nat) /\ jobs # <<>> /\ jobs' = Tail(jobs) /\ holding[w] = {}
        /\ worker[w] = "recv"
        /\ UNCHANGED <<main, made, results, writer, batch, committed>>
        /\ \/ holding' = [holding EXCEPT ![w] = {Head(jobs)}]
           \/ UNCHANGED holding
    BY <1>1, Queues DEF TakeJob, IInv, OneInHand
  <2>2. /\ Head(jobs) \in Range(jobs)
        /\ Range(jobs) = Range(jobs') \cup {Head(jobs)}
        /\ Head(jobs) \notin Range(jobs')
        /\ Head(jobs) \notin InHands
    BY <1>0, <2>1, TailQueue DEF OnePlace
  <2>3. CASE holding' = [holding EXCEPT ![w] = {Head(jobs)}]
    <3>1. InHands' = InHands \cup {Head(jobs)}
      BY <1>0, <2>1, <2>3, HandsTake
    <3>2. Range(jobs') \cup InHands' = Range(jobs) \cup InHands
      BY <2>2, <3>1
    <3>3. UNCHANGED PromisedVars
      BY <2>1, <3>2 DEF PromisedVars
    <3>4. QED
      BY <2>1, <3>3, HandOverStutters
  <2>4. CASE UNCHANGED holding
    <3>1. InHands' = InHands
      BY <2>4 DEF InHands
    <3>2. Range(jobs') \cup InHands' = (Range(jobs) \cup InHands) \ {Head(jobs)}
      BY <2>2, <3>1
    <3>3. Promise!Drop(Head(jobs))
      BY <2>1, <3>2 DEF Promise!Drop
    <3>4. main # "swept"
      BY <1>0, <2>1, NotSwept DEF IInv, EndsInOrder
    <3>5. QED
      BY <2>1, <2>2, <3>3, <3>4 DEF Promise!Next
  <2>5. QED
    BY <2>1, <2>3, <2>4
<1>2. CASE LeaveIdle(w)
  <2>1. InHands' = InHands
    BY <1>2 DEF LeaveIdle, InHands
  <2>2. UNCHANGED PromisedVars
    BY <1>2, <2>1 DEF LeaveIdle, PromisedVars
  <2>3. QED
    BY <1>2, <2>2, HandOverStutters DEF LeaveIdle
<1>3. CASE SendResult(w)
  <2>1. PICK job \in Nat : holding[w] = {job}
    BY <1>3 DEF SendResult, IInv, OneInHand
  <2>2. SetToSeq(holding[w]) = <<job>>
    BY <2>1, SingletonSeq
  <2>3. results' = Append(results, job)
    BY <1>3, <2>1, <2>2, Queues, AppendIsConcat DEF SendResult
  <2>4. /\ holding' = [holding EXCEPT ![w] = {}]
        /\ writer \notin {"ok", "failed"}
        /\ UNCHANGED <<main, made, jobs, writer, batch, committed, dropped>>
    BY <1>3 DEF SendResult, ResultReceiverGone
  <2>5. InHands' = InHands \ {job} /\ job \in InHands
    BY <1>0, <2>1, <2>4, HandsGive DEF OnePlace
  <2>6. Range(jobs) \cup InHands' = (Range(jobs) \cup InHands) \ {job}
    BY <1>0, <2>5 DEF OnePlace
  <2>7. batch' \o results' = Append(batch \o results, job)
    <3>1. batch \in Seq(Nat) /\ results \in Seq(Nat) /\ job \in Nat
      BY <2>1, Queues
    <3>2. batch \o Append(results, job) = Append(batch \o results, job)
      BY <3>1, AppendBehind
    <3>3. QED
      BY <2>3, <2>4, <3>2
  <2>8. Promise!Hash(job)
    BY <2>4, <2>6, <2>7 DEF Promise!Hash
  <2>9. main # "swept"
    BY <2>4, NotSwept
  <2>10. QED
    BY <2>4, <2>5, <2>8, <2>9 DEF Promise!Next
<1>4. ~LeaveRefused(w)
  BY DEF LeaveRefused, ResultReceiverGone, IInv, EndsInOrder
<1>5. QED
  BY <1>1, <1>2, <1>3, <1>4 DEF WorkerStep

(* The writer's step commits a full batch or the rest, fails, or is        *)
(* invisible.                                                              *)
LEMMA WriterSimulates ==
  ASSUME IInv, WriterStep, writer # "failed"
  PROVE  [Promise!Next]_(Promise!vars)
<1>0. main # "swept"
  BY NotSwept DEF WriterStep, TakeResult, Commit, Flush, WriterFails
<1>1. CASE TakeResult
  <2>1. /\ results # <<>> /\ results' = Tail(results)
        /\ batch' = Append(batch, Head(results))
        /\ writer' # "failed"
        /\ UNCHANGED <<main, made, jobs, holding, committed>>
    BY <1>1 DEF TakeResult
  <2>2. batch' \o results' = batch \o results
    BY <2>1, Queues, MoveHead
  <2>3. InHands' = InHands
    BY <2>1 DEF InHands
  <2>4. UNCHANGED PromisedVars
    BY <2>1, <2>2, <2>3 DEF PromisedVars
  <2>5. QED
    BY <2>1, <2>4, HandOverStutters
<1>2. CASE Commit
  <2>1. /\ writer = "commit" /\ writer' = "recv" /\ batch' = <<>>
        /\ committed' = committed \o batch
        /\ UNCHANGED <<main, made, jobs, holding, results>>
    BY <1>2 DEF Commit, BatchCleared
  <2>2. Len(batch) = BatchSize
    BY <2>1 DEF IInv, Room
  <2>3. /\ SubSeq(batch \o results, 1, BatchSize) = batch
        /\ SubSeq(batch \o results, BatchSize + 1, Len(batch \o results)) = results
    BY <2>2, Queues, CutFront
  <2>4. Len(batch \o results) >= BatchSize
    BY <2>2, Queues, ConcatQueue
  <2>5. batch' \o results' = results
    BY <2>1, Queues, ConcatEmptySeq
  <2>6. InHands' = InHands
    BY <2>1 DEF InHands
  <2>7. Promise!CommitFull
    BY <1>0, <2>1, <2>3, <2>4, <2>5, <2>6 DEF Promise!CommitFull, Promise!CommitFirst
  <2>8. QED
    BY <1>0, <2>1, <2>7 DEF Promise!Next
<1>3. CASE Flush
  <2>1. /\ writer = "recv" /\ writer' = "ok" /\ batch' = <<>> /\ results = <<>>
        /\ committed' = committed \o batch
        /\ \A w \in Workers : worker[w] = "gone"
        /\ UNCHANGED <<main, made, jobs, holding, results>>
    BY <1>3 DEF Flush, ResultSendersGone
  <2>2. made = Jobs /\ jobs = <<>>
    BY <2>1, PipelineAssumption DEF IInv, EndsInOrder
  <2>3. Range(jobs) = {} /\ InHands = {}
    BY <2>1, <2>2, NobodyHolds, EmptyQueue DEF IInv
  <2>4. batch \o results = batch /\ batch' \o results' = <<>>
    BY <2>1, Queues, ConcatEmptySeq, EmptyQueue
  <2>5. SubSeq(batch, 1, Len(batch)) = batch /\ SubSeq(batch, Len(batch) + 1, Len(batch)) = <<>>
    BY Queues, SubSeqFull, SubSeqEmpty
  <2>6. Len(batch) < BatchSize
    BY <2>1 DEF IInv, Room
  <2>7. InHands' = InHands
    BY <2>1 DEF InHands
  <2>8. Promise!CommitRest
    BY <1>0, <2>1, <2>2, <2>3, <2>4, <2>5, <2>6, <2>7
       DEF Promise!CommitRest, Promise!Drained, Promise!CommitFirst
  <2>9. QED
    BY <1>0, <2>1, <2>8 DEF Promise!Next
<1>4. CASE WriterFails
  <2>1. writer' = "failed" /\ committed' = committed
    BY <1>4 DEF WriterFails
  <2>2. Promise!Fail
    BY <2>1 DEF Promise!Fail
  <2>3. QED
    BY <1>0, <2>2 DEF Promise!Next
<1>5. QED
  BY <1>1, <1>2, <1>3, <1>4 DEF WriterStep

(* The threads of a scan implement the steps by which the module Scan      *)
(* takes a scan: whatever the workers, capacities and batch size, what     *)
(* they commit, when they sweep and what a failing writer leaves is what   *)
(* one thread could have done.                                             *)
THEOREM PipelineKeepsPromise == Spec => KeepsPromise
<1>1. Init => Promise!Init
  <2> SUFFICES ASSUME Init PROVE Promise!Init
    OBVIOUS
  <2>1. InHands = {} /\ Range(jobs) = {} /\ batch \o results = <<>>
    BY EmptyQueue, ConcatEmptySeq DEF Init, InHands
  <2>2. QED
    BY <2>1 DEF Init, Promise!Init
<1>2. IInv /\ [Next]_vars => [Promise!Next]_(Promise!vars)
  <2> SUFFICES ASSUME IInv, [Next]_vars PROVE [Promise!Next]_(Promise!vars)
    OBVIOUS
  <2>1. CASE writer = "failed"
    BY <2>1, AfterFailureStutters
  <2>2. CASE writer # "failed" /\ UNCHANGED vars
    <3>1. UNCHANGED PromisedVars
      BY <2>2 DEF vars, PromisedVars, InHands
    <3>2. QED
      BY <2>2, <3>1, HandOverStutters DEF vars
  <2>3. CASE writer # "failed" /\ Next
    BY <2>3, MainSimulates, WorkerSimulates, WriterSimulates DEF Next
  <2>4. QED
    BY <2>1, <2>2, <2>3
<1>3. QED
  BY <1>1, <1>2, Invariance, PTL DEF Spec, KeepsPromise, Promise!PromiseSpec
=============================================================================
