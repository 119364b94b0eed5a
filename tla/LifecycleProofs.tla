-------------------------- MODULE LifecycleProofs ---------------------------
(***************************************************************************)
(* Theorems about Lifecycle, for any paths, contents, options of scans and *)
(* deletes, batch size and bounds.                                         *)
(***************************************************************************)
EXTENDS Lifecycle, DeleteProofs

-----------------------------------------------------------------------------
(* The inductive invariant, by parts *)

(* A listing is in one place only, what a scan holds of a listed path is   *)
(* about a path it has seen, and between scans there is nothing to hold.   *)
ScanInv ==
  /\ scanning \in BOOLEAN
  /\ ~(scanning /\ deleting)
  /\ opts.walked \subseteq opts.scope
  /\ opts.scope \subseteq Paths
  /\ todo \cup listed \subseteq opts.walked \X (1..opts.times)
  /\ todo \cap listed = {}
  /\ \A j \in jobs : /\ j.path \in Paths \cap seen
                     /\ <<j.path, j.time>> \notin todo \cup listed
  /\ results \in Seq(ResultSet)
  /\ \A r \in Range(results) : r.path \in seen
  /\ ~scanning => /\ todo = {} /\ listed = {} /\ seen = {} /\ jobs = {}
                  /\ results = <<>>

(* Metadata observed at a path, now or earlier: if the file there has its  *)
(* mtime, the file is the one that was observed.                           *)
SoundAt(path, meta) ==
  /\ meta.mtime_secs <= now
  /\ \A f \in disk[path] : f.mtime_secs = meta.mtime_secs => f = meta

SoundInv ==
  /\ \A fid \in DOMAIN db.file_state : SoundAt(PathOf(db, fid), db.file_meta[fid])
  /\ \A r \in Range(results) : SoundAt(r.path, r.meta)
  /\ \A j \in jobs :
       /\ j.mtime \in 0..now
       /\ \E g \in Hashes : j.size = SizeOf[g]
       /\ \A f \in disk[j.path] : f.mtime_secs = j.mtime => f.size = j.size

Inv == WorldInv /\ ScanInv /\ SoundInv /\ DeleteInv

(* What a scan that nobody disturbs has settled: a path it has listed is   *)
(* not there, or seen and, unless empty, on its way to a current record or *)
(* recorded as it is.                                                      *)
Pending(path) == \E l \in todo \cup listed : l[1] = path

OnItsWay(path) ==
  \/ \E j \in jobs : j.path = path
  \/ \E r \in Range(results) : r.path = path

MissedInv ==
  scanning =>
    /\ \A p \in Paths : ~IsOnDisk(p) => p \in missed
    /\ \A p \in opts.walked : Pending(p) \/ p \in seen \/ p \in missed

QuietInv ==
  quiet =>
    /\ scanning
    /\ \A j \in jobs : \E f \in disk[j.path] : f.size = j.size /\ f.mtime_secs = j.mtime
    /\ \A r \in Range(results) : disk[r.path] = {r.meta}
    /\ \A l \in listed : IsOnDisk(l[1])
    /\ \A p \in seen : p \in Paths /\ IsOnDisk(p)
    /\ \A p \in opts.walked :
         Pending(p) \/ \A f \in disk[p] :
           /\ p \in seen
           /\ f.size > 0 => OnItsWay(p) \/ CurrentMetas(db, p) = {f}

FreshInv ==
  fresh =>
    /\ scanning => quiet
    /\ \A fid \in LiveIn(db) \ removed :
         \E f \in disk[PathOf(db, fid)] : f = db.file_meta[fid] \/ f.size = 0

-----------------------------------------------------------------------------
(* A batch: the fold of WriteBatch, unfolded *)

(* A batch is its items one after the other.                               *)
LEMMA BatchSteps ==
  ASSUME NEW d, NEW batch, Len(batch) \in Nat, DOMAIN batch = 1..Len(batch)
  PROVE  \E after :
           /\ after[0] = d
           /\ \A m \in 1..Len(batch) :
                after[m] = WriteVersion(after[m - 1], batch[m].path, batch[m].meta)
           /\ WriteBatch(d, batch) = after[Len(batch)]
<1> DEFINE n == Len(batch)
           iter == CHOOSE f : f = [s \in SUBSET DOMAIN batch |->
                     IF s = {} THEN d
                     ELSE WriteVersion(f[s \ {Max(s)}], batch[Max(s)].path, batch[Max(s)].meta)]
           v(s) == IF s = {} THEN d
                   ELSE WriteVersion(iter[s \ {Max(s)}], batch[Max(s)].path, batch[Max(s)].meta)
           after == [m \in 0..n |-> iter[1..m]]
<1>1. WriteBatch(d, batch) = iter[1..n]
  BY DEF WriteBatch, FoldLeft, MapThenFoldSet
<1>2. iter = [s \in SUBSET (1..n) |-> v(s)]
  <2>1. \E f : f = [s \in SUBSET DOMAIN batch |->
                     IF s = {} THEN d
                     ELSE WriteVersion(f[s \ {Max(s)}], batch[Max(s)].path, batch[Max(s)].meta)]
    <3>1. PICK g : IsFold(d, batch, n, g)
      BY FoldExists
    <3>2. SUBSET DOMAIN batch = SUBSET (1..n)
      OBVIOUS
    <3>3. QED
      BY <3>1, <3>2 DEF IsFold
  <2>2. QED
    BY <2>1
<1> HIDE DEF iter
<1>3. \A s \in SUBSET (1..n) : iter[s] = v(s)
  <2> HIDE DEF v
  <2>1. QED
    BY <1>2
<1>4. after[0] = d
  <2>1. 1..0 = {} /\ {} \in SUBSET (1..n)
    OBVIOUS
  <2>2. iter[1..0] = d
    BY <1>3, <2>1
  <2>3. QED
    BY <2>2
<1>5. ASSUME NEW m \in 1..n
      PROVE  after[m] = WriteVersion(after[m - 1], batch[m].path, batch[m].meta)
  <2>0. n \in Nat /\ m \in Nat /\ 1 <= m /\ m <= n
    OBVIOUS
  <2>1. 1..m \in SUBSET (1..n) /\ 1..m # {}
    <3>1. 1 \in 1..m
      BY <2>0
    <3>2. \A i \in 1..m : i \in 1..n
      BY <2>0
    <3>3. QED
      BY <3>1, <3>2
  <2>5. (1..m) \ {m} = 1..(m - 1)
    BY <2>0
  <2>2. Max(1..m) = m
    <3>1. \A y \in 1..m : (\A x \in 1..m : y >= x) => y = m
      OBVIOUS
    <3>2. m \in 1..m /\ \A x \in 1..m : m >= x
      OBVIOUS
    <3>3. QED
      BY <3>1, <3>2 DEF Max
  <2>3. after[m] = iter[1..m] /\ after[m - 1] = iter[1..(m - 1)]
    OBVIOUS
  <2>4. QED
    BY <1>3, <2>1, <2>2, <2>3, <2>5
<1>6. after[n] = iter[1..n]
  OBVIOUS
<1> HIDE DEF after
<1>7. WriteBatch(d, batch) = after[n]
  BY <1>1, <1>6
<1>8. QED
  BY <1>4, <1>5, <1>7

(* After a batch the database has the results recorded, and nothing else.  *)
LEMMA BatchRecorded ==
  ASSUME NEW d, NEW batch \in Seq(ResultSet), Typed(d), Consistent(d)
  PROVE  Records(d, WriteBatch(d, batch), Range(batch))
<1> DEFINE n == Len(batch)
           first(m) == { batch[i] : i \in 1..m }
<1>1. n \in Nat /\ DOMAIN batch = 1..n /\ \A i \in 1..n : batch[i] \in ResultSet
  BY LenProperties
<1>2. PICK after :
        /\ after[0] = d
        /\ \A m \in 1..Len(batch) :
             after[m] = WriteVersion(after[m - 1], batch[m].path, batch[m].meta)
        /\ WriteBatch(d, batch) = after[Len(batch)]
  <2>1. Len(batch) \in Nat /\ DOMAIN batch = 1..Len(batch)
    BY <1>1
  <2>2. QED
    BY <2>1, BatchSteps
<1> DEFINE T == { m \in 0..n : Records(d, after[m], first(m)) }
<1>3. 0 \in T
  <2>1. first(0) = {}
    OBVIOUS
  <2> HIDE DEF first
  <2>2. Records(d, after[0], first(0))
    BY <1>2, <2>1, RecordedNothing
  <2>3. QED
    BY <1>1, <2>2
<1>4. ASSUME NEW m \in T, m \in 0..(n - 1)
      PROVE  m + 1 \in T
  <2>1. m + 1 \in 1..n /\ (m + 1) - 1 = m
    BY <1>1, <1>4
  <2>2. first(m + 1) = first(m) \cup {batch[m + 1]}
    <3>1. 1..(m + 1) = (1..m) \cup {m + 1}
      BY <1>1, <1>4
    <3>2. QED
      BY <3>1
  <2>3. Records(d, after[m], first(m))
    OBVIOUS
  <2> HIDE DEF first
  <2>6. batch[m + 1] \in ResultSet
    BY <1>1, <2>1
  <2>7. after[m + 1] = WriteVersion(after[m], batch[m + 1].path, batch[m + 1].meta)
    BY <1>2, <2>1
  <2>8. Records(d, WriteVersion(after[m], batch[m + 1].path, batch[m + 1].meta),
                first(m) \cup {batch[m + 1]})
    <3> DEFINE r == batch[m + 1]
               rs == first(m)
               e == after[m]
    <3>1. r \in ResultSet /\ Records(d, e, rs)
      BY <2>3, <2>6
    <3> HIDE DEF r, rs, e
    <3>2. Records(d, WriteVersion(e, r.path, r.meta), rs \cup {r})
      BY <3>1, RecordedOneMore
    <3>3. QED
      BY <3>2 DEF r, rs, e
  <2>4. Records(d, after[m + 1], first(m + 1))
    BY <2>2, <2>7, <2>8
  <2>5. QED
    BY <1>1, <1>4, <2>1, <2>4
<1>5. n \in T
  <2> HIDE DEF T
  <2>1. 0..n \subseteq T
    BY <1>1, <1>3, <1>4, NumbersUpTo
  <2>2. QED
    BY <1>1, <2>1
<1>6. first(n) = Range(batch)
  BY <1>1 DEF Range
<1>7. QED
  BY <1>2, <1>5, <1>6

-----------------------------------------------------------------------------
(* What a step does to database, disk and results *)

(* The steps of a delete run leave the scan alone. *)
LEMMA DeleteActs ==
  ASSUME \/ \E flt \in Filters, policy \in Preserves : StartDelete(flt, policy)
         \/ StepDelete
         \/ BreakDelete
  PROVE  /\ DeleteNext
         /\ UNCHANGED scanVars
         /\ deleting' => deleting \/ ~scanning
<1>1. ASSUME NEW flt \in Filters, NEW policy \in Preserves, StartDelete(flt, policy)
      PROVE  DeleteNext /\ UNCHANGED scanVars /\ ~scanning
  BY <1>1 DEF StartDelete, DeleteNext
<1>2. CASE StepDelete
  <2>1. DeleteNext /\ UNCHANGED scanVars /\ DeleteStep
    BY <1>2 DEF StepDelete, DeleteNext
  <2>2. deleting' => deleting
    BY <2>1 DEF DeleteStep, PlanGroup, RemoveFile, RecordGroup, DeleteFinish, DeleteEnds
  <2>3. QED
    BY <2>1, <2>2
<1>3. CASE BreakDelete
  <2>1. DeleteNext /\ UNCHANGED scanVars /\ (RemoveFails \/ DeleteCrash)
    BY <1>3 DEF BreakDelete, DeleteNext
  <2>2. deleting' => deleting
    BY <2>1 DEF RemoveFails, DeleteCrash, DeleteEnds
  <2>3. QED
    BY <2>1, <2>2
<1>4. QED
  BY <1>1, <1>2, <1>3

(* A commit records results from the front of the queue. *)
LEMMA Commits ==
  ASSUME WorldInv, ScanInv, CommitFull \/ CommitRest
  PROVE  /\ results' \in Seq(ResultSet)
         /\ \E rs : Records(db, db', rs) /\ Range(results) = rs \cup Range(results')
         /\ scanning
         /\ UNCHANGED <<scanning, opts, todo, listed, seen, jobs, disk, now, faults>>
<1>1. results \in Seq(ResultSet) /\ Len(results) \in Nat
  BY LenProperties DEF ScanInv
<1>2. CASE CommitFull
  <2> DEFINE front == SubSeq(results, 1, BatchSize)
             rest == SubSeq(results, BatchSize + 1, Len(results))
  <2>1. /\ Len(results) >= BatchSize
        /\ db' = WriteBatch(db, front)
        /\ results' = rest
        /\ UNCHANGED <<scanning, opts, todo, listed, seen, jobs, disk, now, faults>>
    BY <1>2 DEF CommitFull
  <2>2. BatchSize \in Nat \ {0}
    BY ScanAssumption
  <2>3. front \in Seq(ResultSet) /\ rest \in Seq(ResultSet)
    <3>1. \A i \in 1..BatchSize : results[i] \in ResultSet
      BY <1>1, <2>1, <2>2, LenProperties, ElementOfSeq
    <3>2. \A i \in (BatchSize + 1)..Len(results) : results[i] \in ResultSet
      BY <1>1, <2>1, <2>2, LenProperties, ElementOfSeq
    <3>3. front \in Seq(ResultSet)
      BY <2>2, <3>1, SubSeqProperties
    <3>4. rest \in Seq(ResultSet)
      <4>1. BatchSize + 1 \in Int /\ Len(results) \in Int
        BY <1>1, <2>2
      <4>2. QED
        BY <3>2, <4>1, SubSeqProperties
    <3>5. QED
      BY <3>3, <3>4
  <2>4. front \o rest = results
    <3>1. SubSeq(results, 1, Len(results)) = results
      BY <1>1, SubSeqFull
    <3>2. front \o rest = SubSeq(results, 1, Len(results))
      <4>1. /\ BatchSize \in 0..Len(results) /\ 1 \in 1..(Len(results) + 1)
            /\ BatchSize \in (1 - 1)..Len(results) /\ Len(results) \in BatchSize..Len(results)
        BY <1>1, <2>1, <2>2
      <4>2. QED
        BY <1>1, <4>1, ConcatAdjacentSubSeq
    <3>3. QED
      BY <3>1, <3>2
  <2>5. Range(results) = Range(front) \cup Range(rest)
    <3> HIDE DEF front, rest
    <3>1. Range(front \o rest) = Range(front) \cup Range(rest)
      BY <2>3, ConcatQueue
    <3>2. QED
      BY <2>4, <3>1
  <2> HIDE DEF front, rest
  <2>6. Records(db, db', Range(front))
    BY <2>1, <2>3, BatchRecorded DEF WorldInv
  <2>7. scanning
    BY <2>1, <2>2, EmptyQueue DEF ScanInv
  <2>8. QED
    BY <2>1, <2>3, <2>5, <2>6, <2>7
<1>3. CASE CommitRest
  <2>1. /\ Len(results) \in 1..(BatchSize - 1)
        /\ db' = WriteBatch(db, results)
        /\ results' = <<>>
        /\ UNCHANGED <<scanning, opts, todo, listed, seen, jobs, disk, now, faults>>
    BY <1>3 DEF CommitRest
  <2>2. Records(db, db', Range(results))
    BY <1>1, <2>1, BatchRecorded DEF WorldInv
  <2>3. results' \in Seq(ResultSet) /\ Range(results') = {}
    BY <2>1, EmptyQueue
  <2>4. scanning
    BY <2>1, EmptyQueue DEF ScanInv
  <2>5. QED
    BY <2>1, <2>2, <2>3, <2>4
<1>4. QED
  BY <1>2, <1>3

(* What changes the committed value: a commit, the sweep of a scan or the  *)
(* record of a deleted group.                                              *)
LEMMA DbChanges ==
  ASSUME Next
  PROVE  \/ UNCHANGED db
         \/ ScanStep /\ (CommitFull \/ CommitRest)
         \/ FinishScan /\ db' = MarkMissingNotSeen(db, opts.scope, seen)
         \/ StepDelete /\ RecordGroup
  BY DEF Next, UserWrites, UserErases, Write, Erase, ScanOverlooks, OverlookFile, StartScan,
         ScanStart, ScanStep, ListFile, StatFile, HashJob, DropJob, ScanFault, FailJob, ScanCrash,
         FinishScan, ScanFinish, StartDelete, DeleteStart, StepDelete, DeleteStep, PlanGroup,
         RemoveFile, DeleteFinish, BreakDelete, RemoveFails, DeleteCrash, worldVars

(* Marking by the sweep changes states only, and exactly the Live versions *)
(* of paths of its scope that were not seen are Live no longer.            *)
LEMMA SweptOnly ==
  ASSUME NEW d, Typed(d), Consistent(d), NEW scope, NEW kept
  PROVE  LET e == MarkMissingNotSeen(d, scope, kept)
         IN  /\ DOMAIN e.file_state = DOMAIN d.file_state
             /\ e.file_meta = d.file_meta
             /\ \A f : PathOf(e, f) = PathOf(d, f)
             /\ \A p : GetCurrentByPath(e, p) = GetCurrentByPath(d, p)
             /\ LiveIn(e) = { f \in LiveIn(d) : PathOf(d, f) \notin scope \ kept }
<1> DEFINE e == MarkMissingNotSeen(d, scope, kept)
           gone == { d.path_current[pid] :
                       pid \in { i \in DOMAIN d.path_current \cap DOMAIN d.id_to_path :
                                   d.id_to_path[i] \in scope \ kept } }
           s == [f \in DOMAIN d.file_state |->
                   IF f \in gone /\ d.file_state[f] = Live
                   THEN Missing ELSE d.file_state[f]]
<1>1. e = [d EXCEPT !.file_state = s]
  BY DEF MarkMissingNotSeen
<1>6. ASSUME NEW f \in DOMAIN d.file_state, d.file_state[f] = Live
      PROVE  f \in gone <=> PathOf(d, f) \in scope \ kept
  <2>1. /\ d.file_to_path[f] \in DOMAIN d.path_current
        /\ DOMAIN d.path_current = DOMAIN d.id_to_path
    <3>1. f \in 1..(d.next_file_id - 1)
      BY DEF Typed
    <3>2. QED
      BY <3>1 DEF Typed
  <2>4. d.path_current[d.file_to_path[f]] = f
    BY <1>6 DEF Consistent, ReplacedIffSuperseded, Live, Replaced
  <2>2. \A i \in DOMAIN d.path_current : d.path_current[i] = f => i = d.file_to_path[f]
    BY DEF Consistent, CurrentIsOwn
  <2>3. QED
    BY <2>1, <2>2, <2>4 DEF PathOf
<1> HIDE DEF gone, e
<1>2. \A f \in DOMAIN s : s[f] = Live <=> d.file_state[f] = Live /\ f \notin gone
  BY DEF Live, Missing
<1>3. DOMAIN s = DOMAIN d.file_state
  OBVIOUS
<1> HIDE DEF s
<1>4. /\ e.file_state = s
      /\ e.file_meta = d.file_meta
      /\ e.file_to_path = d.file_to_path
      /\ e.id_to_path = d.id_to_path
      /\ e.path_to_id = d.path_to_id
      /\ e.path_current = d.path_current
  BY <1>1 DEF Typed, TableNames
<1>5. LiveIn(e) = { f \in LiveIn(d) : PathOf(d, f) \notin scope \ kept }
  BY <1>2, <1>3, <1>4, <1>6 DEF LiveIn
<1>7. QED
  BY <1>3, <1>4, <1>5 DEF PathOf, GetCurrentByPath, e

(* A step only adds versions that are results of the running scan.         *)
LEMMA VersionsCome ==
  ASSUME Inv, Next
  PROVE  \A f \in DOMAIN db'.file_state :
           \/ f \in DOMAIN db.file_state /\ VersionOf(db', f) = VersionOf(db, f)
           \/ VersionOf(db', f) \in Range(results)
<1>1. CASE UNCHANGED db
  BY <1>1 DEF VersionOf
<1>2. CASE CommitFull \/ CommitRest
  <2>1. PICK rs : Records(db, db', rs) /\ Range(results) = rs \cup Range(results')
    BY <1>2, Commits DEF Inv
  <2>2. QED
    BY <2>1 DEF Records
<1>3. CASE db' = MarkMissingNotSeen(db, opts.scope, seen)
  BY <1>3, SweptOnly DEF Inv, WorldInv, VersionOf
<1>4. CASE RecordGroup
  <2>1. db' = MarkFilesMissing(db, removed)
    BY <1>4 DEF RecordGroup, Recorded
  <2>2. QED
    BY <2>1, MarkedMissing DEF Inv, WorldInv, VersionOf
<1>5. QED
  BY <1>1, <1>2, <1>3, <1>4, DbChanges

(* A step leaves files, takes them or writes them at a later second.       *)
LEMMA DiskChanges ==
  ASSUME WorldInv, DeleteInv, Next
  PROVE  /\ now' \in Nat
         /\ now <= now'
         /\ \A p \in Paths : \A f \in disk'[p] : f \in disk[p] \/ f.mtime_secs > now
<1>1. now \in Nat /\ disk \in [Paths -> FilesAt(now)]
  BY DEF WorldInv
<1>2. CASE UNCHANGED <<disk, now>>
  BY <1>1, <1>2
<1>3. ASSUME NEW path \in Paths, NEW hash \in Hashes, UserWrites(path, hash)
      PROVE  /\ now' \in Nat /\ now <= now'
             /\ \A p \in Paths : \A f \in disk'[p] : f \in disk[p] \/ f.mtime_secs > now
  <2>1. now' = now + 1 /\ disk' = [disk EXCEPT ![path] = {File(hash, now + 1)}]
    BY <1>3 DEF UserWrites, Write
  <2>2. File(hash, now + 1).mtime_secs = now + 1
    BY DEF File
  <2>3. QED
    BY <1>1, <2>1, <2>2
<1>4. ASSUME NEW path, disk' = [disk EXCEPT ![path] = {}], UNCHANGED now
      PROVE  /\ now' \in Nat /\ now <= now'
             /\ \A p \in Paths : \A f \in disk'[p] : f \in disk[p] \/ f.mtime_secs > now
  BY <1>1, <1>4
<1>5. QED
  <2>1. \/ UNCHANGED <<disk, now>>
        \/ \E path \in Paths, hash \in Hashes : UserWrites(path, hash)
        \/ \E path : disk' = [disk EXCEPT ![path] = {}] /\ UNCHANGED now
    BY DEF Next, UserErases, Erase, ScanOverlooks, OverlookFile, StartScan, CommitFull, CommitRest,
         ScanStart, ScanStep, ListFile, StatFile, HashJob, DropJob, ScanFault, FailJob, ScanCrash,
         FinishScan, ScanFinish, StartDelete, DeleteStart, StepDelete, DeleteStep, PlanGroup,
         RecordGroup, RemoveFile, DeleteFinish, BreakDelete, RemoveFails, DeleteCrash, worldVars
  <2>2. QED
    BY <1>2, <1>3, <1>4, <2>1

-----------------------------------------------------------------------------
(* Every step keeps the invariant *)

(* Nothing runs at first, and nothing is recorded. *)
LEMMA InitGood ==
  ASSUME Init
  PROVE  Inv /\ MissedInv /\ QuietInv /\ FreshInv /\ CopyInv /\ RerunInv /\ RulesInv
<1>1. /\ db = EmptyDb /\ now = 1
      /\ disk \in [Paths -> {{}} \cup { {File(h, 1)} : h \in Hashes }]
      /\ scanning = FALSE /\ opts = NoOptions /\ todo = {} /\ listed = {}
      /\ seen = {} /\ jobs = {} /\ results = <<>>
      /\ deleting = FALSE /\ filter = {} /\ preserve = "Oldest" /\ groups = <<>>
      /\ plan = <<>> /\ removed = {} /\ trusted = FALSE
      /\ before = [p \in Paths |-> {}]
      /\ quiet = FALSE /\ missed = {} /\ fresh = FALSE
  BY DEF Init, WorldInit, ScanInit, DeleteInit
<1>2. WorldInv
  <2>1. Typed(db) /\ Consistent(db)
    BY <1>1, EmptyDbGood
  <2>2. now \in 1..MaxTime
    BY <1>1, WorldAssumption
  <2>3. {{}} \cup { {File(h, 1)} : h \in Hashes } \subseteq FilesAt(1)
    BY DEF FilesAt
  <2>4. disk \in [Paths -> FilesAt(now)]
    BY <1>1, <2>3
  <2>5. QED
    BY <2>1, <2>2, <2>4 DEF WorldInv
<1>3. /\ \A S : <<>> \in Seq(S)
      /\ Range(<<>>) = {} /\ DOMAIN <<>> = {} /\ IsInjective(<<>>)
  BY EmptyQueue
<1>4. ScanInv
  BY <1>1, <1>3 DEF ScanInv, NoOptions
<1>5. SoundInv
  BY <1>1, <1>3 DEF SoundInv, EmptyDb, EmptyTable
<1>6. DeleteInv /\ CopyInv /\ RerunInv /\ RulesInv
  BY NoRun DEF Init
<1>7. QED
  BY <1>1, <1>2, <1>4, <1>5, <1>6 DEF Inv, MissedInv, QuietInv, FreshInv

(* Commands and user keep database and disk in shape. *)
LEMMA WorldKept ==
  ASSUME Inv, Next
  PROVE  WorldInv'
<1>1. /\ now \in Nat /\ disk \in [Paths -> FilesAt(now)]
      /\ Typed(db) /\ Consistent(db)
  BY DEF Inv, WorldInv
<1>2. ASSUME NEW path \in Paths, NEW hash \in Hashes, UserWrites(path, hash)
      PROVE  WorldInv'
  <2>1. /\ now < MaxTime /\ now' = now + 1 /\ UNCHANGED db
        /\ disk' = [disk EXCEPT ![path] = {File(hash, now + 1)}]
    BY <1>2 DEF UserWrites, Write
  <2>2. FilesAt(now) \subseteq FilesAt(now + 1)
    BY <1>1, FilesLater
  <2>3. {File(hash, now + 1)} \in FilesAt(now + 1)
    <3>1. now + 1 \in 1..(now + 1)
      BY <1>1
    <3>2. QED
      BY <3>1 DEF FilesAt
  <2>4. disk' \in [Paths -> FilesAt(now')]
    BY <1>1, <2>1, <2>2, <2>3
  <2>5. now' \in 1..MaxTime
    BY <1>1, <2>1, WorldAssumption
  <2>6. QED
    BY <1>1, <2>1, <2>4, <2>5 DEF WorldInv
<1>3. ASSUME NEW path \in Paths, UserErases(path)
      PROVE  WorldInv'
  <2>1. disk' = [disk EXCEPT ![path] = {}] /\ UNCHANGED <<db, now>>
    BY <1>3 DEF UserErases, Erase
  <2>2. {} \in FilesAt(now)
    BY DEF FilesAt
  <2>3. disk' \in [Paths -> FilesAt(now')]
    BY <1>1, <2>1, <2>2
  <2>4. QED
    BY <2>1, <2>3 DEF Inv, WorldInv
<1>4. CASE CommitFull \/ CommitRest
  <2>1. PICK rs : Records(db, db', rs)
    BY <1>4, Commits DEF Inv
  <2>2. Typed(db') /\ Consistent(db')
    BY <2>1 DEF Records
  <2>3. UNCHANGED <<disk, now>>
    BY <1>4, Commits DEF Inv
  <2>4. QED
    BY <2>2, <2>3 DEF Inv, WorldInv
<1>5. CASE FinishScan
  <2>1. /\ db' = db \/ db' = MarkMissingNotSeen(db, opts.scope, seen)
        /\ UNCHANGED <<disk, now>>
    BY <1>5 DEF FinishScan, ScanFinish
  <2>2. Typed(db') /\ Consistent(db')
    BY <1>1, <2>1, MarkMissingNotSeenGood
  <2>3. QED
    BY <2>1, <2>2 DEF Inv, WorldInv
<1>6. CASE \/ \E flt \in Filters, policy \in Preserves : StartDelete(flt, policy)
           \/ StepDelete
           \/ BreakDelete
  BY <1>6, DeleteActs, DeleteKeepsWorld DEF Inv
<1>7. CASE UNCHANGED <<db, disk, now>>
  BY <1>7 DEF Inv, WorldInv
<1>8. QED
  <2>1. ASSUME ScanStep
        PROVE  UNCHANGED <<db, disk, now>> \/ CommitFull \/ CommitRest
    BY <2>1 DEF ScanStep, ListFile, StatFile, HashJob, DropJob, worldVars
  <2>2. ASSUME ScanFault \/ (\E l \in todo : ScanOverlooks(l))
               \/ (\E o \in ScanOptions : StartScan(o))
        PROVE  UNCHANGED <<db, disk, now>>
    BY <2>2 DEF ScanFault, FailJob, ScanCrash, ScanOverlooks, OverlookFile, StartScan, ScanStart,
                worldVars
  <2>3. QED
    BY <1>2, <1>3, <1>4, <1>5, <1>6, <1>7, <2>1, <2>2 DEF Next

(* Metadata observed stays sound whatever happens to the file. *)
LEMMA SoundStays ==
  ASSUME WorldInv, DeleteInv, Next, NEW path \in Paths, NEW meta,
         meta.mtime_secs \in Nat, SoundAt(path, meta)
  PROVE  SoundAt(path, meta)'
<1>1. /\ now \in Nat /\ now' \in Nat /\ now <= now'
      /\ \A f \in disk'[path] : f \in disk[path] \/ f.mtime_secs > now
  BY DiskChanges DEF WorldInv
<1>2. meta.mtime_secs <= now /\ \A f \in disk[path] : f.mtime_secs = meta.mtime_secs => f = meta
  BY DEF SoundAt
<1>3. meta.mtime_secs <= now'
  BY <1>1, <1>2
<1>4. ASSUME NEW f \in disk'[path], f.mtime_secs = meta.mtime_secs
      PROVE  f = meta
  BY <1>1, <1>2, <1>4
<1>5. QED
  BY <1>3, <1>4 DEF SoundAt

(* What a worker makes of a job is a result, and sound. *)
LEMMA HashedIsSound ==
  ASSUME Inv, NEW job \in jobs, NEW file \in disk[job.path], NEW hash \in HashesReadOf(job, file)
  PROVE  /\ ResultOf(job, hash) \in ResultSet
         /\ SoundAt(job.path, ResultOf(job, hash).meta)
<1> DEFINE meta == [size |-> job.size, mtime_secs |-> job.mtime, hash256 |-> hash]
<1>1. /\ job.path \in Paths /\ job.mtime \in 0..now
      /\ \A f \in disk[job.path] : f.mtime_secs = job.mtime => f.size = job.size
  BY DEF Inv, ScanInv, SoundInv
<1>2. now \in 1..MaxTime /\ disk[job.path] \in FilesAt(now)
  BY <1>1 DEF Inv, WorldInv
<1>3. PICK h \in Hashes, t \in 0..now : disk[job.path] = {File(h, t)}
  BY <1>2 DEF FilesAt
<1>4. file = File(h, t)
  BY <1>3
<1>5. hash \in Hashes
  BY <1>4 DEF HashesReadOf, File
<1>6. meta \in Metas
  <2>1. PICK g \in Hashes : job.size = SizeOf[g]
    BY DEF Inv, SoundInv
  <2>2. job.mtime \in 0..MaxTime
    <3>1. MaxTime \in Nat
      BY WorldAssumption
    <3>2. QED
      BY <1>1, <1>2, <3>1
  <2>3. meta = [File(g, job.mtime) EXCEPT !.hash256 = hash]
    BY <2>1 DEF File
  <2>4. QED
    BY <1>5, <2>2, <2>3, WorldAssumption
<1>7. ASSUME NEW f \in disk[job.path], f.mtime_secs = job.mtime
      PROVE  f = meta
  <2>1. f = File(h, t) /\ f = file /\ f.size = job.size
    BY <1>1, <1>3, <1>4, <1>7
  <2>2. hash = f.hash256
    BY <1>7, <2>1 DEF HashesReadOf
  <2>3. QED
    BY <1>7, <2>1, <2>2 DEF File
<1>8. job.mtime <= now
  BY <1>1, <1>2
<1>9. SoundAt(job.path, meta)
  BY <1>7, <1>8 DEF SoundAt
<1>10. QED
  BY <1>1, <1>6, <1>9 DEF ResultOf, ResultSet

(* A scan holds each listing in one place, and results of seen paths.      *)
LEMMA ScanKept ==
  ASSUME Inv, Next
  PROVE  ScanInv'
<1>1. CASE UNCHANGED scanVars /\ (deleting' => deleting \/ ~scanning)
  BY <1>1 DEF Inv, ScanInv, scanVars
<1>2. CASE ScanEnds /\ scanning /\ UNCHANGED deleting
  <2>1. /\ scanning' = FALSE /\ opts' = NoOptions /\ todo' = {} /\ listed' = {}
        /\ seen' = {} /\ jobs' = {} /\ results' = <<>>
    BY <1>2 DEF ScanEnds
  <2>2. Range(results') = {} /\ results' \in Seq(ResultSet)
    BY <2>1, EmptyQueue
  <2>3. QED
    BY <2>1, <2>2 DEF ScanInv, NoOptions
<1>3. ASSUME NEW o \in ScanOptions, StartScan(o)
      PROVE  ScanInv'
  <2>1. /\ ~deleting /\ ~scanning /\ scanning' = TRUE /\ opts' = o
        /\ todo' = o.walked \X (1..o.times)
        /\ UNCHANGED <<listed, seen, jobs, results, deleting>>
    BY <1>3 DEF StartScan, ScanStart, deleteVars
  <2>2. o.walked \subseteq o.scope /\ o.scope \subseteq Paths
    BY ScanAssumption
  <2>3. listed = {} /\ jobs = {} /\ results = <<>>
    BY <2>1 DEF Inv, ScanInv
  <2>4. Range(results') = {} /\ results' \in Seq(ResultSet)
    BY <2>1, <2>3, EmptyQueue
  <2>5. QED
    BY <2>1, <2>2, <2>3, <2>4 DEF ScanInv
<1>4. ASSUME NEW l \in todo, ListFile(l) \/ OverlookFile(l), UNCHANGED deleting
      PROVE  ScanInv'
  <2>1. /\ todo' = todo \ {l}
        /\ listed' \subseteq listed \cup {l}
        /\ UNCHANGED <<scanning, opts, seen, jobs, results>>
    BY <1>4 DEF ListFile, OverlookFile
  <2>2. /\ todo' \cup listed' \subseteq todo \cup listed
        /\ todo' \cap listed' = {}
    BY <2>1 DEF Inv, ScanInv
  <2>3. scanning
    BY DEF Inv, ScanInv
  <2>4. QED
    BY <1>4, <2>1, <2>2, <2>3 DEF Inv, ScanInv
<1>5. ASSUME NEW l \in listed, StatFile(l), UNCHANGED deleting
      PROVE  ScanInv'
  <2>1. /\ listed' = listed \ {l}
        /\ seen' = seen \cup {l[1]}
        /\ jobs' = jobs \cup
             { [path |-> l[1], time |-> l[2], size |-> f.size, mtime |-> f.mtime_secs] :
                 f \in Candidates(l[1]) }
        /\ UNCHANGED <<scanning, opts, todo, results>>
    BY <1>5 DEF StatFile, SeenWith
  <2>2. scanning /\ l[1] \in Paths /\ l = <<l[1], l[2]>> /\ l \notin todo
    BY DEF Inv, ScanInv
  <2>3. ASSUME NEW j \in jobs'
        PROVE  j.path \in Paths \cap seen' /\ <<j.path, j.time>> \notin todo' \cup listed'
    <3>1. CASE j \in jobs
      BY <2>1, <3>1 DEF Inv, ScanInv
    <3>2. CASE j \notin jobs
      <4>1. j.path = l[1] /\ j.time = l[2]
        BY <2>1, <3>2
      <4>2. QED
        BY <2>1, <2>2, <4>1
    <3>3. QED
      BY <3>1, <3>2
  <2>4. QED
    BY <1>5, <2>1, <2>2, <2>3 DEF Inv, ScanInv
<1>6. ASSUME NEW job \in jobs, HashJob(job), UNCHANGED deleting
      PROVE  ScanInv'
  <2>0. PICK file \in disk[job.path] : \E hash \in HashesReadOf(job, file) :
          /\ results' = Append(results, ResultOf(job, hash))
          /\ jobs' = jobs \ {job}
          /\ UNCHANGED <<scanning, opts, todo, listed, seen>>
    BY <1>6 DEF HashJob
  <2>1. PICK hash \in HashesReadOf(job, file) :
          /\ results' = Append(results, ResultOf(job, hash))
          /\ jobs' = jobs \ {job}
          /\ UNCHANGED <<scanning, opts, todo, listed, seen>>
    BY <2>0
  <2>2. ResultOf(job, hash) \in ResultSet
    BY HashedIsSound
  <2>3. ResultOf(job, hash).path \in seen /\ scanning
    BY DEF ResultOf, Inv, ScanInv
  <2>4. results' \in Seq(ResultSet) /\ Range(results') = Range(results) \cup {ResultOf(job, hash)}
    BY <2>1, <2>2, AppendQueue DEF Inv, ScanInv
  <2>5. QED
    BY <1>6, <2>1, <2>3, <2>4 DEF Inv, ScanInv
<1>7. ASSUME NEW job \in jobs, DropJob(job) \/ FailJob(job), UNCHANGED deleting
      PROVE  ScanInv'
  <2>1. jobs' = jobs \ {job} /\ UNCHANGED <<scanning, opts, todo, listed, seen, results>>
    BY <1>7 DEF DropJob, FailJob
  <2>2. QED
    BY <1>7, <2>1 DEF Inv, ScanInv
<1>8. ASSUME CommitFull \/ CommitRest, UNCHANGED deleting
      PROVE  ScanInv'
  <2>1. PICK rs : Range(results) = rs \cup Range(results')
    BY <1>8, Commits DEF Inv
  <2>2. /\ results' \in Seq(ResultSet) /\ scanning
        /\ UNCHANGED <<scanning, opts, todo, listed, seen, jobs>>
    BY <1>8, Commits DEF Inv
  <2>3. QED
    BY <1>8, <2>1, <2>2 DEF Inv, ScanInv
<1>9. QED
  <2>1. ASSUME \/ \E path \in Paths, hash \in Hashes : UserWrites(path, hash)
               \/ \E path \in Paths : UserErases(path)
        PROVE  UNCHANGED scanVars /\ UNCHANGED deleting
    BY <2>1 DEF UserWrites, UserErases, UserActs
  <2>2. ASSUME NEW l \in todo, ScanOverlooks(l)
        PROVE  OverlookFile(l) /\ UNCHANGED deleting
    BY <2>2 DEF ScanOverlooks, deleteVars
  <2>3. ASSUME ScanStep
        PROVE  /\ UNCHANGED deleting
               /\ \/ \E l \in todo : ListFile(l)
                  \/ \E l \in listed : StatFile(l)
                  \/ \E job \in jobs : HashJob(job) \/ DropJob(job)
                  \/ CommitFull \/ CommitRest
    BY <2>3 DEF ScanStep, deleteVars
  <2>4. ASSUME ScanFault
        PROVE  /\ UNCHANGED deleting
               /\ \/ \E job \in jobs : FailJob(job)
                  \/ ScanEnds /\ scanning
    BY <2>4 DEF ScanFault, ScanCrash, deleteVars
  <2>5. ASSUME FinishScan
        PROVE  ScanEnds /\ scanning /\ UNCHANGED deleting
    BY <2>5 DEF FinishScan, ScanFinish, deleteVars
  <2>6. ASSUME \/ \E flt \in Filters, policy \in Preserves : StartDelete(flt, policy)
               \/ StepDelete
               \/ BreakDelete
        PROVE  UNCHANGED scanVars /\ (deleting' => deleting \/ ~scanning)
    BY <2>6, DeleteActs
  <2>7. QED
    BY <1>1, <1>2, <1>3, <1>4, <1>5, <1>6, <1>7, <1>8, <2>1, <2>2, <2>3, <2>4, <2>5, <2>6 DEF Next

(* A step takes results from the queue or adds the result of one job, and  *)
(* takes jobs or makes one for a file that is there.                       *)
LEMMA ResultsCome ==
  ASSUME Inv, Next
  PROVE  /\ \/ Range(results') \subseteq Range(results)
            \/ \E job \in jobs : HashJob(job)
         /\ \/ jobs' \subseteq jobs
            \/ \E l \in listed : StatFile(l)
<1>1. CASE UNCHANGED <<results, jobs>>
  BY <1>1
<1>2. CASE ScanEnds
  <2>1. results' = <<>> /\ jobs' = {}
    BY <1>2 DEF ScanEnds
  <2>2. QED
    BY <2>1, EmptyQueue
<1>3. ASSUME CommitFull \/ CommitRest
      PROVE  Range(results') \subseteq Range(results) /\ jobs' = jobs
  <2>1. PICK rs : Range(results) = rs \cup Range(results')
    BY <1>3, Commits DEF Inv
  <2>2. jobs' = jobs
    BY <1>3, Commits DEF Inv
  <2>3. QED
    BY <2>1, <2>2
<1>4. ASSUME ScanStep
      PROVE  \/ UNCHANGED <<results, jobs>>
             \/ CommitFull \/ CommitRest
             \/ (\E job \in jobs : HashJob(job)) /\ jobs' \subseteq jobs
             \/ (\E job \in jobs : DropJob(job)) /\ jobs' \subseteq jobs /\ UNCHANGED results
             \/ (\E l \in listed : StatFile(l)) /\ UNCHANGED results
  BY <1>4 DEF ScanStep, ListFile, StatFile, HashJob, DropJob
<1>5. ASSUME ScanFault
      PROVE  ScanEnds \/ (jobs' \subseteq jobs /\ UNCHANGED results)
  BY <1>5 DEF ScanFault, FailJob, ScanCrash
<1>6. ASSUME FinishScan
      PROVE  ScanEnds
  BY <1>6 DEF FinishScan, ScanFinish
<1>7. ASSUME \/ \E flt \in Filters, policy \in Preserves : StartDelete(flt, policy)
             \/ StepDelete
             \/ BreakDelete
      PROVE  UNCHANGED <<results, jobs>>
  BY <1>7, DeleteActs DEF scanVars
<1>8. ASSUME \/ \E path \in Paths, hash \in Hashes : UserWrites(path, hash)
             \/ \E path \in Paths : UserErases(path)
             \/ \E l \in todo : ScanOverlooks(l)
             \/ \E o \in ScanOptions : StartScan(o)
      PROVE  UNCHANGED <<results, jobs>>
  BY <1>8 DEF UserWrites, UserErases, UserActs, ScanOverlooks, OverlookFile, StartScan, ScanStart,
              scanVars
<1>9. QED
  BY <1>1, <1>2, <1>3, <1>4, <1>5, <1>6, <1>7, <1>8 DEF Next

(* What is recorded, on its way to be, or to be hashed stays sound.        *)
LEMMA SoundKept ==
  ASSUME Inv, Next
  PROVE  SoundInv'
<1>1. WorldInv /\ DeleteInv /\ WorldInv'
  BY WorldKept DEF Inv
<1>2. ASSUME NEW fid \in DOMAIN db'.file_state
      PROVE  SoundAt(PathOf(db, fid), db.file_meta[fid])'
  <2>1. PICK path \in Paths, meta \in Metas :
          path = PathOf(db', fid) /\ meta = db'.file_meta[fid]
    BY <1>1, LiveVersions DEF WorldInv
  <2>2. SoundAt(path, meta)
    <3>1. CASE fid \in DOMAIN db.file_state /\ VersionOf(db', fid) = VersionOf(db, fid)
      <4>1. path = PathOf(db, fid) /\ meta = db.file_meta[fid]
        BY <2>1, <3>1 DEF VersionOf
      <4>2. QED
        BY <3>1, <4>1 DEF Inv, SoundInv
    <3>2. CASE VersionOf(db', fid) \in Range(results)
      <4>1. VersionOf(db', fid).path = path /\ VersionOf(db', fid).meta = meta
        BY <2>1 DEF VersionOf
      <4>2. QED
        BY <3>2, <4>1 DEF Inv, SoundInv
    <3>3. QED
      BY <3>1, <3>2, VersionsCome
  <2>3. meta.mtime_secs \in Nat
    BY MetasAssumption
  <2>4. SoundAt(path, meta)'
    BY <1>1, <2>2, <2>3, SoundStays
  <2>5. QED
    BY <2>1, <2>4
<1>3. ASSUME NEW r \in Range(results')
      PROVE  SoundAt(r.path, r.meta)'
  <2>1. r.path \in Paths /\ r.meta \in Metas
    <3>1. results' \in Seq(ResultSet)
      BY ScanKept DEF ScanInv
    <3>2. r \in ResultSet
      BY <3>1, LenProperties DEF Range
    <3>3. QED
      BY <3>2 DEF ResultSet
  <2>2. SoundAt(r.path, r.meta)
    <3>1. CASE r \in Range(results)
      BY <3>1 DEF Inv, SoundInv
    <3>2. ASSUME NEW job \in jobs, HashJob(job)
          PROVE  SoundAt(r.path, r.meta)
      <4>0. PICK file \in disk[job.path] : \E hash \in HashesReadOf(job, file) :
              results' = Append(results, ResultOf(job, hash))
        BY <3>2 DEF HashJob
      <4>1. PICK hash \in HashesReadOf(job, file) :
              results' = Append(results, ResultOf(job, hash))
        BY <4>0
      <4>2. ResultOf(job, hash) \in ResultSet /\ SoundAt(job.path, ResultOf(job, hash).meta)
        BY HashedIsSound
      <4>3. r \in Range(results) \/ r = ResultOf(job, hash)
        BY <4>1, <4>2, AppendQueue DEF Inv, ScanInv
      <4>4. QED
        BY <3>1, <4>2, <4>3 DEF ResultOf
    <3>3. QED
      BY <3>1, <3>2, ResultsCome
  <2>3. QED
    BY <1>1, <2>1, <2>2, SoundStays, MetasAssumption
<1>4. ASSUME NEW j \in jobs'
      PROVE  /\ j.mtime \in 0..now'
             /\ \E g \in Hashes : j.size = SizeOf[g]
             /\ \A f \in disk'[j.path] : f.mtime_secs = j.mtime => f.size = j.size
  <2>1. j.path \in Paths
    BY ScanKept DEF ScanInv
  <2>2. /\ j.mtime \in 0..now
        /\ \E g \in Hashes : j.size = SizeOf[g]
        /\ \A f \in disk[j.path] : f.mtime_secs = j.mtime => f.size = j.size
    <3>1. CASE j \in jobs
      BY <3>1 DEF Inv, SoundInv
    <3>2. ASSUME NEW l \in listed, StatFile(l), j \notin jobs
          PROVE  /\ j.mtime \in 0..now
                 /\ \E g \in Hashes : j.size = SizeOf[g]
                 /\ \A f \in disk[j.path] : f.mtime_secs = j.mtime => f.size = j.size
      <4>1. PICK f \in Candidates(l[1]) :
              j = [path |-> l[1], time |-> l[2], size |-> f.size, mtime |-> f.mtime_secs]
        BY <3>2 DEF StatFile
      <4>2. f \in disk[j.path] /\ j.size = f.size /\ j.mtime = f.mtime_secs
        BY <4>1 DEF Candidates
      <4>3. disk[j.path] \in FilesAt(now)
        BY <1>1, <2>1 DEF WorldInv
      <4>4. PICK h \in Hashes, t \in 0..now : disk[j.path] = {File(h, t)}
        BY <4>2, <4>3 DEF FilesAt
      <4>5. f.size = SizeOf[h] /\ f.mtime_secs = t
        BY <4>2, <4>4 DEF File
      <4>6. QED
        BY <4>2, <4>4, <4>5
    <3>3. QED
      BY <3>1, <3>2, ResultsCome
  <2>3. now \in Nat /\ now' \in Nat /\ now <= now'
    BY <1>1, DiskChanges DEF WorldInv
  <2>4. \A f \in disk'[j.path] : f \in disk[j.path] \/ f.mtime_secs > now
    BY <1>1, <2>1, DiskChanges
  <2>5. QED
    BY <2>2, <2>3, <2>4
<1>5. QED
  BY <1>2, <1>3, <1>4 DEF SoundInv

(* Whatever else happens leaves a delete run where it is: the user only    *)
(* takes trust in the disk away, and a scan never runs beside it.          *)
LEMMA OthersLeaveRun ==
  ASSUME Inv, Next
  PROVE  \/ \E flt \in Filters, policy \in Preserves : StartDelete(flt, policy)
         \/ StepDelete
         \/ BreakDelete
         \/ /\ trusted' \in BOOLEAN
            /\ UNCHANGED <<deleting, filter, preserve, groups, plan, removed, before>>
            /\ UNCHANGED db \/ ~deleting
            /\ ~deleting \/ (UNCHANGED db /\ ~trusted') \/ UNCHANGED <<db, disk, trusted, before>>
<1>1. trusted \in BOOLEAN /\ ~(scanning /\ deleting)
  BY DEF Inv, DeleteInv, ScanInv
<1>2. ASSUME \/ \E path \in Paths, hash \in Hashes : UserWrites(path, hash)
             \/ \E path \in Paths : UserErases(path)
      PROVE  /\ trusted' = FALSE /\ UNCHANGED db
             /\ UNCHANGED <<deleting, filter, preserve, groups, plan, removed, before>>
  BY <1>2 DEF UserWrites, UserErases, UserActs, Write, Erase
<1>3. ASSUME \/ \E l \in todo : ScanOverlooks(l)
             \/ \E o \in ScanOptions : StartScan(o)
             \/ ScanStep \/ ScanFault \/ FinishScan
      PROVE  UNCHANGED deleteVars
  BY <1>3 DEF ScanOverlooks, StartScan, ScanStep, ScanFault, FinishScan
<1>4. ASSUME \/ \E l \in todo : ScanOverlooks(l)
             \/ \E o \in ScanOptions : StartScan(o)
             \/ ScanStep \/ ScanFault \/ FinishScan
      PROVE  ~deleting
  <2>1. CASE \E o \in ScanOptions : StartScan(o)
    BY <2>1 DEF StartScan
  <2>2. CASE ScanFault \/ FinishScan \/ (\E l \in todo : ScanOverlooks(l))
    BY <1>1, <2>2 DEF ScanFault, FailJob, ScanCrash, FinishScan, ScanFinish, Inv, ScanInv
  <2>3. CASE ScanStep
    <3>1. CASE CommitFull \/ CommitRest
      BY <1>1, <3>1, Commits DEF Inv
    <3>2. CASE ~(CommitFull \/ CommitRest)
      BY <1>1, <2>3, <3>2 DEF ScanStep, Inv, ScanInv
    <3>3. QED
      BY <3>1, <3>2
  <2>4. QED
    BY <1>4, <2>1, <2>2, <2>3
<1>5. QED
  BY <1>1, <1>2, <1>3, <1>4 DEF Next, deleteVars, deleteHistory

(* So the invariant is one. *)
LEMMA InvKept ==
  ASSUME Inv, Next
  PROVE  Inv'
<1>1. DeleteInv'
  <2>1. CASE \/ \E flt \in Filters, policy \in Preserves : StartDelete(flt, policy)
             \/ StepDelete
             \/ BreakDelete
    BY <2>1, DeleteActs, DeleteTyped DEF Inv
  <2>2. CASE /\ trusted' \in BOOLEAN
             /\ UNCHANGED <<deleting, filter, preserve, groups, plan, removed, before>>
             /\ UNCHANGED db \/ ~deleting
    BY <2>2, OthersKeepTypes DEF Inv
  <2>3. QED
    BY <2>1, <2>2, OthersLeaveRun DEF Inv
<1>2. QED
  BY <1>1, WorldKept, ScanKept, SoundKept DEF Inv

(* The last copies and the second run are not disturbed either. *)
LEMMA CopyInvKept ==
  ASSUME Inv, CopyInv, Next
  PROVE  CopyInv'
<1>1. CASE \/ \E flt \in Filters, policy \in Preserves : StartDelete(flt, policy)
           \/ StepDelete
           \/ BreakDelete
  BY <1>1, DeleteActs, CopiesKept DEF Inv
<1>2. CASE /\ UNCHANGED <<deleting, plan, removed>>
           /\ ~deleting \/ (UNCHANGED db /\ ~trusted') \/ UNCHANGED <<db, disk, trusted, before>>
  BY <1>2, OthersKeepCopies DEF Inv
<1>3. QED
  BY <1>1, <1>2, OthersLeaveRun

(* Whatever else acts during a delete run, or between two, each content is *)
(* waiting or dealt with, as before.                                       *)
LEMMA RerunInvKept ==
  ASSUME Inv, RerunInv, Next
  PROVE  RerunInv'
<1>1. CASE \/ \E flt \in Filters, policy \in Preserves : StartDelete(flt, policy)
           \/ StepDelete
           \/ BreakDelete
  BY <1>1, DeleteActs, RerunKept DEF Inv
<1>2. CASE /\ UNCHANGED <<deleting, filter, groups, plan, removed>>
           /\ UNCHANGED db \/ ~deleting
  BY <1>2, OthersKeepRerun DEF Inv
<1>3. QED
  BY <1>1, <1>2, OthersLeaveRun

(* And the rules are followed as long as the disk is trusted.              *)
LEMMA RulesInvKept ==
  ASSUME Inv, RulesInv, Next
  PROVE  RulesInv'
<1>1. CASE \/ \E flt \in Filters, policy \in Preserves : StartDelete(flt, policy)
           \/ StepDelete
           \/ BreakDelete
  BY <1>1, DeleteActs, RulesFollowed DEF Inv
<1>2. CASE /\ UNCHANGED <<deleting, filter, preserve, groups, plan, removed, before>>
           /\ ~deleting \/ (UNCHANGED db /\ ~trusted') \/ UNCHANGED <<db, disk, trusted, before>>
  BY <1>2, OthersKeepRules
<1>3. QED
  BY <1>1, <1>2, OthersLeaveRun

-----------------------------------------------------------------------------
(* What scans have settled *)

(* While a delete run acts no scan runs. *)
LEMMA DeleteAlone ==
  ASSUME Inv,
         \/ \E flt \in Filters, policy \in Preserves : StartDelete(flt, policy)
         \/ StepDelete
         \/ BreakDelete
  PROVE  ~scanning /\ UNCHANGED <<scanVars, quiet, missed>>
<1>1. CASE \E flt \in Filters, policy \in Preserves : StartDelete(flt, policy)
  BY <1>1 DEF StartDelete, lifecycleHistory
<1>2. CASE StepDelete \/ BreakDelete
  <2>1. UNCHANGED <<scanVars, quiet, missed>>
    BY <1>2 DEF StepDelete, BreakDelete, lifecycleHistory
  <2>2. \/ plan # <<>> \/ removed # {} \/ groups # <<>> \/ deleting
    BY <1>2 DEF StepDelete, BreakDelete, DeleteStep, PlanGroup, RemoveFile, RecordGroup,
                DeleteFinish, RemoveFails, DeleteCrash
  <2>3. deleting
    BY <2>2 DEF Inv, DeleteInv
  <2>4. QED
    BY <2>1, <2>3 DEF Inv, ScanInv
<1>3. QED
  BY <1>1, <1>2

(* A walked path is still to come, seen, or was absent at some moment.     *)
LEMMA MissedKept ==
  ASSUME Inv, MissedInv, Next
  PROVE  MissedInv'
<1>0. /\ disk \in [Paths -> FilesAt(now)]
      /\ todo \cup listed \subseteq opts.walked \X (1..opts.times)
      /\ opts.walked \subseteq Paths
  BY DEF Inv, WorldInv, ScanInv
<1>1. CASE UNCHANGED <<opts, todo, listed, seen, missed, disk, scanning>>
  BY <1>1 DEF MissedInv, Pending, IsOnDisk
<1>2. ASSUME NEW path \in Paths, NEW hash \in Hashes, UserWrites(path, hash)
      PROVE  MissedInv'
  <2>1. UNCHANGED <<opts, todo, listed, seen, missed, scanning>>
    BY <1>2 DEF UserWrites, UserActs, scanVars
  <2>2. \A p \in Paths : disk[p] # {} => disk'[p] # {}
    BY <1>0, <1>2 DEF UserWrites, Write
  <2>3. QED
    BY <2>1, <2>2 DEF MissedInv, Pending, IsOnDisk
<1>3. ASSUME NEW path \in Paths, UserErases(path)
      PROVE  MissedInv'
  <2>1. UNCHANGED <<opts, todo, listed, seen, scanning>> /\ missed' = missed \cup {path}
    BY <1>3 DEF UserErases, UserActs, scanVars
  <2>2. \A p \in Paths : p # path => disk'[p] = disk[p]
    BY <1>0, <1>3 DEF UserErases, Erase
  <2>3. QED
    BY <2>1, <2>2 DEF MissedInv, Pending, IsOnDisk
<1>4. ASSUME NEW o \in ScanOptions, StartScan(o)
      PROVE  MissedInv'
  <2>1. /\ opts' = o /\ todo' = o.walked \X (1..o.times) /\ UNCHANGED disk
        /\ missed' = { p \in Paths : ~IsOnDisk(p) }
    BY <1>4 DEF StartScan, ScanStart, worldVars
  <2>2. 1 \in 1..o.times
    BY ScanAssumption
  <2>3. ASSUME NEW p \in o.walked
        PROVE  Pending(p)'
    <3>1. <<p, 1>> \in todo' /\ <<p, 1>>[1] = p
      BY <2>1, <2>2
    <3>2. QED
      BY <3>1 DEF Pending
  <2>4. QED
    BY <2>1, <2>3 DEF MissedInv, IsOnDisk
<1>5. ASSUME NEW l \in todo, (ListFile(l) /\ UNCHANGED missed) \/ ScanOverlooks(l)
      PROVE  MissedInv'
  <2>1. /\ todo' = todo \ {l} /\ listed \subseteq listed'
        /\ missed \subseteq missed'
        /\ UNCHANGED <<opts, seen, disk, scanning>>
    BY <1>5 DEF ListFile, ScanOverlooks, OverlookFile, worldVars
  <2>2. l \in listed' \/ ~IsOnDisk(l[1]) \/ l[1] \in missed'
    BY <1>5 DEF ListFile, ScanOverlooks, OverlookFile
  <2>3. l[1] \in Paths
    BY <1>0
  <2>4. ASSUME NEW p \in opts.walked, scanning, Pending(p)
        PROVE  Pending(p)' \/ p \in missed'
    <3>1. PICK k \in todo \cup listed : k[1] = p
      BY <2>4 DEF Pending
    <3>2. CASE k = l
      BY <2>1, <2>2, <2>3, <2>4, <3>1, <3>2 DEF Pending, MissedInv
    <3>3. CASE k # l
      BY <2>1, <3>1, <3>3 DEF Pending
    <3>4. QED
      BY <3>2, <3>3
  <2>5. QED
    BY <2>1, <2>4 DEF MissedInv, IsOnDisk
<1>6. ASSUME NEW l \in listed, StatFile(l), UNCHANGED missed
      PROVE  MissedInv'
  <2>1. /\ listed' = listed \ {l} /\ seen' = seen \cup {l[1]}
        /\ UNCHANGED <<opts, todo, disk, scanning, missed>>
    BY <1>6 DEF StatFile, SeenWith, worldVars
  <2>2. ASSUME NEW p, Pending(p)
        PROVE  Pending(p)' \/ p \in seen'
    BY <2>1, <2>2 DEF Pending
  <2>3. QED
    BY <2>1, <2>2 DEF MissedInv, IsOnDisk
<1>7. CASE ~scanning'
  BY <1>7 DEF MissedInv
<1>8. QED
  <2>1. ASSUME ScanStep
        PROVE  /\ UNCHANGED missed
               /\ \/ \E l \in todo : ListFile(l)
                  \/ \E l \in listed : StatFile(l)
                  \/ UNCHANGED <<opts, todo, listed, seen, missed, disk, scanning>>
    BY <2>1 DEF ScanStep, HashJob, DropJob, CommitFull, CommitRest, worldVars, lifecycleHistory
  <2>2. ASSUME ScanFault \/ FinishScan
        PROVE  ~scanning' \/ UNCHANGED <<opts, todo, listed, seen, missed, disk, scanning>>
    BY <2>2 DEF ScanFault, FailJob, ScanCrash, FinishScan, ScanFinish, ScanEnds
  <2>3. ASSUME \/ \E flt \in Filters, policy \in Preserves : StartDelete(flt, policy)
               \/ StepDelete
               \/ BreakDelete
        PROVE  ~scanning'
    BY <2>3, DeleteAlone DEF scanVars
  <2>4. QED
    BY <1>1, <1>2, <1>3, <1>4, <1>5, <1>6, <1>7, <2>1, <2>2, <2>3 DEF Next

(* What is on disk is one file. *)
LEMMA OneFile ==
  ASSUME WorldInv, NEW p \in Paths, NEW f \in disk[p]
  PROVE  disk[p] = {f} /\ f \in Metas
<1>1. disk[p] \in FilesAt(now)
  BY DEF WorldInv
<1>2. PICK h \in Hashes, t \in 0..now : disk[p] = {File(h, t)}
  BY <1>1 DEF FilesAt
<1>3. f = File(h, t)
  BY <1>2
<1>4. t \in 0..MaxTime
  <2>1. MaxTime \in Nat /\ now \in 1..MaxTime
    BY WorldAssumption DEF WorldInv
  <2>2. QED
    BY <1>2, <2>1
<1>5. [File(h, t) EXCEPT !.hash256 = h] = File(h, t)
  BY DEF File
<1>6. f \in Metas
  BY <1>3, <1>4, <1>5, WorldAssumption
<1>7. QED
  BY <1>2, <1>3, <1>6

(* The preflight passes over a file only if its current record is right.   *)
LEMMA PreflightIsRight ==
  ASSUME Inv, NEW p \in Paths, NEW f \in disk[p],
         CurrentSizeMtimeIs(db, p, f.size, f.mtime_secs)
  PROVE  CurrentMetas(db, p) = {f}
<1>1. PICK fid \in GetCurrentByPath(db, p) : db.file_meta[fid].mtime_secs = f.mtime_secs
  BY DEF CurrentSizeMtimeIs
<1>2. /\ fid \in DOMAIN db.file_state
      /\ PathOf(db, fid) = p
      /\ \A g \in GetCurrentByPath(db, p) : g = fid
  BY CurrentIff DEF Inv, WorldInv
<1>3. SoundAt(p, db.file_meta[fid])
  BY <1>2 DEF Inv, SoundInv
<1>4. f = db.file_meta[fid]
  BY <1>1, <1>3 DEF SoundAt
<1>5. QED
  BY <1>2, <1>4 DEF CurrentMetas

(* A scan that nobody disturbs settles every path that it walks.           *)
LEMMA QuietKept ==
  ASSUME Inv, QuietInv, Next
  PROVE  QuietInv'
<1>0. /\ WorldInv
      /\ todo \cup listed \subseteq opts.walked \X (1..opts.times)
      /\ opts.walked \subseteq Paths
      /\ \A j \in jobs : j.path \in Paths
  BY DEF Inv, ScanInv
<1>1. CASE ~quiet'
  BY <1>1 DEF QuietInv
<1>2. ASSUME NEW o \in ScanOptions, StartScan(o)
      PROVE  QuietInv'
  <2>1. /\ ~scanning /\ scanning' = TRUE
        /\ opts' = o /\ todo' = o.walked \X (1..o.times)
        /\ UNCHANGED <<listed, seen, jobs, results>>
    BY <1>2 DEF StartScan, ScanStart
  <2>2. listed = {} /\ seen = {} /\ jobs = {} /\ Range(results) = {}
    BY <2>1, EmptyQueue DEF Inv, ScanInv
  <2>3. 1 \in 1..o.times
    BY ScanAssumption
  <2>4. ASSUME NEW p \in o.walked
        PROVE  Pending(p)'
    <3>1. <<p, 1>> \in todo' /\ <<p, 1>>[1] = p
      BY <2>1, <2>3
    <3>2. QED
      BY <3>1 DEF Pending
  <2>5. QED
    BY <2>1, <2>2, <2>4 DEF QuietInv
<1>3. ASSUME NEW l \in todo, ListFile(l), quiet, UNCHANGED quiet
      PROVE  QuietInv'
  <2>1. /\ todo' = todo \ {l}
        /\ listed' = IF IsOnDisk(l[1]) THEN listed \cup {l} ELSE listed
        /\ UNCHANGED <<scanning, opts, seen, jobs, results, disk, db>>
    BY <1>3 DEF ListFile, worldVars
  <2>2. ASSUME NEW p \in opts.walked, Pending(p), ~Pending(p)'
        PROVE  disk[p] = {}
    BY <2>1, <2>2 DEF Pending, IsOnDisk
  <2>3. \A k \in listed' : IsOnDisk(k[1])
    BY <1>3, <2>1 DEF QuietInv
  <2>4. \A p \in opts.walked : OnItsWay(p)' <=> OnItsWay(p)
    BY <2>1 DEF OnItsWay
  <2>5. QED
    BY <1>3, <2>1, <2>2, <2>3, <2>4 DEF QuietInv, IsOnDisk
<1>4. ASSUME NEW l \in listed, StatFile(l), quiet, UNCHANGED quiet
      PROVE  QuietInv'
  <2>1. /\ listed' = listed \ {l} /\ seen' = seen \cup {l[1]}
        /\ jobs' = jobs \cup
             { [path |-> l[1], time |-> l[2], size |-> f.size, mtime |-> f.mtime_secs] :
                 f \in Candidates(l[1]) }
        /\ UNCHANGED <<scanning, opts, todo, results, disk, db>>
    BY <1>4 DEF StatFile, SeenWith, worldVars
  <2>2. l[1] \in Paths /\ IsOnDisk(l[1])
    BY <1>0, <1>4 DEF QuietInv
  <2>3. ASSUME NEW j \in jobs'
        PROVE  \E f \in disk[j.path] : f.size = j.size /\ f.mtime_secs = j.mtime
    <3>1. CASE j \in jobs
      BY <1>4, <3>1 DEF QuietInv
    <3>2. CASE j \notin jobs
      <4>1. PICK f \in Candidates(l[1]) :
              j = [path |-> l[1], time |-> l[2], size |-> f.size, mtime |-> f.mtime_secs]
        BY <2>1, <3>2
      <4>2. QED
        BY <4>1 DEF Candidates
    <3>3. QED
      BY <3>1, <3>2
  <2>4. ASSUME NEW f \in disk[l[1]], f.size > 0
        PROVE  OnItsWay(l[1])' \/ CurrentMetas(db, l[1]) = {f}
    <3>1. CASE CurrentSizeMtimeIs(db, l[1], f.size, f.mtime_secs)
      BY <2>2, <3>1, PreflightIsRight
    <3>2. CASE ~CurrentSizeMtimeIs(db, l[1], f.size, f.mtime_secs)
      <4> DEFINE j == [path |-> l[1], time |-> l[2], size |-> f.size, mtime |-> f.mtime_secs]
      <4>1. f \in Candidates(l[1])
        BY <2>4, <3>2 DEF Candidates
      <4>2. j \in jobs' /\ j.path = l[1]
        BY <2>1, <4>1
      <4>3. QED
        BY <4>2 DEF OnItsWay
    <3>3. QED
      BY <3>1, <3>2
  <2>5. \A p : Pending(p) => Pending(p)' \/ p = l[1]
    BY <2>1 DEF Pending
  <2>6. \A p : OnItsWay(p) => OnItsWay(p)'
    BY <2>1 DEF OnItsWay
  <2>7. \A p \in opts'.walked :
          Pending(p)' \/ \A f \in disk'[p] :
            /\ p \in seen'
            /\ f.size > 0 => OnItsWay(p)' \/ CurrentMetas(db', p) = {f}
    BY <1>4, <2>1, <2>4, <2>5, <2>6 DEF QuietInv
  <2>8. QED
    BY <1>4, <2>1, <2>2, <2>3, <2>7 DEF QuietInv, IsOnDisk
<1>5. ASSUME NEW job \in jobs, HashJob(job), quiet, UNCHANGED quiet
      PROVE  QuietInv'
  <2>0. PICK file \in disk[job.path] : \E hash \in HashesReadOf(job, file) :
          results' = Append(results, ResultOf(job, hash))
    BY <1>5 DEF HashJob
  <2>1. PICK hash \in HashesReadOf(job, file) : results' = Append(results, ResultOf(job, hash))
    BY <2>0
  <2>2. jobs' = jobs \ {job} /\ UNCHANGED <<scanning, opts, todo, listed, seen, disk, db>>
    BY <1>5 DEF HashJob, worldVars
  <2>3. disk[job.path] = {file} /\ file \in Metas
    BY <1>0, OneFile
  <2>4. file.size = job.size /\ file.mtime_secs = job.mtime
    BY <1>5, <2>3 DEF QuietInv
  <2>5. hash = file.hash256
    BY <2>4 DEF HashesReadOf
  <2>6. ResultOf(job, hash).path = job.path /\ ResultOf(job, hash).meta = file
    <3>1. PICK h \in Hashes, t \in 0..now : disk[job.path] = {File(h, t)}
      <4>1. disk[job.path] \in FilesAt(now)
        BY <1>0 DEF WorldInv
      <4>2. QED
        BY <4>1 DEF FilesAt
    <3>2. file = File(h, t)
      BY <3>1
    <3>3. QED
      BY <2>4, <2>5, <3>2 DEF ResultOf, File
  <2>7. ResultOf(job, hash) \in ResultSet
    BY HashedIsSound
  <2>8. Range(results') = Range(results) \cup {ResultOf(job, hash)}
    BY <2>1, <2>7, AppendQueue DEF Inv, ScanInv
  <2>9. \A p : OnItsWay(p) => OnItsWay(p)'
    BY <2>2, <2>6, <2>8 DEF OnItsWay
  <2>10. \A r \in Range(results') : disk[r.path] = {r.meta}
    BY <1>5, <2>3, <2>6, <2>8 DEF QuietInv
  <2>11. \A p : Pending(p)' <=> Pending(p)
    BY <2>2 DEF Pending
  <2>12. QED
    BY <1>5, <2>2, <2>9, <2>10, <2>11 DEF QuietInv, IsOnDisk
<1>6. ASSUME NEW job \in jobs, DropJob(job), quiet
      PROVE  FALSE
  BY <1>6 DEF DropJob, QuietInv, IsOnDisk
<1>7. ASSUME CommitFull \/ CommitRest, quiet, UNCHANGED quiet
      PROVE  QuietInv'
  <2>1. PICK rs : Records(db, db', rs) /\ Range(results) = rs \cup Range(results')
    BY <1>7, Commits DEF Inv
  <2>2. UNCHANGED <<scanning, opts, todo, listed, seen, jobs, disk>>
    BY <1>7, Commits DEF Inv
  <2>3. \A r \in rs \cup Range(results') : disk[r.path] = {r.meta}
    BY <1>7, <2>1 DEF QuietInv
  <2>4. ASSUME NEW p, NEW f \in disk[p], OnItsWay(p) \/ CurrentMetas(db, p) = {f}
        PROVE  OnItsWay(p)' \/ CurrentMetas(db', p) = {f}
    <3>1. CASE \E r \in rs : r.path = p
      <4>1. PICK r \in rs : r.path = p /\ CurrentMetas(db', p) = {r.meta}
        BY <2>1, <3>1 DEF Records
      <4>2. r.meta = f
        BY <2>3, <2>4, <4>1
      <4>3. QED
        BY <4>1, <4>2
    <3>2. CASE ~\E r \in rs : r.path = p
      <4>1. CurrentMetas(db', p) = CurrentMetas(db, p)
        BY <2>1, <3>2 DEF Records
      <4>2. OnItsWay(p) => OnItsWay(p)'
        BY <2>1, <2>2, <3>2 DEF OnItsWay
      <4>3. QED
        BY <2>4, <4>1, <4>2
    <3>3. QED
      BY <3>1, <3>2
  <2>5. \A p : Pending(p)' <=> Pending(p)
    BY <2>2 DEF Pending
  <2>6. \A p \in opts'.walked :
          Pending(p)' \/ \A f \in disk'[p] :
            /\ p \in seen'
            /\ f.size > 0 => OnItsWay(p)' \/ CurrentMetas(db', p) = {f}
    BY <1>7, <2>2, <2>4, <2>5 DEF QuietInv
  <2>7. QED
    BY <1>7, <2>2, <2>3, <2>6 DEF QuietInv, IsOnDisk
<1>8. CASE \/ \E path \in Paths, hash \in Hashes : UserWrites(path, hash)
           \/ \E path \in Paths : UserErases(path)
           \/ \E l \in todo : ScanOverlooks(l)
           \/ ScanFault
           \/ FinishScan
  BY <1>1, <1>8 DEF UserWrites, UserErases, UserActs, ScanOverlooks, ScanFault, FinishScan
<1>9. CASE \/ \E flt \in Filters, policy \in Preserves : StartDelete(flt, policy)
           \/ StepDelete
           \/ BreakDelete
  <2>1. ~scanning /\ UNCHANGED quiet
    BY <1>9, DeleteAlone
  <2>2. QED
    BY <1>1, <2>1 DEF QuietInv
<1>10. CASE ScanStep
  <2>1. UNCHANGED quiet
    BY <1>10 DEF ScanStep, lifecycleHistory
  <2>2. \/ \E l \in todo : ListFile(l)
        \/ \E l \in listed : StatFile(l)
        \/ \E job \in jobs : HashJob(job) \/ DropJob(job)
        \/ CommitFull \/ CommitRest
    BY <1>10 DEF ScanStep
  <2>3. QED
    BY <1>1, <1>3, <1>4, <1>5, <1>6, <1>7, <2>1, <2>2
<1>11. QED
  BY <1>2, <1>8, <1>9, <1>10 DEF Next

(* At the end of a quiet scan what it walked is recorded as it is.         *)
LEMMA QuietScanSettles ==
  ASSUME Inv, QuietInv, quiet, ScanFinish
  PROVE  /\ \A p \in opts.walked : \A f \in disk[p] :
              p \in seen /\ (f.size > 0 => CurrentMetas(db, p) = {f})
         /\ \A p \in seen : IsOnDisk(p)
<1>1. todo = {} /\ listed = {} /\ jobs = {} /\ results = <<>>
  BY DEF ScanFinish, Drained
<1>2. Range(results) = {}
  BY <1>1, EmptyQueue
<1>3. \A p : ~Pending(p) /\ ~OnItsWay(p)
  BY <1>1, <1>2 DEF Pending, OnItsWay
<1>4. QED
  BY <1>3 DEF QuietInv

(* What is called Live after a quiet scan is on disk as recorded, through  *)
(* commands that end well.                                                 *)
LEMMA FreshKept ==
  ASSUME Inv, QuietInv, FreshInv, Next
  PROVE  FreshInv'
<1> DEFINE true(d, onDisk, gone) ==
      \A fid \in LiveIn(d) \ gone :
        \E f \in onDisk[PathOf(d, fid)] : f = d.file_meta[fid] \/ f.size = 0
<1>0. WorldInv /\ Typed(db) /\ Consistent(db) /\ disk \in [Paths -> FilesAt(now)]
  BY DEF Inv, WorldInv
<1>1. FreshInv <=> (fresh => (scanning => quiet) /\ true(db, disk, removed))
  BY DEF FreshInv
<1>2. FreshInv' <=> (fresh' => (scanning' => quiet') /\ true(db', disk', removed'))
  BY DEF FreshInv
<1>3. CASE ~fresh'
  BY <1>3 DEF FreshInv
<1>4. CASE /\ UNCHANGED <<fresh, db, disk, removed>>
           /\ scanning' /\ ~scanning => quiet'
           /\ scanning /\ quiet => quiet'
  BY <1>0, <1>4 DEF FreshInv, Inv, ScanInv
<1>5. ASSUME CommitFull \/ CommitRest, UNCHANGED <<fresh, quiet, removed>>, fresh
      PROVE  FreshInv'
  <2>1. PICK rs : Records(db, db', rs) /\ Range(results) = rs \cup Range(results')
    BY <1>5, Commits DEF Inv
  <2>2. scanning /\ UNCHANGED <<scanning, disk>>
    BY <1>5, Commits DEF Inv
  <2>3. quiet /\ true(db, disk, removed)
    BY <1>1, <1>5, <2>2
  <2>4. \A r \in rs : disk[r.path] = {r.meta}
    BY <2>1, <2>3 DEF QuietInv
  <2>5. ASSUME NEW fid \in LiveIn(db') \ removed
        PROVE  \E f \in disk[PathOf(db', fid)] : f = db'.file_meta[fid] \/ f.size = 0
    <3>1. CASE fid \in DOMAIN db.file_state
      <4>1. VersionOf(db', fid) = VersionOf(db, fid) /\ fid \in LiveIn(db)
        BY <2>1, <2>5, <3>1 DEF Records, LiveIn, Live, Replaced
      <4>2. PathOf(db', fid) = PathOf(db, fid) /\ db'.file_meta[fid] = db.file_meta[fid]
        BY <4>1 DEF VersionOf
      <4>3. QED
        BY <2>3, <2>5, <4>1, <4>2
    <3>2. CASE fid \notin DOMAIN db.file_state
      <4>1. VersionOf(db', fid) \in rs
        BY <2>1, <2>5, <3>2 DEF Records, LiveIn
      <4>2. disk[PathOf(db', fid)] = {db'.file_meta[fid]}
        BY <2>4, <4>1 DEF VersionOf
      <4>3. QED
        BY <4>2
    <3>3. QED
      BY <3>1, <3>2
  <2>6. true(db', disk', removed')
    BY <1>5, <2>2, <2>5
  <2>7. QED
    BY <1>2, <1>5, <2>3, <2>6
<1>6. ASSUME FinishScan, fresh'
      PROVE  FreshInv'
  <2>1. /\ ScanFinish /\ scanning' = FALSE /\ UNCHANGED <<disk, removed>>
        /\ db' = IF opts.detect THEN MarkMissingNotSeen(db, opts.scope, seen) ELSE db
        /\ fresh \/ (quiet /\ opts.walked = Paths /\ opts.detect)
    BY <1>6 DEF FinishScan, ScanFinish, ScanEnds, deleteVars
  <2>2. /\ LiveIn(db') \subseteq LiveIn(db)
        /\ db'.file_meta = db.file_meta
        /\ \A f : PathOf(db', f) = PathOf(db, f)
    BY <1>0, <2>1, SweptOnly
  <2>3. CASE fresh
    <3>1. true(db, disk, removed)
      BY <1>1, <2>3
    <3>2. true(db', disk', removed')
      BY <2>1, <2>2, <3>1
    <3>3. QED
      BY <1>2, <2>1, <3>2
  <2>4. CASE quiet /\ opts.walked = Paths /\ opts.detect
    <3>1. opts.scope = Paths
      BY <2>4 DEF Inv, ScanInv
    <3>2. LiveIn(db') = { f \in LiveIn(db) : PathOf(db, f) \notin opts.scope \ seen }
      BY <1>0, <2>1, <2>4, SweptOnly
    <3>3. /\ \A p \in Paths : \A f \in disk[p] : f.size > 0 => CurrentMetas(db, p) = {f}
          /\ \A p \in seen : IsOnDisk(p)
      BY <2>1, <2>4, QuietScanSettles
    <3>4. ASSUME NEW fid \in LiveIn(db')
          PROVE  \E f \in disk[PathOf(db, fid)] : f = db.file_meta[fid] \/ f.size = 0
      <4> DEFINE p == PathOf(db, fid)
      <4>1. p \in Paths /\ p \in seen /\ fid \in GetCurrentByPath(db, p)
        <5>1. fid \in LiveIn(db) /\ fid \in DOMAIN db.file_state
          BY <3>2 DEF LiveIn
        <5>2. p \in Paths /\ fid \in GetCurrentByPath(db, p)
          BY <1>0, <5>1, LiveVersions
        <5>3. QED
          BY <3>1, <3>2, <5>2
      <4>2. PICK f \in disk[p] : TRUE
        BY <3>3, <4>1 DEF IsOnDisk
      <4>3. f.size \in Nat
        BY <1>0, <4>1, OneFile, MetasAssumption
      <4>4. CASE f.size > 0
        <5>1. CurrentMetas(db, p) = {f}
          BY <3>3, <4>1, <4>4
        <5>2. db.file_meta[fid] \in CurrentMetas(db, p)
          BY <4>1 DEF CurrentMetas
        <5>3. QED
          BY <5>1, <5>2
      <4>5. CASE f.size = 0
        BY <4>5
      <4>6. QED
        BY <4>3, <4>4, <4>5
    <3>5. true(db', disk', removed')
      BY <2>1, <2>2, <3>4
    <3>6. QED
      BY <1>2, <2>1, <3>5
  <2>5. QED
    BY <2>1, <2>3, <2>4
<1>7. ASSUME RemoveFile, UNCHANGED <<fresh, scanning>>, ~scanning, fresh
      PROVE  FreshInv'
  <2> DEFINE gone == Head(plan)
             path == PathOf(db, gone)
  <2>1. disk' = [disk EXCEPT ![path] = {}] /\ UNCHANGED db
    BY <1>7 DEF RemoveFile
  <2>2. gone \in LiveIn(db) /\ removed' = removed \cup {gone}
    BY <1>7, RemoveTyped DEF Inv
  <2> HIDE DEF gone
  <2>3. \A fid \in LiveIn(db) : PathOf(db, fid) \in Paths /\ (PathOf(db, fid) = path => fid = gone)
    BY <1>0, <2>2, LiveVersions DEF LiveIn
  <2>4. true(db, disk, removed)
    BY <1>1, <1>7
  <2>5. ASSUME NEW fid \in LiveIn(db) \ removed'
        PROVE  \E f \in disk'[PathOf(db, fid)] : f = db.file_meta[fid] \/ f.size = 0
    <3>1. PathOf(db, fid) # path /\ PathOf(db, fid) \in Paths
      BY <2>2, <2>3
    <3>2. disk'[PathOf(db, fid)] = disk[PathOf(db, fid)]
      BY <1>0, <2>1, <3>1
    <3>3. QED
      BY <2>2, <2>4, <3>2
  <2>6. true(db', disk', removed')
    BY <2>1, <2>5
  <2>7. QED
    BY <1>2, <1>7, <2>6
<1>8. ASSUME RecordGroup, UNCHANGED <<fresh, scanning>>, ~scanning, fresh
      PROVE  FreshInv'
  <2>1. /\ db'.file_meta = db.file_meta
        /\ \A f : PathOf(db, f)' = PathOf(db, f)
        /\ LiveIn(db)' = LiveIn(db) \ removed
    BY <1>8, RecordTyped DEF Inv
  <2>2. removed' = {} /\ UNCHANGED disk
    BY <1>8 DEF RecordGroup
  <2>3. true(db, disk, removed)
    BY <1>1, <1>8
  <2>4. true(db', disk', removed')
    BY <2>1, <2>2, <2>3
  <2>5. QED
    BY <1>2, <1>8, <2>4
<1>9. QED
  <2>1. CASE StepDelete
    <3>1. UNCHANGED <<fresh, quiet, scanning>> /\ ~scanning
      BY <2>1, DeleteAlone DEF StepDelete, lifecycleHistory, scanVars
    <3>2. CASE PlanGroup \/ DeleteFinish
      <4>1. UNCHANGED <<db, disk, removed>>
        BY <3>2 DEF PlanGroup, DeleteFinish, DeleteEnds, GroupDone, worldVars
      <4>2. QED
        BY <1>4, <3>1, <4>1
    <3>3. QED
      BY <1>3, <1>7, <1>8, <2>1, <3>1, <3>2 DEF StepDelete, DeleteStep
  <2>2. CASE \E flt \in Filters, policy \in Preserves : StartDelete(flt, policy)
    <3>1. UNCHANGED <<fresh, quiet, scanning, db, disk, removed>>
      BY <2>2 DEF StartDelete, DeleteStart, lifecycleHistory, scanVars, worldVars
    <3>2. QED
      BY <1>4, <3>1
  <2>3. CASE ScanStep
    <3>1. UNCHANGED <<fresh, quiet, removed>>
      BY <2>3 DEF ScanStep, lifecycleHistory, deleteVars
    <3>2. \/ CommitFull \/ CommitRest
          \/ UNCHANGED <<scanning, db, disk>>
      BY <2>3 DEF ScanStep, ListFile, StatFile, HashJob, DropJob, worldVars
    <3>3. QED
      BY <1>3, <1>4, <1>5, <3>1, <3>2
  <2>4. CASE \E o \in ScanOptions : StartScan(o)
    <3>1. UNCHANGED <<fresh, db, disk, removed>> /\ quiet'
      BY <2>4 DEF StartScan, ScanStart, deleteVars, worldVars
    <3>2. QED
      BY <1>4, <3>1
  <2>5. CASE \/ \E path \in Paths, hash \in Hashes : UserWrites(path, hash)
             \/ \E path \in Paths : UserErases(path)
             \/ \E l \in todo : ScanOverlooks(l)
             \/ ScanFault
             \/ BreakDelete
    BY <1>3, <2>5 DEF UserWrites, UserErases, UserActs, ScanOverlooks, ScanFault, BreakDelete
  <2>6. QED
    BY <1>3, <1>6, <2>1, <2>2, <2>3, <2>4, <2>5 DEF Next

-----------------------------------------------------------------------------
(* The invariant of the whole *)

(* All that the theorems below rest on: the types, and what holds of the   *)
(* running scan, of what scans have settled and of the running delete.     *)
AllInv ==
  Inv /\ MissedInv /\ QuietInv /\ FreshInv /\ CopyInv /\ RerunInv /\ RulesInv

(* It holds at first, and every step keeps it. *)
LEMMA AllInvKept == AllInv /\ [Next]_vars => AllInv'
<1>1. ASSUME AllInv, Next
      PROVE  AllInv'
  BY <1>1, InvKept, MissedKept, QuietKept, FreshKept, CopyInvKept, RerunInvKept,
     RulesInvKept DEF AllInv
<1>2. ASSUME AllInv, UNCHANGED vars
      PROVE  AllInv'
  <2>1. UNCHANGED <<db, disk, now, faults, scanning, opts, todo, listed, seen, jobs, results>>
    BY <1>2 DEF vars, worldVars, scanVars
  <2>2. UNCHANGED <<deleting, filter, preserve, groups, plan, removed, trusted, before>>
    BY <1>2 DEF vars, deleteVars
  <2>3. UNCHANGED <<quiet, missed, fresh>>
    BY <1>2 DEF vars, lifecycleHistory
  <2>4. WorldInv' /\ DeleteInv'
    BY <1>2, <2>1, <2>2 DEF AllInv, Inv, WorldInv, DeleteInv
  <2>5. ScanInv'
    BY <1>2, <2>1, <2>2 DEF AllInv, Inv, ScanInv
  <2>6. SoundInv'
    BY <1>2, <2>1 DEF AllInv, Inv, SoundInv, SoundAt
  <2>7. MissedInv'
    BY <1>2, <2>1, <2>3 DEF AllInv, MissedInv, Pending, IsOnDisk
  <2>8. QuietInv'
    BY <1>2, <2>1, <2>3 DEF AllInv, QuietInv, Pending, OnItsWay, IsOnDisk
  <2>9. FreshInv'
    BY <1>2, <2>1, <2>2, <2>3 DEF AllInv, FreshInv
  <2>10. CopyInv'
    BY <1>2, <2>1, <2>2 DEF AllInv, CopyInv, LastCopyKept
  <2>11. RerunInv'
    BY <1>2, <2>1, <2>2 DEF AllInv, RerunInv, DealtWith
  <2>12. RulesInv'
    BY <1>2, <2>1, <2>2, OthersKeepRules DEF AllInv
  <2>13. QED
    BY <2>4, <2>5, <2>6, <2>7, <2>8, <2>9, <2>10, <2>11, <2>12 DEF AllInv, Inv
<1>3. QED
  BY <1>1, <1>2

(* The invariant holds in every reachable state.                           *)
LEMMA AllInvHolds == Spec => []AllInv
<1>1. Init => AllInv
  BY InitGood DEF AllInv
<1>2. QED
  BY <1>1, AllInvKept, PTL DEF Spec

-----------------------------------------------------------------------------
(* Invariants of the commands *)

(* In every reachable state the tables are well formed and consistent,     *)
(* every listing, job, result and planned removal is in one place only,    *)
(* and no scan runs beside a delete.                                       *)
THEOREM TypeCorrect == Spec => []TypeOK
<1>1. ASSUME Inv
      PROVE  TypeOK
  <2>1. \A p \in Paths : disk[p] \subseteq Metas /\ Cardinality(disk[p]) <= 1
    <3> TAKE p \in Paths
    <3>1. disk[p] \subseteq Metas
      BY <1>1, OneFile DEF Inv
    <3>2. disk[p] \in FilesAt(now)
      BY <1>1 DEF Inv, WorldInv
    <3>3. QED
      BY <3>1, <3>2, AtMostOne
  <2>2. DeleteTypeOK
    BY <1>1, DeleteTypes DEF Inv
  <2>3. QED
    BY <1>1, <2>1, <2>2 DEF TypeOK, Inv, WorldInv, ScanInv
<1>2. QED
  BY <1>1, AllInvHolds, PTL DEF AllInv

(* A current record with the size and mtime of the file at its path has    *)
(* the hash of its content, whatever the user does between the stat, the   *)
(* hashing and the commit: what the preflight passes over is right.        *)
THEOREM ShortcutIsSound == Spec => []UnchangedIsIdentical
<1>1. ASSUME Inv
      PROVE  UnchangedIsIdentical
  <2>1. ASSUME NEW p \in Paths, NEW f \in disk[p], NEW fid \in GetCurrentByPath(db, p),
               db.file_meta[fid].mtime_secs = f.mtime_secs
        PROVE  db.file_meta[fid].hash256 = f.hash256
    <3>1. fid \in DOMAIN db.file_state /\ PathOf(db, fid) = p
      BY <1>1, CurrentIff DEF Inv, WorldInv
    <3>2. SoundAt(p, db.file_meta[fid])
      BY <1>1, <3>1 DEF Inv, SoundInv
    <3>3. QED
      BY <2>1, <3>2 DEF SoundAt
  <2>2. QED
    BY <2>1 DEF UnchangedIsIdentical
<1>2. QED
  BY <1>1, AllInvHolds, PTL DEF AllInv

(* check calls a file NOT_FOUND just where no version has its content, and *)
(* answers what check-hash answers for that content, whatever the shortcut *)
(* took for granted, unless an equal record of the path is Missing.        *)
THEOREM CheckAgreesHolds == Spec => []CheckAgrees
<1>1. ASSUME Inv
      PROVE  CheckAgrees
  <2>1. ASSUME NEW p \in Paths, NEW f \in disk[p], NEW isOther \in BOOLEAN
        PROVE  CheckOne(db, p, disk[p], isOther) = CheckByHash(db, f.hash256)
    <3>1. disk[p] = {f} /\ f \in Metas /\ f.hash256 \in Hashes
      BY <1>1, OneFile, MetasAssumption DEF Inv
    <3>2. CheckOne(db, p, disk[p], isOther)
            = IF Matched(db, p, f) # {} THEN "Exists" ELSE CheckByHash(db, f.hash256)
      <4>1. (CHOOSE g \in {f} : TRUE) = f
        OBVIOUS
      <4>2. QED
        BY <3>1, <4>1 DEF CheckOne
    <3>3. CASE Matched(db, p, f) = {}
      BY <3>2, <3>3
    <3>4. CASE Matched(db, p, f) # {}
      <4>1. PICK fid \in GetCurrentByPath(db, p) :
              /\ db.file_state[fid] = Live
              /\ CurrentSizeMtimeIs(db, p, f.size, f.mtime_secs)
        BY <3>4 DEF Matched
      <4>2. CurrentMetas(db, p) = {f}
        BY <1>1, <4>1, PreflightIsRight
      <4>3. db.file_meta[fid] = f
        BY <4>2 DEF CurrentMetas
      <4>4. fid \in DOMAIN db.file_state
        BY <1>1, CurrentIff DEF Inv, WorldInv
      <4>5. fid \in DOMAIN db.file_meta
        BY <1>1, <4>4 DEF Inv, WorldInv, Typed
      <4>6. fid \in LookupFilesByHash256(db, f.hash256)
        BY <1>1, <3>1, <4>3, <4>5
           DEF Inv, WorldInv, Consistent, IndexExact, LookupFilesByHash256
      <4>7. fid \in VersionsIn(db, Live)
        BY <4>1, <4>4 DEF VersionsIn
      <4>8. CheckByHash(db, f.hash256) = "Exists"
        BY <4>6, <4>7 DEF CheckByHash
      <4>9. QED
        BY <3>2, <3>4, <4>8
    <3>5. QED
      BY <3>3, <3>4
  <2>2. ASSUME NEW h
        PROVE  CheckByHash(db, h) = "NotFound" <=> LookupFilesByHash256(db, h) = {}
    BY DEF CheckByHash
  <2>3. QED
    BY <2>1, <2>2 DEF CheckAgrees
<1>2. QED
  BY <1>1, AllInvHolds, PTL DEF AllInv

(* The duplicates check lists of a file are the Live versions of its       *)
(* content at other paths, all of them, by whichever hash it looks; its    *)
(* own version is among them only when the file was touched.               *)
THEOREM DupesListedAreOthers == Spec => []DupesAreOthers
<1>1. ASSUME Inv, NEW p \in Paths, NEW f \in disk[p]
      PROVE  LET live == LookupFilesByHash256(db, f.hash256) \cap VersionsIn(db, Live)
                 dupes == Peers(db, p, f) \cap VersionsIn(db, Live)
             IN  /\ dupes \subseteq live
                 /\ \A fid \in live \ dupes : PathOf(db, fid) = p
                 /\ \A fid \in dupes :
                      PathOf(db, fid) = p => db.file_meta[fid].mtime_secs # f.mtime_secs
  <2>1. Typed(db) /\ Consistent(db)
    BY <1>1 DEF Inv, WorldInv
  <2>2. HashLookedUp(db, p, f) = {f.hash256}
    <3>1. \A m \in Matched(db, p, f) : CurrentMetas(db, p) = {f}
      BY <1>1, PreflightIsRight DEF Matched
    <3>2. \A m \in Matched(db, p, f) : db.file_meta[m] = f
      BY <3>1 DEF Matched, CurrentMetas
    <3>3. QED
      BY <3>2 DEF HashLookedUp
  <2>3. Peers(db, p, f) = LookupFilesByHash256(db, f.hash256) \ Matched(db, p, f)
    BY <2>2 DEF Peers
  <2>4. ASSUME NEW fid \in Matched(db, p, f)
        PROVE  PathOf(db, fid) = p
    BY <2>1, CurrentIff DEF Matched
  <2>5. ASSUME NEW fid \in LookupFilesByHash256(db, f.hash256) \cap VersionsIn(db, Live),
               PathOf(db, fid) = p, db.file_meta[fid].mtime_secs = f.mtime_secs
        PROVE  fid \in Matched(db, p, f)
    <3>1. fid \in DOMAIN db.file_state /\ db.file_state[fid] = Live
      BY DEF VersionsIn
    <3>2. fid \in GetCurrentByPath(db, p)
      BY <2>1, <2>5, <3>1, LiveVersions DEF LiveIn
    <3>3. SoundAt(p, db.file_meta[fid])
      BY <1>1, <2>5, <3>1 DEF Inv, SoundInv
    <3>4. db.file_meta[fid] = f
      BY <2>5, <3>3 DEF SoundAt
    <3>5. QED
      BY <3>1, <3>2, <3>4 DEF Matched, CurrentSizeMtimeIs
  <2>6. QED
    BY <2>3, <2>4, <2>5
<1>2. QED
  <2>1. Inv => DupesAreOthers
    BY <1>1 DEF DupesAreOthers
  <2>2. QED
    BY <2>1, AllInvHolds, PTL DEF AllInv

(* No delete run takes the last copy of a content, where its groups were   *)
(* true when it read them and nobody else changes files: at every moment   *)
(* of the run, whatever fails.                                             *)
THEOREM LastCopyStays == Spec => []LastCopyKept
<1>1. ASSUME CopyInv
      PROVE  LastCopyKept
  BY <1>1 DEF CopyInv, LastCopyKept
<1>2. QED
  BY <1>1, AllInvHolds, PTL DEF AllInv

(* After a quiet scan of everything, and through commands that end well,   *)
(* what is called Live is on disk as recorded, or the file is now empty.   *)
THEOREM FreshDatabaseIsTrue == Spec => []FreshIsTrue
<1>1. ASSUME Inv, FreshInv
      PROVE  FreshIsTrue
  <2>1. ASSUME fresh, ~deleting, NEW fid \in DOMAIN db.file_state, db.file_state[fid] = Live
        PROVE  \E f \in disk[PathOf(db, fid)] :
                 f.hash256 = db.file_meta[fid].hash256 \/ f.size = 0
    <3>1. removed = {} /\ fid \in LiveIn(db)
      BY <1>1, <2>1 DEF Inv, DeleteInv, LiveIn
    <3>2. QED
      BY <1>1, <2>1, <3>1 DEF FreshInv
  <2>2. QED
    BY <2>1 DEF FreshIsTrue
<1>2. QED
  BY <1>1, AllInvHolds, PTL DEF AllInv

(* What check says after such a scan is so: a recorded file that is gone   *)
(* is KNOWN_REMOVED unless a directory has its place, and one with live    *)
(* duplicates has a copy elsewhere.                                        *)
THEOREM CheckCanBeTrusted == Spec => []CheckIsTrue
<1>1. ASSUME Inv, FreshInv, fresh, ~deleting, NEW p \in Paths
      PROVE  /\ ~IsOnDisk(p) /\ GetCurrentByPath(db, p) # {}
                   => \A isOther \in BOOLEAN :
                        CheckOne(db, p, disk[p], isOther) = "KnownRemoved" <=> ~isOther
             /\ \A f \in disk[p] :
                  f.size > 0 /\ SaysDupes(db, p, f)
                    => \E q \in Paths \ {p} : \E g \in disk[q] :
                         g.hash256 = f.hash256 \/ g.size = 0
  <2>0. Typed(db) /\ Consistent(db)
    BY <1>1 DEF Inv, WorldInv
  <2>1. \A fid \in LiveIn(db) :
          \E f \in disk[PathOf(db, fid)] : f = db.file_meta[fid] \/ f.size = 0
    BY <1>1 DEF FreshInv, Inv, DeleteInv
  <2>2. ASSUME ~IsOnDisk(p), GetCurrentByPath(db, p) # {}, NEW isOther \in BOOLEAN
        PROVE  CheckOne(db, p, disk[p], isOther) = "KnownRemoved" <=> ~isOther
    <3>1. PICK fid \in GetCurrentByPath(db, p) : TRUE
      BY <2>2
    <3>2. /\ fid \in DOMAIN db.file_state /\ PathOf(db, fid) = p
          /\ db.file_state[fid] # Replaced
      BY <2>0, CurrentIff
    <3>3. db.file_state[fid] \in FileStates
      BY <2>0, <3>2 DEF Typed
    <3>4. db.file_state[fid] # Live
      BY <2>1, <2>2, <3>2 DEF LiveIn, IsOnDisk
    <3>5. fid \in VersionsIn(db, Missing)
      BY <3>2, <3>3, <3>4 DEF VersionsIn, FileStates
    <3>6. QED
      BY <2>2, <3>1, <3>5 DEF CheckOne, IsOnDisk
  <2>3. ASSUME NEW f \in disk[p], f.size > 0, SaysDupes(db, p, f)
        PROVE  \E q \in Paths \ {p} : \E g \in disk[q] : g.hash256 = f.hash256 \/ g.size = 0
    <3>1. f.hash256 \in Hashes /\ f.size \in Nat /\ disk[p] = {f}
      BY <1>1, OneFile, MetasAssumption DEF Inv
    <3>0. \A h \in HashLookedUp(db, p, f) : h = f.hash256
      <4>1. \A m \in Matched(db, p, f) : CurrentMetas(db, p) = {f}
        BY <1>1, PreflightIsRight DEF Matched
      <4>2. QED
        BY <4>1 DEF HashLookedUp, Matched, CurrentMetas
    <3>2. PICK fid \in LookupFilesByHash256(db, f.hash256) \ Matched(db, p, f) :
            fid \in VersionsIn(db, Live)
      BY <2>3, <3>0 DEF SaysDupes, Peers
    <3>3. fid \in LiveIn(db) /\ db.file_meta[fid].hash256 = f.hash256
      BY <2>0, <3>1, <3>2
         DEF LookupFilesByHash256, VersionsIn, LiveIn, Consistent, IndexExact
    <3>4. /\ PathOf(db, fid) \in Paths
          /\ fid \in GetCurrentByPath(db, PathOf(db, fid))
      BY <2>0, <3>3, LiveVersions DEF LiveIn
    <3>5. PICK g \in disk[PathOf(db, fid)] : g = db.file_meta[fid] \/ g.size = 0
      BY <2>1, <3>3
    <3>6. PathOf(db, fid) # p
      <4>1. SUFFICES ASSUME PathOf(db, fid) = p
                     PROVE  FALSE
        OBVIOUS
      <4>2. g = f /\ f = db.file_meta[fid]
        BY <2>3, <3>1, <3>5, <4>1
      <4>3. fid \in Matched(db, p, f)
        BY <3>3, <3>4, <4>1, <4>2 DEF Matched, CurrentSizeMtimeIs, LiveIn
      <4>4. QED
        BY <3>2, <4>3
    <3>7. QED
      BY <3>3, <3>4, <3>5, <3>6
  <2>4. QED
    BY <2>2, <2>3
<1>2. ASSUME Inv, FreshInv
      PROVE  CheckIsTrue
  BY <1>1, <1>2 DEF CheckIsTrue
<1>3. QED
  BY <1>2, AllInvHolds, PTL DEF AllInv

-----------------------------------------------------------------------------
(* What a command may never do *)

(* The sweep of a run that walks all of its scope marks as Missing only    *)
(* versions of paths that were, at some moment of the run, not there to be *)
(* listed; nothing else marks any while a scan runs.                       *)
THEOREM SweepsAreJust == Spec => SweepsOnlyUnseen
<1>1. ASSUME Inv, MissedInv, Next, scanning, opts.walked = opts.scope,
             NEW fid \in DOMAIN db.file_state,
             db.file_state[fid] = Live, db'.file_state[fid] = Missing
      PROVE  PathOf(db, fid) \in missed
  <2>1. CASE CommitFull \/ CommitRest
    <3>1. PICK rs : Records(db, db', rs)
      BY <1>1, <2>1, Commits DEF Inv
    <3>2. db'.file_state[fid] = db.file_state[fid] \/ db'.file_state[fid] = Replaced
      BY <1>1, <3>1 DEF Records
    <3>3. QED
      BY <1>1, <3>2 DEF Live, Replaced, Missing
  <2>2. CASE FinishScan /\ db' = MarkMissingNotSeen(db, opts.scope, seen)
    <3>1. /\ LiveIn(db') = { f \in LiveIn(db) : PathOf(db, f) \notin opts.scope \ seen }
          /\ DOMAIN db'.file_state = DOMAIN db.file_state
      BY <1>1, <2>2, SweptOnly DEF Inv, WorldInv
    <3>2. fid \in LiveIn(db) /\ fid \notin LiveIn(db')
      BY <1>1 DEF LiveIn, Live, Missing
    <3>3. PathOf(db, fid) \in opts.walked /\ PathOf(db, fid) \notin seen
      BY <1>1, <3>1, <3>2
    <3>4. ~Pending(PathOf(db, fid))
      BY <2>2 DEF FinishScan, ScanFinish, Drained, Pending
    <3>5. QED
      BY <1>1, <3>3, <3>4 DEF MissedInv
  <2>3. CASE StepDelete
    BY <1>1, <2>3, DeleteAlone
  <2>4. CASE UNCHANGED db
    BY <1>1, <2>4 DEF Live, Missing
  <2>5. QED
    BY <1>1, <2>1, <2>2, <2>3, <2>4, DbChanges
<1> DEFINE Just == scanning /\ opts.walked = opts.scope =>
                     \A fid \in DOMAIN db.file_state :
                       db.file_state[fid] = Live /\ db'.file_state[fid] = Missing
                         => PathOf(db, fid) \in missed
<1>2. AllInv /\ [Next]_vars => [Just]_vars
  BY <1>1 DEF AllInv
<1>3. QED
  BY <1>2, AllInvHolds, PTL DEF Spec, SweepsOnlyUnseen

(* A scan during which nothing else happened leaves a current record equal *)
(* to each non-empty file it walked and, with deletion detection, no Live  *)
(* version of an absent path of its scope.                                 *)
THEOREM QuietScansAreComplete == Spec => ScanIsComplete
<1>1. ASSUME Inv, QuietInv, FinishScan, quiet
      PROVE  /\ \A p \in opts.walked : \A f \in disk[p] :
                  f.size > 0 => \E fid \in GetCurrentByPath(db', p) : db'.file_meta[fid] = f
             /\ opts.detect =>
                  \A fid \in DOMAIN db'.file_state :
                    PathOf(db', fid) \in opts.scope /\ ~IsOnDisk(PathOf(db', fid))
                      => db'.file_state[fid] # Live
  <2>1. /\ ScanFinish
        /\ db' = IF opts.detect THEN MarkMissingNotSeen(db, opts.scope, seen) ELSE db
    BY <1>1 DEF FinishScan, ScanFinish
  <2>2. /\ db'.file_meta = db.file_meta
        /\ \A p : GetCurrentByPath(db', p) = GetCurrentByPath(db, p)
        /\ \A f : PathOf(db', f) = PathOf(db, f)
    BY <1>1, <2>1, SweptOnly DEF Inv, WorldInv
  <2>3. /\ \A p \in opts.walked : \A f \in disk[p] :
             p \in seen /\ (f.size > 0 => CurrentMetas(db, p) = {f})
        /\ \A p \in seen : IsOnDisk(p)
    BY <1>1, <2>1, QuietScanSettles
  <2>4. ASSUME NEW p \in opts.walked, NEW f \in disk[p], f.size > 0
        PROVE  \E fid \in GetCurrentByPath(db', p) : db'.file_meta[fid] = f
    <3>1. f \in CurrentMetas(db, p)
      BY <2>3, <2>4
    <3>2. QED
      BY <2>2, <3>1 DEF CurrentMetas
  <2>5. ASSUME opts.detect, NEW fid \in DOMAIN db'.file_state,
               PathOf(db', fid) \in opts.scope, ~IsOnDisk(PathOf(db', fid))
        PROVE  db'.file_state[fid] # Live
    <3>1. LiveIn(db') = { f \in LiveIn(db) : PathOf(db, f) \notin opts.scope \ seen }
      BY <1>1, <2>1, <2>5, SweptOnly DEF Inv, WorldInv
    <3>2. PathOf(db, fid) \in opts.scope \ seen
      BY <2>2, <2>3, <2>5
    <3>3. fid \notin LiveIn(db')
      BY <3>1, <3>2
    <3>4. QED
      BY <2>5, <3>3 DEF LiveIn
  <2>6. QED
    BY <2>4, <2>5
<1> DEFINE Complete == FinishScan /\ quiet =>
        /\ \A p \in opts.walked : \A f \in disk[p] :
             f.size > 0 => \E fid \in GetCurrentByPath(db', p) : db'.file_meta[fid] = f
        /\ opts.detect =>
             \A fid \in DOMAIN db'.file_state :
               LET p == PathOf(db', fid)
               IN  p \in opts.scope /\ ~IsOnDisk(p) => db'.file_state[fid] # Live
<1>2. AllInv /\ [Next]_vars => [Complete]_vars
  BY <1>1 DEF AllInv
<1>3. QED
  BY <1>2, AllInvHolds, PTL DEF Spec, ScanIsComplete

(* A delete run that finishes leaves the same run, made again, no group to *)
(* delete from, however stale the database was.                            *)
THEOREM RerunsFindNothing == Spec => RerunFindsNothing
<1>1. AllInv /\ [Next]_vars
        => [DeleteFinish => DupeGroups(db', filter) = {}]_<<worldVars, deleteVars>>
  BY NothingLeft DEF AllInv, Inv
<1>2. QED
  BY <1>1, AllInvHolds, PTL DEF Spec, RerunFindsNothing

(* Nor do scans, failures and the user before a delete run, or deletes of  *)
(* other filters, change that a run on a true database which finishes has  *)
(* followed the rules.                                                     *)
THEOREM DeletesFollowRules == Spec => OutcomeByRules
<1>1. AllInv /\ [Next]_vars
        => [DeleteFinish /\ trusted => \A h \in Hashes : RulesKept(h)]_<<worldVars, deleteVars>>
  BY RulesAtEnd DEF AllInv, Inv
<1>2. QED
  BY <1>1, AllInvHolds, PTL DEF Spec, OutcomeByRules

-----------------------------------------------------------------------------
(* The commands and the log *)

(* Versions that are Live no longer are a loss of the log. *)
LEMMA LessLiveIsLose ==
  ASSUME db'.next_file_id = db.next_file_id,
         db'.file_meta = db.file_meta,
         \A f : PathOf(db', f) = PathOf(db, f),
         LiveIn(db') \subseteq LiveIn(db)
  PROVE  Log!Lose
<1>1. LogOf(db') = LogOf(db)
  BY DEF LogOf
<1>2. LivePaths(db') \subseteq LivePaths(db)
  <2>1. /\ LivePaths(db') = { PathOf(db', f) : f \in LiveIn(db') }
        /\ LivePaths(db) = { PathOf(db, f) : f \in LiveIn(db) }
    BY DEF LivePaths, LiveIn
  <2>2. QED
    BY <2>1
<1>3. QED
  BY <1>1, <1>2 DEF Log!Lose

(* Scans, deletes, failures and the user, seen through the database as a   *)
(* log of versions and a set of Live paths, implement VersionLog.          *)
THEOREM CommandsAreALog == Spec => CommandsImplementLog
<1>1. Init => Log!LogInit
  BY DEF Init, WorldInit, LogOf, LivePaths, EmptyDb, EmptyTable, Log!LogInit
<1>2. ASSUME Inv, Next
      PROVE  [Log!Record \/ Log!Lose]_(Log!logVars)
  <2>0. Typed(db) /\ Consistent(db) /\ DOMAIN db = TableNames
    BY <1>2 DEF Inv, WorldInv, Typed
  <2>1. CASE UNCHANGED db
    BY <2>1 DEF Log!logVars
  <2>2. CASE CommitFull \/ CommitRest
    <3>1. PICK rs : Records(db, db', rs)
      BY <1>2, <2>2, Commits DEF Inv
    <3>2. Typed(db') /\ Grows(db, db')
      BY <3>1 DEF Records
    <3>3. QED
      BY <2>0, <3>2, GrowthIsRecord DEF Log!Record
  <2>3. CASE db' = MarkMissingNotSeen(db, opts.scope, seen)
    <3>1. db'.next_file_id = db.next_file_id
      BY <2>0, <2>3 DEF MarkMissingNotSeen, TableNames
    <3>2. QED
      BY <2>0, <2>3, <3>1, SweptOnly, LessLiveIsLose
  <2>4. CASE RecordGroup
    <3>1. db' = MarkFilesMissing(db, removed)
      BY <2>4 DEF RecordGroup, Recorded
    <3>2. db'.next_file_id = db.next_file_id
      BY <2>0, <3>1 DEF MarkFilesMissing, TableNames
    <3>3. QED
      BY <2>0, <3>1, <3>2, MarkedMissing, LessLiveIsLose
  <2>5. QED
    BY <1>2, <2>1, <2>2, <2>3, <2>4, DbChanges
<1>3. UNCHANGED vars => UNCHANGED Log!logVars
  BY DEF vars, worldVars, Log!logVars
<1>4. AllInv /\ [Next]_vars => [Log!Record \/ Log!Lose]_(Log!logVars)
  BY <1>2, <1>3 DEF AllInv
<1>5. QED
  BY <1>1, <1>4, AllInvHolds, PTL DEF Spec, CommandsImplementLog, Log!LogSpec
=============================================================================
