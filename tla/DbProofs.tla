------------------------------ MODULE DbProofs ------------------------------
(***************************************************************************)
(* Theorems about Db, for any paths, hashes, metadata and bound: the       *)
(* tables stay well formed and consistent, the history is kept, and the    *)
(* tables implement VersionLog.                                            *)
(***************************************************************************)
EXTENDS DbReports, TableLemmas

(* The inductive invariant.  The committed value and the working copy are  *)
(* both consistent, the copy continues the committed history, and between  *)
(* transactions the two are the same value.                                *)
IInv ==
  /\ TypeOK
  /\ Consistent(db)
  /\ Consistent(tx)
  /\ Extends(db, tx)
  /\ ~writing => tx = db

-----------------------------------------------------------------------------
(* The theorems *)

(* The inductive invariant holds initially. *)
LEMMA InitIInv == Init => IInv
BY EmptyDbGood, ExtendsReflexive DEF Init, IInv, TypeOK

(* Every step keeps the inductive invariant and the committed history. *)
LEMMA NextIInv == IInv /\ [Next]_vars => IInv' /\ Extends(db, db')
<1> SUFFICES ASSUME IInv, [Next]_vars
             PROVE  IInv' /\ Extends(db, db')
  OBVIOUS
<1> USE DEF IInv, TypeOK
<1>1. CASE BeginBatch
  BY <1>1, ExtendsReflexive DEF BeginBatch
<1>2. ASSUME NEW path \in Paths, NEW meta \in Metas, WriteItem(path, meta)
      PROVE  IInv' /\ Extends(db, db')
  <2>1. /\ Typed(tx') /\ Consistent(tx') /\ Extends(tx, tx')
    BY <1>2, WriteVersionTyped, WriteVersionConsistent, WriteVersionExtends
       DEF WriteItem, Consistent
  <2>2. Extends(db, tx')
    BY <1>2, <2>1, ExtendsTransitive DEF WriteItem
  <2>3. QED
    BY <1>2, <2>1, <2>2, ExtendsReflexive DEF WriteItem
<1>3. CASE CommitBatch
  BY <1>3, ExtendsReflexive DEF CommitBatch
<1>4. CASE AbortBatch
  BY <1>4, ExtendsReflexive DEF AbortBatch
<1>5. ASSUME NEW scope \in SUBSET Paths, NEW seen \in SUBSET scope,
             SweepMissing(scope, seen)
      PROVE  IInv' /\ Extends(db, db')
  BY <1>5, MarkMissingNotSeenGood, ExtendsReflexive DEF SweepMissing
<1>6. ASSUME NEW fids \in SUBSET DOMAIN db.file_state, RecordRemoved(fids)
      PROVE  IInv' /\ Extends(db, db')
  BY <1>6, MarkFilesMissingGood, ExtendsReflexive DEF RecordRemoved
<1>7. CASE UNCHANGED vars
  BY <1>7, ExtendsReflexive DEF vars
<1>8. QED
  BY <1>1, <1>2, <1>3, <1>4, <1>5, <1>6, <1>7 DEF Next

(* The inductive invariant holds in every reachable state. *)
LEMMA Invariance == Spec => []IInv
<1>1. IInv /\ [Next]_vars => IInv'
  BY NextIInv
<1>2. QED
  BY InitIInv, <1>1, PTL DEF Spec

(* In every reachable state both database values are well formed: each     *)
(* table has exactly the rows the two id counters announce.                *)
THEOREM TypeCorrect == Spec => []TypeOK
<1>1. IInv => TypeOK
  BY DEF IInv
<1>2. QED
  BY <1>1, Invariance, PTL

(* In every reachable state the committed tables agree with each other.    *)
THEOREM CommittedConsistent == Spec => []DbConsistent
<1>1. IInv => DbConsistent
  BY DEF IInv, DbConsistent
<1>2. QED
  BY <1>1, Invariance, PTL

(* In every reachable state a path has at most one Live version, so the    *)
(* entries of a duplicate group have distinct paths.                       *)
THEOREM OneLiveVersionPerPath == Spec => []LivePathsDistinct
<1>1. IInv => LivePathsDistinct
  <2> SUFFICES ASSUME Typed(db), Consistent(db),
                      NEW f \in DOMAIN db.file_state,
                      NEW g \in DOMAIN db.file_state,
                      db.file_state[f] = Live, db.file_state[g] = Live,
                      PathOf(db, f) = PathOf(db, g)
               PROVE  f = g
    BY DEF IInv, TypeOK, LivePathsDistinct
  <2>1. /\ db.file_to_path[f] \in DOMAIN db.id_to_path
        /\ db.file_to_path[g] \in DOMAIN db.id_to_path
    BY DEF Typed
  <2>2. db.file_to_path[f] = db.file_to_path[g]
    BY <2>1 DEF PathOf, Consistent, PathIdsInverse
  <2>3. /\ db.path_current[db.file_to_path[f]] = f
        /\ db.path_current[db.file_to_path[g]] = g
    BY DEF Consistent, ReplacedIffSuperseded, Live, Replaced
  <2>4. QED
    BY <2>2, <2>3
<1>2. QED
  BY <1>1, Invariance, PTL

(* No step of any behaviour loses or rewrites committed history.           *)
THEOREM HistoryIsKept == Spec => HistoryKept
<1>1. IInv /\ [Next]_vars => [Extends(db, db')]_db
  BY NextIInv
<1>2. QED
  BY <1>1, Invariance, PTL DEF Spec, HistoryKept

-----------------------------------------------------------------------------
(* Steps of Db are steps of VersionLog *)

(* Between commits the open transaction grows from the committed value.    *)
RInv == IInv /\ Grows(db, tx)

(* Every step of Db keeps the growth of the open transaction and is a step *)
(* of VersionLog, or none.                                                 *)
LEMMA StepSimulation ==
  ASSUME RInv, [Next]_vars
  PROVE  RInv' /\ [Log!Record \/ Log!Lose]_(Log!logVars)
<1> USE DEF RInv, IInv, TypeOK
<1>1. IInv'
  BY NextIInv
<1>2. CASE BeginBatch
  BY <1>1, <1>2 DEF BeginBatch, Log!logVars
<1>3. ASSUME NEW path \in Paths, NEW meta \in Metas, WriteItem(path, meta)
      PROVE  RInv' /\ [Log!Record \/ Log!Lose]_(Log!logVars)
  <2>1. Grows(db, tx)'
    BY <1>3, GrowsByWrite DEF WriteItem
  <2>2. QED
    BY <1>1, <1>3, <2>1 DEF WriteItem, Log!logVars
<1>4. CASE CommitBatch
  <2>1. Grows(db, tx)'
    BY <1>4, GrowsReflexive DEF CommitBatch
  <2>2. Log!Record
    BY <1>4, GrowthIsRecord DEF CommitBatch, Log!Record
  <2>3. QED
    BY <1>1, <2>1, <2>2
<1>5. CASE AbortBatch
  BY <1>1, <1>5, GrowsReflexive DEF AbortBatch, Log!logVars
<1>6. ASSUME NEW scope \in SUBSET Paths, NEW seen \in SUBSET scope,
             SweepMissing(scope, seen)
      PROVE  RInv' /\ [Log!Record \/ Log!Lose]_(Log!logVars)
  <2>1. Grows(db, tx)'
    BY <1>1, <1>6, GrowsReflexive DEF SweepMissing
  <2>2. Log!Lose
    <3> DEFINE gone == { db.path_current[pid] :
                           pid \in { i \in DOMAIN db.path_current \cap DOMAIN db.id_to_path :
                                       db.id_to_path[i] \in scope \ seen } }
               s == [f \in DOMAIN db.file_state |->
                       IF f \in gone /\ db.file_state[f] = Live
                       THEN Missing ELSE db.file_state[f]]
    <3>1. db' = [db EXCEPT !.file_state = s]
      BY <1>6 DEF SweepMissing, MarkMissingNotSeen
    <3> HIDE DEF gone
    <3>2. /\ DOMAIN s = DOMAIN db.file_state
          /\ \A f \in DOMAIN db.file_state : s[f] = Live => db.file_state[f] = Live
      BY DEF Live, Missing
    <3> HIDE DEF s
    <3>3. QED
      BY <3>1, <3>2, MissingIsLose DEF Log!Lose
  <2>3. QED
    BY <1>1, <2>1, <2>2
<1>7. ASSUME NEW fids \in SUBSET DOMAIN db.file_state, RecordRemoved(fids)
      PROVE  RInv' /\ [Log!Record \/ Log!Lose]_(Log!logVars)
  <2>1. Grows(db, tx)'
    BY <1>1, <1>7, GrowsReflexive DEF RecordRemoved
  <2>2. Log!Lose
    <3> DEFINE s == [f \in DOMAIN db.file_state |->
                       IF f \in fids /\ db.file_state[f] = Live
                       THEN Missing ELSE db.file_state[f]]
    <3>1. db' = [db EXCEPT !.file_state = s]
      BY <1>7 DEF RecordRemoved, MarkFilesMissing
    <3>2. /\ DOMAIN s = DOMAIN db.file_state
          /\ \A f \in DOMAIN db.file_state : s[f] = Live => db.file_state[f] = Live
      BY DEF Live, Missing
    <3> HIDE DEF s
    <3>3. QED
      BY <3>1, <3>2, MissingIsLose DEF Log!Lose
  <2>3. QED
    BY <1>1, <2>1, <2>2
<1>8. CASE UNCHANGED vars
  BY <1>1, <1>8 DEF vars, Log!logVars
<1>9. QED
  BY <1>2, <1>3, <1>4, <1>5, <1>6, <1>7, <1>8 DEF Next

(* Every behaviour of the tables and their transactions, seen as a log and *)
(* a set of Live paths, is a behaviour of VersionLog.                      *)
THEOREM DbImplementsVersionLog == Spec => ImplementsVersionLog
<1>1. Init => RInv /\ Log!LogInit
  <2>1. Typed(EmptyDb)
    BY EmptyDbGood
  <2>2. Grows(EmptyDb, EmptyDb)
    BY <2>1, GrowsReflexive
  <2>3. LogOf(EmptyDb) = [i \in 1..0 |-> i] /\ LivePaths(EmptyDb) = {}
    BY DEF LogOf, LivePaths, EmptyDb, EmptyTable
  <2>4. QED
    BY InitIInv, <2>2, <2>3 DEF Init, RInv, Log!LogInit
<1>2. RInv /\ [Next]_vars => RInv' /\ [Log!Record \/ Log!Lose]_(Log!logVars)
  BY StepSimulation
<1>3. QED
  BY <1>1, <1>2, PTL DEF Spec, ImplementsVersionLog, Log!LogSpec

-----------------------------------------------------------------------------
(* The duplicate groups are those of the log *)

GInv == IInv /\ CurrentIsLatest(db) /\ CurrentIsLatest(tx)

(* In a consistent value whose current versions are the newest, the index  *)
(* and the log have the same copies of every content.                      *)
LEMMA GroupsOfLatest ==
  ASSUME Typed(db), Consistent(db), CurrentIsLatest(db)
  PROVE  GroupsAreOfLatest
<1> DEFINE ids == 1..(db.next_file_id - 1)
<1>1. /\ db.next_file_id \in Nat
      /\ DOMAIN db.file_meta = ids
      /\ DOMAIN db.file_to_path = ids
      /\ DOMAIN db.file_state = ids
      /\ \A f \in ids : db.file_to_path[f] \in DOMAIN db.id_to_path
      /\ \A f \in ids : db.path_current[db.file_to_path[f]] \in ids
      /\ \A h \in Hashes : db.hash256_to_files[h] \subseteq ids
  BY DEF Typed
<1>2. \A f, g \in ids : PathOf(db, f) = PathOf(db, g) <=> db.file_to_path[f] = db.file_to_path[g]
  BY <1>1 DEF PathOf, Consistent, PathIdsInverse
<1>3. \A f \in ids : db.file_state[f] = Live => db.path_current[db.file_to_path[f]] = f
  BY <1>1 DEF Consistent, ReplacedIffSuperseded, Live, Replaced
<1>4. /\ DOMAIN LogOf(db) = ids
      /\ \A f \in ids : LogOf(db)[f].path = PathOf(db, f)
                        /\ LogOf(db)[f].meta = db.file_meta[f]
  BY DEF LogOf
<1>5. \A f \in ids : db.file_state[f] = Live => Log!IsLatest(f)
  <2> SUFFICES ASSUME NEW f \in ids, db.file_state[f] = Live, NEW j \in ids, j > f
               PROVE  PathOf(db, j) # PathOf(db, f)
    BY <1>4 DEF Log!IsLatest
  <2>1. db.path_current[db.file_to_path[f]] = f /\ j <= db.path_current[db.file_to_path[j]]
    BY <1>1, <1>3 DEF CurrentIsLatest
  <2>2. f \in Nat /\ j \in Nat
    BY <1>1
  <2>3. db.file_to_path[j] # db.file_to_path[f]
    BY <2>1, <2>2
  <2>4. QED
    BY <1>2, <2>3
<1>6. \A f \in ids : Log!IsLatest(f) /\ PathOf(db, f) \in LivePaths(db)
                      => db.file_state[f] = Live
  <2> SUFFICES ASSUME NEW f \in ids, Log!IsLatest(f), PathOf(db, f) \in LivePaths(db)
               PROVE  db.file_state[f] = Live
    OBVIOUS
  <2>1. PICK g \in ids : db.file_state[g] = Live /\ PathOf(db, g) = PathOf(db, f)
    BY <1>1 DEF LivePaths
  <2>2. f <= g
    BY <1>1, <1>2, <1>3, <2>1 DEF CurrentIsLatest
  <2>3. ~(g > f)
    BY <1>4, <2>1 DEF Log!IsLatest
  <2>4. f = g
    BY <1>1, <2>2, <2>3
  <2>5. QED
    BY <2>1, <2>4
<1>7. ASSUME NEW h \in Hashes
      PROVE  LiveEntries(db, h)
               = { f \in ids : /\ Log!IsLatest(f)
                               /\ LogOf(db)[f].path \in LivePaths(db)
                               /\ LogOf(db)[f].meta.hash256 = h }
  <2>1. \A f \in ids : f \in db.hash256_to_files[h] <=> db.file_meta[f].hash256 = h
    BY <1>1 DEF Consistent, IndexExact
  <2>2. LiveEntries(db, h) = { f \in ids : db.file_state[f] = Live /\ db.file_meta[f].hash256 = h }
    BY <1>1, <2>1 DEF LiveEntries, LookupFilesByHash256
  <2>3. \A f \in ids : db.file_state[f] = Live => PathOf(db, f) \in LivePaths(db)
    BY <1>1 DEF LivePaths
  <2>4. \A f \in ids : db.file_state[f] = Live
                          <=> Log!IsLatest(f) /\ LogOf(db)[f].path \in LivePaths(db)
    BY <1>4, <1>5, <1>6, <2>3
  <2> HIDE DEF ids
  <2>5. QED
    BY <1>4, <2>2, <2>4
<1>8. ASSUME NEW h \in Hashes
      PROVE  { PathOf(db, f) : f \in LiveEntries(db, h) } = Log!Copies(h)
  <2>1. Log!Copies(h) = { LogOf(db)[f].path : f \in LiveEntries(db, h) }
    BY <1>4, <1>7 DEF Log!Copies
  <2>2. LiveEntries(db, h) \subseteq ids
    BY <1>7
  <2>3. QED
    BY <1>4, <2>1, <2>2
<1>9. QED
  BY <1>8 DEF GroupsAreOfLatest

(* Every step keeps current versions the newest.                           *)
LEMMA NextGInv == GInv /\ [Next]_vars => GInv'
<1> SUFFICES ASSUME GInv, [Next]_vars PROVE GInv'
  OBVIOUS
<1> USE DEF GInv, IInv, TypeOK
<1>1. IInv'
  BY NextIInv
<1>2. ASSUME NEW path \in Paths, NEW meta \in Metas, WriteItem(path, meta)
      PROVE  GInv'
  BY <1>1, <1>2, WriteVersionLatest DEF WriteItem
<1>3. ASSUME NEW scope, NEW seen, SweepMissing(scope, seen)
      PROVE  GInv'
  <2>1. /\ db'.file_to_path = db.file_to_path
        /\ db'.path_current = db.path_current
    BY <1>3 DEF SweepMissing, MarkMissingNotSeen, Typed, TableNames
  <2>2. QED
    BY <1>1, <1>3, <2>1 DEF SweepMissing, CurrentIsLatest
<1>4. ASSUME NEW fids, RecordRemoved(fids)
      PROVE  GInv'
  <2>1. /\ db'.file_to_path = db.file_to_path
        /\ db'.path_current = db.path_current
    BY <1>4 DEF RecordRemoved, MarkFilesMissing, Typed, TableNames
  <2>2. QED
    BY <1>1, <1>4, <2>1 DEF RecordRemoved, CurrentIsLatest
<1>5. CASE BeginBatch \/ CommitBatch \/ AbortBatch \/ UNCHANGED vars
  BY <1>1, <1>5 DEF BeginBatch, CommitBatch, AbortBatch, vars
<1>6. QED
  BY <1>2, <1>3, <1>4, <1>5 DEF Next

(* What GInv says holds from the start and always. *)
LEMMA GInvariance == Spec => []GInv
<1>1. Init => GInv
  <2>1. CurrentIsLatest(EmptyDb)
    BY DEF CurrentIsLatest, EmptyDb, EmptyTable
  <2>2. QED
    BY InitIInv, <2>1 DEF Init, GInv
<1>2. QED
  BY <1>1, NextGInv, PTL DEF Spec

(* In every reachable state, whatever was written, superseded, swept and   *)
(* deleted, the duplicate groups read from the index are exactly the Live  *)
(* paths whose latest version in the log has that content.                 *)
THEOREM GroupsAreThoseOfTheLog == Spec => []GroupsAreOfLatest
<1>1. GInv => GroupsAreOfLatest
  BY GroupsOfLatest DEF GInv, IInv, TypeOK
<1>2. QED
  BY <1>1, GInvariance, PTL

-----------------------------------------------------------------------------
(* The reports: potential duplicates *)

(* When what has one hash has one beginning, no file is offered both as an *)
(* exact and as a potential duplicate, and no two potential ones have the  *)
(* same content, whatever versions the history holds and whatever sizes    *)
(* are asked for.                                                          *)
THEOREM ReportsAreDisjoint ==
  ASSUME FilesAtRest
  PROVE  Spec => []ReportsDisjoint
<1>1. ASSUME Typed(db), Consistent(db), NEW min, NEW max,
             NEW potential \in PotentialReport(db, Paths, min, max)
      PROVE  /\ \A f, g \in potential :
                  db.file_meta[f].hash256 = db.file_meta[g].hash256 => f = g
             /\ \A exact \in DupesReport(db, Paths, {}, {}) : potential \cap exact = {}
  <2>1. PICK prefix : potential \subseteq SingleBuckets(db, prefix)
    BY <1>1 DEF PotentialReport, PotentialGroups
  <2>2. \A f \in potential :
          /\ f \in WithPrefix(db, prefix)
          /\ \A g \in WithPrefix(db, prefix) :
               db.file_meta[g].hash256 = db.file_meta[f].hash256 => g = f
    BY <2>1 DEF SingleBuckets
  <2>3. ASSUME NEW exact \in DupesReport(db, Paths, {}, {}), NEW f \in potential, f \in exact
        PROVE  FALSE
    <3>1. PICK h \in Hashes : exact = LiveEntries(db, h) /\ Cardinality(exact) >= 2
      BY DEF DupesReport, DupeGroups
    <3>2. /\ exact = { g \in LiveIn(db) : db.file_meta[g].hash256 = h }
          /\ \A g \in LiveIn(db) : db.file_meta[g] \in Metas
      BY <1>1, <3>1, LiveVersions DEF LiveIn
    <3>3. PICK g \in exact : g # f
      <4>1. exact # {f}
        <5>1. Cardinality({f}) = 1 /\ ~(1 >= 2)
          BY FS_Singleton
        <5>2. QED
          BY <3>1, <5>1
      <4>2. QED
        BY <2>3, <4>1
    <3>4. /\ g \in LiveIn(db) /\ f \in LiveIn(db)
          /\ db.file_meta[g].hash256 = db.file_meta[f].hash256
      BY <2>3, <3>2
    <3>5. db.file_meta[g].sha1prefix_4k = db.file_meta[f].sha1prefix_4k
      BY <3>2, <3>4 DEF FilesAtRest
    <3>6. g \in WithPrefix(db, prefix)
      BY <2>2, <3>4, <3>5 DEF WithPrefix, VersionsIn, LiveIn
    <3>7. QED
      BY <2>2, <3>3, <3>4, <3>6
  <2>4. QED
    BY <2>2, <2>3
<1>2. IInv => ReportsDisjoint
  <2>1. SUFFICES ASSUME IInv PROVE ReportsDisjoint
    OBVIOUS
  <2>2. Typed(db) /\ Consistent(db)
    BY <2>1 DEF IInv, TypeOK
  <2>3. QED
    BY <1>1, <2>2 DEF ReportsDisjoint
<1>3. QED
  BY <1>2, Invariance, PTL

-----------------------------------------------------------------------------
(* The reports: figures *)

(* What stats adds up is a sum: of the sizes of versions,                  *)
LEMMA SizesAddUp ==
  ASSUME NEW d, NEW S, IsFiniteSet(S), \A f \in S : SizeIn(d, f) \in Nat
  PROVE  \E sum : Adds([f \in S |-> SizeIn(d, f)], S, sum) /\ TotalSize(d, S) = sum[S]
<1> DEFINE one(s) == CHOOSE x \in s : TRUE
           w == [f \in S |-> SizeIn(d, f)]
           It(r) == r = [s \in SUBSET S |->
                      IF s = {} THEN 0 ELSE SizeIn(d, one(s)) + r[s \ {one(s)}]]
           sum == CHOOSE r : It(r)
<1>1. TotalSize(d, S) = sum[S]
  BY DEF TotalSize, MapThenSumSet, MapThenFoldSet
<1>2. \A s \in SUBSET S : s # {} => w[one(s)] = SizeIn(d, one(s))
  OBVIOUS
<1>3. \A r : IsSum(w, S, r) <=> It(r)
  <2> HIDE DEF w
  <2>1. QED
    BY <1>2 DEF IsSum
<1>4. IsSum(w, S, sum)
  <2> HIDE DEF It, w
  <2>1. \E r : IsSum(w, S, r)
    BY SumExists
  <2>2. QED
    BY <1>3, <2>1
<1>5. \A f \in S : w[f] \in Int
  OBVIOUS
<1> HIDE DEF sum
<1>6. Adds(w, S, sum)
  <2> HIDE DEF w
  <2>1. QED
    BY <1>4, <1>5, SumAdds
<1>7. QED
  BY <1>1, <1>6

(* of the versions beyond one in each group,                               *)
LEMMA ExtraAddUp ==
  ASSUME NEW G, IsFiniteSet(G), \A g \in G : ExtraOfGroup(g) \in Int
  PROVE  \E sum : Adds([g \in G |-> ExtraOfGroup(g)], G, sum)
                  /\ MapThenSumSet(ExtraOfGroup, G) = sum[G]
<1> DEFINE one(s) == CHOOSE x \in s : TRUE
           w == [g \in G |-> ExtraOfGroup(g)]
           It(r) == r = [s \in SUBSET G |->
                      IF s = {} THEN 0 ELSE ExtraOfGroup(one(s)) + r[s \ {one(s)}]]
           sum == CHOOSE r : It(r)
<1>1. MapThenSumSet(ExtraOfGroup, G) = sum[G]
  BY DEF MapThenSumSet, MapThenFoldSet
<1>2. \A s \in SUBSET G : s # {} => w[one(s)] = ExtraOfGroup(one(s))
  OBVIOUS
<1>3. \A r : IsSum(w, G, r) <=> It(r)
  <2> HIDE DEF w
  <2>1. QED
    BY <1>2 DEF IsSum
<1>4. IsSum(w, G, sum)
  <2> HIDE DEF It, w
  <2>1. \E r : IsSum(w, G, r)
    BY SumExists
  <2>2. QED
    BY <1>3, <2>1
<1>5. \A g \in G : w[g] \in Int
  OBVIOUS
<1> HIDE DEF sum
<1>6. Adds(w, G, sum)
  <2> HIDE DEF w
  <2>1. QED
    BY <1>4, <1>5, SumAdds
<1>7. QED
  BY <1>1, <1>6

(* What all but one file of each group take. *)
BytesBeyondOne(d, groups) ==
  MapThenSumSet(LAMBDA g : ExtraOfGroup(g) * SizeIn(d, Head(ByPath(d, g))), groups)

(* of what they take,                                                      *)
LEMMA ExtraBytesAddUp ==
  ASSUME NEW d, NEW G, IsFiniteSet(G),
         \A g \in G : ExtraOfGroup(g) * SizeIn(d, Head(ByPath(d, g))) \in Int
  PROVE  \E sum : /\ Adds([g \in G |-> ExtraOfGroup(g) * SizeIn(d, Head(ByPath(d, g)))], G, sum)
                  /\ BytesBeyondOne(d, G) = sum[G]
<1> DEFINE one(s) == CHOOSE x \in s : TRUE
           bytes(g) == ExtraOfGroup(g) * SizeIn(d, Head(ByPath(d, g)))
           w == [g \in G |-> bytes(g)]
           It(r) == r = [s \in SUBSET G |->
                      IF s = {} THEN 0 ELSE bytes(one(s)) + r[s \ {one(s)}]]
           sum == CHOOSE r : It(r)
<1>1. BytesBeyondOne(d, G) = sum[G]
  BY DEF BytesBeyondOne, MapThenSumSet, MapThenFoldSet
<1>2. \A s \in SUBSET G : s # {} => w[one(s)] = bytes(one(s))
  <2> HIDE DEF bytes
  <2>1. QED
    OBVIOUS
<1>3. \A r : IsSum(w, G, r) <=> It(r)
  <2> HIDE DEF w, bytes
  <2>1. QED
    BY <1>2 DEF IsSum
<1>4. \A g \in G : w[g] \in Int
  OBVIOUS
<1> HIDE DEF w
<1>5. IsSum(w, G, sum)
  <2> HIDE DEF It, bytes
  <2>1. \E r : IsSum(w, G, r)
    BY SumExists
  <2>2. QED
    BY <1>3, <2>1
<1> HIDE DEF sum
<1>6. Adds(w, G, sum)
  BY <1>4, <1>5, SumAdds
<1>7. QED
  BY <1>1, <1>6 DEF w

(* What files of each of these metadata take. *)
SizesOf(metas) == MapThenSumSet(LAMBDA m : m.size, metas)

(* and of the sizes of metadata.                                           *)
LEMMA MetaSizesAddUp ==
  ASSUME NEW M, IsFiniteSet(M), \A m \in M : m.size \in Nat
  PROVE  \E sum : Adds([m \in M |-> m.size], M, sum)
                  /\ SizesOf(M) = sum[M]
<1> DEFINE one(s) == CHOOSE x \in s : TRUE
           w == [m \in M |-> m.size]
           It(r) == r = [s \in SUBSET M |->
                      IF s = {} THEN 0 ELSE one(s).size + r[s \ {one(s)}]]
           sum == CHOOSE r : It(r)
<1>1. SizesOf(M) = sum[M]
  BY DEF SizesOf, MapThenSumSet, MapThenFoldSet
<1>2. \A s \in SUBSET M : s # {} => w[one(s)] = one(s).size
  OBVIOUS
<1>3. \A r : IsSum(w, M, r) <=> It(r)
  <2> HIDE DEF w
  <2>1. QED
    BY <1>2 DEF IsSum
<1>4. IsSum(w, M, sum)
  <2> HIDE DEF It, w
  <2>1. \E r : IsSum(w, M, r)
    BY SumExists
  <2>2. QED
    BY <1>3, <2>1
<1>5. \A m \in M : w[m] \in Int
  OBVIOUS
<1> HIDE DEF sum
<1>6. Adds(w, M, sum)
  <2> HIDE DEF w
  <2>1. QED
    BY <1>4, <1>5, SumAdds
<1>7. QED
  BY <1>1, <1>6

(* The contents with a Live version. *)
LiveContents(d) == { h \in Hashes : LiveEntries(d, h) # {} }

(* The Live versions are divided among their contents, and the groups      *)
(* reported are those of two or more.                                      *)
LEMMA LiveDivided ==
  ASSUME NEW d, Typed(d), Consistent(d)
  PROVE  /\ IsFiniteSet(LiveContents(d))
         /\ IsFiniteSet(DupeGroups(d, Paths))
         /\ \A h \in LiveContents(d) :
              /\ LiveEntries(d, h) # {}
              /\ LiveEntries(d, h) = { f \in LiveIn(d) : d.file_meta[f].hash256 = h }
         /\ LiveIn(d) = UNION { LiveEntries(d, h) : h \in LiveContents(d) }
         /\ DupeGroups(d, Paths) = { LiveEntries(d, h) :
              h \in { k \in LiveContents(d) : Cardinality(LiveEntries(d, k)) >= 2 } }
         /\ \A g \in DupeGroups(d, Paths) : /\ Cardinality(g) \in Nat
                                            /\ Head(ByPath(d, g)) \in g
<1> DEFINE L == LiveIn(d)
           C == LiveContents(d)
           G == DupeGroups(d, Paths)
<1>1. /\ IsFiniteSet(L)
      /\ \A f \in L : d.file_meta[f] \in Metas /\ PathOf(d, f) \in Paths
      /\ \A h \in Hashes : LiveEntries(d, h) = { f \in L : d.file_meta[f].hash256 = h }
  BY LiveVersions DEF LiveIn
<1> HIDE DEF L
<1>2. \A f \in L : d.file_meta[f].hash256 \in C /\ f \in LiveEntries(d, d.file_meta[f].hash256)
  BY <1>1, MetasAssumption DEF LiveContents
<1>3. IsFiniteSet(C)
  <2> DEFINE k == [f \in L |-> d.file_meta[f].hash256]
  <2>1. \A h \in C : \E f \in L : k[f] = h
    BY <1>1 DEF LiveContents
  <2>2. k \in [L -> C]
    BY <1>2
  <2>3. k \in Surjection(L, C)
    <3> HIDE DEF C, k
    <3>1. QED
      BY <2>1, <2>2 DEF Surjection
  <2>4. QED
    BY <1>1, <2>3, FS_Surjection
<1>4. ASSUME NEW h \in Hashes, Cardinality(LiveEntries(d, h)) >= 2
      PROVE  h \in C /\ \E f \in LiveEntries(d, h) : PathOf(d, f) \in Paths
  <2>1. LiveEntries(d, h) # {}
    <3>1. Cardinality({}) = 0 /\ ~(0 >= 2)
      BY FS_EmptySet
    <3>2. QED
      BY <1>4, <3>1
  <2>2. QED
    BY <1>1, <2>1 DEF LiveContents
<1>5. G = { LiveEntries(d, h) : h \in { k \in C : Cardinality(LiveEntries(d, k)) >= 2 } }
  <2>1. C \subseteq Hashes
    BY DEF LiveContents
  <2> HIDE DEF C
  <2>2. QED
    BY <1>4, <2>1 DEF DupeGroups
<1>6. IsFiniteSet(G)
  <2> DEFINE D == { k \in C : Cardinality(LiveEntries(d, k)) >= 2 }
             e == [h \in D |-> LiveEntries(d, h)]
  <2>1. IsFiniteSet(D)
    BY <1>3, FS_Subset
  <2>2. e \in [D -> G] /\ \A g \in G : \E h \in D : e[h] = g
    BY <1>5
  <2>3. e \in Surjection(D, G)
    <3> HIDE DEF D, e, G
    <3>1. QED
      BY <2>2 DEF Surjection
  <2>4. QED
    BY <2>1, <2>3, FS_Surjection
<1>7. ASSUME NEW g \in G
      PROVE  Cardinality(g) \in Nat /\ Head(ByPath(d, g)) \in g
  <2> DEFINE rank == [f \in g |-> PathRank[PathOf(d, f)]]
             s == Sorted(g, rank)
  <2>1. g \subseteq L /\ g # {}
    BY <1>1, <1>5 DEF LiveContents
  <2>2. IsFiniteSet(g)
    BY <1>1, <2>1, FS_Subset
  <2>3. \A f \in g : rank[f] \in Nat
    BY <1>1, <2>1, DupePlanAssumption
  <2> HIDE DEF rank
  <2>4. s \in Seq(g) /\ Range(s) = g
    BY <2>2, <2>3, SortedSet
  <2>5. s # <<>>
    BY <2>1, <2>4, EmptyQueue
  <2>6. Head(s) \in g
    BY <2>4, <2>5, TailQueue
  <2>7. QED
    BY <2>2, <2>6, FS_CardinalityType DEF ByPath, rank
<1>8. L = UNION { LiveEntries(d, h) : h \in C }
  BY <1>1, <1>2 DEF LiveContents
<1>9. QED
  BY <1>1, <1>3, <1>5, <1>6, <1>7, <1>8 DEF LiveContents, L

(* The extra files are the Live ones beyond one per content.               *)
LEMMA ExtraFiles ==
  ASSUME NEW d, Typed(d), Consistent(d)
  PROVE  /\ Stats(d).dupe_extra_files \in Int
         /\ Cardinality(LiveIn(d)) = Stats(d).dupe_extra_files + Cardinality(LiveContents(d))
<1> DEFINE L == LiveIn(d)
           C == LiveContents(d)
           G == DupeGroups(d, Paths)
           E == [h \in C |-> LiveEntries(d, h)]
           each == [h \in C |-> 1]
           name == [h \in C |-> h]
           w == [f \in L |-> 1]
           v == [g \in G |-> ExtraOfGroup(g)]
<1>1. IsFiniteSet(L) /\ IsFiniteSet(C) /\ IsFiniteSet(G)
  BY LiveVersions, LiveDivided
<1>2. Grouped(C, E, each, name, L, w, G, v, C, each)
  <2>1. /\ \A h \in C : /\ LiveEntries(d, h) # {}
                        /\ LiveEntries(d, h) = { f \in L : d.file_meta[f].hash256 = h }
        /\ L = UNION { LiveEntries(d, h) : h \in C }
        /\ G = { LiveEntries(d, h) : h \in { k \in C : Cardinality(LiveEntries(d, k)) >= 2 } }
        /\ \A g \in G : Cardinality(g) \in Nat
    BY LiveDivided
  <2> HIDE DEF L, C, G
  <2>2. \A k \in C : E[k] \in SUBSET L /\ E[k] # {} /\ each[k] \in Int
    BY <2>1
  <2>3. \A k, j \in C : k # j => E[k] \cap E[j] = {} /\ name[k] # name[j]
    BY <2>1
  <2>4. L = UNION { E[k] : k \in C }
    BY <2>1
  <2>5. \A k \in C : \A x \in E[k] : w[x] = each[k]
    BY <2>1
  <2>6. G = { E[k] : k \in { j \in C : Cardinality(E[j]) >= 2 } }
    BY <2>1
  <2>7. \A k \in C : E[k] \in G => v[E[k]] = (Cardinality(E[k]) - 1) * each[k]
    BY <2>1 DEF ExtraOfGroup
  <2>8. C = { name[k] : k \in C } /\ \A k \in C : each[name[k]] = each[k]
    OBVIOUS
  <2> HIDE DEF E, each, name, w, v
  <2>9. QED
    BY <2>2, <2>3, <2>4, <2>5, <2>6, <2>7, <2>8 DEF Grouped
<1>3. PICK extra : Adds(v, G, extra) /\ Stats(d).dupe_extra_files = extra[G]
  <2>1. \A g \in G : ExtraOfGroup(g) \in Int
    BY LiveDivided DEF ExtraOfGroup
  <2>2. Stats(d).dupe_extra_files = MapThenSumSet(ExtraOfGroup, G)
    BY DEF Stats
  <2> HIDE DEF G
  <2>3. QED
    BY <1>1, <2>1, <2>2, ExtraAddUp
<1>4. PICK all : Adds(w, L, all)
  <2>1. \A f \in L : w[f] \in Int
    OBVIOUS
  <2> HIDE DEF w, L
  <2>2. QED
    BY <1>1, <2>1, SumExists, SumAdds
<1>5. PICK once : Adds(each, C, once)
  <2>1. \A h \in C : each[h] \in Int
    OBVIOUS
  <2> HIDE DEF each, C
  <2>2. QED
    BY <1>1, <2>1, SumExists, SumAdds
<1>6. all[L] = Cardinality(L) /\ once[C] = Cardinality(C)
  <2>1. \A f \in L : w[f] = 1
    OBVIOUS
  <2>2. \A h \in C : each[h] = 1
    OBVIOUS
  <2> HIDE DEF w, L, C, each
  <2>3. all[L] = Cardinality(L)
    BY <1>1, <1>4, <2>1, SumCounts
  <2>4. once[C] = Cardinality(C)
    BY <1>1, <1>5, <2>2, SumCounts
  <2>5. QED
    BY <2>3, <2>4
<1>7. all[L] = extra[G] + once[C]
  <2> HIDE DEF L, C, G, E, each, name, w, v
  <2>1. QED
    BY <1>1, <1>2, <1>3, <1>4, <1>5, GroupedSum
<1>8. extra[G] \in Int
  <2> HIDE DEF G, v
  <2>1. QED
    BY <1>3 DEF Adds
<1>9. QED
  BY <1>3, <1>6, <1>7, <1>8

(* With files at rest, the bytes of the Live versions less those of the    *)
(* extra files are those of the distinct contents.                         *)
LEMMA UniqueIsOnce ==
  ASSUME FilesAtRest, Typed(db), Consistent(db)
  PROVE  UniqueBytes(Stats(db)) = SizeOnce(VersionsIn(db, Live))
<1> DEFINE L == LiveIn(db)
           C == LiveContents(db)
           G == DupeGroups(db, Paths)
           clean(f) == [db.file_meta[f] EXCEPT !.mtime_secs = 0]
           M == { clean(f) : f \in L }
           E == [h \in C |-> LiveEntries(db, h)]
           any(h) == CHOOSE f \in LiveEntries(db, h) : TRUE
           size == [h \in C |-> SizeIn(db, any(h))]
           name == [h \in C |-> clean(any(h))]
           w == [f \in L |-> SizeIn(db, f)]
           v == [g \in G |-> ExtraOfGroup(g) * SizeIn(db, Head(ByPath(db, g)))]
           u == [m \in M |-> m.size]
<1>1. IsFiniteSet(L) /\ IsFiniteSet(C) /\ IsFiniteSet(G)
  BY LiveVersions, LiveDivided
<1>2. /\ \A h \in C : /\ LiveEntries(db, h) # {}
                      /\ LiveEntries(db, h) = { f \in L : db.file_meta[f].hash256 = h }
      /\ L = UNION { LiveEntries(db, h) : h \in C }
      /\ G = { LiveEntries(db, h) : h \in { k \in C : Cardinality(LiveEntries(db, k)) >= 2 } }
      /\ \A g \in G : Cardinality(g) \in Nat /\ Head(ByPath(db, g)) \in g
  BY LiveDivided
<1>3. \A f \in L : db.file_meta[f] \in Metas /\ SizeIn(db, f) \in Nat
  BY LiveVersions, MetasAssumption DEF LiveIn, SizeIn
<1>4. \A f \in L : /\ clean(f).size = SizeIn(db, f)
                   /\ clean(f).hash256 = db.file_meta[f].hash256
  BY <1>3, ReportsAssumption DEF SizeIn
<1>5. \A f, g \in L : db.file_meta[f].hash256 = db.file_meta[g].hash256
                        => clean(f) = clean(g) /\ SizeIn(db, f) = SizeIn(db, g)
  <2>1. ASSUME NEW m \in Metas, NEW n \in Metas, m.hash256 = n.hash256
        PROVE  [m EXCEPT !.mtime_secs = 0] = [n EXCEPT !.mtime_secs = 0] /\ m.size = n.size
    <3>1. m.size = n.size /\ m.sha1prefix_4k = n.sha1prefix_4k
      BY <2>1 DEF FilesAtRest
    <3> DEFINE P == SUBSET UNION { k.sha1prefix_4k : k \in Metas }
    <3>2. /\ m \in [size : Nat, mtime_secs : Nat, hash256 : Hashes, sha1prefix_4k : P]
          /\ n \in [size : Nat, mtime_secs : Nat, hash256 : Hashes, sha1prefix_4k : P]
      BY ReportsAssumption
    <3> HIDE DEF P
    <3>3. QED
      BY <2>1, <3>1, <3>2
  <2>2. QED
    BY <1>3, <2>1 DEF SizeIn
<1> HIDE DEF clean, L, C, G
<1>6. \A h \in C : any(h) \in LiveEntries(db, h) /\ any(h) \in L
  BY <1>2
<1> HIDE DEF any
<1>7. \A h \in C : \A f \in LiveEntries(db, h) :
        f \in L /\ clean(f) = clean(any(h)) /\ SizeIn(db, f) = SizeIn(db, any(h))
        /\ db.file_meta[f].hash256 = h
  <2>1. SUFFICES ASSUME NEW h \in C, NEW f \in LiveEntries(db, h)
                 PROVE  f \in L /\ clean(f) = clean(any(h)) /\ SizeIn(db, f) = SizeIn(db, any(h))
                        /\ db.file_meta[f].hash256 = h
    OBVIOUS
  <2>2. LiveEntries(db, h) = { g \in L : db.file_meta[g].hash256 = h }
    BY <1>2
  <2>3. f \in L /\ any(h) \in L /\ db.file_meta[f].hash256 = h
        /\ db.file_meta[any(h)].hash256 = h
    BY <1>6, <2>2
  <2>4. clean(f) = clean(any(h)) /\ SizeIn(db, f) = SizeIn(db, any(h))
    BY <1>5, <2>3
  <2>5. QED
    BY <2>3, <2>4
<1>8. Grouped(C, E, size, name, L, w, G, v, M, u)
  <2>1. \A k \in C : E[k] \in SUBSET L /\ E[k] # {} /\ size[k] \in Int
    BY <1>2, <1>3, <1>6
  <2>2. \A k, j \in C : k # j => E[k] \cap E[j] = {} /\ name[k] # name[j]
    <3>1. \A k \in C : name[k].hash256 = k
      BY <1>4, <1>6, <1>7
    <3>2. \A k, j \in C : k # j => name[k] # name[j]
      <4> HIDE DEF name
      <4>1. QED
        BY <3>1
    <3>3. \A k, j \in C : k # j => E[k] \cap E[j] = {}
      BY <1>7
    <3>4. QED
      BY <3>2, <3>3
  <2>3. L = UNION { E[k] : k \in C }
    BY <1>2
  <2>4. \A k \in C : \A x \in E[k] : w[x] = size[k]
    BY <1>7
  <2>5. G = { E[k] : k \in { j \in C : Cardinality(E[j]) >= 2 } }
    BY <1>2
  <2>6. \A k \in C : E[k] \in G => v[E[k]] = (Cardinality(E[k]) - 1) * size[k]
    <3>1. ASSUME NEW k \in C, E[k] \in G
          PROVE  SizeIn(db, Head(ByPath(db, E[k]))) = size[k]
      <4>1. Head(ByPath(db, E[k])) \in LiveEntries(db, k)
        BY <1>2, <3>1
      <4>2. QED
        BY <1>7, <4>1
    <3>2. QED
      BY <3>1 DEF ExtraOfGroup
  <2>7. M = { name[k] : k \in C }
    <3>1. ASSUME NEW f \in L
          PROVE  \E k \in C : clean(f) = name[k]
      <4>1. PICK k \in C : f \in LiveEntries(db, k)
        BY <1>2
      <4>2. QED
        BY <1>7, <4>1
    <3>2. \A k \in C : name[k] \in M
      BY <1>6
    <3>3. QED
      BY <3>1, <3>2
  <2>8. \A k \in C : u[name[k]] = size[k]
    BY <1>4, <1>6
  <2> HIDE DEF E, size, name, w, v, M, u
  <2>9. QED
    BY <2>1, <2>2, <2>3, <2>4, <2>5, <2>6, <2>7, <2>8 DEF Grouped
<1>9. PICK all : Adds(w, L, all) /\ TotalSize(db, L) = all[L]
  BY <1>1, <1>3, SizesAddUp
<1>10. PICK extra : Adds(v, G, extra) /\ BytesBeyondOne(db, G) = extra[G]
  <2>1. \A g \in G : v[g] \in Nat
    <3>1. ASSUME NEW g \in G
          PROVE  ExtraOfGroup(g) \in Nat /\ SizeIn(db, Head(ByPath(db, g))) \in Nat
      <4>1. Cardinality(g) >= 2 /\ Cardinality(g) \in Nat /\ Head(ByPath(db, g)) \in L
        BY <1>2
      <4>2. QED
        BY <1>3, <4>1 DEF ExtraOfGroup
    <3>2. QED
      BY <3>1
  <2>2. \A g \in G : ExtraOfGroup(g) * SizeIn(db, Head(ByPath(db, g))) \in Int
    BY <2>1
  <2>3. QED
    BY <1>1, <2>2, ExtraBytesAddUp
<1>11. IsFiniteSet(M) /\ \A m \in M : m.size \in Nat
  <2>1. \A m \in M : m.size \in Nat
    BY <1>3, <1>4
  <2> DEFINE c == [f \in L |-> clean(f)]
  <2>2. c \in [L -> M] /\ \A m \in M : \E f \in L : c[f] = m
    OBVIOUS
  <2>3. c \in Surjection(L, M)
    <3> HIDE DEF c, M
    <3>1. QED
      BY <2>2 DEF Surjection
  <2>4. QED
    BY <1>1, <2>1, <2>3, FS_Surjection
<1>12. PICK once : Adds(u, M, once) /\ SizesOf(M) = once[M]
  <2> HIDE DEF M
  <2>1. QED
    BY <1>11, MetaSizesAddUp
<1>13. once[M] \in Nat
  <2>1. \A m \in M : u[m] \in Nat
    BY <1>11
  <2> HIDE DEF M, u
  <2>2. QED
    BY <1>11, <1>12, <2>1, SumNatural
<1>14. all[L] = extra[G] + once[M]
  <2> HIDE DEF E, size, name, w, v, M, u
  <2>1. QED
    BY <1>1, <1>8, <1>9, <1>10, <1>12, GroupedSum
<1>15. extra[G] \in Int
  <2> HIDE DEF v
  <2>1. QED
    BY <1>10 DEF Adds
<1>16. VersionsIn(db, Live) = L
  BY DEF VersionsIn, LiveIn, L
<1>17. Stats(db).live_bytes = all[L] /\ Stats(db).dupe_bytes = extra[G]
  <2>1. Stats(db).live_bytes = TotalSize(db, VersionsIn(db, Live))
    BY DEF Stats
  <2>2. Stats(db).dupe_bytes = BytesBeyondOne(db, DupeGroups(db, Paths))
    BY DEF Stats, BytesBeyondOne
  <2>3. QED
    BY <1>9, <1>10, <1>16, <2>1, <2>2 DEF G
<1>18. SizeOnce(L) = once[M]
  <2>1. SizeOnce(L) = SizesOf(M)
    BY DEF SizeOnce, SizesOf, clean
  <2>2. QED
    BY <1>12, <2>1
<1> HIDE DEF M
<1>19. UniqueBytes(Stats(db)) = once[M]
  <2>1. ~(extra[G] > all[L]) /\ all[L] - extra[G] = once[M]
    BY <1>13, <1>14, <1>15
  <2>2. QED
    BY <1>17, <2>1 DEF UniqueBytes
<1>20. QED
  BY <1>16, <1>18, <1>19

(* The contents of the log are those of the Live versions.                 *)
LEMMA ContentsOfLog ==
  ASSUME Typed(db), Consistent(db), CurrentIsLatest(db)
  PROVE  { h \in Hashes : Log!Copies(h) # {} } = LiveContents(db)
<1>1. \A h \in Hashes : { PathOf(db, f) : f \in LiveEntries(db, h) } = Log!Copies(h)
  BY GroupsOfLatest DEF GroupsAreOfLatest
<1>2. \A h \in Hashes : Log!Copies(h) # {} <=> LiveEntries(db, h) # {}
  BY <1>1
<1>3. QED
  BY <1>2 DEF LiveContents

(* Every version is counted once, by its state, and is one of the log.     *)
LEMMA VersionsCounted ==
  ASSUME Typed(db)
  PROVE  /\ Stats(db).total_versions
              = Stats(db).live_files + Stats(db).replaced_versions + Stats(db).missing_versions
         /\ Stats(db).total_versions = Len(LogOf(db))
         /\ Cardinality(CurrentIn(db)) = Stats(db).live_files + Stats(db).missing_versions
<1> DEFINE n == db.next_file_id - 1
           L == VersionsIn(db, Live)
           R == VersionsIn(db, Replaced)
           M == VersionsIn(db, Missing)
           D == DOMAIN db.file_state
<1>1. n \in Nat /\ D = 1..n /\ \A f \in D : db.file_state[f] \in {Live, Replaced, Missing}
  BY DEF Typed, FileStates
<1>2. IsFiniteSet(D) /\ Cardinality(D) = n
  <2> HIDE DEF n, D
  <2>1. IsFiniteSet(1..n) /\ Cardinality(1..n) = n
    BY <1>1, FS_Interval
  <2>2. QED
    BY <1>1, <2>1
<1>3. /\ L \subseteq D /\ R \subseteq D /\ M \subseteq D /\ D = (L \cup M) \cup R
      /\ L \cap M = {} /\ (L \cup M) \cap R = {}
      /\ CurrentIn(db) = L \cup M
  BY <1>1 DEF VersionsIn, CurrentIn, Live, Replaced, Missing
<1>4. /\ Stats(db).live_files = Cardinality(L)
      /\ Stats(db).replaced_versions = Cardinality(R)
      /\ Stats(db).missing_versions = Cardinality(M)
      /\ Stats(db).total_versions = Cardinality(D)
  BY DEF Stats
<1> HIDE DEF L, R, M, D
<1>5. IsFiniteSet(L) /\ IsFiniteSet(R) /\ IsFiniteSet(M)
  BY <1>2, <1>3, FS_Subset
<1>6. /\ IsFiniteSet(L \cup M)
      /\ Cardinality(L \cup M) = Cardinality(L) + Cardinality(M)
  BY <1>3, <1>5, DisjointCount
<1>7. Cardinality(D) = Cardinality(L \cup M) + Cardinality(R)
  BY <1>3, <1>5, <1>6, DisjointCount
<1>8. /\ Cardinality(L) \in Nat /\ Cardinality(R) \in Nat /\ Cardinality(M) \in Nat
  BY <1>5, FS_CardinalityType
<1>9. Len(LogOf(db)) = n
  <2> DEFINE v(f) == [path |-> PathOf(db, f), meta |-> db.file_meta[f]]
             V == { v(f) : f \in 1..n }
  <2>1. LogOf(db) = [f \in 1..n |-> v(f)]
    BY DEF LogOf
  <2> HIDE DEF v, n
  <2>2. LogOf(db) \in [1..n -> V]
    BY <2>1
  <2> HIDE DEF V
  <2>3. LogOf(db) \in Seq(V)
    BY <1>1, <2>2, SeqDef
  <2>4. DOMAIN LogOf(db) = 1..n
    BY <2>2
  <2>5. QED
    BY <1>1, <2>3, <2>4, LenProperties
<1>10. QED
  BY <1>2, <1>3, <1>4, <1>6, <1>7, <1>8, <1>9

(* Every known path has one version that is Live or Missing, every Live    *)
(* path one that is Live.                                                  *)
LEMMA PathsCounted ==
  ASSUME Typed(db), Consistent(db)
  PROVE  /\ Cardinality(LivePaths(db)) = Cardinality(LiveIn(db))
         /\ Cardinality(DOMAIN db.path_to_id) = Cardinality(CurrentIn(db))
<1>1. Cardinality(LivePaths(db)) = Cardinality(LiveIn(db))
  <2> DEFINE S == LiveIn(db)
             T == LivePaths(db)
             name == [f \in S |-> PathOf(db, f)]
  <2>1. T = { PathOf(db, f) : f \in S }
    BY DEF LivePaths, LiveIn
  <2>2. name \in [S -> T] /\ \A t \in T : \E x \in S : name[x] = t
    BY <2>1
  <2>3. IsFiniteSet(S) /\ \A f, g \in S : PathOf(db, f) = PathOf(db, g) => f = g
    BY LiveVersions
  <2>4. \A x, y \in S : name[x] = name[y] => x = y
    BY <2>3
  <2> HIDE DEF S, T, name
  <2>5. Cardinality(T) = Cardinality(S)
    BY <2>2, <2>3, <2>4, NamesCount
  <2>6. QED
    BY <2>5 DEF S, T
<1>2. Cardinality(DOMAIN db.path_to_id) = Cardinality(CurrentIn(db))
  <2> DEFINE S == CurrentIn(db)
             T == DOMAIN db.path_to_id
             name == [f \in S |-> PathOf(db, f)]
             ids == 1..(db.next_file_id - 1)
             pids == 1..(db.next_path_id - 1)
  <2>1. /\ DOMAIN db.file_state = ids
        /\ \A f \in ids : db.file_to_path[f] \in pids
        /\ \A p \in pids : db.path_current[p] \in ids
        /\ \A q \in T : db.path_to_id[q] \in pids
        /\ DOMAIN db.id_to_path = pids /\ DOMAIN db.path_current = pids
    BY DEF Typed
  <2> HIDE DEF ids, pids
  <2>2. \A f \in S : PathOf(db, f) \in T
    BY <2>1 DEF CurrentIn, PathOf, Consistent, PathIdsInverse
  <2>3. ASSUME NEW q \in T
        PROVE  \E f \in S : PathOf(db, f) = q
    <3> DEFINE f == db.path_current[db.path_to_id[q]]
    <3>1. f \in ids /\ db.file_to_path[f] = db.path_to_id[q]
      BY <2>1 DEF Consistent, CurrentIsOwn
    <3>2. db.file_state[f] # Replaced
      BY <2>1, <3>1 DEF Consistent, ReplacedIffSuperseded
    <3>3. PathOf(db, f) = q
      BY <3>1 DEF PathOf, Consistent, PathIdsInverse
    <3>4. QED
      BY <2>1, <3>1, <3>2, <3>3 DEF CurrentIn
  <2>4. IsFiniteSet(S) /\ \A f, g \in S : PathOf(db, f) = PathOf(db, g) => f = g
    BY LiveVersions
  <2> HIDE DEF S, T
  <2>5. /\ name \in [S -> T]
        /\ \A t \in T : \E x \in S : name[x] = t
        /\ \A x, y \in S : name[x] = name[y] => x = y
    BY <2>2, <2>3, <2>4
  <2> HIDE DEF name
  <2>6. Cardinality(T) = Cardinality(S)
    BY <2>4, <2>5, NamesCount
  <2>7. QED
    BY <2>6 DEF S, T
<1>3. QED
  BY <1>1, <1>2

(* With files at rest, the figures of stats are right after any number of  *)
(* batches, sweeps and deletions: versions and paths are counted once, the *)
(* extra files are the Live ones beyond one per content, and the unique    *)
(* size is the sum over the distinct contents.                             *)
THEOREM StatsAreRight ==
  ASSUME FilesAtRest
  PROVE  Spec => []StatsMatchLog
<1>1. GInv => StatsMatchLog
  <2>1. SUFFICES ASSUME GInv PROVE StatsMatchLog
    OBVIOUS
  <2>2. Typed(db) /\ Consistent(db) /\ CurrentIsLatest(db)
    BY <2>1 DEF GInv, IInv, TypeOK
  <2> DEFINE s == Stats(db)
             contents == { h \in Hashes : Log!Copies(h) # {} }
  <2>3. /\ s.total_versions = s.live_files + s.replaced_versions + s.missing_versions
        /\ s.total_versions = Len(LogOf(db))
        /\ Cardinality(CurrentIn(db)) = s.live_files + s.missing_versions
    BY <2>2, VersionsCounted
  <2>4. s.live_files = Cardinality(LiveIn(db))
    BY DEF Stats, VersionsIn, LiveIn
  <2>5. /\ Cardinality(LivePaths(db)) = Cardinality(LiveIn(db))
        /\ Cardinality(DOMAIN db.path_to_id) = Cardinality(CurrentIn(db))
    BY <2>2, PathsCounted
  <2>6. contents = LiveContents(db)
    BY <2>2, ContentsOfLog
  <2>7. /\ s.dupe_extra_files \in Int
        /\ Cardinality(LiveIn(db)) = s.dupe_extra_files + Cardinality(LiveContents(db))
    BY <2>2, ExtraFiles
  <2>8. UniqueBytes(s) = SizeOnce(VersionsIn(db, Live))
    BY <2>2, UniqueIsOnce
  <2>9. Cardinality(LiveContents(db)) \in Nat
    BY <2>2, LiveDivided, FS_CardinalityType
  <2> HIDE DEF s, contents
  <2>10. s.dupe_extra_files = s.live_files - Cardinality(contents)
    BY <2>4, <2>6, <2>7, <2>9
  <2>11. QED
    BY <2>3, <2>4, <2>5, <2>8, <2>10 DEF StatsMatchLog, s, contents
<1>2. Spec => []GInv
  BY GInvariance
<1>3. QED
  BY <1>1, <1>2, PTL
=============================================================================
