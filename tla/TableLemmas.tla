---------------------------- MODULE TableLemmas -----------------------------
(***************************************************************************)
(* What the operators of DbTables keep of a database value: its shape, its *)
(* consistency, its history, and how it is seen as a VersionLog.  Db and   *)
(* Lifecycle, which use the same operators, both cite them.                *)
(***************************************************************************)
EXTENDS DupePlan, SeqLemmas

-----------------------------------------------------------------------------
(* The history order on database values *)

(* A database value keeps its own history. *)
LEMMA ExtendsReflexive == ASSUME NEW d PROVE Extends(d, d)
BY DEF Extends, MayBecome

(* Keeping history composes. *)
LEMMA ExtendsTransitive ==
  ASSUME NEW c, NEW d, NEW e, Typed(c), Typed(d), Extends(c, d), Extends(d, e)
  PROVE  Extends(c, e)
<1>1. ASSUME NEW fid \in DOMAIN c.file_meta
      PROVE  /\ fid \in DOMAIN e.file_meta
             /\ e.file_meta[fid] = c.file_meta[fid]
             /\ e.file_to_path[fid] = c.file_to_path[fid]
             /\ MayBecome(c.file_state[fid], e.file_state[fid])
  BY DEF Extends, MayBecome, Live, Missing, Replaced
<1>2. QED
  BY <1>1 DEF Extends

-----------------------------------------------------------------------------
(* The initial value *)

(* The empty database is well formed and consistent. *)
LEMMA EmptyDbGood == Typed(EmptyDb) /\ Consistent(EmptyDb)
BY DEF EmptyDb, EmptyTable, Typed, TableNames, Consistent, PathIdsInverse,
       CurrentIsOwn, ReplacedIffSuperseded, IndexExact

-----------------------------------------------------------------------------
(* Writing one version *)

(* An insert of a version keeps the tables well formed. *)
LEMMA WriteVersionTyped ==
  ASSUME NEW d, NEW path \in Paths, NEW meta \in Metas, Typed(d), PathIdsInverse(d)
  PROVE  Typed(WriteVersion(d, path, meta))
<1> DEFINE e == WriteVersion(d, path, meta)
           pid == PathIdFor(d, path)
           fid == d.next_file_id
<1>1. /\ e.next_path_id \in Nat \ {0}
      /\ e.next_file_id = fid + 1
      /\ fid \in Nat \ {0}
      /\ pid \in 1..(e.next_path_id - 1)
      /\ 1..(d.next_path_id - 1) \subseteq 1..(e.next_path_id - 1)
      /\ pid # d.next_path_id => e.next_path_id = d.next_path_id
      /\ pid = d.next_path_id => e.next_path_id = d.next_path_id + 1
  BY DEF WriteVersion, PathIdFor, NextPathIdAfter, NextFileIdAfter, Typed
<1>2. 1..(e.next_file_id - 1) = 1..(fid - 1) \cup {fid}
  BY <1>1
<1>3. 1..(e.next_path_id - 1) = 1..(d.next_path_id - 1) \cup {pid}
  BY <1>1 DEF Typed
<1>4. e.id_to_path \in [1..(e.next_path_id - 1) -> Paths]
  BY <1>3 DEF WriteVersion, Put, Typed
<1>5. /\ DOMAIN e.path_to_id \subseteq Paths
      /\ e.path_to_id \in [DOMAIN e.path_to_id -> 1..(e.next_path_id - 1)]
  BY <1>1 DEF WriteVersion, Put, Typed
<1>6. e.path_current \in [1..(e.next_path_id - 1) -> 1..(e.next_file_id - 1)]
  <2>1. /\ e.path_current = Put(d.path_current, pid, fid)
        /\ d.path_current \in [1..(d.next_path_id - 1) -> 1..(fid - 1)]
    BY DEF WriteVersion, Typed
  <2> HIDE DEF e, pid, fid
  <2>2. QED
    BY <1>1, <1>2, <1>3, <2>1 DEF Put
<1>7. e.file_meta \in [1..(e.next_file_id - 1) -> Metas]
  BY <1>2 DEF WriteVersion, Put, Typed
<1>8. e.file_to_path \in [1..(e.next_file_id - 1) -> 1..(e.next_path_id - 1)]
  <2>1. /\ e.file_to_path = Put(d.file_to_path, fid, pid)
        /\ d.file_to_path \in [1..(fid - 1) -> 1..(d.next_path_id - 1)]
    BY DEF WriteVersion, Typed
  <2> HIDE DEF e, pid, fid
  <2>2. QED
    BY <1>1, <1>2, <2>1 DEF Put
<1>9. e.file_state \in [1..(e.next_file_id - 1) -> FileStates]
  <2>1. SupersedeCurrent(d, pid) \in [1..(fid - 1) -> FileStates]
    <3> HIDE DEF pid
    <3>1. /\ d.file_state \in [1..(fid - 1) -> FileStates]
          /\ \A p \in DOMAIN d.path_current : d.path_current[p] \in 1..(fid - 1)
          /\ Replaced \in FileStates
      BY DEF Typed, FileStates
    <3>2. CASE pid \in DOMAIN d.path_current
      <4>1. SupersedeCurrent(d, pid) = Put(d.file_state, d.path_current[pid], Replaced)
        BY <3>2 DEF SupersedeCurrent
      <4>2. QED
        BY <3>1, <3>2, <4>1 DEF Put
    <3>3. CASE pid \notin DOMAIN d.path_current
      BY <3>1, <3>3 DEF SupersedeCurrent
    <3>4. QED
      BY <3>2, <3>3
  <2>2. e.file_state = Put(SupersedeCurrent(d, pid), fid, Live) /\ Live \in FileStates
    BY DEF WriteVersion, FileStates
  <2> HIDE DEF e, pid, fid
  <2>3. QED
    BY <1>2, <2>1, <2>2 DEF Put
<1>10. e.hash256_to_files \in [Hashes -> SUBSET (1..(e.next_file_id - 1))]
  BY <1>1, <1>2, MetasAssumption DEF WriteVersion, Typed
<1>11. DOMAIN e = TableNames
  BY DEF WriteVersion, TableNames
<1>12. Typed(e)
  <2> HIDE DEF e, pid
  <2>1. e.next_file_id \in Nat \ {0}
    BY <1>1
  <2>2. QED
    BY <1>1, <2>1, <1>4, <1>5, <1>6, <1>7, <1>8, <1>9, <1>10, <1>11 DEF Typed
<1>13. QED
  BY <1>12

(* An insert of a version keeps the tables consistent. *)
LEMMA WriteVersionConsistent ==
  ASSUME NEW d, NEW path \in Paths, NEW meta \in Metas, Typed(d), Consistent(d)
  PROVE  Consistent(WriteVersion(d, path, meta))
<1> DEFINE e == WriteVersion(d, path, meta)
           pid == PathIdFor(d, path)
           fid == d.next_file_id
<1>1. /\ fid \in Nat \ {0}
      /\ d.next_path_id \in Nat \ {0}
      /\ fid \notin DOMAIN d.file_meta
      /\ d.next_path_id \notin DOMAIN d.id_to_path
      /\ path \notin DOMAIN d.path_to_id => pid = d.next_path_id
      /\ path \in DOMAIN d.path_to_id => pid = d.path_to_id[path]
      /\ pid \in DOMAIN d.path_current <=> path \in DOMAIN d.path_to_id
  BY DEF PathIdFor, Typed
<1>2. PathIdsInverse(e)
  <2>1. /\ e.path_to_id = Put(d.path_to_id, path, pid)
        /\ e.id_to_path = Put(d.id_to_path, pid, path)
    BY DEF WriteVersion
  <2>2. \A i \in DOMAIN d.id_to_path : i = pid => d.id_to_path[i] = path
    BY <1>1 DEF Consistent, PathIdsInverse, Typed
  <2>3. \A q \in DOMAIN d.path_to_id : d.path_to_id[q] = pid => q = path
    BY <1>1 DEF Consistent, PathIdsInverse, Typed
  <2>4. ASSUME NEW q \in DOMAIN e.path_to_id
        PROVE  e.id_to_path[e.path_to_id[q]] = q
    <3>1. CASE q = path
      BY <3>1, <2>1 DEF Put
    <3>2. CASE q # path
      <4>1. /\ q \in DOMAIN d.path_to_id
            /\ e.path_to_id[q] = d.path_to_id[q]
            /\ d.path_to_id[q] # pid
        BY <3>2, <2>1, <2>3 DEF Put
      <4>2. d.path_to_id[q] \in DOMAIN d.id_to_path
        BY <4>1 DEF Typed
      <4>3. QED
        BY <4>1, <4>2, <2>1 DEF Put, Consistent, PathIdsInverse
    <3>3. QED
      BY <3>1, <3>2
  <2>5. ASSUME NEW i \in DOMAIN e.id_to_path
        PROVE  /\ e.id_to_path[i] \in DOMAIN e.path_to_id
               /\ e.path_to_id[e.id_to_path[i]] = i
    <3>1. CASE i = pid
      BY <3>1, <2>1 DEF Put
    <3>2. CASE i # pid
      <4>1. i \in DOMAIN d.id_to_path /\ e.id_to_path[i] = d.id_to_path[i]
        BY <3>2, <2>1 DEF Put
      <4>2. /\ d.id_to_path[i] \in DOMAIN d.path_to_id
            /\ d.path_to_id[d.id_to_path[i]] = i
        BY <4>1 DEF Consistent, PathIdsInverse
      <4>3. d.id_to_path[i] # path
        BY <3>2, <4>2, <1>1
      <4>4. QED
        BY <4>1, <4>2, <4>3, <2>1 DEF Put
    <3>3. QED
      BY <3>1, <3>2
  <2>6. QED
    BY <2>4, <2>5 DEF PathIdsInverse
<1>3. CurrentIsOwn(e)
  <2>1. /\ e.path_current = Put(d.path_current, pid, fid)
        /\ e.file_to_path = Put(d.file_to_path, fid, pid)
    BY DEF WriteVersion
  <2>2. SUFFICES ASSUME NEW i \in DOMAIN e.path_current
                 PROVE  e.file_to_path[e.path_current[i]] = i
    BY DEF CurrentIsOwn
  <2>3. CASE i = pid
    BY <2>1, <2>3 DEF Put
  <2>4. CASE i # pid
    <3>1. /\ i \in DOMAIN d.path_current
          /\ e.path_current[i] = d.path_current[i]
      BY <2>1, <2>4 DEF Put
    <3>2. i \in 1..(d.next_path_id - 1)
      BY <3>1 DEF Typed
    <3>3. d.path_current[i] \in 1..(d.next_file_id - 1)
      BY <3>2 DEF Typed
    <3>4. d.path_current[i] \in DOMAIN d.file_to_path /\ d.path_current[i] # fid
      <4>1. DOMAIN d.file_to_path = 1..(d.next_file_id - 1)
        BY DEF Typed
      <4>2. d.next_file_id \notin 1..(d.next_file_id - 1)
        BY <1>1
      <4>3. QED
        BY <3>3, <4>1, <4>2
    <3>5. QED
      BY <2>1, <3>1, <3>4 DEF Put, Consistent, CurrentIsOwn
  <2>5. QED
    BY <2>3, <2>4
<1>4. ReplacedIffSuperseded(e)
  <2>1. /\ e.path_current = Put(d.path_current, pid, fid)
        /\ e.file_to_path = Put(d.file_to_path, fid, pid)
        /\ e.file_state = Put(SupersedeCurrent(d, pid), fid, Live)
    BY DEF WriteVersion
  <2>2. SUFFICES ASSUME NEW f \in DOMAIN e.file_state
                 PROVE  e.file_state[f] = Replaced
                          <=> e.path_current[e.file_to_path[f]] # f
    BY DEF ReplacedIffSuperseded
  <2>3. CASE f = fid
    BY <2>1, <2>3 DEF Put, Live, Replaced
  <2>4. CASE f # fid /\ d.file_to_path[f] = pid /\ f \in DOMAIN d.file_state
    <3>1. e.file_state[f] = Replaced
      <4>1. pid \in DOMAIN d.path_current
        BY <2>4, <1>1 DEF Typed
      <4>2. CASE f = d.path_current[pid]
        BY <4>1, <4>2, <2>1, <2>4 DEF SupersedeCurrent, Put
      <4>3. CASE f # d.path_current[pid]
        <5>1. d.file_state[f] = Replaced
          BY <4>3, <2>4 DEF Consistent, ReplacedIffSuperseded
        <5>2. QED
          BY <5>1, <4>1, <4>3, <2>1, <2>4 DEF SupersedeCurrent, Put
      <4>4. QED
        BY <4>2, <4>3
    <3>2. e.path_current[e.file_to_path[f]] = fid
      BY <2>1, <2>4 DEF Put, Typed
    <3>3. QED
      BY <3>1, <3>2, <2>4
  <2>5. CASE f # fid /\ d.file_to_path[f] # pid /\ f \in DOMAIN d.file_state
    <3>1. e.file_state[f] = d.file_state[f]
      BY <2>1, <2>5 DEF SupersedeCurrent, Put, Consistent, CurrentIsOwn
    <3>2. /\ f \in DOMAIN d.file_to_path
          /\ d.file_to_path[f] \in DOMAIN d.path_current
      BY <2>5 DEF Typed
    <3>3. e.file_to_path[f] = d.file_to_path[f]
      BY <2>1, <2>5, <3>2 DEF Put
    <3>4. e.path_current[d.file_to_path[f]] = d.path_current[d.file_to_path[f]]
      BY <2>1, <2>5, <3>2 DEF Put
    <3>5. QED
      BY <3>1, <3>3, <3>4, <2>5 DEF Consistent, ReplacedIffSuperseded
  <2>6. DOMAIN e.file_state = DOMAIN d.file_state \cup {fid}
    <3>1. DOMAIN SupersedeCurrent(d, pid) = DOMAIN d.file_state
      BY DEF SupersedeCurrent, Put, Typed
    <3>2. QED
      BY <3>1, <2>1 DEF Put
  <2>7. QED
    BY <2>3, <2>4, <2>5, <2>6
<1>5. IndexExact(e)
  <2>1. /\ e.hash256_to_files
             = [d.hash256_to_files EXCEPT ![meta.hash256] = @ \cup {fid}]
        /\ e.file_meta = Put(d.file_meta, fid, meta)
    BY DEF WriteVersion
  <2>2. \A h \in Hashes : fid \notin d.hash256_to_files[h]
    BY <1>1 DEF Typed
  <2>3. QED
    BY <1>1, <2>1, <2>2, MetasAssumption DEF Consistent, IndexExact, Put, Typed
<1>6. QED
  BY <1>2, <1>3, <1>4, <1>5 DEF Consistent

(* An insert of a version keeps the history: the new file id is above all  *)
(* others, and the one version whose state changes becomes Replaced.       *)
LEMMA WriteVersionExtends ==
  ASSUME NEW d, NEW path \in Paths, NEW meta \in Metas, Typed(d), Consistent(d)
  PROVE  Extends(d, WriteVersion(d, path, meta))
<1> DEFINE e == WriteVersion(d, path, meta)
           pid == PathIdFor(d, path)
           fid == d.next_file_id
<1>1. /\ e.path_to_id = Put(d.path_to_id, path, pid)
      /\ e.file_meta = Put(d.file_meta, fid, meta)
      /\ e.file_to_path = Put(d.file_to_path, fid, pid)
      /\ e.file_state = Put(SupersedeCurrent(d, pid), fid, Live)
  BY DEF WriteVersion
<1>2. ASSUME NEW q \in DOMAIN d.path_to_id
      PROVE  q \in DOMAIN e.path_to_id /\ e.path_to_id[q] = d.path_to_id[q]
  BY <1>1 DEF Put, PathIdFor
<1>3. ASSUME NEW f \in DOMAIN d.file_meta
      PROVE  /\ f \in DOMAIN e.file_meta
             /\ e.file_meta[f] = d.file_meta[f]
             /\ e.file_to_path[f] = d.file_to_path[f]
             /\ MayBecome(d.file_state[f], e.file_state[f])
  <2>1. f # fid
    BY DEF Typed
  <2>2. f \in DOMAIN d.file_to_path /\ f \in DOMAIN d.file_state
    BY DEF Typed
  <2>3. d.file_state[f] \in FileStates
    BY <2>2 DEF Typed
  <2>4. \/ e.file_state[f] = d.file_state[f]
        \/ e.file_state[f] = Replaced
    BY <1>1, <2>1, <2>2 DEF SupersedeCurrent, Put
  <2>5. QED
    BY <1>1, <2>1, <2>2, <2>3, <2>4 DEF Put, MayBecome, FileStates, Live, Missing, Replaced
<1>4. QED
  BY <1>2, <1>3 DEF Extends

-----------------------------------------------------------------------------
(* Marking versions Missing *)

(* A change of states from Live to Missing, and nothing else, keeps a      *)
(* value well formed, consistent and true to its history.                  *)
LEMMA LiveToMissing ==
  ASSUME NEW d, NEW s, Typed(d), Consistent(d),
         DOMAIN s = DOMAIN d.file_state,
         \A f \in DOMAIN d.file_state :
           \/ s[f] = d.file_state[f]
           \/ d.file_state[f] = Live /\ s[f] = Missing,
         s = [f \in DOMAIN s |-> s[f]]
  PROVE  LET e == [d EXCEPT !.file_state = s]
         IN  Typed(e) /\ Consistent(e) /\ Extends(d, e)
<1> DEFINE e == [d EXCEPT !.file_state = s]
<1>1. /\ DOMAIN e = TableNames
      /\ e.next_path_id = d.next_path_id
      /\ e.next_file_id = d.next_file_id
      /\ e.path_to_id = d.path_to_id
      /\ e.id_to_path = d.id_to_path
      /\ e.path_current = d.path_current
      /\ e.file_meta = d.file_meta
      /\ e.file_to_path = d.file_to_path
      /\ e.file_state = s
      /\ e.hash256_to_files = d.hash256_to_files
  BY DEF Typed, TableNames
<1>2. s \in [1..(d.next_file_id - 1) -> FileStates]
  BY DEF Typed, FileStates
<1> HIDE DEF e
<1>3. Typed(e)
  BY <1>1, <1>2 DEF Typed
<1>4. Consistent(e)
  <2>1. PathIdsInverse(e) /\ CurrentIsOwn(e) /\ IndexExact(e)
    BY <1>1 DEF Consistent, PathIdsInverse, CurrentIsOwn, IndexExact
  <2>2. ReplacedIffSuperseded(e)
    BY <1>1 DEF Consistent, ReplacedIffSuperseded, Live, Missing, Replaced
  <2>3. QED
    BY <2>1, <2>2 DEF Consistent
<1>5. Extends(d, e)
  BY <1>1 DEF Extends, MayBecome, Typed
<1>6. QED
  BY <1>3, <1>4, <1>5 DEF e

(* The sweep of a scan is such a change. *)
LEMMA MarkMissingNotSeenGood ==
  ASSUME NEW d, NEW scope, NEW seen, Typed(d), Consistent(d)
  PROVE  LET e == MarkMissingNotSeen(d, scope, seen)
         IN  Typed(e) /\ Consistent(e) /\ Extends(d, e)
<1> DEFINE gone == { d.path_current[pid] :
                       pid \in { i \in DOMAIN d.path_current \cap DOMAIN d.id_to_path :
                                   d.id_to_path[i] \in scope \ seen } }
           s == [f \in DOMAIN d.file_state |->
                   IF f \in gone /\ d.file_state[f] = Live
                   THEN Missing ELSE d.file_state[f]]
<1>1. MarkMissingNotSeen(d, scope, seen) = [d EXCEPT !.file_state = s]
  BY DEF MarkMissingNotSeen
<1> HIDE DEF gone
<1>2. /\ DOMAIN s = DOMAIN d.file_state
      /\ s = [f \in DOMAIN s |-> s[f]]
      /\ \A f \in DOMAIN d.file_state :
           \/ s[f] = d.file_state[f]
           \/ d.file_state[f] = Live /\ s[f] = Missing
  OBVIOUS
<1> HIDE DEF s
<1>3. QED
  BY <1>1, <1>2, LiveToMissing

(* So is what a delete run records. *)
LEMMA MarkFilesMissingGood ==
  ASSUME NEW d, NEW fids, Typed(d), Consistent(d)
  PROVE  LET e == MarkFilesMissing(d, fids)
         IN  Typed(e) /\ Consistent(e) /\ Extends(d, e)
<1> DEFINE s == [f \in DOMAIN d.file_state |->
                   IF f \in fids /\ d.file_state[f] = Live
                   THEN Missing ELSE d.file_state[f]]
<1>1. MarkFilesMissing(d, fids) = [d EXCEPT !.file_state = s]
  BY DEF MarkFilesMissing
<1>2. /\ DOMAIN s = DOMAIN d.file_state
      /\ s = [f \in DOMAIN s |-> s[f]]
      /\ \A f \in DOMAIN d.file_state :
           \/ s[f] = d.file_state[f]
           \/ d.file_state[f] = Live /\ s[f] = Missing
  OBVIOUS
<1> HIDE DEF s
<1>3. QED
  BY <1>1, <1>2, LiveToMissing

-----------------------------------------------------------------------------
(* The value as a log *)

(* e is d with versions recorded behind those of d: the relation between   *)
(* the committed value and the working copy of an open transaction.        *)
New(d, e) == (1..(e.next_file_id - 1)) \ (1..(d.next_file_id - 1))

Grows(d, e) ==
  /\ d.next_file_id <= e.next_file_id
  /\ \A f \in 1..(d.next_file_id - 1) :
       PathOf(e, f) = PathOf(d, f) /\ e.file_meta[f] = d.file_meta[f]
  /\ LivePaths(e) = LivePaths(d) \cup { PathOf(e, f) : f \in New(d, e) }

(* Nothing recorded is the least growth. *)
LEMMA GrowsReflexive == ASSUME NEW d, Typed(d) PROVE Grows(d, d)
<1>1. d.next_file_id <= d.next_file_id
  BY DEF Typed
<1>2. New(d, d) = {}
  BY DEF New
<1>3. QED
  BY <1>1, <1>2 DEF Grows

(* One more version is a growth by exactly that version, Live at its path. *)
LEMMA WriteVersionGrows ==
  ASSUME NEW d, NEW path \in Paths, NEW meta \in Metas, Typed(d), Consistent(d)
  PROVE  LET e == WriteVersion(d, path, meta)
         IN  /\ e.next_file_id = d.next_file_id + 1
             /\ \A f \in 1..(d.next_file_id - 1) :
                  PathOf(e, f) = PathOf(d, f) /\ e.file_meta[f] = d.file_meta[f]
             /\ PathOf(e, d.next_file_id) = path
             /\ LivePaths(e) = LivePaths(d) \cup {path}
<1> DEFINE e == WriteVersion(d, path, meta)
           pid == PathIdFor(d, path)
           fid == d.next_file_id
<1>1. /\ e.next_file_id = fid + 1
      /\ e.id_to_path = Put(d.id_to_path, pid, path)
      /\ e.file_meta = Put(d.file_meta, fid, meta)
      /\ e.file_to_path = Put(d.file_to_path, fid, pid)
      /\ e.file_state = Put(SupersedeCurrent(d, pid), fid, Live)
  BY DEF WriteVersion, NextFileIdAfter
<1>2. /\ fid \in Nat \ {0}
      /\ DOMAIN d.file_state = 1..(fid - 1)
      /\ DOMAIN d.file_to_path = 1..(fid - 1)
      /\ DOMAIN d.file_meta = 1..(fid - 1)
      /\ fid \notin 1..(fid - 1)
  BY DEF Typed
<1>3. \A i \in DOMAIN d.id_to_path : i = pid => d.id_to_path[i] = path
  BY DEF PathIdFor, Consistent, PathIdsInverse, Typed
<1>4. ASSUME NEW f \in 1..(fid - 1)
      PROVE  /\ PathOf(e, f) = PathOf(d, f)
             /\ e.file_meta[f] = d.file_meta[f]
             /\ d.file_to_path[f] = pid => PathOf(d, f) = path
  <2>1. f # fid
    BY <1>2
  <2>2. d.file_to_path[f] \in DOMAIN d.id_to_path
    BY <1>2 DEF Typed
  <2>3. e.file_to_path[f] = d.file_to_path[f] /\ e.file_meta[f] = d.file_meta[f]
    BY <1>1, <1>2, <2>1 DEF Put
  <2>4. e.id_to_path[d.file_to_path[f]] = d.id_to_path[d.file_to_path[f]]
    BY <1>1, <1>3, <2>2 DEF Put
  <2>5. QED
    BY <1>3, <2>2, <2>3, <2>4 DEF PathOf
<1>5. PathOf(e, fid) = path
  BY <1>1 DEF PathOf, Put
<1>6. DOMAIN e.file_state = 1..(fid - 1) \cup {fid}
  <2>1. DOMAIN SupersedeCurrent(d, pid) = DOMAIN d.file_state
    BY DEF SupersedeCurrent, Put, Typed
  <2>2. QED
    BY <1>1, <1>2, <2>1 DEF Put
<1>7. e.file_state[fid] = Live
  BY <1>1 DEF Put
<1>8. ASSUME NEW f \in 1..(fid - 1)
      PROVE  /\ e.file_state[f] = Live => d.file_state[f] = Live
             /\ d.file_state[f] = Live => e.file_state[f] = Live \/ d.file_to_path[f] = pid
  BY <1>1, <1>2 DEF SupersedeCurrent, Put, Live, Replaced, Consistent, CurrentIsOwn
<1> HIDE DEF e, pid
<1>9. LivePaths(e) \subseteq LivePaths(d) \cup {path}
  BY <1>2, <1>4, <1>5, <1>6, <1>8 DEF LivePaths
<1>10. path \in LivePaths(e)
  BY <1>5, <1>6, <1>7 DEF LivePaths
<1>11. LivePaths(d) \subseteq LivePaths(e)
  <2> SUFFICES ASSUME NEW f \in DOMAIN d.file_state, d.file_state[f] = Live
               PROVE  PathOf(d, f) \in LivePaths(e)
    BY DEF LivePaths
  <2>1. CASE e.file_state[f] = Live
    BY <1>2, <1>4, <1>6, <2>1 DEF LivePaths
  <2>2. CASE d.file_to_path[f] = pid
    BY <1>2, <1>4, <1>10, <2>2
  <2>3. QED
    BY <1>2, <1>8, <2>1, <2>2
<1>12. QED
  BY <1>1, <1>4, <1>5, <1>9, <1>10, <1>11 DEF e

(* A transaction grows item by item. *)
LEMMA GrowsByWrite ==
  ASSUME NEW c, NEW d, NEW path \in Paths, NEW meta \in Metas,
         Typed(c), Typed(d), Consistent(d), Grows(c, d)
  PROVE  Grows(c, WriteVersion(d, path, meta))
<1> DEFINE e == WriteVersion(d, path, meta)
<1>1. /\ e.next_file_id = d.next_file_id + 1
      /\ \A f \in 1..(d.next_file_id - 1) :
           PathOf(e, f) = PathOf(d, f) /\ e.file_meta[f] = d.file_meta[f]
      /\ PathOf(e, d.next_file_id) = path
      /\ LivePaths(e) = LivePaths(d) \cup {path}
  BY WriteVersionGrows
<1> HIDE DEF e
<1>2. /\ c.next_file_id \in Nat \ {0}
      /\ d.next_file_id \in Nat \ {0}
      /\ c.next_file_id <= d.next_file_id
  BY DEF Grows, Typed
<1>3. c.next_file_id <= e.next_file_id
  BY <1>1, <1>2
<1>4. \A f \in 1..(c.next_file_id - 1) :
        PathOf(e, f) = PathOf(c, f) /\ e.file_meta[f] = c.file_meta[f]
  BY <1>1, <1>2 DEF Grows
<1>5. /\ New(c, e) = New(c, d) \cup {d.next_file_id}
      /\ New(c, d) \subseteq 1..(d.next_file_id - 1)
  BY <1>1, <1>2 DEF New
<1>6. { PathOf(e, f) : f \in New(c, e) } = { PathOf(d, f) : f \in New(c, d) } \cup {path}
  BY <1>1, <1>5
<1>7. QED
  BY <1>1, <1>3, <1>4, <1>6 DEF Grows, e

(* The log of a value that grew from d starts with the log of d.           *)
LEMMA GrowthIsRecord ==
  ASSUME NEW d, NEW e, Typed(d), Typed(e), Grows(d, e)
  PROVE  /\ DOMAIN LogOf(d) \subseteq DOMAIN LogOf(e)
         /\ \A i \in DOMAIN LogOf(d) : LogOf(e)[i] = LogOf(d)[i]
         /\ LivePaths(e) = LivePaths(d) \cup
                { LogOf(e)[i].path : i \in DOMAIN LogOf(e) \ DOMAIN LogOf(d) }
<1>1. 1..(d.next_file_id - 1) \subseteq 1..(e.next_file_id - 1)
  BY DEF Grows, Typed
<1>2. \A i \in 1..(d.next_file_id - 1) : LogOf(e)[i] = LogOf(d)[i]
  BY <1>1 DEF Grows, LogOf
<1>3. \A i \in New(d, e) : LogOf(e)[i].path = PathOf(e, i)
  BY DEF LogOf, New
<1>4. /\ DOMAIN LogOf(d) = 1..(d.next_file_id - 1)
      /\ DOMAIN LogOf(e) = 1..(e.next_file_id - 1)
  BY DEF LogOf
<1>5. { LogOf(e)[i].path : i \in New(d, e) } = { PathOf(e, i) : i \in New(d, e) }
  BY <1>3
<1>6. LivePaths(e) = LivePaths(d) \cup { LogOf(e)[i].path : i \in New(d, e) }
  BY <1>5 DEF Grows
<1>7. QED
  BY <1>1, <1>2, <1>4, <1>6 DEF New

(* Marking versions Missing takes paths out of Live and leaves the log.    *)
LEMMA MissingIsLose ==
  ASSUME NEW d, NEW s, Typed(d),
         DOMAIN s = DOMAIN d.file_state,
         \A f \in DOMAIN d.file_state : s[f] = Live => d.file_state[f] = Live
  PROVE  LET e == [d EXCEPT !.file_state = s]
         IN  LogOf(e) = LogOf(d) /\ LivePaths(e) \subseteq LivePaths(d)
<1> DEFINE e == [d EXCEPT !.file_state = s]
<1>1. /\ e.next_file_id = d.next_file_id
      /\ e.id_to_path = d.id_to_path
      /\ e.file_meta = d.file_meta
      /\ e.file_to_path = d.file_to_path
      /\ e.file_state = s
  BY DEF Typed, TableNames
<1> HIDE DEF e
<1>2. QED
  BY <1>1 DEF LogOf, LivePaths, PathOf, e

-----------------------------------------------------------------------------
(* Current versions are the newest *)

(* No version of a path is newer than its current one.  Consistent does    *)
(* not say so, and a group is only of the latest versions because of it.   *)
CurrentIsLatest(d) ==
  \A f \in DOMAIN d.file_to_path : f <= d.path_current[d.file_to_path[f]]

(* A new version has the greatest file id of all, and is current.          *)
LEMMA WriteVersionLatest ==
  ASSUME NEW d, NEW path \in Paths, NEW meta \in Metas, Typed(d), CurrentIsLatest(d)
  PROVE  CurrentIsLatest(WriteVersion(d, path, meta))
<1> DEFINE e == WriteVersion(d, path, meta)
           pid == PathIdFor(d, path)
           fid == d.next_file_id
<1>1. /\ e.path_current = Put(d.path_current, pid, fid)
      /\ e.file_to_path = Put(d.file_to_path, fid, pid)
  BY DEF WriteVersion
<1>2. fid \in Nat \ {0} /\ DOMAIN d.file_to_path = 1..(fid - 1)
  BY DEF Typed
<1> HIDE DEF e, pid
<1>3. ASSUME NEW f \in DOMAIN e.file_to_path
      PROVE  f <= e.path_current[e.file_to_path[f]]
  <2>1. CASE f = fid
    BY <1>1, <1>2, <2>1 DEF Put
  <2>2. CASE f # fid
    <3>1. f \in 1..(fid - 1) /\ e.file_to_path[f] = d.file_to_path[f]
      BY <1>1, <1>2, <2>2 DEF Put
    <3>2. d.file_to_path[f] \in DOMAIN d.path_current
      BY <3>1 DEF Typed
    <3>3. CASE d.file_to_path[f] = pid
      <4>1. e.path_current[pid] = fid
        BY <1>1 DEF Put
      <4>2. QED
        BY <1>2, <3>1, <3>3, <4>1
    <3>4. CASE d.file_to_path[f] # pid
      <4>1. e.path_current[d.file_to_path[f]] = d.path_current[d.file_to_path[f]]
        BY <1>1, <3>2, <3>4 DEF Put
      <4>2. QED
        BY <1>2, <3>1, <4>1 DEF CurrentIsLatest
    <3>5. QED
      BY <3>3, <3>4
  <2>3. QED
    BY <2>1, <2>2
<1>4. QED
  BY <1>3 DEF CurrentIsLatest, e

-----------------------------------------------------------------------------
(* Recording versions *)

(* The metadata of the current version of a path, as an Option. *)
CurrentMetas(d, path) == { d.file_meta[f] : f \in GetCurrentByPath(d, path) }

(* The current version of a path is its one version that is not Replaced. *)
LEMMA CurrentIff ==
  ASSUME NEW d, Typed(d), Consistent(d), NEW path
  PROVE  /\ \A f : f \in GetCurrentByPath(d, path)
                 <=> /\ f \in DOMAIN d.file_state
                     /\ d.file_state[f] # Replaced
                     /\ PathOf(d, f) = path
         /\ \A f, g \in GetCurrentByPath(d, path) : f = g
<1> DEFINE ids == 1..(d.next_file_id - 1)
           pids == 1..(d.next_path_id - 1)
<1>1. /\ DOMAIN d.file_meta = ids /\ DOMAIN d.file_state = ids
      /\ DOMAIN d.path_current = pids /\ DOMAIN d.id_to_path = pids
      /\ \A f \in ids : d.file_to_path[f] \in pids
      /\ \A i \in pids : d.path_current[i] \in ids
  BY DEF Typed
<1> HIDE DEF ids, pids
<1>2. ASSUME NEW f
      PROVE  f \in GetCurrentByPath(d, path)
                <=> /\ path \in DOMAIN d.path_to_id
                    /\ d.path_to_id[path] \in pids
                    /\ f = d.path_current[d.path_to_id[path]]
  BY <1>1 DEF GetCurrentByPath
<1>3. ASSUME NEW f \in GetCurrentByPath(d, path)
      PROVE  f \in ids /\ d.file_state[f] # Replaced /\ PathOf(d, f) = path
  <2>1. d.file_to_path[f] = d.path_to_id[path] /\ f \in ids
    BY <1>1, <1>2 DEF Consistent, CurrentIsOwn
  <2>2. PathOf(d, f) = path
    BY <1>2, <2>1 DEF PathOf, Consistent, PathIdsInverse
  <2>3. d.file_state[f] # Replaced
    BY <1>1, <1>2, <2>1 DEF Consistent, ReplacedIffSuperseded
  <2>4. QED
    BY <2>1, <2>2, <2>3
<1>4. ASSUME NEW f \in ids, d.file_state[f] # Replaced, PathOf(d, f) = path
      PROVE  f \in GetCurrentByPath(d, path)
  <2>1. d.path_current[d.file_to_path[f]] = f
    BY <1>1, <1>4 DEF Consistent, ReplacedIffSuperseded
  <2>2. path \in DOMAIN d.path_to_id /\ d.path_to_id[path] = d.file_to_path[f]
    BY <1>1, <1>4 DEF PathOf, Consistent, PathIdsInverse
  <2>3. QED
    BY <1>1, <1>2, <2>1, <2>2
<1>5. QED
  BY <1>1, <1>2, <1>3, <1>4

(* What one more version does to the states and current versions. *)
LEMMA WriteVersionCurrent ==
  ASSUME NEW d, NEW path \in Paths, NEW meta \in Metas, Typed(d), Consistent(d)
  PROVE  LET e == WriteVersion(d, path, meta)
             fid == d.next_file_id
         IN  /\ DOMAIN e.file_state = DOMAIN d.file_state \cup {fid}
             /\ e.file_state[fid] = Live
             /\ e.file_meta[fid] = meta
             /\ \A f \in DOMAIN d.file_state :
                  /\ e.file_state[f] = d.file_state[f] \/ e.file_state[f] = Replaced
                  /\ e.file_meta[f] = d.file_meta[f]
                  /\ PathOf(e, f) = PathOf(d, f)
             /\ PathOf(e, fid) = path
             /\ CurrentMetas(e, path) = {meta}
             /\ \A q : q # path => CurrentMetas(e, q) = CurrentMetas(d, q)
<1> DEFINE e == WriteVersion(d, path, meta)
           pid == PathIdFor(d, path)
           fid == d.next_file_id
<1>1. /\ e.next_file_id = fid + 1
      /\ e.file_state = Put(SupersedeCurrent(d, pid), fid, Live)
      /\ e.file_meta = Put(d.file_meta, fid, meta)
      /\ e.path_current = Put(d.path_current, pid, fid)
      /\ e.path_to_id = Put(d.path_to_id, path, pid)
  BY DEF WriteVersion, NextFileIdAfter
<1>2. fid \in Nat \ {0} /\ DOMAIN d.file_state = 1..(fid - 1) /\ DOMAIN d.file_meta = 1..(fid - 1)
  BY DEF Typed
<1>3. DOMAIN SupersedeCurrent(d, pid) = DOMAIN d.file_state
  BY DEF SupersedeCurrent, Put, Typed
<1>4. /\ DOMAIN e.file_state = DOMAIN d.file_state \cup {fid}
      /\ e.file_state[fid] = Live
      /\ e.file_meta[fid] = meta
  BY <1>1, <1>3 DEF Put
<1>5. /\ \A f \in DOMAIN d.file_state :
           e.file_meta[f] = d.file_meta[f] /\ PathOf(e, f) = PathOf(d, f)
      /\ PathOf(e, fid) = path
  BY <1>2, WriteVersionGrows
<1>6. \A f \in DOMAIN d.file_state : e.file_state[f] = d.file_state[f] \/ e.file_state[f] = Replaced
  BY <1>1, <1>2, <1>3 DEF SupersedeCurrent, Put
<1>7. Typed(e) /\ Consistent(e)
  BY WriteVersionTyped, WriteVersionConsistent DEF Consistent
<1>8. \A f \in DOMAIN d.file_state : PathOf(d, f) # path => e.file_state[f] = d.file_state[f]
  <2> SUFFICES ASSUME NEW f \in DOMAIN d.file_state, PathOf(d, f) # path
               PROVE  e.file_state[f] = d.file_state[f]
    OBVIOUS
  <2>1. CASE pid \in DOMAIN d.path_current
    <3>1. path \in DOMAIN d.path_to_id /\ pid = d.path_to_id[path]
      BY <2>1 DEF PathIdFor, Typed
    <3>2. d.file_to_path[d.path_current[pid]] = pid /\ d.id_to_path[pid] = path
      BY <2>1, <3>1 DEF Consistent, CurrentIsOwn, PathIdsInverse
    <3>3. f # d.path_current[pid]
      BY <3>2 DEF PathOf
    <3>4. QED
      BY <1>1, <1>2, <2>1, <3>3 DEF SupersedeCurrent, Put
  <2>2. CASE pid \notin DOMAIN d.path_current
    BY <1>1, <1>2, <2>2 DEF SupersedeCurrent, Put
  <2>3. QED
    BY <2>1, <2>2
<1> HIDE DEF e, pid
<1>9. CurrentMetas(e, path) = {meta}
  <2>1. fid \in GetCurrentByPath(e, path)
    BY <1>4, <1>5, <1>7, CurrentIff DEF Live, Replaced
  <2>2. GetCurrentByPath(e, path) = {fid}
    BY <1>7, <2>1, CurrentIff
  <2>3. QED
    BY <1>4, <2>2 DEF CurrentMetas
<1>10. ASSUME NEW q, q # path
       PROVE  CurrentMetas(e, q) = CurrentMetas(d, q)
  <2>1. \A f : f \in GetCurrentByPath(e, q) <=> f \in GetCurrentByPath(d, q)
    <3>1. \A f : f \in GetCurrentByPath(e, q)
                <=> f \in DOMAIN e.file_state /\ e.file_state[f] # Replaced /\ PathOf(e, f) = q
      BY <1>7, CurrentIff
    <3>2. \A f : f \in GetCurrentByPath(d, q)
                <=> f \in DOMAIN d.file_state /\ d.file_state[f] # Replaced /\ PathOf(d, f) = q
      BY CurrentIff
    <3>3. QED
      BY <1>4, <1>5, <1>8, <1>10, <3>1, <3>2
  <2>2. GetCurrentByPath(e, q) = GetCurrentByPath(d, q)
    BY <2>1
  <2>3. \A f \in GetCurrentByPath(d, q) : e.file_meta[f] = d.file_meta[f]
    BY <1>5, CurrentIff
  <2>4. QED
    BY <2>2, <2>3 DEF CurrentMetas
<1>11. QED
  BY <1>4, <1>5, <1>6, <1>9, <1>10 DEF e

(* e is d with the results rs recorded, in some order, and nothing else.   *)
ResultSet == [path : Paths, meta : Metas]

VersionOf(d, f) == [path |-> PathOf(d, f), meta |-> d.file_meta[f]]

Records(d, e, rs) ==
  /\ Typed(e)
  /\ Consistent(e)
  /\ Extends(d, e)
  /\ Grows(d, e)
  /\ \A f \in DOMAIN d.file_state :
       /\ f \in DOMAIN e.file_state
       /\ VersionOf(e, f) = VersionOf(d, f)
       /\ e.file_state[f] = d.file_state[f] \/ e.file_state[f] = Replaced
  /\ \A f \in DOMAIN e.file_state \ DOMAIN d.file_state :
       e.file_state[f] # Missing /\ VersionOf(e, f) \in rs
  /\ \A p : IF \E r \in rs : r.path = p
            THEN \E r \in rs : r.path = p /\ CurrentMetas(e, p) = {r.meta}
            ELSE CurrentMetas(e, p) = CurrentMetas(d, p)

(* Recording nothing. *)
LEMMA RecordedNothing ==
  ASSUME NEW d, Typed(d), Consistent(d)
  PROVE  Records(d, d, {})
  BY ExtendsReflexive, GrowsReflexive DEF Records

(* Recording one more result. *)
LEMMA RecordedOneMore ==
  ASSUME NEW d, NEW e, NEW rs, NEW r \in ResultSet, Typed(d), Records(d, e, rs)
  PROVE  Records(d, WriteVersion(e, r.path, r.meta), rs \cup {r})
<1> DEFINE w == WriteVersion(e, r.path, r.meta)
           fid == e.next_file_id
<1>1. r.path \in Paths /\ r.meta \in Metas /\ r = [path |-> r.path, meta |-> r.meta]
  BY DEF ResultSet
<1>2. Typed(e) /\ Consistent(e)
  BY DEF Records
<1>3. /\ DOMAIN w.file_state = DOMAIN e.file_state \cup {fid}
      /\ w.file_state[fid] = Live
      /\ w.file_meta[fid] = r.meta
      /\ \A f \in DOMAIN e.file_state :
           /\ w.file_state[f] = e.file_state[f] \/ w.file_state[f] = Replaced
           /\ w.file_meta[f] = e.file_meta[f]
           /\ PathOf(w, f) = PathOf(e, f)
      /\ PathOf(w, fid) = r.path
      /\ CurrentMetas(w, r.path) = {r.meta}
      /\ \A q : q # r.path => CurrentMetas(w, q) = CurrentMetas(e, q)
  BY <1>1, <1>2, WriteVersionCurrent
<1>4. Typed(w) /\ Consistent(w) /\ Extends(e, w)
  BY <1>1, <1>2, WriteVersionTyped, WriteVersionConsistent, WriteVersionExtends DEF Consistent
<1>5. Extends(d, w)
  BY <1>2, <1>4, ExtendsTransitive DEF Records
<1>6. Grows(d, w)
  BY <1>1, <1>2, GrowsByWrite DEF Records
<1> HIDE DEF w
<1>7. ASSUME NEW f \in DOMAIN d.file_state
      PROVE  /\ f \in DOMAIN w.file_state
             /\ VersionOf(w, f) = VersionOf(d, f)
             /\ w.file_state[f] = d.file_state[f] \/ w.file_state[f] = Replaced
  <2>1. /\ f \in DOMAIN e.file_state
        /\ VersionOf(e, f) = VersionOf(d, f)
        /\ e.file_state[f] = d.file_state[f] \/ e.file_state[f] = Replaced
    BY DEF Records
  <2>2. QED
    BY <1>3, <2>1 DEF VersionOf
<1>8. ASSUME NEW f \in DOMAIN w.file_state \ DOMAIN d.file_state
      PROVE  w.file_state[f] # Missing /\ VersionOf(w, f) \in rs \cup {r}
  <2>1. CASE f = fid
    BY <1>1, <1>3, <2>1 DEF VersionOf, Live, Missing
  <2>2. CASE f # fid
    <3>1. f \in DOMAIN e.file_state /\ e.file_state[f] # Missing /\ VersionOf(e, f) \in rs
      BY <1>3, <2>2 DEF Records
    <3>2. QED
      BY <1>3, <3>1 DEF VersionOf, Replaced, Missing
  <2>3. QED
    BY <2>1, <2>2
<1>9. ASSUME NEW p
      PROVE  IF \E q \in rs \cup {r} : q.path = p
             THEN \E q \in rs \cup {r} : q.path = p /\ CurrentMetas(w, p) = {q.meta}
             ELSE CurrentMetas(w, p) = CurrentMetas(d, p)
  <2>1. CASE p = r.path
    BY <1>3, <2>1
  <2>2. CASE p # r.path
    <3>1. CurrentMetas(w, p) = CurrentMetas(e, p)
      BY <1>3, <2>2
    <3>2. IF \E q \in rs : q.path = p
          THEN \E q \in rs : q.path = p /\ CurrentMetas(e, p) = {q.meta}
          ELSE CurrentMetas(e, p) = CurrentMetas(d, p)
      BY DEF Records
    <3>3. QED
      BY <2>2, <3>1, <3>2
  <2>3. QED
    BY <2>1, <2>2
<1>10. QED
  BY <1>4, <1>5, <1>6, <1>7, <1>8, <1>9 DEF Records, w

-----------------------------------------------------------------------------
(* Live versions and their groups *)

LiveIn(d) == { f \in DOMAIN d.file_state : d.file_state[f] = Live }

(* The versions no later one has superseded, Live or Missing. *)
CurrentIn(d) == { f \in DOMAIN d.file_state : d.file_state[f] # Replaced }

(* Current versions: finitely many, and each at a path of its own; the     *)
(* Live ones are among them and are grouped by their hash.                 *)
LEMMA LiveVersions ==
  ASSUME NEW d, Typed(d), Consistent(d)
  PROVE  /\ IsFiniteSet(LiveIn(d)) /\ IsFiniteSet(CurrentIn(d))
         /\ LiveIn(d) \subseteq CurrentIn(d)
         /\ \A f \in DOMAIN d.file_state : PathOf(d, f) \in Paths /\ d.file_meta[f] \in Metas
         /\ \A f, g \in CurrentIn(d) : PathOf(d, f) = PathOf(d, g) => f = g
         /\ \A f, g \in LiveIn(d) : PathOf(d, f) = PathOf(d, g) => f = g
         /\ \A f \in LiveIn(d) : f \in GetCurrentByPath(d, PathOf(d, f))
         /\ \A h \in Hashes :
              LiveEntries(d, h) = { f \in LiveIn(d) : d.file_meta[f].hash256 = h }
<1> DEFINE ids == 1..(d.next_file_id - 1)
<1>1. /\ DOMAIN d.file_meta = ids /\ DOMAIN d.file_state = ids /\ DOMAIN d.file_to_path = ids
      /\ \A f \in ids : d.file_to_path[f] \in DOMAIN d.id_to_path
      /\ \A f \in ids : PathOf(d, f) \in Paths /\ d.file_meta[f] \in Metas
      /\ \A h \in Hashes : d.hash256_to_files[h] \subseteq ids
  BY DEF Typed, PathOf
<1>2. IsFiniteSet(LiveIn(d)) /\ IsFiniteSet(CurrentIn(d))
  <2>1. d.next_file_id - 1 \in Int
    BY DEF Typed
  <2>2. IsFiniteSet(ids)
    BY <2>1, FS_Interval
  <2> HIDE DEF ids
  <2>3. LiveIn(d) \subseteq ids /\ CurrentIn(d) \subseteq ids
    BY <1>1 DEF LiveIn, CurrentIn
  <2>4. QED
    BY <2>2, <2>3, FS_Subset
<1> HIDE DEF ids
<1>3. /\ LiveIn(d) \subseteq CurrentIn(d)
      /\ \A f \in CurrentIn(d) : f \in GetCurrentByPath(d, PathOf(d, f))
  BY CurrentIff DEF LiveIn, CurrentIn, Live, Replaced
<1>4. \A f, g \in CurrentIn(d) : PathOf(d, f) = PathOf(d, g) => f = g
  BY <1>3, CurrentIff
<1>5. ASSUME NEW h \in Hashes
      PROVE  LiveEntries(d, h) = { f \in LiveIn(d) : d.file_meta[f].hash256 = h }
  <2>1. \A f \in ids : f \in d.hash256_to_files[h] <=> d.file_meta[f].hash256 = h
    BY <1>1 DEF Consistent, IndexExact
  <2>2. QED
    BY <1>1, <2>1 DEF LiveEntries, LookupFilesByHash256, LiveIn
<1>6. QED
  BY <1>1, <1>2, <1>3, <1>4, <1>5

(* A sorted set is a sequence of exactly its elements, without duplicates. *)
LEMMA SortedSet ==
  ASSUME NEW S, IsFiniteSet(S), NEW rank, \A x \in S : rank[x] \in Nat
  PROVE  /\ Sorted(S, rank) \in Seq(S)
         /\ IsInjective(Sorted(S, rank))
         /\ Range(Sorted(S, rank)) = S
<1> DEFINE s == Sorted(S, rank)
           n == Cardinality(S)
<1>1. n \in Nat
  BY FS_CardinalityType
<1>2. \E t : SortOf(S, rank, t)
  BY <1>1, CanBeSorted
<1>3. s \in [1..n -> S] /\ IsInjective(s)
  BY <1>2 DEF SortOf, Sorted
<1> HIDE DEF s, n
<1>4. s \in Seq(S) /\ Len(s) = n
  BY <1>1, <1>3, SeqDef
<1>5. Range(s) \subseteq S
  BY <1>3 DEF Range
<1>6. Cardinality(Range(s)) = n
  BY <1>3, <1>4, QueueCount
<1>7. Range(s) = S
  BY <1>5, <1>6, FS_Subset DEF n
<1>8. QED
  BY <1>3, <1>4, <1>7 DEF s

-----------------------------------------------------------------------------
(* Versions written one after the other *)

(* The function by which the fold is defined, over the first n items.      *)
IsFold(d, batch, n, iter) ==
  iter = [s \in SUBSET (1..n) |->
            IF s = {} THEN d
            ELSE WriteVersion(iter[s \ {Max(s)}], batch[Max(s)].path, batch[Max(s)].meta)]

(* There is such a function: one more item extends the one before.         *)
LEMMA FoldExists ==
  ASSUME NEW d, NEW batch, NEW n \in Nat
  PROVE  \E iter : IsFold(d, batch, n, iter)
<1> DEFINE T == { m \in 0..n : \E iter : IsFold(d, batch, m, iter) }
<1>1. 0 \in T
  <2> DEFINE f == [s \in SUBSET (1..0) |-> d]
  <2>1. \A s \in SUBSET (1..0) : s = {}
    OBVIOUS
  <2>2. IsFold(d, batch, 0, f)
    BY <2>1 DEF IsFold
  <2> HIDE DEF f
  <2>3. QED
    BY <2>2
<1>2. ASSUME NEW m \in T, m \in 0..(n - 1)
      PROVE  m + 1 \in T
  <2>1. PICK f : IsFold(d, batch, m, f)
    OBVIOUS
  <2>2. \A s \in SUBSET (1..m) :
          f[s] = IF s = {} THEN d
                 ELSE WriteVersion(f[s \ {Max(s)}], batch[Max(s)].path, batch[Max(s)].meta)
    <3> DEFINE v(s) == IF s = {} THEN d
                       ELSE WriteVersion(f[s \ {Max(s)}], batch[Max(s)].path, batch[Max(s)].meta)
    <3>1. f = [s \in SUBSET (1..m) |-> v(s)]
      BY <2>1 DEF IsFold
    <3> HIDE DEF v
    <3>2. \A s \in SUBSET (1..m) : f[s] = v(s)
      BY <3>1
    <3>3. QED
      BY <3>2 DEF v
  <2> DEFINE k == m + 1
             g == [s \in SUBSET (1..k) |->
                     IF k \in s THEN WriteVersion(f[s \ {k}], batch[k].path, batch[k].meta)
                     ELSE f[s]]
  <2>3. ASSUME NEW s \in SUBSET (1..k)
        PROVE  g[s] = IF s = {} THEN d
                      ELSE WriteVersion(g[s \ {Max(s)}], batch[Max(s)].path, batch[Max(s)].meta)
    <3>1. CASE k \in s
      <4>1. Max(s) = k
        <5>1. \A x \in s : x \in 1..k /\ x <= k
          BY <1>2
        <5>2. \A y \in s : (\A x \in s : y >= x) => y = k
          BY <3>1, <5>1, <1>2
        <5>3. \A x \in s : k >= x
          BY <5>1, <1>2
        <5>4. QED
          BY <3>1, <5>2, <5>3 DEF Max
      <4>2. s \ {k} \in SUBSET (1..m) /\ s \ {k} \in SUBSET (1..k) /\ k \notin s \ {k}
        BY <1>2
      <4>3. g[s] = WriteVersion(f[s \ {k}], batch[k].path, batch[k].meta) /\ g[s \ {k}] = f[s \ {k}]
        BY <3>1, <4>2
      <4>4. QED
        BY <3>1, <4>1, <4>3
    <3>2. CASE k \notin s
      <4>1. s \in SUBSET (1..m)
        <5>1. m \in Nat /\ 1..k = 1..m \cup {k}
          BY <1>2
        <5>2. QED
          BY <3>2, <5>1
      <4>4. s \ {Max(s)} \in SUBSET (1..k) /\ k \notin s \ {Max(s)}
        BY <3>2
      <4>2. g[s] = f[s] /\ g[s \ {Max(s)}] = f[s \ {Max(s)}]
        BY <3>2, <4>4
      <4>3. QED
        BY <2>2, <4>1, <4>2
    <3>3. QED
      BY <3>1, <3>2
  <2>4. IsFold(d, batch, k, g)
    <3> DEFINE v(s) == IF s = {} THEN d
                       ELSE WriteVersion(g[s \ {Max(s)}], batch[Max(s)].path, batch[Max(s)].meta)
    <3>1. g = [s \in SUBSET (1..k) |-> g[s]]
      OBVIOUS
    <3> HIDE DEF g
    <3>2. \A s \in SUBSET (1..k) : g[s] = v(s)
      BY <2>3
    <3> HIDE DEF v
    <3>3. g = [s \in SUBSET (1..k) |-> v(s)]
      BY <3>1, <3>2
    <3>4. QED
      BY <3>3 DEF IsFold, v
  <2> HIDE DEF g
  <2>5. QED
    BY <1>2, <2>4
<1> HIDE DEF T
<1>3. 0..n \subseteq T
  BY <1>1, <1>2, NumbersUpTo
<1>4. n \in T
  BY <1>3
<1>5. QED
  BY <1>4 DEF T
=============================================================================
