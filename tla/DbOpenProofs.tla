---------------------------- MODULE DbOpenProofs ----------------------------
(***************************************************************************)
(* Theorems about DbOpen, for any number of processes, commands and        *)
(* crashes.                                                                *)
(***************************************************************************)
EXTENDS DbOpen, FiniteSetTheorems, TLAPS

Places == {"idle", "look", "create dir", "check files", "make LOCK", "lock"} \cup Locked

(* Shapes of the variables the argument needs. *)
Shape ==
  /\ meta \in {"none", "created", "written"}
  /\ index \in {"none", "created", "redb", "schema"}
  /\ dir \in BOOLEAN
  /\ lock \in BOOLEAN
  /\ holder \subseteq Procs
  /\ pc \in [Procs -> Places]
  /\ sawEmpty \in [Procs -> BOOLEAN]

(* LOCK is held by at most one process, from the step that takes it to the *)
(* end of the command.                                                     *)
Exclusive ==
  /\ \A p \in Procs : p \in holder <=> pc[p] \in Locked
  /\ \A p, q \in holder : p = q

(* meta.toml is there before the index, and at each place of a process     *)
(* what its earlier steps have made is still there.                        *)
FilesInOrder ==
  /\ index # "none" => meta # "none"
  /\ \A p \in Procs :
       /\ pc[p] \in {"write meta", "init index"} => meta # "none"
       /\ pc[p] \in {"init redb", "open redb"} => index # "none"
       /\ pc[p] = "schema" => index \in {"redb", "schema"}
       /\ pc[p] = "open" => index = "schema"

(* The directory is there once a process has gone past it.                 *)
DirBeforeFiles ==
  /\ lock \/ meta # "none" \/ index # "none" => dir
  /\ \A p \in Procs : pc[p] \notin {"idle", "look", "create dir"} => dir

Bounds == starts \in 0..MaxStarts /\ crashes \in 0..MaxCrashes

IInv == Shape /\ Exclusive /\ FilesInOrder /\ DirBeforeFiles /\ Bounds

-----------------------------------------------------------------------------
(* Every initial state is in the invariant. *)
LEMMA InitIInv == Init => IInv
<1> SUFFICES ASSUME Init PROVE IInv
  OBVIOUS
<1>1. Shape /\ Exclusive
  BY DEF Init, Shape, Exclusive, Places, Locked
<1>2. FilesInOrder /\ DirBeforeFiles
  BY DEF Init, FilesInOrder, DirBeforeFiles
<1>3. Bounds
  BY OpenAssumption DEF Init, Bounds
<1>4. QED
  BY <1>1, <1>2, <1>3 DEF IInv

(* Counting a start or a crash stays within its bound. *)
LEMMA CountBounds ==
  ASSUME NEW n \in Nat, NEW i \in 0..n, i < n
  PROVE  i + 1 \in 0..n
  OBVIOUS

(* Steps before LOCK is held change neither meta.toml nor the index.       *)
LEMMA UnlockedStep ==
  ASSUME IInv, NEW p \in Procs,
         \/ Start(p) \/ CreateDir(p) \/ DirCreated(p) \/ ListDir(p)
         \/ LooksValid(p) \/ LooksForeign(p) \/ MakeLock(p)
  PROVE  IInv'
<1> USE DEF IInv, Shape, Exclusive, FilesInOrder, DirBeforeFiles, Bounds, Places, Locked,
            Goto, files
<1>1. CASE Start(p)
  <2>1. (Shape /\ Exclusive)'
    BY <1>1 DEF Start
  <2>2. (FilesInOrder /\ DirBeforeFiles)'
    BY <1>1 DEF Start
  <2>3. Bounds'
    <3>1. starts + 1 \in 0..MaxStarts
      BY <1>1, OpenAssumption, CountBounds DEF Start
    <3>2. QED
      BY <1>1, <3>1 DEF Start
  <2>4. QED
    BY <2>1, <2>2, <2>3
<1>2. CASE CreateDir(p)
  BY <1>2 DEF CreateDir
<1>3. CASE DirCreated(p)
  BY <1>3 DEF DirCreated
<1>4. CASE ListDir(p)
  BY <1>4 DEF ListDir, NoEntries
<1>5. CASE LooksValid(p)
  BY <1>5 DEF LooksValid
<1>6. CASE LooksForeign(p)
  BY <1>6 DEF LooksForeign, Leave
<1>7. CASE MakeLock(p)
  BY <1>7 DEF MakeLock
<1>8. QED
  BY <1>1, <1>2, <1>3, <1>4, <1>5, <1>6, <1>7

(* Steps that take, use or give up LOCK. *)
LEMMA LockedStep ==
  ASSUME IInv, NEW p \in Procs,
         \/ TryLock(p) \/ InitMeta(p) \/ WriteMeta(p) \/ InitIndex(p) \/ InitRedb(p)
         \/ RequireBoth(p) \/ OpenRedb(p) \/ EnsureSchema(p) \/ Close(p) \/ Crash(p)
  PROVE  IInv'
<1> USE DEF IInv, Shape, Exclusive, FilesInOrder, DirBeforeFiles, Bounds, Places, Locked,
            Goto, files
<1>1. CASE TryLock(p)
  <2>1. UNCHANGED <<dir, lock, meta, index, sawEmpty, starts, crashes>> /\ pc[p] = "lock"
    BY <1>1 DEF TryLock
  <2>2. CASE MayLock
    <3>1. holder = {} /\ holder' = {p}
      BY <1>1, <2>2 DEF TryLock, MayLock
    <3>2. /\ pc' = [pc EXCEPT ![p] = AfterLock(p)]
          /\ AfterLock(p) \in {"init meta", "require"}
      BY <1>1, <2>2 DEF TryLock, AfterLock
    <3> HIDE DEF AfterLock
    <3>3. QED
      BY <2>1, <3>1, <3>2
  <2>3. CASE ~MayLock
    <3>1. pc' = [pc EXCEPT ![p] = "idle"] /\ holder' = holder
      BY <1>1, <2>3 DEF TryLock, Leave
    <3>2. QED
      BY <2>1, <3>1
  <2>4. QED
    BY <2>2, <2>3
<1>2. CASE InitMeta(p)
  <2>1. /\ UNCHANGED <<dir, lock, index, holder, sawEmpty, starts, crashes>>
        /\ pc[p] = "init meta"
        /\ \/ meta' = "created" /\ pc' = [pc EXCEPT ![p] = "write meta"]
           \/ meta # "none" /\ meta' = meta /\ pc' = [pc EXCEPT ![p] = "init index"]
    BY <1>2 DEF InitMeta
  <2>2. (Shape /\ Exclusive)'
    BY <2>1
  <2>3. (FilesInOrder /\ DirBeforeFiles /\ Bounds)'
    BY <2>1
  <2>4. QED
    BY <2>2, <2>3
<1>3. CASE WriteMeta(p)
  <2>1. (Shape /\ Exclusive)'
    BY <1>3 DEF WriteMeta
  <2>2. (FilesInOrder /\ DirBeforeFiles /\ Bounds)'
    BY <1>3 DEF WriteMeta
  <2>3. QED
    BY <2>1, <2>2
<1>4. CASE InitIndex(p)
  <2>1. (Shape /\ Exclusive)'
    BY <1>4 DEF InitIndex, IndexCreated
  <2>2. (FilesInOrder /\ DirBeforeFiles /\ Bounds)'
    BY <1>4 DEF InitIndex, IndexCreated
  <2>3. QED
    BY <2>1, <2>2
<1>5. CASE InitRedb(p)
  <2>1. (Shape /\ Exclusive)'
    BY <1>5 DEF InitRedb, RedbCreated
  <2>2. (FilesInOrder /\ DirBeforeFiles /\ Bounds)'
    BY <1>5 DEF InitRedb, RedbCreated
  <2>3. QED
    BY <2>1, <2>2
<1>6. CASE RequireBoth(p)
  <2>1. UNCHANGED <<dir, lock, meta, index, sawEmpty, starts, crashes>> /\ pc[p] = "require"
    BY <1>6 DEF RequireBoth
  <2>2. CASE HasBoth
    <3>1. pc' = [pc EXCEPT ![p] = "open redb"] /\ holder' = holder /\ index # "none"
      BY <1>6, <2>2 DEF RequireBoth, HasBoth
    <3>2. QED
      BY <2>1, <3>1
  <2>3. CASE ~HasBoth
    <3>1. pc' = [pc EXCEPT ![p] = "idle"] /\ holder' = holder \ {p}
      BY <1>6, <2>3 DEF RequireBoth, Leave
    <3>2. QED
      BY <2>1, <3>1
  <2>4. QED
    BY <2>2, <2>3
<1>7. CASE OpenRedb(p)
  <2>1. (Shape /\ Exclusive)'
    BY <1>7 DEF OpenRedb, RedbCreated
  <2>2. (FilesInOrder /\ DirBeforeFiles /\ Bounds)'
    BY <1>7 DEF OpenRedb, RedbCreated
  <2>3. QED
    BY <2>1, <2>2
<1>8. CASE EnsureSchema(p)
  BY <1>8 DEF EnsureSchema
<1>9. CASE Close(p)
  <2>1. (Shape /\ Exclusive)'
    BY <1>9 DEF Close, Leave
  <2>2. (FilesInOrder /\ DirBeforeFiles /\ Bounds)'
    BY <1>9 DEF Close, Leave
  <2>3. QED
    BY <2>1, <2>2
<1>10. CASE Crash(p)
  <2>1. (Shape /\ Exclusive)'
    BY <1>10 DEF Crash, Leave
  <2>2. (FilesInOrder /\ DirBeforeFiles)'
    BY <1>10 DEF Crash, Leave
  <2>3. Bounds'
    <3>1. crashes + 1 \in 0..MaxCrashes
      BY <1>10, OpenAssumption, CountBounds DEF Crash
    <3>2. QED
      BY <1>10, <3>1 DEF Crash
  <2>4. QED
    BY <2>1, <2>2, <2>3
<1>11. QED
  BY <1>1, <1>2, <1>3, <1>4, <1>5, <1>6, <1>7, <1>8, <1>9, <1>10

-----------------------------------------------------------------------------
(* Every step keeps the invariant. *)
LEMMA NextIInv == IInv /\ [Next]_vars => IInv'
<1> SUFFICES ASSUME IInv, [Next]_vars PROVE IInv'
  OBVIOUS
<1>1. ASSUME NEW p \in Procs, Start(p) \/ Step(p) \/ Crash(p)
      PROVE  IInv'
  BY <1>1, UnlockedStep, LockedStep DEF Step
<1>2. CASE UNCHANGED vars
  BY <1>2 DEF vars, IInv, Shape, Exclusive, FilesInOrder, DirBeforeFiles, Bounds
<1>3. QED
  BY <1>1, <1>2 DEF Next

(* In every reachable state the invariant holds. *)
LEMMA Invariance == Spec => []IInv
  BY InitIInv, NextIInv, PTL DEF Spec

(* The variables keep their types, files appear only in an existing        *)
(* directory, and the lock is held exactly between taking it and the end.  *)
THEOREM OpenTypeCorrect == Spec => []TypeOK
<1>1. IInv => TypeOK
  BY DEF IInv, Shape, Exclusive, DirBeforeFiles, Bounds, TypeOK
<1>2. QED
  BY <1>1, Invariance, PTL

(* The look at the directory that decides about the initialization is      *)
(* taken without lock, and still no two processes initialize or use the    *)
(* database at once, and every handle has a schema behind it.              *)
THEOREM OneReadyHandleHolds == Spec => []OneReadyHandle
<1> DEFINE S == { p \in Procs : pc[p] \in Locked }
<1>1. ASSUME IInv PROVE Cardinality(S) <= 1
  <2>1. \A p, q \in S : p = q
    BY <1>1 DEF IInv, Exclusive
  <2> HIDE DEF S
  <2>2. CASE S = {}
    BY <2>2, FS_EmptySet
  <2>3. ASSUME NEW p \in S
        PROVE  Cardinality(S) <= 1
    <3>1. S = {p}
      BY <2>1, <2>3
    <3>2. Cardinality({p}) = 1
      BY FS_Singleton
    <3>3. QED
      BY <3>1, <3>2
  <2>4. QED
    BY <2>2, <2>3
<1>2. IInv => \A p \in Procs : pc[p] = "open" => index = "schema" /\ meta # "none"
  BY DEF IInv, FilesInOrder
<1>3. IInv => OneReadyHandle
  BY <1>1, <1>2 DEF OneReadyHandle
<1>4. QED
  BY <1>3, Invariance, PTL

(* Wherever a process dies, an index that exists has its meta.toml: the    *)
(* next look at the directory accepts it.                                  *)
THEOREM IndexIsAcceptedHolds == Spec => []IndexIsAccepted
<1>1. IInv => IndexIsAccepted
  BY DEF IInv, FilesInOrder, IndexIsAccepted, HasBoth
<1>2. QED
  BY <1>1, Invariance, PTL

(* A process that saw the directory empty and locks it after another has   *)
(* initialized and used it never creates the index anew.                   *)
THEOREM IndexIsNeverReset == Spec => NeverReset
<1> DEFINE Kept ==
      /\ index # "none" => index' # "none"
      /\ index \in {"redb", "schema"} => index' # "created"
      /\ index = "schema" => index' = "schema"
<1>1. IInv /\ [Next]_vars => [Kept]_vars
  <2> SUFFICES ASSUME IInv, NEW p \in Procs, Start(p) \/ Step(p) \/ Crash(p)
               PROVE  Kept
    BY DEF Next
  <2>1. CASE UNCHANGED index
    BY <2>1
  <2>2. CASE InitIndex(p)
    BY <2>2 DEF InitIndex, IndexCreated
  <2>3. CASE InitRedb(p) \/ OpenRedb(p)
    BY <2>3 DEF InitRedb, OpenRedb, RedbCreated
  <2>4. CASE EnsureSchema(p)
    BY <2>4 DEF EnsureSchema
  <2>5. QED
    BY <2>1, <2>2, <2>3, <2>4
    DEF Step, files, Start, CreateDir, DirCreated, ListDir, LooksValid, LooksForeign,
        MakeLock, TryLock, InitMeta, WriteMeta, RequireBoth, Close, Crash
<1>2. QED
  BY <1>1, Invariance, PTL DEF Spec, NeverReset

-----------------------------------------------------------------------------
(* First commands that race *)

(* A process that did not see the directory empty saw an index.            *)
SawOneOrTheOther ==
  \A p \in Procs :
    /\ pc[p] \in {"make LOCK", "lock"} /\ ~sawEmpty[p] => index # "none"
    /\ pc[p] = "require" => index # "none"

(* While nobody has died and there is no database yet, some process is on  *)
(* a way that does not end before there is one: it holds LOCK, or is past  *)
(* the look at the directory, or the look will find nothing.               *)
OnItsWay(p) ==
  \/ pc[p] \in {"make LOCK", "lock"} \cup Locked
  \/ NoEntries /\ pc[p] \in {"look", "create dir"}

SomeoneOnItsWay ==
  /\ starts = 0 => NoEntries /\ \A p \in Procs : pc[p] = "idle"
  /\ starts > 0 /\ crashes = 0 /\ index # "schema" => \E p \in Procs : OnItsWay(p)

WInv == IInv /\ SawOneOrTheOther /\ SomeoneOnItsWay

(* What a process saw stays so: no step removes an index.                  *)
LEMMA SawKept ==
  ASSUME WInv, NEW p \in Procs, Start(p) \/ Step(p) \/ Crash(p)
  PROVE  SawOneOrTheOther'
<1> USE DEF WInv, IInv, Shape, Places, Locked, SawOneOrTheOther, Goto, files
<1>1. CASE Start(p)
  BY <1>1 DEF Start
<1>2. CASE CreateDir(p) \/ DirCreated(p) \/ ListDir(p)
  BY <1>2 DEF CreateDir, DirCreated, ListDir
<1>3. CASE LooksValid(p) \/ LooksForeign(p)
  BY <1>3 DEF LooksValid, LooksForeign, HasBoth, Leave
<1>4. CASE MakeLock(p)
  BY <1>4 DEF MakeLock
<1>5. CASE TryLock(p)
  BY <1>5 DEF TryLock, AfterLock, Leave
<1>6. CASE InitMeta(p) \/ WriteMeta(p)
  BY <1>6 DEF InitMeta, WriteMeta
<1>7. CASE InitIndex(p) \/ InitRedb(p)
  BY <1>7 DEF InitIndex, IndexCreated, InitRedb, RedbCreated, FilesInOrder
<1>8. CASE RequireBoth(p)
  BY <1>8 DEF RequireBoth, Leave
<1>9. CASE OpenRedb(p) \/ EnsureSchema(p)
  BY <1>9 DEF OpenRedb, RedbCreated, EnsureSchema
<1>10. CASE Close(p) \/ Crash(p)
  BY <1>10 DEF Close, Crash, Leave
<1>11. QED
  BY <1>1, <1>2, <1>3, <1>4, <1>5, <1>6, <1>7, <1>8, <1>9, <1>10 DEF Step

(* A step of one process leaves another one on its way, unless it is the   *)
(* step by which LOCK or the files appear; then it is on its way itself.   *)
LEMMA WayKept ==
  ASSUME WInv, NEW p \in Procs, Start(p) \/ Step(p), index' # "schema", crashes = 0,
         starts' > 0
  PROVE  \E q \in Procs : OnItsWay(q)'
<1>0. pc \in [Procs -> Places] /\ starts \in Nat
  BY OpenAssumption DEF WInv, IInv, Shape, Bounds
<1>1. CASE Start(p)
  <2>1. /\ pc[p] = "idle" /\ pc' = [pc EXCEPT ![p] = "look"]
        /\ UNCHANGED <<lock, meta, index>>
    BY <1>1 DEF Start, Goto, files
  <2>2. CASE starts = 0
    <3>1. NoEntries' /\ pc'[p] = "look"
      BY <1>0, <2>1, <2>2 DEF WInv, SomeoneOnItsWay, NoEntries
    <3>2. QED
      BY <3>1 DEF OnItsWay
  <2>3. CASE starts > 0
    <3>1. PICK q \in Procs : OnItsWay(q)
      BY <2>1, <2>3 DEF WInv, SomeoneOnItsWay
    <3>2. q # p
      BY <2>1, <3>1 DEF OnItsWay, Locked
    <3>3. pc'[q] = pc[q] /\ (NoEntries' <=> NoEntries)
      BY <1>0, <2>1, <3>2 DEF NoEntries
    <3>4. OnItsWay(q)'
      BY <3>1, <3>3 DEF OnItsWay
    <3>5. QED
      BY <3>4
  <2>4. QED
    BY <1>0, <2>2, <2>3
<1>2. CASE Step(p)
  <2>0. pc[p] # "idle" /\ starts' = starts
    BY <1>2 DEF Step, CreateDir, DirCreated, ListDir, LooksValid, LooksForeign, MakeLock,
       TryLock, InitMeta, WriteMeta, InitIndex, InitRedb, RequireBoth, OpenRedb,
       EnsureSchema, Close, Locked
  <2>1. index # "schema"
    BY <1>2 DEF Step, CreateDir, DirCreated, ListDir, LooksValid, LooksForeign, MakeLock,
       TryLock, InitMeta, WriteMeta, InitIndex, IndexCreated, InitRedb, RedbCreated,
       RequireBoth, OpenRedb, EnsureSchema, Close, files
  <2>2. PICK q \in Procs : OnItsWay(q)
    BY <2>0, <2>1 DEF WInv, SomeoneOnItsWay
  <2>3. CASE pc'[p] \in {"make LOCK", "lock"} \cup Locked
    BY <2>3 DEF OnItsWay
  <2>4. CASE CreateDir(p)
    <3>1. NoEntries
      BY <2>4 DEF CreateDir, NoEntries, WInv, IInv, DirBeforeFiles
    <3>2. NoEntries' /\ pc'[p] = "create dir"
      BY <1>0, <2>4, <3>1 DEF CreateDir, Goto, NoEntries, files
    <3>3. QED
      BY <3>2 DEF OnItsWay
  <2>5. ASSUME pc'[p] \notin {"make LOCK", "lock"} \cup Locked, ~CreateDir(p)
        PROVE  \/ /\ q # p
                  /\ pc' = [pc EXCEPT ![p] = pc'[p]]
                  /\ NoEntries' <=> NoEntries
               \/ \E r \in holder : r # p /\ pc' = [pc EXCEPT ![p] = pc'[p]]
    <3>1. CASE ListDir(p)
      <4>1. ~NoEntries /\ pc[p] = "look" /\ pc' = [pc EXCEPT ![p] = "check files"]
        BY <1>0, <2>5, <3>1 DEF ListDir, Goto, Places
      <4>2. q # p
        BY <2>2, <4>1 DEF OnItsWay, Locked
      <4>3. NoEntries' <=> NoEntries
        BY <3>1 DEF ListDir, files, NoEntries
      <4>4. QED
        BY <1>0, <4>1, <4>2, <4>3
    <3>2. CASE LooksForeign(p)
      <4>1. pc[p] = "check files" /\ pc' = [pc EXCEPT ![p] = "idle"]
        BY <3>2 DEF LooksForeign, Leave, Goto
      <4>2. q # p
        BY <2>2, <4>1 DEF OnItsWay, Locked
      <4>3. NoEntries' <=> NoEntries
        BY <3>2 DEF LooksForeign, files, NoEntries
      <4>4. QED
        BY <1>0, <4>1, <4>2, <4>3
    <3>3. CASE TryLock(p)
      <4>1. pc[p] = "lock" /\ holder # {} /\ pc' = [pc EXCEPT ![p] = "idle"]
        BY <1>0, <2>5, <3>3 DEF TryLock, MayLock, AfterLock, Leave, Goto, Locked
      <4>2. p \notin holder
        BY <4>1 DEF WInv, IInv, Exclusive, Locked
      <4>3. QED
        BY <1>0, <4>1, <4>2
    <3>4. ~RequireBoth(p)
      BY <1>0, <2>5 DEF RequireBoth, HasBoth, Goto, Locked, WInv, IInv, SawOneOrTheOther,
         FilesInOrder
    <3>5. ~Close(p)
      BY <2>1 DEF Close, WInv, IInv, FilesInOrder
    <3>6. QED
      BY <1>0, <1>2, <2>5, <3>1, <3>2, <3>3, <3>4, <3>5
         DEF Step, DirCreated, LooksValid, MakeLock, InitMeta, WriteMeta, InitIndex, InitRedb,
             OpenRedb, EnsureSchema, Goto, Locked
  <2>6. ASSUME pc'[p] \notin {"make LOCK", "lock"} \cup Locked, ~CreateDir(p)
        PROVE  \E r \in Procs : OnItsWay(r)'
    <3>1. CASE q # p /\ pc' = [pc EXCEPT ![p] = pc'[p]] /\ (NoEntries' <=> NoEntries)
      <4>1. pc'[q] = pc[q]
        BY <1>0, <3>1
      <4>2. OnItsWay(q)'
        BY <2>2, <3>1, <4>1 DEF OnItsWay
      <4>3. QED
        BY <4>2
    <3>2. ASSUME NEW r \in holder, r # p, pc' = [pc EXCEPT ![p] = pc'[p]]
          PROVE  \E t \in Procs : OnItsWay(t)'
      <4>1. r \in Procs /\ pc[r] \in Locked
        BY DEF WInv, IInv, Shape, Exclusive
      <4>2. pc'[r] \in Locked
        BY <1>0, <3>2, <4>1
      <4>3. OnItsWay(r)'
        BY <4>2 DEF OnItsWay
      <4>4. QED
        BY <4>1, <4>3
    <3>3. QED
      BY <2>5, <2>6, <3>1, <3>2
  <2>7. QED
    BY <2>3, <2>4, <2>6
<1>3. QED
  BY <1>1, <1>2

(* Every step keeps someone on its way. *)
LEMMA NextWInv == WInv /\ [Next]_vars => WInv'
<1> SUFFICES ASSUME WInv, [Next]_vars PROVE WInv'
  OBVIOUS
<1>1. IInv'
  BY NextIInv DEF WInv
<1>2. ASSUME NEW p \in Procs, Start(p) \/ Step(p)
      PROVE  SomeoneOnItsWay'
  <2>1. crashes' = crashes
    BY <1>2 DEF Start, Step, CreateDir, DirCreated, ListDir, LooksValid, LooksForeign,
       MakeLock, TryLock, InitMeta, WriteMeta, InitIndex, InitRedb, RequireBoth, OpenRedb,
       EnsureSchema, Close
  <2>2. starts' # 0
    <3>1. starts \in Nat
      BY OpenAssumption DEF WInv, IInv, Bounds
    <3>2. CASE Start(p)
      BY <3>1, <3>2 DEF Start
    <3>3. CASE Step(p)
      <4>1. pc[p] # "idle" /\ starts' = starts
        BY <3>3 DEF Step, CreateDir, DirCreated, ListDir, LooksValid, LooksForeign, MakeLock,
           TryLock, InitMeta, WriteMeta, InitIndex, InitRedb, RequireBoth, OpenRedb,
           EnsureSchema, Close
      <4>2. QED
        BY <4>1 DEF WInv, SomeoneOnItsWay
    <3>4. QED
      BY <1>2, <3>2, <3>3
  <2>3. QED
    BY <1>2, <2>1, <2>2, WayKept DEF SomeoneOnItsWay
<1>3. ASSUME NEW p \in Procs, Crash(p)
      PROVE  SomeoneOnItsWay'
  <2>1. crashes \in Nat /\ crashes' = crashes + 1 /\ starts' = starts /\ pc[p] # "idle"
    BY <1>3, OpenAssumption DEF Crash, WInv, IInv, Bounds
  <2>2. crashes' # 0 /\ starts' # 0
    BY <2>1 DEF WInv, SomeoneOnItsWay
  <2>3. QED
    BY <2>2 DEF SomeoneOnItsWay
<1>4. CASE UNCHANGED vars
  BY <1>1, <1>4 DEF vars, WInv, SawOneOrTheOther, SomeoneOnItsWay, OnItsWay, NoEntries
<1>5. QED
  BY <1>1, <1>2, <1>3, <1>4, SawKept DEF Next, WInv

(* In every reachable state someone is on its way, or there is a database, *)
(* or a process has died.                                                  *)
LEMMA WayInvariance == Spec => []WInv
<1>1. Init => WInv
  <2>1. Init => SawOneOrTheOther /\ SomeoneOnItsWay
    BY DEF Init, SawOneOrTheOther, SomeoneOnItsWay, NoEntries
  <2>2. QED
    BY <2>1, InitIInv DEF WInv
<1>2. QED
  BY <1>1, NextWInv, PTL DEF Spec

(* However many first commands race, and in whatever order their looks at  *)
(* the directory and their attempts at LOCK come: if none dies, they do    *)
(* not all turn each other away.                                           *)
THEOREM RaceHasAWinner == Spec => []RaceHasWinner
<1>1. WInv => RaceHasWinner
  BY DEF WInv, SomeoneOnItsWay, OnItsWay, RaceHasWinner, Locked
<1>2. QED
  BY <1>1, WayInvariance, PTL

(* A command alone is only turned away where an earlier one died before it *)
(* made the index.                                                         *)
THEOREM AloneIsNotTurnedAway == Spec => AloneIsAccepted
<1> DEFINE Accepted ==
      \A p \in Procs :
        LooksForeign(p) /\ (\A q \in Procs \ {p} : pc[q] = "idle")
          => crashes > 0 /\ index = "none"
<1>1. ASSUME WInv, NEW p \in Procs, LooksForeign(p), \A q \in Procs \ {p} : pc[q] = "idle"
      PROVE  crashes > 0 /\ index = "none"
  <2>1. index = "none" /\ pc[p] = "check files"
    BY <1>1 DEF WInv, IInv, FilesInOrder, LooksForeign, HasBoth
  <2>2. starts > 0
    <3>1. starts \in 0..MaxStarts
      BY <1>1 DEF WInv, IInv, Bounds
    <3>2. starts # 0
      BY <1>1, <2>1 DEF WInv, SomeoneOnItsWay
    <3>3. QED
      BY <3>1, <3>2, OpenAssumption
  <2>3. ~\E q \in Procs : OnItsWay(q)
    BY <1>1, <2>1 DEF OnItsWay, Locked
  <2>4. crashes # 0
    BY <1>1, <2>1, <2>2, <2>3 DEF WInv, SomeoneOnItsWay
  <2>5. crashes > 0
    <3>1. crashes \in 0..MaxCrashes
      BY <1>1 DEF WInv, IInv, Bounds
    <3>2. QED
      BY <2>4, <3>1, OpenAssumption
  <2>6. QED
    BY <2>1, <2>5
<1>2. WInv /\ [Next]_vars => [Accepted]_vars
  BY <1>1
<1>3. QED
  BY <1>2, WayInvariance, PTL DEF Spec, AloneIsAccepted
=============================================================================
