----------------------------- MODULE WalkProofs -----------------------------
(***************************************************************************)
(* Theorems about Walk, for any tree, any roots and any changes of the     *)
(* tree between commands: what visited_dirs is for, that a walk misses no  *)
(* file, what it leaves behind, what strings of paths tell of the tree,    *)
(* that the sweep marks missing what is, and where a delete reaches.       *)
(***************************************************************************)
EXTENDS Walk, TableLemmas

-----------------------------------------------------------------------------
(* A path: the fold of Resolve, unfolded *)

(* Where one more component leads.                                         *)
Onward(at, c) == UNION { Step(loc, c) : loc \in at }

(* That is from locations to locations.                                    *)
LEMMA StaysInLocations ==
  ASSUME NEW at \in SUBSET Locations, NEW c
  PROVE  Onward(at, c) \in SUBSET Locations
<1>1. \A loc \in at : Step(loc, c) \subseteq Locations
  BY WalkAssumption DEF Step, Through, Present
<1>2. QED
  BY <1>1 DEF Onward

(* A path leads where its components lead, one after the other.            *)
LEMMA PathSteps ==
  ASSUME NEW path, Len(path) \in Nat, DOMAIN path = 1..Len(path)
  PROVE  \E at :
           /\ at[0] = {<<>>}
           /\ \A m \in 1..Len(path) :
                at[m] = Onward(at[m - 1], path[m])
           /\ Resolve(path) = at[Len(path)]
<1> DEFINE n == Len(path)
           v(f, s) == IF s = {} THEN {<<>>} ELSE Onward(f[s \ {Max(s)}], path[Max(s)])
           It(f) == f = [s \in SUBSET DOMAIN path |-> v(f, s)]
           iter == CHOOSE f : It(f)
           at == [m \in 0..n |-> iter[1..m]]
<1>1. Resolve(path) = iter[1..n]
  BY DEF Resolve, Onward, FoldLeft, MapThenFoldSet
<1>2. \E f : It(f)
  <2> DEFINE X == SUBSET Locations
             step == [i \in 1..n |-> [x \in X |-> Onward(x, path[i])]]
  <2>1. step \in [1..n -> [X -> X]] /\ {<<>>} \in X
    BY WalkAssumption, StaysInLocations
  <2> HIDE DEF X
  <2>2. PICK row \in [SUBSET (1..n) -> X] : IsRow(step, {<<>>}, n, row)
    <3> HIDE DEF step
    <3>1. QED
      BY <2>1, RowExists
  <2>3. ASSUME NEW s \in SUBSET (1..n), s # {}
        PROVE  step[Max(s)][row[s \ {Max(s)}]] = Onward(row[s \ {Max(s)}], path[Max(s)])
    <3>1. Max(s) \in 1..n
      BY <2>3, GreatestNumber
    <3>2. row[s \ {Max(s)}] \in X
      OBVIOUS
    <3>3. QED
      BY <3>1, <3>2
  <2> DEFINE u(s) == IF s = {} THEN {<<>>} ELSE step[Max(s)][row[s \ {Max(s)}]]
  <2>4. row = [s \in SUBSET (1..n) |-> u(s)]
    BY <2>2 DEF IsRow
  <2>5. \A s \in SUBSET (1..n) : u(s) = v(row, s)
    BY <2>3
  <2> HIDE DEF u, v
  <2>6. It(row)
    BY <2>4, <2>5
  <2> HIDE DEF It
  <2>7. QED
    BY <2>6
<1>3. \A s \in SUBSET (1..n) : iter[s] = v(iter, s)
  <2>1. It(iter)
    <3> HIDE DEF It
    <3>1. QED
      BY <1>2
  <2> HIDE DEF iter, v
  <2>2. QED
    BY <2>1
<1> HIDE DEF iter
<1>4. at[0] = {<<>>}
  <2>1. 1..0 = {} /\ {} \in SUBSET (1..n)
    OBVIOUS
  <2>2. iter[1..0] = {<<>>}
    BY <1>3, <2>1
  <2>3. QED
    BY <2>2
<1>5. ASSUME NEW m \in 1..n
      PROVE  at[m] = Onward(at[m - 1], path[m])
  <2>1. 1..m \in SUBSET (1..n) /\ 1..m # {} /\ (1..m) \ {m} = 1..(m - 1) /\ Max(1..m) = m
    BY UpTo
  <2>2. at[m] = iter[1..m] /\ at[m - 1] = iter[1..(m - 1)]
    OBVIOUS
  <2>3. QED
    BY <1>3, <2>1, <2>2
<1>6. at[n] = iter[1..n]
  OBVIOUS
<1> HIDE DEF at
<1>7. Resolve(path) = at[n]
  BY <1>1, <1>6
<1>8. QED
  BY <1>4, <1>5, <1>7

(* Where a path leads is where its last component leads from where the     *)
(* path without it does.                                                   *)
LEMMA LastStep ==
  ASSUME NEW path \in Seq(Words), path # <<>>
  PROVE  Resolve(path) = Onward(Resolve(Front(path)), Last(path))
<1> DEFINE n == Len(path)
           q == Front(path)
<1>1. n \in Nat \ {0} /\ DOMAIN path = 1..n /\ Last(path) = path[n]
  BY LenProperties, EmptySeq DEF Last
<1>2. /\ q \in Seq(Words) /\ Len(q) = n - 1 /\ DOMAIN q = 1..(n - 1)
      /\ \A i \in 1..(n - 1) : q[i] = path[i]
  <2>1. q \in Seq(Words) /\ Len(q) = n - 1 /\ Last(path) \in Words /\ path = Append(q, Last(path))
    BY FrontLast
  <2> HIDE DEF q
  <2>2. \A i \in 1..Len(q) : path[i] = q[i]
    BY <2>1, AppendProperties
  <2>3. QED
    BY <2>1, <2>2, LenProperties
<1> HIDE DEF q
<1>3. PICK at : /\ at[0] = {<<>>}
                /\ \A m \in 1..n : at[m] = Onward(at[m - 1], path[m])
                /\ Resolve(path) = at[n]
  BY <1>1, PathSteps
<1>4. PICK bt : /\ bt[0] = {<<>>}
                /\ \A m \in 1..(n - 1) : bt[m] = Onward(bt[m - 1], q[m])
                /\ Resolve(q) = bt[n - 1]
  <2>1. Len(q) \in Nat
    BY <1>1, <1>2
  <2>2. QED
    BY <1>2, <2>1, PathSteps
<1>5. at[n - 1] = bt[n - 1]
  <2> DEFINE k == n - 1
  <2>1. k \in Nat /\ \A m \in 1..k : m \in 1..n
    BY <1>1
  <2>2. \A m \in 1..k : bt[m] = Onward(bt[m - 1], q[m]) /\ q[m] = path[m]
    BY <1>2, <1>4
  <2> HIDE DEF k
  <2>3. \A m \in 1..k : at[m - 1] = bt[m - 1] => at[m] = bt[m]
    BY <1>3, <2>1, <2>2
  <2>4. at[0] = bt[0]
    BY <1>3, <1>4
  <2>5. at[k] = bt[k]
    BY <2>1, <2>3, <2>4, RowsAgree
  <2>6. QED
    BY <2>5 DEF k
<1>6. at[n] = Onward(at[n - 1], path[n])
  BY <1>1, <1>3
<1>7. QED
  BY <1>1, <1>3, <1>4, <1>5, <1>6 DEF q

(* The root leads to the root.                                             *)
LEMMA RootLeads == Resolve(<<>>) = {<<>>}
<1>1. Len(<<>>) = 0 /\ DOMAIN <<>> = 1..Len(<<>>)
  BY EmptySeq, LenProperties
<1>2. QED
  BY <1>1, PathSteps

-----------------------------------------------------------------------------
(* Normalizing *)

Names == DOMAIN Spelling

(* What one more component does to a normalized path.                      *)
Shorten(out, c) ==
  CASE c = "."  -> out
    [] c = ".." -> IF out = <<>> THEN out ELSE Front(out)
    [] OTHER    -> Append(out, c)

(* It stays a path of names.                                               *)
LEMMA ShortenKeeps ==
  ASSUME NEW out \in Seq(Names), NEW c \in Words
  PROVE  Shorten(out, c) \in Seq(Names)
<1>1. CASE c \in Names
  BY <1>1, WalkAssumption, AppendProperties DEF Shorten, Names
<1>2. CASE c \in {".", ".."}
  BY <1>2, FrontLast DEF Shorten
<1>3. QED
  BY <1>1, <1>2 DEF Words, Names

(* A path is normalized component by component, to names only.             *)
LEMMA NormalSteps ==
  ASSUME NEW path \in Seq(Words)
  PROVE  \E at :
           /\ at[0] = <<>>
           /\ \A m \in 1..Len(path) : at[m] = Shorten(at[m - 1], path[m])
           /\ Normalize(path) = at[Len(path)]
           /\ at[Len(path)] \in Seq(Names)
<1> DEFINE n == Len(path)
           X == Seq(Names)
           v(f, s) == IF s = {} THEN <<>> ELSE Shorten(f[s \ {Max(s)}], path[Max(s)])
           It(f) == f = [s \in SUBSET DOMAIN path |-> v(f, s)]
           iter == CHOOSE f : It(f)
           at == [m \in 0..n |-> iter[1..m]]
<1>0. n \in Nat /\ DOMAIN path = 1..n /\ \A i \in 1..n : path[i] \in Words
  BY LenProperties, ElementOfSeq
<1>1. Normalize(path) = iter[1..n]
  BY <1>0 DEF Normalize, Shorten, FoldLeft, MapThenFoldSet
<1>2. \E f : It(f)
  <2> DEFINE step == [i \in 1..n |-> [x \in X |-> Shorten(x, path[i])]]
  <2>1. step \in [1..n -> [X -> X]] /\ <<>> \in X
    BY <1>0, ShortenKeeps, EmptySeq
  <2> HIDE DEF X, n
  <2>2. PICK row \in [SUBSET (1..n) -> X] : IsRow(step, <<>>, n, row)
    <3> HIDE DEF step
    <3>1. QED
      BY <1>0, <2>1, RowExists
  <2>3. ASSUME NEW s \in SUBSET (1..n), s # {}
        PROVE  step[Max(s)][row[s \ {Max(s)}]] = Shorten(row[s \ {Max(s)}], path[Max(s)])
    <3>1. Max(s) \in 1..n
      BY <1>0, <2>3, GreatestNumber
    <3>2. row[s \ {Max(s)}] \in X
      OBVIOUS
    <3>3. QED
      BY <3>1, <3>2
  <2> DEFINE u(s) == IF s = {} THEN <<>> ELSE step[Max(s)][row[s \ {Max(s)}]]
  <2>4. row = [s \in SUBSET (1..n) |-> u(s)]
    BY <2>2 DEF IsRow
  <2>5. \A s \in SUBSET (1..n) : u(s) = v(row, s)
    BY <2>3
  <2> HIDE DEF u, v
  <2>6. It(row)
    BY <1>0, <2>4, <2>5
  <2> HIDE DEF It
  <2>7. QED
    BY <2>6
<1>3. \A s \in SUBSET (1..n) : iter[s] = v(iter, s)
  <2>1. It(iter)
    <3> HIDE DEF It
    <3>1. QED
      BY <1>2
  <2> HIDE DEF iter, v, n
  <2>2. QED
    BY <1>0, <2>1
<1> HIDE DEF iter, n
<1>4. at[0] = <<>>
  <2>1. 1..0 = {} /\ {} \in SUBSET (1..n)
    OBVIOUS
  <2>2. iter[1..0] = <<>>
    BY <1>3, <2>1
  <2>3. QED
    BY <1>0, <2>2
<1>5. ASSUME NEW m \in 1..n
      PROVE  at[m] = Shorten(at[m - 1], path[m])
  <2>1. 1..m \in SUBSET (1..n) /\ 1..m # {} /\ (1..m) \ {m} = 1..(m - 1) /\ Max(1..m) = m
    BY <1>0, UpTo
  <2>2. at[m] = iter[1..m] /\ at[m - 1] = iter[1..(m - 1)]
    BY <1>0
  <2>3. QED
    BY <1>3, <2>1, <2>2
<1>6. at[n] = iter[1..n]
  BY <1>0
<1> HIDE DEF at
<1>7. at[n] \in X
  <2> DEFINE T == { m \in 0..n : at[m] \in X }
  <2>1. 0 \in T
    <3>1. 0 \in 0..n /\ <<>> \in X
      BY <1>0, EmptySeq
    <3>2. QED
      BY <1>4, <3>1
  <2>2. ASSUME NEW m \in T, m \in 0..(n - 1)
        PROVE  m + 1 \in T
    <3>1. m + 1 \in 1..n /\ m + 1 \in 0..n /\ (m + 1) - 1 = m
      BY <1>0, <2>2
    <3>2. at[m + 1] = Shorten(at[m], path[m + 1]) /\ path[m + 1] \in Words
      BY <1>0, <1>5, <3>1
    <3>3. QED
      BY <3>1, <3>2, ShortenKeeps
  <2> HIDE DEF T
  <2>3. n \in T
    BY <1>0, <2>1, <2>2, NumbersUpTo
  <2>4. QED
    BY <2>3 DEF T
<1>8. QED
  BY <1>1, <1>4, <1>5, <1>6, <1>7 DEF n

(* A name behind a path stays behind the normalized one.                   *)
LEMMA NormalizeName ==
  ASSUME NEW q \in Seq(Words), NEW name \in Names
  PROVE  /\ Normalize(q) \in Seq(Names)
         /\ Normalize(Append(q, name)) = Append(Normalize(q), name)
<1> DEFINE path == Append(q, name)
           n == Len(q)
<1>1. /\ path \in Seq(Words) /\ Len(path) = n + 1 /\ n \in Nat
      /\ \A i \in 1..n : path[i] = q[i]
      /\ path[n + 1] = name
  <2>1. name \in Words
    BY DEF Words, Names
  <2>2. QED
    BY <2>1, AppendProperties, LenProperties
<1> HIDE DEF path, n
<1>2. PICK at : /\ at[0] = <<>>
                /\ \A m \in 1..(n + 1) : at[m] = Shorten(at[m - 1], path[m])
                /\ Normalize(path) = at[n + 1]
  BY <1>1, NormalSteps
<1>3. PICK bt : /\ bt[0] = <<>>
                /\ \A m \in 1..n : bt[m] = Shorten(bt[m - 1], q[m])
                /\ Normalize(q) = bt[n]
                /\ bt[n] \in Seq(Names)
  BY NormalSteps DEF n
<1>4. at[n] = bt[n]
  <2>1. \A m \in 1..n : m \in 1..(n + 1)
    BY <1>1
  <2>2. \A m \in 1..n : at[m - 1] = bt[m - 1] => at[m] = bt[m]
    BY <1>1, <1>2, <1>3, <2>1
  <2>3. QED
    BY <1>1, <1>2, <1>3, <2>2, RowsAgree
<1>5. at[n + 1] = Shorten(at[n], name)
  <2>1. n + 1 \in 1..(n + 1) /\ (n + 1) - 1 = n
    BY <1>1
  <2>2. QED
    BY <1>1, <1>2, <2>1
<1>6. Shorten(at[n], name) = Append(at[n], name)
  BY WalkAssumption DEF Shorten, Names
<1>7. QED
  BY <1>2, <1>3, <1>4, <1>5, <1>6 DEF path

-----------------------------------------------------------------------------
(* A tree *)

(* Where a path can lead: to what is there and is no link.                 *)
Ends == { l \in Locations : fs[l] \in {Dir, File} }

(* Every node has one of four kinds.                                       *)
LEMMA TreeNodes ==
  ASSUME IsTree(fs)
  PROVE  /\ \A l \in Locations :
              /\ fs[l].kind = "none" <=> fs[l] = Nothing
              /\ fs[l].kind = "dir" <=> fs[l] = Dir
              /\ fs[l].kind = "file" <=> fs[l] = File
              /\ fs[l].kind \in {"none", "dir", "file", "link"}
              /\ fs[l].kind = "link" => fs[l].to \in Locations
         /\ \A l \in Locations \ {<<>>} : Present(l) => Front(l) \in Locations /\ fs[Front(l)] = Dir
         /\ <<>> \in Locations /\ fs[<<>>] = Dir
         /\ Nothing # Dir /\ Nothing # File /\ Dir # File
<1>1. \A l \in Locations : fs[l] \in Nodes
  BY DEF IsTree
<1>2. \A node \in Nodes :
        /\ node.kind = "none" <=> node = Nothing
        /\ node.kind = "dir" <=> node = Dir
        /\ node.kind = "file" <=> node = File
        /\ node.kind \in {"none", "dir", "file", "link"}
        /\ node.kind = "link" => node.to \in Locations
  BY DEF Nodes, Nothing, Dir, File, LinkTo
<1>3. \A l \in Locations \ {<<>>} : Present(l) => Front(l) \in Locations /\ fs[Front(l)] = Dir
  <2>1. \A l \in Locations \ {<<>>} : Front(l) \in Locations
    BY WalkAssumption
  <2>2. \A l \in Locations : Present(l) => fs[l] # Nothing
    BY <1>1, <1>2 DEF Present
  <2>3. QED
    BY <2>1, <2>2 DEF IsTree
<1>4. Nothing # Dir /\ Nothing # File /\ Dir # File
  BY DEF Nothing, Dir, File
<1>5. QED
  BY <1>1, <1>2, <1>3, <1>4, WalkAssumption DEF IsTree

(* A location is a name in its front.                                      *)
LEMMA LocationNames ==
  ASSUME NEW l \in Locations
  PROVE  /\ l \in Seq(Names) /\ l \in Seq(Words)
         /\ l # <<>> => /\ Last(l) \in Names /\ Last(l) \in Words
                        /\ Last(l) \notin {".", ".."}
                        /\ Front(l) \in Seq(Names)
                        /\ l = Append(Front(l), Last(l))
                        /\ Len(l) \in Nat \ {0} /\ Len(Front(l)) = Len(l) - 1
<1>1. l \in Seq(Names)
  BY WalkAssumption DEF Names
<1>2. Names \subseteq Words /\ Names \cap {".", ".."} = {}
  BY WalkAssumption DEF Names, Words
<1>3. l \in Seq(Words)
  <2>1. \A i \in 1..Len(l) : l[i] \in Words
    BY <1>1, <1>2, ElementOfSeq
  <2>2. l \in [1..Len(l) -> Words] /\ Len(l) \in Nat
    BY <1>1, <2>1, LenProperties
  <2>3. QED
    BY <2>2, IsASeq
<1>4. QED
  BY <1>1, <1>2, <1>3, FrontLast

(* Following a location ends at most at one place.                         *)
LEMMA ThroughEnds ==
  ASSUME IsTree(fs), NEW l
  PROVE  Through(l) \subseteq Ends /\ \A a, b \in Through(l) : a = b
BY TreeNodes DEF Through, Present, Ends, IsTree

(* So does one more component from such a place.                           *)
LEMMA OnwardEnds ==
  ASSUME IsTree(fs), NEW at, at \subseteq Ends, \A a, b \in at : a = b, NEW c
  PROVE  Onward(at, c) \subseteq Ends /\ \A a, b \in Onward(at, c) : a = b
<1>1. ASSUME NEW loc \in at
      PROVE  Step(loc, c) \subseteq Ends /\ \A a, b \in Step(loc, c) : a = b
  <2>1. loc \in Locations /\ Present(loc)
    BY TreeNodes DEF Ends, Present
  <2>2. /\ loc # <<>> => Front(loc) \in Ends
        /\ loc \in Ends
    BY <2>1, TreeNodes DEF Ends
  <2>3. QED
    BY <2>2, ThroughEnds DEF Step
<1>2. QED
  BY <1>1 DEF Onward

(* And so does a path.                                                     *)
LEMMA ResolveEnds ==
  ASSUME IsTree(fs), NEW path \in Seq(Words)
  PROVE  Resolve(path) \subseteq Ends /\ \A a, b \in Resolve(path) : a = b
<1> DEFINE n == Len(path)
           Good(at) == at \subseteq Ends /\ \A a, b \in at : a = b
<1>1. n \in Nat /\ DOMAIN path = 1..n
  BY LenProperties
<1>2. PICK at : /\ at[0] = {<<>>}
                /\ \A m \in 1..n : at[m] = Onward(at[m - 1], path[m])
                /\ Resolve(path) = at[n]
  BY <1>1, PathSteps
<1> DEFINE T == { m \in 0..n : Good(at[m]) }
<1>3. 0 \in T
  <2>1. Good({<<>>}) /\ 0 \in 0..n
    BY <1>1, TreeNodes DEF Ends
  <2> HIDE DEF Good
  <2>2. QED
    BY <1>2, <2>1
<1>4. ASSUME NEW m \in T, m \in 0..(n - 1)
      PROVE  m + 1 \in T
  <2>1. m + 1 \in 1..n /\ m + 1 \in 0..n /\ (m + 1) - 1 = m
    BY <1>1, <1>4
  <2>2. Good(at[m]) /\ at[m + 1] = Onward(at[m], path[m + 1])
    BY <1>2, <2>1
  <2>3. Good(Onward(at[m], path[m + 1]))
    BY <2>2, OnwardEnds
  <2> HIDE DEF Good
  <2>4. QED
    BY <2>1, <2>2, <2>3
<1> HIDE DEF T
<1>5. n \in T
  BY <1>1, <1>3, <1>4, NumbersUpTo
<1>6. QED
  BY <1>2, <1>5 DEF T

(* The path of a place leads there.                                        *)
LEMMA EndsLead ==
  ASSUME IsTree(fs), NEW l \in Ends
  PROVE  Resolve(l) = {l}
<1> DEFINE T == { m \in 0..Len(l) : \A k \in Ends : Len(k) = m => Resolve(k) = {k} }
<1>0. Len(l) \in Nat /\ l \in Locations
  BY LocationNames, LenProperties DEF Ends
<1>1. 0 \in T
  <2>1. \A k \in Ends : Len(k) = 0 => k = <<>>
    BY LocationNames DEF Ends
  <2>2. 0 \in 0..Len(l)
    BY <1>0
  <2>3. QED
    BY <2>1, <2>2, RootLeads
<1>2. ASSUME NEW m \in T, m \in 0..(Len(l) - 1)
      PROVE  m + 1 \in T
  <2>1. ASSUME NEW k \in Ends, Len(k) = m + 1
        PROVE  Resolve(k) = {k}
    <3>1. k \in Locations /\ Present(k) /\ k # <<>>
      <4>1. m + 1 # 0 /\ Len(<<>>) = 0
        BY <1>0, <1>2, EmptySeq
      <4>2. QED
        BY <2>1, <4>1, TreeNodes DEF Ends, Present
    <3>2. /\ Front(k) \in Ends /\ fs[Front(k)] = Dir
          /\ k = Append(Front(k), Last(k)) /\ Last(k) \notin {".", ".."}
      BY <3>1, TreeNodes, LocationNames DEF Ends
    <3>3. Len(Front(k)) = m
      BY <1>0, <1>2, <2>1, <3>1, LocationNames
    <3>4. Resolve(Front(k)) = {Front(k)}
      BY <3>2, <3>3
    <3>5. Resolve(k) = Onward({Front(k)}, Last(k))
      BY <3>1, <3>4, LocationNames, LastStep
    <3>6. fs[Front(k)].kind = "dir" /\ fs[k].kind # "link"
      BY <3>2, TreeNodes DEF Ends, Dir, File
    <3>7. Step(Front(k), Last(k)) = {k}
      BY <3>1, <3>2, <3>6 DEF Step, Through
    <3>8. QED
      BY <3>5, <3>7 DEF Onward
  <2>2. m + 1 \in 0..Len(l)
    BY <1>0, <1>2
  <2>3. QED
    BY <2>1, <2>2
<1> HIDE DEF T
<1>3. Len(l) \in T
  BY <1>0, <1>1, <1>2, NumbersUpTo
<1>4. QED
  BY <1>3 DEF T

(* What is below a place is the place or in a directory below it.          *)
LEMMA BelowEnds ==
  ASSUME IsTree(fs), NEW top \in Ends, NEW l \in Locations, Present(l), IsPrefix(top, l), l # top
  PROVE  /\ l # <<>> /\ Front(l) \in Locations /\ fs[Front(l)] = Dir
         /\ IsPrefix(top, Front(l))
         /\ Last(l) \in Entries(Front(l))
<1>1. top \in Seq(Names) /\ l \in Seq(Names)
  BY LocationNames DEF Ends
<1>2. l # <<>> /\ IsPrefix(top, Front(l))
  BY <1>1, PrefixStep
<1>3. QED
  BY <1>2, TreeNodes DEF Entries

-----------------------------------------------------------------------------
(* What the system calls tell of an entry and of a root *)

(* While the tree stays as it is, paths lead where they did.               *)
LEMMA SameTree ==
  ASSUME UNCHANGED fs, NEW path
  PROVE  Resolve(path)' = Resolve(path)
BY DEF Resolve, FoldLeft, MapThenFoldSet, Step, Through, Present

(* And lstat calls them what it did.                                       *)
LEMMA SameKinds ==
  ASSUME UNCHANGED fs, NEW path
  PROVE  LstatKind(path)' = LstatKind(path)
<1>1. Resolve(path)' = Resolve(path) /\ Resolve(Front(path))' = Resolve(Front(path))
  BY SameTree
<1>2. QED
  BY <1>1 DEF LstatKind, KindsAt, Unfollowed, Present

(* A path that leads somewhere is a link there, or lstat calls it what it  *)
(* leads to; and what lstat calls a directory or a file is one.            *)
LEMMA LstatIsStat ==
  ASSUME IsTree(fs), NEW path \in Seq(Words), Resolve(path) # {} \/ LstatKind(path) = {"dir"}
                                              \/ LstatKind(path) = {"file"}
  PROVE  LstatKind(path) = {"link"} \/ LstatKind(path) = StatKind(path)
<1>1. CASE path = <<>> \/ Last(path) \in {".", ".."}
  BY <1>1 DEF LstatKind, StatKind, Unfollowed
<1>2. CASE ~(path = <<>> \/ Last(path) \in {".", ".."})
  <2> DEFINE at == Resolve(Front(path))
             c == Last(path)
  <2>1. /\ at \subseteq Ends /\ \A a, b \in at : a = b
        /\ Resolve(path) = Onward(at, c)
    BY <1>2, FrontLast, ResolveEnds, LastStep
  <2>2. Unfollowed(path) = { l \in { Append(a, c) : a \in at } : Present(l) }
    BY <1>2 DEF Unfollowed
  <2>3. c \in Words /\ c \notin {".", ".."}
    BY <1>2, FrontLast
  <2> HIDE DEF at, c
  <2>4. PICK a \in at : Present(Append(a, c))
    <3>1. CASE Resolve(path) # {}
      <4>1. PICK a \in at : Step(a, c) # {}
        BY <2>1, <3>1 DEF Onward
      <4>2. Through(Append(a, c)) # {}
        BY <2>3, <4>1 DEF Step
      <4>3. QED
        BY <4>2 DEF Through
    <3>2. CASE LstatKind(path) = {"dir"} \/ LstatKind(path) = {"file"}
      BY <2>2, <3>2 DEF LstatKind, KindsAt
    <3>3. QED
      BY <3>1, <3>2
  <2> DEFINE l == Append(a, c)
  <2>5. at = {a} /\ l \in Locations
    BY <2>1, <2>4 DEF Present
  <2>6. Unfollowed(path) = {l}
    BY <2>2, <2>4, <2>5
  <2>7. Front(l) = a /\ l # <<>>
    <3>1. a \in Seq(Words)
      BY <2>1, LocationNames DEF Ends
    <3>2. QED
      BY <2>3, <3>1, FrontAppend
  <2>8. fs[a] = Dir
    BY <2>4, <2>5, <2>7, TreeNodes
  <2>9. Resolve(path) = Through(l)
    <3>1. Step(a, c) = Through(l)
      BY <2>3, <2>8 DEF Step, Dir
    <3>2. QED
      BY <2>1, <2>5, <3>1 DEF Onward
  <2> HIDE DEF l
  <2>10. fs[l].kind # "link" => Resolve(path) = {l}
    BY <2>4, <2>9 DEF Through, l
  <2>11. QED
    BY <2>6, <2>10 DEF LstatKind, StatKind, KindsAt
<1>3. QED
  BY <1>1, <1>2

(* An entry of a directory is the location of its name.                    *)
LEMMA EntryLeads ==
  ASSUME IsTree(fs), NEW q \in Seq(Words), NEW d, Resolve(q) = {d}, fs[d] = Dir,
         NEW name \in Entries(d)
  PROVE  /\ Append(q, name) \in Seq(Words) /\ name \in Names
         /\ Append(d, name) \in Locations /\ Present(Append(d, name))
         /\ Resolve(Append(q, name)) = Through(Append(d, name))
         /\ LstatKind(Append(q, name)) = {fs[Append(d, name)].kind}
         /\ fs[Append(d, name)].kind # "link" => Resolve(Append(q, name)) = {Append(d, name)}
         /\ IsHonest(q) => IsHonest(Append(q, name))
<1> DEFINE l == Append(d, name)
           path == Append(q, name)
<1>1. d \in Locations /\ d \in Seq(Words)
  BY ResolveEnds, LocationNames DEF Ends
<1>2. /\ name \in Names /\ name \in Words /\ name \notin {".", ".."}
      /\ l \in Locations /\ Present(l)
  <2>1. PICK k \in Locations \ {<<>>} : Present(k) /\ Front(k) = d /\ name = Last(k)
    BY DEF Entries
  <2>2. QED
    BY <2>1, LocationNames
<1>3. path \in Seq(Words) /\ path # <<>> /\ Front(path) = q /\ Last(path) = name
  BY <1>2, FrontAppend
<1> HIDE DEF l, path
<1>4. Step(d, name) = Through(l)
  BY <1>2 DEF Step, Dir, l
<1>5. Resolve(path) = Through(l)
  <2>1. Resolve(path) = Onward({d}, name)
    BY <1>3, LastStep
  <2>2. QED
    BY <1>4, <2>1 DEF Onward
<1>6. Unfollowed(path) = {l}
  BY <1>2, <1>3 DEF Unfollowed, l
<1>7. LstatKind(path) = {fs[l].kind}
  BY <1>6 DEF LstatKind, KindsAt
<1>8. fs[l].kind # "link" => Resolve(path) = {l}
  BY <1>2, <1>5 DEF Through
<1>9. ASSUME IsHonest(q)
      PROVE  IsHonest(path)
  <2> DEFINE m == Normalize(q)
             p == Append(m, name)
  <2>1. m \in Seq(Names) /\ Normalize(path) = p
    BY <1>2, NormalizeName DEF path
  <2>2. m \in Seq(Words)
    <3>1. Names \subseteq Words
      BY DEF Names, Words
    <3>2. Len(m) \in Nat /\ \A i \in 1..Len(m) : m[i] \in Words
      BY <2>1, <3>1, ElementOfSeq, LenProperties
    <3>3. m \in [1..Len(m) -> Words]
      BY <2>1, <3>2, LenProperties
    <3>4. QED
      BY <3>2, <3>3, IsASeq
  <2>3. Resolve(m) = {d}
    BY <1>9 DEF IsHonest
  <2>4. p \in Seq(Words) /\ p # <<>> /\ Front(p) = m /\ Last(p) = name
    BY <1>2, <2>2, FrontAppend
  <2> HIDE DEF m, p
  <2>5. Resolve(p) = Onward({d}, name)
    BY <2>3, <2>4, LastStep
  <2>6. QED
    BY <1>4, <1>5, <2>1, <2>5 DEF IsHonest, Onward
<1>10. QED
  BY <1>2, <1>3, <1>5, <1>7, <1>8, <1>9 DEF l, path

-----------------------------------------------------------------------------
(* Directories once *)

Frames == [dir : Seq(Words), left : SUBSET DOMAIN Spelling]

(* Shapes of what a run keeps, and that it keeps nothing between runs.     *)
Shape ==
  /\ opts.roots \in Seq(Seq(Words))
  /\ opts.follow \in BOOLEAN
  /\ roots \in Seq(Seq(Words))
  /\ Range(roots) \subseteq Range(opts.roots)
  /\ frames \in Seq(Frames)
  /\ listings \in Seq(Range(listings))
  /\ running \in BOOLEAN
  /\ ~running => roots = <<>> /\ frames = <<>> /\ listings = <<>>

(* No root is a link that walkdir would open and filter_dir_entry not      *)
(* enter in visited_dirs.                                                  *)
Straight == \A r \in Range(opts.roots) : opts.follow \/ LstatKind(r) # {"link"}

(* Then the directories listed are those entered, each once.               *)
ListedOnce ==
  Straight => Range(listings) \subseteq visited /\ IsInjective(listings)

WInv == Shape /\ ListedOnce

(* One entry, at whatever depth.                                           *)
LEMMA EntryKept ==
  ASSUME IsTree(fs), WInv, NEW path \in Seq(Words), NEW depth \in Nat,
         depth = 0 => path \in Range(opts.roots),
         NEW rest \in Seq(Frames), WalkEntry(path, depth, rest)
  PROVE  /\ frames' \in Seq(Frames)
         /\ listings' \in Seq(Range(listings'))
         /\ ListedOnce'
<1> DEFINE descends == NotVisitedDir(path) \/ IsRootLinkToDir(path, depth)
           loc == CHOOSE l \in Resolve(path) : TRUE
<1>1. /\ visited' = IF NotVisitedDir(path) THEN visited \cup {loc} ELSE visited
      /\ frames' = IF descends THEN Append(rest, [dir |-> path, left |-> Entries(loc)])
                   ELSE rest
      /\ listings' = IF descends THEN Append(listings, loc) ELSE listings
      /\ UNCHANGED <<fs, opts>>
  BY DEF WalkEntry
<1>2. Entries(loc) \subseteq DOMAIN Spelling
  <2>1. ASSUME NEW l \in Locations \ {<<>>}
        PROVE  Last(l) \in DOMAIN Spelling
    <3>1. l \in Seq(DOMAIN Spelling) /\ l # <<>>
      BY WalkAssumption
    <3>2. Len(l) \in 1..Len(l)
      BY <3>1, LenProperties, EmptySeq
    <3>3. QED
      BY <3>1, <3>2, ElementOfSeq DEF Last
  <2>2. QED
    BY <2>1 DEF Entries
<1>3. NotVisitedDir(path) => loc \in Resolve(path) /\ loc \notin visited
  <2>1. ASSUME NotVisitedDir(path)
        PROVE  Resolve(path) # {}
    <3>1. CASE opts.follow
      BY <2>1, <3>1 DEF NotVisitedDir, EntryKind, StatKind, KindsAt
    <3>2. CASE ~opts.follow
      BY <2>1, <3>2, LstatIsStat DEF NotVisitedDir, EntryKind, StatKind, KindsAt
    <3>3. QED
      BY <3>1, <3>2
  <2>2. QED
    BY <2>1 DEF NotVisitedDir
<1>4. Straight => ~IsRootLinkToDir(path, depth)
  BY DEF Straight, IsRootLinkToDir, EntryKind
<1>5. Straight' <=> Straight
  BY <1>1, SameKinds DEF Straight
<1> HIDE DEF loc
<1>6. frames' \in Seq(Frames)
  <2>1. [dir |-> path, left |-> Entries(loc)] \in Frames
    BY <1>2 DEF Frames
  <2>2. QED
    BY <1>1, <2>1, AppendProperties
<1>7. /\ listings \in Seq(Range(listings))
      /\ Straight => Range(listings) \subseteq visited /\ IsInjective(listings)
  BY DEF WInv, Shape, ListedOnce
<1>8. CASE descends
  <2> DEFINE S == Range(listings) \cup {loc}
  <2>1. listings \in Seq(S) /\ loc \in S
    <3>1. \A i \in 1..Len(listings) : listings[i] \in S
      BY <1>7, ElementOfSeq
    <3>2. listings \in [1..Len(listings) -> S] /\ Len(listings) \in Nat
      BY <1>7, <3>1, LenProperties
    <3>3. QED
      BY <3>2, IsASeq
  <2> HIDE DEF S
  <2>2. /\ listings' \in Seq(S)
        /\ Range(listings') = Range(listings) \cup {loc}
        /\ IsInjective(listings) /\ loc \notin Range(listings) => IsInjective(listings')
    BY <1>1, <1>8, <2>1, AppendQueue
  <2>3. listings' \in Seq(Range(listings'))
    BY <2>2 DEF S
  <2>4. ASSUME Straight
        PROVE  Range(listings') \subseteq visited' /\ IsInjective(listings')
    BY <1>1, <1>3, <1>4, <1>7, <1>8, <2>2, <2>4
  <2>5. QED
    BY <1>5, <1>6, <2>3, <2>4 DEF ListedOnce
<1>9. CASE ~descends
  BY <1>1, <1>5, <1>6, <1>7, <1>9 DEF ListedOnce
<1>10. QED
  BY <1>8, <1>9

(* Every step leaves a tree: what delete removes is no directory.          *)
LEMMA TreeStays == IsTree(fs) /\ [Next]_vars => IsTree(fs)'
<1> SUFFICES ASSUME IsTree(fs), [Next]_vars PROVE IsTree(fs)'
  OBVIOUS
<1>1. ASSUME UNCHANGED fs
      PROVE  IsTree(fs)'
  BY <1>1 DEF IsTree
<1>2. ASSUME NEW P, fs' = Removed(P)
      PROVE  IsTree(fs)'
  <2>1. /\ fs' \in [Locations -> Nodes]
        /\ \A l \in Locations : fs'[l] = fs[l] \/ (fs'[l] = Nothing /\ fs[l] # Dir)
    BY <1>2 DEF Removed, IsTree, Nodes
  <2>2. fs'[<<>>] = Dir
    BY <2>1, TreeNodes
  <2>3. \A l \in Locations \ {<<>>} : fs'[l] # Nothing => fs'[Front(l)] = Dir
    BY <2>1, WalkAssumption DEF IsTree
  <2>4. \A l \in Locations : fs'[l].kind = "link" => fs'[fs'[l].to].kind # "link"
    BY <2>1, TreeNodes DEF IsTree, Nothing
  <2>5. QED
    BY <2>1, <2>2, <2>3, <2>4 DEF IsTree
<1>3. ASSUME NEW policy, NEW under, DeleteRun(policy, under)
      PROVE  IsTree(fs)'
  <2>1. \E P : fs' = Removed(P)
    BY <1>3, Zenon DEF DeleteRun
  <2>2. QED
    BY <1>2, <2>1
<1>4. ASSUME NEW loc, UserChanges(loc)
      PROVE  IsTree(fs)'
  BY <1>4 DEF UserChanges, IsTree
<1>5. CASE \E o \in RunOptions : ScanStart(o)
  BY <1>1, <1>5 DEF ScanStart
<1>6. CASE WalkRoot \/ WalkNext
  BY <1>1, <1>6 DEF WalkRoot, WalkNext, WalkEntry
<1>7. CASE LeaveDir \/ ReadRoot \/ ScanFinish \/ UNCHANGED vars
  BY <1>1, <1>7 DEF LeaveDir, ReadRoot, ScanFinish, vars
<1>8. QED
  BY <1>3, <1>4, <1>5, <1>6, <1>7 DEF Next

(* Every step keeps the invariant.                                         *)
LEMMA NextWInv == IsTree(fs) /\ WInv /\ [Next]_vars => WInv'
<1> SUFFICES ASSUME IsTree(fs), WInv, [Next]_vars PROVE WInv'
  OBVIOUS
<1>1. ASSUME NEW o \in RunOptions, ScanStart(o)
      PROVE  WInv'
  <2>1. /\ opts' = o /\ roots' = o.roots /\ running' = TRUE
        /\ frames = <<>> /\ listings = <<>>
        /\ UNCHANGED <<frames, listings, visited>>
    BY <1>1 DEF ScanStart, WInv, Shape
  <2>2. o.roots \in Seq(Seq(Words)) /\ o.follow \in BOOLEAN
    BY WalkAssumption
  <2>3. IsInjective(listings) /\ Range(listings) = {} /\ listings \in Seq(Range(listings))
    BY <2>1, EmptyQueue
  <2>4. QED
    BY <2>1, <2>2, <2>3 DEF WInv, Shape, ListedOnce
<1>2. CASE WalkRoot
  <2>1. /\ roots # <<>> /\ roots \in Seq(Seq(Words)) /\ running
        /\ roots' = Tail(roots)
        /\ WalkEntry(Head(roots), 0, <<>>)
    BY <1>2 DEF WalkRoot, WInv, Shape
  <2>2. /\ Head(roots) \in Seq(Words) /\ Head(roots) \in Range(roots)
        /\ Tail(roots) \in Seq(Seq(Words)) /\ Range(Tail(roots)) \subseteq Range(roots)
    BY <2>1, TailQueue
  <2>3. Head(roots) \in Range(opts.roots) /\ <<>> \in Seq(Frames) /\ 0 \in Nat
    BY <2>2, EmptyQueue DEF WInv, Shape
  <2>4. /\ frames' \in Seq(Frames)
        /\ listings' \in Seq(Range(listings'))
        /\ ListedOnce'
    BY <2>1, <2>2, <2>3, EntryKept
  <2>5. UNCHANGED <<running, opts>>
    BY <2>1 DEF WalkEntry
  <2>6. QED
    BY <2>1, <2>2, <2>4, <2>5 DEF WInv, Shape
<1>3. CASE WalkNext
  <2>1. PICK name \in Last(frames).left :
          WalkEntry(Append(Last(frames).dir, name), Len(frames),
                    [frames EXCEPT ![Len(frames)].left = @ \ {name}])
    BY <1>3 DEF WalkNext
  <2>2. frames # <<>> /\ frames \in Seq(Frames) /\ UNCHANGED roots
    BY <1>3 DEF WalkNext, WInv, Shape
  <2>3. /\ Len(frames) \in Nat \ {0} /\ DOMAIN frames = 1..Len(frames)
        /\ Last(frames) = frames[Len(frames)]
    BY <2>2, LenProperties, EmptySeq DEF Last
  <2>4. Last(frames) \in Frames
    BY <2>2, <2>3, ElementOfSeq
  <2>5. Append(Last(frames).dir, name) \in Seq(Words)
    <3>1. Last(frames).dir \in Seq(Words) /\ name \in Words
      BY <2>1, <2>4 DEF Frames, Words
    <3>2. QED
      BY <3>1, AppendProperties
  <2> DEFINE rest == [frames EXCEPT ![Len(frames)].left = @ \ {name}]
  <2>6. rest \in Seq(Frames)
    <3>1. \A i \in 1..Len(frames) : frames[i] \in Frames
      BY <2>2, ElementOfSeq
    <3>2. \A i \in 1..Len(frames) : rest[i] \in Frames
      BY <2>3, <3>1 DEF Frames
    <3>3. rest \in [1..Len(frames) -> Frames]
      BY <2>3, <3>2
    <3> HIDE DEF rest
    <3>4. QED
      BY <2>3, <3>3, IsASeq
  <2> HIDE DEF rest
  <2>7. WalkEntry(Append(Last(frames).dir, name), Len(frames), rest)
    BY <2>1 DEF rest
  <2>8. running
    BY <2>2 DEF WInv, Shape
  <2>9. /\ frames' \in Seq(Frames)
        /\ listings' \in Seq(Range(listings'))
        /\ ListedOnce'
    BY <2>3, <2>5, <2>6, <2>7, EntryKept
  <2>10. UNCHANGED <<running, opts>>
    BY <2>7 DEF WalkEntry
  <2>11. QED
    BY <2>2, <2>8, <2>9, <2>10 DEF WInv, Shape
<1>4. CASE LeaveDir
  <2>1. /\ frames # <<>> /\ frames \in Seq(Frames) /\ frames' = Front(frames)
        /\ UNCHANGED <<fs, running, opts, roots, visited, listings>>
    BY <1>4 DEF LeaveDir, WInv, Shape
  <2>2. frames' \in Seq(Frames)
    <3>1. \A i \in 1..(Len(frames) - 1) : frames[i] \in Frames
      BY <2>1, LenProperties, ElementOfSeq
    <3>2. 1 \in Int /\ Len(frames) - 1 \in Int
      BY <2>1, LenProperties
    <3>3. QED
      BY <2>1, <3>1, <3>2, SubSeqProperties DEF Front
  <2>3. running
    BY <2>1 DEF WInv, Shape
  <2>4. ListedOnce'
    BY <2>1, SameKinds DEF WInv, ListedOnce, Straight
  <2>5. QED
    BY <2>1, <2>2, <2>3, <2>4 DEF WInv, Shape
<1>5. CASE ReadRoot
  <2>1. /\ roots # <<>> /\ roots \in Seq(Seq(Words)) /\ roots' = Tail(roots) /\ running
        /\ UNCHANGED <<fs, running, opts, frames, visited, listings>>
    BY <1>5 DEF ReadRoot, WInv, Shape
  <2>2. Tail(roots) \in Seq(Seq(Words)) /\ Range(Tail(roots)) \subseteq Range(roots)
    BY <2>1, TailQueue
  <2>3. ListedOnce'
    BY <2>1, SameKinds DEF WInv, ListedOnce, Straight
  <2>4. QED
    BY <2>1, <2>2, <2>3 DEF WInv, Shape
<1>6. CASE ScanFinish
  <2>1. /\ roots = <<>> /\ frames = <<>> /\ running' = FALSE /\ opts' = NoOptions
        /\ listings' = <<>> /\ UNCHANGED <<roots, frames>>
    BY <1>6 DEF ScanFinish, WalkDone
  <2>2. Range(<<>>) = {} /\ IsInjective(<<>>) /\ \A S : <<>> \in Seq(S)
    BY EmptyQueue
  <2>3. QED
    BY <2>1, <2>2 DEF WInv, Shape, ListedOnce, NoOptions
<1>7. ASSUME ~running, UNCHANGED walkVars
      PROVE  WInv'
  <2>1. Range(<<>>) = {} /\ IsInjective(<<>>)
    BY EmptyQueue
  <2>2. QED
    BY <1>7, <2>1 DEF WInv, Shape, ListedOnce, walkVars
<1>8. CASE UNCHANGED vars
  BY <1>8, SameKinds DEF vars, walkVars, WInv, Shape, ListedOnce, Straight
<1>9. ASSUME NEW policy, NEW under, DeleteRun(policy, under)
      PROVE  WInv'
  <2>1. ~running /\ UNCHANGED walkVars
    BY <1>9, Zenon DEF DeleteRun
  <2>2. QED
    BY <1>7, <2>1
<1>10. ASSUME NEW loc, UserChanges(loc)
       PROVE  WInv'
  BY <1>7, <1>10 DEF UserChanges
<1>11. QED
  BY <1>1, <1>2, <1>3, <1>4, <1>5, <1>6, <1>8, <1>9, <1>10 DEF Next


-----------------------------------------------------------------------------
(* One entry *)

(* While the tree stays as it is, so does all that the walk asks of it.    *)
LEMMA SameAnswers ==
  ASSUME UNCHANGED fs, NEW path
  PROVE  /\ Resolve(path)' = Resolve(path)
         /\ StatKind(path)' = StatKind(path)
         /\ Entries(path)' = Entries(path)
         /\ IsHonest(path)' <=> IsHonest(path)
         /\ IsReal(path)' <=> IsReal(path)
<1>1. /\ Resolve(path)' = Resolve(path)
      /\ Resolve(Normalize(path))' = Resolve(Normalize(path))
      /\ LstatKind(path)' = LstatKind(path)
  BY SameTree, SameKinds
<1>2. StatKind(path)' = StatKind(path)
  BY <1>1 DEF StatKind, KindsAt
<1>3. Entries(path)' = Entries(path)
  BY DEF Entries, Present
<1>4. QED
  BY <1>1, <1>2, <1>3 DEF IsHonest, IsReal

(* A path stat gives one kind leads to one place, of that kind.            *)
LEMMA OneEnd ==
  ASSUME IsTree(fs), NEW path \in Seq(Words), NEW kind, StatKind(path) = {kind}
  PROVE  \E d \in Locations : Resolve(path) = {d} /\ fs[d].kind = kind
<1>1. PICK d \in Resolve(path) : fs[d].kind = kind
  BY DEF StatKind, KindsAt
<1>2. Resolve(path) = {d} /\ d \in Locations
  BY <1>1, ResolveEnds DEF Ends
<1>3. QED
  BY <1>1, <1>2

(* An entry that walkdir calls a directory or a file leads to one.         *)
LEMMA EntryIs ==
  ASSUME IsTree(fs), NEW path \in Seq(Words), NEW kind \in {"dir", "file"},
         EntryKind(path) = {kind}
  PROVE  StatKind(path) = {kind}
<1>1. CASE opts.follow
  BY <1>1 DEF EntryKind
<1>2. CASE ~opts.follow
  BY <1>2, LstatIsStat DEF EntryKind
<1>3. QED
  BY <1>1, <1>2

(* The directories listed are such, and those of visited_dirs among them.  *)
Listings ==
  /\ Range(listings) \subseteq { l \in Locations : fs[l] = Dir }
  /\ visited \subseteq Range(listings)

(* What one entry does: it opens the one directory it leads to, or none;   *)
(* if it leads to a directory and is not passed over as a link, that one   *)
(* is listed in any case; and a file is recorded.                          *)
LEMMA EntryOpens ==
  ASSUME IsTree(fs), Shape, Listings, NEW path \in Seq(Words), NEW depth,
         NEW rest \in Seq(Frames), WalkEntry(path, depth, rest)
  PROVE  /\ UNCHANGED <<fs, running, opts>>
         /\ \/ Range(frames') = Range(rest) /\ Range(listings') = Range(listings)
            \/ \E d \in Locations :
                 /\ Resolve(path) = {d} /\ fs[d] = Dir
                 /\ EntryKind(path) = {"dir"} \/ IsRootLinkToDir(path, depth)
                 /\ Range(listings') = Range(listings) \cup {d}
                 /\ Range(frames') = Range(rest) \cup {[dir |-> path, left |-> Entries(d)]}
         /\ visited' \subseteq Range(listings')
         /\ EntryKind(path) = {"dir"} \/ IsRootLinkToDir(path, depth)
              => Resolve(path) \subseteq Range(listings')
         /\ seen' = seen \cup (IF EntryKind(path) = {"file"} THEN {Normalize(path)} ELSE {})
<1> DEFINE descends == NotVisitedDir(path) \/ IsRootLinkToDir(path, depth)
           loc == CHOOSE l \in Resolve(path) : TRUE
<1>1. /\ visited' = IF NotVisitedDir(path) THEN visited \cup {loc} ELSE visited
      /\ frames' = IF descends THEN Append(rest, [dir |-> path, left |-> Entries(loc)])
                   ELSE rest
      /\ listings' = IF descends THEN Append(listings, loc) ELSE listings
      /\ Enqueue(IF EntryKind(path) = {"file"} THEN {path} ELSE {})
      /\ UNCHANGED <<fs, running, opts>>
  BY DEF WalkEntry
<1>2. seen' = seen \cup (IF EntryKind(path) = {"file"} THEN {Normalize(path)} ELSE {})
  BY <1>1 DEF Enqueue
<1>3. visited \subseteq Range(listings)
  BY DEF Listings
<1>4. ASSUME EntryKind(path) = {"dir"} \/ IsRootLinkToDir(path, depth)
      PROVE  /\ Resolve(path) = {loc} /\ loc \in Locations /\ fs[loc] = Dir
             /\ \/ descends
                \/ loc \in visited /\ ~descends
  <2>1. StatKind(path) = {"dir"}
    BY <1>4, EntryIs DEF IsRootLinkToDir
  <2>2. PICK d \in Locations : Resolve(path) = {d} /\ fs[d].kind = "dir"
    BY <2>1, OneEnd
  <2>3. loc = d /\ fs[d] = Dir
    BY <2>2, TreeNodes
  <2> HIDE DEF loc
  <2>4. QED
    BY <1>4, <2>2, <2>3 DEF NotVisitedDir
<1> HIDE DEF loc
<1>5. CASE descends
  <2>1. EntryKind(path) = {"dir"} \/ IsRootLinkToDir(path, depth)
    BY <1>5 DEF NotVisitedDir
  <2>2. Resolve(path) = {loc} /\ loc \in Locations /\ fs[loc] = Dir
    BY <1>4, <2>1
  <2>3. Range(listings') = Range(listings) \cup {loc}
    <3> DEFINE S == Range(listings) \cup {loc}
    <3>1. listings \in Seq(Range(listings)) /\ Range(listings) \subseteq S /\ loc \in S
      BY DEF Shape
    <3>2. \A i \in 1..Len(listings) : listings[i] \in S
      BY <3>1, ElementOfSeq
    <3>3. listings \in [1..Len(listings) -> S] /\ Len(listings) \in Nat
      BY <3>1, <3>2, LenProperties
    <3> HIDE DEF S
    <3>4. listings \in Seq(S)
      BY <3>3, IsASeq
    <3>5. QED
      BY <1>1, <1>5, <3>1, <3>4, AppendQueue
  <2>4. Range(frames') = Range(rest) \cup {[dir |-> path, left |-> Entries(loc)]}
    <3>1. [dir |-> path, left |-> Entries(loc)] \in Frames
      <4>1. \A l \in Locations \ {<<>>} : Last(l) \in DOMAIN Spelling
        BY LocationNames DEF Names
      <4>2. QED
        BY <4>1 DEF Frames, Entries
    <3>2. QED
      BY <1>1, <1>5, <3>1, AppendQueue
  <2>5. QED
    BY <1>1, <1>2, <1>3, <2>1, <2>2, <2>3, <2>4
<1>6. CASE ~descends
  <2>1. listings' = listings /\ frames' = rest /\ visited' = visited
    BY <1>1, <1>6
  <2>2. EntryKind(path) = {"dir"} \/ IsRootLinkToDir(path, depth)
          => Resolve(path) \subseteq Range(listings')
    BY <1>3, <1>4, <1>6, <2>1
  <2>3. QED
    BY <1>1, <1>2, <1>3, <2>1, <2>2
<1>7. QED
  BY <1>5, <1>6

-----------------------------------------------------------------------------
(* Nothing is missed *)

(* What is at a location is dealt with: a file seen, a directory listed.   *)
Reached(l) ==
  /\ fs[l].kind = "file" => \E p \in seen : Resolve(p) = {l}
  /\ fs[l].kind = "dir" => l \in Range(listings)

Honest == \A r \in Range(opts.roots) : IsHonest(r)

(* An open directory is a listed one, with entries of it left.             *)
Opened ==
  \A fr \in Range(frames) :
    \E d \in Range(listings) : Resolve(fr.dir) = {d} /\ fr.left \subseteq Entries(d)

FramesHonest == Honest => \A fr \in Range(frames) : IsHonest(fr.dir)

(* Every entry of a listed directory is left or dealt with.                *)
Covered ==
  Honest /\ opts.recursive =>
    \A d \in Range(listings) : \A name \in Entries(d) :
      \/ \E fr \in Range(frames) : Resolve(fr.dir) = {d} /\ name \in fr.left
      \/ Reached(Append(d, name))

(* Every root that is a directory is left or listed.                       *)
RootsListed ==
  opts.recursive =>
    \A r \in Range(opts.roots) :
      r \in Range(roots) \/ (StatKind(r) = {"dir"} => Resolve(r) \subseteq Range(listings))

(* A plain run walks by the paths that locations have, below its roots,    *)
(* and sees files there; a root that is a file is left or seen.            *)
Tops == UNION { Resolve(r) : r \in Range(opts.roots) }

BelowTops(l) == \E top \in Tops : IsPrefix(top, l)

PlainFrames ==
  Plain(opts) => \A fr \in Range(frames) :
                   Resolve(fr.dir) = {Normalize(fr.dir)} /\ BelowTops(Normalize(fr.dir))

PlainSeen == Plain(opts) => seen \subseteq FilesBelow(Tops)

PlainRoots ==
  Plain(opts) =>
    \A r \in Range(opts.roots) :
      r \in Range(roots) \/ (StatKind(r) = {"file"} => Normalize(r) \in seen)

(* Between runs there is nothing to deal with.                             *)
Rest ==
  frames = <<>> /\ listings = <<>> /\ visited = {} /\ seen = {} /\ opts = NoOptions

Thorough == Listings /\ Opened /\ FramesHonest /\ Covered /\ RootsListed
PlainRun == PlainFrames /\ PlainSeen /\ PlainRoots

(* Between runs there is nothing that could be missing.                    *)
LEMMA RestIsFine == Rest => Thorough /\ PlainRun
<1>1. Range(<<>>) = {} /\ NoOptions.roots = <<>>
  BY EmptyQueue DEF NoOptions
<1>2. QED
  BY <1>1 DEF Rest, Thorough, Listings, Opened, FramesHonest, Covered, RootsListed,
              PlainRun, PlainFrames, PlainSeen, PlainRoots

(* While the options stay, too, plain runs are plain and tops are tops.    *)
LEMMA SameRun ==
  ASSUME UNCHANGED <<fs, opts>>
  PROVE  /\ Plain(opts)' <=> Plain(opts)
         /\ Honest' <=> Honest
         /\ Tops' = Tops
         /\ \A l : BelowTops(l)' <=> BelowTops(l)
         /\ FilesBelow(Tops)' = FilesBelow(Tops)
<1>1. Tops' = Tops
  BY SameAnswers DEF Tops
<1>2. Plain(opts)' <=> Plain(opts)
  BY SameAnswers DEF Plain
<1>3. Honest' <=> Honest
  BY SameAnswers DEF Honest
<1>4. QED
  BY <1>1, <1>2, <1>3 DEF BelowTops, FilesBelow

(* The frames of a walk while one entry, at a path, is taken from them:    *)
(* the others stay.                                                        *)
Spared(rest, path) ==
  /\ \A g \in Range(rest) : \E fr \in Range(frames) : g.dir = fr.dir /\ g.left \subseteq fr.left
  /\ \A fr \in Range(frames) : \A name \in fr.left :
       \/ \E g \in Range(rest) : g.dir = fr.dir /\ name \in g.left
       \/ path = Append(fr.dir, name)

(* What was reached stays so.                                              *)
LEMMA ReachedStays ==
  ASSUME UNCHANGED fs, seen \subseteq seen', Range(listings) \subseteq Range(listings'),
         NEW l, Reached(l)
  PROVE  Reached(l)'
<1>1. \A p : Resolve(p)' = Resolve(p)
  BY SameTree
<1>2. QED
  BY <1>1 DEF Reached

(* An entry of a directory is reached when it is walked.                   *)
LEMMA EntryReached ==
  ASSUME IsTree(fs), Shape, Listings, NEW q \in Seq(Words), NEW d, Resolve(q) = {d}, fs[d] = Dir,
         NEW name \in Entries(d), IsHonest(q), NEW depth, NEW rest \in Seq(Frames),
         WalkEntry(Append(q, name), depth, rest)
  PROVE  Reached(Append(d, name))'
<1> DEFINE l == Append(d, name)
           path == Append(q, name)
<1>1. /\ path \in Seq(Words)
      /\ LstatKind(path) = {fs[l].kind}
      /\ fs[l].kind # "link" => Resolve(path) = {l}
      /\ IsHonest(path)
  BY EntryLeads
<1> HIDE DEF l, path
<1>2. /\ UNCHANGED fs
      /\ EntryKind(path) = {"dir"} => Resolve(path) \subseteq Range(listings')
      /\ seen' = seen \cup (IF EntryKind(path) = {"file"} THEN {Normalize(path)} ELSE {})
  <2>1. WalkEntry(path, depth, rest)
    BY DEF path
  <2>2. QED
    BY <1>1, <2>1, EntryOpens
<1>3. fs[l].kind # "link" => EntryKind(path) = {fs[l].kind}
  BY <1>1 DEF EntryKind, StatKind, KindsAt
<1>4. \A p : Resolve(p)' = Resolve(p)
  BY <1>2, SameTree
<1>5. ASSUME fs[l].kind = "file"
      PROVE  Normalize(path) \in seen' /\ Resolve(Normalize(path)) = {l}
  BY <1>1, <1>2, <1>3, <1>5 DEF IsHonest
<1>6. fs[l].kind = "dir" => l \in Range(listings')
  BY <1>1, <1>2, <1>3
<1>7. QED
  BY <1>2, <1>4, <1>5, <1>6 DEF Reached, l

(* One entry, at whatever depth: no directory and no name gets lost.       *)
LEMMA EntryThorough ==
  ASSUME IsTree(fs), Shape, Listings, Opened, FramesHonest, Covered,
         NEW path \in Seq(Words), NEW depth, NEW rest \in Seq(Frames), Spared(rest, path),
         Honest => IsHonest(path), WalkEntry(path, depth, rest)
  PROVE  Listings' /\ Opened' /\ FramesHonest' /\ Covered'
<1>1. /\ UNCHANGED <<fs, running, opts>>
      /\ \/ Range(frames') = Range(rest) /\ Range(listings') = Range(listings)
         \/ \E d \in Locations :
              /\ Resolve(path) = {d} /\ fs[d] = Dir
              /\ Range(listings') = Range(listings) \cup {d}
              /\ Range(frames') = Range(rest) \cup {[dir |-> path, left |-> Entries(d)]}
      /\ visited' \subseteq Range(listings')
      /\ seen \subseteq seen'
  BY EntryOpens
<1>2. Range(listings) \subseteq Range(listings') /\ Range(rest) \subseteq Range(frames')
  BY <1>1
<1>3. /\ \A q : Resolve(q)' = Resolve(q) /\ Entries(q)' = Entries(q)
      /\ \A q : IsHonest(q)' <=> IsHonest(q)
      /\ Honest' <=> Honest
  BY <1>1, SameAnswers, SameRun
<1>4. \A g \in Range(rest) : \E fr \in Range(frames) : g.dir = fr.dir /\ g.left \subseteq fr.left
  BY DEF Spared
<1>5. Listings'
  BY <1>1 DEF Listings
<1>6. Opened'
  <2>1. ASSUME NEW g \in Range(frames')
        PROVE  \E d \in Range(listings') : Resolve(g.dir) = {d} /\ g.left \subseteq Entries(d)
    <3>1. CASE g \in Range(rest)
      <4>1. PICK fr \in Range(frames) : g.dir = fr.dir /\ g.left \subseteq fr.left
        BY <1>4, <3>1
      <4>2. PICK d \in Range(listings) : Resolve(fr.dir) = {d} /\ fr.left \subseteq Entries(d)
        BY DEF Opened
      <4>3. QED
        BY <1>2, <4>1, <4>2
    <3>2. CASE g \notin Range(rest)
      <4>1. PICK d \in Locations :
              /\ Resolve(path) = {d}
              /\ Range(listings') = Range(listings) \cup {d}
              /\ g = [dir |-> path, left |-> Entries(d)]
        BY <1>1, <3>2
      <4>2. QED
        BY <4>1
    <3>3. QED
      BY <3>1, <3>2
  <2>2. QED
    BY <1>3, <2>1 DEF Opened
<1>7. FramesHonest'
  <2>1. ASSUME Honest, NEW g \in Range(frames')
        PROVE  IsHonest(g.dir)
    <3>1. CASE g \in Range(rest)
      <4>1. \E fr \in Range(frames) : g.dir = fr.dir
        BY <1>4, <3>1
      <4>2. QED
        BY <2>1, <4>1 DEF FramesHonest
    <3>2. CASE g \notin Range(rest)
      <4>1. g.dir = path
        BY <1>1, <3>2
      <4>2. QED
        BY <2>1, <4>1
    <3>3. QED
      BY <3>1, <3>2
  <2>2. QED
    BY <1>3, <2>1 DEF FramesHonest
<1>8. Covered'
  <2>1. ASSUME Honest, opts.recursive, NEW d \in Range(listings'), NEW name \in Entries(d)
        PROVE  \/ \E g \in Range(frames') : Resolve(g.dir) = {d} /\ name \in g.left
               \/ Reached(Append(d, name))'
    <3>1. CASE d \in Range(listings)
      <4>1. CASE Reached(Append(d, name))
        BY <1>1, <1>2, <4>1, ReachedStays
      <4>2. CASE ~Reached(Append(d, name))
        <5>1. PICK fr \in Range(frames) : Resolve(fr.dir) = {d} /\ name \in fr.left
          BY <2>1, <3>1, <4>2 DEF Covered
        <5>2. CASE \E g \in Range(rest) : g.dir = fr.dir /\ name \in g.left
          BY <1>2, <5>1, <5>2
        <5>3. CASE path = Append(fr.dir, name)
          <6>1. fr.dir \in Seq(Words) /\ IsHonest(fr.dir) /\ fs[d] = Dir
            <7>1. fr \in Frames
              BY ElementOfSeq DEF Shape, Range
            <7>2. QED
              BY <2>1, <3>1, <7>1 DEF Frames, FramesHonest, Listings
          <6>2. WalkEntry(Append(fr.dir, name), depth, rest)
            BY <5>3
          <6>3. QED
            BY <5>1, <6>1, <6>2, EntryReached
        <5>4. QED
          BY <5>1, <5>2, <5>3 DEF Spared
      <4>3. QED
        BY <4>1, <4>2
    <3>2. CASE d \notin Range(listings)
      <4>1. Resolve(path) = {d} /\ [dir |-> path, left |-> Entries(d)] \in Range(frames')
        BY <1>1, <3>2
      <4>2. QED
        BY <4>1
    <3>3. QED
      BY <3>1, <3>2
  <2>2. QED
    BY <1>1, <1>3, <2>1 DEF Covered
<1>9. QED
  BY <1>5, <1>6, <1>7, <1>8

(* And in a plain run, what is opened or seen lies below a root and has    *)
(* its own path.                                                           *)
LEMMA EntryPlain ==
  ASSUME IsTree(fs), Shape, Listings, PlainFrames, PlainSeen,
         NEW path \in Seq(Words), NEW depth, NEW rest \in Seq(Frames), Spared(rest, path),
         Plain(opts) /\ (EntryKind(path) \in {{"dir"}, {"file"}} \/ IsRootLinkToDir(path, depth))
           => Resolve(path) = {Normalize(path)} /\ BelowTops(Normalize(path)),
         WalkEntry(path, depth, rest)
  PROVE  PlainFrames' /\ PlainSeen'
<1>1. /\ UNCHANGED <<fs, running, opts>>
      /\ \/ Range(frames') = Range(rest) /\ Range(listings') = Range(listings)
         \/ \E d \in Locations :
              /\ Resolve(path) = {d} /\ fs[d] = Dir
              /\ EntryKind(path) = {"dir"} \/ IsRootLinkToDir(path, depth)
              /\ Range(listings') = Range(listings) \cup {d}
              /\ Range(frames') = Range(rest) \cup {[dir |-> path, left |-> Entries(d)]}
      /\ seen' = seen \cup (IF EntryKind(path) = {"file"} THEN {Normalize(path)} ELSE {})
  BY EntryOpens
<1>2. /\ \A q : Resolve(q)' = Resolve(q)
      /\ Plain(opts)' <=> Plain(opts)
      /\ \A l : BelowTops(l)' <=> BelowTops(l)
      /\ FilesBelow(Tops)' = FilesBelow(Tops)
  BY <1>1, SameAnswers, SameRun
<1>3. PlainFrames'
  <2>1. ASSUME Plain(opts), NEW g \in Range(frames')
        PROVE  Resolve(g.dir) = {Normalize(g.dir)} /\ BelowTops(Normalize(g.dir))
    <3>1. CASE g \in Range(rest)
      <4>1. \E fr \in Range(frames) : g.dir = fr.dir
        BY <3>1 DEF Spared
      <4>2. QED
        BY <2>1, <4>1 DEF PlainFrames
    <3>2. CASE g \notin Range(rest)
      <4>1. g.dir = path /\ (EntryKind(path) = {"dir"} \/ IsRootLinkToDir(path, depth))
        BY <1>1, <3>2
      <4>2. QED
        BY <2>1, <4>1
    <3>3. QED
      BY <3>1, <3>2
  <2>2. QED
    BY <1>2, <2>1 DEF PlainFrames
<1>4. PlainSeen'
  <2>1. ASSUME Plain(opts), EntryKind(path) = {"file"}
        PROVE  Normalize(path) \in FilesBelow(Tops)
    <3>1. Resolve(path) = {Normalize(path)} /\ BelowTops(Normalize(path))
      BY <2>1
    <3>2. PICK l \in Locations : Resolve(path) = {l} /\ fs[l].kind = "file"
      BY <2>1, EntryIs, OneEnd
    <3>3. QED
      BY <3>1, <3>2 DEF FilesBelow, BelowTops
  <2>2. Plain(opts) => seen' \subseteq FilesBelow(Tops)
    BY <1>1, <2>1 DEF PlainSeen
  <2>3. QED
    BY <1>2, <2>2 DEF PlainSeen
<1>5. QED
  BY <1>3, <1>4

(* Walking a root.                                                         *)
LEMMA RootWalked ==
  ASSUME IsTree(fs), Shape, Thorough, PlainRun, WalkRoot
  PROVE  Thorough' /\ PlainRun'
<1> DEFINE path == Head(roots)
<1>1. /\ running /\ opts.recursive /\ frames = <<>> /\ roots # <<>>
      /\ roots \in Seq(Seq(Words)) /\ roots' = Tail(roots)
      /\ WalkEntry(path, 0, <<>>)
  BY DEF WalkRoot, Shape
<1>2. /\ path \in Seq(Words) /\ path \in Range(opts.roots)
      /\ Range(roots) = Range(roots') \cup {path}
  BY <1>1, TailQueue DEF Shape
<1>3. <<>> \in Seq(Frames) /\ Spared(<<>>, path)
  BY <1>1, EmptyQueue DEF Spared
<1> HIDE DEF path
<1>4. Honest => IsHonest(path)
  BY <1>2 DEF Honest
<1>5. Listings' /\ Opened' /\ FramesHonest' /\ Covered'
  BY <1>1, <1>2, <1>3, <1>4, EntryThorough DEF Thorough
<1>6. /\ UNCHANGED <<fs, opts>>
      /\ EntryKind(path) = {"dir"} \/ IsRootLinkToDir(path, 0)
           => Resolve(path) \subseteq Range(listings')
      /\ Range(listings) \subseteq Range(listings')
      /\ seen' = seen \cup (IF EntryKind(path) = {"file"} THEN {Normalize(path)} ELSE {})
  BY <1>1, <1>2, <1>3, EntryOpens DEF Thorough
<1>7. /\ \A q : Resolve(q)' = Resolve(q) /\ StatKind(q)' = StatKind(q)
      /\ Plain(opts)' <=> Plain(opts)
  BY <1>6, SameAnswers, SameRun
<1>8. RootsListed'
  <2>1. ASSUME StatKind(path) = {"dir"}
        PROVE  EntryKind(path) = {"dir"} \/ IsRootLinkToDir(path, 0)
    <3>1. Resolve(path) # {}
      BY <1>2, <2>1, OneEnd
    <3>2. LstatKind(path) = {"link"} \/ LstatKind(path) = {"dir"}
      BY <1>2, <2>1, <3>1, LstatIsStat
    <3>3. QED
      BY <2>1, <3>2 DEF EntryKind, IsRootLinkToDir
  <2>2. QED
    BY <1>2, <1>6, <1>7, <2>1 DEF Thorough, RootsListed
<1>9. ASSUME Plain(opts)
      PROVE  /\ Resolve(path) = {Normalize(path)} /\ BelowTops(Normalize(path))
             /\ StatKind(path) = {"file"} => EntryKind(path) = {"file"}
  <2>1. Resolve(path) = {Normalize(path)} /\ LstatKind(path) # {"link"} /\ ~opts.follow
    BY <1>2, <1>9 DEF Plain, IsReal
  <2>2. Normalize(path) \in Tops /\ Normalize(path) \in Seq(Names)
    BY <1>2, <2>1, NormalSteps DEF Tops
  <2>3. BelowTops(Normalize(path))
    BY <2>2, PrefixStep DEF BelowTops
  <2>4. LstatKind(path) = StatKind(path)
    BY <1>2, <2>1, LstatIsStat
  <2>5. QED
    BY <2>1, <2>3, <2>4 DEF EntryKind
<1>10. PlainFrames' /\ PlainSeen'
  BY <1>1, <1>2, <1>3, <1>9, EntryPlain DEF Thorough, PlainRun
<1>11. PlainRoots'
  BY <1>2, <1>6, <1>7, <1>9 DEF PlainRun, PlainRoots
<1>12. QED
  BY <1>5, <1>8, <1>10, <1>11 DEF Thorough, PlainRun

(* Walking an entry of the innermost open directory.                       *)
LEMMA EntryWalked ==
  ASSUME IsTree(fs), Shape, Thorough, PlainRun, WalkNext
  PROVE  Thorough' /\ PlainRun'
<1>1. PICK name \in Last(frames).left :
        WalkEntry(Append(Last(frames).dir, name), Len(frames),
                  [frames EXCEPT ![Len(frames)].left = @ \ {name}])
  BY DEF WalkNext
<1> DEFINE n == Len(frames)
           last == Last(frames)
           path == Append(last.dir, name)
           rest == [frames EXCEPT ![n].left = @ \ {name}]
<1>2. frames # <<>> /\ frames \in Seq(Frames) /\ UNCHANGED roots
  BY DEF WalkNext, Shape
<1>3. n \in Nat \ {0} /\ DOMAIN frames = 1..n /\ last = frames[n]
  BY <1>2, LenProperties, EmptySeq DEF Last
<1> HIDE DEF n
<1>4. \A i \in 1..n : frames[i] \in Frames
  BY <1>2, ElementOfSeq DEF n
<1>5. last \in Frames /\ last \in Range(frames)
  BY <1>3, <1>4 DEF Range
<1>6. /\ DOMAIN rest = 1..n
      /\ \A i \in 1..(n - 1) : rest[i] = frames[i]
      /\ rest[n].dir = last.dir /\ rest[n].left = last.left \ {name}
      /\ rest[n] \in Frames
  BY <1>3, <1>4 DEF Frames
<1>7. rest \in Seq(Frames)
  <2>1. \A i \in 1..n : rest[i] \in Frames
    BY <1>3, <1>4, <1>6
  <2>2. rest \in [1..n -> Frames]
    BY <1>3, <2>1
  <2> HIDE DEF rest
  <2>3. QED
    BY <1>3, <2>2, IsASeq
<1> HIDE DEF rest
<1>8. Spared(rest, path)
  <2>1. ASSUME NEW g \in Range(rest)
        PROVE  \E fr \in Range(frames) : g.dir = fr.dir /\ g.left \subseteq fr.left
    <3>1. PICK i \in 1..n : g = rest[i]
      BY <1>6 DEF Range
    <3>2. CASE i = n
      BY <1>5, <1>6, <3>1, <3>2
    <3>3. CASE i # n
      <4>1. i \in 1..(n - 1) /\ g = frames[i]
        BY <1>3, <1>6, <3>1, <3>3
      <4>2. QED
        BY <1>3, <4>1 DEF Range
    <3>4. QED
      BY <3>2, <3>3
  <2>2. ASSUME NEW fr \in Range(frames), NEW m \in fr.left,
               ~\E g \in Range(rest) : g.dir = fr.dir /\ m \in g.left
        PROVE  path = Append(fr.dir, m)
    <3>1. PICK i \in 1..n : fr = frames[i]
      BY <1>3 DEF Range
    <3>2. rest[i] \in Range(rest)
      BY <1>6 DEF Range
    <3>3. i = n
      <4>1. ASSUME i # n
            PROVE  FALSE
        <5>1. i \in 1..(n - 1)
          BY <1>3, <4>1
        <5>2. QED
          BY <1>6, <2>2, <3>1, <3>2, <5>1
      <4>2. QED
        BY <4>1
    <3>4. fr = last /\ m = name
      BY <1>3, <1>6, <2>2, <3>1, <3>2, <3>3
    <3>5. QED
      BY <3>4
  <2>3. QED
    BY <2>1, <2>2 DEF Spared
<1>9. WalkEntry(path, n, rest)
  BY <1>1 DEF rest, n
<1>10. PICK d \in Range(listings) : Resolve(last.dir) = {d} /\ last.left \subseteq Entries(d)
  BY <1>5 DEF Thorough, Opened
<1> DEFINE l == Append(d, name)
<1>11. /\ path \in Seq(Words) /\ name \in Names
       /\ l \in Locations
       /\ LstatKind(path) = {fs[l].kind}
       /\ fs[l].kind # "link" => Resolve(path) = {l}
       /\ IsHonest(last.dir) => IsHonest(path)
  <2>1. last.dir \in Seq(Words) /\ fs[d] = Dir
    BY <1>5 DEF Frames, Thorough, Listings
  <2>2. QED
    BY <1>1, <1>10, <2>1, EntryLeads
<1>12. Honest => IsHonest(path)
  BY <1>5, <1>11 DEF Thorough, FramesHonest
<1>13. ASSUME Plain(opts)
       PROVE  EntryKind(path) \in {{"dir"}, {"file"}} \/ IsRootLinkToDir(path, n)
                => Resolve(path) = {Normalize(path)} /\ BelowTops(Normalize(path))
  <2>1. ~IsRootLinkToDir(path, n)
    BY <1>3 DEF IsRootLinkToDir
  <2>2. EntryKind(path) = {fs[l].kind}
    BY <1>11, <1>13 DEF Plain, EntryKind
  <2>3. Resolve(last.dir) = {Normalize(last.dir)} /\ BelowTops(Normalize(last.dir))
    BY <1>5, <1>13 DEF PlainRun, PlainFrames
  <2>4. d = Normalize(last.dir) /\ d \in Seq(Names)
    <3>1. last.dir \in Seq(Words)
      BY <1>5 DEF Frames
    <3>2. QED
      BY <1>10, <2>3, <3>1, NormalSteps
  <2>5. Normalize(path) = l
    <3>1. last.dir \in Seq(Words)
      BY <1>5 DEF Frames
    <3>2. QED
      BY <1>11, <2>4, <3>1, NormalizeName
  <2>6. BelowTops(l)
    <3>1. PICK top \in Tops : IsPrefix(top, d)
      BY <2>3, <2>4 DEF BelowTops
    <3>2. top \in Seq(Names)
      <4>1. PICK r \in Range(opts.roots) : top \in Resolve(r)
        BY DEF Tops
      <4>2. r \in Seq(Words)
        BY ElementOfSeq DEF Shape, Range
      <4>3. QED
        BY <4>1, <4>2, ResolveEnds, LocationNames DEF Ends
    <3>3. l \in Seq(Names) /\ l # <<>> /\ Front(l) = d
      BY <1>11, <2>4, FrontAppend
    <3>4. IsPrefix(top, l)
      BY <3>1, <3>2, <3>3, PrefixStep
    <3>5. QED
      BY <3>4 DEF BelowTops
  <2> HIDE DEF l, path
  <2>7. QED
    BY <1>11, <2>1, <2>2, <2>5, <2>6
<1> HIDE DEF last, path, l
<1>14. Listings' /\ Opened' /\ FramesHonest' /\ Covered'
  BY <1>7, <1>8, <1>9, <1>11, <1>12, EntryThorough DEF Thorough
<1>15. PlainFrames' /\ PlainSeen'
  BY <1>7, <1>8, <1>9, <1>11, <1>13, EntryPlain DEF Thorough, PlainRun
<1>16. /\ UNCHANGED <<fs, opts, roots>> /\ seen \subseteq seen'
       /\ Range(listings) \subseteq Range(listings')
  BY <1>2, <1>7, <1>9, <1>11, EntryOpens DEF Thorough
<1>17. /\ \A q : Resolve(q)' = Resolve(q) /\ StatKind(q)' = StatKind(q)
       /\ Plain(opts)' <=> Plain(opts)
  BY <1>16, SameAnswers, SameRun
<1>18. RootsListed'
  BY <1>16, <1>17 DEF Thorough, RootsListed
<1>19. PlainRoots'
  BY <1>16, <1>17 DEF PlainRun, PlainRoots
<1>20. QED
  BY <1>14, <1>15, <1>18, <1>19 DEF Thorough, PlainRun

-----------------------------------------------------------------------------
(* The invariant: a tree, and on it all of the above.                      *)
TInv ==
  /\ IsTree(fs)
  /\ WInv
  /\ ~running => Rest
  /\ Thorough
  /\ PlainRun

(* Every step keeps it.                                                    *)
LEMMA NextTInv == TInv /\ [Next]_vars => TInv'
<1> SUFFICES ASSUME TInv, [Next]_vars PROVE TInv'
  OBVIOUS
<1>1. IsTree(fs) /\ WInv /\ Shape /\ Thorough /\ PlainRun /\ (~running => Rest)
  BY DEF TInv, WInv
<1>2. IsTree(fs)' /\ WInv'
  BY <1>1, TreeStays, NextWInv
<1>3. ASSUME Rest'
      PROVE  TInv'
  <2>1. (Thorough /\ PlainRun)'
    BY <1>3, RestIsFine, PTL
  <2>2. QED
    BY <1>2, <1>3, <2>1 DEF TInv
<1>4. ASSUME running, running', Thorough', PlainRun'
      PROVE  TInv'
  BY <1>2, <1>4 DEF TInv
<1>5. ASSUME NEW o \in RunOptions, ScanStart(o)
      PROVE  TInv'
  <2>1. /\ frames' = <<>> /\ listings' = <<>> /\ visited' = {} /\ seen' = {}
        /\ roots' = opts'.roots /\ running'
    BY <1>1, <1>5 DEF ScanStart, Rest
  <2>2. Range(<<>>) = {}
    BY EmptyQueue
  <2>3. Thorough'
    BY <2>1, <2>2 DEF Thorough, Listings, Opened, FramesHonest, Covered, RootsListed
  <2>4. PlainRun'
    BY <2>1, <2>2 DEF PlainRun, PlainFrames, PlainSeen, PlainRoots
  <2>5. QED
    BY <1>2, <2>1, <2>3, <2>4 DEF TInv
<1>6. CASE WalkRoot
  <2>1. running /\ running' = running
    BY <1>6 DEF WalkRoot, WalkEntry
  <2>2. QED
    BY <1>1, <1>4, <1>6, <2>1, RootWalked
<1>7. CASE WalkNext
  <2>1. running /\ running' = running
    BY <1>1, <1>7 DEF WalkNext, WalkEntry, Shape
  <2>2. QED
    BY <1>1, <1>4, <1>7, <2>1, EntryWalked
<1>8. CASE LeaveDir
  <2>1. /\ frames # <<>> /\ frames \in Seq(Frames) /\ frames' = Front(frames) /\ running
        /\ Last(frames).left = {}
        /\ UNCHANGED <<fs, running, opts, roots, visited, listings, seen>>
    BY <1>1, <1>8 DEF LeaveDir, Shape
  <2>2. Range(frames) = Range(frames') \cup {Last(frames)}
    <3>1. /\ Front(frames) \in Seq(Frames) /\ Last(frames) \in Frames
          /\ frames = Append(Front(frames), Last(frames))
      BY <2>1, FrontLast
    <3>2. Range(Append(Front(frames), Last(frames))) = Range(Front(frames)) \cup {Last(frames)}
      BY <3>1, AppendQueue
    <3>3. QED
      BY <2>1, <3>1, <3>2
  <2>3. /\ \A q : Resolve(q)' = Resolve(q) /\ Entries(q)' = Entries(q)
        /\ \A q : (IsHonest(q)' <=> IsHonest(q)) /\ StatKind(q)' = StatKind(q)
    BY <2>1, SameAnswers
  <2>4. /\ Plain(opts)' <=> Plain(opts)
        /\ Honest' <=> Honest
        /\ \A l : BelowTops(l)' <=> BelowTops(l)
        /\ FilesBelow(Tops)' = FilesBelow(Tops)
    BY <2>1, SameRun
  <2>5. Listings' /\ RootsListed'
    BY <1>1, <2>1, <2>3 DEF Thorough, Listings, RootsListed
  <2>6. Opened'
    BY <1>1, <2>1, <2>2, <2>3 DEF Thorough, Opened
  <2>7. FramesHonest'
    BY <1>1, <2>1, <2>2, <2>3, <2>4 DEF Thorough, FramesHonest
  <2>8. \A l : Reached(l) => Reached(l)'
    BY <2>1, ReachedStays
  <2>9. Covered'
    <3>1. ASSUME Honest, opts.recursive, NEW d \in Range(listings), NEW name \in Entries(d)
          PROVE  \/ \E fr \in Range(frames') : Resolve(fr.dir) = {d} /\ name \in fr.left
                 \/ Reached(Append(d, name))'
      <4>1. CASE Reached(Append(d, name))
        BY <2>8, <4>1
      <4>2. CASE ~Reached(Append(d, name))
        <5>1. \E fr \in Range(frames) : Resolve(fr.dir) = {d} /\ name \in fr.left
          BY <1>1, <3>1, <4>2 DEF Thorough, Covered
        <5>2. QED
          BY <2>1, <2>2, <5>1
      <4>3. QED
        BY <4>1, <4>2
    <3>2. QED
      BY <2>1, <2>3, <2>4, <3>1 DEF Covered
  <2>10. PlainFrames'
    BY <1>1, <2>1, <2>2, <2>3, <2>4 DEF PlainRun, PlainFrames
  <2>11. PlainSeen' /\ PlainRoots'
    BY <1>1, <2>1, <2>3, <2>4 DEF PlainRun, PlainSeen, PlainRoots
  <2>12. Thorough' /\ PlainRun'
    BY <2>5, <2>6, <2>7, <2>9, <2>10, <2>11 DEF Thorough, PlainRun
  <2>13. QED
    BY <1>4, <2>1, <2>12
<1>9. CASE ReadRoot
  <2>1. /\ running /\ ~opts.recursive
        /\ UNCHANGED <<fs, running, opts, frames, visited, listings>>
    BY <1>9 DEF ReadRoot
  <2>2. /\ \A q : Resolve(q)' = Resolve(q) /\ Entries(q)' = Entries(q)
        /\ \A q : IsHonest(q)' <=> IsHonest(q)
        /\ Honest' <=> Honest
    BY <2>1, SameAnswers, SameRun
  <2>3. Thorough'
    BY <1>1, <2>1, <2>2 DEF Thorough, Listings, Opened, FramesHonest, Covered, RootsListed
  <2>4. ~Plain(opts)'
    BY <2>1 DEF Plain
  <2>5. PlainRun'
    BY <2>4 DEF PlainRun, PlainFrames, PlainSeen, PlainRoots
  <2>6. QED
    BY <1>4, <2>1, <2>3, <2>5
<1>10. CASE ScanFinish
  <2>1. Rest'
    BY <1>10 DEF ScanFinish, WalkDone, Rest
  <2>2. QED
    BY <1>3, <2>1
<1>11. ASSUME ~running, UNCHANGED walkVars
       PROVE  TInv'
  <2>1. Rest'
    BY <1>1, <1>11 DEF Rest, walkVars
  <2>2. QED
    BY <1>3, <2>1
<1>12. ASSUME NEW policy, NEW under, DeleteRun(policy, under)
       PROVE  TInv'
  <2>1. ~running /\ UNCHANGED walkVars
    BY <1>12, Zenon DEF DeleteRun
  <2>2. QED
    BY <1>11, <2>1
<1>13. ASSUME NEW loc, UserChanges(loc)
       PROVE  TInv'
  BY <1>11, <1>13 DEF UserChanges
<1>14. CASE UNCHANGED vars
  <2>1. UNCHANGED <<fs, running, opts, roots, frames, visited, seen, listings>>
    BY <1>14 DEF vars, walkVars
  <2>2. /\ \A q : Resolve(q)' = Resolve(q) /\ Entries(q)' = Entries(q)
        /\ \A q : (IsHonest(q)' <=> IsHonest(q)) /\ StatKind(q)' = StatKind(q)
        /\ \A l : Reached(l) => Reached(l)'
    BY <2>1, SameAnswers, ReachedStays
  <2>3. /\ Plain(opts)' <=> Plain(opts)
        /\ Honest' <=> Honest
        /\ \A l : BelowTops(l)' <=> BelowTops(l)
        /\ FilesBelow(Tops)' = FilesBelow(Tops)
    BY <2>1, SameRun
  <2>4. Listings' /\ Opened' /\ RootsListed' /\ FramesHonest'
    BY <1>1, <2>1, <2>2, <2>3 DEF Thorough, Listings, Opened, RootsListed, FramesHonest
  <2>5. Covered'
    BY <1>1, <2>1, <2>2, <2>3 DEF Thorough, Covered
  <2>6. PlainRun'
    BY <1>1, <2>1, <2>2, <2>3 DEF PlainRun, PlainFrames, PlainSeen, PlainRoots
  <2>7. QED
    BY <1>1, <1>2, <2>1, <2>4, <2>5, <2>6 DEF TInv, Thorough, Rest
<1>15. QED
  BY <1>5, <1>6, <1>7, <1>8, <1>9, <1>10, <1>12, <1>13, <1>14 DEF Next

(* The invariant holds initially, and so always.                           *)
LEMMA TInvHolds == Spec => []TInv
<1>1. Init => TInv
  <2>1. Range(<<>>) = {} /\ IsInjective(<<>>) /\ \A S : <<>> \in Seq(S)
    BY EmptyQueue
  <2>2. NoOptions.roots = <<>> /\ NoOptions.follow = FALSE
    BY DEF NoOptions
  <2>3. Init => IsTree(fs) /\ Rest /\ roots = <<>> /\ running = FALSE
    BY WalkAssumption DEF Init, Rest
  <2>4. Rest /\ roots = <<>> /\ running = FALSE => WInv
    BY <2>1, <2>2 DEF Rest, WInv, Shape, ListedOnce
  <2>5. QED
    BY <2>3, <2>4, RestIsFine DEF TInv
<1>2. QED
  BY <1>1, NextTInv, PTL DEF Spec

-----------------------------------------------------------------------------
(* However roots overlap, whatever links lead where, and in whatever order *)
(* readdir names the entries, a run lists each directory once, roots that  *)
(* are links and links that are not followed excepted.                     *)
THEOREM EachDirectoryOnce == Spec => []DirOnce
<1>1. TInv => DirOnce
  BY DEF TInv, WInv, ListedOnce, Straight, DirOnce
<1>2. QED
  BY <1>1, TInvHolds, PTL

(* Where something lies below, there is a directory.                       *)
LEMMA BelowIsDir ==
  ASSUME IsTree(fs), NEW top \in Ends, NEW l \in Locations, Present(l), IsPrefix(top, l),
         l # top
  PROVE  fs[top] = Dir
<1> DEFINE Below(k) == Present(k) /\ IsPrefix(top, k) /\ k # top
           T == { m \in Nat : \A k \in Locations : Len(k) = m /\ Below(k) => fs[top] = Dir }
<1>1. ASSUME NEW k \in Locations, Below(k)
      PROVE  /\ Front(k) \in Locations /\ fs[Front(k)] = Dir
             /\ Front(k) = top \/ Below(Front(k))
             /\ Len(k) \in Nat \ {0} /\ Len(Front(k)) = Len(k) - 1
  <2>1. /\ k # <<>> /\ Front(k) \in Locations /\ fs[Front(k)] = Dir
        /\ IsPrefix(top, Front(k))
    BY <1>1, BelowEnds
  <2>2. Present(Front(k))
    BY <2>1 DEF Present, Dir
  <2>3. QED
    BY <2>1, <2>2, LocationNames
<1>2. Below(l) /\ Len(l) \in Nat
  BY LocationNames, LenProperties
<1> HIDE DEF Below
<1>3. 0 \in T
  BY <1>1
<1>4. ASSUME NEW m \in T
      PROVE  m + 1 \in T
  BY <1>1
<1> HIDE DEF T
<1>5. Len(l) \in T
  BY <1>2, <1>3, <1>4, NumbersUpTo
<1>6. QED
  BY <1>2, <1>5 DEF T

(* When a walk is done, the directories listed are closed below, and so    *)
(* every file in the tree of one has been seen.                            *)
LEMMA ListedIsSeen ==
  ASSUME TInv, WalkDone, opts.recursive, Honest, NEW top \in Range(listings),
         NEW l \in Locations, Present(l), IsPrefix(top, l)
  PROVE  Reached(l)
<1>1. /\ IsTree(fs) /\ frames = <<>> /\ top \in Locations /\ fs[top] = Dir
      /\ \A d \in Range(listings) : d \in Locations
      /\ \A d \in Range(listings) : \A name \in Entries(d) : Reached(Append(d, name))
  BY EmptyQueue DEF TInv, WalkDone, Thorough, Listings, Covered
<1>2. top \in Ends
  BY <1>1 DEF Ends
<1> DEFINE Below(k) == Present(k) /\ IsPrefix(top, k)
           T == { m \in Nat : \A k \in Locations : Len(k) = m /\ Below(k) => Reached(k) }
<1>3. ASSUME NEW k \in Locations, Below(k), k # top
      PROVE  /\ Front(k) \in Locations /\ fs[Front(k)] = Dir /\ Below(Front(k))
             /\ Len(k) \in Nat \ {0} /\ Len(Front(k)) = Len(k) - 1
             /\ Last(k) \in Entries(Front(k)) /\ k = Append(Front(k), Last(k))
  <2>1. /\ k # <<>> /\ Front(k) \in Locations /\ fs[Front(k)] = Dir
        /\ IsPrefix(top, Front(k))
        /\ Last(k) \in Entries(Front(k))
    BY <1>1, <1>2, <1>3, BelowEnds
  <2>2. Present(Front(k))
    BY <2>1 DEF Present, Dir
  <2>3. QED
    BY <2>1, <2>2, LocationNames
<1>4. Reached(top)
  BY <1>1 DEF Reached, Dir
<1> HIDE DEF Below
<1>5. 0 \in T
  BY <1>3, <1>4
<1>6. ASSUME NEW m \in T
      PROVE  m + 1 \in T
  <2>1. ASSUME NEW k \in Locations, Len(k) = m + 1, Below(k)
        PROVE  Reached(k)
    <3>1. CASE k = top
      BY <1>4, <3>1
    <3>2. CASE k # top
      <4>1. /\ Front(k) \in Locations /\ fs[Front(k)] = Dir /\ Below(Front(k))
            /\ Len(Front(k)) = m
            /\ Last(k) \in Entries(Front(k)) /\ k = Append(Front(k), Last(k))
        BY <1>3, <2>1, <3>2
      <4>2. Reached(Front(k))
        BY <4>1
      <4>3. Front(k) \in Range(listings)
        BY <4>1, <4>2 DEF Reached, Dir
      <4>4. QED
        BY <1>1, <4>1, <4>3
    <3>3. QED
      BY <3>1, <3>2
  <2>2. QED
    BY <2>1
<1>7. Len(l) \in Nat
  BY LocationNames, LenProperties
<1> HIDE DEF T
<1>8. Len(l) \in T
  <2>1. 0..Len(l) \subseteq T
    BY <1>5, <1>6, <1>7, NumbersUpTo
  <2>2. QED
    BY <1>7, <2>1
<1>9. QED
  BY <1>8 DEF T, Below

(* The invariant is what makes a walk complete.                            *)
LEMMA CompleteWhenDone == TInv => WalkIsComplete
<1> SUFFICES ASSUME TInv, WalkDone, opts.recursive
             PROVE  /\ Honest =>
                         \A r \in Range(opts.roots) : \A l \in FilesBelow(Resolve(r)) :
                           StatKind(r) = {"dir"} => \E p \in seen : Resolve(p) = {l}
                    /\ Plain(opts) => seen = FilesBelow(Tops)
  BY DEF WalkIsComplete, Honest, Tops
<1>1. IsTree(fs) /\ Shape /\ Thorough /\ PlainRun /\ Range(roots) = {}
  BY EmptyQueue DEF TInv, WInv, WalkDone
<1>2. \A r \in Range(opts.roots) : r \in Seq(Words)
  BY <1>1, ElementOfSeq DEF Shape, Range
<1>3. \A l \in Locations : fs[l].kind = "file" => Present(l) /\ l \in Ends
  BY <1>1, TreeNodes DEF Present, Ends
<1>4. ASSUME Honest, NEW r \in Range(opts.roots), NEW l \in Locations, fs[l].kind = "file",
             NEW top \in Resolve(r), IsPrefix(top, l), StatKind(r) = {"dir"}
      PROVE  \E p \in seen : Resolve(p) = {l}
  <2>1. top \in Range(listings)
    BY <1>1, <1>4 DEF Thorough, RootsListed
  <2>2. Reached(l)
    BY <1>3, <1>4, <2>1, ListedIsSeen
  <2>3. QED
    BY <1>4, <2>2 DEF Reached
<1>5. ASSUME Plain(opts)
      PROVE  seen = FilesBelow(Tops)
  <2>1. seen \subseteq FilesBelow(Tops)
    BY <1>1, <1>5 DEF PlainRun, PlainSeen
  <2>2. Honest
    <3>1. ASSUME NEW r \in Range(opts.roots)
          PROVE  Resolve(Normalize(r)) = Resolve(r)
      <4>1. Resolve(r) = {Normalize(r)}
        BY <1>5 DEF Plain, IsReal
      <4>2. Normalize(r) \in Ends
        BY <1>1, <1>2, <4>1, ResolveEnds
      <4>3. QED
        BY <1>1, <4>1, <4>2, EndsLead
    <3>2. QED
      BY <3>1 DEF Honest, IsHonest
  <2>3. ASSUME NEW l \in FilesBelow(Tops)
        PROVE  l \in seen
    <3>1. l \in Locations /\ fs[l].kind = "file"
      BY DEF FilesBelow
    <3>2. PICK r \in Range(opts.roots) : \E t \in Resolve(r) : IsPrefix(t, l)
      BY DEF FilesBelow, Tops
    <3> DEFINE top == CHOOSE t \in Resolve(r) : IsPrefix(t, l)
    <3>3. top \in Resolve(r) /\ IsPrefix(top, l)
      BY <3>2
    <3> HIDE DEF top
    <3>4. Resolve(r) = {top} /\ top = Normalize(r) /\ top \in Ends
      <4>1. Resolve(r) = {Normalize(r)}
        BY <1>5 DEF Plain, IsReal
      <4>2. QED
        BY <1>1, <1>2, <3>3, <4>1, ResolveEnds
    <3>5. CASE fs[top] = Dir
      <4>1. StatKind(r) = {"dir"}
        BY <3>4, <3>5 DEF StatKind, KindsAt, Dir
      <4>2. PICK p \in seen : Resolve(p) = {l}
        BY <1>4, <2>2, <3>1, <3>3, <4>1
      <4>3. p \in Ends
        BY <1>1, <2>1, <1>3, <4>2 DEF FilesBelow
      <4>4. QED
        BY <1>1, <4>2, <4>3, EndsLead
    <3>6. CASE fs[top] = File
      <4>1. StatKind(r) = {"file"} /\ fs[top] # Dir
        BY <3>4, <3>6 DEF StatKind, KindsAt, Dir, File
      <4>2. top \in seen
        BY <1>1, <1>5, <3>4, <4>1 DEF PlainRun, PlainRoots
      <4>3. l = top
        BY <1>1, <1>3, <3>1, <3>4, <3>3, <4>1, BelowIsDir
      <4>4. QED
        BY <4>2, <4>3
    <3>7. QED
      BY <3>4, <3>5, <3>6 DEF Ends
  <2>4. QED
    BY <2>1, <2>3
<1>6. QED
  BY <1>4, <1>5 DEF FilesBelow

(* A walk is complete, on any tree: every regular file below a root        *)
(* directory is seen, and a plain run sees nothing else.                   *)
THEOREM WalksMissNothing == Spec => []WalkIsComplete
  BY CompleteWhenDone, TInvHolds, PTL

-----------------------------------------------------------------------------
(* What is recorded *)

(* A listing of a finite set is a sequence of exactly its elements.        *)
LEMMA ListedSet ==
  ASSUME NEW S, IsFiniteSet(S)
  PROVE  SetToSeq(S) \in Seq(S) /\ Range(SetToSeq(S)) = S
<1> DEFINE s == SetToSeq(S)
           n == Cardinality(S)
<1>1. n \in Nat /\ ExistsBijection(1..n, S)
  BY FS_CardinalityType
<1>2. \E f \in [1..n -> S] : IsInjective(f)
  BY <1>1 DEF ExistsBijection, Bijection, Injection
<1>3. s \in [1..n -> S] /\ IsInjective(s)
  BY <1>2 DEF SetToSeq
<1> HIDE DEF s, n
<1>4. s \in Seq(S) /\ Len(s) = n
  BY <1>1, <1>3, SeqDef
<1>5. Range(s) \subseteq S
  BY <1>3 DEF Range
<1>6. Cardinality(Range(s)) = n
  BY <1>3, <1>4, QueueCount
<1>7. Range(s) = S
  BY <1>5, <1>6, FS_Subset DEF n
<1>8. QED
  BY <1>4, <1>7 DEF s

(* What a run writes is written one version after the other.               *)
LEMMA WrittenSteps ==
  ASSUME NEW d, NEW paths, IsFiniteSet(paths), NEW s, s = SetToSeq(paths)
  PROVE  \E after :
           /\ after[0] = d
           /\ \A m \in 1..Len(s) : after[m] = WriteVersion(after[m - 1], s[m], TheMeta)
           /\ Written(d, paths) = after[Len(s)]
<1> DEFINE n == Len(s)
           v(f, t) == IF t = {} THEN d ELSE WriteVersion(f[t \ {Max(t)}], s[Max(t)], TheMeta)
           It(f) == f = [t \in SUBSET DOMAIN s |-> v(f, t)]
           iter == CHOOSE f : It(f)
           after == [m \in 0..n |-> iter[1..m]]
<1>1. s \in Seq(paths)
  BY ListedSet
<1>2. Written(d, paths) = iter[DOMAIN s]
  BY DEF Written, FoldLeft, MapThenFoldSet
<1>3. n \in Nat /\ DOMAIN s = 1..n
  BY <1>1, LenProperties
<1>4. It(iter)
  <2> DEFINE batch == [i \in 1..n |-> [path |-> s[i], meta |-> TheMeta]]
  <2>1. PICK f : IsFold(d, batch, n, f)
    BY <1>3, FoldExists
  <2>2. ASSUME NEW t \in SUBSET (1..n)
        PROVE  v(f, t) = IF t = {} THEN d
                         ELSE WriteVersion(f[t \ {Max(t)}], batch[Max(t)].path, batch[Max(t)].meta)
    <3>1. CASE t = {}
      BY <3>1
    <3>2. CASE t # {}
      <4>1. Max(t) \in 1..n
        BY <1>3, <3>2, GreatestNumber
      <4>2. batch[Max(t)].path = s[Max(t)] /\ batch[Max(t)].meta = TheMeta
        BY <4>1
      <4>3. QED
        BY <3>2, <4>2
    <3>3. QED
      BY <3>1, <3>2
  <2>3. f = [t \in SUBSET (1..n) |-> v(f, t)]
    <3> HIDE DEF batch
    <3>1. QED
      BY <2>1, <2>2 DEF IsFold
  <2>4. It(f)
    BY <1>3, <2>3
  <2> HIDE DEF It
  <2>5. QED
    BY <2>4
<1> HIDE DEF iter
<1>5. \A t \in SUBSET (1..n) : iter[t] = v(iter, t)
  <2> DEFINE w(t) == v(iter, t)
  <2>1. iter = [t \in SUBSET (1..n) |-> w(t)]
    BY <1>3, <1>4
  <2> HIDE DEF w
  <2>2. \A t \in SUBSET (1..n) : iter[t] = w(t)
    BY <2>1
  <2>3. QED
    BY <2>2 DEF w
<1>6. after[0] = d
  <2>1. 1..0 = {} /\ {} \in SUBSET (1..n)
    OBVIOUS
  <2>2. after[0] = iter[{}]
    BY <1>3, <2>1
  <2>3. QED
    BY <1>5, <2>1, <2>2
<1>7. ASSUME NEW m \in 1..n
      PROVE  after[m] = WriteVersion(after[m - 1], s[m], TheMeta)
  <2>1. 1..m \in SUBSET (1..n) /\ 1..m # {} /\ (1..m) \ {m} = 1..(m - 1) /\ Max(1..m) = m
    BY <1>3, UpTo
  <2>2. after[m] = iter[1..m] /\ after[m - 1] = iter[1..(m - 1)]
    BY <1>3
  <2>3. QED
    BY <1>5, <2>1, <2>2
<1>8. after[n] = iter[1..n]
  BY <1>3
<1> HIDE DEF after
<1>9. QED
  BY <1>2, <1>3, <1>6, <1>7, <1>8

(* They make their paths Live, and no other.                               *)
LEMMA WrittenGood ==
  ASSUME NEW d, Typed(d), Consistent(d), NEW paths \in SUBSET Paths, IsFiniteSet(paths)
  PROVE  /\ Typed(Written(d, paths)) /\ Consistent(Written(d, paths))
         /\ LivePaths(Written(d, paths)) = LivePaths(d) \cup paths
<1> DEFINE s == SetToSeq(paths)
           n == Len(s)
           first(m) == { s[i] : i \in 1..m }
<1>1. s \in Seq(paths) /\ Range(s) = paths
  BY ListedSet
<1>2. PICK after : /\ after[0] = d
                   /\ \A m \in 1..n : after[m] = WriteVersion(after[m - 1], s[m], TheMeta)
                   /\ Written(d, paths) = after[n]
  <2>1. s = SetToSeq(paths)
    OBVIOUS
  <2> HIDE DEF s
  <2>2. QED
    BY <2>1, WrittenSteps
<1> HIDE DEF s
<1>3. n \in Nat /\ DOMAIN s = 1..n /\ \A i \in 1..n : s[i] \in Paths
  BY <1>1, LenProperties, ElementOfSeq
<1>4. TheMeta \in Metas
  BY WalkAssumption DEF TheMeta
<1> DEFINE Good(m) == /\ Typed(after[m]) /\ Consistent(after[m])
                      /\ LivePaths(after[m]) = LivePaths(d) \cup first(m)
           T == { m \in 0..n : Good(m) }
<1>5. 0 \in T
  BY <1>2, <1>3
<1>6. ASSUME NEW m \in T, m \in 0..(n - 1)
      PROVE  m + 1 \in T
  <2>1. m + 1 \in 1..n /\ m + 1 - 1 = m /\ m \in Nat
    BY <1>3, <1>6
  <2>2. after[m + 1] = WriteVersion(after[m], s[m + 1], TheMeta) /\ s[m + 1] \in Paths
    BY <1>2, <1>3, <2>1
  <2>3. Typed(after[m]) /\ Consistent(after[m]) /\ PathIdsInverse(after[m])
    BY <1>6 DEF Consistent
  <2>4. Typed(after[m + 1]) /\ Consistent(after[m + 1])
    BY <1>4, <2>2, <2>3, WriteVersionTyped, WriteVersionConsistent
  <2>5. LivePaths(after[m + 1]) = LivePaths(after[m]) \cup {s[m + 1]}
    BY <1>4, <2>2, <2>3, WriteVersionGrows
  <2>6. first(m + 1) = first(m) \cup {s[m + 1]}
    <3>1. 1..(m + 1) = 1..m \cup {m + 1}
      BY <2>1
    <3>2. QED
      BY <3>1
  <2>7. LivePaths(after[m]) = LivePaths(d) \cup first(m)
    BY <1>6
  <2> HIDE DEF first
  <2>8. Good(m + 1)
    BY <2>4, <2>5, <2>6, <2>7
  <2>9. QED
    BY <2>1, <2>8
<1> HIDE DEF T
<1>7. 0..n \subseteq T
  BY <1>3, <1>5, <1>6, NumbersUpTo
<1>8. Good(n)
  BY <1>3, <1>7 DEF T
<1>9. first(n) = paths
  BY <1>1, <1>3 DEF Range
<1>10. QED
  BY <1>2, <1>8, <1>9

(* Marking takes the paths in scope and not seen out of Live, and no other.*)
LEMMA SweepTakes ==
  ASSUME NEW d, NEW scope, NEW met, Typed(d), Consistent(d)
  PROVE  LivePaths(MarkMissingNotSeen(d, scope, met)) = LivePaths(d) \ (scope \ met)
<1> DEFINE gone == { d.path_current[pid] :
                       pid \in { i \in DOMAIN d.path_current \cap DOMAIN d.id_to_path :
                                   d.id_to_path[i] \in scope \ met } }
           s == [f \in DOMAIN d.file_state |->
                   IF f \in gone /\ d.file_state[f] = Live THEN Missing ELSE d.file_state[f]]
           e == [d EXCEPT !.file_state = s]
<1>1. MarkMissingNotSeen(d, scope, met) = e
  BY DEF MarkMissingNotSeen
<1>2. /\ DOMAIN d.path_current = 1..(d.next_path_id - 1)
      /\ DOMAIN d.id_to_path = 1..(d.next_path_id - 1)
      /\ DOMAIN d.file_state = 1..(d.next_file_id - 1)
      /\ \A f \in DOMAIN d.file_state : d.file_to_path[f] \in 1..(d.next_path_id - 1)
      /\ "file_state" \in DOMAIN d
  BY DEF Typed, TableNames
<1>3. ASSUME NEW f \in DOMAIN d.file_state, d.file_state[f] = Live
      PROVE  f \in gone <=> PathOf(d, f) \in scope \ met
  <2>1. d.path_current[d.file_to_path[f]] = f
    BY <1>3 DEF Consistent, ReplacedIffSuperseded, Live, Replaced
  <2>2. \A pid \in DOMAIN d.path_current : d.file_to_path[d.path_current[pid]] = pid
    BY DEF Consistent, CurrentIsOwn
  <2>3. QED
    BY <1>2, <2>1, <2>2 DEF PathOf
<1> HIDE DEF gone
<1>4. /\ e.file_state = s
      /\ \A f : PathOf(e, f) = PathOf(d, f)
  BY <1>2 DEF PathOf, Typed, TableNames
<1> HIDE DEF e
<1>5. \A f \in DOMAIN s : s[f] = Live <=> d.file_state[f] = Live /\ f \notin gone
  BY DEF Live, Missing
<1>6. DOMAIN s = DOMAIN d.file_state
  OBVIOUS
<1> HIDE DEF s
<1>7. QED
  BY <1>1, <1>3, <1>4, <1>5, <1>6 DEF LivePaths

(* What a path of the tree is recorded under is one of Paths.              *)
EveryPath == Seq(DOMAIN Spelling) \subseteq Paths

(* A path that leads to a file ends with a name, however it begins.        *)
LEMMA FileName ==
  ASSUME IsTree(fs), NEW path \in Seq(Words), StatKind(path) = {"file"}
  PROVE  Normalize(path) \in Seq(Names) \ {<<>>}
<1> DEFINE q == Front(path)
           c == Last(path)
<1>1. PICK l \in Locations : Resolve(path) = {l} /\ fs[l].kind = "file"
  BY OneEnd
<1>2. path # <<>>
  BY <1>1, RootLeads, TreeNodes
<1>3. q \in Seq(Words) /\ c \in Words /\ path = Append(q, c)
  BY <1>2, FrontLast
<1>4. Resolve(path) = Onward(Resolve(q), c)
  BY <1>2, LastStep
<1> HIDE DEF q, c
<1>5. PICK a \in Resolve(q) : l \in Step(a, c)
  BY <1>1, <1>4 DEF Onward
<1>6. a \in Locations /\ fs[a] = Dir
  <2>1. a \in Ends
    BY <1>3, ResolveEnds
  <2>2. QED
    BY <1>5, <2>1, TreeNodes DEF Ends, Step
<1>7. fs[l] = File /\ File # Dir
  BY <1>1, TreeNodes
<1>8. c # "."
  BY <1>5, <1>6, <1>7 DEF Step
<1>9. c # ".."
  BY <1>5, <1>6, <1>7, TreeNodes DEF Step, Present, Dir
<1>10. c \in Names
  BY <1>3, <1>8, <1>9 DEF Words, Names
<1>11. /\ Normalize(q) \in Seq(Names)
       /\ Normalize(path) = Append(Normalize(q), c)
  BY <1>3, <1>10, NormalizeName
<1>12. QED
  BY <1>10, <1>11, FrontAppend

(* The entries of a directory are finitely many.                           *)
LEMMA EntriesFinite == ASSUME NEW d PROVE IsFiniteSet(Entries(d))
<1> DEFINE S == { k \in Locations \ {<<>>} : Present(k) /\ Front(k) = d }
           f == [k \in S |-> Last(k)]
<1>1. IsFiniteSet(S)
  <2>1. S \in SUBSET Locations /\ IsFiniteSet(Locations)
    BY WalkAssumption
  <2> HIDE DEF S
  <2>2. QED
    BY <2>1, FS_Subset
<1>2. f \in Surjection(S, Entries(d))
  BY DEF Surjection, Entries
<1> HIDE DEF S, f
<1>3. QED
  BY <1>1, <1>2, FS_Surjection

(* The database is consistent and its Live paths are those of names; jobs  *)
(* are for paths seen.                                                     *)
DInv ==
  /\ Typed(db)
  /\ Consistent(db)
  /\ LivePaths(db) \subseteq Seq(Names) \ {<<>>}
  /\ jobs \subseteq seen
  /\ jobs \subseteq Seq(Names) \ {<<>>}
  /\ IsFiniteSet(jobs)

(* Enqueueing some paths, of finitely many strings.                        *)
LEMMA Enqueued ==
  ASSUME IsTree(fs), DInv, NEW paths \in SUBSET Seq(Words), Enqueue(paths), NEW N, IsFiniteSet(N),
         \A p \in paths : Normalize(p) \in N, UNCHANGED db
  PROVE  DInv'
<1> DEFINE more == { Normalize(p) : p \in { q \in paths : IsCandidate(q) } }
<1>1. /\ seen' = seen \cup { Normalize(p) : p \in paths }
      /\ jobs' = jobs \cup more
  BY DEF Enqueue
<1>2. jobs' \subseteq seen'
  BY <1>1 DEF DInv
<1>3. more \subseteq Seq(Names) \ {<<>>}
  BY FileName DEF IsCandidate
<1>4. IsFiniteSet(more)
  <2>1. more \in SUBSET N
    OBVIOUS
  <2> HIDE DEF more
  <2>2. QED
    BY <2>1, FS_Subset
<1> HIDE DEF more
<1>5. IsFiniteSet(jobs')
  BY <1>1, <1>4, FS_Union DEF DInv
<1>6. QED
  BY <1>1, <1>2, <1>3, <1>5 DEF DInv

(* One entry.                                                              *)
LEMMA EntryEnqueued ==
  ASSUME IsTree(fs), DInv, NEW path \in Seq(Words), NEW depth, NEW rest,
         WalkEntry(path, depth, rest)
  PROVE  DInv'
<1> DEFINE paths == IF EntryKind(path) = {"file"} THEN {path} ELSE {}
<1>1. Enqueue(paths) /\ UNCHANGED db
  BY DEF WalkEntry
<1>2. paths \in SUBSET Seq(Words) /\ \A p \in paths : Normalize(p) \in {Normalize(path)}
  OBVIOUS
<1> HIDE DEF paths
<1>3. IsFiniteSet({Normalize(path)})
  BY FS_Singleton
<1>4. QED
  BY <1>1, <1>2, <1>3, Enqueued

(* Every step keeps that, on a tree.                                       *)
LEMMA NextDInv == EveryPath /\ TInv /\ DInv /\ [Next]_vars => DInv'
<1> SUFFICES ASSUME EveryPath, TInv, DInv, [Next]_vars PROVE DInv'
  OBVIOUS
<1>1. IsTree(fs) /\ Shape /\ Thorough
  BY DEF TInv, WInv
<1>2. ASSUME UNCHANGED <<db, seen, jobs>>
      PROVE  DInv'
  BY <1>2 DEF DInv
<1>3. CASE WalkRoot
  <2>1. Head(roots) \in Seq(Words) /\ WalkEntry(Head(roots), 0, <<>>)
    <3>1. roots # <<>> /\ roots \in Seq(Seq(Words)) /\ WalkEntry(Head(roots), 0, <<>>)
      BY <1>1, <1>3 DEF WalkRoot, Shape
    <3>2. QED
      BY <3>1, TailQueue
  <2>2. QED
    BY <1>1, <2>1, EntryEnqueued
<1>4. CASE WalkNext
  <2>1. PICK name \in Last(frames).left :
          \E rest : WalkEntry(Append(Last(frames).dir, name), Len(frames), rest)
    BY <1>4 DEF WalkNext
  <2>2. frames # <<>> /\ frames \in Seq(Frames)
    BY <1>1, <1>4 DEF WalkNext, Shape
  <2>3. Last(frames) \in Frames
    BY <2>2, FrontLast
  <2>4. Append(Last(frames).dir, name) \in Seq(Words)
    <3>1. Last(frames).dir \in Seq(Words) /\ name \in Words
      BY <2>1, <2>3 DEF Frames, Words
    <3>2. QED
      BY <3>1, AppendProperties
  <2>5. QED
    BY <1>1, <2>1, <2>4, EntryEnqueued
<1>5. CASE ReadRoot
  <2> DEFINE root == Head(roots)
             names == UNION { Entries(l) : l \in Resolve(root) }
             paths == IF StatKind(root) = {"dir"} THEN { Append(root, name) : name \in names }
                      ELSE {}
             f == [name \in names |-> Normalize(Append(root, name))]
             N == { f[name] : name \in names }
  <2>1. /\ root \in Seq(Words)
        /\ Enqueue(paths) /\ UNCHANGED db
    <3>1. roots # <<>> /\ roots \in Seq(Seq(Words)) /\ Enqueue(paths) /\ UNCHANGED db
      BY <1>1, <1>5 DEF ReadRoot, Shape
    <3> HIDE DEF paths
    <3>2. QED
      BY <3>1, TailQueue
  <2> HIDE DEF root
  <2>2. CASE StatKind(root) = {"dir"}
    <3>1. PICK d \in Locations : Resolve(root) = {d}
      BY <1>1, <2>1, <2>2, OneEnd
    <3>2. names = Entries(d)
      BY <3>1
    <3>3. IsFiniteSet(names) /\ names \subseteq Words
      <4>1. \A l \in Locations \ {<<>>} : Last(l) \in Words
        BY LocationNames
      <4>2. QED
        BY <3>2, <4>1, EntriesFinite DEF Entries
    <3>4. \A p \in paths : p \in Seq(Words) /\ Normalize(p) \in N
      <4>1. \A name \in names : Append(root, name) \in Seq(Words)
        BY <2>1, <3>3, AppendProperties
      <4>2. QED
        BY <2>2, <4>1
    <3> HIDE DEF names
    <3>5. f \in Surjection(names, N)
      BY DEF Surjection
    <3> HIDE DEF f, N, paths
    <3>6. IsFiniteSet(N)
      BY <3>3, <3>5, FS_Surjection
    <3>7. QED
      BY <1>1, <2>1, <3>4, <3>6, Enqueued
  <2>3. CASE StatKind(root) # {"dir"}
    <3>1. paths = {}
      BY <2>3
    <3>2. IsFiniteSet({}) /\ {} \in SUBSET Seq(Words)
      BY FS_EmptySet
    <3>3. Enqueue({})
      BY <2>1, <3>1
    <3>4. QED
      BY <1>1, <2>1, <3>2, <3>3, Enqueued
  <2>4. QED
    BY <2>2, <2>3
<1>6. CASE ScanFinish
  <2> DEFINE hashed == { p \in jobs : StatKind(p) = {"file"} }
             e == Written(db, hashed)
  <2>1. /\ db' = MarkMissingNotSeen(e, Scope, seen)
        /\ seen' = {} /\ jobs' = {}
    BY <1>6 DEF ScanFinish
  <2>2. hashed \in SUBSET Paths /\ IsFiniteSet(hashed) /\ hashed \subseteq Seq(Names) \ {<<>>}
    <3>1. hashed \in SUBSET jobs /\ IsFiniteSet(jobs) /\ jobs \subseteq Seq(Names) \ {<<>>}
      BY DEF DInv
    <3> HIDE DEF hashed
    <3>2. QED
      BY <3>1, FS_Subset DEF EveryPath, Names
  <2> HIDE DEF hashed
  <2>3. Typed(e) /\ Consistent(e) /\ LivePaths(e) = LivePaths(db) \cup hashed
    BY <2>2, WrittenGood DEF DInv
  <2> HIDE DEF e
  <2>4. /\ Typed(db') /\ Consistent(db')
        /\ LivePaths(db') = LivePaths(e) \ (Scope \ seen)
    BY <2>1, <2>3, MarkMissingNotSeenGood, SweepTakes
  <2>5. IsFiniteSet({})
    BY FS_EmptySet
  <2>6. QED
    BY <2>1, <2>2, <2>3, <2>4, <2>5 DEF DInv
<1>7. ASSUME NEW policy, NEW under, DeleteRun(policy, under)
      PROVE  DInv'
  <2>1. \E done : db' = MarkFilesMissing(db, done) \/ db' = db
    BY <1>7, Zenon DEF DeleteRun
  <2>2. UNCHANGED <<seen, jobs>>
    <3>1. UNCHANGED walkVars
      BY <1>7, Zenon DEF DeleteRun
    <3>2. QED
      BY <3>1 DEF walkVars
  <2>3. PICK done : db' = MarkFilesMissing(db, done) \/ db' = db
    BY <2>1
  <2>4. CASE db' = MarkFilesMissing(db, done)
    <3> DEFINE s == [f \in DOMAIN db.file_state |->
                       IF f \in done /\ db.file_state[f] = Live THEN Missing ELSE db.file_state[f]]
    <3>1. Typed(db') /\ Consistent(db')
      BY <2>4, MarkFilesMissingGood DEF DInv
    <3>2. db' = [db EXCEPT !.file_state = s]
      BY <2>4 DEF MarkFilesMissing
    <3>3. /\ DOMAIN s = DOMAIN db.file_state
          /\ \A f \in DOMAIN db.file_state : s[f] = Live => db.file_state[f] = Live
      BY DEF Live, Missing
    <3> HIDE DEF s
    <3>4. LivePaths(db') \subseteq LivePaths(db)
      BY <3>2, <3>3, MissingIsLose DEF DInv
    <3>5. QED
      BY <2>2, <3>1, <3>4 DEF DInv
  <2>5. QED
    BY <1>2, <2>2, <2>3, <2>4
<1>8. CASE \E o \in RunOptions : ScanStart(o)
  BY <1>2, <1>8 DEF ScanStart
<1>9. CASE LeaveDir
  BY <1>2, <1>9 DEF LeaveDir
<1>10. ASSUME NEW loc, UserChanges(loc)
       PROVE  DInv'
  BY <1>2, <1>10 DEF UserChanges, walkVars
<1>11. CASE UNCHANGED vars
  BY <1>2, <1>11 DEF vars, walkVars
<1>12. QED
  BY <1>3, <1>4, <1>5, <1>6, <1>7, <1>8, <1>9, <1>10, <1>11 DEF Next

(* So it always holds.                                                     *)
LEMMA DInvHolds == EveryPath => (Spec => []DInv)
<1>1. Init => DInv
  <2>1. LivePaths(EmptyDb) = {}
    BY DEF LivePaths, EmptyDb, EmptyTable
  <2>2. IsFiniteSet({})
    BY FS_EmptySet
  <2>3. QED
    BY <2>1, <2>2, EmptyDbGood DEF Init, DInv
<1>2. EveryPath /\ TInv /\ DInv /\ [Next]_vars => DInv'
  BY NextDInv
<1>3. Spec => []TInv
  BY TInvHolds
<1>4. ASSUME EveryPath
      PROVE  Spec => []DInv
  <2>1. TInv /\ DInv /\ [Next]_vars => DInv'
    BY <1>2, <1>4
  <2>2. QED
    BY <1>1, <1>3, <2>1, PTL DEF Spec
<1>5. QED
  BY <1>4

-----------------------------------------------------------------------------
(* The tree stays a tree, every commit leaves the tables consistent, and   *)
(* the walk's bookkeeping is about what is there: jobs are paths seen,     *)
(* visited_dirs holds directories listed, an open directory is one, and    *)
(* nothing is kept between runs.                                           *)
THEOREM WalkTypeCorrect == EveryPath => (Spec => []TypeOK)
<1>1. ASSUME EveryPath
      PROVE  TInv /\ DInv => TypeOK
  <2> SUFFICES ASSUME TInv, DInv PROVE TypeOK
    OBVIOUS
  <2>1. IsTree(fs) /\ Shape /\ Thorough /\ (~running => Rest)
    BY DEF TInv, WInv
  <2>2. jobs \subseteq seen \cap Paths
    BY <1>1 DEF DInv, EveryPath, Names
  <2>3. visited \subseteq { l \in Locations : fs[l] = Dir } /\ visited \subseteq Range(listings)
    BY <2>1 DEF Thorough, Listings
  <2>4. running \/ (roots = <<>> /\ frames = <<>> /\ seen = {})
    BY <2>1 DEF Shape, Rest
  <2>5. ASSUME NEW fr \in Range(frames)
        PROVE  StatKind(fr.dir) = {"dir"}
    <3>1. PICK d \in Range(listings) : Resolve(fr.dir) = {d}
      BY <2>1 DEF Thorough, Opened
    <3>2. fs[d] = Dir
      BY <2>1 DEF Thorough, Listings
    <3>3. QED
      BY <3>1, <3>2 DEF StatKind, KindsAt, Dir
  <2>6. QED
    BY <2>1, <2>2, <2>3, <2>4, <2>5 DEF TypeOK, DInv
<1>2. ASSUME EveryPath
      PROVE  Spec => []TypeOK
  <2>1. Spec => []TInv /\ []DInv
    BY <1>2, TInvHolds, DInvHolds
  <2>2. TInv /\ DInv => TypeOK
    BY <1>1, <1>2
  <2>3. QED
    BY <2>1, <2>2, PTL
<1>3. QED
  BY <1>2

-----------------------------------------------------------------------------
(* Strings of paths *)

Joined(s, w) == s \o <<"/">> \o w

(* A string, a separator, and a name behind it.                            *)
LEMMA JoinedPoints ==
  ASSUME NEW s \in Seq(Tokens), NEW w \in Seq(Tokens)
  PROVE  /\ Joined(s, w) \in Seq(Tokens)
         /\ Len(s) \in Nat /\ Len(w) \in Nat
         /\ Len(Joined(s, w)) = Len(s) + 1 + Len(w)
         /\ \A i \in 1..Len(s) : Joined(s, w)[i] = s[i]
         /\ Joined(s, w)[Len(s) + 1] = "/"
         /\ \A i \in 1..Len(w) : Joined(s, w)[Len(s) + 1 + i] = w[i]
<1>1. /\ <<"/">> \in Seq(Tokens) /\ Len(<<"/">>) = 1 /\ <<"/">>[1] = "/"
      /\ Len(s) \in Nat /\ Len(w) \in Nat
  <2>1. "/" \in Tokens
    BY DEF Tokens
  <2>2. QED
    BY <2>1, LenProperties
<1> DEFINE sep == <<"/">>
           t == s \o sep
           x == t \o w
<1>4. Joined(s, w) = x
  BY DEF Joined
<1>0. sep \in Seq(Tokens) /\ Len(sep) = 1 /\ sep[1] = "/"
  BY <1>1
<1> HIDE DEF sep
<1>2. /\ t \in Seq(Tokens) /\ Len(t) = Len(s) + Len(sep)
      /\ \A i \in 1..(Len(s) + Len(sep)) : t[i] = IF i <= Len(s) THEN s[i] ELSE sep[i - Len(s)]
  BY <1>0, ConcatProperties
<1> HIDE DEF t
<1>9. t \in Seq(Tokens) /\ w \in Seq(Tokens)
  BY <1>2
<1>3. /\ x \in Seq(Tokens) /\ Len(x) = Len(t) + Len(w)
      /\ \A i \in 1..(Len(t) + Len(w)) : x[i] = IF i <= Len(t) THEN t[i] ELSE w[i - Len(t)]
  BY <1>9, ConcatProperties
<1> HIDE DEF x
<1>5. \A i \in 1..Len(s) : x[i] = s[i]
  BY <1>0, <1>1, <1>2, <1>3
<1>6. x[Len(s) + 1] = "/"
  <2>1. x[Len(s) + 1] = t[Len(s) + 1]
    BY <1>0, <1>1, <1>2, <1>3
  <2>2. t[Len(s) + 1] = sep[Len(s) + 1 - Len(s)]
    BY <1>0, <1>1, <1>2
  <2>3. Len(s) + 1 - Len(s) = 1
    BY <1>1
  <2>4. QED
    BY <1>0, <2>1, <2>2, <2>3
<1>7. ASSUME NEW i \in 1..Len(w)
      PROVE  x[Len(s) + 1 + i] = w[i]
  <2>1. /\ Len(s) + 1 + i \in 1..(Len(t) + Len(w))
        /\ ~(Len(s) + 1 + i <= Len(t))
        /\ Len(s) + 1 + i - Len(t) = i
    BY <1>0, <1>1, <1>2
  <2>2. x[Len(s) + 1 + i] = w[Len(s) + 1 + i - Len(t)]
    BY <1>3, <2>1
  <2>3. QED
    BY <2>1, <2>2
<1>8. QED
  BY <1>0, <1>1, <1>2, <1>3, <1>4, <1>5, <1>6, <1>7

(* It is known where the last separator is, so what stands before it and   *)
(* what stands behind it.                                                  *)
LEMMA JoinedOnce ==
  ASSUME NEW s \in Seq(Tokens), NEW t \in Seq(Tokens), NEW v \in Seq(Tokens), NEW w \in Seq(Tokens),
         "/" \notin Range(v), "/" \notin Range(w), Joined(s, v) = Joined(t, w)
  PROVE  s = t /\ v = w
<1> DEFINE x == Joined(s, v)
<1>1. /\ Len(s) \in Nat /\ Len(v) \in Nat
      /\ Len(x) = Len(s) + 1 + Len(v)
      /\ \A i \in 1..Len(s) : x[i] = s[i]
      /\ x[Len(s) + 1] = "/"
      /\ \A i \in 1..Len(v) : x[Len(s) + 1 + i] = v[i]
  BY JoinedPoints
<1>2. /\ Len(t) \in Nat /\ Len(w) \in Nat
      /\ Len(x) = Len(t) + 1 + Len(w)
      /\ \A i \in 1..Len(t) : x[i] = t[i]
      /\ x[Len(t) + 1] = "/"
      /\ \A i \in 1..Len(w) : x[Len(t) + 1 + i] = w[i]
  <2> DEFINE y == Joined(t, w)
  <2>1. x = y
    OBVIOUS
  <2>2. /\ Len(t) \in Nat /\ Len(w) \in Nat
        /\ Len(y) = Len(t) + 1 + Len(w)
        /\ \A i \in 1..Len(t) : y[i] = t[i]
        /\ y[Len(t) + 1] = "/"
        /\ \A i \in 1..Len(w) : y[Len(t) + 1 + i] = w[i]
    BY JoinedPoints
  <2> HIDE DEF x, y
  <2>3. QED
    BY <2>1, <2>2
<1> HIDE DEF x
<1>3. /\ \A i \in 1..Len(v) : v[i] # "/"
      /\ \A i \in 1..Len(w) : w[i] # "/"
  BY LenProperties DEF Range
<1>4. ~(Len(s) < Len(t))
  <2>1. ASSUME Len(s) < Len(t)
        PROVE  FALSE
    <3> DEFINE i == Len(t) - Len(s)
    <3>1. i \in 1..Len(v) /\ Len(s) + 1 + i = Len(t) + 1
      BY <1>1, <1>2, <2>1
    <3>2. x[Len(t) + 1] = v[i]
      BY <1>1, <3>1
    <3>3. QED
      BY <1>2, <1>3, <3>1, <3>2
  <2>2. QED
    BY <2>1
<1>5. ~(Len(t) < Len(s))
  <2>1. ASSUME Len(t) < Len(s)
        PROVE  FALSE
    <3> DEFINE i == Len(s) - Len(t)
    <3>1. i \in 1..Len(w) /\ Len(t) + 1 + i = Len(s) + 1
      BY <1>1, <1>2, <2>1
    <3>2. x[Len(s) + 1] = w[i]
      BY <1>2, <3>1
    <3>3. QED
      BY <1>1, <1>3, <3>1, <3>2
  <2>2. QED
    BY <2>1
<1>6. Len(s) = Len(t) /\ Len(v) = Len(w)
  BY <1>1, <1>2, <1>4, <1>5
<1>7. s = t
  <2>1. \A i \in 1..Len(s) : s[i] = t[i]
    BY <1>1, <1>2, <1>6
  <2>2. QED
    BY <1>6, <2>1, SeqEqual
<1>8. v = w
  <2>1. \A i \in 1..Len(v) : v[i] = w[i]
    BY <1>1, <1>2, <1>6
  <2>2. QED
    BY <1>6, <2>1, SeqEqual
<1>9. QED
  BY <1>7, <1>8

(* What such a string is under: itself, and what the string before the     *)
(* last separator is under.                                                *)
LEMMA UnderJoined ==
  ASSUME NEW s \in Seq(Tokens), NEW w \in Seq(Tokens), "/" \notin Range(w), NEW u \in Seq(Tokens)
  PROVE  IsUnder(Joined(s, w), u) <=> u = Joined(s, w) \/ IsUnder(s, u)
<1> DEFINE x == Joined(s, w)
           n == Len(s)
           k == Len(u)
<1>1. /\ x \in Seq(Tokens) /\ n \in Nat /\ Len(w) \in Nat
      /\ Len(x) = n + 1 + Len(w)
      /\ \A i \in 1..n : x[i] = s[i]
      /\ x[n + 1] = "/"
      /\ \A i \in 1..Len(w) : x[n + 1 + i] = w[i]
  BY JoinedPoints
<1>2. k \in Nat /\ \A i \in 1..Len(w) : w[i] # "/"
  BY LenProperties DEF Range
<1> HIDE DEF x
<1>3. ASSUME NEW t \in Seq(Tokens)
      PROVE  IsUnder(t, u) <=>
               \/ t = u
               \/ k < Len(t) /\ (\A i \in 1..k : u[i] = t[i]) /\ t[k + 1] = "/"
  <2>1. IsPrefix(u, t) <=> k <= Len(t) /\ \A i \in 1..k : u[i] = t[i]
    BY PrefixPoints
  <2>2. After(t, u) = {"/"} <=> k < Len(t) /\ t[k + 1] = "/"
    <3>1. Len(t) \in Nat
      BY LenProperties
    <3>2. QED
      BY <1>2, <3>1 DEF After
  <2>3. Len(t) \in Nat
    BY LenProperties
  <2>4. QED
    BY <1>2, <2>1, <2>2, <2>3 DEF IsUnder
<1> HIDE DEF n, k
<1>4. ASSUME k < Len(x), \A i \in 1..k : u[i] = x[i], x[k + 1] = "/"
      PROVE  IsUnder(s, u)
  <2>1. k <= n
    <3>1. ASSUME k > n
          PROVE  FALSE
      <4> DEFINE i == k - n
      <4>1. i \in 1..Len(w) /\ n + 1 + i = k + 1
        BY <1>1, <1>2, <1>4, <3>1
      <4> HIDE DEF i
      <4>2. x[n + 1 + i] = w[i] /\ w[i] # "/"
        BY <1>1, <1>2, <4>1
      <4>3. QED
        BY <1>4, <4>1, <4>2
    <3>2. QED
      BY <1>1, <1>2, <3>1
  <2>2. CASE k = n
    <3>1. \A i \in 1..k : u[i] = s[i]
      BY <1>1, <1>4, <2>2
    <3>2. u = s
      BY <2>2, <3>1, SeqEqual DEF k, n
    <3>3. QED
      BY <1>3, <3>2
  <2>3. CASE k < n
    <3>1. \A i \in 1..k : u[i] = s[i]
      BY <1>1, <1>2, <1>4, <2>3
    <3>2. s[k + 1] = "/"
      BY <1>1, <1>2, <1>4, <2>3
    <3>3. QED
      BY <1>3, <2>3, <3>1, <3>2 DEF n
  <2>4. QED
    BY <1>1, <1>2, <2>1, <2>2, <2>3
<1>5. ASSUME IsUnder(s, u)
      PROVE  IsUnder(x, u)
  <2>1. CASE s = u
    <3>1. k = n
      BY <2>1 DEF k, n
    <3>2. \A i \in 1..k : u[i] = x[i]
      BY <1>1, <2>1, <3>1
    <3>3. k < Len(x) /\ x[k + 1] = "/"
      BY <1>1, <3>1
    <3>4. QED
      BY <1>1, <1>3, <3>2, <3>3
  <2>2. CASE k < n /\ (\A i \in 1..k : u[i] = s[i]) /\ s[k + 1] = "/"
    <3>1. \A i \in 1..k : u[i] = x[i]
      BY <1>1, <1>2, <2>2
    <3>2. x[k + 1] = "/" /\ k < Len(x)
      BY <1>1, <1>2, <2>2
    <3>3. QED
      BY <1>1, <1>3, <3>1, <3>2
  <2>3. QED
    BY <1>3, <1>5, <2>1, <2>2 DEF n
<1>6. QED
  BY <1>1, <1>3, <1>4, <1>5 DEF x

(* The string of a path, without the exception for the root.               *)
Body(path) == IF path = <<>> THEN <<>> ELSE Str(path)

(* It is that of the path without its last name, and that name.            *)
LEMMA BodySteps ==
  ASSUME NEW path \in Seq(Names)
  PROVE  \E at :
           /\ at[0] = <<>>
           /\ \A m \in 1..Len(path) : at[m] = Joined(at[m - 1], Spelling[path[m]])
           /\ Body(path) = at[Len(path)]
           /\ at[Len(path)] \in Seq(Tokens)
<1> DEFINE n == Len(path)
           X == Seq(Tokens)
           v(f, s) == IF s = {} THEN <<>> ELSE Joined(f[s \ {Max(s)}], Spelling[path[Max(s)]])
           It(f) == f = [s \in SUBSET DOMAIN path |-> v(f, s)]
           iter == CHOOSE f : It(f)
           at == [m \in 0..n |-> iter[1..m]]
<1>0. n \in Nat /\ DOMAIN path = 1..n /\ \A i \in 1..n : path[i] \in Names
  BY LenProperties, ElementOfSeq
<1>9. \A c \in Names : Spelling[c] \in Seq(Tokens)
  BY PathMatchAssumption DEF Names
<1>1. path # <<>> => Str(path) = iter[1..n]
  BY <1>0 DEF Str, Joined, FoldLeft, MapThenFoldSet
<1>2. It(iter)
  <2> DEFINE step == [i \in 1..n |-> [x \in X |-> Joined(x, Spelling[path[i]])]]
  <2>1. step \in [1..n -> [X -> X]] /\ <<>> \in X
    BY <1>0, <1>9, JoinedPoints, EmptySeq
  <2>2. PICK row \in [SUBSET (1..n) -> X] : IsRow(step, <<>>, n, row)
    <3> HIDE DEF step, X
    <3>1. QED
      BY <1>0, <2>1, RowExists
  <2>3. ASSUME NEW s \in SUBSET (1..n), s # {}
        PROVE  step[Max(s)][row[s \ {Max(s)}]] = Joined(row[s \ {Max(s)}], Spelling[path[Max(s)]])
    <3>1. Max(s) \in 1..n
      BY <1>0, <2>3, GreatestNumber
    <3>2. row[s \ {Max(s)}] \in X
      OBVIOUS
    <3>3. QED
      BY <3>1, <3>2
  <2>4. row = [s \in SUBSET (1..n) |->
                 IF s = {} THEN <<>> ELSE step[Max(s)][row[s \ {Max(s)}]]]
    BY <2>2 DEF IsRow
  <2> HIDE DEF step
  <2>5. \A s \in SUBSET (1..n) :
          (IF s = {} THEN <<>> ELSE step[Max(s)][row[s \ {Max(s)}]]) = v(row, s)
    BY <2>3
  <2>6. It(row)
    BY <1>0, <2>4, <2>5
  <2> HIDE DEF It
  <2>7. QED
    BY <2>6
<1> HIDE DEF iter
<1>3. \A s \in SUBSET (1..n) : iter[s] = v(iter, s)
  <2> DEFINE w(s) == v(iter, s)
  <2>1. iter = [s \in SUBSET (1..n) |-> w(s)]
    BY <1>0, <1>2
  <2> HIDE DEF w
  <2>2. \A s \in SUBSET (1..n) : iter[s] = w(s)
    BY <2>1
  <2>3. QED
    BY <2>2 DEF w
<1>4. at[0] = <<>>
  <2>1. 1..0 = {} /\ {} \in SUBSET (1..n)
    OBVIOUS
  <2>2. at[0] = iter[{}]
    BY <1>0, <2>1
  <2>3. QED
    BY <1>3, <2>1, <2>2
<1>5. ASSUME NEW m \in 1..n
      PROVE  at[m] = Joined(at[m - 1], Spelling[path[m]])
  <2>1. 1..m \in SUBSET (1..n) /\ 1..m # {} /\ (1..m) \ {m} = 1..(m - 1) /\ Max(1..m) = m
    BY <1>0, UpTo
  <2>2. at[m] = iter[1..m] /\ at[m - 1] = iter[1..(m - 1)]
    BY <1>0
  <2>3. QED
    BY <1>3, <2>1, <2>2
<1>6. at[n] = iter[1..n]
  BY <1>0
<1> HIDE DEF at
<1>7. at[n] \in X
  <2> DEFINE T == { m \in 0..n : at[m] \in X }
  <2>1. 0 \in T
    <3>1. at[0] \in X
      BY <1>4, EmptySeq
    <3>2. QED
      BY <1>0, <3>1
  <2>2. ASSUME NEW m \in T, m \in 0..(n - 1)
        PROVE  m + 1 \in T
    <3>1. m + 1 \in 1..n /\ m + 1 - 1 = m
      BY <1>0, <2>2
    <3>2. at[m + 1] = Joined(at[m], Spelling[path[m + 1]]) /\ path[m + 1] \in Names
      BY <1>0, <1>5, <3>1
    <3>3. at[m + 1] \in X
      <4> DEFINE a == at[m]
                 w == Spelling[path[m + 1]]
      <4>1. a \in Seq(Tokens) /\ w \in Seq(Tokens) /\ at[m + 1] = Joined(a, w)
        BY <1>9, <2>2, <3>2
      <4> HIDE DEF a, w
      <4>2. Joined(a, w) \in Seq(Tokens)
        BY <4>1, JoinedPoints
      <4>3. QED
        BY <4>1, <4>2
    <3>4. QED
      BY <3>1, <3>3
  <2> HIDE DEF T
  <2>3. 0..n \subseteq T
    BY <1>0, <2>1, <2>2, NumbersUpTo
  <2>4. QED
    BY <1>0, <2>3 DEF T
<1>8. Body(path) = at[n]
  <2>1. path = <<>> => n = 0
    BY EmptySeq
  <2> HIDE DEF n
  <2>2. QED
    BY <1>1, <1>4, <1>6, <2>1 DEF Body
<1>10. QED
  BY <1>4, <1>5, <1>7, <1>8 DEF n

(* So Body is the string before the last separator, and the last name.     *)
LEMMA BodyStep ==
  ASSUME NEW path \in Seq(Names)
  PROVE  /\ Body(path) \in Seq(Tokens)
         /\ path # <<>> => Body(path) = Joined(Body(Front(path)), Spelling[Last(path)])
<1> DEFINE n == Len(path)
           q == Front(path)
<1>1. PICK at : /\ at[0] = <<>>
                /\ \A m \in 1..n : at[m] = Joined(at[m - 1], Spelling[path[m]])
                /\ Body(path) = at[n]
                /\ at[n] \in Seq(Tokens)
  BY BodySteps
<1>2. ASSUME path # <<>>
      PROVE  Body(path) = Joined(Body(q), Spelling[Last(path)])
  <2> DEFINE k == n - 1
  <2>1. /\ q \in Seq(Names) /\ Len(q) = k /\ n \in Nat \ {0} /\ Last(path) \in Names
        /\ path = Append(q, Last(path)) /\ Last(path) = path[n]
    BY <1>2, FrontLast DEF Last
  <2>2. PICK bt : /\ bt[0] = <<>>
                  /\ \A m \in 1..Len(q) : bt[m] = Joined(bt[m - 1], Spelling[q[m]])
                  /\ Body(q) = bt[Len(q)]
    BY <2>1, BodySteps
  <2> HIDE DEF q
  <2>3. k \in Nat /\ \A m \in 1..k : m \in 1..n /\ q[m] = path[m]
    <3>1. \A m \in 1..Len(q) : Append(q, Last(path))[m] = q[m]
      BY <2>1, AppendProperties
    <3>2. QED
      BY <2>1, <3>1
  <2> HIDE DEF k
  <2>4. \A m \in 1..k : at[m - 1] = bt[m - 1] => at[m] = bt[m]
    BY <1>1, <2>1, <2>2, <2>3
  <2>5. at[0] = bt[0]
    BY <1>1, <2>2
  <2>6. at[k] = bt[k]
    BY <2>3, <2>4, <2>5, RowsAgree
  <2>7. at[n] = Joined(at[k], Spelling[path[n]])
    BY <1>1, <2>1 DEF k
  <2>8. QED
    BY <1>1, <2>1, <2>2, <2>6, <2>7
<1>3. QED
  BY <1>1, <1>2 DEF q

(* A name's tokens are some, and no separator; no two names have the same. *)
LEMMA SpelledNames ==
  /\ \A c \in Names :
       /\ Spelling[c] \in Seq(Tokens) /\ "/" \notin Range(Spelling[c])
       /\ Len(Spelling[c]) \in Nat \ {0}
  /\ \A c, d \in Names : Spelling[c] = Spelling[d] => c = d
<1>1. \A c \in Names :
        Spelling[c] \in Seq(Tokens) /\ "/" \notin Range(Spelling[c]) /\ Spelling[c] # <<>>
  BY PathMatchAssumption DEF Names
<1>2. \A c, d \in Names : Spelling[c] = Spelling[d] => c = d
  BY PathMatchAssumption DEF Names, IsInjective
<1>3. QED
  BY <1>1, <1>2, EmptySeq

(* The string of a path that has names is longer than a separator.         *)
LEMMA BodyLong ==
  ASSUME NEW path \in Seq(Names), path # <<>>
  PROVE  Body(path) # <<>> /\ Body(path) # <<"/">> /\ Len(Body(path)) >= 2
<1> DEFINE s == Body(Front(path))
           w == Spelling[Last(path)]
<1>1. Front(path) \in Seq(Names) /\ Last(path) \in Names
  BY FrontLast
<1>2. s \in Seq(Tokens) /\ w \in Seq(Tokens) /\ Len(w) \in Nat \ {0} /\ Body(path) = Joined(s, w)
  BY <1>1, BodyStep, SpelledNames
<1> HIDE DEF s, w
<1>3. Len(s) \in Nat /\ Len(Joined(s, w)) = Len(s) + 1 + Len(w)
  BY <1>2, JoinedPoints
<1>4. Len(Body(path)) >= 2
  <2> DEFINE a == Len(s)
             b == Len(w)
             c == Len(Joined(s, w))
  <2>1. a \in Nat /\ b \in Nat \ {0} /\ c = a + 1 + b
    BY <1>2, <1>3
  <2> HIDE DEF a, b, c
  <2>2. c >= 2
    BY <2>1
  <2>3. QED
    BY <1>2, <2>2 DEF c
<1>5. Len(<<>>) = 0 /\ Len(<<"/">>) = 1
  BY EmptySeq
<1> DEFINE x == Body(path)
<1> HIDE DEF x
<1>6. Len(x) >= 2
  BY <1>4 DEF x
<1>7. x # <<>> /\ x # <<"/">>
  <2>1. ASSUME x = <<>>
        PROVE  FALSE
    <3>1. Len(x) = 0
      BY <1>5, <2>1
    <3>2. QED
      BY <1>6, <3>1
  <2>2. ASSUME x = <<"/">>
        PROVE  FALSE
    <3>1. Len(x) = 1
      BY <1>5, <2>2
    <3>2. QED
      BY <1>6, <3>1
  <2>3. QED
    BY <2>1, <2>2
<1>8. QED
  BY <1>6, <1>7 DEF x

(* Different paths have different strings.                                 *)
LEMMA BodyInjective ==
  ASSUME NEW path \in Seq(Names), NEW other \in Seq(Names), Body(path) = Body(other)
  PROVE  path = other
<1> DEFINE T == { m \in Nat : \A p, r \in Seq(Names) : Len(p) = m /\ Body(p) = Body(r) => p = r }
<1>1. 0 \in T
  <2>1. ASSUME NEW p \in Seq(Names), NEW r \in Seq(Names), Len(p) = 0, Body(p) = Body(r)
        PROVE  p = r
    <3>1. p = <<>>
      BY <2>1, EmptySeq
    <3>2. Body(p) = <<>>
      BY <3>1 DEF Body
    <3>3. r = <<>>
      BY <2>1, <3>2, BodyLong
    <3>4. QED
      BY <3>1, <3>3
  <2>2. QED
    BY <2>1
<1>2. ASSUME NEW m \in T
      PROVE  m + 1 \in T
  <2>1. ASSUME NEW p \in Seq(Names), NEW r \in Seq(Names), Len(p) = m + 1, Body(p) = Body(r)
        PROVE  p = r
    <3>1. p # <<>>
      BY <2>1, EmptySeq
    <3>2. r # <<>>
      <4>1. Body(<<>>) = <<>>
        BY DEF Body
      <4>2. QED
        BY <2>1, <3>1, <4>1, BodyLong
    <3>3. /\ Front(p) \in Seq(Names) /\ Last(p) \in Names /\ p = Append(Front(p), Last(p))
          /\ Len(Front(p)) = Len(p) - 1
          /\ Front(r) \in Seq(Names) /\ Last(r) \in Names /\ r = Append(Front(r), Last(r))
      BY <3>1, <3>2, FrontLast
    <3>4. Joined(Body(Front(p)), Spelling[Last(p)]) = Joined(Body(Front(r)), Spelling[Last(r)])
      BY <2>1, <3>1, <3>2, BodyStep
    <3>5. Body(Front(p)) \in Seq(Tokens) /\ Body(Front(r)) \in Seq(Tokens)
      BY <3>3, BodyStep
    <3>6. Body(Front(p)) = Body(Front(r)) /\ Spelling[Last(p)] = Spelling[Last(r)]
      BY <3>3, <3>4, <3>5, SpelledNames, JoinedOnce
    <3>7. Last(p) = Last(r)
      BY <3>3, <3>6, SpelledNames
    <3>8. Len(Front(p)) = m
      BY <2>1, <3>3
    <3>9. Front(p) = Front(r)
      BY <3>3, <3>6, <3>8
    <3>10. QED
      BY <3>3, <3>7, <3>9
  <2>2. QED
    BY <2>1
<1> HIDE DEF T
<1>3. Len(path) \in Nat
  BY LenProperties
<1>4. 0..Len(path) \subseteq T
  BY <1>1, <1>2, <1>3, NumbersUpTo
<1>5. Len(path) \in T
  BY <1>3, <1>4
<1>6. QED
  BY <1>5 DEF T

(* The strings one is under are those of the paths that are its prefixes.  *)
LEMMA UnderBody ==
  ASSUME NEW path \in Seq(Names), NEW u \in Seq(Tokens), u # <<>>
  PROVE  IsUnder(Body(path), u)
           <=> \E q \in Seq(Names) \ {<<>>} : IsPrefix(q, path) /\ u = Body(q)
<1> DEFINE Said(p) == IsUnder(Body(p), u)
                        <=> \E q \in Seq(Names) \ {<<>>} : IsPrefix(q, p) /\ u = Body(q)
           T == { m \in Nat : \A p \in Seq(Names) : Len(p) = m => Said(p) }
<1>1. 0 \in T
  <2>1. ASSUME NEW p \in Seq(Names), Len(p) = 0
        PROVE  Said(p)
    <3>1. p = <<>>
      BY <2>1, EmptySeq
    <3>2. Body(p) = <<>>
      BY <3>1 DEF Body
    <3>3. ~IsUnder(<<>>, u)
      <4>1. Len(u) \in Nat \ {0} /\ Len(<<>>) = 0 /\ <<>> \in Seq(Tokens)
        BY EmptySeq
      <4>2. ~IsPrefix(u, <<>>)
        BY <4>1, PrefixStep
      <4>3. QED
        BY <4>2 DEF IsUnder
    <3>4. \A q \in Seq(Names) \ {<<>>} : ~IsPrefix(q, <<>>)
      BY EmptySeq, PrefixStep
    <3>5. QED
      BY <3>1, <3>2, <3>3, <3>4
  <2>2. QED
    BY <2>1
<1>2. ASSUME NEW m \in T
      PROVE  m + 1 \in T
  <2>1. ASSUME NEW p \in Seq(Names), Len(p) = m + 1
        PROVE  Said(p)
    <3>1. p # <<>>
      BY <2>1, EmptySeq
    <3>2. Front(p) \in Seq(Names) /\ Last(p) \in Names /\ Len(Front(p)) = m
      <4>1. Front(p) \in Seq(Names) /\ Last(p) \in Names /\ Len(Front(p)) = Len(p) - 1
        BY <3>1, FrontLast
      <4>2. QED
        BY <2>1, <4>1
    <3>3. Said(Front(p))
      BY <3>2
    <3>4. Body(p) = Joined(Body(Front(p)), Spelling[Last(p)]) /\ Body(Front(p)) \in Seq(Tokens)
      BY <3>1, <3>2, BodyStep
    <3>5. IsUnder(Body(p), u) <=> u = Body(p) \/ IsUnder(Body(Front(p)), u)
      BY <3>2, <3>4, SpelledNames, UnderJoined
    <3>6. \A q \in Seq(Names) : IsPrefix(q, p) <=> q = p \/ IsPrefix(q, Front(p))
      BY <3>1, PrefixStep
    <3>7. QED
      BY <3>1, <3>3, <3>5, <3>6
  <2>2. QED
    BY <2>1
<1> HIDE DEF T, Said
<1>3. Len(path) \in Nat
  BY LenProperties
<1>4. 0..Len(path) \subseteq T
  BY <1>1, <1>2, <1>3, NumbersUpTo
<1>5. Len(path) \in T
  BY <1>3, <1>4
<1>6. QED
  BY <1>5 DEF T, Said

(* is_under_any_root compares strings, and tells by them what lies below   *)
(* what: a name that begins like another is not mistaken for it.  Only the *)
(* root "/" has nothing under it.                                          *)
THEOREM StringsFollowTree ==
  \A p, r \in Seq(DOMAIN Spelling) :
    IsUnder(Str(p), Str(r)) <=> IF r = <<>> THEN p = <<>> ELSE IsPrefix(r, p)
<1> SUFFICES ASSUME NEW p \in Seq(Names), NEW r \in Seq(Names)
             PROVE  IsUnder(Str(p), Str(r)) <=> IF r = <<>> THEN p = <<>> ELSE IsPrefix(r, p)
  BY DEF Names
<1>1. \A q \in Seq(Names) \ {<<>>} : Str(q) = Body(q) /\ Body(q) \in Seq(Tokens)
  BY BodyStep DEF Body
<1>2. Str(<<>>) = <<"/">> /\ <<"/">> \in Seq(Tokens) /\ Len(<<"/">>) = 1 /\ <<"/">> # <<>>
  <2>1. Str(<<>>) = <<"/">>
    BY DEF Str
  <2>2. "/" \in Tokens
    BY DEF Tokens
  <2>3. <<"/">> \in Seq(Tokens) /\ Len(<<"/">>) = 1
    BY <2>2, LenProperties
  <2>4. <<"/">> # <<>>
    BY <2>3, EmptySeq
  <2>5. QED
    BY <2>1, <2>3, <2>4
<1>3. CASE p # <<>> /\ r # <<>>
  <2>1. Body(r) # <<>>
    BY <1>3, BodyLong
  <2>2. IsUnder(Body(p), Body(r))
          <=> \E q \in Seq(Names) \ {<<>>} : IsPrefix(q, p) /\ Body(r) = Body(q)
    BY <1>1, <1>3, <2>1, UnderBody
  <2>3. QED
    BY <1>1, <1>3, <2>2, BodyInjective
<1>4. CASE p # <<>> /\ r = <<>>
  <2>1. IsUnder(Body(p), <<"/">>)
          <=> \E q \in Seq(Names) \ {<<>>} : IsPrefix(q, p) /\ <<"/">> = Body(q)
    BY <1>2, UnderBody
  <2>2. \A q \in Seq(Names) \ {<<>>} : Body(q) # <<"/">>
    BY BodyLong
  <2>3. QED
    BY <1>1, <1>2, <1>4, <2>1, <2>2
<1>5. CASE p = <<>> /\ r = <<>>
  BY <1>5 DEF IsUnder
<1>6. CASE p = <<>> /\ r # <<>>
  <2>1. Str(r) \in Seq(Tokens) /\ Str(r) # <<"/">> /\ Str(r) # <<>>
    BY <1>1, <1>6, BodyLong
  <2>2. Len(Str(r)) > 1
    <3>1. Len(Body(r)) >= 2 /\ Body(r) \in Seq(Tokens) /\ Str(r) = Body(r)
      BY <1>1, <1>6, BodyLong
    <3>2. Len(Body(r)) \in Nat
      BY <3>1, LenProperties
    <3>3. QED
      BY <3>1, <3>2
  <2>3. ~IsPrefix(Str(r), <<"/">>)
    <3> DEFINE a == Str(r)
               b == <<"/">>
    <3>1. a \in Seq(Tokens) /\ b \in Seq(Tokens) /\ Len(b) = 1 /\ Len(a) > 1 /\ Len(a) \in Nat
      BY <1>2, <2>1, <2>2, LenProperties
    <3> HIDE DEF a, b
    <3>2. IsPrefix(a, b) => Len(a) <= Len(b)
      BY <3>1, PrefixPoints
    <3>3. ~IsPrefix(a, b)
      BY <3>1, <3>2
    <3>4. QED
      BY <3>3 DEF a, b
  <2>4. ~IsPrefix(r, <<>>)
    BY <1>6, EmptySeq, PrefixStep
  <2>5. QED
    BY <1>2, <1>6, <2>1, <2>3, <2>4 DEF IsUnder
<1>7. QED
  BY <1>3, <1>4, <1>5, <1>6

-----------------------------------------------------------------------------
(* The sweep *)

(* What a run records and what its sweep takes away.                       *)
LEMMA FinishTakes ==
  ASSUME EveryPath, TInv, DInv, ScanFinish
  PROVE  \A p \in LivePaths(db) : p \in LivePaths(db') <=> ~(p \in Scope /\ p \notin seen)
<1> DEFINE hashed == { p \in jobs : StatKind(p) = {"file"} }
           next == Written(db, hashed)
<1>1. db' = MarkMissingNotSeen(next, Scope, seen)
  BY DEF ScanFinish
<1>2. hashed \in SUBSET Paths /\ IsFiniteSet(hashed)
  <2>1. hashed \subseteq jobs /\ IsFiniteSet(jobs) /\ jobs \subseteq Paths
    BY DEF DInv, EveryPath, Names
  <2> HIDE DEF hashed
  <2>2. QED
    BY <2>1, FS_Subset
<1> HIDE DEF hashed
<1>3. /\ Typed(next) /\ Consistent(next)
      /\ LivePaths(next) = LivePaths(db) \cup hashed
  BY <1>2, WrittenGood DEF DInv
<1> HIDE DEF next
<1>4. LivePaths(db') = LivePaths(next) \ (Scope \ seen)
  BY <1>1, <1>3, SweepTakes
<1>5. QED
  BY <1>3, <1>4

(* What the strings say lies under the roots.                              *)
LEMMA ScopeFollowsTree ==
  ASSUME EveryPath, Shape, NEW p \in Seq(Names) \ {<<>>}
  PROVE  p \in Scope
           <=> \E r \in Range(opts.roots) : Normalize(r) # <<>> /\ IsPrefix(Normalize(r), p)
<1>1. \A r \in Range(opts.roots) : Normalize(r) \in Seq(Names)
  <2>1. \A r \in Range(opts.roots) : r \in Seq(Words)
    BY ElementOfSeq DEF Shape, Range
  <2>2. QED
    BY <2>1, NormalSteps
<1>2. \A r \in Range(opts.roots) :
        IsUnder(Str(p), Str(Normalize(r))) <=> Normalize(r) # <<>> /\ IsPrefix(Normalize(r), p)
  BY <1>1, StringsFollowTree DEF Names
<1>3. p \in Scope <=> \E r \in Range(opts.roots) : IsUnder(Str(p), Str(Normalize(r)))
  BY DEF Scope, EveryPath, Names, IsUnderAnyRoot, RootStrings
<1>4. QED
  BY <1>2, <1>3

(* What the sweep of a plain run marks missing are the Live paths below a  *)
(* root where no regular file is in the tree: no file that is there, and   *)
(* nothing beside the roots.                                               *)
THEOREM SweepsFollowTree == EveryPath => (Spec => SweepFollowsTree)
<1> DEFINE Follows ==
             ScanFinish /\ Plain(opts) =>
               \A p \in LivePaths(db) :
                 p \notin LivePaths(db') <=>
                   /\ \E r \in Range(opts.roots) :
                        Normalize(r) # <<>> /\ IsPrefix(Normalize(r), p)
                   /\ p \notin FilesBelow({<<>>})
<1>1. ASSUME EveryPath, TInv, DInv
      PROVE  Follows
  <2> SUFFICES ASSUME ScanFinish, Plain(opts), NEW p \in LivePaths(db)
               PROVE  p \notin LivePaths(db') <=>
                        /\ \E r \in Range(opts.roots) :
                             Normalize(r) # <<>> /\ IsPrefix(Normalize(r), p)
                        /\ p \notin FilesBelow({<<>>})
    OBVIOUS
  <2>1. p \in Seq(Names) \ {<<>>} /\ Shape
    BY <1>1 DEF DInv, TInv, WInv
  <2>2. p \notin LivePaths(db') <=> p \in Scope /\ p \notin seen
    BY <1>1, FinishTakes
  <2>3. p \in Scope <=> \E r \in Range(opts.roots) :
                          Normalize(r) # <<>> /\ IsPrefix(Normalize(r), p)
    BY <1>1, <2>1, ScopeFollowsTree
  <2>4. seen = FilesBelow(UNION { Resolve(r) : r \in Range(opts.roots) })
    BY <1>1, CompleteWhenDone DEF WalkIsComplete, ScanFinish, Plain
  <2>5. p \in FilesBelow({<<>>}) <=> p \in Locations /\ fs[p].kind = "file"
    BY <2>1, PrefixStep DEF FilesBelow
  <2>6. ASSUME NEW r \in Range(opts.roots), IsPrefix(Normalize(r), p)
        PROVE  p \in seen <=> p \in FilesBelow({<<>>})
    <3>1. Resolve(r) = {Normalize(r)}
      BY DEF Plain, IsReal
    <3>2. Normalize(r) \in UNION { Resolve(q) : q \in Range(opts.roots) }
      BY <3>1
    <3>3. QED
      BY <2>4, <2>5, <2>6, <3>2 DEF FilesBelow
  <2>7. QED
    BY <2>2, <2>3, <2>6
<1>2. ASSUME EveryPath
      PROVE  Spec => [][Follows]_vars
  <2>1. Spec => []TInv /\ []DInv
    BY <1>2, TInvHolds, DInvHolds
  <2>2. TInv /\ DInv => Follows
    BY <1>1, <1>2
  <2> HIDE DEF Follows
  <2>3. QED
    BY <2>1, <2>2, PTL
<1>3. QED
  BY <1>2 DEF SweepFollowsTree

-----------------------------------------------------------------------------
(* Deleting *)

(* No name has the character that path filters take for a separator too.   *)
NoBackslash == \A c \in Names : "\\" \notin Range(Spelling[c])

(* The string of a path with names does not end with a separator, and has  *)
(* no backslash.                                                           *)
LEMMA BodyEnds ==
  ASSUME NEW path \in Seq(Names), path # <<>>
  PROVE  /\ Body(path) \in Seq(Tokens)
         /\ Last(Body(path)) # "/"
<1> DEFINE s == Body(Front(path))
           w == Spelling[Last(path)]
           x == Body(path)
<1>1. Front(path) \in Seq(Names) /\ Last(path) \in Names
  BY FrontLast
<1>2. /\ s \in Seq(Tokens) /\ w \in Seq(Tokens) /\ Len(w) \in Nat \ {0} /\ x = Joined(s, w)
      /\ "/" \notin Range(w)
  BY <1>1, BodyStep, SpelledNames
<1> HIDE DEF s, w, x
<1>3. /\ x \in Seq(Tokens) /\ Len(s) \in Nat /\ Len(x) = Len(s) + 1 + Len(w)
      /\ x[Len(s) + 1 + Len(w)] = w[Len(w)]
  <2>1. /\ Joined(s, w) \in Seq(Tokens) /\ Len(s) \in Nat
        /\ Len(Joined(s, w)) = Len(s) + 1 + Len(w)
        /\ \A i \in 1..Len(w) : Joined(s, w)[Len(s) + 1 + i] = w[i]
    BY <1>2, JoinedPoints
  <2>2. Len(w) \in 1..Len(w)
    BY <1>2
  <2>3. QED
    BY <1>2, <2>1, <2>2
<1>4. w[Len(w)] \in Range(w)
  BY <1>2, LenProperties DEF Range
<1>5. Last(x) # "/"
  BY <1>2, <1>3, <1>4 DEF Last
<1>6. QED
  BY <1>3, <1>5 DEF x

(* What a filter matches lies below it in the tree.                        *)
LEMMA FilterFollowsTree ==
  ASSUME NoBackslash, NEW p \in Seq(Names) \ {<<>>}, NEW r \in Seq(Words),
         StartsWithPathPrefix(Str(p), FilterPrefix(r))
  PROVE  IsPrefix(Normalize(r), p)
<1> DEFINE q == Normalize(r)
<1>1. q \in Seq(Names)
  BY NormalSteps
<1> HIDE DEF q
<1>2. CASE q = <<>>
  BY <1>2, PrefixStep DEF q
<1>3. CASE q # <<>>
  <2>1. /\ Str(q) = Body(q) /\ Body(q) \in Seq(Tokens) /\ Last(Body(q)) # "/"
        /\ Str(p) = Body(p) /\ Body(p) \in Seq(Tokens)
    BY <1>1, <1>3, BodyEnds DEF Body
  <2>2. FilterPrefix(r) = Str(q)
    BY <2>1 DEF FilterPrefix, q
  <2>3. "\\" \notin Tokens
    BY DEF NoBackslash, Tokens, Names
  <2> DEFINE s == Str(p)
             u == Str(q)
  <2>4. s \in Seq(Tokens) /\ u \in Seq(Tokens) /\ Len(s) \in Nat /\ Len(u) \in Nat
    BY <2>1, LenProperties
  <2>5. StartsWithPathPrefix(s, u)
    BY <2>2
  <2> HIDE DEF s, u
  <2>6. "\\" \notin After(s, u)
    <3>1. ASSUME Len(s) > Len(u)
          PROVE  s[Len(u) + 1] \in Tokens
      BY <2>4, <3>1, ElementOfSeq
    <3>2. QED
      BY <2>3, <3>1 DEF After
  <2>7. IsUnder(s, u)
    BY <2>5, <2>6 DEF StartsWithPathPrefix, IsUnder
  <2>8. IsUnder(Str(p), Str(q))
    BY <2>7 DEF s, u
  <2>9. IsPrefix(q, p)
    BY <1>1, <1>3, <2>8, StringsFollowTree DEF Names
  <2>10. QED
    BY <2>9 DEF q
<1>4. QED
  BY <1>2, <1>3

(* A path that goes through no link is at the place it names.              *)
LEMMA UnlinkedPath ==
  ASSUME NEW p \in Seq(Names), ~ThroughLink(p), NEW l \in Unfollowed(p)
  PROVE  l = p
<1> DEFINE n == Len(p)
           q(m) == SubSeq(p, 1, m)
           T == { m \in 0..(n - 1) : Resolve(q(m)) \subseteq {q(m)} }
<1>1. Names \subseteq Words /\ Names \cap {".", ".."} = {}
  BY WalkAssumption DEF Names, Words
<1>2. n \in Nat /\ DOMAIN p = 1..n /\ \A i \in 1..n : p[i] \in Names
  BY LenProperties, ElementOfSeq
<1>3. ASSUME NEW m \in 0..n
      PROVE  /\ q(m) \in Seq(Names) /\ q(m) \in Seq(Words) /\ Len(q(m)) = m
             /\ \A i \in 1..m : q(m)[i] = p[i]
  <2>1. m \in Nat /\ 1 \in Int /\ m \in Int /\ \A i \in 1..m : p[i] \in Names /\ p[i] \in Words
    BY <1>1, <1>2, <1>3
  <2>2. /\ q(m) \in Seq(Names) /\ q(m) \in Seq(Words)
        /\ Len(q(m)) = IF 1 <= m THEN m - 1 + 1 ELSE 0
        /\ \A i \in 1..(m - 1 + 1) : q(m)[i] = p[1 + i - 1]
    BY <2>1, SubSeqProperties
  <2> HIDE DEF q
  <2>3. QED
    BY <2>1, <2>2
<1>4. ASSUME NEW m \in 0..(n - 1)
      PROVE  /\ q(m + 1) # <<>> /\ Front(q(m + 1)) = q(m) /\ Last(q(m + 1)) = p[m + 1]
             /\ q(m + 1) = Append(q(m), p[m + 1])
  <2> DEFINE a == q(m)
             b == q(m + 1)
             e == p[m + 1]
  <2>1. /\ m \in 0..n /\ m + 1 \in 0..n /\ m + 1 \in 1..n /\ m \in Nat
    BY <1>2, <1>4
  <2>2. /\ a \in Seq(Names) /\ Len(a) = m /\ \A i \in 1..m : a[i] = p[i]
        /\ b \in Seq(Names) /\ Len(b) = m + 1 /\ \A i \in 1..(m + 1) : b[i] = p[i]
        /\ e \in Names
    BY <1>2, <1>3, <2>1
  <2> HIDE DEF a, b, e, q
  <2>3. /\ Append(a, e) \in Seq(Names) /\ Len(Append(a, e)) = m + 1
        /\ \A i \in 1..m : Append(a, e)[i] = a[i]
        /\ Append(a, e)[m + 1] = e
    BY <2>1, <2>2, AppendProperties
  <2>4. b[m + 1] = e
    BY <2>1, <2>2 DEF e
  <2>5. b = Append(a, e)
    <3>1. \A i \in 1..(m + 1) : b[i] = Append(a, e)[i]
      BY <2>1, <2>2, <2>3, <2>4
    <3>2. QED
      BY <2>2, <2>3, <3>1, SeqEqual
  <2>6. b # <<>> /\ Front(b) = a /\ Last(b) = e
    BY <2>2, <2>5, FrontAppend
  <2>7. QED
    BY <2>5, <2>6 DEF a, b, e
<1> HIDE DEF q
<1>5. ASSUME NEW m \in 0..(n - 1), m \in T
      PROVE  Unfollowed(q(m + 1)) \subseteq {q(m + 1)}
  <2>1. p[m + 1] \notin {".", ".."}
    BY <1>1, <1>2, <1>5
  <2>2. Unfollowed(q(m + 1)) = { k \in { Append(at, p[m + 1]) : at \in Resolve(q(m)) } : Present(k) }
    BY <1>4, <2>1 DEF Unfollowed
  <2>3. QED
    BY <1>4, <1>5, <2>2 DEF T
<1>6. ASSUME NEW m \in T, m \in 0..((n - 1) - 1)
      PROVE  m + 1 \in T
  <2>1. m \in 0..(n - 1) /\ m + 1 \in 0..(n - 1) /\ m + 1 \in 1..(n - 1) /\ m + 1 \in 0..n
    BY <1>2, <1>6
  <2> DEFINE b == q(m + 1)
             c == p[m + 1]
  <2>2. b \in Seq(Words) /\ b # <<>> /\ Front(b) = q(m) /\ Last(b) = c /\ b = Append(q(m), c)
    BY <1>3, <1>4, <2>1
  <2>3. c \notin {".", ".."}
    BY <1>1, <1>2, <2>1
  <2>4. Resolve(q(m)) \subseteq {q(m)}
    BY DEF T
  <2> HIDE DEF b, c
  <2>5. Resolve(b) = Onward(Resolve(q(m)), c)
    BY <2>2, LastStep
  <2>6. Step(q(m), c) \subseteq Through(b)
    BY <2>2, <2>3 DEF Step
  <2>7. Resolve(b) # {} => Resolve(q(m)) = {q(m)} /\ Through(b) # {}
    BY <2>4, <2>5, <2>6 DEF Onward
  <2>8. Unfollowed(b) = { k \in { Append(at, c) : at \in Resolve(q(m)) } : Present(k) }
    BY <2>2, <2>3 DEF Unfollowed
  <2>9. Through(b) # {} => Present(b)
    BY DEF Through
  <2>10. Resolve(b) # {} => fs[b].kind # "link"
    <3>1. ASSUME Resolve(b) # {}
          PROVE  b \in Unfollowed(b)
      BY <2>2, <2>7, <2>8, <2>9, <3>1
    <3>2. ASSUME b \in Unfollowed(b)
          PROVE  fs[b].kind # "link"
      BY <2>1, <3>2 DEF ThroughLink, b, q
    <3>3. QED
      BY <3>1, <3>2
  <2>11. Resolve(b) \subseteq {b}
    BY <2>4, <2>5, <2>6, <2>10 DEF Onward, Through
  <2>12. QED
    BY <2>1, <2>11 DEF T, b
<1>7. CASE p = <<>>
  BY <1>7, RootLeads DEF Unfollowed
<1>8. CASE p # <<>>
  <2>1. n \in Nat \ {0} /\ n - 1 \in Nat
    BY <1>2, <1>8, EmptySeq
  <2>2. 0 \in T
    <3>1. q(0) = <<>>
      BY <1>2, <1>3, EmptySeq
    <3>2. QED
      BY <2>1, <3>1, RootLeads DEF T
  <2>3. n - 1 \in T
    <3> HIDE DEF T
    <3> DEFINE k == n - 1
    <3>1. k \in Nat /\ \A m \in T : m \in 0..(k - 1) => m + 1 \in T
      BY <1>6, <2>1
    <3> HIDE DEF k
    <3>2. 0..k \subseteq T
      BY <2>2, <3>1, NumbersUpTo
    <3>3. QED
      BY <3>1, <3>2 DEF k
  <2>4. Unfollowed(q(n)) \subseteq {q(n)}
    <3>1. (n - 1) + 1 = n /\ n - 1 \in 0..(n - 1)
      BY <2>1
    <3>2. QED
      BY <1>5, <2>3, <3>1
  <2>5. q(n) = p
    BY SubSeqFull DEF q
  <2>6. QED
    BY <2>4, <2>5
<1>9. QED
  BY <1>7, <1>8

(* A run removes the files its plan names, and the plan names versions     *)
(* whose paths the filter matches.                                         *)
LEMMA RunRemoves ==
  ASSUME DInv, NEW policy, NEW under, DeleteRun(policy, under),
         NEW l \in Locations, fs'[l] # fs[l]
  PROVE  \E p \in LivePaths(db) \cap Selected(under) : l \in Unfollowed(p)
<1>1. PICK group \in DupeGroups(db, Selected(under)) :
        LET plan == ByPath(db, ToDelete(db, policy, Selected(under), group))
            paths == [i \in DOMAIN plan |-> PathOf(db, plan[i])]
            failing == { i \in DOMAIN plan : RemoveFileFails(paths, i) }
            done == { plan[i] : i \in { j \in DOMAIN plan : \A k \in failing : j < k } }
        IN  fs' = Removed({ PathOf(db, f) : f \in done })
  BY Zenon DEF DeleteRun
<1> DEFINE named == ToDelete(db, policy, Selected(under), group)
           plan == ByPath(db, named)
           paths == [i \in DOMAIN plan |-> PathOf(db, plan[i])]
           failing == { i \in DOMAIN plan : RemoveFileFails(paths, i) }
           done == { plan[i] : i \in { j \in DOMAIN plan : \A k \in failing : j < k } }
<1>2. fs' = Removed({ PathOf(db, f) : f \in done })
  BY <1>1
<1>3. done \subseteq Range(plan)
  BY DEF Range
<1> HIDE DEF done, failing, paths
<1>4. /\ group \subseteq LiveIn(db) /\ IsFiniteSet(group)
      /\ \A f \in LiveIn(db) : f \in DOMAIN db.file_state /\ PathOf(db, f) \in Paths
      /\ \A f \in LiveIn(db) : PathOf(db, f) \in LivePaths(db)
  <2>1. PICK h \in Hashes : group = LiveEntries(db, h)
    BY DEF DupeGroups
  <2>2. IsFiniteSet(LiveIn(db)) /\ group \subseteq LiveIn(db)
    BY <2>1, LiveVersions DEF DInv
  <2>3. \A f \in LiveIn(db) : f \in DOMAIN db.file_state /\ PathOf(db, f) \in Paths
    BY LiveVersions DEF DInv, LiveIn
  <2>4. \A f \in LiveIn(db) : PathOf(db, f) \in LivePaths(db)
    BY <2>3 DEF LiveIn, LivePaths
  <2>5. QED
    BY <2>2, <2>3, <2>4, FS_Subset
<1>5. named \subseteq { f \in group : PathOf(db, f) \in Selected(under) }
  BY DEF ToDelete
<1> HIDE DEF named
<1>6. Range(plan) = named
  <2> DEFINE rank == [f \in named |-> PathRank[PathOf(db, f)]]
  <2>1. named \subseteq group
    BY <1>5
  <2>2. IsFiniteSet(named)
    BY <1>4, <2>1, FS_Subset
  <2>3. \A f \in named : rank[f] \in Nat
    <3>1. \A f \in named : PathOf(db, f) \in Paths
      BY <1>4, <2>1
    <3>2. QED
      BY <3>1, DupePlanAssumption
  <2>4. plan = Sorted(named, rank)
    BY DEF ByPath
  <2> HIDE DEF rank, plan
  <2>5. QED
    BY <2>2, <2>3, <2>4, SortedSet
<1> HIDE DEF plan
<1>7. \E f \in done : l \in Unfollowed(PathOf(db, f))
  BY <1>2 DEF Removed
<1>8. QED
  BY <1>3, <1>4, <1>5, <1>6, <1>7

(* What a delete run given directories removes is where a Live path below  *)
(* one of them leads, and lies outside of them only if that path goes      *)
(* through a link: a sibling whose name begins like a directory's is safe. *)
(* Names with a backslash are excepted, which filters take for separators. *)
THEOREM DeletesStayInside == EveryPath /\ NoBackslash => (Spec => DeleteStaysInside)
<1> DEFINE Inside(l, under) ==
             \E r \in under, p \in LivePaths(db) :
               /\ IsPrefix(Normalize(r), p)
               /\ l \in Unfollowed(p)
               /\ l = p \/ ThroughLink(p)
           Stays == \A l \in Locations : fs'[l] # fs[l] =>
                      \A policy \in Policies, under \in PathFilters \ {{}} :
                        DeleteRun(policy, under) => Inside(l, under)
<1>1. ASSUME NoBackslash, DInv
      PROVE  Stays
  <2> SUFFICES ASSUME NEW l \in Locations, fs'[l] # fs[l],
                      NEW policy \in Policies, NEW under \in PathFilters \ {{}},
                      DeleteRun(policy, under)
               PROVE  Inside(l, under)
    OBVIOUS
  <2>1. PICK p \in LivePaths(db) \cap Selected(under) : l \in Unfollowed(p)
    BY <1>1, RunRemoves
  <2>2. p \in Seq(Names) \ {<<>>}
    BY <1>1 DEF DInv
  <2>3. under \subseteq Seq(Words) /\ under # {}
    BY WalkAssumption
  <2>4. PICK r \in under : StartsWithPathPrefix(Str(p), FilterPrefix(r))
    BY <2>1, <2>3 DEF Selected, Matches
  <2>5. IsPrefix(Normalize(r), p)
    BY <1>1, <2>2, <2>3, <2>4, FilterFollowsTree
  <2>6. l = p \/ ThroughLink(p)
    BY <2>1, <2>2, UnlinkedPath
  <2>7. QED
    BY <2>1, <2>5, <2>6
<1>2. ASSUME EveryPath, NoBackslash
      PROVE  Spec => [][Stays]_vars
  <2>1. Spec => []DInv
    BY <1>2, DInvHolds
  <2>2. DInv => Stays
    BY <1>1, <1>2
  <2> HIDE DEF Stays
  <2>3. QED
    BY <2>1, <2>2, PTL
<1>3. QED
  BY <1>2 DEF DeleteStaysInside
=============================================================================
