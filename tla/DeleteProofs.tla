---------------------------- MODULE DeleteProofs ----------------------------
(***************************************************************************)
(* Theorems about delete runs from any consistent tables and any disk, for *)
(* any paths, contents, filters and policies, and the lemmas on operators  *)
(* and steps that LifecycleProofs needs of them as well.                   *)
(***************************************************************************)
EXTENDS Delete, TableLemmas

-----------------------------------------------------------------------------
(* The kept version *)

(* A strict total order has a least element on every finite set that is    *)
(* not empty: the one with the fewest below it.                            *)
LEMMA LeastElement ==
  ASSUME NEW S, IsFiniteSet(S), S # {}, NEW R,
         \A x, y, z \in S : <<x, y>> \in R /\ <<y, z>> \in R => <<x, z>> \in R,
         \A x \in S : <<x, x>> \notin R,
         \A x, y \in S : x # y => <<x, y>> \in R \/ <<y, x>> \in R
  PROVE  \E x \in S : \A y \in S \ {x} : <<x, y>> \in R
<1> DEFINE Below(x) == { y \in S : <<y, x>> \in R }
           rank == [x \in S |-> Cardinality(S) - Cardinality(Below(x))]
<1>1. ASSUME NEW x \in S
      PROVE  /\ IsFiniteSet(Below(x))
             /\ Cardinality(Below(x)) \in Nat
             /\ Cardinality(S) \in Nat
             /\ Cardinality(Below(x)) <= Cardinality(S)
  BY FS_Subset, FS_CardinalityType
<1>2. \A x \in S : rank[x] \in Nat
  <2> HIDE DEF Below
  <2>1. QED
    BY <1>1
<1>3. PICK x \in S : \A y \in S : rank[y] <= rank[x]
  <2> HIDE DEF rank
  <2>1. QED
    BY <1>2, HighestRank
<1>4. ASSUME NEW y \in S, y # x, <<y, x>> \in R
      PROVE  FALSE
  <2>1. Below(y) \subseteq Below(x) /\ y \in Below(x) /\ y \notin Below(y)
    BY <1>4
  <2>2. /\ Cardinality(Below(y)) <= Cardinality(Below(x))
        /\ Cardinality(Below(y)) # Cardinality(Below(x))
    BY <1>1, <2>1, FS_Subset
  <2> HIDE DEF Below
  <2>3. Cardinality(S) - Cardinality(Below(y)) <= Cardinality(S) - Cardinality(Below(x))
    BY <1>3
  <2>4. QED
    BY <1>1, <2>2, <2>3
<1>5. QED
  BY <1>4

(* The order of keys is a strict total order. *)
LEMMA TupleLessOrder ==
  ASSUME NEW n \in Nat, NEW a \in [1..n -> Int], NEW b \in [1..n -> Int]
  PROVE  /\ ~TupleLess(a, a)
         /\ a # b => TupleLess(a, b) \/ TupleLess(b, a)
         /\ \A c \in [1..n -> Int] : TupleLess(a, b) /\ TupleLess(b, c) => TupleLess(a, c)
<1>1. ~TupleLess(a, a)
  BY DEF TupleLess
<1>2. ASSUME a # b
      PROVE  TupleLess(a, b) \/ TupleLess(b, a)
  <2> DEFINE D == { i \in 1..n : a[i] # b[i] }
  <2>1. D \in SUBSET Nat /\ D # {}
    BY <1>2
  <2>2. PICK i \in D : \A j \in D : i <= j
    <3> HIDE DEF D
    <3>1. QED
      BY <2>1, LeastNumber
  <2>3. \A j \in 1..(i - 1) : a[j] = b[j] /\ b[j] = a[j]
    <3> SUFFICES ASSUME NEW j \in 1..(i - 1)
                 PROVE  a[j] = b[j]
      OBVIOUS
    <3>1. j \in 1..n /\ ~(i <= j)
      BY <2>1
    <3>2. QED
      BY <2>2, <3>1
  <2>4. a[i] < b[i] \/ b[i] < a[i]
    OBVIOUS
  <2>5. QED
    BY <2>3, <2>4 DEF TupleLess
<1>3. ASSUME NEW c \in [1..n -> Int], TupleLess(a, b), TupleLess(b, c)
      PROVE  TupleLess(a, c)
  <2>1. PICK i \in 1..n : a[i] < b[i] /\ \A j \in 1..(i - 1) : a[j] = b[j]
    BY <1>3 DEF TupleLess
  <2>2. PICK k \in 1..n : b[k] < c[k] /\ \A j \in 1..(k - 1) : b[j] = c[j]
    BY <1>3 DEF TupleLess
  <2>3. CASE i < k
    <3>1. i \in 1..(k - 1) /\ \A j \in 1..(i - 1) : j \in 1..(k - 1)
      BY <2>3
    <3>2. QED
      BY <2>1, <2>2, <3>1 DEF TupleLess
  <2>4. CASE k < i
    <3>1. k \in 1..(i - 1) /\ \A j \in 1..(k - 1) : j \in 1..(i - 1)
      BY <2>4
    <3>2. QED
      BY <2>1, <2>2, <3>1 DEF TupleLess
  <2>5. CASE i = k
    <3>1. a[i] < c[i]
      BY <2>1, <2>2, <2>5
    <3>2. QED
      BY <2>1, <2>2, <2>5, <3>1 DEF TupleLess
  <2>6. QED
    BY <2>3, <2>4, <2>5
<1>4. QED
  BY <1>1, <1>2, <1>3

(* A set with a key of its own for each element has one of least key. *)
LEMMA LeastKey ==
  ASSUME NEW S, IsFiniteSet(S), S # {}, NEW n \in Nat, NEW key \in [S -> [1..n -> Int]],
         \A x, y \in S : key[x] = key[y] => x = y
  PROVE  \E x \in S : \A y \in S \ {x} : TupleLess(key[x], key[y])
<1> DEFINE R == { p \in S \X S : TupleLess(key[p[1]], key[p[2]]) }
<1>1. \A x, y \in S : <<x, y>> \in R <=> TupleLess(key[x], key[y])
  OBVIOUS
<1> HIDE DEF R
<1>2. \A x, y, z \in S : <<x, y>> \in R /\ <<y, z>> \in R => <<x, z>> \in R
  BY <1>1, TupleLessOrder
<1>3. \A x \in S : <<x, x>> \notin R
  BY <1>1, TupleLessOrder
<1>4. \A x, y \in S : x # y => <<x, y>> \in R \/ <<y, x>> \in R
  BY <1>1, TupleLessOrder
<1>5. PICK x \in S : \A y \in S \ {x} : <<x, y>> \in R
  BY <1>2, <1>3, <1>4, LeastElement
<1>6. QED
  BY <1>1, <1>5

(* Keys are tuples of one length, and tell paths apart. *)
LEMMA KeysTellPaths ==
  ASSUME NEW policy \in AllPolicies
  PROVE  \E n \in Nat :
           \A t, u \in Nat, p, q \in Paths :
             /\ KeeperKey(policy, t, p) \in [1..n -> Int]
             /\ KeeperKey(policy, t, p) = KeeperKey(policy, u, q) => p = q
<1> DEFINE Fits(n, t, u, p, q) ==
             /\ KeeperKey(policy, t, p) \in [1..n -> Int]
             /\ KeeperKey(policy, t, p) = KeeperKey(policy, u, q) => p = q
<1>1. /\ \A p \in Paths : PathRank[p] \in Int /\ PathLen[p] \in Int
      /\ \A p, q \in Paths : PathRank[p] = PathRank[q] => p = q
      /\ \A p \in Paths : -PathRank[p] \in Int /\ -PathLen[p] \in Int
  BY DupePlanAssumption
<1>2. \A p, q \in Paths : -PathRank[p] = -PathRank[q] => p = q
  <2>1. \A a, b \in Int : -a = -b => a = b
    OBVIOUS
  <2>2. QED
    BY <1>1, <2>1
<1>3. /\ \A a \in Int : <<a>> \in [1..1 -> Int]
      /\ \A a, b \in Int : <<a, b>> \in [1..2 -> Int]
      /\ \A a, b, c \in Int : <<a, b, c>> \in [1..3 -> Int]
  OBVIOUS
<1>4. CASE policy = "Oldest"
  <2>1. \A t, p : KeeperKey(policy, t, p) = <<IF t = 0 THEN 1 ELSE 0, t, PathRank[p]>>
    BY <1>4 DEF KeeperKey, OldestKey
  <2>2. ASSUME NEW t \in Nat, NEW u \in Nat, NEW p \in Paths, NEW q \in Paths
        PROVE  Fits(3, t, u, p, q)
    <3>1. KeeperKey(policy, t, p) \in [1..3 -> Int]
      BY <1>1, <1>3, <2>1
    <3>2. ASSUME KeeperKey(policy, t, p) = KeeperKey(policy, u, q)
          PROVE  p = q
      BY <1>1, <1>2, <2>1, <3>2
    <3>3. QED
      BY <3>1, <3>2
  <2> HIDE DEF Fits
  <2>3. \E n \in Nat : \A t, u \in Nat, p, q \in Paths : Fits(n, t, u, p, q)
    BY <2>2
  <2>4. QED
    BY <2>3 DEF Fits
<1>5. CASE policy = "Newest"
  <2>1. \A t, p : KeeperKey(policy, t, p) = <<IF t = 0 THEN 1 ELSE 0, -t, PathRank[p]>>
    BY <1>5 DEF KeeperKey, OldestKey
  <2>2. ASSUME NEW t \in Nat, NEW u \in Nat, NEW p \in Paths, NEW q \in Paths
        PROVE  Fits(3, t, u, p, q)
    <3>1. KeeperKey(policy, t, p) \in [1..3 -> Int]
      BY <1>1, <1>3, <2>1
    <3>2. ASSUME KeeperKey(policy, t, p) = KeeperKey(policy, u, q)
          PROVE  p = q
      BY <1>1, <1>2, <2>1, <3>2
    <3>3. QED
      BY <3>1, <3>2
  <2> HIDE DEF Fits
  <2>3. \E n \in Nat : \A t, u \in Nat, p, q \in Paths : Fits(n, t, u, p, q)
    BY <2>2
  <2>4. QED
    BY <2>3 DEF Fits
<1>6. CASE policy = "ShortestPath"
  <2>1. \A t, p : KeeperKey(policy, t, p) = <<PathLen[p], PathRank[p]>>
    BY <1>6 DEF KeeperKey, OldestKey
  <2>2. ASSUME NEW t \in Nat, NEW u \in Nat, NEW p \in Paths, NEW q \in Paths
        PROVE  Fits(2, t, u, p, q)
    <3>1. KeeperKey(policy, t, p) \in [1..2 -> Int]
      BY <1>1, <1>3, <2>1
    <3>2. ASSUME KeeperKey(policy, t, p) = KeeperKey(policy, u, q)
          PROVE  p = q
      BY <1>1, <1>2, <2>1, <3>2
    <3>3. QED
      BY <3>1, <3>2
  <2> HIDE DEF Fits
  <2>3. \E n \in Nat : \A t, u \in Nat, p, q \in Paths : Fits(n, t, u, p, q)
    BY <2>2
  <2>4. QED
    BY <2>3 DEF Fits
<1>7. CASE policy = "LongestPath"
  <2>1. \A t, p : KeeperKey(policy, t, p) = <<-PathLen[p], PathRank[p]>>
    BY <1>7 DEF KeeperKey, OldestKey
  <2>2. ASSUME NEW t \in Nat, NEW u \in Nat, NEW p \in Paths, NEW q \in Paths
        PROVE  Fits(2, t, u, p, q)
    <3>1. KeeperKey(policy, t, p) \in [1..2 -> Int]
      BY <1>1, <1>3, <2>1
    <3>2. ASSUME KeeperKey(policy, t, p) = KeeperKey(policy, u, q)
          PROVE  p = q
      BY <1>1, <1>2, <2>1, <3>2
    <3>3. QED
      BY <3>1, <3>2
  <2> HIDE DEF Fits
  <2>3. \E n \in Nat : \A t, u \in Nat, p, q \in Paths : Fits(n, t, u, p, q)
    BY <2>2
  <2>4. QED
    BY <2>3 DEF Fits
<1>8. CASE policy = "AlphaFirst"
  <2>1. \A t, p : KeeperKey(policy, t, p) = <<PathRank[p]>>
    BY <1>8 DEF KeeperKey, OldestKey
  <2>2. ASSUME NEW t \in Nat, NEW u \in Nat, NEW p \in Paths, NEW q \in Paths
        PROVE  Fits(1, t, u, p, q)
    <3>1. KeeperKey(policy, t, p) \in [1..1 -> Int]
      BY <1>1, <1>3, <2>1
    <3>2. ASSUME KeeperKey(policy, t, p) = KeeperKey(policy, u, q)
          PROVE  p = q
      BY <1>1, <1>2, <2>1, <3>2
    <3>3. QED
      BY <3>1, <3>2
  <2> HIDE DEF Fits
  <2>3. \E n \in Nat : \A t, u \in Nat, p, q \in Paths : Fits(n, t, u, p, q)
    BY <2>2
  <2>4. QED
    BY <2>3 DEF Fits
<1>9. CASE policy = "AlphaLast"
  <2>1. \A t, p : KeeperKey(policy, t, p) = <<-PathRank[p]>>
    BY <1>9 DEF KeeperKey, OldestKey
  <2>2. ASSUME NEW t \in Nat, NEW u \in Nat, NEW p \in Paths, NEW q \in Paths
        PROVE  Fits(1, t, u, p, q)
    <3>1. KeeperKey(policy, t, p) \in [1..1 -> Int]
      BY <1>1, <1>3, <2>1
    <3>2. ASSUME KeeperKey(policy, t, p) = KeeperKey(policy, u, q)
          PROVE  p = q
      BY <1>1, <1>2, <2>1, <3>2
    <3>3. QED
      BY <3>1, <3>2
  <2> HIDE DEF Fits
  <2>3. \E n \in Nat : \A t, u \in Nat, p, q \in Paths : Fits(n, t, u, p, q)
    BY <2>2
  <2>4. QED
    BY <2>3 DEF Fits
<1>10. QED
  BY <1>4, <1>5, <1>6, <1>7, <1>8, <1>9 DEF AllPolicies

-----------------------------------------------------------------------------
(* The kept version of a group of current versions is one of them, and no  *)
(* other comes before it.                                                  *)
LEMMA KeeperIsMember ==
  ASSUME NEW d, Typed(d), Consistent(d), NEW policy \in AllPolicies,
         NEW group \in SUBSET CurrentIn(d), group # {}
  PROVE  LET key(f) == KeeperKey(policy, d.file_meta[f].mtime_secs, PathOf(d, f))
             keeper == ChooseKeeper(d, policy, group)
         IN  /\ keeper \in group
             /\ \A g \in group \ {keeper} : TupleLess(key(keeper), key(g))
             /\ \A f \in group :
                  (\A g \in group \ {f} : TupleLess(key(f), key(g))) => f = keeper
<1> DEFINE key(f) == KeeperKey(policy, d.file_meta[f].mtime_secs, PathOf(d, f))
           k == [f \in group |-> key(f)]
<1>1. /\ IsFiniteSet(group)
      /\ \A f \in group : d.file_meta[f].mtime_secs \in Nat /\ PathOf(d, f) \in Paths
      /\ \A f, g \in group : PathOf(d, f) = PathOf(d, g) => f = g
  BY LiveVersions, FS_Subset, MetasAssumption DEF CurrentIn
<1>2. PICK n \in Nat :
        \A t, u \in Nat, p, q \in Paths :
          /\ KeeperKey(policy, t, p) \in [1..n -> Int]
          /\ KeeperKey(policy, t, p) = KeeperKey(policy, u, q) => p = q
  BY KeysTellPaths
<1>3. /\ \A f \in group : key(f) \in [1..n -> Int]
      /\ \A f, g \in group : key(f) = key(g) => f = g
  BY <1>1, <1>2
<1>4. \E f \in group : \A g \in group \ {f} : TupleLess(key(f), key(g))
  <2> HIDE DEF key
  <2>1. k \in [group -> [1..n -> Int]] /\ \A f \in group : k[f] = key(f)
    BY <1>3
  <2>2. \A f, g \in group : k[f] = k[g] => f = g
    BY <1>3, <2>1
  <2> HIDE DEF k
  <2>3. \E f \in group : \A g \in group \ {f} : TupleLess(k[f], k[g])
    BY <1>1, <2>1, <2>2, LeastKey
  <2>4. QED
    BY <2>1, <2>3
<1> DEFINE keeper == ChooseKeeper(d, policy, group)
<1>5. keeper \in group /\ \A g \in group \ {keeper} : TupleLess(key(keeper), key(g))
  BY <1>4 DEF ChooseKeeper
<1> HIDE DEF keeper, key
<1>6. ASSUME NEW f \in group, \A g \in group \ {f} : TupleLess(key(f), key(g)), f # keeper
      PROVE  FALSE
  <2>1. TupleLess(key(f), key(keeper)) /\ TupleLess(key(keeper), key(f))
    BY <1>5, <1>6
  <2>2. QED
    BY <1>3, <1>5, <2>1, TupleLessOrder
<1>7. QED
  BY <1>5, <1>6 DEF keeper, key

(* So of a group that is not empty at least one version stays. *)
LEMMA OneStays ==
  ASSUME NEW d, Typed(d), Consistent(d), NEW policy \in AllPolicies, NEW flt,
         NEW group \in SUBSET LiveIn(d), group # {}
  PROVE  \E k \in group : k \notin ToDelete(d, policy, flt, group)
<1> DEFINE selected == { f \in group : PathOf(d, f) \in flt }
<1>1. CASE selected = group
  <2>1. ChooseKeeper(d, policy, group) \in group
    BY KeeperIsMember, LiveVersions
  <2>2. QED
    BY <1>1, <2>1 DEF ToDelete
<1>2. CASE selected # group
  BY <1>2 DEF ToDelete
<1>3. QED
  BY <1>1, <1>2

(* The header of a group has a place in the order of paths. *)
LEMMA HeaderHasRank ==
  ASSUME NEW d, Typed(d), Consistent(d), NEW group \in SUBSET LiveIn(d), group # {}
  PROVE  HeaderRank(d, group) \in Nat
<1> DEFINE key(f) == <<PathLen[PathOf(d, f)], PathRank[PathOf(d, f)]>>
           k == [f \in group |-> key(f)]
<1>1. /\ IsFiniteSet(group)
      /\ \A f \in group : PathOf(d, f) \in Paths
      /\ \A f, g \in group : PathOf(d, f) = PathOf(d, g) => f = g
  BY LiveVersions, FS_Subset DEF LiveIn
<1>2. /\ \A f \in group : key(f) \in [1..2 -> Int]
      /\ \A f, g \in group : key(f) = key(g) => f = g
  <2>1. \A f \in group : PathLen[PathOf(d, f)] \in Int /\ PathRank[PathOf(d, f)] \in Int
    BY <1>1, DupePlanAssumption
  <2>2. \A a, b \in Int : <<a, b>> \in [1..2 -> Int]
    OBVIOUS
  <2>3. \A f \in group : key(f) \in [1..2 -> Int]
    BY <2>1, <2>2
  <2>4. ASSUME NEW f \in group, NEW g \in group, key(f) = key(g)
        PROVE  f = g
    <3>1. PathRank[PathOf(d, f)] = PathRank[PathOf(d, g)]
      BY <2>4
    <3>2. QED
      BY <1>1, <3>1, DupePlanAssumption
  <2> HIDE DEF key
  <2>5. QED
    BY <2>3, <2>4
<1>3. \E f \in group : \A g \in group \ {f} : TupleLess(key(f), key(g))
  <2> HIDE DEF key
  <2>1. k \in [group -> [1..2 -> Int]] /\ \A f \in group : k[f] = key(f)
    BY <1>2
  <2>2. \A f, g \in group : k[f] = k[g] => f = g
    BY <1>2, <2>1
  <2> HIDE DEF k
  <2>3. \E f \in group : \A g \in group \ {f} : TupleLess(k[f], k[g])
    BY <1>1, <2>1, <2>2, LeastKey
  <2>4. QED
    BY <2>1, <2>3
<1>4. QED
  BY <1>1, <1>3, DupePlanAssumption DEF HeaderRank

(* The groups of a run: its queue holds each duplicate group once, and no  *)
(* version is in two groups.                                               *)
LEMMA GroupsLoaded ==
  ASSUME NEW d, Typed(d), Consistent(d), NEW flt
  PROVE  LET loaded == LoadLiveDupeGroups(d, flt)
         IN  /\ loaded \in Seq(SUBSET LiveIn(d))
             /\ Range(loaded) = DupeGroups(d, flt)
             /\ \A i, k \in DOMAIN loaded : k # i => loaded[i] \cap loaded[k] = {}
             /\ \A i \in DOMAIN loaded : \A f, g \in loaded[i] :
                  d.file_meta[f].hash256 = d.file_meta[g].hash256
<1> DEFINE G == DupeGroups(d, flt)
           rank == [group \in G |-> HeaderRank(d, group)]
           s == LoadLiveDupeGroups(d, flt)
<1>1. \A group \in G : /\ group \in SUBSET LiveIn(d)
                       /\ group # {}
                       /\ \E h \in Hashes : group = LiveEntries(d, h)
  <2> SUFFICES ASSUME NEW group \in G
               PROVE  /\ group \in SUBSET LiveIn(d)
                      /\ group # {}
                      /\ \E h \in Hashes : group = LiveEntries(d, h)
    OBVIOUS
  <2>1. PICK h \in Hashes : group = LiveEntries(d, h)
    BY DEF DupeGroups
  <2>2. group \in SUBSET LiveIn(d)
    BY <2>1, LiveVersions
  <2>3. group # {}
    BY DEF DupeGroups
  <2>4. QED
    BY <2>1, <2>2, <2>3
<1>2. IsFiniteSet(G)
  <2>1. IsFiniteSet(SUBSET LiveIn(d))
    BY LiveVersions, FS_SUBSET
  <2>2. G \subseteq SUBSET LiveIn(d)
    BY <1>1
  <2>3. QED
    BY <2>1, <2>2, FS_Subset
<1>3. \A group \in G : rank[group] \in Nat
  BY <1>1, HeaderHasRank
<1>4. s = Sorted(G, rank)
  BY DEF LoadLiveDupeGroups
<1> HIDE DEF rank, G, s
<1>5. s \in Seq(G) /\ IsInjective(s) /\ Range(s) = G
  BY <1>2, <1>3, <1>4, SortedSet
<1>6. G \subseteq SUBSET LiveIn(d)
  BY <1>1
<1>7. s \in Seq(SUBSET LiveIn(d))
  BY <1>5, <1>6, SeqMonotonic
<1>8. \A i \in DOMAIN s : s[i] \in G
  BY <1>5 DEF Range
<1>9. ASSUME NEW i \in DOMAIN s, NEW k \in DOMAIN s, k # i
      PROVE  s[i] \cap s[k] = {}
  <2>1. s[i] # s[k]
    BY <1>5, <1>9 DEF IsInjective
  <2>2. PICK h \in Hashes : s[i] = LiveEntries(d, h)
    BY <1>1, <1>8
  <2>3. PICK g \in Hashes : s[k] = LiveEntries(d, g)
    BY <1>1, <1>8
  <2>4. s[i] = { f \in LiveIn(d) : d.file_meta[f].hash256 = h }
    BY <2>2, LiveVersions
  <2>5. s[k] = { f \in LiveIn(d) : d.file_meta[f].hash256 = g }
    BY <2>3, LiveVersions
  <2>6. QED
    BY <2>1, <2>4, <2>5
<1>10. ASSUME NEW i \in DOMAIN s
       PROVE  \A f, g \in s[i] : d.file_meta[f].hash256 = d.file_meta[g].hash256
  <2>1. PICK h \in Hashes : s[i] = LiveEntries(d, h)
    BY <1>1, <1>8
  <2>2. s[i] = { f \in LiveIn(d) : d.file_meta[f].hash256 = h }
    BY <2>1, LiveVersions
  <2>3. QED
    BY <2>2
<1>11. QED
  BY <1>5, <1>7, <1>9, <1>10 DEF s, G

(* What is planned for a group: each of the versions to delete once.       *)
LEMMA GroupPlanned ==
  ASSUME NEW d, Typed(d), Consistent(d), NEW group \in SUBSET LiveIn(d), NEW policy, NEW flt
  PROVE  LET gone == ToDelete(d, policy, flt, group)
             planned == ByPath(d, gone)
         IN  /\ gone \subseteq group
             /\ planned \in Seq(LiveIn(d))
             /\ IsInjective(planned)
             /\ Range(planned) = gone
<1> DEFINE gone == ToDelete(d, policy, flt, group)
           rank == [f \in gone |-> PathRank[PathOf(d, f)]]
<1>1. gone \subseteq group
  BY DEF ToDelete
<1> HIDE DEF gone
<1>2. gone \subseteq LiveIn(d) /\ IsFiniteSet(gone)
  BY <1>1, LiveVersions, FS_Subset
<1>3. \A f \in gone : rank[f] \in Nat
  <2>1. \A f \in gone : PathOf(d, f) \in Paths
    BY <1>2, LiveVersions DEF LiveIn
  <2>2. QED
    BY <2>1, DupePlanAssumption
<1>4. ByPath(d, gone) = Sorted(gone, rank)
  BY DEF ByPath
<1> HIDE DEF rank
<1>5. /\ Sorted(gone, rank) \in Seq(gone)
      /\ IsInjective(Sorted(gone, rank))
      /\ Range(Sorted(gone, rank)) = gone
  BY <1>2, <1>3, SortedSet
<1>6. Sorted(gone, rank) \in Seq(LiveIn(d))
  BY <1>2, <1>5, SeqMonotonic
<1>7. QED
  BY <1>1, <1>4, <1>5, <1>6 DEF gone

(* What is recorded for a group: the removed versions are no longer Live,  *)
(* and nothing else changes.                                               *)
LEMMA MarkedMissing ==
  ASSUME NEW d, NEW fids, Typed(d)
  PROVE  LET e == MarkFilesMissing(d, fids)
         IN  /\ DOMAIN e.file_state = DOMAIN d.file_state
             /\ e.file_meta = d.file_meta
             /\ \A f : PathOf(e, f) = PathOf(d, f)
             /\ LiveIn(e) = LiveIn(d) \ fids
             /\ CurrentIn(e) = CurrentIn(d)
             /\ \A h : LiveEntries(e, h) = LiveEntries(d, h) \ fids
<1> DEFINE e == MarkFilesMissing(d, fids)
           s == [f \in DOMAIN d.file_state |->
                   IF f \in fids /\ d.file_state[f] = Live
                   THEN Missing ELSE d.file_state[f]]
<1>1. e = [d EXCEPT !.file_state = s]
  BY DEF MarkFilesMissing
<1>2. /\ DOMAIN s = DOMAIN d.file_state
      /\ \A f \in DOMAIN d.file_state : s[f] = Live <=> d.file_state[f] = Live /\ f \notin fids
      /\ \A f \in DOMAIN d.file_state : s[f] = Replaced <=> d.file_state[f] = Replaced
  BY DEF Live, Missing, Replaced
<1> HIDE DEF e, s
<1>3. /\ e.file_state = s
      /\ e.file_meta = d.file_meta
      /\ e.file_to_path = d.file_to_path
      /\ e.id_to_path = d.id_to_path
      /\ e.hash256_to_files = d.hash256_to_files
  BY <1>1 DEF Typed, TableNames
<1>4. LiveIn(e) = LiveIn(d) \ fids /\ CurrentIn(e) = CurrentIn(d)
  BY <1>2, <1>3 DEF LiveIn, CurrentIn
<1>5. \A h : LiveEntries(e, h) = LiveEntries(d, h) \ fids
  BY <1>2, <1>3 DEF LiveEntries, LookupFilesByHash256
<1>6. QED
  BY <1>2, <1>3, <1>4, <1>5 DEF PathOf, e

-----------------------------------------------------------------------------
(* The invariants of a delete run *)

(* What a path can hold: one file with content written by now, or none. *)
FilesAt(time) == {{}} \cup { {File(hash, t)} : hash \in Hashes, t \in 0..time }

WorldInv ==
  /\ Typed(db)
  /\ Consistent(db)
  /\ now \in 1..MaxTime
  /\ disk \in [Paths -> FilesAt(now)]

(* A run holds nothing but Live versions, each in one place only, and      *)
(* those of a group have one content.                                      *)
DeleteInv ==
  /\ deleting \in BOOLEAN
  /\ filter \in SUBSET Paths
  /\ preserve \in AllPolicies
  /\ trusted \in BOOLEAN
  /\ before \in [Paths -> FilesAt(MaxTime)]
  /\ ~deleting => groups = <<>> /\ plan = <<>> /\ removed = {}
  /\ groups \in Seq(SUBSET LiveIn(db))
  /\ plan \in Seq(LiveIn(db))
  /\ removed \subseteq LiveIn(db)
  /\ IsInjective(plan)
  /\ Range(plan) \cap removed = {}
  /\ \A i \in DOMAIN groups :
       /\ groups[i] \cap (Range(plan) \cup removed) = {}
       /\ \A k \in DOMAIN groups : k # i => groups[i] \cap groups[k] = {}
       /\ \A f, g \in groups[i] : db.file_meta[f].hash256 = db.file_meta[g].hash256

(* What protects the last copy of a content: for each version planned or   *)
(* removed one of its content stays, and while the disk is trusted the     *)
(* Live versions are on it.                                                *)
CopyInv ==
  /\ deleting => \A f \in Range(plan) \cup removed :
       \E k \in LiveIn(db) \ (Range(plan) \cup removed) :
         db.file_meta[k].hash256 = db.file_meta[f].hash256
  /\ deleting /\ trusted =>
       /\ \A fid \in LiveIn(db) \ removed :
            \E f \in disk[PathOf(db, fid)] : f.hash256 = db.file_meta[fid].hash256
       /\ LastCopyKept

(* What a run leaves of a content it has dealt with: one copy, or copies   *)
(* outside the filter.                                                     *)
DealtWith(copies) ==
  \/ \A f, g \in copies : f = g
  \/ \A f \in copies : PathOf(db, f) \notin filter

RerunInv ==
  deleting => \A h \in Hashes :
    \/ LiveEntries(db, h) \in Range(groups)
    \/ DealtWith(LiveEntries(db, h) \ (Range(plan) \cup removed))

(* The rules of a run: what stays of the copies of one content. *)
Stay(d, policy, flt, copies) ==
  IF Cardinality(copies) >= 2 /\ \E f \in copies : PathOf(d, f) \in flt
  THEN copies \ ToDelete(d, policy, flt, copies)
  ELSE copies

(* The paths a trusted run has removed, and the copies of a content that   *)
(* were Live when it started: those still Live, and those it has recorded. *)
Taken == { p \in Paths : before[p] # disk[p] }

Copies(h) ==
  { f \in CurrentIn(db) :
      /\ db.file_meta[f].hash256 = h
      /\ f \in LiveIn(db) \/ PathOf(db, f) \in Taken }

(* In a trusted run the disk lacks just what the run has removed, a group  *)
(* that waits is untouched, and of any other content that stays which the  *)
(* rules say, once the removals under way are done.                        *)
RulesInv ==
  deleting /\ trusted =>
    /\ \A f \in LiveIn(db) : PathOf(db, f) \in Taken <=> f \in removed
    /\ \A i \in DOMAIN groups : groups[i] \in DupeGroups(db, filter)
    /\ \A h \in Hashes :
         LET live == LiveEntries(db, h)
         IN  /\ live \in Range(groups) => Copies(h) = live
             /\ live \notin Range(groups) =>
                  Stay(db, preserve, filter, Copies(h)) = live \ (Range(plan) \cup removed)

-----------------------------------------------------------------------------
(* The steps keep the types *)

(* A later bound allows more files. *)
LEMMA FilesLater ==
  ASSUME NEW t \in Nat, NEW u \in Nat, t <= u
  PROVE  FilesAt(t) \subseteq FilesAt(u)
<1>1. 1..t \subseteq 1..u
  OBVIOUS
<1>2. QED
  BY <1>1 DEF FilesAt

(* At the end of a run there is nothing left to hold. *)
LEMMA EndsClean ==
  ASSUME DeleteEnds
  PROVE  DeleteInv' /\ CopyInv' /\ RerunInv' /\ RulesInv'
<1>1. /\ deleting' = FALSE /\ filter' = {} /\ preserve' = "Oldest" /\ trusted' = FALSE
      /\ groups' = <<>> /\ plan' = <<>> /\ removed' = {}
      /\ before' = [p \in Paths |-> {}]
  BY DEF DeleteEnds
<1>2. before' \in [Paths -> FilesAt(MaxTime)]
  BY <1>1 DEF FilesAt
<1>3. /\ groups' \in Seq(SUBSET LiveIn(db')) /\ plan' \in Seq(LiveIn(db'))
      /\ IsInjective(plan') /\ Range(plan') = {} /\ DOMAIN groups' = {}
  BY <1>1, EmptyQueue
<1>4. DeleteInv'
  BY <1>1, <1>2, <1>3 DEF DeleteInv, AllPolicies
<1>5. QED
  BY <1>1, <1>4 DEF CopyInv, RerunInv, RulesInv

(* A delete run keeps database and disk in shape. *)
LEMMA DeleteKeepsWorld ==
  ASSUME WorldInv, DeleteInv, DeleteNext
  PROVE  WorldInv'
<1>1. CASE UNCHANGED <<db, disk, now>>
  BY <1>1 DEF WorldInv
<1>2. CASE RemoveFile
  <2> DEFINE path == PathOf(db, Head(plan))
  <2>1. disk' = [disk EXCEPT ![path] = {}] /\ UNCHANGED <<db, now>>
    BY <1>2 DEF RemoveFile
  <2>2. disk' \in [Paths -> FilesAt(now)]
    <3>1. {} \in FilesAt(now) /\ disk \in [Paths -> FilesAt(now)]
      BY DEF WorldInv, FilesAt
    <3> HIDE DEF path
    <3>2. QED
      BY <2>1, <3>1
  <2>3. QED
    BY <2>1, <2>2 DEF WorldInv
<1>3. CASE RecordGroup
  <2>1. db' = MarkFilesMissing(db, removed) /\ UNCHANGED <<disk, now>>
    BY <1>3 DEF RecordGroup, Recorded
  <2>2. QED
    BY <2>1, MarkFilesMissingGood DEF WorldInv
<1>4. QED
  BY <1>1, <1>2, <1>3 DEF DeleteNext, DeleteStep, DeleteStart, PlanGroup, RemoveFails,
                         DeleteFinish, DeleteCrash, worldVars

(* The start of a run. *)
LEMMA StartTyped ==
  ASSUME WorldInv, DeleteInv, NEW flt \in Filters, NEW policy \in Preserves,
         DeleteStart(flt, policy)
  PROVE  DeleteInv'
<1>1. /\ ~deleting /\ deleting' = TRUE /\ filter' = flt /\ preserve' = policy
      /\ groups' = LoadLiveDupeGroups(db, flt)
      /\ trusted' = LiveIsTrue /\ before' = disk
      /\ UNCHANGED <<plan, removed, db>>
  BY DEF DeleteStart, worldVars
<1>2. plan = <<>> /\ removed = {} /\ Range(plan) = {}
  BY <1>1, EmptyQueue DEF DeleteInv
<1>3. before' \in [Paths -> FilesAt(MaxTime)]
  <2>1. FilesAt(now) \subseteq FilesAt(MaxTime)
    BY FilesLater, WorldAssumption DEF WorldInv
  <2>2. QED
    BY <1>1, <2>1 DEF WorldInv
<1>4. /\ groups' \in Seq(SUBSET LiveIn(db))
      /\ \A i \in DOMAIN groups' :
           /\ \A k \in DOMAIN groups' : k # i => groups'[i] \cap groups'[k] = {}
           /\ \A f, g \in groups'[i] : db.file_meta[f].hash256 = db.file_meta[g].hash256
  BY <1>1, GroupsLoaded DEF WorldInv
<1>5. flt \in SUBSET Paths /\ policy \in AllPolicies
  BY DeleteAssumption
<1>6. trusted' \in BOOLEAN
  BY <1>1 DEF LiveIsTrue
<1>7. QED
  BY <1>1, <1>2, <1>3, <1>4, <1>5, <1>6 DEF DeleteInv

(* The plan of the next group. *)
LEMMA PlanTyped ==
  ASSUME WorldInv, DeleteInv, PlanGroup
  PROVE  /\ DeleteInv'
         /\ Head(groups) \in SUBSET LiveIn(db)
         /\ Range(plan') = ToDelete(db, preserve, filter, Head(groups))
         /\ Range(groups) = Range(groups') \cup {Head(groups)}
         /\ removed' = {}
<1> DEFINE group == Head(groups)
           gone == ToDelete(db, preserve, filter, group)
<1>1. /\ plan = <<>> /\ removed = {} /\ groups # <<>>
      /\ groups' = Tail(groups)
      /\ plan' = ByPath(db, gone)
      /\ UNCHANGED <<deleting, filter, preserve, removed, db, trusted, before>>
  BY DEF PlanGroup, GroupDone, GroupsLeft, worldVars, deleteHistory
<1>2. /\ groups \in Seq(SUBSET LiveIn(db))
      /\ group \in SUBSET LiveIn(db)
      /\ Tail(groups) \in Seq(SUBSET LiveIn(db))
      /\ Range(groups) = Range(Tail(groups)) \cup {group}
  BY <1>1, TailQueue DEF DeleteInv
<1>3. /\ gone \subseteq group
      /\ plan' \in Seq(LiveIn(db))
      /\ IsInjective(plan')
      /\ Range(plan') = gone
  BY <1>1, <1>2, GroupPlanned DEF WorldInv
<1> HIDE DEF gone
<1>4. /\ Len(groups) \in Nat /\ DOMAIN groups = 1..Len(groups)
      /\ group = groups[1]
      /\ DOMAIN groups' = 1..(Len(groups) - 1)
      /\ \A i \in DOMAIN groups' : groups'[i] = groups[i + 1]
  BY <1>1, <1>2, LenProperties, HeadTailProperties
<1>5. \A i \in DOMAIN groups' : i + 1 \in DOMAIN groups /\ i + 1 # 1
  BY <1>4
<1>6. 1 \in DOMAIN groups
  BY <1>1, <1>2, <1>4, EmptySeq
<1>7. ASSUME NEW i \in DOMAIN groups'
      PROVE  /\ groups'[i] \cap group = {}
             /\ \A k \in DOMAIN groups' : k # i => groups'[i] \cap groups'[k] = {}
             /\ \A f, g \in groups'[i] : db.file_meta[f].hash256 = db.file_meta[g].hash256
  <2>1. groups'[i] = groups[i + 1] /\ i + 1 \in DOMAIN groups /\ i + 1 # 1
    BY <1>4, <1>5
  <2>2. groups'[i] \cap group = {}
    BY <1>4, <1>6, <2>1 DEF DeleteInv
  <2>3. \A f, g \in groups'[i] : db.file_meta[f].hash256 = db.file_meta[g].hash256
    BY <2>1 DEF DeleteInv
  <2>4. ASSUME NEW k \in DOMAIN groups', k # i
        PROVE  groups'[i] \cap groups'[k] = {}
    <3>1. groups'[k] = groups[k + 1] /\ k + 1 \in DOMAIN groups /\ k + 1 # i + 1
      BY <1>4, <1>5, <2>4
    <3>2. QED
      BY <2>1, <3>1 DEF DeleteInv
  <2>5. QED
    BY <2>2, <2>3, <2>4
<1>8. \A i \in DOMAIN groups' : groups'[i] \cap (Range(plan') \cup removed') = {}
  BY <1>1, <1>3, <1>7
<1>9. deleting
  BY <1>1 DEF DeleteInv
<1>10. DeleteInv'
  BY <1>1, <1>2, <1>3, <1>7, <1>8, <1>9 DEF DeleteInv
<1>11. QED
  BY <1>1, <1>2, <1>3, <1>10 DEF gone

(* The group that is planned shares nothing with those that wait.          *)
LEMMA WaitingApart ==
  ASSUME DeleteInv, groups # <<>>
  PROVE  \A i \in DOMAIN Tail(groups) : Tail(groups)[i] \cap Head(groups) = {}
<1>1. groups \in Seq(SUBSET LiveIn(db))
  BY DEF DeleteInv
<1>2. /\ Len(groups) \in Nat /\ DOMAIN groups = 1..Len(groups)
      /\ Head(groups) = groups[1]
      /\ DOMAIN Tail(groups) = 1..(Len(groups) - 1)
      /\ \A i \in DOMAIN Tail(groups) : Tail(groups)[i] = groups[i + 1]
  BY <1>1, LenProperties, HeadTailProperties
<1>3. /\ 1 \in DOMAIN groups
      /\ \A i \in DOMAIN Tail(groups) : i + 1 \in DOMAIN groups /\ i + 1 # 1
  BY <1>1, <1>2, EmptySeq
<1>4. QED
  BY <1>2, <1>3 DEF DeleteInv

(* One removal: the head of the plan is now removed. *)
LEMMA RemoveTyped ==
  ASSUME DeleteInv, RemoveFile
  PROVE  /\ DeleteInv'
         /\ deleting
         /\ Head(plan) \in LiveIn(db)
         /\ Head(plan) \notin removed
         /\ Range(plan) \cup removed = Range(plan') \cup removed'
         /\ removed' = removed \cup {Head(plan)}
<1>1. /\ plan # <<>>
      /\ plan' = Tail(plan)
      /\ removed' = removed \cup {Head(plan)}
      /\ UNCHANGED <<deleting, filter, preserve, groups, db, trusted, before>>
  BY DEF RemoveFile, deleteHistory
<1>2. plan \in Seq(LiveIn(db)) /\ IsInjective(plan) /\ deleting
  BY <1>1 DEF DeleteInv
<1>3. /\ Head(plan) \in LiveIn(db)
      /\ plan' \in Seq(LiveIn(db))
      /\ Range(plan) = Range(plan') \cup {Head(plan)}
      /\ IsInjective(plan')
      /\ Head(plan) \notin Range(plan')
  BY <1>1, <1>2, TailQueue
<1>4. Range(plan) \cup removed = Range(plan') \cup removed'
  BY <1>1, <1>3
<1>5. Head(plan) \notin removed
  BY <1>3 DEF DeleteInv
<1>6. Range(plan') \cap removed' = {}
  BY <1>1, <1>3 DEF DeleteInv
<1>7. removed' \subseteq LiveIn(db)
  BY <1>1, <1>3 DEF DeleteInv
<1>8. \A i \in DOMAIN groups : groups[i] \cap (Range(plan') \cup removed') = {}
  BY <1>4 DEF DeleteInv
<1>9. DeleteInv'
  BY <1>1, <1>2, <1>3, <1>6, <1>7, <1>8 DEF DeleteInv
<1>10. QED
  BY <1>1, <1>2, <1>3, <1>4, <1>5, <1>9

(* A group recorded: the removed versions are Live no longer. *)
LEMMA RecordTyped ==
  ASSUME WorldInv, DeleteInv, RecordGroup
  PROVE  /\ DeleteInv'
         /\ deleting
         /\ db'.file_meta = db.file_meta
         /\ \A f : PathOf(db, f)' = PathOf(db, f)
         /\ LiveIn(db)' = LiveIn(db) \ removed
         /\ CurrentIn(db)' = CurrentIn(db)
         /\ \A h : LiveEntries(db', h) = LiveEntries(db, h) \ removed
<1>1. /\ plan = <<>> /\ removed # {} /\ removed' = {}
      /\ db' = MarkFilesMissing(db, removed)
      /\ UNCHANGED <<deleting, filter, preserve, groups, plan, trusted, before>>
  BY DEF RecordGroup, Recorded, deleteHistory
<1>2. /\ db'.file_meta = db.file_meta
      /\ \A f : PathOf(db', f) = PathOf(db, f)
      /\ LiveIn(db') = LiveIn(db) \ removed
      /\ CurrentIn(db') = CurrentIn(db)
      /\ \A h : LiveEntries(db', h) = LiveEntries(db, h) \ removed
  BY <1>1, MarkedMissing DEF WorldInv
<1>3. deleting
  BY <1>1 DEF DeleteInv
<1>4. groups \in Seq(SUBSET LiveIn(db'))
  <2>1. \A i \in 1..Len(groups) : groups[i] \in SUBSET LiveIn(db')
    BY <1>2, LenProperties DEF DeleteInv
  <2>2. groups = [i \in 1..Len(groups) |-> groups[i]] /\ Len(groups) \in Nat
    BY LenProperties DEF DeleteInv
  <2>3. QED
    BY <2>1, <2>2, SeqDef
<1>5. plan' \in Seq(LiveIn(db')) /\ IsInjective(plan') /\ Range(plan') = {}
  BY <1>1, EmptyQueue
<1>6. DeleteInv'
  BY <1>1, <1>2, <1>3, <1>4, <1>5 DEF DeleteInv
<1>7. QED
  BY <1>2, <1>3, <1>6

(* Every step of a delete run keeps its types. *)
LEMMA DeleteTyped ==
  ASSUME WorldInv, DeleteInv, DeleteNext
  PROVE  DeleteInv'
  BY StartTyped, PlanTyped, RemoveTyped, RecordTyped, EndsClean
     DEF DeleteNext, DeleteStep, DeleteFinish, RemoveFails, DeleteCrash

(* What other commands and the user leave alone stays typed. *)
LEMMA OthersKeepTypes ==
  ASSUME DeleteInv, trusted' \in BOOLEAN,
         UNCHANGED <<deleting, filter, preserve, groups, plan, removed, before>>,
         UNCHANGED db \/ ~deleting
  PROVE  DeleteInv'
<1>1. CASE UNCHANGED db
  BY <1>1 DEF DeleteInv
<1>2. CASE ~deleting
  <2>1. groups = <<>> /\ plan = <<>> /\ removed = {}
    BY <1>2 DEF DeleteInv
  <2>2. /\ <<>> \in Seq(SUBSET LiveIn(db')) /\ <<>> \in Seq(LiveIn(db'))
        /\ DOMAIN <<>> = {}
    BY EmptyQueue
  <2>3. /\ groups' \in Seq(SUBSET LiveIn(db')) /\ plan' \in Seq(LiveIn(db'))
        /\ removed' \subseteq LiveIn(db') /\ DOMAIN groups' = {}
    BY <2>1, <2>2
  <2>4. QED
    BY <2>3 DEF DeleteInv
<1>3. QED
  BY <1>1, <1>2

-----------------------------------------------------------------------------
(* No run takes the last copy *)

(* The disk holds a hash if one path does. *)
LEMMA StillHolds ==
  ASSUME WorldInv, DeleteInv, CopyInv, RemoveFile, trusted
  PROVE  /\ \A fid \in LiveIn(db) \ removed' :
              \E f \in disk'[PathOf(db, fid)] : f.hash256 = db.file_meta[fid].hash256
         /\ \A h \in Hashes : Holds(disk, h) => Holds(disk', h)
<1> DEFINE gone == Head(plan)
           path == PathOf(db, gone)
<1>1. disk' = [disk EXCEPT ![path] = {}]
  BY DEF RemoveFile
<1>2. /\ deleting /\ gone \in LiveIn(db) /\ gone \notin removed
      /\ removed' = removed \cup {gone}
      /\ Range(plan) \cup removed = Range(plan') \cup removed'
      /\ gone \in Range(plan) \cup removed
  BY RemoveTyped
<1> HIDE DEF gone
<1>3. \A fid \in LiveIn(db) \ removed :
        \E f \in disk[PathOf(db, fid)] : f.hash256 = db.file_meta[fid].hash256
  BY <1>2 DEF CopyInv
<1>4. /\ path \in Paths
      /\ \A fid \in LiveIn(db) : PathOf(db, fid) \in Paths
      /\ \A fid \in LiveIn(db) : PathOf(db, fid) = path => fid = gone
  BY <1>2, LiveVersions DEF WorldInv, LiveIn
<1>5. disk \in [Paths -> FilesAt(now)]
  BY DEF WorldInv
<1>6. \A p \in Paths : p # path => disk'[p] = disk[p]
  BY <1>1, <1>5
<1>7. ASSUME NEW fid \in LiveIn(db), fid \notin removed'
      PROVE  \E f \in disk'[PathOf(db, fid)] : f.hash256 = db.file_meta[fid].hash256
  <2>1. fid \notin removed /\ PathOf(db, fid) # path
    BY <1>2, <1>4, <1>7
  <2>2. QED
    BY <1>3, <1>4, <1>6, <2>1
<1>8. ASSUME NEW h \in Hashes, Holds(disk, h)
      PROVE  Holds(disk', h)
  <2>1. PICK p \in Paths : \E f \in disk[p] : f.hash256 = h
    BY <1>8 DEF Holds
  <2>2. CASE p # path
    BY <1>6, <2>1, <2>2 DEF Holds
  <2>3. CASE p = path
    <3>1. db.file_meta[gone].hash256 = h
      <4>1. PICK f \in disk[path] : f.hash256 = db.file_meta[gone].hash256
        BY <1>2, <1>3
      <4>2. \A g \in disk[path] : g = f
        BY <1>4, <1>5 DEF FilesAt
      <4>3. QED
        BY <2>1, <2>3, <4>1, <4>2
    <3>2. PICK k \in LiveIn(db) \ (Range(plan) \cup removed) :
            db.file_meta[k].hash256 = db.file_meta[gone].hash256
      BY <1>2 DEF CopyInv
    <3>3. k \notin removed'
      BY <1>2, <3>2
    <3>4. PICK f \in disk'[PathOf(db, k)] : f.hash256 = h
      BY <1>7, <3>1, <3>2, <3>3
    <3>5. QED
      BY <1>4, <3>2, <3>4 DEF Holds
  <2>4. QED
    BY <2>2, <2>3
<1>9. QED
  BY <1>7, <1>8

(* Every step of a delete run keeps a copy of each content. *)
LEMMA CopiesKept ==
  ASSUME WorldInv, DeleteInv, CopyInv, DeleteNext
  PROVE  CopyInv'
<1>1. ASSUME NEW flt \in Filters, NEW policy \in Preserves, DeleteStart(flt, policy)
      PROVE  CopyInv'
  <2>1. /\ ~deleting /\ trusted' = LiveIsTrue /\ before' = disk
        /\ UNCHANGED <<plan, removed, db, disk>>
    BY <1>1 DEF DeleteStart, worldVars
  <2>2. plan = <<>> /\ removed = {} /\ Range(plan) = {}
    BY <2>1, EmptyQueue DEF DeleteInv
  <2>3. trusted' => \A fid \in LiveIn(db) :
          \E f \in disk[PathOf(db, fid)] : f.hash256 = db.file_meta[fid].hash256
    BY <2>1 DEF LiveIsTrue, LiveIn
  <2>4. LastCopyKept'
    BY <2>1 DEF LastCopyKept
  <2>5. QED
    BY <2>1, <2>2, <2>3, <2>4 DEF CopyInv
<1>2. CASE PlanGroup
  <2> DEFINE group == Head(groups)
  <2>1. /\ removed' = {}
        /\ removed = {}
        /\ group \in SUBSET LiveIn(db)
        /\ Range(plan') = ToDelete(db, preserve, filter, group)
        /\ \A f, g \in group : db.file_meta[f].hash256 = db.file_meta[g].hash256
        /\ UNCHANGED <<deleting, db, disk, trusted, before>>
    <3>1. groups # <<>> /\ groups \in Seq(SUBSET LiveIn(db))
      BY <1>2 DEF PlanGroup, DeleteInv
    <3>2. group = groups[1] /\ 1 \in DOMAIN groups
      BY <3>1, HeadTailProperties, EmptySeq, LenProperties
    <3>3. QED
      BY <1>2, <3>2, PlanTyped DEF PlanGroup, GroupDone, worldVars, deleteHistory, DeleteInv
  <2> HIDE DEF group
  <2>2. ASSUME NEW f \in Range(plan')
        PROVE  \E k \in LiveIn(db) \ Range(plan') :
                 db.file_meta[k].hash256 = db.file_meta[f].hash256
    <3>1. f \in group
      BY <2>1 DEF ToDelete
    <3>2. PICK k \in group : k \notin Range(plan')
      BY <2>1, <3>1, OneStays DEF WorldInv, DeleteInv
    <3>3. QED
      BY <2>1, <3>1, <3>2
  <2>3. LastCopyKept => LastCopyKept'
    BY <2>1 DEF LastCopyKept
  <2>4. QED
    BY <2>1, <2>2, <2>3 DEF CopyInv
<1>3. CASE RemoveFile
  <2>1. /\ deleting
        /\ Range(plan) \cup removed = Range(plan') \cup removed'
        /\ UNCHANGED <<deleting, db, trusted, before>>
    BY <1>3, RemoveTyped DEF RemoveFile, deleteHistory
  <2>2. trusted => LastCopyKept'
    BY <1>3, <2>1, StillHolds DEF LastCopyKept, CopyInv
  <2>3. trusted => \A fid \in LiveIn(db) \ removed' :
          \E f \in disk'[PathOf(db, fid)] : f.hash256 = db.file_meta[fid].hash256
    BY <1>3, StillHolds
  <2>4. QED
    BY <2>1, <2>2, <2>3 DEF CopyInv
<1>4. CASE RecordGroup
  <2>1. /\ deleting
        /\ db'.file_meta = db.file_meta
        /\ \A f : PathOf(db, f)' = PathOf(db, f)
        /\ LiveIn(db)' = LiveIn(db) \ removed
        /\ removed' = {} /\ plan' = <<>>
        /\ UNCHANGED <<deleting, disk, trusted, before>>
    BY <1>4, RecordTyped DEF RecordGroup, deleteHistory
  <2>2. Range(plan') = {}
    BY <2>1, EmptyQueue
  <2>3. LastCopyKept => LastCopyKept'
    BY <2>1 DEF LastCopyKept
  <2>4. QED
    BY <2>1, <2>2, <2>3 DEF CopyInv
<1>5. QED
  BY <1>1, <1>2, <1>3, <1>4, EndsClean
     DEF DeleteNext, DeleteStep, DeleteFinish, RemoveFails, DeleteCrash

(* Nor does anything else that leaves database and run alone, once the     *)
(* disk is no longer trusted; and outside a run there is nothing to keep.  *)
LEMMA OthersKeepCopies ==
  ASSUME DeleteInv, CopyInv,
         UNCHANGED <<deleting, plan, removed>>,
         ~deleting \/ (UNCHANGED db /\ ~trusted') \/ UNCHANGED <<db, disk, trusted, before>>
  PROVE  CopyInv'
<1>1. CASE ~deleting
  BY <1>1 DEF CopyInv
<1>2. CASE UNCHANGED db /\ ~trusted'
  BY <1>2 DEF CopyInv
<1>3. CASE UNCHANGED <<db, disk, trusted, before>>
  BY <1>3 DEF CopyInv, LastCopyKept
<1>4. QED
  BY <1>1, <1>2, <1>3

-----------------------------------------------------------------------------
(* A run that finishes leaves nothing to do *)

(* Two elements make a set of at least two. *)
LEMMA TwoElements ==
  ASSUME NEW S, IsFiniteSet(S)
  PROVE  Cardinality(S) >= 2 <=> \E x, y \in S : x # y
<1>1. ASSUME NEW x \in S, NEW y \in S, x # y
      PROVE  Cardinality(S) >= 2
  <2>1. IsFiniteSet({x}) /\ Cardinality({x}) = 1
    BY FS_Singleton
  <2>2. IsFiniteSet({x} \cup {y}) /\ Cardinality({x} \cup {y}) = 2
    BY <1>1, <2>1, FS_AddElement
  <2>3. Cardinality({x} \cup {y}) <= Cardinality(S)
    <3>1. {x} \cup {y} \subseteq S
      OBVIOUS
    <3>2. QED
      BY <3>1, FS_Subset
  <2>4. QED
    BY <2>2, <2>3, FS_CardinalityType
<1>2. ASSUME Cardinality(S) >= 2, \A x, y \in S : x = y
      PROVE  FALSE
  <2>1. S # {}
    BY <1>2, FS_EmptySet
  <2>2. PICK x \in S : TRUE
    BY <2>1
  <2>3. S = {x}
    BY <1>2, <2>2
  <2>4. Cardinality(S) = 1
    BY <2>3, FS_Singleton
  <2>5. QED
    BY <1>2, <2>4
<1>3. QED
  BY <1>1, <1>2

(* A content is a duplicate group of the filter or needs no dealing with.  *)
LEMMA GroupOrDealtWith ==
  ASSUME WorldInv, NEW h \in Hashes, NEW flt
  PROVE  LET copies == LiveEntries(db, h)
         IN  \/ copies \in DupeGroups(db, flt)
             \/ \A f, g \in copies : f = g
             \/ \A f \in copies : PathOf(db, f) \notin flt
<1> DEFINE copies == LiveEntries(db, h)
<1>1. IsFiniteSet(copies)
  <2>1. copies \subseteq LiveIn(db) /\ IsFiniteSet(LiveIn(db))
    BY LiveVersions DEF WorldInv
  <2>2. QED
    BY <2>1, FS_Subset
<1>2. Cardinality(copies) >= 2 \/ \A f, g \in copies : f = g
  <2> HIDE DEF copies
  <2>1. QED
    BY <1>1, TwoElements
<1>3. QED
  BY <1>2 DEF DupeGroups

(* What remains of a dealt-with content is dealt with. *)
LEMMA LessIsDealtWith ==
  ASSUME NEW copies, NEW S, DealtWith(copies)
  PROVE  DealtWith(copies \ S)
  BY DEF DealtWith

(* Every step of a delete run leaves each content waiting or dealt with.   *)
LEMMA RerunKept ==
  ASSUME WorldInv, DeleteInv, RerunInv, DeleteNext
  PROVE  RerunInv'
<1>1. ASSUME NEW flt \in Filters, NEW policy \in Preserves, DeleteStart(flt, policy)
      PROVE  RerunInv'
  <2>1. /\ ~deleting /\ filter' = flt
        /\ groups' = LoadLiveDupeGroups(db, flt)
        /\ UNCHANGED <<plan, removed, db>>
    BY <1>1 DEF DeleteStart, worldVars
  <2>2. plan' = <<>> /\ removed' = {} /\ Range(plan') = {}
    BY <2>1, EmptyQueue DEF DeleteInv
  <2>3. Range(groups') = DupeGroups(db, flt)
    BY <2>1, GroupsLoaded DEF WorldInv
  <2>4. ASSUME NEW h \in Hashes
        PROVE  LiveEntries(db, h) \in Range(groups') \/ DealtWith(LiveEntries(db, h))'
    BY <2>1, <2>3, GroupOrDealtWith DEF DealtWith
  <2>5. ASSUME NEW h \in Hashes
        PROVE  \/ LiveEntries(db', h) \in Range(groups')
               \/ DealtWith(LiveEntries(db, h) \ (Range(plan) \cup removed))'
    <3>1. LiveEntries(db', h) = LiveEntries(db, h)
      BY <2>1
    <3>2. LiveEntries(db', h) \ (Range(plan') \cup removed') = LiveEntries(db, h)
      BY <2>2, <3>1
    <3>3. QED
      BY <2>1, <2>2, <2>4, <3>1, <3>2 DEF DealtWith
  <2>6. QED
    BY <2>5 DEF RerunInv
<1>2. CASE PlanGroup
  <2> DEFINE group == Head(groups)
             gone == ToDelete(db, preserve, filter, group)
  <2>1. /\ plan = <<>> /\ Range(plan) = {} /\ removed = {} /\ removed' = {}
        /\ Range(plan') = gone
        /\ Range(groups) = Range(groups') \cup {group}
        /\ UNCHANGED <<deleting, filter, db>>
    BY <1>2, PlanTyped, EmptyQueue DEF PlanGroup, GroupDone, worldVars
  <2>2. DealtWith(group \ gone)
    BY DEF ToDelete, DealtWith
  <2> HIDE DEF gone, group
  <2>3. ASSUME NEW h \in Hashes, deleting
        PROVE  \/ LiveEntries(db, h) \in Range(groups')
               \/ DealtWith(LiveEntries(db, h) \ gone)
    <3>1. CASE LiveEntries(db, h) \in Range(groups)
      BY <2>1, <2>2, <3>1
    <3>2. CASE DealtWith(LiveEntries(db, h) \ (Range(plan) \cup removed))
      <4>1. LiveEntries(db, h) \ (Range(plan) \cup removed) = LiveEntries(db, h)
        BY <2>1
      <4>2. QED
        BY <3>2, <4>1, LessIsDealtWith
    <3>3. QED
      BY <2>3, <3>1, <3>2 DEF RerunInv
  <2>4. gone = Range(plan') \cup removed'
    BY <2>1
  <2>5. QED
    BY <2>1, <2>3, <2>4 DEF RerunInv, DealtWith
<1>3. CASE RemoveFile
  <2>1. /\ Range(plan) \cup removed = Range(plan') \cup removed'
        /\ UNCHANGED <<deleting, db, groups, filter>>
    BY <1>3, RemoveTyped DEF RemoveFile
  <2>2. QED
    BY <2>1 DEF RerunInv, DealtWith
<1>4. CASE RecordGroup
  <2>1. /\ plan = <<>> /\ removed' = {}
        /\ \A f : PathOf(db, f)' = PathOf(db, f)
        /\ \A h : LiveEntries(db', h) = LiveEntries(db, h) \ removed
        /\ UNCHANGED <<deleting, groups, plan, filter>>
    BY <1>4, RecordTyped DEF RecordGroup
  <2>2. Range(plan) = {} /\ Range(plan') = {}
    BY <2>1, EmptyQueue
  <2>3. ASSUME NEW h \in Hashes, deleting
        PROVE  \/ LiveEntries(db', h) \in Range(groups')
               \/ DealtWith(LiveEntries(db, h) \ (Range(plan) \cup removed))'
    <3>1. CASE LiveEntries(db, h) \in Range(groups)
      <4>1. PICK i \in DOMAIN groups : groups[i] = LiveEntries(db, h)
        BY <3>1 DEF Range
      <4>2. groups[i] \cap removed = {}
        BY DEF DeleteInv
      <4>3. LiveEntries(db', h) = LiveEntries(db, h)
        BY <2>1, <4>1, <4>2
      <4>4. QED
        BY <2>1, <3>1, <4>3
    <3>2. CASE DealtWith(LiveEntries(db, h) \ (Range(plan) \cup removed))
      <4>1. LiveEntries(db', h) \ (Range(plan') \cup removed')
              = LiveEntries(db, h) \ (Range(plan) \cup removed)
        BY <2>1, <2>2
      <4>2. QED
        BY <2>1, <3>2, <4>1 DEF DealtWith
    <3>3. QED
      BY <2>3, <3>1, <3>2 DEF RerunInv
  <2>4. QED
    BY <2>1, <2>3 DEF RerunInv
<1>5. QED
  BY <1>1, <1>2, <1>3, <1>4, EndsClean
     DEF DeleteNext, DeleteStep, DeleteFinish, RemoveFails, DeleteCrash

(* Others do not come between. *)
LEMMA OthersKeepRerun ==
  ASSUME DeleteInv, RerunInv,
         UNCHANGED <<deleting, filter, groups, plan, removed>>,
         UNCHANGED db \/ ~deleting
  PROVE  RerunInv'
  BY DEF RerunInv, DealtWith

(* At the end of a run no duplicate group is left for its filter. *)
LEMMA NothingLeft ==
  ASSUME WorldInv, DeleteInv, RerunInv, DeleteFinish
  PROVE  DupeGroups(db', filter) = {}
<1>1. /\ deleting /\ groups = <<>> /\ plan = <<>> /\ removed = {} /\ db' = db
  BY DEF DeleteFinish, GroupDone, worldVars
<1>2. Range(groups) = {} /\ Range(plan) = {}
  BY <1>1, EmptyQueue
<1>3. ASSUME NEW h \in Hashes
      PROVE  LiveEntries(db, h) \notin DupeGroups(db, filter)
  <2> DEFINE copies == LiveEntries(db, h)
  <2>1. DealtWith(copies)
    <3>1. copies \ (Range(plan) \cup removed) = copies
      BY <1>1, <1>2
    <3>2. DealtWith(copies \ (Range(plan) \cup removed))
      BY <1>1, <1>2 DEF RerunInv
    <3>3. QED
      BY <3>1, <3>2
  <2>2. IsFiniteSet(copies)
    <3>1. copies \subseteq LiveIn(db) /\ IsFiniteSet(LiveIn(db))
      BY LiveVersions DEF WorldInv
    <3>2. QED
      BY <3>1, FS_Subset
  <2> HIDE DEF copies
  <2>3. Cardinality(copies) >= 2 => \E f, g \in copies : f # g
    BY <2>2, TwoElements
  <2>4. ~(Cardinality(copies) >= 2 /\ \E f \in copies : PathOf(db, f) \in filter)
    BY <2>1, <2>3 DEF DealtWith
  <2>5. QED
    BY <2>4 DEF DupeGroups, copies
<1>4. DupeGroups(db, filter) = {}
  <2>1. \A group \in DupeGroups(db, filter) : \E h \in Hashes : group = LiveEntries(db, h)
    BY DEF DupeGroups
  <2>2. QED
    BY <1>3, <2>1
<1>5. QED
  BY <1>1, <1>4
-----------------------------------------------------------------------------
(* A trusted run that finishes has followed the rules *)

(* The rules say the same of two databases that differ in no more than     *)
(* which versions are Missing.                                             *)
LEMMA SameStay ==
  ASSUME NEW d, Typed(d), Consistent(d), NEW e, Typed(e), Consistent(e),
         CurrentIn(e) = CurrentIn(d), e.file_meta = d.file_meta,
         \A f : PathOf(e, f) = PathOf(d, f),
         NEW policy \in AllPolicies, NEW flt, NEW copies \in SUBSET CurrentIn(d)
  PROVE  Stay(e, policy, flt, copies) = Stay(d, policy, flt, copies)
<1>1. CASE copies = {}
  BY <1>1 DEF Stay
<1>2. CASE copies # {}
  <2> DEFINE key(f) == KeeperKey(policy, d.file_meta[f].mtime_secs, PathOf(d, f))
  <2>1. /\ ChooseKeeper(d, policy, copies) \in copies
        /\ \A g \in copies \ {ChooseKeeper(d, policy, copies)} :
             TupleLess(key(ChooseKeeper(d, policy, copies)), key(g))
    BY <1>2, KeeperIsMember
  <2>2. \A f \in copies :
          (\A g \in copies \ {f} : TupleLess(key(f), key(g)))
             => f = ChooseKeeper(e, policy, copies)
    BY <1>2, KeeperIsMember
  <2> HIDE DEF key
  <2>3. ChooseKeeper(e, policy, copies) = ChooseKeeper(d, policy, copies)
    BY <2>1, <2>2
  <2>4. QED
    BY <2>3 DEF Stay, ToDelete
<1>3. QED
  BY <1>1, <1>2

(* The start of a run: nothing is taken, and each duplicate group waits.   *)
LEMMA StartRules ==
  ASSUME WorldInv, DeleteInv, NEW flt \in Filters, NEW policy \in Preserves,
         DeleteStart(flt, policy)
  PROVE  RulesInv'
<1>1. /\ ~deleting /\ filter' = flt /\ preserve' = policy
      /\ groups' = LoadLiveDupeGroups(db, flt)
      /\ before' = disk
      /\ UNCHANGED <<plan, removed, db, disk>>
  BY DEF DeleteStart, worldVars
<1>2. removed' = {} /\ Range(plan') = {}
  BY <1>1, EmptyQueue DEF DeleteInv
<1>3. Range(groups') = DupeGroups(db, flt)
  BY <1>1, GroupsLoaded DEF WorldInv
<1>4. Taken' = {}
  BY <1>1 DEF Taken
<1>5. ASSUME NEW h \in Hashes
      PROVE  Copies(h)' = LiveEntries(db, h)
  <2>1. LiveEntries(db, h) = { f \in LiveIn(db) : db.file_meta[f].hash256 = h }
    BY LiveVersions DEF WorldInv
  <2>2. LiveIn(db) \subseteq CurrentIn(db)
    BY LiveVersions DEF WorldInv
  <2>3. QED
    BY <1>1, <1>4, <2>1, <2>2 DEF Copies
<1>6. ASSUME NEW h \in Hashes, LiveEntries(db, h) \notin DupeGroups(db, flt)
      PROVE  Stay(db, policy, flt, LiveEntries(db, h)) = LiveEntries(db, h)
  BY <1>6 DEF Stay, DupeGroups
<1>7. \A i \in DOMAIN groups' : groups'[i] \in DupeGroups(db, flt)
  BY <1>3 DEF Range
<1>8. QED
  BY <1>1, <1>2, <1>3, <1>4, <1>5, <1>6, <1>7 DEF RulesInv

(* The plan of a group follows the rules, and is about no other content.   *)
LEMMA PlanRules ==
  ASSUME WorldInv, DeleteInv, RulesInv, PlanGroup
  PROVE  RulesInv'
<1> DEFINE group == Head(groups)
           gone == ToDelete(db, preserve, filter, group)
<1>1. /\ deleting /\ groups # <<>>
      /\ plan = <<>> /\ Range(plan) = {} /\ removed = {} /\ removed' = {}
      /\ groups' = Tail(groups)
      /\ UNCHANGED <<deleting, filter, preserve, db, disk, trusted, before>>
  BY EmptyQueue DEF PlanGroup, GroupDone, GroupsLeft, worldVars, deleteHistory, DeleteInv
<1>2. /\ Range(plan') = gone
      /\ Range(groups) = Range(groups') \cup {group}
      /\ group \in SUBSET LiveIn(db)
      /\ gone \subseteq group
  BY PlanTyped DEF ToDelete
<1>3. SUFFICES ASSUME trusted
               PROVE  RulesInv'
  BY <1>1 DEF RulesInv
<1>4. /\ \A i \in DOMAIN groups : groups[i] \in DupeGroups(db, filter)
      /\ \A S \in Range(groups) : S \in DupeGroups(db, filter)
  BY <1>1, <1>3 DEF RulesInv, Range
<1>5. group \in DupeGroups(db, filter)
  BY <1>2, <1>4
<1>6. \A i \in DOMAIN groups' : groups'[i] \in DupeGroups(db, filter)
  <2>1. \A i \in DOMAIN groups' : groups'[i] \in Range(groups')
    BY DEF Range
  <2>2. QED
    BY <1>2, <1>4, <2>1
<1>7. group \notin Range(groups')
  <2>1. group # {}
    BY <1>5 DEF DupeGroups
  <2>2. \A i \in DOMAIN groups' : groups'[i] \cap group = {}
    BY <1>1, WaitingApart
  <2>3. QED
    BY <2>1, <2>2 DEF Range
<1>8. ASSUME NEW h \in Hashes, LiveEntries(db, h) = group
      PROVE  Stay(db, preserve, filter, Copies(h)) = LiveEntries(db, h) \ gone
  <2>1. Copies(h) = group
    BY <1>1, <1>2, <1>3, <1>8 DEF RulesInv
  <2>2. Stay(db, preserve, filter, group) = group \ gone
    BY <1>5 DEF Stay, DupeGroups
  <2>3. QED
    BY <1>8, <2>1, <2>2
<1>9. ASSUME NEW h \in Hashes, LiveEntries(db, h) # group
      PROVE  LiveEntries(db, h) \cap gone = {}
  <2>1. PICK g \in Hashes : group = LiveEntries(db, g)
    BY <1>5 DEF DupeGroups
  <2>2. /\ LiveEntries(db, h) = { f \in LiveIn(db) : db.file_meta[f].hash256 = h }
        /\ LiveEntries(db, g) = { f \in LiveIn(db) : db.file_meta[f].hash256 = g }
    BY LiveVersions DEF WorldInv
  <2>3. QED
    BY <1>2, <1>9, <2>1, <2>2
<1> HIDE DEF gone, group
<1>10. Taken' = Taken /\ \A h \in Hashes : Copies(h)' = Copies(h)
  BY <1>1 DEF Taken, Copies
<1>11. ASSUME NEW h \in Hashes
       PROVE  LET live == LiveEntries(db, h)
              IN  /\ live \in Range(groups') => Copies(h) = live
                  /\ live \notin Range(groups') =>
                       Stay(db, preserve, filter, Copies(h)) = live \ gone
  <2>1. CASE LiveEntries(db, h) = group
    BY <1>7, <1>8, <2>1
  <2>2. CASE LiveEntries(db, h) # group
    <3>1. LiveEntries(db, h) \in Range(groups') <=> LiveEntries(db, h) \in Range(groups)
      BY <1>2, <2>2
    <3>2. LiveEntries(db, h) \ gone = LiveEntries(db, h) \ (Range(plan) \cup removed)
      BY <1>1, <1>9, <2>2
    <3>3. QED
      BY <1>1, <1>3, <3>1, <3>2 DEF RulesInv
  <2>3. QED
    BY <2>1, <2>2
<1>12. \A f \in LiveIn(db) : PathOf(db, f) \in Taken <=> f \in removed
  BY <1>1, <1>3 DEF RulesInv
<1>13. gone = Range(plan') \cup removed'
  BY <1>1, <1>2
<1>14. QED
  BY <1>1, <1>6, <1>10, <1>11, <1>12, <1>13 DEF RulesInv

(* A removal takes the path of the version it removes, and no other.       *)
LEMMA RemoveRules ==
  ASSUME WorldInv, DeleteInv, RulesInv, RemoveFile
  PROVE  RulesInv'
<1> DEFINE gone == Head(plan)
           path == PathOf(db, gone)
<1>1. /\ disk[path] # {}
      /\ disk' = [disk EXCEPT ![path] = {}]
      /\ UNCHANGED <<deleting, filter, preserve, groups, db, trusted, before>>
  BY DEF RemoveFile, IsOnDisk, deleteHistory
<1>2. /\ deleting /\ gone \in LiveIn(db) /\ gone \notin removed
      /\ removed' = removed \cup {gone}
      /\ Range(plan) \cup removed = Range(plan') \cup removed'
  BY RemoveTyped
<1> HIDE DEF gone
<1>3. SUFFICES ASSUME trusted
               PROVE  RulesInv'
  BY <1>1 DEF RulesInv
<1>4. \A f \in LiveIn(db) : PathOf(db, f) \in Taken <=> f \in removed
  BY <1>2, <1>3 DEF RulesInv
<1>5. /\ path \in Paths
      /\ LiveIn(db) \subseteq CurrentIn(db)
      /\ \A f \in CurrentIn(db) : PathOf(db, f) = path => f = gone
  BY <1>2, LiveVersions DEF WorldInv, LiveIn
<1> HIDE DEF path
<1>6. Taken' = Taken \cup {path}
  <2>1. path \notin Taken
    BY <1>2, <1>4 DEF path
  <2>2. before[path] # {}
    BY <1>1, <1>5, <2>1 DEF Taken
  <2>3. /\ disk'[path] = {}
        /\ \A p \in Paths : p # path => disk'[p] = disk[p]
    BY <1>1, <1>5 DEF WorldInv
  <2>4. QED
    BY <1>1, <1>5, <2>2, <2>3 DEF Taken
<1>7. \A f \in LiveIn(db) : PathOf(db, f) \in Taken' <=> f \in removed'
  BY <1>2, <1>4, <1>5, <1>6 DEF path
<1>8. ASSUME NEW h \in Hashes
      PROVE  Copies(h)' = Copies(h)
  <2>1. \A f \in CurrentIn(db) :
          f \in LiveIn(db) \/ PathOf(db, f) \in Taken
            <=> f \in LiveIn(db) \/ PathOf(db, f) \in Taken'
    BY <1>2, <1>5, <1>6
  <2>2. QED
    BY <1>1, <2>1 DEF Copies
<1>9. QED
  BY <1>1, <1>2, <1>3, <1>7, <1>8 DEF RulesInv

(* Recording a group changes none of what stays.                           *)
LEMMA RecordRules ==
  ASSUME WorldInv, WorldInv', DeleteInv, RulesInv, RecordGroup
  PROVE  RulesInv'
<1>1. /\ deleting /\ plan = <<>> /\ removed' = {}
      /\ db'.file_meta = db.file_meta
      /\ \A f : PathOf(db, f)' = PathOf(db, f)
      /\ LiveIn(db)' = LiveIn(db) \ removed
      /\ CurrentIn(db)' = CurrentIn(db)
      /\ \A h : LiveEntries(db', h) = LiveEntries(db, h) \ removed
      /\ UNCHANGED <<deleting, filter, preserve, groups, plan, disk, trusted, before>>
  BY RecordTyped DEF RecordGroup, deleteHistory
<1>2. Range(plan) = {} /\ Range(plan') = {}
  BY <1>1, EmptyQueue
<1>3. SUFFICES ASSUME trusted
               PROVE  RulesInv'
  BY <1>1 DEF RulesInv
<1>4. /\ \A f \in LiveIn(db) : PathOf(db, f) \in Taken <=> f \in removed
      /\ \A i \in DOMAIN groups : groups[i] \in DupeGroups(db, filter)
  BY <1>1, <1>3 DEF RulesInv
<1>5. Taken' = Taken
  BY <1>1 DEF Taken
<1>6. ASSUME NEW h \in Hashes
      PROVE  Copies(h)' = Copies(h)
  <2>1. \A f \in CurrentIn(db) :
          f \in LiveIn(db) \/ PathOf(db, f) \in Taken
            <=> f \in LiveIn(db) \ removed \/ PathOf(db, f) \in Taken
    BY <1>4
  <2>2. QED
    BY <1>1, <1>5, <2>1 DEF Copies
<1>7. ASSUME NEW i \in DOMAIN groups
      PROVE  \E g \in Hashes :
               /\ groups[i] = LiveEntries(db, g)
               /\ groups[i] = LiveEntries(db', g)
               /\ groups[i] # {}
               /\ groups[i] \in DupeGroups(db', filter)
  <2>1. PICK g \in Hashes : groups[i] = LiveEntries(db, g)
    BY <1>4 DEF DupeGroups
  <2>2. groups[i] \cap removed = {}
    BY DEF DeleteInv
  <2>3. groups[i] = LiveEntries(db', g)
    BY <1>1, <2>1, <2>2
  <2>4. Cardinality(groups[i]) >= 2 /\ \E f \in groups[i] : PathOf(db, f) \in filter
    BY <1>4 DEF DupeGroups
  <2>5. groups[i] # {}
    BY <2>4
  <2>6. groups[i] \in DupeGroups(db', filter)
    BY <1>1, <2>3, <2>4 DEF DupeGroups
  <2>7. QED
    BY <2>1, <2>3, <2>5, <2>6
<1>8. ASSUME NEW h \in Hashes
      PROVE  LiveEntries(db, h) \in Range(groups) <=> LiveEntries(db', h) \in Range(groups)
  <2>1. LiveEntries(db, h) = { f \in LiveIn(db) : db.file_meta[f].hash256 = h }
    BY LiveVersions DEF WorldInv
  <2>2. ASSUME LiveEntries(db, h) \in Range(groups)
        PROVE  LiveEntries(db', h) = LiveEntries(db, h)
    <3>1. PICK i \in DOMAIN groups : groups[i] = LiveEntries(db, h)
      BY <2>2 DEF Range
    <3>2. groups[i] \cap removed = {}
      BY DEF DeleteInv
    <3>3. QED
      BY <1>1, <3>1, <3>2
  <2>3. ASSUME LiveEntries(db', h) \in Range(groups)
        PROVE  LiveEntries(db, h) \in Range(groups)
    <3>1. PICK i \in DOMAIN groups : groups[i] = LiveEntries(db', h)
      BY <2>3 DEF Range
    <3>2. PICK g \in Hashes : groups[i] = LiveEntries(db, g) /\ groups[i] # {}
      BY <1>7
    <3>3. LiveEntries(db, g) = { f \in LiveIn(db) : db.file_meta[f].hash256 = g }
      BY LiveVersions DEF WorldInv
    <3>4. g = h
      BY <1>1, <2>1, <3>1, <3>2, <3>3
    <3>5. QED
      BY <3>2, <3>4 DEF Range
  <2>4. QED
    BY <2>2, <2>3
<1>9. ASSUME NEW h \in Hashes
      PROVE  Stay(db, preserve, filter, Copies(h))' = Stay(db, preserve, filter, Copies(h))
  <2>1. Copies(h) \in SUBSET CurrentIn(db)
    BY DEF Copies
  <2>2. preserve \in AllPolicies /\ Typed(db) /\ Consistent(db) /\ Typed(db') /\ Consistent(db')
    BY DEF WorldInv, DeleteInv
  <2>3. \A f : PathOf(db', f) = PathOf(db, f)
    BY <1>1
  <2>4. Stay(db', preserve, filter, Copies(h)) = Stay(db, preserve, filter, Copies(h))
    BY <1>1, <2>1, <2>2, <2>3, SameStay
  <2>5. QED
    BY <1>1, <1>6, <2>4
<1>10. ASSUME NEW h \in Hashes
       PROVE  LET live == LiveEntries(db', h)
              IN  /\ live \in Range(groups) => Copies(h) = live
                  /\ live \notin Range(groups) =>
                       Stay(db, preserve, filter, Copies(h)) = live
  <2>1. CASE LiveEntries(db, h) \in Range(groups)
    <3>1. Copies(h) = LiveEntries(db, h)
      BY <1>1, <1>3, <2>1 DEF RulesInv
    <3>2. PICK i \in DOMAIN groups : groups[i] = LiveEntries(db, h)
      BY <2>1 DEF Range
    <3>3. groups[i] \cap removed = {}
      BY DEF DeleteInv
    <3>4. QED
      BY <1>1, <1>8, <2>1, <3>1, <3>2, <3>3
  <2>2. CASE LiveEntries(db, h) \notin Range(groups)
    <3>1. Stay(db, preserve, filter, Copies(h)) = LiveEntries(db, h) \ (Range(plan) \cup removed)
      BY <1>1, <1>3, <2>2 DEF RulesInv
    <3>2. QED
      BY <1>1, <1>2, <1>8, <2>2, <3>1
  <2>3. QED
    BY <2>1, <2>2
<1>11. \A f \in LiveIn(db) \ removed : PathOf(db, f) \in Taken <=> f \in {}
  BY <1>4
<1>12. QED
  BY <1>1, <1>2, <1>5, <1>6, <1>7, <1>9, <1>10, <1>11 DEF RulesInv

(* Every step of a delete run follows the rules.                           *)
LEMMA RulesFollowed ==
  ASSUME WorldInv, DeleteInv, RulesInv, DeleteNext
  PROVE  RulesInv'
  BY StartRules, PlanRules, RemoveRules, RecordRules, EndsClean, DeleteKeepsWorld
     DEF DeleteNext, DeleteStep, DeleteFinish, RemoveFails, DeleteCrash

(* Others do not come between, unless the disk is no longer trusted.       *)
LEMMA OthersKeepRules ==
  ASSUME RulesInv, UNCHANGED deleting,
         \/ ~deleting
         \/ ~trusted'
         \/ UNCHANGED <<db, disk, filter, preserve, groups, plan, removed, trusted, before>>
  PROVE  RulesInv'
<1>1. CASE ~deleting \/ ~trusted'
  BY <1>1 DEF RulesInv
<1>2. CASE UNCHANGED <<db, disk, filter, preserve, groups, plan, removed, trusted, before>>
  BY <1>2 DEF RulesInv, Copies, Taken
<1>3. QED
  BY <1>1, <1>2
(* What a smaller tuple means, for tuples of the lengths of keys.          *)
LEMMA LexicalOrder ==
  /\ \A a, b \in Int : TupleLess(<<a>>, <<b>>) => a < b
  /\ \A a, b, c, d \in Int :
       TupleLess(<<a, b>>, <<c, d>>) => a < c \/ (a = c /\ b < d)
  /\ \A a, b, c, d, e, f \in Int :
       TupleLess(<<a, b, c>>, <<d, e, f>>) =>
         a < d \/ (a = d /\ (b < e \/ (b = e /\ c < f)))
<1>1. ASSUME NEW a \in Int, NEW b \in Int, TupleLess(<<a>>, <<b>>)
      PROVE  a < b
  BY <1>1 DEF TupleLess
<1>2. ASSUME NEW a \in Int, NEW b \in Int, NEW c \in Int, NEW d \in Int,
             TupleLess(<<a, b>>, <<c, d>>)
      PROVE  a < c \/ (a = c /\ b < d)
  <2>1. PICK i \in 1..2 : /\ <<a, b>>[i] < <<c, d>>[i]
                          /\ \A j \in 1..(i - 1) : <<a, b>>[j] = <<c, d>>[j]
    BY <1>2 DEF TupleLess
  <2>2. CASE i = 1
    BY <2>1, <2>2
  <2>3. CASE i = 2
    <3>1. 1 \in 1..(i - 1)
      BY <2>3
    <3>2. QED
      BY <2>1, <2>3, <3>1
  <2>4. QED
    BY <2>2, <2>3
<1>3. ASSUME NEW a \in Int, NEW b \in Int, NEW c \in Int,
             NEW d \in Int, NEW e \in Int, NEW f \in Int,
             TupleLess(<<a, b, c>>, <<d, e, f>>)
      PROVE  a < d \/ (a = d /\ (b < e \/ (b = e /\ c < f)))
  <2>1. PICK i \in 1..3 : /\ <<a, b, c>>[i] < <<d, e, f>>[i]
                          /\ \A j \in 1..(i - 1) : <<a, b, c>>[j] = <<d, e, f>>[j]
    BY <1>3 DEF TupleLess
  <2>2. CASE i = 1
    BY <2>1, <2>2
  <2>3. CASE i = 2
    <3>1. 1 \in 1..(i - 1)
      BY <2>3
    <3>2. QED
      BY <2>1, <2>3, <3>1
  <2>4. CASE i = 3
    <3>1. 1 \in 1..(i - 1) /\ 2 \in 1..(i - 1)
      BY <2>4
    <3>2. QED
      BY <2>1, <2>4, <3>1
  <2>5. QED
    BY <2>2, <2>3, <2>4
<1>4. QED
  BY <1>1, <1>2, <1>3

(* The keeper is the one docs/specs.md prefers: of known mtime if there is *)
(* one, and then the oldest or newest, or the one of the wanted path.      *)
LEMMA KeeperIsPreferred ==
  ASSUME Typed(db), Consistent(db), NEW policy \in AllPolicies,
         NEW copies \in SUBSET CurrentIn(db), copies # {}
  PROVE  LET k == ChooseKeeper(db, policy, copies)
         IN  k \in copies /\ Preferred(policy, k, copies)
<1> DEFINE k == ChooseKeeper(db, policy, copies)
           mtime(f) == db.file_meta[f].mtime_secs
           path(f) == PathOf(db, f)
           key(f) == KeeperKey(policy, mtime(f), path(f))
<1>1. k \in copies /\ \A g \in copies \ {k} : TupleLess(key(k), key(g))
  BY KeeperIsMember
<1>2. \A f \in copies : mtime(f) \in Nat /\ path(f) \in Paths
  BY LiveVersions, MetasAssumption DEF CurrentIn
<1>3. \A f \in copies : PathRank[path(f)] \in Nat /\ PathLen[path(f)] \in Nat
  BY <1>2, DupePlanAssumption
<1> HIDE DEF k, mtime, path
<1>4. SUFFICES
        /\ policy \in {"Oldest", "Newest"} /\ (\E f \in copies : mtime(f) # 0) => mtime(k) # 0
        /\ policy = "Oldest" =>
             \A f \in copies : mtime(f) # 0 => mtime(k) <= mtime(f)
        /\ policy = "Newest" =>
             \A f \in copies : mtime(f) # 0 => mtime(k) >= mtime(f)
        /\ policy = "ShortestPath" => \A f \in copies : PathLen[path(k)] <= PathLen[path(f)]
        /\ policy = "LongestPath" => \A f \in copies : PathLen[path(k)] >= PathLen[path(f)]
        /\ policy = "AlphaFirst" => \A f \in copies : PathRank[path(k)] <= PathRank[path(f)]
        /\ policy = "AlphaLast" => \A f \in copies : PathRank[path(k)] >= PathRank[path(f)]
  BY <1>1 DEF Preferred, k, mtime, path
<1>5. ASSUME policy = "Oldest", NEW f \in copies, mtime(f) # 0
      PROVE  mtime(k) # 0 /\ mtime(k) <= mtime(f)
  <2>1. CASE f = k
    BY <1>2, <1>5, <2>1
  <2>2. CASE f # k
    <3>1. TupleLess(<<IF mtime(k) = 0 THEN 1 ELSE 0, mtime(k), PathRank[path(k)]>>,
                    <<IF mtime(f) = 0 THEN 1 ELSE 0, mtime(f), PathRank[path(f)]>>)
      BY <1>1, <1>5, <2>2 DEF KeeperKey, OldestKey
    <3>2. /\ mtime(k) \in Nat /\ mtime(f) \in Nat
          /\ PathRank[path(k)] \in Nat /\ PathRank[path(f)] \in Nat
      BY <1>1, <1>2, <1>3
    <3>3. QED
      BY <1>5, <3>1, <3>2, LexicalOrder
  <2>3. QED
    BY <2>1, <2>2
<1>6. ASSUME policy = "Newest", NEW f \in copies, mtime(f) # 0
      PROVE  mtime(k) # 0 /\ mtime(k) >= mtime(f)
  <2>1. CASE f = k
    BY <1>2, <1>6, <2>1
  <2>2. CASE f # k
    <3>1. TupleLess(<<IF mtime(k) = 0 THEN 1 ELSE 0, -mtime(k), PathRank[path(k)]>>,
                    <<IF mtime(f) = 0 THEN 1 ELSE 0, -mtime(f), PathRank[path(f)]>>)
      BY <1>1, <1>6, <2>2 DEF KeeperKey
    <3>2. /\ mtime(k) \in Nat /\ mtime(f) \in Nat
          /\ PathRank[path(k)] \in Nat /\ PathRank[path(f)] \in Nat
      BY <1>1, <1>2, <1>3
    <3>3. QED
      BY <1>6, <3>1, <3>2, LexicalOrder
  <2>3. QED
    BY <2>1, <2>2
<1>7. ASSUME policy = "ShortestPath", NEW f \in copies
      PROVE  PathLen[path(k)] <= PathLen[path(f)]
  <2>1. f # k => TupleLess(<<PathLen[path(k)], PathRank[path(k)]>>,
                           <<PathLen[path(f)], PathRank[path(f)]>>)
    BY <1>1, <1>7 DEF KeeperKey
  <2>2. /\ PathLen[path(k)] \in Nat /\ PathLen[path(f)] \in Nat
        /\ PathRank[path(k)] \in Nat /\ PathRank[path(f)] \in Nat
    BY <1>1, <1>3
  <2>3. QED
    BY <2>1, <2>2, LexicalOrder
<1>8. ASSUME policy = "LongestPath", NEW f \in copies
      PROVE  PathLen[path(k)] >= PathLen[path(f)]
  <2>1. f # k => TupleLess(<<-PathLen[path(k)], PathRank[path(k)]>>,
                           <<-PathLen[path(f)], PathRank[path(f)]>>)
    BY <1>1, <1>8 DEF KeeperKey
  <2>2. /\ PathLen[path(k)] \in Nat /\ PathLen[path(f)] \in Nat
        /\ PathRank[path(k)] \in Nat /\ PathRank[path(f)] \in Nat
    BY <1>1, <1>3
  <2>3. QED
    BY <2>1, <2>2, LexicalOrder
<1>9. ASSUME policy = "AlphaFirst", NEW f \in copies
      PROVE  PathRank[path(k)] <= PathRank[path(f)]
  <2>1. f # k => TupleLess(<<PathRank[path(k)]>>, <<PathRank[path(f)]>>)
    BY <1>1, <1>9 DEF KeeperKey
  <2>2. PathRank[path(k)] \in Nat /\ PathRank[path(f)] \in Nat
    BY <1>1, <1>3
  <2>3. QED
    BY <2>1, <2>2, LexicalOrder
<1>10. ASSUME policy = "AlphaLast", NEW f \in copies
       PROVE  PathRank[path(k)] >= PathRank[path(f)]
  <2>1. f # k => TupleLess(<<-PathRank[path(k)]>>, <<-PathRank[path(f)]>>)
    BY <1>1, <1>10 DEF KeeperKey
  <2>2. PathRank[path(k)] \in Nat /\ PathRank[path(f)] \in Nat
    BY <1>1, <1>3
  <2>3. QED
    BY <2>1, <2>2, LexicalOrder
<1>11. QED
  BY <1>5, <1>6, <1>7, <1>8, <1>9, <1>10

(* The end of a trusted run: what stays of each content is what the rules  *)
(* ask for, on disk and in the database.                                   *)
LEMMA RulesAtEnd ==
  ASSUME WorldInv, DeleteInv, RulesInv, DeleteFinish, trusted, NEW h \in Hashes
  PROVE  RulesKept(h)
<1> DEFINE taken == { p \in Paths : before[p] # disk[p] }
           copies == { f \in LookupFilesByHash256(db, h) :
                         \/ db.file_state[f] = Live
                         \/ f \in GetCurrentByPath(db, PathOf(db, f)) /\ PathOf(db, f) \in taken }
           kept == { f \in copies : PathOf(db, f) \notin taken }
           outside == { f \in copies : PathOf(db, f) \notin filter }
           live == LiveEntries(db, h)
<1>1. /\ deleting /\ groups = <<>> /\ plan = <<>> /\ removed = {}
      /\ Range(groups) = {} /\ Range(plan) = {}
  BY EmptyQueue DEF DeleteFinish, GroupDone
<1>2. /\ LiveIn(db) \subseteq CurrentIn(db)
      /\ live = { f \in LiveIn(db) : db.file_meta[f].hash256 = h }
  BY LiveVersions DEF WorldInv
<1>3. copies = Copies(h)
  <2>1. LookupFilesByHash256(db, h) = { f \in DOMAIN db.file_state : db.file_meta[f].hash256 = h }
    <3>1. /\ DOMAIN db.file_meta = DOMAIN db.file_state
          /\ db.hash256_to_files[h] \subseteq DOMAIN db.file_state
      BY DEF WorldInv, Typed
    <3>2. QED
      BY <3>1 DEF WorldInv, Consistent, IndexExact, LookupFilesByHash256
  <2>2. \A f \in DOMAIN db.file_state :
          f \in GetCurrentByPath(db, PathOf(db, f)) <=> db.file_state[f] # Replaced
    BY CurrentIff DEF WorldInv
  <2>3. QED
    BY <1>2, <2>1, <2>2 DEF Copies, Taken, LiveIn, CurrentIn
<1>4. \A f \in LiveIn(db) : PathOf(db, f) \notin taken
  BY <1>1 DEF RulesInv, Taken
<1>5. Stay(db, preserve, filter, copies) = live
  <2>1. Stay(db, preserve, filter, Copies(h)) = live \ (Range(plan) \cup removed)
    BY <1>1 DEF RulesInv
  <2>2. QED
    BY <1>1, <1>3, <2>1
<1>6. kept = live /\ live = { f \in copies : db.file_state[f] = Live } /\ copies \subseteq CurrentIn(db)
  <2> HIDE DEF copies, live
  <2>1. /\ copies \subseteq CurrentIn(db)
        /\ live \subseteq copies
        /\ \A f \in copies : f \in live <=> f \in LiveIn(db)
        /\ \A f \in copies : f \in LiveIn(db) \/ PathOf(db, f) \in taken
    BY <1>2, <1>3 DEF Copies, Taken
  <2>2. \A f \in copies : f \in LiveIn(db) <=> db.file_state[f] = Live
    BY <2>1 DEF LiveIn, CurrentIn
  <2>3. QED
    BY <1>4, <2>1, <2>2
<1>7. preserve \in AllPolicies /\ Typed(db) /\ Consistent(db)
  BY DEF WorldInv, DeleteInv
<1> HIDE DEF copies, kept, live
<1>8. IF Cardinality(copies) < 2 \/ outside = copies THEN kept = copies
      ELSE IF outside # {} THEN kept = outside
      ELSE \E k \in copies : kept = {k} /\ Preferred(preserve, k, copies)
  <2>1. Cardinality(copies) \in Nat
    BY <1>6, <1>7, LiveVersions, FS_Subset, FS_CardinalityType
  <2>2. CASE Cardinality(copies) < 2 \/ outside = copies
    BY <1>5, <1>6, <2>1, <2>2 DEF Stay
  <2>3. CASE ~(Cardinality(copies) < 2 \/ outside = copies)
    <3> DEFINE k == ChooseKeeper(db, preserve, copies)
    <3>1. Cardinality(copies) >= 2 /\ \E f \in copies : PathOf(db, f) \in filter
      BY <2>1, <2>3
    <3>2. kept = copies \ ToDelete(db, preserve, filter, copies)
      BY <1>5, <1>6, <3>1 DEF Stay
    <3>3. k \in copies /\ Preferred(preserve, k, copies)
      BY <1>6, <1>7, <3>1, KeeperIsPreferred
    <3> HIDE DEF k
    <3>4. CASE outside # {}
      <4>1. { f \in copies : PathOf(db, f) \in filter } # copies
        BY <3>4
      <4>2. ToDelete(db, preserve, filter, copies) = { f \in copies : PathOf(db, f) \in filter }
        BY <4>1 DEF ToDelete
      <4>3. kept = outside
        BY <3>2, <4>2
      <4>4. QED
        BY <2>3, <3>4, <4>3
    <3>5. CASE outside = {}
      <4>1. { f \in copies : PathOf(db, f) \in filter } = copies
        BY <3>5
      <4>2. ToDelete(db, preserve, filter, copies) = copies \ {k}
        BY <4>1 DEF ToDelete, k
      <4>3. kept = {k}
        BY <3>2, <3>3, <4>2
      <4>4. QED
        BY <2>3, <3>3, <3>5, <4>3
    <3>6. QED
      BY <3>4, <3>5
  <2>4. QED
    BY <2>2, <2>3
<1>9. QED
  BY <1>6, <1>8 DEF RulesKept, copies, kept
-----------------------------------------------------------------------------
(* Deletes alone: runs one after another, with any filters, policies and   *)
(* failures, from any database whose tables agree and any disk.            *)

DeletesAlone == WorldInv /\ DeleteInit /\ [][DeleteNext]_<<worldVars, deleteVars>>

DeletesInv == WorldInv /\ DeleteInv /\ CopyInv /\ RerunInv /\ RulesInv

(* A path holds at most one file. *)
LEMMA AtMostOne ==
  ASSUME NEW time, NEW S \in FilesAt(time)
  PROVE  Cardinality(S) <= 1
<1>1. CASE S = {}
  BY <1>1, FS_EmptySet
<1>2. ASSUME NEW h \in Hashes, NEW t \in 0..time, S = {File(h, t)}
      PROVE  Cardinality(S) <= 1
  <2> DEFINE f == File(h, t)
  <2> HIDE DEF f
  <2>1. Cardinality({f}) = 1
    BY FS_Singleton
  <2>2. QED
    BY <1>2, <2>1 DEF f
<1>3. QED
  BY <1>1, <1>2 DEF FilesAt

(* What DeleteInv says of a run, as its type invariant says it.            *)
LEMMA DeleteTypes ==
  ASSUME DeleteInv
  PROVE  DeleteTypeOK
<1>1. \A p \in Paths : Cardinality(before[p]) <= 1
  <2> TAKE p \in Paths
  <2>1. before[p] \in FilesAt(MaxTime)
    BY DEF DeleteInv
  <2>2. QED
    BY <2>1, AtMostOne
<1>2. /\ groups \in Seq(SUBSET LiveIn(db))
      /\ plan \in Seq(LiveIn(db))
      /\ removed \subseteq LiveIn(db)
      /\ LiveIn(db) \subseteq DOMAIN db.file_state
  BY DEF DeleteInv, LiveIn
<1>3. /\ \A i \in DOMAIN groups : groups[i] \in SUBSET LiveIn(db)
      /\ \A i \in DOMAIN plan : plan[i] \in LiveIn(db)
  BY <1>2, ElementOfSeq, LenProperties
<1>4. \A f \in UNION Range(groups) : \E i \in DOMAIN groups : f \in groups[i]
  BY DEF Range
<1>5. Range(plan) \subseteq LiveIn(db)
  BY <1>3 DEF Range
<1>6. (UNION Range(groups)) \subseteq LiveIn(db)
  BY <1>3, <1>4
<1>7. (UNION Range(groups)) \cap (Range(plan) \cup removed) = {}
  BY <1>4 DEF DeleteInv
<1>8. /\ deleting \in BOOLEAN /\ filter \in SUBSET Paths /\ preserve \in AllPolicies
      /\ IsInjective(plan) /\ Range(plan) \cap removed = {} /\ trusted \in BOOLEAN
  BY DEF DeleteInv
<1>9. QED
  BY <1>1, <1>2, <1>5, <1>6, <1>7, <1>8 DEF DeleteTypeOK

(* No run has started. *)
LEMMA NoRun ==
  ASSUME DeleteInit
  PROVE  DeleteInv /\ CopyInv /\ RerunInv /\ RulesInv
<1>1. /\ deleting = FALSE /\ filter = {} /\ preserve = "Oldest" /\ trusted = FALSE
      /\ groups = <<>> /\ plan = <<>> /\ removed = {}
      /\ before = [p \in Paths |-> {}]
  BY DEF DeleteInit
<1>2. before \in [Paths -> FilesAt(MaxTime)]
  BY <1>1 DEF FilesAt
<1>3. /\ groups \in Seq(SUBSET LiveIn(db)) /\ plan \in Seq(LiveIn(db))
      /\ IsInjective(plan) /\ Range(plan) = {} /\ DOMAIN groups = {}
  BY <1>1, EmptyQueue
<1>4. DeleteInv
  BY <1>1, <1>2, <1>3 DEF DeleteInv, AllPolicies
<1>5. QED
  BY <1>1, <1>4 DEF CopyInv, RerunInv, RulesInv

(* The invariant of deletes alone is inductive. *)
LEMMA DeletesInvHolds == DeletesAlone => []DeletesInv
<1>1. WorldInv /\ DeleteInit => DeletesInv
  BY NoRun DEF DeletesInv
<1>2. DeletesInv /\ [DeleteNext]_<<worldVars, deleteVars>> => DeletesInv'
  <2>1. CASE DeleteNext
    BY <2>1, DeleteKeepsWorld, DeleteTyped, CopiesKept, RerunKept, RulesFollowed DEF DeletesInv
  <2>2. CASE UNCHANGED <<worldVars, deleteVars>>
    <3>1. UNCHANGED <<db, disk, now, faults, deleting, filter, preserve, groups,
                      plan, removed, trusted, before>>
      BY <2>2 DEF worldVars, deleteVars
    <3>2. DeletesInv => WorldInv' /\ DeleteInv' /\ RerunInv'
      BY <3>1 DEF DeletesInv, WorldInv, DeleteInv, RerunInv, DealtWith
    <3>3. DeletesInv => CopyInv' /\ RulesInv'
      BY <3>1, OthersKeepCopies, OthersKeepRules DEF DeletesInv
    <3>4. QED
      BY <3>2, <3>3 DEF DeletesInv
  <2>3. QED
    BY <2>1, <2>2
<1>3. QED
  BY <1>1, <1>2, PTL DEF DeletesAlone

(* A run holds nothing but versions of the database, each in one place.    *)
THEOREM DeleteTypeCorrect == DeletesAlone => []DeleteTypeOK
<1>1. DeletesInv => DeleteTypeOK
  BY DeleteTypes DEF DeletesInv
<1>2. QED
  BY <1>1, DeletesInvHolds, PTL

(* Where the database was true at the start of a run, no step of it leaves *)
(* a content without a copy, wherever the run is broken off.               *)
THEOREM NoLastCopyDeleted == DeletesAlone => []LastCopyKept
<1>1. DeletesInv => LastCopyKept
  BY DEF DeletesInv, CopyInv, LastCopyKept
<1>2. QED
  BY <1>1, DeletesInvHolds, PTL

(* A run that finishes on a true database has kept of each content what    *)
(* docs/specs.md section 13 says, for every filter, policy and group.      *)
THEOREM RulesAreFollowed == DeletesAlone => OutcomeByRules
<1>1. DeletesInv => (DeleteFinish /\ trusted => \A h \in Hashes : RulesKept(h))
  BY RulesAtEnd DEF DeletesInv
<1>2. QED
  BY <1>1, DeletesInvHolds, PTL DEF OutcomeByRules

(* A run that finishes leaves the same command no group, however stale the *)
(* database was.                                                           *)
THEOREM NothingLeftToDelete == DeletesAlone => RerunFindsNothing
<1>1. DeletesInv => (DeleteFinish => DupeGroups(db', filter) = {})
  BY NothingLeft DEF DeletesInv
<1>2. QED
  BY <1>1, DeletesInvHolds, PTL DEF RerunFindsNothing
=============================================================================
