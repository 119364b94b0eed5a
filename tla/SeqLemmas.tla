----------------------------- MODULE SeqLemmas ------------------------------
(***************************************************************************)
(* Facts about numbers and sequences that the proofs about the components  *)
(* cite: the least number of a set, induction in the form of a set of      *)
(* numbers, and what queues without duplicates do.                         *)
(***************************************************************************)
EXTENDS SequencesExt, FiniteSetTheorems, SequenceTheorems, TLAPS

(* A set of numbers that is not empty has a least one. *)
LEMMA LeastNumber ==
  ASSUME NEW S \in SUBSET Nat, S # {}
  PROVE  \E n \in S : \A m \in S : n <= m
<1> DEFINE R == OpToRel(<, Nat)
<1>1. IsWellFoundedOn(R, Nat)
  BY NatLessThanWellFounded
<1>2. \A x, y \in Nat : <<x, y>> \in R <=> x < y
  BY DEF OpToRel
<1> HIDE DEF R
<1>3. PICK n \in S : \A m \in S : ~(<<m, n>> \in R)
  BY <1>1, WFMin
<1>4. \A m \in S : ~(m < n)
  BY <1>2, <1>3
<1>5. QED
  BY <1>4

(* Induction: a set with 0 and with the successor of each of its numbers   *)
(* up to a limit has all numbers up to that limit.                         *)
LEMMA NumbersUpTo ==
  ASSUME NEW T, NEW n \in Nat, 0 \in T, \A m \in T : m \in 0..(n - 1) => m + 1 \in T
  PROVE  0..n \subseteq T
<1> DEFINE S == { m \in 0..n : m \notin T }
<1>1. ASSUME S # {} PROVE FALSE
  <2>1. S \in SUBSET Nat
    OBVIOUS
  <2>2. \E m \in S : \A k \in S : m <= k
    <3> HIDE DEF S
    <3>1. QED
      BY <1>1, <2>1, LeastNumber
  <2>3. PICK m \in S : \A k \in S : m <= k
    BY <2>2
  <2>4. m \in 0..n /\ m \notin T
    OBVIOUS
  <2>5. m # 0
    BY <2>4
  <2>6. m - 1 \in 0..(n - 1) /\ (m - 1) + 1 = m /\ m - 1 \in 0..n /\ ~(m <= m - 1)
    BY <2>4, <2>5
  <2>7. m - 1 \in T
    BY <2>3, <2>6
  <2>8. QED
    BY <2>4, <2>6, <2>7
<1>2. QED
  BY <1>1

-----------------------------------------------------------------------------
(* Queues *)

(* The empty queue has no elements. *)
LEMMA EmptyQueue ==
  /\ \A S : <<>> \in Seq(S)
  /\ Len(<<>>) = 0
  /\ Range(<<>>) = {}
  /\ IsInjective(<<>>)
  BY EmptySeq DEF Range, IsInjective

(* Appending adds one element, and no duplicate if it is a new one. *)
LEMMA AppendQueue ==
  ASSUME NEW S, NEW s \in Seq(S), NEW e \in S
  PROVE  /\ Append(s, e) \in Seq(S)
         /\ Len(Append(s, e)) = Len(s) + 1
         /\ Range(Append(s, e)) = Range(s) \cup {e}
         /\ IsInjective(s) /\ e \notin Range(s) => IsInjective(Append(s, e))
<1> DEFINE t == Append(s, e)
<1>1. /\ DOMAIN t = 1..(Len(s) + 1)
      /\ DOMAIN s = 1..Len(s)
      /\ Len(s) \in Nat
      /\ \A i \in 1..Len(s) : t[i] = s[i]
      /\ t[Len(s) + 1] = e
  BY AppendProperties, LenProperties
<1> HIDE DEF t
<1>2. Range(t) = Range(s) \cup {e}
  BY <1>1 DEF Range
<1>3. ASSUME IsInjective(s), e \notin Range(s)
      PROVE  IsInjective(t)
  BY <1>1, <1>3 DEF Range, IsInjective
<1>4. QED
  BY <1>2, <1>3, AppendProperties DEF t

(* Taking the head takes just that element out of a queue without          *)
(* duplicates.                                                             *)
LEMMA TailQueue ==
  ASSUME NEW S, NEW s \in Seq(S), s # <<>>
  PROVE  /\ Head(s) \in S
         /\ Tail(s) \in Seq(S)
         /\ Len(Tail(s)) = Len(s) - 1
         /\ Head(s) \in Range(s)
         /\ Range(s) = Range(Tail(s)) \cup {Head(s)}
         /\ IsInjective(s) => /\ IsInjective(Tail(s))
                              /\ Head(s) \notin Range(Tail(s))
<1> DEFINE t == Tail(s)
<1>1. /\ Len(s) \in Nat \ {0}
      /\ DOMAIN s = 1..Len(s)
      /\ DOMAIN t = 1..(Len(s) - 1)
      /\ \A i \in 1..(Len(s) - 1) : t[i] = s[i + 1]
      /\ Head(s) = s[1]
  BY HeadTailProperties, LenProperties, EmptySeq
<1> HIDE DEF t
<1>2. ASSUME NEW i \in DOMAIN s, i # 1
      PROVE  i - 1 \in DOMAIN t /\ t[i - 1] = s[i]
  <2>1. i - 1 \in 1..(Len(s) - 1) /\ (i - 1) + 1 = i
    BY <1>1, <1>2
  <2>2. QED
    BY <1>1, <2>1
<1>3. Range(s) = Range(t) \cup {s[1]}
  <2>1. ASSUME NEW x \in Range(s) PROVE x \in Range(t) \cup {s[1]}
    BY <1>2, <2>1 DEF Range
  <2>2. ASSUME NEW x \in Range(t) PROVE x \in Range(s)
    BY <1>1, <2>2 DEF Range
  <2>3. s[1] \in Range(s)
    BY <1>1 DEF Range
  <2>4. QED
    BY <2>1, <2>2, <2>3
<1>4. ASSUME IsInjective(s)
      PROVE  IsInjective(t) /\ s[1] \notin Range(t)
  <2>1. ASSUME NEW i \in DOMAIN t, NEW j \in DOMAIN t, t[i] = t[j]
        PROVE  i = j
    <3>1. /\ i \in 1..(Len(s) - 1) /\ j \in 1..(Len(s) - 1)
          /\ i + 1 \in DOMAIN s /\ j + 1 \in DOMAIN s
      BY <1>1
    <3>2. s[i + 1] = s[j + 1]
      BY <1>1, <2>1, <3>1
    <3>3. i + 1 = j + 1
      BY <1>4, <3>1, <3>2 DEF IsInjective
    <3>4. QED
      BY <3>1, <3>3
  <2>2. ASSUME NEW i \in DOMAIN t, t[i] = s[1]
        PROVE  FALSE
    <3>1. i \in 1..(Len(s) - 1) /\ i + 1 \in DOMAIN s /\ 1 \in DOMAIN s /\ i + 1 # 1
      BY <1>1
    <3>2. s[i + 1] = s[1]
      BY <1>1, <2>2, <3>1
    <3>3. QED
      BY <1>4, <3>1, <3>2 DEF IsInjective
  <2>3. QED
    BY <2>1, <2>2 DEF IsInjective, Range
<1>5. QED
  BY <1>1, <1>3, <1>4, HeadTailProperties DEF t

(* One queue put behind another: the elements of both, and no duplicate if *)
(* neither has any and they have none in common.                           *)
LEMMA ConcatQueue ==
  ASSUME NEW S, NEW s \in Seq(S), NEW t \in Seq(S)
  PROVE  /\ s \o t \in Seq(S)
         /\ Len(s \o t) = Len(s) + Len(t)
         /\ Range(s \o t) = Range(s) \cup Range(t)
         /\ IsInjective(s) /\ IsInjective(t) /\ Range(s) \cap Range(t) = {}
              => IsInjective(s \o t)
<1> DEFINE u == s \o t
<1>1. /\ Len(s) \in Nat /\ Len(t) \in Nat
      /\ DOMAIN s = 1..Len(s) /\ DOMAIN t = 1..Len(t)
      /\ DOMAIN u = 1..(Len(s) + Len(t))
      /\ \A i \in 1..(Len(s) + Len(t)) : u[i] = IF i <= Len(s) THEN s[i] ELSE t[i - Len(s)]
  BY ConcatProperties, LenProperties
<1>2. Range(u) = Range(s) \cup Range(t)
  BY RangeConcatenation
<1> HIDE DEF u
<1>3. ASSUME IsInjective(s), IsInjective(t), Range(s) \cap Range(t) = {}
      PROVE  IsInjective(u)
  <2> SUFFICES ASSUME NEW i \in DOMAIN u, NEW j \in DOMAIN u, u[i] = u[j]
               PROVE  i = j
    BY DEF IsInjective
  <2>1. CASE i <= Len(s) /\ j <= Len(s)
    BY <1>1, <1>3, <2>1 DEF IsInjective
  <2>2. CASE ~(i <= Len(s)) /\ ~(j <= Len(s))
    <3>1. i - Len(s) \in DOMAIN t /\ j - Len(s) \in DOMAIN t
      BY <1>1, <2>2
    <3>2. t[i - Len(s)] = t[j - Len(s)]
      BY <1>1, <2>2
    <3>3. QED
      BY <1>1, <1>3, <3>1, <3>2 DEF IsInjective
  <2>3. CASE i <= Len(s) /\ ~(j <= Len(s))
    <3>1. u[i] \in Range(s)
      BY <1>1, <2>3 DEF Range
    <3>2. j - Len(s) \in DOMAIN t /\ u[j] = t[j - Len(s)]
      BY <1>1, <2>3
    <3>3. u[j] \in Range(t)
      BY <3>2 DEF Range
    <3>4. QED
      BY <1>3, <3>1, <3>3
  <2>4. CASE ~(i <= Len(s)) /\ j <= Len(s)
    <3>1. u[j] \in Range(s)
      BY <1>1, <2>4 DEF Range
    <3>2. i - Len(s) \in DOMAIN t /\ u[i] = t[i - Len(s)]
      BY <1>1, <2>4
    <3>3. u[i] \in Range(t)
      BY <3>2 DEF Range
    <3>4. QED
      BY <1>3, <3>1, <3>3
  <2>5. QED
    BY <2>1, <2>2, <2>3, <2>4
<1>4. QED
  BY <1>2, <1>3, ConcatProperties DEF u

(* A queue that is cut off the front of a longer one. *)
LEMMA CutFront ==
  ASSUME NEW S, NEW s \in Seq(S), NEW t \in Seq(S)
  PROVE  /\ SubSeq(s \o t, 1, Len(s)) = s
         /\ SubSeq(s \o t, Len(s) + 1, Len(s \o t)) = t
<1> DEFINE u == s \o t
           front == SubSeq(u, 1, Len(s))
           rest == SubSeq(u, Len(s) + 1, Len(u))
<1>1. /\ Len(s) \in Nat /\ Len(t) \in Nat /\ Len(u) = Len(s) + Len(t)
      /\ \A i \in 1..Len(s) : u[i] = s[i]
      /\ \A i \in 1..Len(t) : u[Len(s) + i] = t[i]
      /\ \A i \in 1..Len(u) : u[i] \in S
  <2>1. Len(s) \in Nat /\ Len(t) \in Nat
    BY LenProperties
  <2>2. /\ u \in Seq(S)
        /\ Len(u) = Len(s) + Len(t)
        /\ \A i \in 1..(Len(s) + Len(t)) : u[i] = IF i <= Len(s) THEN s[i] ELSE t[i - Len(s)]
    BY ConcatProperties
  <2> HIDE DEF u
  <2>3. \A i \in 1..Len(t) : Len(s) + i \in 1..(Len(s) + Len(t)) /\ (Len(s) + i) - Len(s) = i
                            /\ ~(Len(s) + i <= Len(s))
    BY <2>1
  <2>4. \A i \in 1..Len(u) : u[i] \in S
    BY <2>2, ElementOfSeq
  <2>5. ASSUME NEW i \in 1..Len(s)
        PROVE  u[i] = s[i]
    <3>1. i \in 1..(Len(s) + Len(t)) /\ i <= Len(s)
      BY <2>1
    <3>2. QED
      BY <2>2, <3>1
  <2>6. ASSUME NEW i \in 1..Len(t)
        PROVE  u[Len(s) + i] = t[i]
    <3> DEFINE j == Len(s) + i
    <3>1. j \in 1..(Len(s) + Len(t)) /\ ~(j <= Len(s)) /\ j - Len(s) = i
      BY <2>3
    <3> HIDE DEF j
    <3>2. u[j] = t[i]
      BY <2>2, <3>1
    <3>3. QED
      BY <3>2 DEF j
  <2>7. QED
    BY <2>1, <2>2, <2>4, <2>5, <2>6
<1> HIDE DEF u
<1>2. front = s
  <2>1. /\ front \in Seq(S)
        /\ Len(front) = IF 1 <= Len(s) THEN Len(s) - 1 + 1 ELSE 0
        /\ \A i \in 1..(Len(s) - 1 + 1) : front[i] = u[1 + i - 1]
    BY <1>1, SubSeqProperties
  <2> HIDE DEF front
  <2>2. Len(front) = Len(s) /\ \A i \in 1..Len(front) : front[i] = s[i]
    BY <1>1, <2>1
  <2>3. QED
    BY <2>1, <2>2, SeqEqual
<1>3. rest = t
  <2>1. /\ rest \in Seq(S)
        /\ Len(rest) = IF Len(s) + 1 <= Len(u) THEN Len(u) - (Len(s) + 1) + 1 ELSE 0
        /\ \A i \in 1..(Len(u) - (Len(s) + 1) + 1) : rest[i] = u[(Len(s) + 1) + i - 1]
    BY <1>1, SubSeqProperties
  <2> HIDE DEF rest
  <2>2. Len(rest) = Len(t)
    BY <1>1, <2>1
  <2>3. \A i \in 1..Len(t) : rest[i] = t[i]
    <3>1. Len(u) - (Len(s) + 1) + 1 = Len(t)
      BY <1>1
    <3>2. \A i \in 1..Len(t) : (Len(s) + 1) + i - 1 = Len(s) + i
      BY <1>1
    <3>3. QED
      BY <1>1, <2>1, <3>1, <3>2
  <2>4. QED
    BY <2>1, <2>2, <2>3, SeqEqual
<1>4. QED
  BY <1>2, <1>3 DEF front, rest, u

(* Moving the head of one queue behind another changes nothing of the two  *)
(* as one queue.                                                           *)
LEMMA MoveHead ==
  ASSUME NEW S, NEW s \in Seq(S), NEW t \in Seq(S), t # <<>>
  PROVE  Append(s, Head(t)) \o Tail(t) = s \o t
<1>1. Head(t) \in S /\ Tail(t) \in Seq(S) /\ Len(t) \in Nat \ {0}
  BY HeadTailProperties, EmptySeq
<1>2. Append(s, Head(t)) = s \o <<Head(t)>>
  BY <1>1, AppendIsConcat
<1>3. <<Head(t)>> \o Tail(t) = t
  <2>1. t = SubSeq(t, 1, Len(t))
    BY SubSeqFull
  <2>2. SubSeq(t, 1, Len(t)) = <<t[1]>> \o SubSeq(t, 2, Len(t))
    BY <1>1, SubSeqRecursiveFirst
  <2>3. QED
    BY <2>1, <2>2, TailIsSubSeq
<1>4. <<Head(t)>> \in Seq(S)
  BY <1>1
<1>5. (s \o <<Head(t)>>) \o Tail(t) = s \o (<<Head(t)>> \o Tail(t))
  BY <1>1, <1>4, ConcatAssociative
<1>6. QED
  BY <1>2, <1>3, <1>5

(* Appending to the second of two queues appends to the two as one queue.  *)
LEMMA AppendBehind ==
  ASSUME NEW S, NEW s \in Seq(S), NEW t \in Seq(S), NEW e \in S
  PROVE  s \o Append(t, e) = Append(s \o t, e)
<1>1. s \o t \in Seq(S) /\ <<e>> \in Seq(S)
  BY ConcatProperties
<1>2. Append(t, e) = t \o <<e>> /\ Append(s \o t, e) = (s \o t) \o <<e>>
  BY <1>1, AppendIsConcat
<1>3. QED
  BY <1>1, <1>2, ConcatAssociative

(* A queue without duplicates is as long as it has elements. *)
LEMMA QueueCount ==
  ASSUME NEW S, NEW s \in Seq(S), IsInjective(s)
  PROVE  IsFiniteSet(Range(s)) /\ Cardinality(Range(s)) = Len(s)
<1>1. Len(s) \in Nat /\ DOMAIN s = 1..Len(s) /\ s \in [1..Len(s) -> S]
  BY LenProperties
<1>2. s \in Bijection(1..Len(s), Range(s))
  <2>1. s \in [1..Len(s) -> Range(s)]
    BY <1>1 DEF Range
  <2>2. \A x \in Range(s) : \E i \in 1..Len(s) : s[i] = x
    BY <1>1 DEF Range
  <2>3. QED
    BY <2>1, <2>2 DEF Bijection, Injection, Surjection
<1>3. ExistsBijection(1..Len(s), Range(s))
  BY <1>2 DEF ExistsBijection
<1>4. IsFiniteSet(1..Len(s)) /\ Cardinality(1..Len(s)) = Len(s)
  BY <1>1, FS_Interval
<1>5. QED
  BY <1>3, <1>4, FS_Bijection

(* Two sets with nothing in common. *)
LEMMA DisjointCount ==
  ASSUME NEW S, NEW T, IsFiniteSet(S), IsFiniteSet(T), S \cap T = {}
  PROVE  /\ IsFiniteSet(S \cup T)
         /\ Cardinality(S \cup T) = Cardinality(S) + Cardinality(T)
<1>1. Cardinality(S) \in Nat /\ Cardinality(T) \in Nat
  BY FS_CardinalityType
<1>2. /\ IsFiniteSet(S \cup T)
      /\ Cardinality(S \cup T) = Cardinality(S) + Cardinality(T) - Cardinality({})
  BY FS_Union
<1>3. Cardinality({}) = 0
  BY FS_EmptySet
<1>4. QED
  BY <1>1, <1>2, <1>3

(* The sequence of the elements of a set of one. *)
LEMMA SingletonSeq == ASSUME NEW x PROVE SetToSeq({x}) = <<x>>
<1>1. Cardinality({x}) = 1
  BY FS_Singleton
<1>2. \A f \in [1..1 -> {x}] : f = <<x>> /\ IsInjective(f)
  BY DEF IsInjective
<1>3. <<x>> \in [1..1 -> {x}]
  OBVIOUS
<1>4. QED
  BY <1>1, <1>2, <1>3 DEF SetToSeq

-----------------------------------------------------------------------------
(* Sorting *)

(* A finite set that is not empty has an element that none is ranked       *)
(* above: one that the most elements are not above.                        *)
LEMMA HighestRank ==
  ASSUME NEW S, IsFiniteSet(S), S # {}, NEW rank, \A x \in S : rank[x] \in Nat
  PROVE  \E x \in S : \A y \in S : rank[y] <= rank[x]
<1> DEFINE Below(x) == { y \in S : rank[y] <= rank[x] }
           Count(x) == Cardinality(S) - Cardinality(Below(x))
           N == { Count(x) : x \in S }
<1>1. ASSUME NEW x \in S
      PROVE  /\ IsFiniteSet(Below(x))
             /\ Cardinality(Below(x)) \in Nat
             /\ Cardinality(S) \in Nat
             /\ Cardinality(Below(x)) <= Cardinality(S)
  BY FS_Subset, FS_CardinalityType
<1>2. N \in SUBSET Nat /\ N # {}
  <2>1. \A x \in S : Count(x) \in Nat
    <3> HIDE DEF Below
    <3>1. QED
      BY <1>1
  <2> HIDE DEF Count
  <2>2. QED
    BY <2>1
<1>3. PICK x \in S : \A y \in S : Count(x) <= Count(y)
  <2> HIDE DEF Count
  <2>1. PICK n \in N : \A m \in N : n <= m
    BY <1>2, LeastNumber
  <2>2. QED
    BY <2>1
<1>4. ASSUME NEW y \in S
      PROVE  rank[y] <= rank[x]
  <2>1. SUFFICES ASSUME rank[x] < rank[y]
                 PROVE  FALSE
    OBVIOUS
  <2>2. Below(x) \subseteq Below(y) /\ y \in Below(y) /\ y \notin Below(x)
    BY <2>1
  <2>3. /\ Cardinality(Below(x)) <= Cardinality(Below(y))
        /\ Cardinality(Below(x)) # Cardinality(Below(y))
    BY <1>1, <2>2, FS_Subset
  <2>4. Count(x) <= Count(y)
    BY <1>3
  <2> HIDE DEF Below
  <2>5. QED
    BY <1>1, <2>3, <2>4
<1>5. QED
  BY <1>4

(* s is the elements of S in the order of their ranks. *)
SortOf(S, rank, s) ==
  /\ s \in [1..Cardinality(S) -> S]
  /\ IsInjective(s)
  /\ \A i, j \in DOMAIN s : i < j => rank[s[i]] <= rank[s[j]]

(* Every finite set can be sorted: put its highest element last.           *)
LEMMA CanBeSorted ==
  ASSUME NEW U, NEW rank, \A x \in U : rank[x] \in Nat, NEW n \in Nat
  PROVE  \A S \in SUBSET U : IsFiniteSet(S) /\ Cardinality(S) = n => \E s : SortOf(S, rank, s)
<1> DEFINE Sortable(m) == \A S \in SUBSET U :
             IsFiniteSet(S) /\ Cardinality(S) = m => \E s : SortOf(S, rank, s)
           T == { m \in 0..n : Sortable(m) }
<1>1. 0 \in T
  <2>1. ASSUME NEW S \in SUBSET U, IsFiniteSet(S), Cardinality(S) = 0
        PROVE  \E s : SortOf(S, rank, s)
    <3>1. S = {}
      BY <2>1, FS_EmptySet
    <3> DEFINE s == [i \in 1..0 |-> i]
    <3>2. SortOf(S, rank, s)
      BY <2>1, <3>1 DEF SortOf, IsInjective
    <3> HIDE DEF s
    <3>3. QED
      BY <3>2
  <2>2. QED
    BY <2>1
<1>2. ASSUME NEW m \in T, m \in 0..(n - 1)
      PROVE  m + 1 \in T
  <2>1. m \in Nat /\ m + 1 \in 0..n
    BY <1>2
  <2>2. ASSUME NEW S \in SUBSET U, IsFiniteSet(S), Cardinality(S) = m + 1
        PROVE  \E s : SortOf(S, rank, s)
    <3>1. S # {}
      BY <2>1, <2>2, FS_EmptySet
    <3>2. PICK x \in S : \A y \in S : rank[y] <= rank[x]
      BY <2>2, <3>1, HighestRank
    <3> DEFINE R == S \ {x}
    <3>3. IsFiniteSet(R) /\ Cardinality(R) = m
      <4>1. IsFiniteSet(R) /\ Cardinality(R) = Cardinality(S) - 1
        BY <2>2, FS_RemoveElement
      <4> HIDE DEF R
      <4>2. QED
        BY <2>1, <2>2, <4>1
    <3>4. PICK r : SortOf(R, rank, r)
      <4>1. Sortable(m)
        OBVIOUS
      <4> HIDE DEF R
      <4>2. R \in SUBSET U
        BY DEF R
      <4>3. QED
        BY <3>3, <4>1, <4>2
    <3>5. /\ r \in [1..m -> R]
          /\ \A i, j \in 1..m : r[i] = r[j] => i = j
          /\ \A i, j \in 1..m : i < j => rank[r[i]] <= rank[r[j]]
      BY <3>3, <3>4 DEF SortOf, IsInjective
    <3> DEFINE s == [i \in 1..(m + 1) |-> IF i = m + 1 THEN x ELSE r[i]]
    <3>6. \A i \in 1..(m + 1) : i # m + 1 => i \in 1..m /\ s[i] = r[i] /\ s[i] \in R
      BY <2>1, <3>5
    <3>7. s[m + 1] = x /\ DOMAIN s = 1..(m + 1) /\ s = [i \in 1..(m + 1) |-> s[i]]
      BY <2>1
    <3> HIDE DEF s
    <3>8. \A i \in 1..(m + 1) : s[i] \in S
      BY <3>6, <3>7
    <3>9. s \in [1..(m + 1) -> S]
      BY <3>7, <3>8
    <3>10. \A i, j \in 1..(m + 1) : s[i] = s[j] => i = j
      BY <3>5, <3>6, <3>7
    <3>11. ASSUME NEW i \in 1..(m + 1), NEW j \in 1..(m + 1), i < j
           PROVE  rank[s[i]] <= rank[s[j]]
      <4>1. i # m + 1
        BY <2>1, <3>11
      <4>2. CASE j = m + 1
        BY <3>2, <3>7, <3>8, <4>2
      <4>3. CASE j # m + 1
        BY <3>5, <3>6, <3>11, <4>1, <4>3
      <4>4. QED
        BY <4>2, <4>3
    <3>12. SortOf(S, rank, s)
      BY <2>2, <3>7, <3>9, <3>10, <3>11 DEF SortOf, IsInjective
    <3>13. QED
      BY <3>12
  <2>3. QED
    BY <2>1, <2>2
<1> HIDE DEF Sortable
<1>3. n \in T
  <2> HIDE DEF T
  <2>1. 0..n \subseteq T
    BY <1>1, <1>2, NumbersUpTo
  <2>2. QED
    BY <2>1
<1>4. Sortable(n)
  BY <1>3
<1>5. QED
  BY <1>4 DEF Sortable

-----------------------------------------------------------------------------
(* Along a sequence *)

(* A sequence is its front and its last element.                           *)
LEMMA FrontLast ==
  ASSUME NEW S, NEW s \in Seq(S), s # <<>>
  PROVE  /\ Front(s) \in Seq(S) /\ Last(s) \in S
         /\ Len(s) \in Nat \ {0} /\ Len(Front(s)) = Len(s) - 1
         /\ s = Append(Front(s), Last(s))
<1> DEFINE n == Len(s)
           q == Front(s)
<1>1. n \in Nat \ {0} /\ Last(s) = s[n]
  BY LenProperties, EmptySeq DEF Last
<1>2. q \in Seq(S) /\ Len(q) = n - 1 /\ \A i \in 1..(n - 1) : q[i] = s[i]
  <2>1. 1 \in Int /\ n - 1 \in Int /\ \A i \in 1..(n - 1) : s[i] \in S
    BY <1>1, ElementOfSeq
  <2>2. /\ SubSeq(s, 1, n - 1) \in Seq(S)
        /\ Len(SubSeq(s, 1, n - 1)) = IF 1 <= n - 1 THEN n - 1 - 1 + 1 ELSE 0
        /\ \A i \in 1..(n - 1 - 1 + 1) : SubSeq(s, 1, n - 1)[i] = s[1 + i - 1]
    BY <2>1, SubSeqProperties
  <2>3. \A i \in 1..(n - 1) : i \in 1..(n - 1 - 1 + 1) /\ 1 + i - 1 = i
    BY <1>1
  <2>4. \A i \in 1..(n - 1) : SubSeq(s, 1, n - 1)[i] = s[i]
    BY <2>2, <2>3
  <2>5. Len(SubSeq(s, 1, n - 1)) = n - 1
    <3> DEFINE len == Len(SubSeq(s, 1, n - 1))
    <3>1. len = IF 1 <= n - 1 THEN n - 1 - 1 + 1 ELSE 0
      BY <2>2
    <3> HIDE DEF n, len
    <3>2. len = n - 1
      BY <1>1, <3>1
    <3>3. QED
      BY <3>2 DEF len
  <2>6. q = SubSeq(s, 1, n - 1)
    BY DEF Front
  <2> HIDE DEF q
  <2>7. QED
    BY <2>2, <2>4, <2>5, <2>6
<1>3. s[n] \in S
  BY <1>1, ElementOfSeq
<1> HIDE DEF q
<1>4. s = Append(q, s[n])
  <2>1. /\ Append(q, s[n]) \in Seq(S) /\ Len(Append(q, s[n])) = Len(q) + 1
        /\ \A i \in 1..Len(q) : Append(q, s[n])[i] = q[i]
        /\ Append(q, s[n])[Len(q) + 1] = s[n]
    BY <1>2, <1>3, AppendProperties
  <2>2. Len(s) = Len(Append(q, s[n])) /\ Len(q) + 1 = n
    BY <1>1, <1>2, <2>1
  <2>3. ASSUME NEW i \in 1..n
        PROVE  s[i] = Append(q, s[n])[i]
    <3>1. i = n \/ (i \in 1..(n - 1) /\ i \in 1..Len(q))
      BY <1>1, <1>2
    <3>2. QED
      BY <1>2, <2>1, <2>2, <3>1
  <2>4. QED
    BY <2>1, <2>2, <2>3, SeqEqual
<1>5. QED
  BY <1>1, <1>2, <1>3, <1>4 DEF q

(* And what is appended can be taken off again.                            *)
LEMMA FrontAppend ==
  ASSUME NEW S, NEW s \in Seq(S), NEW e \in S
  PROVE  /\ Append(s, e) \in Seq(S) /\ Append(s, e) # <<>>
         /\ Front(Append(s, e)) = s /\ Last(Append(s, e)) = e
<1> DEFINE t == Append(s, e)
<1>1. /\ t \in Seq(S) /\ t # <<>> /\ Len(t) = Len(s) + 1 /\ Len(s) \in Nat
      /\ \A i \in 1..Len(s) : t[i] = s[i]
      /\ t[Len(s) + 1] = e
  BY AppendProperties, LenProperties
<1> HIDE DEF t
<1>2. Last(t) = e
  BY <1>1 DEF Last
<1>3. Front(t) \in Seq(S) /\ Len(Front(t)) = Len(s) /\ t = Append(Front(t), e)
  BY <1>1, <1>2, FrontLast
<1>4. \A i \in 1..Len(s) : Front(t)[i] = t[i]
  BY <1>3, AppendProperties
<1>5. Front(t) = s
  BY <1>1, <1>3, <1>4, SeqEqual
<1>6. QED
  BY <1>1, <1>2, <1>5 DEF t

(* A prefix is one by position.                                            *)
LEMMA PrefixPoints ==
  ASSUME NEW S, NEW a \in Seq(S), NEW b \in Seq(S)
  PROVE  IsPrefix(a, b) <=> Len(a) <= Len(b) /\ \A i \in 1..Len(a) : a[i] = b[i]
<1> DEFINE k == Len(a)
<1>1. k \in Nat /\ Len(b) \in Nat
  BY LenProperties
<1>2. ASSUME Len(a) <= Len(b)
      PROVE  SubSeq(a, 1, k) = SubSeq(b, 1, k) <=> \A i \in 1..k : a[i] = b[i]
  <2>1. \A i \in 1..k : a[i] \in S /\ b[i] \in S
    BY <1>1, <1>2, ElementOfSeq
  <2>2. /\ SubSeq(a, 1, k) \in Seq(S) /\ SubSeq(b, 1, k) \in Seq(S)
        /\ Len(SubSeq(a, 1, k)) = IF 1 <= k THEN k - 1 + 1 ELSE 0
        /\ Len(SubSeq(b, 1, k)) = IF 1 <= k THEN k - 1 + 1 ELSE 0
        /\ \A i \in 1..(k - 1 + 1) : SubSeq(a, 1, k)[i] = a[1 + i - 1]
        /\ \A i \in 1..(k - 1 + 1) : SubSeq(b, 1, k)[i] = b[1 + i - 1]
    BY <1>1, <2>1, SubSeqProperties
  <2>3. \A i \in 1..k : i \in 1..(k - 1 + 1) /\ 1 + i - 1 = i
    BY <1>1
  <2>4. \A i \in 1..k : SubSeq(a, 1, k)[i] = a[i] /\ SubSeq(b, 1, k)[i] = b[i]
    BY <2>2, <2>3
  <2>5. Len(SubSeq(a, 1, k)) = k /\ Len(SubSeq(b, 1, k)) = k
    BY <1>1, <2>2
  <2>6. (\A i \in 1..k : a[i] = b[i]) => SubSeq(a, 1, k) = SubSeq(b, 1, k)
    BY <2>2, <2>4, <2>5, SeqEqual
  <2>7. QED
    BY <2>4, <2>6
<1>3. QED
  BY <1>2 DEF IsPrefix

(* The prefixes of a sequence are itself and those of its front.           *)
LEMMA PrefixStep ==
  ASSUME NEW S, NEW s \in Seq(S), NEW t \in Seq(S)
  PROVE  /\ IsPrefix(t, t)
         /\ IsPrefix(<<>>, t)
         /\ IsPrefix(s, t) <=> s = t \/ (t # <<>> /\ IsPrefix(s, Front(t)))
<1> DEFINE Same(a, b) == Len(a) <= Len(b) /\ \A i \in 1..Len(a) : a[i] = b[i]
<1>1. ASSUME NEW a \in Seq(S), NEW b \in Seq(S)
      PROVE  IsPrefix(a, b) <=> Same(a, b)
  BY PrefixPoints
<1>2. IsPrefix(t, t)
  BY <1>1, LenProperties
<1>3. IsPrefix(<<>>, t)
  <2>1. <<>> \in Seq(S) /\ Len(<<>>) = 0 /\ Len(t) \in Nat
    BY EmptySeq, LenProperties
  <2>2. Same(<<>>, t)
    BY <2>1
  <2>3. QED
    BY <1>1, <2>1, <2>2
<1>4. CASE t = <<>>
  <2>1. Len(t) = 0 /\ Len(s) \in Nat /\ (s # <<>> => Len(s) # 0)
    BY <1>4, EmptySeq, LenProperties
  <2>2. IsPrefix(s, t) => s = t
    <3>1. IsPrefix(s, t) => Same(s, t)
      BY <1>1
    <3>2. Same(s, t) => Len(s) = 0
      BY <2>1
    <3>3. QED
      BY <1>4, <2>1, <3>1, <3>2
  <2>3. QED
    BY <1>2, <1>3, <1>4, <2>2
<1>5. CASE t # <<>>
  <2> DEFINE q == Front(t)
             n == Len(t)
  <2>1. /\ q \in Seq(S) /\ Last(t) \in S /\ n \in Nat \ {0} /\ Len(q) = n - 1
        /\ t = Append(q, Last(t))
    BY <1>5, FrontLast
  <2>2. \A i \in 1..(n - 1) : t[i] = q[i]
    <3>1. \A i \in 1..Len(q) : Append(q, Last(t))[i] = q[i]
      BY <2>1, AppendProperties
    <3>2. QED
      BY <2>1, <3>1
  <2>3. Len(s) \in Nat
    BY LenProperties
  <2> HIDE DEF q, n
  <2>4. Same(s, q) => Same(s, t)
    <3>1. SUFFICES ASSUME Same(s, q) PROVE Same(s, t)
      OBVIOUS
    <3>2. Len(s) <= n /\ \A i \in 1..Len(s) : i \in 1..(n - 1)
      BY <2>1, <2>3, <3>1
    <3>3. QED
      BY <2>2, <3>1, <3>2 DEF n
  <2>5. Same(s, t) => s = t \/ Same(s, q)
    <3>1. SUFFICES ASSUME Same(s, t), s # t PROVE Same(s, q)
      OBVIOUS
    <3>2. Len(s) # n
      BY <3>1, SeqEqual DEF n
    <3>3. Len(s) <= Len(q) /\ \A i \in 1..Len(s) : i \in 1..(n - 1)
      BY <2>1, <2>3, <3>1, <3>2 DEF n
    <3>4. QED
      BY <2>2, <3>1, <3>3
  <2>6. /\ IsPrefix(s, t) <=> Same(s, t)
        /\ IsPrefix(s, q) <=> Same(s, q)
    BY <1>1, <2>1
  <2> HIDE DEF Same
  <2>7. QED
    BY <1>2, <1>3, <1>5, <2>4, <2>5, <2>6 DEF q
<1>6. QED
  BY <1>4, <1>5

(* The function by which a fold over positions 1 to n is defined.          *)
IsRow(step, base, n, row) ==
  row = [s \in SUBSET (1..n) |->
           IF s = {} THEN base ELSE step[Max(s)][row[s \ {Max(s)}]]]

(* There is such a function, with values in the set that the steps keep.   *)
LEMMA RowExists ==
  ASSUME NEW X, NEW base \in X, NEW n \in Nat, NEW step \in [1..n -> [X -> X]]
  PROVE  \E row \in [SUBSET (1..n) -> X] : IsRow(step, base, n, row)
<1> DEFINE T == { m \in 0..n : \E row \in [SUBSET (1..m) -> X] : IsRow(step, base, m, row) }
<1>1. 0 \in T
  <2> DEFINE f == [s \in SUBSET (1..0) |-> base]
  <2>1. \A s \in SUBSET (1..0) : s = {}
    OBVIOUS
  <2>2. IsRow(step, base, 0, f) /\ f \in [SUBSET (1..0) -> X]
    <3> DEFINE v(s) == IF s = {} THEN base ELSE step[Max(s)][f[s \ {Max(s)}]]
    <3>1. \A s \in SUBSET (1..0) : base = v(s)
      BY <2>1
    <3> HIDE DEF v
    <3>2. f = [s \in SUBSET (1..0) |-> v(s)]
      BY <3>1
    <3>3. QED
      BY <3>2 DEF IsRow, v
  <2> HIDE DEF f
  <2>3. \E row \in [SUBSET (1..0) -> X] : IsRow(step, base, 0, row)
    BY <2>2
  <2>4. 0 \in 0..n
    OBVIOUS
  <2>5. QED
    BY <2>3, <2>4
<1>2. ASSUME NEW m \in T, m \in 0..(n - 1)
      PROVE  m + 1 \in T
  <2>1. PICK f \in [SUBSET (1..m) -> X] : IsRow(step, base, m, f)
    OBVIOUS
  <2>2. \A s \in SUBSET (1..m) :
          f[s] = IF s = {} THEN base ELSE step[Max(s)][f[s \ {Max(s)}]]
    <3> DEFINE v(s) == IF s = {} THEN base ELSE step[Max(s)][f[s \ {Max(s)}]]
    <3>1. f = [s \in SUBSET (1..m) |-> v(s)]
      BY <2>1 DEF IsRow
    <3> HIDE DEF v
    <3>2. \A s \in SUBSET (1..m) : f[s] = v(s)
      BY <3>1
    <3>3. QED
      BY <3>2 DEF v
  <2> DEFINE k == m + 1
             g == [s \in SUBSET (1..k) |->
                     IF k \in s THEN step[k][f[s \ {k}]] ELSE f[s]]
  <2>0. m \in Nat /\ k \in 1..n /\ 1..k = 1..m \cup {k}
    BY <1>2
  <2>3. ASSUME NEW s \in SUBSET (1..k)
        PROVE  /\ g[s] = IF s = {} THEN base ELSE step[Max(s)][g[s \ {Max(s)}]]
               /\ g[s] \in X
    <3>1. CASE k \in s
      <4>1. Max(s) = k
        <5>1. \A x \in s : x \in 1..k /\ x <= k
          BY <2>0
        <5>2. \A y \in s : (\A x \in s : y >= x) => y = k
          BY <3>1, <5>1, <2>0
        <5>3. \A x \in s : k >= x
          BY <5>1, <2>0
        <5>4. QED
          BY <3>1, <5>2, <5>3 DEF Max
      <4>2. s \ {k} \in SUBSET (1..m) /\ s \ {k} \in SUBSET (1..k) /\ k \notin s \ {k}
        BY <2>0
      <4>3. g[s] = step[k][f[s \ {k}]] /\ g[s \ {k}] = f[s \ {k}]
        BY <3>1, <4>2
      <4>4. step[k][f[s \ {k}]] \in X
        BY <2>0, <4>2
      <4> HIDE DEF g
      <4>5. QED
        BY <3>1, <4>1, <4>3, <4>4
    <3>2. CASE k \notin s
      <4>1. s \in SUBSET (1..m)
        BY <3>2, <2>0
      <4>4. s \ {Max(s)} \in SUBSET (1..k) /\ k \notin s \ {Max(s)}
        BY <3>2
      <4>2. g[s] = f[s] /\ g[s \ {Max(s)}] = f[s \ {Max(s)}]
        BY <3>2, <4>4
      <4>3. QED
        BY <2>2, <4>1, <4>2
    <3>3. QED
      BY <3>1, <3>2
  <2>4. IsRow(step, base, k, g) /\ g \in [SUBSET (1..k) -> X]
    <3> DEFINE v(s) == IF s = {} THEN base ELSE step[Max(s)][g[s \ {Max(s)}]]
    <3>1. g = [s \in SUBSET (1..k) |-> g[s]]
      OBVIOUS
    <3> HIDE DEF g
    <3>2. \A s \in SUBSET (1..k) : g[s] = v(s) /\ g[s] \in X
      BY <2>3
    <3> HIDE DEF v
    <3>3. g = [s \in SUBSET (1..k) |-> v(s)]
      BY <3>1, <3>2
    <3>4. g \in [SUBSET (1..k) -> X]
      BY <3>1, <3>2
    <3>5. QED
      BY <3>3, <3>4 DEF IsRow, v
  <2> HIDE DEF g
  <2>5. QED
    BY <2>0, <2>4
<1> HIDE DEF T
<1>3. 0..n \subseteq T
  BY <1>1, <1>2, NumbersUpTo
<1>4. n \in T
  BY <1>3
<1>5. QED
  BY <1>4 DEF T

(* Numbers up to a bound have a greatest.                                  *)
LEMMA GreatestNumber ==
  ASSUME NEW n \in Nat, NEW s \in SUBSET (1..n), s # {}
  PROVE  Max(s) \in s
<1> DEFINE T == { m \in 0..n : \A t \in SUBSET (1..m) : t # {} => Max(t) \in t }
<1>1. 0 \in T
  <2>1. \A t \in SUBSET (1..0) : t = {}
    OBVIOUS
  <2>2. 0 \in 0..n
    OBVIOUS
  <2>3. QED
    BY <2>1, <2>2
<1>2. ASSUME NEW m \in T, m \in 0..(n - 1)
      PROVE  m + 1 \in T
  <2>0. m \in Nat /\ m + 1 \in 0..n /\ 1..(m + 1) = 1..m \cup {m + 1}
    BY <1>2
  <2>1. ASSUME NEW t \in SUBSET (1..(m + 1)), t # {}
        PROVE  Max(t) \in t
    <3>1. CASE m + 1 \in t
      <4>1. \A x \in t : m + 1 >= x
        BY <2>0
      <4>2. \E y \in t : \A x \in t : y >= x
        BY <3>1, <4>1
      <4>3. QED
        BY <4>2 DEF Max
    <3>2. CASE m + 1 \notin t
      <4>1. t \in SUBSET (1..m)
        BY <2>0, <3>2
      <4>2. QED
        BY <1>2, <2>1, <4>1
    <3>3. QED
      BY <3>1, <3>2
  <2>2. QED
    BY <2>0, <2>1
<1> HIDE DEF T
<1>3. 0..n \subseteq T
  BY <1>1, <1>2, NumbersUpTo
<1>4. n \in T
  BY <1>3
<1>5. QED
  BY <1>4 DEF T

(* Two walks that begin alike and go on alike end alike.                   *)
LEMMA RowsAgree ==
  ASSUME NEW n \in Nat, NEW a, NEW b, a[0] = b[0],
         \A m \in 1..n : a[m - 1] = b[m - 1] => a[m] = b[m]
  PROVE  a[n] = b[n]
<1> DEFINE T == { m \in 0..n : a[m] = b[m] }
<1>1. 0 \in T
  OBVIOUS
<1>2. ASSUME NEW m \in T, m \in 0..(n - 1)
      PROVE  m + 1 \in T
  <2>1. m + 1 \in 1..n /\ (m + 1) - 1 = m /\ m + 1 \in 0..n
    BY <1>2
  <2>2. QED
    BY <2>1
<1> HIDE DEF T
<1>3. n \in T
  BY <1>1, <1>2, NumbersUpTo
<1>4. QED
  BY <1>3 DEF T

(* One number more.                                                        *)
LEMMA UpTo ==
  ASSUME NEW n \in Nat, NEW m \in 1..n
  PROVE  /\ 1..m \in SUBSET (1..n) /\ 1..m # {}
         /\ (1..m) \ {m} = 1..(m - 1)
         /\ Max(1..m) = m
<1>1. m \in Nat /\ 1 <= m /\ m <= n
  OBVIOUS
<1>2. 1..m \in SUBSET (1..n) /\ 1 \in 1..m /\ (1..m) \ {m} = 1..(m - 1)
  BY <1>1
<1>3. Max(1..m) = m
  <2>1. \A y \in 1..m : (\A x \in 1..m : y >= x) => y = m
    OBVIOUS
  <2>2. m \in 1..m /\ \A x \in 1..m : m >= x
    OBVIOUS
  <2>3. QED
    BY <2>1, <2>2 DEF Max
<1>4. QED
  BY <1>2, <1>3

-----------------------------------------------------------------------------
(* Sums over finite sets *)

(* Induction over a finite set: a set of sets with the empty one and, with *)
(* each part of S it has, the part with one element more, has S itself.    *)
LEMMA PartByPart ==
  ASSUME NEW S, IsFiniteSet(S), NEW P, {} \in P,
         \A T \in SUBSET S, x \in S : T \in P /\ x \notin T => T \cup {x} \in P
  PROVE  S \in P
<1> DEFINE n == Cardinality(S)
           N == { m \in 0..n : \A T \in SUBSET S : Cardinality(T) = m => T \in P }
<1>1. n \in Nat
  BY FS_CardinalityType
<1>2. 0 \in N
  <2>1. \A T \in SUBSET S : Cardinality(T) = 0 => T = {}
    BY FS_Subset, FS_EmptySet
  <2>2. 0 \in 0..n
    BY <1>1
  <2>3. \A T \in SUBSET S : Cardinality(T) = 0 => T \in P
    BY <2>1
  <2> HIDE DEF n
  <2>4. QED
    BY <2>2, <2>3
<1>3. ASSUME NEW m \in N, m \in 0..(n - 1)
      PROVE  m + 1 \in N
  <2>1. ASSUME NEW T \in SUBSET S, Cardinality(T) = m + 1
        PROVE  T \in P
    <3>1. T # {}
      BY <1>3, <2>1, FS_EmptySet
    <3>2. PICK x \in T : TRUE
      BY <3>1
    <3> DEFINE U == T \ {x}
    <3>3. Cardinality(U) = m
      <4>1. IsFiniteSet(T)
        BY FS_Subset
      <4>2. Cardinality(U) = Cardinality(T) - 1
        BY <3>2, <4>1, FS_RemoveElement
      <4> HIDE DEF U
      <4>3. QED
        BY <1>3, <2>1, <4>2
    <3>4. U \in P
      <4>1. \A V \in SUBSET S : Cardinality(V) = m => V \in P
        OBVIOUS
      <4>2. U \in SUBSET S
        OBVIOUS
      <4> HIDE DEF U
      <4>3. QED
        BY <3>3, <4>1, <4>2
    <3>5. T = U \cup {x} /\ x \notin U /\ U \in SUBSET S /\ x \in S
      OBVIOUS
    <3> HIDE DEF U
    <3>6. QED
      BY <3>4, <3>5
  <2>2. m + 1 \in 0..n
    BY <1>1, <1>3
  <2>3. QED
    BY <2>1, <2>2
<1> HIDE DEF N
<1>4. n \in N
  BY <1>1, <1>2, <1>3, NumbersUpTo
<1>5. QED
  BY <1>4 DEF N

(* The function by which the sum of w over S is defined.                   *)
IsSum(w, S, sum) ==
  sum = [s \in SUBSET S |->
           IF s = {} THEN 0
           ELSE w[CHOOSE x \in s : TRUE] + sum[s \ {CHOOSE x \in s : TRUE}]]

(* There is such a function: what it is for sets of one more element       *)
(* follows from what it is for those of fewer.                             *)
LEMMA SumExists ==
  ASSUME NEW S, IsFiniteSet(S), NEW w
  PROVE  \E sum : IsSum(w, S, sum)
<1> DEFINE n == Cardinality(S)
           one(s) == CHOOSE x \in s : TRUE
           v(f, s) == IF s = {} THEN 0 ELSE w[one(s)] + f[s \ {one(s)}]
           Right(m, f) == /\ f = [s \in SUBSET S |-> f[s]]
                          /\ \A s \in SUBSET S : Cardinality(s) <= m => f[s] = v(f, s)
           N == { m \in 0..n : \E f : Right(m, f) }
<1>1. /\ n \in Nat
      /\ \A s \in SUBSET S : /\ Cardinality(s) \in Nat /\ Cardinality(s) <= n
                             /\ Cardinality(s) = 0 <=> s = {}
  BY FS_CardinalityType, FS_Subset, FS_EmptySet
<1>2. \A s \in SUBSET S : s # {} =>
        one(s) \in s /\ s \ {one(s)} \in SUBSET S
        /\ Cardinality(s \ {one(s)}) = Cardinality(s) - 1
  BY FS_Subset, FS_RemoveElement
<1> HIDE DEF one, n
<1>3. 0 \in N
  <2> DEFINE f == [s \in SUBSET S |-> 0]
  <2>1. Right(0, f)
    BY <1>1
  <2> HIDE DEF f, Right
  <2>2. 0 \in 0..n
    BY <1>1
  <2>3. \E h : Right(0, h)
    BY <2>1
  <2>4. QED
    BY <2>2, <2>3
<1>4. ASSUME NEW m \in N, m \in 0..(n - 1)
      PROVE  m + 1 \in N
  <2>1. PICK f : Right(m, f)
    OBVIOUS
  <2> DEFINE g == [s \in SUBSET S |-> IF Cardinality(s) <= m THEN f[s] ELSE v(f, s)]
  <2>2. ASSUME NEW s \in SUBSET S, Cardinality(s) <= m + 1
        PROVE  g[s] = v(g, s)
    <3>1. g[s] = v(f, s)
      BY <2>1
    <3>2. CASE s = {}
      BY <3>1, <3>2
    <3>3. CASE s # {}
      <4> DEFINE t == s \ {one(s)}
      <4>1. t \in SUBSET S /\ Cardinality(t) <= m
        BY <1>1, <1>2, <1>4, <2>2, <3>3
      <4>2. g[t] = f[t]
        BY <4>1
      <4> HIDE DEF g
      <4>3. v(g, s) = w[one(s)] + g[t] /\ v(f, s) = w[one(s)] + f[t]
        BY <3>3
      <4>4. QED
        BY <3>1, <4>2, <4>3
    <3>4. QED
      BY <3>2, <3>3
  <2>3. g = [s \in SUBSET S |-> g[s]]
    OBVIOUS
  <2> HIDE DEF g, v
  <2>4. Right(m + 1, g)
    BY <2>2, <2>3
  <2> HIDE DEF Right
  <2>5. QED
    BY <1>1, <1>4, <2>4
<1> HIDE DEF N
<1>5. n \in N
  BY <1>1, <1>3, <1>4, NumbersUpTo
<1>6. PICK f : Right(n, f)
  BY <1>5 DEF N
<1>7. f = [s \in SUBSET S |-> v(f, s)]
  <2> HIDE DEF v
  <2>1. f = [s \in SUBSET S |-> f[s]]
    BY <1>6
  <2>2. \A s \in SUBSET S : f[s] = v(f, s)
    BY <1>1, <1>6
  <2>3. QED
    BY <2>1, <2>2
<1>8. QED
  BY <1>7 DEF IsSum, one

(* A sum grows by what each element adds, in whatever order.               *)
Adds(w, S, sum) ==
  /\ sum[{}] = 0
  /\ \A T \in SUBSET S :
       /\ sum[T] \in Int
       /\ \A x \in S : x \notin T => sum[T \cup {x}] = sum[T] + w[x]

(* The function by which a sum is defined does.                            *)
LEMMA SumAdds ==
  ASSUME NEW S, IsFiniteSet(S), NEW w, \A x \in S : w[x] \in Int, NEW sum, IsSum(w, S, sum)
  PROVE  Adds(w, S, sum)
<1> DEFINE n == Cardinality(S)
           one(s) == CHOOSE x \in s : TRUE
           Good(T) == sum[T] \in Int /\ \A x \in T : sum[T] = w[x] + sum[T \ {x}]
           N == { m \in 0..n : \A T \in SUBSET S : Cardinality(T) <= m => Good(T) }
<1>1. /\ n \in Nat
      /\ \A s \in SUBSET S : /\ Cardinality(s) \in Nat /\ Cardinality(s) <= n
                             /\ Cardinality(s) = 0 <=> s = {}
                             /\ \A x \in s : Cardinality(s \ {x}) = Cardinality(s) - 1
  BY FS_CardinalityType, FS_Subset, FS_EmptySet, FS_RemoveElement
<1>2. sum[{}] = 0 /\ \A s \in SUBSET S : s # {} => sum[s] = w[one(s)] + sum[s \ {one(s)}]
  <2> DEFINE v(s) == IF s = {} THEN 0 ELSE w[one(s)] + sum[s \ {one(s)}]
  <2>1. sum = [s \in SUBSET S |-> v(s)]
    BY DEF IsSum
  <2> HIDE DEF v
  <2>2. \A s \in SUBSET S : sum[s] = v(s)
    BY <2>1
  <2>3. {} \in SUBSET S
    OBVIOUS
  <2>4. QED
    BY <2>2, <2>3 DEF v
<1>3. \A s \in SUBSET S : s # {} => one(s) \in s
  OBVIOUS
<1> HIDE DEF one, n
<1>4. 0 \in N
  <2>1. \A T \in SUBSET S : Cardinality(T) <= 0 => T = {}
    BY <1>1
  <2>2. Good({}) /\ 0 \in 0..n
    BY <1>1, <1>2
  <2> HIDE DEF Good
  <2>3. QED
    BY <2>1, <2>2
<1>5. ASSUME NEW m \in N, m \in 0..(n - 1)
      PROVE  m + 1 \in N
  <2>1. ASSUME NEW T \in SUBSET S, Cardinality(T) = m + 1
        PROVE  Good(T)
    <3>1. T # {} /\ one(T) \in T /\ m \in Nat
      BY <1>1, <1>3, <1>5, <2>1
    <3>2. \A x \in T : T \ {x} \in SUBSET S /\ Cardinality(T \ {x}) = m
      BY <1>1, <2>1, <3>1
    <3>3. \A x \in T : Good(T \ {x})
      BY <3>2
    <3>4. sum[T] = w[one(T)] + sum[T \ {one(T)}]
      BY <1>2, <3>1
    <3>5. ASSUME NEW x \in T, x # one(T)
          PROVE  sum[T] = w[x] + sum[T \ {x}]
      <4> DEFINE y == one(T)
                 U == (T \ {x}) \ {y}
      <4>1. sum[T \ {y}] = w[x] + sum[(T \ {y}) \ {x}]
        BY <3>1, <3>3, <3>5
      <4>2. sum[T \ {x}] = w[y] + sum[U]
        BY <3>1, <3>3, <3>5
      <4>3. (T \ {y}) \ {x} = U
        OBVIOUS
      <4>4. /\ w[x] \in Int /\ w[y] \in Int
            /\ sum[T \ {y}] \in Int /\ sum[T \ {x}] \in Int
        BY <3>1, <3>3
      <4>5. sum[U] \in Int
        <5>1. y \in T \ {x} /\ T \ {x} \in SUBSET S
          BY <3>1, <3>5
        <5>2. U \in SUBSET S /\ Cardinality(U) <= m
          <6>1. Cardinality(U) = Cardinality(T \ {x}) - 1 /\ Cardinality(T \ {x}) = m
            BY <1>1, <3>2, <5>1
          <6> HIDE DEF y
          <6>2. QED
            BY <3>1, <6>1
        <5>3. \A V \in SUBSET S : Cardinality(V) <= m => Good(V)
          OBVIOUS
        <5>4. Good(U)
          BY <5>2, <5>3
        <5>5. QED
          BY <5>4
      <4>6. sum[T] = w[y] + (w[x] + sum[U]) /\ sum[T \ {x}] = w[y] + sum[U]
        BY <3>4, <4>1, <4>2, <4>3
      <4> HIDE DEF y, U
      <4>7. QED
        BY <4>4, <4>5, <4>6
    <3>6. sum[T] \in Int
      <4>1. w[one(T)] \in Int /\ sum[T \ {one(T)}] \in Int
        BY <3>1, <3>3
      <4>2. QED
        BY <3>4, <4>1
    <3>7. QED
      BY <3>4, <3>5, <3>6
  <2>2. ASSUME NEW T \in SUBSET S, Cardinality(T) <= m + 1
        PROVE  Good(T)
    <3>1. Cardinality(T) <= m \/ Cardinality(T) = m + 1
      BY <1>1, <1>5, <2>2
    <3>2. \A V \in SUBSET S : Cardinality(V) <= m => Good(V)
      OBVIOUS
    <3> HIDE DEF Good
    <3>3. QED
      BY <2>1, <3>1, <3>2
  <2>3. m + 1 \in 0..n
    BY <1>1, <1>5
  <2> HIDE DEF Good
  <2>4. QED
    BY <2>2, <2>3
<1> HIDE DEF N
<1>6. 0..n \subseteq N
  BY <1>1, <1>4, <1>5, NumbersUpTo
<1>7. ASSUME NEW T \in SUBSET S
      PROVE  Good(T)
  BY <1>1, <1>6 DEF N
<1>8. ASSUME NEW T \in SUBSET S, NEW x \in S, x \notin T
      PROVE  sum[T \cup {x}] = sum[T] + w[x]
  <2>1. T \cup {x} \in SUBSET S /\ (T \cup {x}) \ {x} = T
    BY <1>8
  <2>2. sum[T \cup {x}] = w[x] + sum[T]
    BY <1>7, <2>1
  <2>3. sum[T] \in Int
    BY <1>7
  <2>4. QED
    BY <2>2, <2>3
<1>9. QED
  BY <1>2, <1>7, <1>8 DEF Adds

(* Elements that all add the same add it as often as there are elements.   *)
AddsAlike(w, S, sum) ==
  \A T, U \in SUBSET S, c \in Int :
    T \cap U = {} /\ (\A x \in U : w[x] = c)
      => sum[T \cup U] = sum[T] + Cardinality(U) * c

(* That is so of every sum. *)
LEMMA SumOfEqual ==
  ASSUME NEW S, IsFiniteSet(S), NEW w, NEW sum, Adds(w, S, sum)
  PROVE  AddsAlike(w, S, sum)
<1> SUFFICES ASSUME NEW T \in SUBSET S, NEW U \in SUBSET S, T \cap U = {},
                    NEW c \in Int, \A x \in U : w[x] = c
             PROVE  sum[T \cup U] = sum[T] + Cardinality(U) * c
  BY DEF AddsAlike
<1> DEFINE P == { V \in SUBSET U : sum[T \cup V] = sum[T] + Cardinality(V) * c }
<1>1. IsFiniteSet(U)
  BY FS_Subset
<1>2. sum[T] \in Int
  BY DEF Adds
<1>3. {} \in P
  <2>1. Cardinality({}) = 0 /\ T \cup {} = T
    BY FS_EmptySet
  <2>2. sum[T] = sum[T] + 0 * c
    BY <1>2
  <2>3. QED
    BY <2>1, <2>2
<1>4. ASSUME NEW V \in SUBSET U, NEW x \in U, V \in P, x \notin V
      PROVE  V \cup {x} \in P
  <2> DEFINE k == Cardinality(V)
  <2>1. k \in Nat /\ Cardinality(V \cup {x}) = k + 1
    BY <1>1, <1>4, FS_Subset, FS_AddElement, FS_CardinalityType
  <2>2. T \cup V \in SUBSET S /\ x \in S /\ x \notin T \cup V
    BY <1>4
  <2>3. sum[(T \cup V) \cup {x}] = sum[T \cup V] + w[x]
    BY <2>2 DEF Adds
  <2>4. T \cup (V \cup {x}) = (T \cup V) \cup {x}
    OBVIOUS
  <2>5. sum[T \cup V] = sum[T] + k * c
    BY <1>4
  <2> HIDE DEF k
  <2>6. (k + 1) * c = k * c + c /\ k * c \in Int
    BY <2>1
  <2>7. sum[T \cup (V \cup {x})] = (sum[T] + k * c) + c
    BY <2>3, <2>4, <2>5
  <2>9. sum[T \cup (V \cup {x})] = sum[T] + (k + 1) * c
    BY <1>2, <2>6, <2>7
  <2>10. QED
    BY <2>1, <2>9 DEF k
<1>5. U \in P
  <2>1. {} \in P /\ \A V \in SUBSET U, x \in U : V \in P /\ x \notin V => V \cup {x} \in P
    BY <1>3, <1>4
  <2> HIDE DEF P
  <2>2. QED
    BY <1>1, <2>1, PartByPart
<1>6. QED
  BY <1>5

(* Elements that add one each are counted.                                 *)
LEMMA SumCounts ==
  ASSUME NEW S, IsFiniteSet(S), NEW w, \A x \in S : w[x] = 1, NEW sum, Adds(w, S, sum)
  PROVE  sum[S] = Cardinality(S)
<1>1. \A T, U \in SUBSET S, c \in Int :
        T \cap U = {} /\ (\A x \in U : w[x] = c)
          => sum[T \cup U] = sum[T] + Cardinality(U) * c
  BY SumOfEqual DEF AddsAlike
<1>2. sum[{} \cup S] = sum[{}] + Cardinality(S) * 1
  <2>1. {} \in SUBSET S /\ S \in SUBSET S /\ {} \cap S = {} /\ 1 \in Int
    OBVIOUS
  <2>2. QED
    BY <1>1, <2>1
<1>3. {} \cup S = S /\ sum[{}] = 0 /\ Cardinality(S) \in Nat
  BY FS_CardinalityType DEF Adds
<1>4. QED
  BY <1>2, <1>3

(* What adds up natural numbers is one. *)
LEMMA SumNatural ==
  ASSUME NEW S, IsFiniteSet(S), NEW w, \A x \in S : w[x] \in Nat, NEW sum, Adds(w, S, sum)
  PROVE  sum[S] \in Nat
<1> DEFINE P == { T \in SUBSET S : sum[T] \in Nat }
<1>1. {} \in P
  BY DEF Adds
<1>2. ASSUME NEW T \in SUBSET S, NEW x \in S, T \in P, x \notin T
      PROVE  T \cup {x} \in P
  <2>1. sum[T \cup {x}] = sum[T] + w[x] /\ sum[T] \in Nat /\ w[x] \in Nat
    BY <1>2 DEF Adds
  <2>2. sum[T \cup {x}] \in Nat
    BY <2>1
  <2>3. QED
    BY <2>2
<1>3. S \in P
  <2> HIDE DEF P
  <2>1. QED
    BY <1>1, <1>2, PartByPart
<1>4. QED
  BY <1>3

(* Disjoint groups E[k], one for each k of K and none of them empty, whose *)
(* union is L, and in which all elements add the same; G are the groups of *)
(* at least two, each adding what all its elements but one do; and M has a *)
(* name for each group, which adds what one element does.                  *)
Grouped(K, E, size, name, L, w, G, v, M, u) ==
  /\ \A k \in K : E[k] \in SUBSET L /\ E[k] # {} /\ size[k] \in Int
  /\ \A k, j \in K : k # j => E[k] \cap E[j] = {} /\ name[k] # name[j]
  /\ L = UNION { E[k] : k \in K }
  /\ \A k \in K : \A x \in E[k] : w[x] = size[k]
  /\ G = { E[k] : k \in { j \in K : Cardinality(E[j]) >= 2 } }
  /\ \A k \in K : E[k] \in G => v[E[k]] = (Cardinality(E[k]) - 1) * size[k]
  /\ M = { name[k] : k \in K }
  /\ \A k \in K : u[name[k]] = size[k]

(* Then the groups of two or more and one element of each group make up    *)
(* the whole.                                                              *)
LEMMA GroupedSum ==
  ASSUME NEW K, IsFiniteSet(K), NEW L, IsFiniteSet(L), NEW E, NEW size, NEW name,
         NEW w, NEW G, NEW v, NEW M, NEW u, Grouped(K, E, size, name, L, w, G, v, M, u),
         NEW all, Adds(w, L, all), NEW extra, Adds(v, G, extra), NEW once, Adds(u, M, once)
  PROVE  all[L] = extra[G] + once[M]
<1>0. AddsAlike(w, L, all)
  BY SumOfEqual
<1> DEFINE inL(T) == UNION { E[k] : k \in T }
           inG(T) == { E[k] : k \in T } \cap G
           inM(T) == { name[k] : k \in T }
           P == { T \in SUBSET K : all[inL(T)] = extra[inG(T)] + once[inM(T)] }
<1>1. {} \in P
  <2>1. inL({}) = {} /\ inG({}) = {} /\ inM({}) = {}
    OBVIOUS
  <2>2. all[{}] = extra[{}] + once[{}]
    <3>1. all[{}] = 0 /\ extra[{}] = 0 /\ once[{}] = 0
      BY DEF Adds
    <3>2. QED
      BY <3>1
  <2> HIDE DEF inL, inG, inM
  <2>3. all[inL({})] = extra[inG({})] + once[inM({})]
    BY <2>1, <2>2, Zenon
  <2>4. QED
    BY <2>3
<1>2. ASSUME NEW T \in SUBSET K, NEW k \in K, T \in P, k \notin T
      PROVE  T \cup {k} \in P
  <2> DEFINE n == Cardinality(E[k])
             s == size[k]
  <2>1. n \in Nat /\ n # 0 /\ s \in Int
    BY FS_Subset, FS_CardinalityType, FS_EmptySet DEF Grouped
  <2>2. all[inL(T \cup {k})] = all[inL(T)] + n * s
    <3>1. inL(T \cup {k}) = inL(T) \cup E[k]
      OBVIOUS
    <3>2. inL(T) \in SUBSET L /\ E[k] \in SUBSET L /\ inL(T) \cap E[k] = {}
      BY <1>2 DEF Grouped
    <3>3. \A x \in E[k] : w[x] = size[k]
      BY DEF Grouped
    <3> DEFINE A == inL(T)
               B == E[k]
    <3>4. \A x \in B : w[x] = s
      BY <3>3
    <3> HIDE DEF inL, A, s
    <3>5. A \in SUBSET L /\ B \in SUBSET L /\ A \cap B = {}
      BY <3>2 DEF A
    <3> HIDE DEF B
    <3>6. all[A \cup B] = all[A] + Cardinality(B) * s
      <4>1. s \in Int
        BY <2>1
      <4> HIDE DEF n, P, inG, inM
      <4>2. QED
        BY <1>0, <3>4, <3>5, <4>1 DEF AddsAlike
    <3>7. QED
      BY <3>1, <3>6 DEF A, B
  <2>3. once[inM(T \cup {k})] = once[inM(T)] + s
    <3>1. inM(T \cup {k}) = inM(T) \cup {name[k]}
      OBVIOUS
    <3>2. inM(T) \in SUBSET M /\ name[k] \in M /\ name[k] \notin inM(T)
      BY <1>2 DEF Grouped
    <3>3. u[name[k]] = s
      BY DEF Grouped
    <3> DEFINE A == inM(T)
    <3> HIDE DEF inM, s, A
    <3>4. A \in SUBSET M /\ name[k] \in M /\ name[k] \notin A
      BY <3>2 DEF A
    <3>5. once[A \cup {name[k]}] = once[A] + u[name[k]]
      BY <3>4 DEF Adds
    <3>6. QED
      BY <3>1, <3>3, <3>5 DEF A
  <2>4. extra[inG(T \cup {k})] = extra[inG(T)] + (n - 1) * s
    <3>1. CASE n >= 2
      <4>1. E[k] \in G
        BY <3>1 DEF Grouped
      <4>2. inG(T \cup {k}) = inG(T) \cup {E[k]}
        BY <4>1
      <4>3. inG(T) \in SUBSET G /\ E[k] \notin inG(T)
        BY <1>2 DEF Grouped
      <4>4. v[E[k]] = (n - 1) * s
        BY <4>1 DEF Grouped
      <4> DEFINE A == inG(T)
      <4> HIDE DEF inG, n, s, A
      <4>5. A \in SUBSET G /\ E[k] \notin A
        BY <4>3 DEF A
      <4>6. extra[A \cup {E[k]}] = extra[A] + v[E[k]]
        BY <4>1, <4>5 DEF Adds
      <4>7. QED
        BY <4>2, <4>4, <4>6 DEF A
    <3>2. CASE ~(n >= 2)
      <4>1. n = 1
        <5> HIDE DEF n
        <5>1. QED
          BY <2>1, <3>2
      <4>2. E[k] \notin G
        BY <3>2 DEF Grouped
      <4>3. inG(T \cup {k}) = inG(T)
        BY <4>2
      <4>4. extra[inG(T)] \in Int
        <5>1. inG(T) \in SUBSET G
          OBVIOUS
        <5> HIDE DEF inG
        <5>2. QED
          BY <5>1 DEF Adds
      <4> HIDE DEF inG, n, s
      <4>5. (n - 1) * s = 0
        BY <2>1, <4>1
      <4>6. QED
        BY <4>3, <4>4, <4>5
    <3>3. QED
      BY <3>1, <3>2
  <2>5. all[inL(T)] = extra[inG(T)] + once[inM(T)]
    BY <1>2
  <2>6. extra[inG(T)] \in Int /\ once[inM(T)] \in Int
    <3>1. inG(T) \in SUBSET G /\ inM(T) \in SUBSET M
      BY DEF Grouped
    <3> HIDE DEF inG, inM
    <3>2. QED
      BY <3>1 DEF Adds
  <2>7. n * s = (n - 1) * s + s /\ (n - 1) * s \in Int
    <3> HIDE DEF n, s
    <3>1. QED
      BY <2>1
  <2> HIDE DEF n, s, inL, inG, inM
  <2>8. all[inL(T \cup {k})] = extra[inG(T \cup {k})] + once[inM(T \cup {k})]
    BY <2>1, <2>2, <2>3, <2>4, <2>5, <2>6, <2>7
  <2>9. QED
    BY <2>8
<1>3. K \in P
  <2> HIDE DEF P
  <2>1. QED
    BY <1>1, <1>2, PartByPart
<1>4. inL(K) = L /\ inG(K) = G /\ inM(K) = M
  BY DEF Grouped
<1> HIDE DEF inL, inG, inM
<1>5. QED
  BY <1>3, <1>4

(* Names for the elements of a finite set, one each, are as many.          *)
LEMMA NamesCount ==
  ASSUME NEW S, IsFiniteSet(S), NEW T, NEW name \in [S -> T],
         \A x, y \in S : name[x] = name[y] => x = y, \A t \in T : \E x \in S : name[x] = t
  PROVE  Cardinality(T) = Cardinality(S)
<1>1. name \in Bijection(S, T)
  BY DEF Bijection, Injection, Surjection, IsInjective
<1>2. QED
  BY <1>1, FS_Bijection DEF ExistsBijection
=============================================================================
