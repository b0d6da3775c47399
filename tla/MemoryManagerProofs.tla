--------------------------- MODULE MemoryManagerProofs ---------------------------
(* Theorems about MemoryManager, for any items, searchers and capacity.       *)
EXTENDS MemoryManager, FiniteSetTheorems, SequenceTheorems, WellFoundedInduction, TLAPS

-----------------------------------------------------------------------------------
(* What the slice operations return, for slices of any length, from the fact that a *)
(* set of numbers has a least one.                                                  *)
LEMMA LeastNumber ==
  ASSUME NEW T, T \subseteq Nat, T # {}
  PROVE  \E k \in T : \A j \in T : k <= j
<1>1. PICK k \in T : \A j \in T : ~(<<j, k>> \in OpToRel(<, Nat))
  BY NatLessThanWellFounded, WFMin, Zenon
<1>2. k \in Nat
  OBVIOUS
<1>3. ASSUME NEW j \in T PROVE k <= j
  <2>1. j \in Nat
    OBVIOUS
  <2>2. ~(j < k)
    BY <1>1, <1>2, <2>1 DEF OpToRel
  <2>3. QED
    BY <1>2, <2>1, <2>2
<1>4. QED
  BY <1>3

(* A set of positions is finite, and so is the part of it up to a position.   *)
LEMMA FiniteKept ==
  ASSUME NEW len \in Nat, NEW kept \in SUBSET (1..len)
  PROVE  /\ IsFiniteSet(kept)
         /\ Cardinality(kept) \in Nat
         /\ Cardinality(kept) <= len
<1>1. IsFiniteSet(1..len) /\ Cardinality(1..len) = len
  BY FS_Interval
<1>2. IsFiniteSet(kept) /\ Cardinality(kept) <= len
  BY <1>1, FS_Subset
<1>3. QED
  BY <1>2, FS_CardinalityType

(* The kept positions up to one are finitely many.                                  *)
LEMMA UpTo ==
  ASSUME NEW len \in Nat, NEW kept \in SUBSET (1..len), NEW k
  PROVE  /\ IsFiniteSet({m \in kept : m <= k})
         /\ Cardinality({m \in kept : m <= k}) \in Nat
         /\ IsFiniteSet({m \in kept : m < k})
         /\ Cardinality({m \in kept : m < k}) \in Nat
<1>1. {m \in kept : m <= k} \in SUBSET (1..len) /\ {m \in kept : m < k} \in SUBSET (1..len)
  BY Zenon
<1>2. QED
  BY <1>1, FiniteKept, Zenon

(* How the part up to a position grows when the position moves by one.        *)
LEMMA UpToStep ==
  ASSUME NEW kept \in SUBSET Nat, NEW k \in Nat \ {0}
  PROVE  /\ {m \in kept : m <= k - 1} = {m \in kept : m < k}
         /\ k \in kept => {m \in kept : m <= k} = {m \in kept : m < k} \cup {k}
         /\ k \notin kept => {m \in kept : m <= k} = {m \in kept : m < k}
<1>1. \A m \in kept : m \in Nat
  OBVIOUS
<1>2. \A m \in kept : /\ m <= k - 1 <=> m < k
                      /\ m <= k <=> m < k \/ m = k
  BY <1>1
<1>3. ~(k < k) /\ k <= k
  OBVIOUS
<1>4. QED
  BY <1>2, <1>3, Zenon

(* A position of every rank exists: the least position up to which n are kept. *)
LEMMA NthExists ==
  ASSUME NEW len \in Nat, NEW kept \in SUBSET (1..len),
         NEW n \in 1..Cardinality(kept)
  PROVE  /\ Nth(kept, n) \in kept
         /\ Cardinality({m \in kept : m < Nth(kept, n)}) = n - 1
<1> DEFINE Count(k) == Cardinality({m \in kept : m <= k})
           Below(k) == {m \in kept : m < k}
           T == {k \in Nat : Count(k) >= n}
<1>1. \A m \in kept : m \in 1..len
  OBVIOUS
<1>2. kept \in SUBSET Nat
  BY <1>1
<1>3. Cardinality(kept) \in Nat /\ n \in Nat \ {0} /\ n <= Cardinality(kept)
  BY FiniteKept
<1>4. Count(len) = Cardinality(kept)
  <2>1. \A m \in kept : m <= len
    BY <1>1
  <2>2. {m \in kept : m <= len} = kept
    BY <2>1, Zenon
  <2>3. QED
    BY <2>2
<1>5. T \subseteq Nat /\ T # {}
  <2>1. Count(len) >= n
    BY <1>3, <1>4
  <2>2. QED
    BY <2>1, Zenon
<1>6. PICK k \in T : \A j \in T : k <= j
  <2> HIDE DEF T
  <2>1. QED
    BY <1>5, LeastNumber
<1>7. k \in Nat /\ Count(k) >= n /\ \A j \in Nat : Count(j) >= n => k <= j
  BY <1>6, Zenon
<1>8. \A j : Count(j) \in Nat /\ Cardinality(Below(j)) \in Nat /\ IsFiniteSet(Below(j))
  BY UpTo, Zenon
<1>9. k # 0
  <2>1. \A m \in kept : ~(m <= 0)
    BY <1>1
  <2>2. {m \in kept : m <= 0} = {}
    BY <2>1, Zenon
  <2>3. Count(0) = 0
    BY <2>2, FS_EmptySet
  <2> HIDE DEF Count
  <2>4. QED
    BY <1>3, <1>7, <2>3
<1>10. /\ {m \in kept : m <= k - 1} = Below(k)
       /\ k \in kept => {m \in kept : m <= k} = Below(k) \cup {k}
       /\ k \notin kept => {m \in kept : m <= k} = Below(k)
  BY <1>2, <1>7, <1>9, UpToStep
<1>11. Count(k - 1) = Cardinality(Below(k))
  BY <1>10, Zenon
<1>12. k \notin Below(k)
  <2>1. ~(k < k)
    BY <1>7
  <2>2. QED
    BY <2>1, Zenon
<1>13. /\ k \in kept => Count(k) = Cardinality(Below(k)) + 1
       /\ k \notin kept => Count(k) = Cardinality(Below(k))
  <2>1. Cardinality(Below(k) \cup {k}) = Cardinality(Below(k)) + 1
    <3>1. IsFiniteSet(Below(k)) /\ k \notin Below(k)
      BY <1>8, <1>12, Zenon
    <3> HIDE DEF Below, T, Count
    <3>2. QED
      BY <3>1, FS_AddElement
  <2>2. QED
    BY <1>10, <2>1, Zenon
<1> HIDE DEF Count, Below
<1>14. ~(Count(k - 1) >= n)
  <2>1. k - 1 \in Nat /\ ~(k <= k - 1)
    BY <1>7, <1>9
  <2>2. QED
    BY <1>7, <2>1
<1>15. k \in kept /\ Cardinality(Below(k)) = n - 1
  BY <1>3, <1>7, <1>8, <1>11, <1>13, <1>14
<1> USE DEF Below
<1>16. QED
  BY <1>15, Zenon DEF Nth

(* Two kept positions with the same rank are the same position.               *)
LEMMA RankInjective ==
  ASSUME NEW len \in Nat, NEW kept \in SUBSET (1..len),
         NEW j \in kept, NEW k \in kept,
         Cardinality({m \in kept : m < j}) = Cardinality({m \in kept : m < k})
  PROVE  j = k
<1> DEFINE Below(p) == {m \in kept : m < p}
<1>1. \A m \in kept : m \in Nat
  OBVIOUS
<1>2. ASSUME NEW p \in kept, NEW q \in kept, p < q
      PROVE  Cardinality(Below(p)) # Cardinality(Below(q))
  <2>1. IsFiniteSet(Below(q))
    BY UpTo, Zenon
  <2>2. (\A m \in kept : m < p => m < q) /\ ~(p < p)
    BY <1>1, <1>2
  <2>3. Below(p) \in SUBSET Below(q) /\ p \in Below(q) /\ p \notin Below(p)
    BY <1>2, <2>2, Zenon
  <2> HIDE DEF Below
  <2>4. QED
    BY <2>1, <2>3, FS_Subset
<1>3. j < k \/ k < j \/ j = k
  BY <1>1
<1>4. QED
  BY <1>2, <1>3, Zenon

(* Without keeps a sequence, no longer than before, of exactly the elements   *)
(* that are not gone.                                                         *)
THEOREM WithoutProperties ==
  ASSUME NEW S, NEW s \in Seq(S), NEW gone
  PROVE  /\ Without(s, gone) \in Seq(S)
         /\ Len(Without(s, gone)) <= Len(s)
         /\ Elems(Without(s, gone)) = Elems(s) \ gone
<1> DEFINE kept == {k \in 1..Len(s) : s[k] \notin gone}
           t == Without(s, gone)
<1>1. Len(s) \in Nat /\ DOMAIN s = 1..Len(s)
  BY LenProperties
<1>2. kept \in SUBSET (1..Len(s))
  BY Zenon
<1>3. IsFiniteSet(kept) /\ Cardinality(kept) \in Nat /\ Cardinality(kept) <= Len(s)
  BY <1>1, <1>2, FiniteKept, Zenon
<1>4. t = [n \in 1..Cardinality(kept) |-> s[Nth(kept, n)]]
  BY Zenon DEF Without
<1>5. \A n \in 1..Cardinality(kept) :
        /\ Nth(kept, n) \in kept
        /\ Cardinality({m \in kept : m < Nth(kept, n)}) = n - 1
  BY <1>1, <1>2, NthExists, Zenon
<1>6. \A k \in kept : k \in DOMAIN s /\ s[k] \in S /\ s[k] \notin gone
  BY <1>1, ElementOfSeq
<1>7. \A k \in DOMAIN s : s[k] \notin gone => k \in kept
  BY <1>1, Zenon
<1>8. \A k \in kept : /\ Cardinality({m \in kept : m < k}) \in Nat
                      /\ Cardinality({m \in kept : m < k}) + 1 \in 1..Cardinality(kept)
  <2>1. SUFFICES ASSUME NEW k \in kept
                 PROVE  /\ Cardinality({m \in kept : m < k}) \in Nat
                        /\ Cardinality({m \in kept : m < k}) + 1 \in 1..Cardinality(kept)
    OBVIOUS
  <2> DEFINE below == {m \in kept : m < k}
  <2>2. IsFiniteSet(below) /\ Cardinality(below) \in Nat
    BY <1>1, <1>2, UpTo, Zenon
  <2>3. k \notin below
    <3>1. k \in Nat
      BY <1>1, <1>2
    <3>2. ~(k < k)
      BY <3>1
    <3>3. QED
      BY <3>2, Zenon
  <2>4. below \in SUBSET kept /\ below # kept
    BY <2>3, Zenon
  <2> HIDE DEF below, kept
  <2>5. Cardinality(below) <= Cardinality(kept) /\ Cardinality(below) # Cardinality(kept)
    BY <1>3, <2>4, FS_Subset
  <2>6. Cardinality(below) + 1 \in 1..Cardinality(kept)
    BY <1>3, <2>2, <2>5
  <2> USE DEF below
  <2>7. QED
    BY <2>2, <2>6
<1>9. \A j, k \in kept :
        Cardinality({m \in kept : m < j}) = Cardinality({m \in kept : m < k}) => j = k
  BY <1>1, <1>2, RankInjective, Zenon
<1> HIDE DEF kept, t
<1>10. t \in Seq(S) /\ Len(t) = Cardinality(kept) /\ DOMAIN t = 1..Cardinality(kept)
  <2>1. \A n \in 1..Cardinality(kept) : s[Nth(kept, n)] \in S
    BY <1>5, <1>6
  <2>2. QED
    BY <1>3, <1>4, <2>1
<1>11. ASSUME NEW x \in Elems(t) PROVE x \in Elems(s) \ gone
  <2>1. PICK n \in 1..Cardinality(kept) : x = t[n]
    BY <1>10 DEF Elems
  <2>2. x = s[Nth(kept, n)] /\ Nth(kept, n) \in kept
    BY <2>1, <1>4, <1>5
  <2>3. QED
    BY <2>2, <1>6 DEF Elems
<1>12. ASSUME NEW x \in Elems(s), x \notin gone PROVE x \in Elems(t)
  <2>1. PICK k \in DOMAIN s : x = s[k]
    BY DEF Elems
  <2>2. k \in kept
    BY <2>1, <1>7, <1>12
  <2> DEFINE n == Cardinality({m \in kept : m < k}) + 1
  <2>3. n \in 1..Cardinality(kept) /\ n - 1 = Cardinality({m \in kept : m < k})
    BY <1>8, <2>2
  <2>4. Nth(kept, n) = k
    BY <1>5, <1>9, <2>2, <2>3, Zenon
  <2> HIDE DEF n
  <2>5. t[n] = x /\ n \in DOMAIN t
    BY <1>4, <1>10, <2>1, <2>3, <2>4
  <2>6. QED
    BY <2>5 DEF Elems
<1>13. t \in Seq(S) /\ Len(t) <= Len(s) /\ Elems(t) = Elems(s) \ gone
  <2>1. Elems(t) = Elems(s) \ gone
    BY <1>11, <1>12, Zenon
  <2>2. QED
    BY <1>3, <1>10, <2>1
<1>14. QED
  BY <1>13 DEF t

(* Appending, dropping the head and taking a front: which elements are left.  *)
THEOREM AppendElems ==
  ASSUME NEW S, NEW s \in Seq(S), NEW x \in S
  PROVE  Append(s, x) \in Seq(S) /\ Elems(Append(s, x)) = Elems(s) \cup {x}
<1> DEFINE t == Append(s, x)
<1>1. /\ t \in Seq(S) /\ Len(s) \in Nat
      /\ DOMAIN s = 1..Len(s) /\ DOMAIN t = 1..Len(s) + 1
      /\ \A i \in 1..Len(s) : t[i] = s[i]
      /\ t[Len(s) + 1] = x
  BY AppendProperties, LenProperties
<1>2. \A i : i \in 1..Len(s) + 1 <=> i \in 1..Len(s) \/ i = Len(s) + 1
  BY <1>1
<1> HIDE DEF t
<1>3. Elems(t) = Elems(s) \cup {x}
  BY <1>1, <1>2, Zenon DEF Elems
<1>4. QED
  BY <1>1, <1>3 DEF t

(* The elements of a slice are its first one and those of its tail.                 *)
THEOREM TailElems ==
  ASSUME NEW S, NEW s \in Seq(S), s # <<>>
  PROVE  /\ Tail(s) \in Seq(S) /\ Len(Tail(s)) = Len(s) - 1
         /\ Head(s) \in S
         /\ Elems(s) = Elems(Tail(s)) \cup {Head(s)}
<1> DEFINE t == Tail(s)
<1>1. /\ t \in Seq(S) /\ Len(t) = Len(s) - 1 /\ Head(s) \in S /\ Head(s) = s[1]
      /\ Len(s) \in Nat \ {0}
      /\ \A i \in 1..Len(t) : t[i] = s[i + 1]
  BY HeadTailProperties, LenProperties, EmptySeq
<1>2. DOMAIN s = 1..Len(s) /\ DOMAIN t = 1..Len(t)
  BY <1>1, LenProperties
<1>3. ASSUME NEW x \in Elems(s) PROVE x \in Elems(t) \cup {Head(s)}
  <2>1. PICK k \in 1..Len(s) : x = s[k]
    BY <1>2 DEF Elems
  <2>2. CASE k = 1
    BY <1>1, <2>1, <2>2
  <2>3. CASE k # 1
    <3>1. k - 1 \in 1..Len(t) /\ (k - 1) + 1 = k
      BY <1>1, <2>1, <2>3
    <3>2. x = t[k - 1]
      BY <1>1, <2>1, <3>1
    <3>3. QED
      BY <1>2, <3>1, <3>2 DEF Elems
  <2>4. QED
    BY <2>2, <2>3
<1>4. ASSUME NEW x \in Elems(t) PROVE x \in Elems(s)
  <2>1. PICK k \in 1..Len(t) : x = t[k]
    BY <1>2 DEF Elems
  <2>2. k + 1 \in 1..Len(s) /\ x = s[k + 1]
    BY <1>1, <2>1
  <2>3. QED
    BY <1>2, <2>2 DEF Elems
<1>5. Head(s) \in Elems(s)
  <2>1. 1 \in DOMAIN s
    BY <1>1, <1>2
  <2>2. QED
    BY <1>1, <2>1, Zenon DEF Elems
<1>6. Elems(s) = Elems(t) \cup {Head(s)}
  BY <1>3, <1>4, <1>5, Zenon
<1>7. QED
  BY <1>1, <1>6

(* The first n elements of a slice are elements of it.                              *)
THEOREM FrontElems ==
  ASSUME NEW S, NEW s \in Seq(S), NEW n \in Nat
  PROVE  Front(s, n) \in Seq(S) /\ Elems(Front(s, n)) \subseteq Elems(s)
<1> DEFINE m == IF n > Len(s) THEN Len(s) ELSE n
           t == SubSeq(s, 1, m)
<1>1. Len(s) \in Nat /\ DOMAIN s = 1..Len(s) /\ m \in 0..Len(s)
  BY LenProperties
<1> HIDE DEF m
<1>2. \A i \in 1..m : s[i] \in S
  BY <1>1, ElementOfSeq
<1>3. t \in Seq(S) /\ Len(t) = m /\ \A i \in 1..m : t[i] = s[i]
  BY <1>1, <1>2, SubSeqProperties
<1>4. DOMAIN t = 1..m
  BY <1>3, LenProperties
<1>5. \A i \in 1..m : i \in DOMAIN s
  BY <1>1
<1> HIDE DEF t
<1>6. Elems(t) \subseteq Elems(s)
  BY <1>3, <1>4, <1>5, Zenon DEF Elems
<1>7. QED
  BY <1>3, <1>6 DEF t, m, Front

(* What follows the k-th element, as a slice of its own.                      *)
LEMMA AfterProperties ==
  ASSUME NEW S, NEW s \in Seq(S), NEW k \in 1..Len(s)
  PROVE  /\ SubSeq(s, k + 1, Len(s)) \in Seq(S)
         /\ Len(SubSeq(s, k + 1, Len(s))) = Len(s) - k
         /\ \A i \in 1..(Len(s) - k) : SubSeq(s, k + 1, Len(s))[i] = s[k + i]
<1>1. Len(s) \in Nat /\ \A i \in 1..Len(s) : s[i] \in S
  BY LenProperties, ElementOfSeq
<1>2. PICK n \in Nat : n = Len(s)
  BY <1>1
<1>3. PICK m \in Int : m = k + 1
  BY <1>1
<1>4. \A i \in m..n : s[i] \in S
  BY <1>1, <1>2, <1>3
<1>5. /\ SubSeq(s, m, n) \in Seq(S)
      /\ Len(SubSeq(s, m, n)) = IF m <= n THEN n - m + 1 ELSE 0
      /\ \A i \in 1..n - m + 1 : SubSeq(s, m, n)[i] = s[m + i - 1]
  BY <1>4, SubSeqProperties
<1>6. n - m + 1 = n - k /\ (m > n => n - k = 0)
  BY <1>2, <1>3
<1>7. \A i \in 1..n - k : m + i - 1 = k + i
  BY <1>2, <1>3
<1>8. QED
  BY <1>2, <1>3, <1>5, <1>6, <1>7

(* Cutting the k-th element out of a slice loses at most that element.        *)
THEOREM CutElems ==
  ASSUME NEW S, NEW s \in Seq(S), NEW k \in 1..Len(s)
  PROVE  /\ SubSeq(s, 1, k - 1) \o SubSeq(s, k + 1, Len(s)) \in Seq(S)
         /\ Len(SubSeq(s, 1, k - 1) \o SubSeq(s, k + 1, Len(s))) <= Len(s)
         /\ Elems(SubSeq(s, 1, k - 1) \o SubSeq(s, k + 1, Len(s))) \subseteq Elems(s)
         /\ Elems(s) \subseteq Elems(SubSeq(s, 1, k - 1) \o SubSeq(s, k + 1, Len(s))) \cup {s[k]}
<1> DEFINE a == SubSeq(s, 1, k - 1)
           b == SubSeq(s, k + 1, Len(s))
           t == a \o b
<1>1. Len(s) \in Nat /\ DOMAIN s = 1..Len(s) /\ k \in Nat \ {0} /\ k <= Len(s)
  BY LenProperties
<1>2. \A i \in 1..Len(s) : s[i] \in S
  BY ElementOfSeq
<1>3. a \in Seq(S) /\ Len(a) = k - 1 /\ \A i \in 1..(k - 1) : a[i] = s[i]
  <2>1. \A i \in 1..(k - 1) : s[i] \in S
    BY <1>1, <1>2
  <2>2. QED
    BY <1>1, <2>1, SubSeqProperties
<1>4. b \in Seq(S) /\ Len(b) = Len(s) - k /\ \A i \in 1..(Len(s) - k) : b[i] = s[k + i]
  BY AfterProperties
<1> HIDE DEF a, b
<1>5. /\ t \in Seq(S) /\ Len(t) = Len(s) - 1
      /\ \A i \in 1..(Len(s) - 1) : t[i] = IF i <= k - 1 THEN a[i] ELSE b[i - (k - 1)]
  <2>1. /\ t \in Seq(S) /\ Len(t) = Len(a) + Len(b)
        /\ \A i \in 1..(Len(a) + Len(b)) :
             t[i] = IF i <= Len(a) THEN a[i] ELSE b[i - Len(a)]
    BY <1>3, <1>4, ConcatProperties
  <2>2. Len(a) + Len(b) = Len(s) - 1
    BY <1>1, <1>3, <1>4
  <2>3. QED
    BY <1>3, <2>1, <2>2
<1>6. DOMAIN t = 1..(Len(s) - 1)
  BY <1>5, LenProperties
<1> HIDE DEF t
<1>7. \A i \in 1..(Len(s) - 1) : t[i] = IF i <= k - 1 THEN s[i] ELSE s[i + 1]
  <2>1. SUFFICES ASSUME NEW i \in 1..(Len(s) - 1)
                 PROVE  t[i] = IF i <= k - 1 THEN s[i] ELSE s[i + 1]
    OBVIOUS
  <2>2. CASE i <= k - 1
    <3>1. i \in 1..(k - 1)
      BY <1>1, <2>2
    <3>2. QED
      BY <1>3, <1>5, <2>2, <3>1
  <2>3. CASE ~(i <= k - 1)
    <3>1. i - (k - 1) \in 1..(Len(s) - k) /\ k + (i - (k - 1)) = i + 1
      BY <1>1, <2>3
    <3>2. QED
      BY <1>4, <1>5, <2>3, <3>1
  <2>4. QED
    BY <2>2, <2>3
<1>8. ASSUME NEW x \in Elems(t) PROVE x \in Elems(s)
  <2>1. PICK i \in 1..(Len(s) - 1) : x = t[i]
    BY <1>6 DEF Elems
  <2>2. i \in 1..Len(s) /\ i + 1 \in 1..Len(s)
    BY <1>1
  <2>3. x = s[i] \/ x = s[i + 1]
    BY <1>7, <2>1
  <2>4. QED
    BY <1>1, <2>2, <2>3, Zenon DEF Elems
<1>9. ASSUME NEW x \in Elems(s), x # s[k] PROVE x \in Elems(t)
  <2>1. PICK i \in 1..Len(s) : x = s[i]
    BY <1>1 DEF Elems
  <2>2. i < k \/ i > k
    BY <1>1, <1>9, <2>1
  <2>3. CASE i < k
    <3>1. i \in 1..(Len(s) - 1) /\ i <= k - 1
      BY <1>1, <2>3
    <3>2. t[i] = x
      BY <1>7, <2>1, <3>1
    <3>3. QED
      BY <1>6, <3>1, <3>2 DEF Elems
  <2>4. CASE i > k
    <3>1. i - 1 \in 1..(Len(s) - 1) /\ ~(i - 1 <= k - 1) /\ (i - 1) + 1 = i
      BY <1>1, <2>4
    <3>2. t[i - 1] = x
      BY <1>7, <2>1, <3>1
    <3>3. QED
      BY <1>6, <3>1, <3>2 DEF Elems
  <2>5. QED
    BY <2>2, <2>3, <2>4
<1>10. /\ t \in Seq(S) /\ Len(t) <= Len(s) /\ Elems(t) \subseteq Elems(s)
       /\ Elems(s) \subseteq Elems(t) \cup {s[k]}
  <2>1. Len(t) <= Len(s)
    BY <1>1, <1>5
  <2>2. QED
    BY <1>5, <1>8, <1>9, <2>1, Zenon
<1>11. QED
  BY <1>10 DEF t, a, b
-----------------------------------------------------------------------------------
(* What each operation of the working tier does to the slice.                 *)
LEMMA AddEffect ==
  ASSUME WMTypeOK, NEW i \in Items, Add(i)
  PROVE  /\ WMTypeOK'
         /\ Elems(items') \subseteq Elems(items) \cup {i}
         /\ i \in Elems(items')
         /\ Elems(items) \subseteq Elems(items') \cup {Head(items)}
         /\ \/ Elems(items) \subseteq Elems(items')
            \/ Len(items) = MaxCapacity /\ Len(items') = MaxCapacity
         /\ UNCHANGED <<stamp, now, compressing>>
<1> DEFINE s == IF Len(items) >= MaxCapacity THEN Tail(items) ELSE items
<1>1. /\ items \in Seq(Items) /\ Len(items) \in Nat /\ Len(items) <= MaxCapacity
      /\ MaxCapacity \in Nat \ {0}
  BY CapacityAssumption, LenProperties DEF WMTypeOK
<1>2. CASE Len(items) >= MaxCapacity
  <2>1. items # <<>> /\ Len(items) = MaxCapacity
    BY <1>1, <1>2, EmptySeq
  <2>2. /\ s \in Seq(Items) /\ Len(s) = Len(items) - 1
        /\ Elems(items) = Elems(s) \cup {Head(items)}
    BY <1>1, <1>2, <2>1, TailElems
  <2>3. /\ items' = Append(s, i) /\ items' \in Seq(Items) /\ Len(items') = Len(s) + 1
        /\ Elems(items') = Elems(s) \cup {i}
    <3>1. items' = Append(s, i)
      BY Zenon DEF Add
    <3> HIDE DEF s
    <3>2. /\ Append(s, i) \in Seq(Items) /\ Len(Append(s, i)) = Len(s) + 1
          /\ Elems(Append(s, i)) = Elems(s) \cup {i}
      BY <2>2, AppendElems, AppendProperties
    <3>3. QED
      BY <3>1, <3>2
  <2>4. Len(items') = MaxCapacity
    BY <1>1, <2>1, <2>2, <2>3
  <2>5. items' \in Seq(Items) /\ Len(items') <= MaxCapacity
    BY <1>1, <2>3, <2>4
  <2>6. WMTypeOK'
    BY <2>5 DEF WMTypeOK, Add, Touch, searchVars
  <2>7. QED
    BY <2>1, <2>2, <2>3, <2>4, <2>6 DEF Add, searchVars
<1>3. CASE ~(Len(items) >= MaxCapacity)
  <2>1. /\ items' = Append(items, i) /\ items' \in Seq(Items)
        /\ Len(items') = Len(items) + 1
        /\ Elems(items') = Elems(items) \cup {i}
    BY <1>1, <1>3, AppendElems, AppendProperties DEF Add
  <2>2. items' \in Seq(Items) /\ Len(items') <= MaxCapacity
    BY <1>1, <1>3, <2>1
  <2>3. WMTypeOK'
    BY <2>2 DEF WMTypeOK, Add, Touch, searchVars
  <2>4. QED
    BY <2>1, <2>3 DEF Add, searchVars
<1>4. QED
  BY <1>2, <1>3

(* Removing items leaves a slice that lost exactly these and is no longer than before. *)
LEMMA RemoveEffect ==
  ASSUME WMTypeOK, NEW ids, RemoveItems(ids)
  PROVE  /\ WMTypeOK'
         /\ Elems(items') = Elems(items) \ WithIds(ids)
         /\ UNCHANGED <<stamp, now, compressing>>
<1>1. /\ items \in Seq(Items) /\ Len(items) \in Nat /\ Len(items) <= MaxCapacity
      /\ MaxCapacity \in Nat
  BY CapacityAssumption, LenProperties DEF WMTypeOK
<1>2. items' = Without(items, WithIds(ids))
  BY DEF RemoveItems
<1>3. /\ items' \in Seq(Items) /\ Len(items') <= Len(items)
      /\ Elems(items') = Elems(items) \ WithIds(ids)
  BY <1>1, <1>2, WithoutProperties
<1>4. Len(items') <= MaxCapacity
  BY <1>1, <1>3, LenProperties
<1>5. WMTypeOK'
  BY <1>3, <1>4 DEF WMTypeOK, RemoveItems, Touch, searchVars
<1>6. QED
  BY <1>3, <1>5 DEF RemoveItems, searchVars

(* Delete removes at most one item and nothing the caller did not name.             *)
LEMMA DeleteEffect ==
  ASSUME WMTypeOK, NEW id, Delete(id)
  PROVE  /\ WMTypeOK'
         /\ Elems(items') \subseteq Elems(items)
         /\ \A i \in Elems(items) \ Elems(items') : stamp[i] = id
         /\ UNCHANGED <<stamp, now, compressing>>
<1>1. /\ items \in Seq(Items) /\ Len(items) \in Nat /\ Len(items) <= MaxCapacity
      /\ MaxCapacity \in Nat /\ DOMAIN items = 1..Len(items)
  BY CapacityAssumption, LenProperties DEF WMTypeOK
<1> DEFINE at == {k \in DOMAIN items : stamp[items[k]] = id}
           cut(k) == SubSeq(items, 1, k - 1) \o SubSeq(items, k + 1, Len(items))
<1>2. \/ UNCHANGED <<items, dirty, version>>
      \/ \E k \in 1..Len(items) : stamp[items[k]] = id /\ items' = cut(k) /\ Touch
  BY <1>1, Zenon DEF Delete
<1>3. CASE UNCHANGED <<items, dirty, version>>
  BY <1>3 DEF Delete, WMTypeOK, searchVars
<1>4. CASE \E k \in 1..Len(items) : stamp[items[k]] = id /\ items' = cut(k) /\ Touch
  <2>1. PICK k \in 1..Len(items) : stamp[items[k]] = id /\ items' = cut(k) /\ Touch
    BY <1>4
  <2>2. /\ cut(k) \in Seq(Items) /\ Len(cut(k)) <= Len(items)
        /\ Elems(cut(k)) \subseteq Elems(items)
        /\ Elems(items) \subseteq Elems(cut(k)) \cup {items[k]}
    BY <1>1, CutElems
  <2> HIDE DEF cut
  <2>3. items' \in Seq(Items) /\ Len(items') <= MaxCapacity
    BY <1>1, <2>1, <2>2, LenProperties
  <2>4. WMTypeOK'
    BY <2>1, <2>3 DEF WMTypeOK, Delete, Touch, searchVars
  <2>5. QED
    BY <2>1, <2>2, <2>4 DEF Delete, searchVars
<1>5. QED
  BY <1>2, <1>3, <1>4

-----------------------------------------------------------------------------------
(* A step of a search changes the search state and the index, nothing else.   *)
LEMMA SearchEffect ==
  ASSUME WMTypeOK, NEW s \in Searchers, SearchStep(s)
  PROVE  WMTypeOK' /\ UNCHANGED <<items, stamp, now, compressing>>
<1> USE SearchAssumption DEF WMTypeOK, Phases
<1>1. CutOff \in Nat
  BY DEF CutOff
<1>2. ASSUME NEW phase \in {"score", "scan"}, LetGo(s, phase)
      PROVE  /\ search' \in [Searchers -> [phase : Phases, cutOff : Nat, hits : SUBSET Nat]]
             /\ base' \in [Searchers -> Nat]
  <2>1. [phase |-> phase, cutOff |-> CutOff, hits |-> {}]
          \in [phase : Phases, cutOff : Nat, hits : SUBSET Nat]
    BY <1>1
  <2>2. QED
    BY <1>2, <2>1 DEF LetGo
<1>3. ASSUME StartSearch(s) PROVE WMTypeOK' /\ UNCHANGED <<items, stamp, now, compressing>>
  <2>1. CASE dirty
    <3>1. /\ found' = [found EXCEPT ![s] = {}] /\ mu' = s
          /\ search' = [search EXCEPT ![s].phase = "building"]
          /\ UNCHANGED <<items, stamp, now, index, dirty, compressing, version, base>>
      BY <1>3, <2>1 DEF StartSearch
    <3>2. search' \in [Searchers -> [phase : Phases, cutOff : Nat, hits : SUBSET Nat]]
      BY <3>1
    <3>3. found' \in [Searchers -> SUBSET Items]
      BY <3>1
    <3>4. QED
      BY <3>1, <3>2, <3>3
  <2>2. CASE ~dirty
    BY <1>2, <1>3, <2>2 DEF StartSearch
  <2>3. QED
    BY <2>1, <2>2
<1>4. ASSUME FinishRebuild(s) PROVE WMTypeOK' /\ UNCHANGED <<items, stamp, now, compressing>>
  BY <1>2, <1>4 DEF FinishRebuild
<1>5. Idle \in [phase : Phases, cutOff : Nat, hits : SUBSET Nat]
  BY DEF Idle
<1>6. ASSUME Score(s) PROVE WMTypeOK' /\ UNCHANGED <<items, stamp, now, compressing>>
  <2>1. ASSUME NEW docs \in Seen PROVE DOMAIN docs \subseteq Nat
    <3>0. docs = index \/ \E n \in 0..Len(items) : docs = Front(items, n)
      BY Zenon DEF Seen
    <3>1. docs \in Seq(Items)
      <4>1. items \in Seq(Items) /\ Len(items) \in Nat /\ index \in Seq(Items)
        BY LenProperties
      <4>2. \A n \in 0..Len(items) : n \in Nat
        BY <4>1
      <4>3. \A n \in Nat : Front(items, n) \in Seq(Items)
        BY <4>1, FrontElems
      <4>4. QED
        BY <3>0, <4>1, <4>2, <4>3, Zenon
    <3>2. DOMAIN docs = 1..Len(docs) /\ Len(docs) \in Nat
      BY <3>1, LenProperties
    <3>3. QED
      BY <3>2
  <2>2. PICK docs \in Seen : \E hits \in AtMost(Matching(docs), 3 * Limit) :
       search' = [search EXCEPT ![s] =
                    IF hits = {} THEN Idle ELSE [@ EXCEPT !.phase = "read", !.hits = hits]]
    BY <1>6 DEF Score
  <2>3. PICK hits \in SUBSET Nat :
       search' = [search EXCEPT ![s] =
                    IF hits = {} THEN Idle ELSE [@ EXCEPT !.phase = "read", !.hits = hits]]
    BY <2>1, <2>2 DEF AtMost, Matching
  <2>4. [search[s] EXCEPT !.phase = "read", !.hits = hits]
          \in [phase : Phases, cutOff : Nat, hits : SUBSET Nat]
    OBVIOUS
  <2>5. search' \in [Searchers -> [phase : Phases, cutOff : Nat, hits : SUBSET Nat]]
    BY <1>5, <2>3, <2>4
  <2>6. QED
    BY <1>6, <2>5 DEF Score
<1>7. ASSUME NEW S \in SUBSET Items, Answer(s, S)
      PROVE WMTypeOK' /\ UNCHANGED <<items, stamp, now, compressing>>
  BY <1>5, <1>7 DEF Answer, AtMost
<1>8. \A k \in DOMAIN items : items[k] \in Items
  BY LenProperties, ElementOfSeq
<1>9. ASSUME ReadHits(s) PROVE WMTypeOK' /\ UNCHANGED <<items, stamp, now, compressing>>
  <2> DEFINE S == {i \in {items[k] : k \in search[s].hits \cap DOMAIN items} :
                     Fresh(i, search[s].cutOff)}
  <2>1. S \in SUBSET Items
    BY <1>8
  <2>2. Answer(s, S)
    BY <1>9 DEF ReadHits
  <2>3. QED
    BY <1>7, <2>1, <2>2
<1>10. ASSUME Scan(s) PROVE WMTypeOK' /\ UNCHANGED <<items, stamp, now, compressing>>
  <2> DEFINE F == {i \in Elems(items) : Fresh(i, search[s].cutOff)}
  <2>1. F \in SUBSET Items
    BY <1>8 DEF Elems
  <2>2. Newest(F, Limit) \in SUBSET Items
    BY <2>1 DEF Newest
  <2>3. Answer(s, Newest(F, Limit))
    BY <1>10 DEF Scan
  <2>4. QED
    BY <1>7, <2>2, <2>3
<1>11. QED
  BY <1>3, <1>4, <1>6, <1>9, <1>10 DEF SearchStep
-----------------------------------------------------------------------------------
(* The four ways a step can touch the slice, and what the others leave alone. *)
LEMMA ClockEffect ==
  ASSUME WMTypeOK, NEW i \in Items, ReadClock(i)
  PROVE  /\ WMTypeOK'
         /\ stamp' = [stamp EXCEPT ![i] = now] /\ stamp[i] = 0
         /\ now' >= now /\ (StrictClock => now' = now + 1)
         /\ UNCHANGED <<items, compressing>>
BY ClockAssumption DEF WMTypeOK, ReadClock, searchVars

(* The flag and the clock leave the slice alone.                                    *)
LEMMA OtherEffect ==
  ASSUME WMTypeOK, \/ TryLockCompress \/ UnlockCompress \/ Tick
  PROVE  /\ WMTypeOK'
         /\ now' >= now
         /\ UNCHANGED <<items, stamp>>
<1>1. CASE TryLockCompress
  BY <1>1 DEF WMTypeOK, TryLockCompress, searchVars
<1>2. CASE UnlockCompress
  <2>1. WMTypeOK'
    <3>1. compressing' \in BOOLEAN
      BY <1>2 DEF UnlockCompress
    <3>2. QED
      BY <1>2, <3>1 DEF WMTypeOK, UnlockCompress, searchVars
  <2>2. now' >= now /\ UNCHANGED <<items, stamp>>
    BY <1>2 DEF WMTypeOK, UnlockCompress
  <2>3. QED
    BY <2>1, <2>2
<1>3. CASE Tick
  BY <1>3 DEF WMTypeOK, Tick, searchVars
<1>4. QED
  BY <1>1, <1>2, <1>3

(* A step elsewhere leaves working memory as it is.                                 *)
LEMMA IdleEffect ==
  ASSUME WMTypeOK, UNCHANGED wmVars
  PROVE  WMTypeOK' /\ UNCHANGED <<items, stamp, now, compressing>>
BY DEF WMTypeOK, wmVars

-----------------------------------------------------------------------------------
(* The state has its types, and the slice never grows over its capacity.      *)
LEMMA TypeInit == Init => TypeOK
<1> SUFFICES ASSUME Init PROVE TypeOK
  OBVIOUS
<1>1. <<>> \in Seq(Items) /\ Len(<<>>) = 0
  BY EmptySeq
<1>2. WMTypeOK
  <2>1. items \in Seq(Items) /\ Len(items) <= MaxCapacity /\ index \in Seq(Items)
    BY <1>1, CapacityAssumption DEF Init, WMInit
  <2>2. Idle \in [phase : Phases, cutOff : Nat, hits : SUBSET Nat]
    BY DEF Idle, Phases
  <2>3. search \in [Searchers -> [phase : Phases, cutOff : Nat, hits : SUBSET Nat]]
    BY <2>2 DEF Init, WMInit
  <2>4. found \in [Searchers -> SUBSET Items]
    <3>1. found = [s \in Searchers |-> {}] /\ {} \in SUBSET Items
      BY DEF Init, WMInit
    <3>2. QED
      BY <3>1, Zenon
  <2>5. /\ stamp \in [Items -> Nat] /\ now \in Nat \ {0} /\ dirty \in BOOLEAN
        /\ mu \in Searchers \cup {Free} /\ compressing \in BOOLEAN
        /\ version \in Nat /\ base \in [Searchers -> Nat]
    <3>1. compressing \in BOOLEAN /\ dirty \in BOOLEAN
      BY DEF Init, WMInit
    <3>2. QED
      BY <3>1 DEF Init, WMInit
  <2>6. QED
    BY <2>1, <2>3, <2>4, <2>5 DEF WMTypeOK
<1>3. QED
  BY <1>2 DEF Init, TypeOK, Stages, Calling, Holding

(* Every step keeps the types and the capacity.                                     *)
LEMMA TypeStep == TypeOK /\ [Next]_vars => TypeOK'
<1> SUFFICES ASSUME TypeOK, [Next]_vars PROVE TypeOK'
  OBVIOUS
<1> DEFINE MgrTypeOK == /\ pc \in [Items -> Stages]
                        /\ snap \in [Items -> SUBSET Items]
                        /\ rows \subseteq Items
                        /\ vectors \subseteq Items /\ lost \subseteq vectors
<1>1. WMTypeOK /\ MgrTypeOK
  BY DEF TypeOK
<1>2. ASSUME UNCHANGED mgrVars PROVE MgrTypeOK'
  BY <1>1, <1>2 DEF mgrVars
<1>3. ASSUME NEW i \in Items, AddCall(i) PROVE WMTypeOK' /\ MgrTypeOK'
  <2>1. CASE Stamp(i)
    BY <1>1, <2>1, ClockEffect DEF Stamp, Goto, Stages, Calling
  <2>2. CASE Insert(i)
    BY <1>1, <2>2, AddEffect DEF Insert, Goto, Stages, Calling
  <2>3. CASE CheckCapacity(i)
    <3>1. UNCHANGED wmVars /\ UNCHANGED <<snap, rows, vectors, lost>>
          /\ pc' \in {[pc EXCEPT ![i] = "spawned"], [pc EXCEPT ![i] = "done"]}
      BY <2>3 DEF CheckCapacity, Goto
    <3>2. QED
      BY <1>1, <3>1, IdleEffect DEF Stages
  <2>4. QED
    BY <1>3, <2>1, <2>2, <2>3 DEF AddCall
<1>4. ASSUME NEW g \in Items, Compression(g) PROVE WMTypeOK' /\ MgrTypeOK'
  <2> USE DEF Goto, Stages, Holding
  <2>1. CASE Lock(g)
    BY <1>1, <2>1, OtherEffect DEF Lock
  <2>2. CASE GiveUp(g)
    BY <1>1, <2>2, IdleEffect DEF GiveUp
  <2>3. CASE TakeSnapshot(g)
    <3>1. Front(items, SnapshotSize) \in Seq(Items)
      BY <1>1, SnapshotAssumption, FrontElems DEF WMTypeOK
    <3>2. Elems(Front(items, SnapshotSize)) \subseteq Items
      BY <3>1, LenProperties, ElementOfSeq DEF Elems
    <3>3. QED
      BY <1>1, <2>3, <3>2, IdleEffect DEF TakeSnapshot
  <2>4. CASE Summarize(g)
    BY <1>1, <2>4, IdleEffect DEF Summarize
  <2>5. CASE SaveRow(g)
    BY <1>1, <2>5, IdleEffect DEF SaveRow
  <2>6. CASE UpsertVector(g)
    BY <1>1, <2>6, IdleEffect DEF UpsertVector
  <2>7. CASE Fail(g)
    BY <1>1, <2>7, IdleEffect DEF Fail
  <2>8. CASE RemoveSources(g)
    BY <1>1, <2>8, RemoveEffect DEF RemoveSources
  <2>9. CASE Unlock(g)
    BY <1>1, <2>9, OtherEffect DEF Unlock
  <2>10. QED
    BY <1>4, <2>1, <2>2, <2>3, <2>4, <2>5, <2>6, <2>7, <2>8, <2>9 DEF Compression
<1>5. ASSUME NEW i \in Items, Delete(stamp[i]), UNCHANGED mgrVars PROVE WMTypeOK' /\ MgrTypeOK'
  BY <1>1, <1>2, <1>5, DeleteEffect
<1>6. ASSUME NEW s \in Searchers, SearchStep(s), UNCHANGED mgrVars PROVE WMTypeOK' /\ MgrTypeOK'
  BY <1>1, <1>2, <1>6, SearchEffect
<1>7. ASSUME Tick, UNCHANGED mgrVars PROVE WMTypeOK' /\ MgrTypeOK'
  BY <1>1, <1>2, <1>7, OtherEffect
<1>8. ASSUME UNCHANGED vars PROVE WMTypeOK' /\ MgrTypeOK'
  BY <1>1, <1>2, <1>8, IdleEffect DEF vars, mgrVars
<1>9. WMTypeOK' /\ MgrTypeOK'
  BY <1>3, <1>4, <1>5, <1>6, <1>7, <1>8, SnapshotAssumption DEF Next
<1>10. QED
  BY <1>9 DEF TypeOK

(* The state has its types and the slice never outgrows its capacity (Add, manager.go). *)
THEOREM TypeCorrect == Spec => []TypeOK
BY TypeInit, TypeStep, PTL DEF Spec
-----------------------------------------------------------------------------------
(* Steps outside the manager: callers of Delete, searches, the clock.         *)
Outside == /\ UNCHANGED mgrVars
           /\ \/ \E i \in Items : Delete(stamp[i])
              \/ \E s \in Searchers : SearchStep(s)
              \/ Tick
              \/ UNCHANGED wmVars

(* Searches, deletions and the clock touch no call, batch or episode; items may go. *)
LEMMA OutsideEffect ==
  ASSUME TypeOK, Outside
  PROVE  /\ UNCHANGED <<pc, snap, rows, vectors, lost, stamp, compressing>>
         /\ Elems(items') \subseteq Elems(items)
         /\ now' >= now
<1>1. WMTypeOK /\ now \in Nat
  BY DEF TypeOK, WMTypeOK
<1>2. UNCHANGED <<pc, snap, rows, vectors, lost>>
  BY DEF Outside, mgrVars
<1> DEFINE Goal == /\ UNCHANGED <<stamp, compressing>>
                   /\ Elems(items') \subseteq Elems(items)
                   /\ now' >= now
<1>3. ASSUME NEW i \in Items, Delete(stamp[i]) PROVE Goal
  BY <1>1, <1>3, DeleteEffect
<1>4. ASSUME NEW s \in Searchers, SearchStep(s) PROVE Goal
  BY <1>1, <1>4, SearchEffect
<1>5. ASSUME Tick PROVE Goal
  BY <1>1, <1>5 DEF Tick, searchVars
<1>6. ASSUME UNCHANGED wmVars PROVE Goal
  BY <1>1, <1>6 DEF wmVars
<1>7. QED
  BY <1>2, <1>3, <1>4, <1>5, <1>6, Zenon DEF Outside

(* A step is one call's, one compression's, or outside both.                        *)
LEMMA NextCases ==
  ASSUME TypeOK, [Next]_vars
  PROVE  \/ \E i \in Items : AddCall(i) \/ Compression(i)
         \/ Outside
BY SnapshotAssumption, Zenon DEF Next, Outside, vars, mgrVars

(* At most one compression holds the flag, and the flag tells so.             *)
LEMMA LockStep ==
  ASSUME TypeOK, OneCompression, [Next]_vars PROVE OneCompression'
<1> USE DEF OneCompression, TypeOK, WMTypeOK, Goto, At, Stages, Calling, Holding
<1>1. ASSUME NEW i \in Items, AddCall(i) PROVE OneCompression'
  <2>1. ASSUME ~(pc[i] \in Holding), NEW stage \in {"stamped", "inserted", "spawned", "done"},
               pc' = [pc EXCEPT ![i] = stage], UNCHANGED compressing
        PROVE  OneCompression'
    BY <2>1
  <2>2. CASE Stamp(i)
    BY <2>1, <2>2 DEF Stamp, ReadClock
  <2>3. CASE Insert(i)
    BY <2>1, <2>3 DEF Insert, Add
  <2>4. CASE CheckCapacity(i)
    BY <2>1, <2>4 DEF CheckCapacity, wmVars
  <2>5. QED
    BY <1>1, <2>2, <2>3, <2>4 DEF AddCall
<1>2. ASSUME NEW g \in Items, Compression(g) PROVE OneCompression'
  <2>1. ASSUME pc[g] \in Holding, NEW stage \in Holding,
               pc' = [pc EXCEPT ![g] = stage], UNCHANGED compressing
        PROVE  OneCompression'
    BY <2>1
  <2>2. CASE Lock(g)
    BY <2>2 DEF Lock, TryLockCompress
  <2>3. CASE GiveUp(g)
    BY <2>3 DEF GiveUp, wmVars
  <2>4. CASE TakeSnapshot(g)
    BY <2>1, <2>4 DEF TakeSnapshot, wmVars
  <2>5. CASE Summarize(g)
    BY <2>1, <2>5 DEF Summarize, wmVars
  <2>6. CASE SaveRow(g)
    BY <2>1, <2>6 DEF SaveRow, wmVars
  <2>7. CASE UpsertVector(g)
    BY <2>1, <2>7 DEF UpsertVector, wmVars
  <2>8. CASE Fail(g)
    BY <2>1, <2>8 DEF Fail, wmVars
  <2>9. CASE RemoveSources(g)
    BY <2>1, <2>9 DEF RemoveSources, RemoveItems
  <2>10. CASE Unlock(g)
    BY <2>10 DEF Unlock, UnlockCompress
  <2>11. QED
    BY <1>2, <2>2, <2>3, <2>4, <2>5, <2>6, <2>7, <2>8, <2>9, <2>10 DEF Compression
<1>3. ASSUME Outside PROVE OneCompression'
  BY <1>3, OutsideEffect
<1>4. QED
  BY <1>1, <1>2, <1>3, NextCases

(* The compare-and-swap makes compressions mutually exclusive, whatever the   *)
(* number of concurrent Add calls, failures and evictions.                    *)
THEOREM MutualExclusion == Spec => []OneCompression
<1>1. Init => OneCompression
  BY DEF Init, WMInit, OneCompression, Holding
<1>2. QED
  BY <1>1, LockStep, TypeCorrect, PTL DEF Spec

(* An ID is given once, before the insertion; a strict clock gives no ID twice. *)
LEMMA StampStep ==
  ASSUME TypeOK, StampInv, [Next]_vars PROVE StampInv'
<1> USE DEF TypeOK, WMTypeOK, Goto, At, Stages, Calling, Holding
<1>1. ASSUME UNCHANGED stamp, now' >= now, \A i \in Items : pc'[i] = "new" <=> pc[i] = "new"
      PROVE  StampInv'
  <2>1. \A i \in Items : pc'[i] = "new" <=> stamp'[i] = 0
    BY <1>1 DEF StampInv
  <2>2. ASSUME StrictClock
        PROVE  /\ \A i \in Items : stamp'[i] < now'
               /\ \A i, j \in Items : stamp'[i] = stamp'[j] /\ stamp'[i] # 0 => i = j
    <3>1. ASSUME NEW i \in Items PROVE stamp'[i] < now'
      <4>1. stamp[i] \in Nat /\ now \in Nat /\ now' \in Nat
        BY TypeStep
      <4>2. stamp[i] < now
        BY <2>2 DEF StampInv
      <4>3. stamp'[i] < now'
        BY <1>1, <4>1, <4>2
      <4>4. QED
        BY <4>3
    <3>2. QED
      BY <1>1, <2>2, <3>1 DEF StampInv
  <2>3. QED
    BY <2>1, <2>2 DEF StampInv
<1>2. ASSUME NEW i \in Items, AddCall(i) PROVE StampInv'
  <2>1. CASE Stamp(i)
    <3>1. /\ pc' = [pc EXCEPT ![i] = "stamped"] /\ pc[i] = "new" /\ stamp[i] = 0
          /\ stamp' = [stamp EXCEPT ![i] = now]
          /\ StrictClock => now' = now + 1
      BY <2>1, ClockEffect DEF Stamp
    <3>2. \A j \in Items : pc'[j] = "new" <=> stamp'[j] = 0
      BY <3>1 DEF StampInv
    <3>3. ASSUME StrictClock
          PROVE  /\ \A j \in Items : stamp'[j] < now'
                 /\ \A j, k \in Items : stamp'[j] = stamp'[k] /\ stamp'[j] # 0 => j = k
      <4>1. \A j \in Items : stamp'[j] = IF j = i THEN now ELSE stamp[j]
        BY <3>1
      <4>2. \A j \in Items : stamp[j] < now /\ stamp[j] \in Nat
        BY <3>3 DEF StampInv
      <4>3. \A j, k \in Items : stamp[j] = stamp[k] /\ stamp[j] # 0 => j = k
        BY <3>3 DEF StampInv
      <4>4. now \in Nat /\ now' = now + 1
        BY <3>1, <3>3
      <4>5. \A j \in Items : stamp'[j] < now'
        <5>1. ASSUME NEW j \in Items PROVE stamp'[j] < now + 1
          <6>1. stamp[j] \in Nat /\ now \in Nat /\ stamp[j] < now
            BY <4>2, <4>4
          <6>2. stamp[j] < now + 1 /\ now < now + 1
            BY <6>1
          <6>3. QED
            BY <4>1, <6>2
        <5>2. QED
          BY <4>4, <5>1
      <4>6. \A j, k \in Items : stamp'[j] = stamp'[k] /\ stamp'[j] # 0 => j = k
        BY <4>1, <4>2, <4>3, <4>4
      <4>7. QED
        BY <4>5, <4>6
    <3>4. QED
      BY <3>2, <3>3 DEF StampInv
  <2>2. CASE Insert(i)
    BY <1>1, <2>2 DEF Insert, Add
  <2>3. CASE CheckCapacity(i)
    BY <1>1, <2>3 DEF CheckCapacity, wmVars
  <2>4. QED
    BY <1>2, <2>1, <2>2, <2>3 DEF AddCall
<1>3. ASSUME NEW g \in Items, Compression(g) PROVE StampInv'
  <2>1. UNCHANGED <<stamp, now>>
    BY <1>3 DEF Compression, Lock, GiveUp, TakeSnapshot, Summarize, SaveRow, UpsertVector,
                Fail, RemoveSources, Unlock, TryLockCompress, UnlockCompress, RemoveItems, wmVars
  <2>2. \E stage \in Stages \ {"new"} : pc' = [pc EXCEPT ![g] = stage]
    BY <1>3 DEF Compression, Lock, GiveUp, TakeSnapshot, Summarize, SaveRow, UpsertVector,
                Fail, RemoveSources, Unlock
  <2>3. pc[g] # "new"
    BY <1>3 DEF Compression, Lock, GiveUp, TakeSnapshot, Summarize, SaveRow, UpsertVector,
                Fail, RemoveSources, Unlock
  <2>4. QED
    BY <1>1, <2>1, <2>2, <2>3
<1>4. ASSUME Outside PROVE StampInv'
  BY <1>1, <1>4, OutsideEffect
<1>5. QED
  BY <1>2, <1>3, <1>4, NextCases
-----------------------------------------------------------------------------------
(* The part of a compression step that tells which of its cases applies.      *)
LEMMA CompressionQuiet ==
  ASSUME TypeOK, NEW g \in Items, Compression(g)
  PROVE  /\ \E stage \in Holding \cup {"done"} : pc' = [pc EXCEPT ![g] = stage]
         /\ pc[g] \in Holding \cup {"spawned"}
         /\ UNCHANGED <<stamp, now>>
         /\ RemoveSources(g) \/ UNCHANGED items
BY DEF Compression, Lock, GiveUp, TakeSnapshot, Summarize, SaveRow, UpsertVector, Fail,
       RemoveSources, Unlock, TryLockCompress, UnlockCompress, RemoveItems, wmVars,
       Goto, At, Holding

(* Whatever is in the slice or in a batch went through an insertion.          *)
LEMMA AcceptedStep ==
  ASSUME TypeOK, AcceptedInv, [Next]_vars
  PROVE  AcceptedInv' /\ Accepted \subseteq Accepted'
<1> USE DEF TypeOK, Goto, At
<1>1. WMTypeOK /\ items \in Seq(Items)
  BY DEF WMTypeOK
<1>2. ASSUME NEW i \in Items, AddCall(i) PROVE AcceptedInv' /\ Accepted \subseteq Accepted'
  <2>1. CASE Stamp(i)
    <3>1. Accepted' = Accepted
      BY <2>1 DEF Stamp, Accepted
    <3>2. UNCHANGED <<items, snap>>
      BY <2>1 DEF Stamp, ReadClock
    <3>3. QED
      BY <3>1, <3>2 DEF AcceptedInv
  <2>2. CASE Insert(i)
    <3>1. Accepted' = Accepted \cup {i}
      BY <2>2 DEF Insert, Accepted
    <3>2. Elems(items') \subseteq Elems(items) \cup {i} /\ UNCHANGED snap
      BY <1>1, <2>2, AddEffect DEF Insert
    <3>3. QED
      BY <3>1, <3>2 DEF AcceptedInv
  <2>3. CASE CheckCapacity(i)
    <3>1. Accepted' = Accepted
      BY <2>3 DEF CheckCapacity, Accepted
    <3>2. UNCHANGED <<items, snap>>
      BY <2>3 DEF CheckCapacity, wmVars
    <3>3. QED
      BY <3>1, <3>2 DEF AcceptedInv
  <2>4. QED
    BY <1>2, <2>1, <2>2, <2>3 DEF AddCall
<1>3. ASSUME NEW g \in Items, Compression(g) PROVE AcceptedInv' /\ Accepted \subseteq Accepted'
  <2>1. Accepted' = Accepted
    BY <1>3, CompressionQuiet DEF Accepted, Holding
  <2>2. CASE TakeSnapshot(g)
    <3>1. Elems(Front(items, SnapshotSize)) \subseteq Elems(items)
      BY <1>1, FrontElems, SnapshotAssumption
    <3>2. UNCHANGED items /\ snap' = [snap EXCEPT ![g] = Elems(Front(items, SnapshotSize))]
      BY <2>2 DEF TakeSnapshot, wmVars
    <3>3. QED
      BY <2>1, <3>1, <3>2 DEF AcceptedInv
  <2>3. CASE ~TakeSnapshot(g)
    <3>1. UNCHANGED snap
      BY <1>3, <2>3 DEF Compression, Lock, GiveUp, Summarize, SaveRow, UpsertVector, Fail,
                       RemoveSources, Unlock
    <3>2. Elems(items') \subseteq Elems(items)
      BY <1>1, <1>3, CompressionQuiet, RemoveEffect DEF RemoveSources
    <3>3. QED
      BY <2>1, <3>1, <3>2 DEF AcceptedInv
  <2>4. QED
    BY <2>2, <2>3
<1>4. ASSUME Outside PROVE AcceptedInv' /\ Accepted \subseteq Accepted'
  BY <1>4, OutsideEffect DEF AcceptedInv, Accepted
<1>5. QED
  BY <1>2, <1>3, <1>4, NextCases

(* The rows and the points follow the stages of the run that writes them.     *)
LEMMA EpisodeStep ==
  ASSUME TypeOK, EpisodeInv, [Next]_vars PROVE EpisodeInv'
<1> USE DEF EpisodeInv, EpisodeComplete, TypeOK, Goto, At, Holding
<1>1. ASSUME NEW i \in Items, AddCall(i) PROVE EpisodeInv'
  <2>1. UNCHANGED <<snap, rows, vectors, lost>>
    BY <1>1 DEF AddCall, Stamp, Insert, CheckCapacity
  <2>2. /\ \E stage \in {"stamped", "inserted", "spawned", "done"} :
             pc' = [pc EXCEPT ![i] = stage]
        /\ pc[i] \in {"new", "stamped", "inserted"}
    BY <1>1 DEF AddCall, Stamp, Insert, CheckCapacity
  <2>3. QED
    BY <2>1, <2>2
<1>2. ASSUME NEW g \in Items, Compression(g) PROVE EpisodeInv'
  <2>1. CASE Lock(g)
    BY <2>1 DEF Lock
  <2>2. CASE GiveUp(g)
    BY <2>2 DEF GiveUp
  <2>3. CASE TakeSnapshot(g)
    BY <2>3 DEF TakeSnapshot
  <2>4. CASE Summarize(g)
    BY <2>4 DEF Summarize
  <2>5. CASE SaveRow(g)
    BY <2>5 DEF SaveRow
  <2>6. CASE UpsertVector(g)
    BY <2>6 DEF UpsertVector
  <2>7. CASE Fail(g)
    BY <2>7 DEF Fail
  <2>8. CASE RemoveSources(g)
    BY <2>8 DEF RemoveSources
  <2>9. CASE Unlock(g)
    BY <2>9 DEF Unlock
  <2>10. QED
    BY <1>2, <2>1, <2>2, <2>3, <2>4, <2>5, <2>6, <2>7, <2>8, <2>9 DEF Compression
<1>3. ASSUME Outside PROVE EpisodeInv'
  BY <1>3, OutsideEffect
<1>4. QED
  BY <1>1, <1>2, <1>3, NextCases

-----------------------------------------------------------------------------------
(* The inductive invariant behind the theorems on the manager's compression.        *)
THEOREM SafetyCorrect == Spec => []SafetyInv
<1>1. Init => SafetyInv
  <2> SUFFICES ASSUME Init PROVE SafetyInv
    OBVIOUS
  <2>1. TypeOK
    BY TypeInit
  <2>2. OneCompression /\ StampInv /\ EpisodeInv
    BY DEF Init, WMInit, OneCompression, StampInv, EpisodeInv, EpisodeComplete, Holding
  <2>3. Elems(items) = {}
    BY DEF Init, WMInit, Elems
  <2>4. AcceptedInv
    BY <2>3 DEF Init, AcceptedInv
  <2>5. QED
    BY <2>1, <2>2, <2>4 DEF SafetyInv
<1>2. SafetyInv /\ [Next]_vars => SafetyInv'
  BY TypeStep, LockStep, StampStep, AcceptedStep, EpisodeStep DEF SafetyInv
<1>3. QED
  BY <1>1, <1>2, PTL DEF Spec

(* An episode found by its vector always has its row in SQLite.               *)
THEOREM EpisodesComplete == Spec => []EpisodeComplete
BY SafetyCorrect, PTL DEF SafetyInv, EpisodeInv

(* What a compression removes is exactly what its episode tells: an ID names  *)
(* one item when the clock never repeats itself.                              *)
LEMMA SourcesExact ==
  ASSUME SafetyInv, StrictClock, NEW g \in Items
  PROVE  WithIds({stamp[i] : i \in snap[g]}) = snap[g]
<1> USE DEF SafetyInv, TypeOK, WMTypeOK
<1>1. \A i \in snap[g] : i \in Items /\ stamp[i] # 0
  BY DEF AcceptedInv, Accepted, StampInv
<1>2. \A i, j \in Items : stamp[i] = stamp[j] /\ stamp[i] # 0 => i = j
  BY DEF StampInv
<1>3. QED
  BY <1>1, <1>2, Zenon DEF WithIds

(* Under a strict clock, an item leaves the slice only for a reason.                *)
LEMMA LeaveStep ==
  ASSUME SafetyInv, StrictClock, [Next]_vars
  PROVE  \A i \in Elems(items) \ Elems(items') :
           \/ i = Head(items) /\ Len(items) = MaxCapacity /\ Len(items') = MaxCapacity
           \/ Delete(stamp[i])
           \/ \E g \in vectors : i \in snap[g]
<1> SUFFICES ASSUME NEW x \in Elems(items) \ Elems(items'), ~Delete(stamp[x])
             PROVE  \/ x = Head(items) /\ Len(items) = MaxCapacity /\ Len(items') = MaxCapacity
                    \/ \E g \in vectors : x \in snap[g]
  OBVIOUS
<1>1. TypeOK /\ WMTypeOK
  BY DEF SafetyInv, TypeOK
<1>2. items' # items
  OBVIOUS
<1>3. ASSUME NEW i \in Items, AddCall(i)
      PROVE  x = Head(items) /\ Len(items) = MaxCapacity /\ Len(items') = MaxCapacity
  <2>1. Insert(i)
    BY <1>2, <1>3 DEF AddCall, Stamp, CheckCapacity, ReadClock, wmVars
  <2>2. QED
    BY <1>1, <2>1, AddEffect DEF Insert
<1>4. ASSUME NEW g \in Items, Compression(g) PROVE \E h \in vectors : x \in snap[h]
  <2>1. RemoveSources(g)
    BY <1>1, <1>2, <1>4, CompressionQuiet
  <2>2. x \in WithIds({stamp[i] : i \in snap[g]})
    BY <1>1, <2>1, RemoveEffect DEF RemoveSources
  <2>3. x \in snap[g]
    BY <2>2, SourcesExact
  <2>4. g \in vectors
    BY <2>1 DEF RemoveSources, At, SafetyInv, EpisodeInv
  <2>5. QED
    BY <2>3, <2>4
<1>5. ASSUME Outside PROVE FALSE
  <2>1. PICK i \in Items : Delete(stamp[i])
    BY <1>1, <1>2, <1>5, SearchEffect DEF Outside, Tick, wmVars, searchVars
  <2>2. stamp[x] = stamp[i]
    BY <1>1, <2>1, DeleteEffect
  <2>3. QED
    BY <2>1, <2>2
<1>6. QED
  BY <1>1, <1>3, <1>4, <1>5, NextCases DEF SafetyInv

(* With a clock that never repeats itself an item leaves the slice only as    *)
(* the displaced oldest, by Delete, or told by a retrievable episode: neither *)
(* a failed nor an overtaken compression (compressWorking) loses a memory.    *)
THEOREM LeavesSafelyCorrect == ASSUME StrictClock PROVE Spec => LeavesSafely
<1>1. SafetyInv /\ [Next]_vars =>
        [\A i \in Elems(items) \ Elems(items') :
           \/ i = Head(items) /\ Len(items) = MaxCapacity /\ Len(items') = MaxCapacity
           \/ Delete(stamp[i])
           \/ \E g \in vectors : i \in snap[g]]_vars
  BY LeaveStep
<1>2. QED
  BY <1>1, SafetyCorrect, PTL DEF Spec, LeavesSafely
-----------------------------------------------------------------------------------
(* ToldOnce is not inductive: that a batch is untold when it is taken needs   *)
(* the sources of every earlier episode to be out of the slice (ToldInv).     *)
ToldSafety == SafetyInv /\ ToldInv

(* What is acknowledged changes only by an upsert: a run that fails was not.   *)
LEMMA AcknowledgedStep ==
  ASSUME ToldSafety
  PROVE  /\ \A g \in Items : UpsertVector(g) => Acknowledged' = Acknowledged \cup {g}
         /\ \A g \in Items : Fail(g) => UNCHANGED Acknowledged
         /\ UNCHANGED <<vectors, lost>> => UNCHANGED Acknowledged
         /\ Acknowledged \subseteq vectors
<1> USE DEF ToldSafety, SafetyInv, TypeOK, EpisodeInv, Acknowledged, At
<1>1. ASSUME NEW g \in Items, pc[g] = "saved" PROVE g \notin vectors /\ g \notin lost
  BY <1>1
<1>2. ASSUME NEW g \in Items, UpsertVector(g) PROVE Acknowledged' = Acknowledged \cup {g}
  BY <1>1, <1>2 DEF UpsertVector
<1>3. ASSUME NEW g \in Items, Fail(g) PROVE UNCHANGED Acknowledged
  BY <1>1, <1>3 DEF Fail
<1> QED
  BY <1>2, <1>3

(* A step keeps what is known of told memories and batches.                         *)
LEMMA ToldStep ==
  ASSUME ToldSafety, [Next]_vars PROVE ToldInv'
<1> USE AcknowledgedStep DEF ToldSafety, SafetyInv, TypeOK, Goto, At, Holding
<1>1. WMTypeOK /\ items \in Seq(Items)
  BY DEF WMTypeOK
<1>2. ASSUME UNCHANGED <<snap, Acknowledged>>,
             Elems(items') \subseteq Elems(items),
             \A h \in Items : pc[h] = "indexed" => pc'[h] = "indexed",
             \A h \in Items : pc'[h] \in {"taken", "summarized", "saved"} =>
                                pc[h] \in {"taken", "summarized", "saved"}
      PROVE  ToldInv'
  BY <1>2 DEF ToldInv, ToldOnce
<1>3. ASSUME NEW i \in Items, AddCall(i) PROVE ToldInv'
  <2>1. CASE Insert(i)
    <3>1. Elems(items') \subseteq Elems(items) \cup {i}
      BY <1>1, <2>1, AddEffect DEF Insert
    <3>2. \A g \in Acknowledged : i \notin snap[g]
      BY <2>1 DEF Insert, AcceptedInv, Accepted
    <3>3. UNCHANGED <<snap, Acknowledged>> /\ pc' = [pc EXCEPT ![i] = "inserted"]
      BY <2>1 DEF Insert
    <3>4. \A g \in Acknowledged : pc[g] # "indexed" => snap[g] \cap Elems(items') = {}
      BY <3>1, <3>2 DEF ToldInv
    <3>5. \A g \in Acknowledged : g # i
      BY <2>1 DEF Insert, EpisodeInv
    <3>6. QED
      BY <3>3, <3>4, <3>5 DEF ToldInv, ToldOnce
  <2>2. CASE ~Insert(i)
    <3>1. UNCHANGED <<items, snap, Acknowledged>>
      BY <1>3, <2>2 DEF AddCall, Stamp, CheckCapacity, ReadClock, wmVars
    <3>2. \E stage \in {"stamped", "spawned", "done"} : pc' = [pc EXCEPT ![i] = stage]
      BY <1>3, <2>2 DEF AddCall, Stamp, CheckCapacity
    <3>3. pc[i] \in {"new", "inserted"}
      BY <1>3, <2>2 DEF AddCall, Stamp, CheckCapacity
    <3>4. QED
      BY <1>2, <3>1, <3>2, <3>3
  <2>3. QED
    BY <2>1, <2>2
<1>4. ASSUME NEW g \in Items, Compression(g) PROVE ToldInv'
  <2>1. CASE TakeSnapshot(g)
    <3> DEFINE batch == Elems(Front(items, SnapshotSize))
    <3>1. batch \subseteq Elems(items)
      BY <1>1, FrontElems, SnapshotAssumption
    <3>2. /\ snap' = [snap EXCEPT ![g] = batch] /\ UNCHANGED <<items, Acknowledged>>
          /\ pc[g] = "locked" /\ pc' = [pc EXCEPT ![g] = "taken"]
      BY <2>1 DEF TakeSnapshot, wmVars
    <3> HIDE DEF batch
    <3>3. g \notin vectors \cup Acknowledged
      BY <3>2 DEF EpisodeInv
    <3>4. \A h \in Acknowledged : snap'[h] = snap[h] /\ pc'[h] = pc[h] /\ h \in Items
      BY <3>2, <3>3
    <3>5. \A h \in Acknowledged : snap[h] \cap Elems(items) = {}
      BY <3>2, <3>3 DEF OneCompression, ToldInv
    <3>6. \A h \in Acknowledged : batch \cap snap[h] = {}
      BY <3>1, <3>5
    <3>7. \A h \in Items : pc'[h] \in {"taken", "summarized", "saved"} => h = g
      BY <3>2 DEF OneCompression
    <3>8. snap'[g] = batch
      BY <3>2
    <3>9. ToldOnce'
      BY <3>2, <3>4 DEF ToldInv, ToldOnce
    <3>10. QED
      BY <3>2, <3>4, <3>5, <3>6, <3>7, <3>8, <3>9 DEF ToldInv
  <2>2. CASE UpsertVector(g)
    <3>1. /\ Acknowledged' = Acknowledged \cup {g} /\ UNCHANGED <<items, snap>>
          /\ pc[g] = "saved" /\ pc' = [pc EXCEPT ![g] = "indexed"]
      BY <2>2 DEF UpsertVector, wmVars
    <3>2. \A h \in Acknowledged : snap[g] \cap snap[h] = {}
      BY <3>1 DEF ToldInv
    <3>3. \A h \in Items : pc'[h] \notin {"taken", "summarized", "saved"}
      BY <3>1 DEF OneCompression
    <3>4. ToldOnce'
      BY <3>1, <3>2 DEF ToldInv, ToldOnce
    <3>5. QED
      BY <3>1, <3>3, <3>4 DEF ToldInv
  <2>3. CASE RemoveSources(g)
    <3>1. /\ UNCHANGED <<snap, Acknowledged>>
          /\ pc[g] = "indexed" /\ pc' = [pc EXCEPT ![g] = "release"]
          /\ Elems(items') = Elems(items) \ WithIds({stamp[i] : i \in snap[g]})
      BY <1>1, <2>3, RemoveEffect DEF RemoveSources
    <3>2. snap[g] \subseteq WithIds({stamp[i] : i \in snap[g]})
      BY DEF WithIds
    <3>3. QED
      BY <3>1, <3>2 DEF ToldInv, ToldOnce
  <2>4. CASE ~(TakeSnapshot(g) \/ UpsertVector(g) \/ RemoveSources(g))
    <3>1. UNCHANGED <<items, snap, Acknowledged>>
      BY <1>4, <2>4 DEF Compression, Lock, GiveUp, Summarize, SaveRow, Fail, Unlock,
                       TryLockCompress, UnlockCompress, wmVars
    <3>2. /\ pc[g] # "indexed"
          /\ \/ pc[g] \in {"taken", "summarized", "saved"}
                /\ \E stage \in {"summarized", "saved", "release"} : pc' = [pc EXCEPT ![g] = stage]
             \/ \E stage \in {"locked", "done"} : pc' = [pc EXCEPT ![g] = stage]
      BY <1>4, <2>4 DEF Compression, Lock, GiveUp, Summarize, SaveRow, Fail, Unlock
    <3>3. QED
      BY <1>2, <3>1, <3>2
  <2>5. QED
    BY <2>1, <2>2, <2>3, <2>4
<1>5. ASSUME Outside PROVE ToldInv'
  BY <1>2, <1>5, OutsideEffect
<1>6. QED
  BY <1>3, <1>4, <1>5, NextCases

(* No memory is told twice by episodes that were acknowledged.                      *)
LEMMA ToldSafetyCorrect == Spec => []ToldSafety
<1>1. Init => ToldInv
  BY DEF Init, WMInit, ToldInv, ToldOnce, Acknowledged
<1>2. ToldSafety /\ [Next]_vars => ToldInv'
  BY ToldStep
<1>3. QED
  BY <1>1, <1>2, SafetyCorrect, PTL DEF Spec, ToldSafety

(* Of two retrievable episodes that tell a memory in common, one was written  *)
(* by an upsert whose reply was lost, however compressions, failures,         *)
(* evictions and Add calls interleave (compressWorking: upsert, then          *)
(* RemoveItems, then unlock).                                                 *)
THEOREM ToldOnceCorrect == Spec => []ToldOnce
BY ToldSafetyCorrect, PTL DEF ToldSafety, ToldInv
-----------------------------------------------------------------------------------
(* Refinement of MemoryTier.  The linearization point of a compression is the *)
(* upsert of its vector: until then its sources count as working, from then   *)
(* on as told, although they stay in the slice until RemoveItems.             *)
Mapped == <<Accepted, Elems(items) \ Told, {snap[g] : g \in Acknowledged}, {snap[g] : g \in lost}>>

(* A step that changes neither tier is a stutter of MemoryTier.                     *)
LEMMA QuietStep ==
  ASSUME UNCHANGED <<Accepted, snap, vectors, lost>>, Elems(items') = Elems(items)
  PROVE  UNCHANGED Mapped
BY DEF Mapped, Told, Acknowledged

(* Inserting an item into working memory is MemoryTier's Remember.                  *)
LEMMA InsertRefines ==
  ASSUME ToldSafety, NEW i \in Items, Insert(i) PROVE Tier!Remember(i)
<1> USE DEF ToldSafety, SafetyInv
<1>1. /\ Elems(items') \subseteq Elems(items) \cup {i} /\ i \in Elems(items')
      /\ Elems(items) \subseteq Elems(items') \cup {Head(items)}
  BY AddEffect DEF Insert, TypeOK
<1>2. UNCHANGED <<snap, lost, Acknowledged>> /\ Told' = Told
  BY DEF Insert, Told, Acknowledged
<1>3. i \notin Accepted /\ Accepted' = Accepted \cup {i}
  BY DEF Insert, At, Goto, Accepted, TypeOK
<1>4. i \notin Told
  BY <1>3 DEF AcceptedInv, Told, Acknowledged, TypeOK
<1> DEFINE working == Elems(items) \ Told
           gone == {Head(items)} \cap (working \ Elems(items'))
<1>5. (Elems(items) \ Told)' = (working \ gone) \cup {i}
  BY <1>1, <1>2, <1>4, Zenon
<1>6. gone \in {{}} \cup {{j} : j \in working}
  BY Zenon
<1>7. UNCHANGED <<{snap[h] : h \in Acknowledged}, {snap[h] : h \in lost}>>
  BY <1>2
<1> HIDE DEF gone
<1>8. \E out \in {{}} \cup {{j} : j \in working} : (Elems(items) \ Told)' = (working \ out) \cup {i}
  BY <1>5, <1>6, Zenon
<1>9. QED
  BY <1>3, <1>7, <1>8, Zenon DEF Tier!Remember, Accepted

(* Upserting the point is MemoryTier's consolidation.                               *)
LEMMA UpsertRefines ==
  ASSUME ToldSafety, NEW g \in Items, UpsertVector(g),
         NEW batch \in SUBSET Items, batch = snap[g]
  PROVE  Tier!Consolidate(batch)
<1> USE DEF ToldSafety, SafetyInv
<1>1. /\ Acknowledged' = Acknowledged \cup {g} /\ UNCHANGED <<items, snap, lost>>
      /\ pc[g] = "saved" /\ pc' = [pc EXCEPT ![g] = "indexed"]
  BY AcknowledgedStep DEF UpsertVector, At, Goto, wmVars
<1>2. snap[g] # {} /\ snap[g] \subseteq Accepted
  BY <1>1 DEF EpisodeInv, AcceptedInv
<1>3. \A h \in Acknowledged : snap[g] \cap snap[h] = {}
  BY <1>1 DEF ToldInv
<1>4. Accepted' = Accepted
  BY <1>1 DEF Accepted, TypeOK
<1>5. {snap'[h] : h \in Acknowledged'} = {snap[h] : h \in Acknowledged} \cup {snap[g]}
  BY <1>1, Zenon
<1>6. Told' = Told \cup snap[g]
  BY <1>1, <1>5, Zenon DEF Told
<1>7. Elems(items') \ Told' = (Elems(items) \ Told) \ snap[g]
  BY <1>1, <1>6, Zenon
<1>8. {snap'[h] : h \in lost'} = {snap[h] : h \in lost}
  BY <1>1
<1>9. QED
  BY <1>2, <1>3, <1>4, <1>5, <1>7, <1>8 DEF Tier!Consolidate, Accepted

(* An upsert whose reply is lost is MemoryTier's echo.                              *)
LEMMA FailRefines ==
  ASSUME ToldSafety, NEW g \in Items, Fail(g), ~UNCHANGED <<vectors, lost>>,
         NEW batch \in SUBSET Items, batch = snap[g]
  PROVE  Tier!Echo(batch)
<1> USE DEF ToldSafety, SafetyInv
<1>1. /\ lost' = lost \cup {g} /\ UNCHANGED <<items, snap, Acknowledged>>
      /\ pc[g] = "saved" /\ pc' = [pc EXCEPT ![g] = "release"]
  BY AcknowledgedStep DEF Fail, At, Goto, wmVars
<1>2. snap[g] # {} /\ snap[g] \subseteq Accepted
  BY <1>1 DEF EpisodeInv, AcceptedInv
<1>3. \A h \in Acknowledged : snap[g] \cap snap[h] = {}
  BY <1>1 DEF ToldInv
<1>4. Accepted' = Accepted
  BY <1>1 DEF Accepted, TypeOK
<1>5. {snap'[h] : h \in lost'} = {snap[h] : h \in lost} \cup {snap[g]}
  BY <1>1, Zenon
<1>6. Told' = Told /\ UNCHANGED {snap[h] : h \in Acknowledged}
  BY <1>1 DEF Told
<1>7. UNCHANGED (Elems(items) \ Told)
  BY <1>1, <1>6
<1>8. QED
  BY <1>2, <1>3, <1>4, <1>5, <1>6, <1>7 DEF Tier!Echo, Accepted

(* Deleting an item is MemoryTier's forgetting.                                     *)
LEMMA DeleteRefines ==
  ASSUME ToldSafety, StrictClock, NEW id, Delete(id), UNCHANGED mgrVars
  PROVE  UNCHANGED Mapped \/ \E x \in Items : Tier!Forget(x)
<1> USE DEF ToldSafety, SafetyInv
<1>1. /\ Elems(items') \subseteq Elems(items)
      /\ \A x \in Elems(items) \ Elems(items') : stamp[x] = id
  BY DeleteEffect DEF TypeOK
<1>2. UNCHANGED <<Accepted, snap, vectors, lost, Acknowledged, Told>>
  BY DEF mgrVars, Accepted, Acknowledged, Told
<1>3. CASE Elems(items') = Elems(items)
  BY <1>2, <1>3, QuietStep
<1>4. CASE Elems(items') # Elems(items)
  <2>1. PICK x \in Elems(items) \ Elems(items') : stamp[x] = id
    BY <1>1, <1>4
  <2>2. \A y \in Elems(items) : y \in Items /\ stamp[y] # 0
    BY DEF AcceptedInv, Accepted, StampInv
  <2>3. \A y \in Elems(items) \ Elems(items') : y = x
    BY <1>1, <2>1, <2>2 DEF StampInv
  <2>4. Elems(items') = Elems(items) \ {x}
    BY <1>1, <2>1, <2>3
  <2>5. Tier!Forget(x)
    BY <1>2, <2>4 DEF Tier!Forget, Accepted
  <2>6. QED
    BY <2>1, <2>2, <2>5
<1>5. QED
  BY <1>3, <1>4

(* Each other step of a compression is a stutter of MemoryTier.                     *)
LEMMA CompressionRefines ==
  ASSUME ToldSafety, StrictClock, NEW g \in Items, Compression(g),
         ~UpsertVector(g), ~Fail(g)
  PROVE  UNCHANGED Mapped
<1> USE DEF ToldSafety, SafetyInv
<1>1. Accepted' = Accepted
  BY CompressionQuiet DEF Accepted, Holding, TypeOK
<1>2. UNCHANGED <<vectors, lost, Acknowledged>>
  BY DEF Compression, Lock, GiveUp, TakeSnapshot, Summarize, SaveRow, RemoveSources, Unlock, Acknowledged
<1>3. CASE TakeSnapshot(g)
  <2>1. /\ snap' = [snap EXCEPT ![g] = Elems(Front(items, SnapshotSize))]
        /\ items' = items /\ pc[g] = "locked"
    BY <1>3 DEF TakeSnapshot, At, wmVars
  <2>2. g \notin vectors \cup lost
    BY <2>1 DEF EpisodeInv, TypeOK
  <2>3. \A h \in Acknowledged \cup lost : snap'[h] = snap[h]
    BY <2>1, <2>2 DEF TypeOK, Acknowledged
  <2>4. /\ {snap'[h] : h \in Acknowledged} = {snap[h] : h \in Acknowledged}
        /\ {snap'[h] : h \in lost} = {snap[h] : h \in lost}
    BY <2>3, Zenon
  <2>5. QED
    BY <1>1, <1>2, <2>1, <2>4, Zenon DEF Mapped, Told
<1>4. CASE RemoveSources(g)
  <2>1. /\ snap' = snap /\ pc[g] = "indexed"
        /\ Elems(items') = Elems(items) \ WithIds({stamp[i] : i \in snap[g]})
    BY <1>4, RemoveEffect DEF RemoveSources, At, TypeOK
  <2>2. Elems(items') = Elems(items) \ snap[g]
    BY <2>1, SourcesExact
  <2>3. g \in Acknowledged
    BY <2>1 DEF EpisodeInv, Acknowledged
  <2>4. snap[g] \subseteq Told
    BY <2>3, Zenon DEF Told
  <2>5. Told' = Told
    BY <1>2, <2>1 DEF Told
  <2>6. Elems(items') \ Told' = Elems(items) \ Told
    BY <2>2, <2>4, <2>5
  <2>7. QED
    BY <1>1, <1>2, <2>1, <2>6, Zenon DEF Mapped
<1>5. CASE ~(TakeSnapshot(g) \/ RemoveSources(g))
  <2>1. UNCHANGED <<items, snap>>
    BY <1>5 DEF Compression, Lock, GiveUp, Summarize, SaveRow, Unlock,
                TryLockCompress, UnlockCompress, wmVars
  <2>2. QED
    BY <1>1, <1>2, <2>1, QuietStep
<1>6. QED
  BY <1>3, <1>4, <1>5

(* Every step maps to a step of MemoryTier or to a stutter.                         *)
LEMMA RefinementStep ==
  ASSUME ToldSafety, StrictClock, [Next]_vars
  PROVE  [Tier!TierNext]_Mapped
<1>1. ASSUME NEW i \in Items, AddCall(i) PROVE [Tier!TierNext]_Mapped
  <2>1. CASE Insert(i)
    BY <2>1, InsertRefines DEF Tier!TierNext
  <2>2. CASE ~Insert(i)
    <3>1. UNCHANGED <<items, snap, vectors, lost, Accepted>>
      BY <1>1, <2>2 DEF AddCall, Stamp, CheckCapacity, ReadClock, wmVars, At, Goto, Accepted,
                       ToldSafety, SafetyInv, TypeOK
    <3>2. QED
      BY <3>1, QuietStep
  <2>3. QED
    BY <2>1, <2>2
<1>2. ASSUME NEW g \in Items, Compression(g) PROVE [Tier!TierNext]_Mapped
  <2>1. CASE UpsertVector(g)
    <3>1. snap[g] \in SUBSET Items
      BY DEF ToldSafety, SafetyInv, TypeOK
    <3>2. PICK batch \in SUBSET Items : batch = snap[g]
      BY <3>1
    <3>3. Tier!Consolidate(batch)
      BY <2>1, <3>2, UpsertRefines
    <3>4. QED
      BY <3>3 DEF Tier!TierNext
  <2>2. CASE Fail(g) /\ UNCHANGED <<vectors, lost>>
    <3>1. UNCHANGED <<items, snap, vectors, lost, Accepted>>
      BY <2>2 DEF Fail, At, Goto, wmVars, Accepted, ToldSafety, SafetyInv, TypeOK
    <3>2. QED
      BY <3>1, QuietStep
  <2>3. CASE Fail(g) /\ ~UNCHANGED <<vectors, lost>>
    <3>1. snap[g] \in SUBSET Items
      BY DEF ToldSafety, SafetyInv, TypeOK
    <3>2. PICK batch \in SUBSET Items : batch = snap[g]
      BY <3>1
    <3>3. Tier!Echo(batch)
      BY <2>3, <3>2, FailRefines
    <3>4. QED
      BY <3>3 DEF Tier!TierNext
  <2>4. CASE ~UpsertVector(g) /\ ~Fail(g)
    BY <1>2, <2>4, CompressionRefines
  <2>5. QED
    BY <2>1, <2>2, <2>3, <2>4
<1>3. ASSUME Outside PROVE [Tier!TierNext]_Mapped
  <2>1. ASSUME NEW i \in Items, Delete(stamp[i]) PROVE [Tier!TierNext]_Mapped
    BY <1>3, <2>1, DeleteRefines DEF Outside, Tier!TierNext
  <2>2. ASSUME UNCHANGED items PROVE UNCHANGED Mapped
    BY <1>3, <2>2, QuietStep DEF Outside, mgrVars, Accepted
  <2>3. (\E i \in Items : Delete(stamp[i])) \/ UNCHANGED items
    BY <1>3, SearchEffect DEF Outside, Tick, wmVars, ToldSafety, SafetyInv, TypeOK
  <2>4. QED
    BY <2>1, <2>2, <2>3
<1>4. QED
  BY <1>1, <1>2, <1>3, NextCases DEF ToldSafety, SafetyInv

(* Working memory, manager and episodic store together keep the promise of    *)
(* MemoryTier: what leaves is displaced, forgotten or told once, in one step; *)
(* a lost reply leaves an echo behind.                                        *)
THEOREM Refinement == ASSUME StrictClock PROVE Spec => RefinesTier
<1>1. Init => Tier!TierInit
  <2> SUFFICES ASSUME Init PROVE Tier!TierInit
    OBVIOUS
  <2>1. items = <<>> /\ vectors = {} /\ lost = {} /\ \A i \in Items : pc[i] = "new"
    BY DEF Init, WMInit
  <2>2. Elems(items) = {}
    BY <2>1 DEF Elems
  <2>3. QED
    BY <2>1, <2>2 DEF Tier!TierInit, Acknowledged
<1>2. ToldSafety /\ [Next]_vars => [Tier!TierNext]_(Tier!tierVars)
  BY RefinementStep DEF Tier!tierVars, Mapped, Accepted
<1>3. QED
  BY <1>1, <1>2, ToldSafetyCorrect, PTL DEF Spec, RefinesTier, Tier!TierSpec
-----------------------------------------------------------------------------------
(* The index is clean only while it describes the slice.  A search whose slice *)
(* nobody has changed works with that index, alone, and its hits are all there *)
(* is to hit unless there are too many.                                        *)
HitsOK(s) ==
  /\ search[s].hits \subseteq Matching(items) /\ search[s].hits # {}
  /\ ~Crowded => search[s].hits = Matching(items)
SearchOK(s) ==
  /\ base[s] <= version
  /\ search[s].phase \in {"building", "score", "read"} => found[s] = {}
  /\ search[s].phase \in {"score", "read", "scan"} /\ base[s] = version => ~dirty
  /\ search[s].phase = "read" /\ base[s] = version => HitsOK(s)
ExactInv == /\ IndexFresh
            /\ mu # Free => dirty
            /\ \A s \in Searchers : SearchOK(s)

(* Whatever is not a step of a search counts its change of the slice.          *)
Counted == /\ UNCHANGED <<index, mu, searchVars>>
           /\ UNCHANGED <<items, dirty, version>> \/ Touch

LEMMA CountedCases ==
  ASSUME TypeOK, [Next]_vars
  PROVE  Counted \/ \E s \in Searchers : SearchStep(s)
<1>1. ASSUME NEW i \in Items, AddCall(i) \/ Compression(i) PROVE Counted
  <2>1. CASE Stamp(i) \/ Lock(i) \/ Unlock(i)
    BY <2>1 DEF Counted, Stamp, Lock, Unlock, ReadClock, TryLockCompress, UnlockCompress, searchVars
  <2>2. CASE Insert(i) \/ RemoveSources(i)
    BY <2>2 DEF Counted, Insert, RemoveSources, Add, RemoveItems
  <2>3. CASE UNCHANGED wmVars
    BY <2>3 DEF Counted, wmVars, searchVars
  <2> QED
    BY <1>1, <2>1, <2>2, <2>3 DEF AddCall, Compression, CheckCapacity, GiveUp, TakeSnapshot,
                                  Summarize, SaveRow, UpsertVector, Fail
<1>2. ASSUME NEW i, Delete(stamp[i]) PROVE Counted
  BY <1>2, Zenon DEF Counted, Delete
<1>3. CASE Tick \/ UNCHANGED vars
  BY <1>3 DEF Counted, Tick, vars, wmVars, searchVars
<1> QED
  BY <1>1, <1>2, <1>3 DEF Next

LEMMA CountedKeeps ==
  ASSUME TypeOK, ExactInv, Counted PROVE ExactInv'
<1>0. version \in Nat /\ \A s \in Searchers : base[s] \in Nat
  BY DEF TypeOK, WMTypeOK
<1>1. CASE UNCHANGED <<items, dirty, version>>
  <2>1. UNCHANGED <<items, dirty, version, index, mu, search, base, found>>
    BY <1>1 DEF Counted, searchVars
  <2> QED
    BY <2>1 DEF ExactInv, IndexFresh, SearchOK, HitsOK, Matching, Crowded
<1>2. CASE Touch
  <2>1. ASSUME NEW s \in Searchers PROVE SearchOK(s)' /\ base'[s] # version'
    <3>1. base[s] <= version /\ base[s] \in Nat
      BY <1>0 DEF ExactInv, SearchOK
    <3>2. version' = version + 1 /\ UNCHANGED <<search, base, found>>
      BY <1>2 DEF Touch, Counted, searchVars
    <3>3. base'[s] <= version' /\ base'[s] # version'
      BY <1>0, <3>1, <3>2
    <3> QED
      BY <3>2, <3>3 DEF ExactInv, SearchOK
  <2> QED
    BY <1>2, <2>1 DEF ExactInv, IndexFresh, Touch
<1> QED
  BY <1>1, <1>2 DEF Counted

LEMMA MatchingFinite ==
  ASSUME TypeOK
  PROVE  /\ IsFiniteSet(Matching(items)) /\ Cardinality(Matching(items)) \in Nat
         /\ Matching(items) \subseteq DOMAIN items
<1>1. items \in Seq(Items) /\ Len(items) \in Nat /\ DOMAIN items = 1..Len(items)
  BY LenProperties DEF TypeOK, WMTypeOK
<1>2. Matching(items) \in SUBSET (1..Len(items))
  BY <1>1 DEF Matching
<1> QED
  BY <1>1, <1>2, FiniteKept

(* The hits of a search that works alone.                                      *)
LEMMA HitsFact ==
  ASSUME TypeOK, NEW hits \in AtMost(Matching(items), 3 * Limit)
  PROVE  /\ hits \subseteq Matching(items)
         /\ ~Crowded => hits = Matching(items)
         /\ hits = {} => Matching(items) = {}
<1> DEFINE M == Matching(items)
<1>1. IsFiniteSet(M) /\ Cardinality(M) \in Nat /\ Limit \in Nat
  BY MatchingFinite, SearchAssumption
<1>2. /\ hits \in SUBSET M
      /\ Cardinality(hits) = IF 3 * Limit = 0 THEN Cardinality(M) ELSE Least(3 * Limit, Cardinality(M))
  BY DEF AtMost
<1>3. Cardinality(M) = Cardinality(hits) => M = hits
  BY <1>1, <1>2, FS_Subset
<1> HIDE DEF M
<1>4. ASSUME ~(Limit > 0 /\ Cardinality(M) > 3 * Limit) PROVE hits = M
  BY <1>1, <1>2, <1>3, <1>4 DEF Least
<1>5. ASSUME hits = {} PROVE M = {}
  <2>1. Cardinality(hits) = 0
    BY <1>5, FS_EmptySet
  <2>2. Cardinality(M) = 0
    BY <1>1, <1>2, <2>1 DEF Least
  <2> QED
    BY <1>1, <2>2, FS_EmptySet
<1> QED
  BY <1>2, <1>4, <1>5 DEF M, Crowded

LEMMA ScoresAlone ==
  ASSUME TypeOK, ExactInv, NEW s \in Searchers, Score(s), base[s] = version
  PROVE  \E hits \in AtMost(Matching(items), 3 * Limit) :
           search' = [search EXCEPT ![s] =
                        IF hits = {} THEN Idle ELSE [@ EXCEPT !.phase = "read", !.hits = hits]]
<1>1. ~dirty /\ mu = Free /\ index = items
  BY DEF Score, ExactInv, SearchOK, IndexFresh
<1>2. Seen = {items}
  BY <1>1 DEF Seen
<1> QED
  BY <1>2 DEF Score

LEMMA SearchKeeps ==
  ASSUME TypeOK, ExactInv, NEW s \in Searchers, SearchStep(s) PROVE ExactInv'
<1>0. /\ version \in Nat /\ s # Free /\ base \in [Searchers -> Nat]
      /\ search \in [Searchers -> [phase : Phases, cutOff : Nat, hits : SUBSET Nat]]
      /\ found \in [Searchers -> SUBSET Items]
  BY SearchAssumption DEF TypeOK, WMTypeOK
<1>1. ASSUME items' = items, version' = version, IndexFresh', (mu # Free => dirty)',
             dirty' = dirty \/ ~dirty', SearchOK(s)',
             \A t \in Searchers : t # s => /\ search'[t] = search[t] /\ base'[t] = base[t]
                                           /\ found'[t] = found[t]
      PROVE  ExactInv'
  <2>1. ASSUME NEW t \in Searchers, t # s PROVE SearchOK(t)'
    <3>1. SearchOK(t)
      BY DEF ExactInv
    <3> QED
      BY <1>1, <2>1, <3>1 DEF SearchOK, HitsOK, Matching, Crowded
  <2> QED
    BY <1>1, <2>1 DEF ExactInv
<1>2. CASE StartSearch(s) /\ dirty
  <2>1. search'[s].phase = "building" /\ found'[s] = {} /\ base'[s] = base[s]
    BY <1>0, <1>2 DEF StartSearch
  <2>2. SearchOK(s)'
    BY <1>2, <2>1 DEF SearchOK, StartSearch, ExactInv
  <2> QED
    BY <1>0, <1>1, <1>2, <2>2 DEF StartSearch, IndexFresh, ExactInv
<1>3. CASE StartSearch(s) /\ ~dirty
  <2>1. found'[s] = {} /\ base'[s] = version /\ search'[s].phase \in {"score", "scan"}
    BY <1>0, <1>3 DEF StartSearch, LetGo
  <2>2. SearchOK(s)'
    BY <1>0, <1>3, <2>1 DEF SearchOK, StartSearch
  <2> QED
    BY <1>0, <1>1, <1>3, <2>2 DEF StartSearch, LetGo, IndexFresh, ExactInv
<1>4. CASE FinishRebuild(s)
  <2>1. found'[s] = {} /\ base'[s] = version /\ search'[s].phase \in {"score", "scan"}
    BY <1>0, <1>4 DEF FinishRebuild, LetGo, ExactInv, SearchOK
  <2>2. SearchOK(s)'
    BY <1>0, <1>4, <2>1 DEF SearchOK, FinishRebuild
  <2> QED
    BY <1>0, <1>1, <1>4, <2>2 DEF FinishRebuild, LetGo, IndexFresh, ExactInv
<1>5. CASE Score(s)
  <2>1. PICK hits : search' = [search EXCEPT ![s] =
                       IF hits = {} THEN Idle ELSE [@ EXCEPT !.phase = "read", !.hits = hits]]
    BY <1>5 DEF Score
  <2>2. /\ hits = {} => search'[s].phase = "idle"
        /\ hits # {} => search'[s].phase = "read" /\ search'[s].hits = hits
    BY <1>0, <2>1 DEF Idle
  <2>3. base[s] = version /\ hits # {} => HitsOK(s)'
    <3> SUFFICES ASSUME base[s] = version, hits # {} PROVE HitsOK(s)'
      OBVIOUS
    <3>1. PICK some \in AtMost(Matching(items), 3 * Limit) :
             search' = [search EXCEPT ![s] =
                          IF some = {} THEN Idle ELSE [@ EXCEPT !.phase = "read", !.hits = some]]
      BY <1>5, ScoresAlone
    <3>2. /\ some = {} => search'[s].phase = "idle"
          /\ some # {} => search'[s].phase = "read" /\ search'[s].hits = some
      BY <1>0, <3>1 DEF Idle
    <3>3. some = hits
      BY <2>2, <3>2
    <3>4. items' = items
      BY <1>5 DEF Score
    <3> QED
      BY <2>2, <3>3, <3>4, HitsFact DEF HitsOK, Matching, Crowded
  <2>4. SearchOK(s)'
    BY <1>5, <2>2, <2>3 DEF SearchOK, Score, ExactInv
  <2> QED
    BY <1>0, <1>1, <1>5, <2>1, <2>4 DEF Score, IndexFresh, ExactInv
<1>6. ASSUME NEW S, Answer(s, S) PROVE ExactInv'
  <2>1. search'[s].phase = "idle"
    BY <1>0, <1>6 DEF Answer, Idle
  <2>2. SearchOK(s)'
    BY <1>6, <2>1 DEF SearchOK, Answer, ExactInv
  <2> QED
    BY <1>0, <1>1, <1>6, <2>2 DEF Answer, IndexFresh, ExactInv
<1>7. CASE ReadHits(s) \/ Scan(s)
  BY <1>6, <1>7 DEF ReadHits, Scan
<1> QED
  BY <1>2, <1>3, <1>4, <1>5, <1>7 DEF SearchStep

LEMMA ExactStep ==
  ASSUME TypeOK, ExactInv, [Next]_vars PROVE ExactInv'
BY CountedCases, CountedKeeps, SearchKeeps

LEMMA ExactCorrect == Spec => []ExactInv
<1>1. Init => ExactInv
  BY DEF Init, WMInit, ExactInv, IndexFresh, SearchOK, Idle
<1>2. QED
  BY <1>1, ExactStep, TypeCorrect, PTL DEF Spec

(* A search never works with a clean index of another slice than the one      *)
(* there is, whoever inserts, deletes, compresses or rebuilds.                *)
THEOREM IndexStaysFresh == Spec => []IndexFresh
<1>1. ExactInv => IndexFresh
  BY DEF ExactInv
<1>2. QED
  BY <1>1, ExactCorrect, PTL

(* Nothing matches, so nothing live does, and nothing is what was returned.   *)
LEMMA NothingFound ==
  ASSUME TypeOK, ExactInv, NEW s \in Searchers, Score(s), base[s] = version,
         search'[s].phase = "idle"
  PROVE  found'[s] \in AtMost(Live(s), Limit)
<1>1. search \in [Searchers -> [phase : Phases, cutOff : Nat, hits : SUBSET Nat]]
  BY DEF TypeOK, WMTypeOK
<1>2. PICK hits \in AtMost(Matching(items), 3 * Limit) :
         search' = [search EXCEPT ![s] =
                      IF hits = {} THEN Idle ELSE [@ EXCEPT !.phase = "read", !.hits = hits]]
  BY ScoresAlone
<1>3. hits = {}
  BY <1>1, <1>2
<1>4. Matching(items) = {}
  BY <1>2, <1>3, HitsFact
<1>5. Live(s) = {}
  BY <1>4 DEF Live, Elems, Matching
<1>6. found'[s] = {}
  BY DEF Score, ExactInv, SearchOK
<1>7. {} \in AtMost({}, Limit)
  BY FS_EmptySet, SearchAssumption DEF AtMost, Least
<1> QED
  BY <1>5, <1>6, <1>7

(* All the matches were hit, and the slice they are positions of is the same. *)
LEMMA AllRead ==
  ASSUME TypeOK, ExactInv, NEW s \in Searchers, ReadHits(s), base[s] = version, ~Crowded
  PROVE  found'[s] \in AtMost(Live(s), Limit)
<1>1. search[s].hits = Matching(items) /\ found \in [Searchers -> SUBSET Items]
  BY DEF ExactInv, SearchOK, HitsOK, ReadHits, TypeOK, WMTypeOK
<1> DEFINE kept == {i \in {items[k] : k \in search[s].hits \cap DOMAIN items} :
                      Fresh(i, search[s].cutOff)}
<1>2. kept = Live(s)
  BY <1>1 DEF Live, Elems, Matching
<1>3. Answer(s, kept)
  BY DEF ReadHits
<1> HIDE DEF kept
<1>4. \E R \in AtMost(kept, Limit) : found' = [found EXCEPT ![s] = R]
  BY <1>3 DEF Answer
<1> QED
  BY <1>1, <1>2, <1>4

(* The query that nobody disturbs returns the unexpired matches, as many as   *)
(* it may, although it lets go of the lock between scoring and reading.       *)
THEOREM SearchesAreExact == Spec => UndisturbedSearchExact
<1> DEFINE Exact == \A s \in Searchers : Answered(s) /\ base[s] = version /\ ~Crowded =>
                      found'[s] \in AtMost(Live(s), Limit)
<1>1. TypeOK /\ ExactInv /\ [Next]_vars => [Exact]_vars
  <2> SUFFICES ASSUME TypeOK, ExactInv, [Next]_vars, NEW s \in Searchers,
                      Answered(s), base[s] = version, ~Crowded
               PROVE  found'[s] \in AtMost(Live(s), Limit)
    OBVIOUS
  <2>0. search \in [Searchers -> [phase : Phases, cutOff : Nat, hits : SUBSET Nat]]
    BY DEF TypeOK, WMTypeOK
  <2>1. PICK t \in Searchers : SearchStep(t)
    BY CountedCases DEF Counted, searchVars, Answered
  <2>2. t = s
    <3>1. ASSUME t # s PROVE search'[s] = search[s]
      BY <2>0, <2>1, <3>1 DEF SearchStep, StartSearch, FinishRebuild, Score, ReadHits, Scan,
                             Answer, LetGo
    <3> QED
      BY <3>1 DEF Answered
  <2>3. Score(s) \/ ReadHits(s)
    BY <2>1, <2>2 DEF SearchStep, StartSearch, FinishRebuild, Scan, Answered
  <2>4. CASE Score(s)
    BY <2>4, NothingFound DEF Answered
  <2>5. CASE ReadHits(s)
    BY <2>5, AllRead
  <2> QED
    BY <2>3, <2>4, <2>5
<1>2. QED
  BY <1>1, ExactCorrect, TypeCorrect, PTL DEF Spec, UndisturbedSearchExact
===================================================================================
