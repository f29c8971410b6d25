----------------------------- MODULE KVSlotsProofs -----------------------------
(***************************************************************************)
(* Lemmas about the slots of KVSlots, and about minima and counting, which   *)
(* the proofs about the search and about the cache share: among them that    *)
(* a row with enough usable cells has a slot.                                *)
(***************************************************************************)
EXTENDS KVSlots, FiniteSetTheorems, WellFoundedInduction, TLAPS

(***************************************************************************)
(* Minima and maxima.                                                       *)
(***************************************************************************)

\* Least returns the minimum of a non-empty set of naturals: the loops that look for
\* the first freed cell find it.
LEMMA LeastIsMinimum ==
  ASSUME NEW S \in SUBSET Nat, S # {}
  PROVE  Least(S) \in S /\ \A y \in S : Least(S) <= y
<1>1. PICK x \in S : \A y \in S : ~(<<y, x>> \in OpToRel(<, Nat))
  BY NatLessThanWellFounded, WFMin
<1>2. \A y \in S : x <= y
  <2>1. SUFFICES ASSUME NEW y \in S, y < x PROVE FALSE
    OBVIOUS
  <2>2. <<y, x>> \in OpToRel(<, Nat)
    BY <2>1 DEF OpToRel
  <2> QED
    BY <1>1, <2>2
<1> QED
  BY <1>2 DEF Least

\* An arbitrary member of a non-empty set is one of its members.
LEMMA ChoiceIsMember ==
  ASSUME NEW S, S # {}
  PROVE  (CHOOSE x \in S : TRUE) \in S
<1>1. \E x : x \in S
  OBVIOUS
<1> QED
  BY <1>1, Zenon

(***************************************************************************)
(* Induction, over a set instead of a predicate.                            *)
(***************************************************************************)

\* A set of naturals that holds 0 and the successor of each of its members is Nat.
LEMMA SetInduction ==
  ASSUME NEW T \in SUBSET Nat, 0 \in T, \A n \in T : n + 1 \in T
  PROVE  T = Nat
<1> SUFFICES ASSUME NEW x \in Nat, x \notin T PROVE FALSE
  OBVIOUS
<1> DEFINE U == Nat \ T
<1>1. U \in SUBSET Nat /\ U # {}
  OBVIOUS
<1>2. Least(U) \in U /\ \A y \in U : Least(U) <= y
  BY <1>1, LeastIsMinimum
<1>m. PICK m : m = Least(U)
  OBVIOUS
<1>3. m \in Nat /\ m \notin T /\ m # 0
  BY <1>2, <1>m
<1>4. m - 1 \in Nat /\ ~(m <= m - 1)
  BY <1>3
<1>5. m - 1 \in T
  BY <1>2, <1>4, <1>m
<1> QED
  BY <1>3, <1>4, <1>5

(***************************************************************************)
(* Counting the members of a set of places.                                 *)
(***************************************************************************)
\* A set of places is finite.
LEMMA PlacesFinite ==
  ASSUME NEW n \in Nat, NEW P \in SUBSET (1 .. n)
  PROVE  IsFiniteSet(P) /\ Cardinality(P) \in Nat
<1>1. PICK S : S = 1 .. n
  OBVIOUS
<1>2. IsFiniteSet(S)
  BY <1>1, FS_Interval
<1>3. IsFiniteSet(P)
  BY <1>1, <1>2, FS_Subset
<1> QED
  BY <1>3, FS_CardinalityType

\* How many members of P come before j.
Before(P, j) == Cardinality({i \in P : i < j})

\* The ranks of the members of a set of n naturals are 0 .. n - 1.
LEMMA RanksCount ==
  ASSUME NEW n \in Nat, NEW P \in SUBSET (1 .. n)
  PROVE  {Before(P, j) : j \in P} = 0 .. Cardinality(P) - 1
<1> DEFINE Good(Q) == {Before(Q, j) : j \in Q} = 0 .. Cardinality(Q) - 1
           T == {m \in Nat : \A Q \in SUBSET (1 .. m) : Good(Q)}
<1>1. 0 \in T
  <2>1. ASSUME NEW Q \in SUBSET (1 .. 0) PROVE Good(Q)
    <3>1. Q = {}
      OBVIOUS
    <3>2. Cardinality(Q) = 0
      BY <3>1, FS_EmptySet
    <3> QED
      BY <3>1, <3>2
  <2> HIDE DEF Good
  <2> QED
    BY <2>1
<1>2. ASSUME NEW m \in T PROVE m + 1 \in T
  <2>1. ASSUME NEW Q \in SUBSET (1 .. m + 1) PROVE Good(Q)
    <3>1. CASE m + 1 \notin Q
      <4>1. Q \in SUBSET (1 .. m)
        BY <3>1
      <4> HIDE DEF Good
      <4> QED
        BY <4>1
    <3>2. CASE m + 1 \in Q
      <4>1. PICK R : R = Q \ {m + 1}
        OBVIOUS
      <4>2. R \in SUBSET (1 .. m) /\ R \subseteq Q /\ m + 1 \notin R /\ Q = R \cup {m + 1}
        BY <3>2, <4>1
      <4>3. IsFiniteSet(R)
        BY <4>2, PlacesFinite
      <4>4. Cardinality(R) \in Nat /\ Cardinality(Q) = Cardinality(R) + 1
        BY <4>2, <4>3, FS_CardinalityType, FS_AddElement
      <4>5. {Before(R, j) : j \in R} = 0 .. Cardinality(R) - 1
        BY <4>2
      <4>6. ASSUME NEW j \in R PROVE Before(Q, j) = Before(R, j)
        <5>1. {i \in Q : i < j} = {i \in R : i < j}
          BY <4>2, <4>6
        <5> QED
          BY <5>1 DEF Before
      <4>7. Before(Q, m + 1) = Cardinality(R)
        <5>1. \A i : i \in Q /\ i < m + 1 <=> i \in R
          <6>1. m \in Nat
            OBVIOUS
          <6>2. \A i \in R : i \in Int /\ i <= m /\ i \in Q
            BY <4>2
          <6>3. \A i \in Q : i \in R \/ i = m + 1
            BY <4>2
          <6>4. ASSUME NEW i \in R PROVE i \in Q /\ i < m + 1
            <7>1. i \in Int /\ i <= m /\ i \in Q
              BY <6>2
            <7> QED
              BY <6>1, <7>1
          <6>5. ASSUME NEW i \in Q, i < m + 1 PROVE i \in R
            <7>1. i # m + 1
              BY <6>1, <6>5
            <7> QED
              BY <6>3, <7>1
          <6> QED
            BY <6>4, <6>5, Zenon
        <5>2. {i \in Q : i < m + 1} = R
          BY <5>1
        <5> QED
          BY <5>2 DEF Before
      <4>8. {Before(Q, j) : j \in Q} = {Before(R, j) : j \in R} \cup {Cardinality(R)}
        <5> HIDE DEF T
        <5> QED
          BY <4>2, <4>6, <4>7
      <4>9. PICK c \in Nat : c = Cardinality(R)
        BY <4>4
      <4>10. {Before(Q, j) : j \in Q} = (0 .. c - 1) \cup {c}
        BY <4>5, <4>8, <4>9
      <4>11. (0 .. c - 1) \cup {c} = 0 .. (c + 1) - 1
        OBVIOUS
      <4> QED
        BY <4>4, <4>9, <4>10, <4>11, Zenon
    <3> QED
      BY <3>1, <3>2
  <2> HIDE DEF Good
  <2> QED
    BY <2>1
<1> HIDE DEF T, Good
<1>3. T \in SUBSET Nat
  BY DEF T
<1>4. n \in T
  BY <1>1, <1>2, <1>3, SetInduction
<1> QED
  BY <1>4 DEF T, Good

(***************************************************************************)
(* The order in which the ring is walked.                                   *)
(***************************************************************************)
\* A number has one remainder.
LEMMA Remainder ==
  ASSUME NEW m \in Nat \ {0}, NEW r \in 0 .. m - 1
  PROVE  (r - m) % m = r
<1> DEFINE q == (r - m) \div m
           t == (r - m) % m
<1>1. q \in Int /\ t \in 0 .. m - 1 /\ r - m = m * q + t
  OBVIOUS
<1> HIDE DEF q, t
<1>2. m * (q + 1) = r - t
  BY <1>1
<1>3. ~(q + 1 > 0)
  <2> SUFFICES ASSUME q + 1 >= 1 PROVE FALSE
    BY <1>1
  <2>1. m * (q + 1) >= m
    BY <1>1
  <2> QED
    BY <1>1, <1>2, <2>1
<1>4. ~(q + 1 < 0)
  <2> SUFFICES ASSUME q + 1 <= -1 PROVE FALSE
    BY <1>1
  <2>1. m * (q + 1) <= -m
    BY <1>1
  <2> QED
    BY <1>1, <1>2, <2>1
<1>5. q + 1 = 0
  BY <1>1, <1>3, <1>4
<1>6. t = r
  BY <1>1, <1>2, <1>5
<1> QED
  BY <1>6 DEF t

\* How far a cell is from the start, around the end of the stream.
LEMMA RankOf ==
  ASSUME NEW s \in 0 .. Size, NEW x \in Idxs
  PROVE  (x - s) % Size = IF x >= s THEN x - s ELSE x - s + Size
<1>0. Size \in Nat \ {0}
  BY ShapeAssumption
<1>1. CASE x >= s
  <2>1. x - s \in 0 .. Size - 1
    BY <1>0, <1>1 DEF Idxs
  <2> QED
    BY <1>0, <1>1, <2>1
<1>2. CASE x < s
  <2>1. x - s + Size \in 0 .. Size - 1
    BY <1>0, <1>2 DEF Idxs
  <2>2. ((x - s + Size) - Size) % Size = x - s + Size
    BY <1>0, <2>1, Remainder
  <2>3. (x - s + Size) - Size = x - s
    BY <1>0 DEF Idxs
  <2> QED
    BY <1>0, <1>2, <2>2, <2>3 DEF Idxs
<1> QED
  BY <1>0, <1>1, <1>2 DEF Idxs
(***************************************************************************)
(* A row with n usable cells has a slot of n cells.                         *)
(***************************************************************************)
\* Members of a set of places have ranks in their order.
LEMMA RanksOrdered ==
  ASSUME NEW n \in Nat, NEW P \in SUBSET (1 .. n)
  PROVE  /\ \A a \in P : Before(P, a) \in Nat
         /\ \A a, b \in P : a < b => Before(P, a) < Before(P, b)
         /\ \A a, b \in P : Before(P, a) = Before(P, b) => a = b
<1>1. ASSUME NEW a \in P, NEW b \in P, a < b PROVE Before(P, a) < Before(P, b)
  <2> DEFINE below(x) == {i \in P : i < x}
  <2>1. below(b) \in SUBSET (1 .. n) /\ below(a) \subseteq below(b) /\ below(a) # below(b)
    <3>1. a \in below(b) /\ a \notin below(a)
      BY <1>1
    <3>2. \A i \in P : i < a => i < b
      BY <1>1
    <3> QED
      BY <3>1, <3>2
  <2>2. PICK S : S = below(b)
    OBVIOUS
  <2>3. PICK R : R = below(a)
    OBVIOUS
  <2> HIDE DEF below
  <2>4. IsFiniteSet(S) /\ R \subseteq S /\ R # S
    BY <2>1, <2>2, <2>3, PlacesFinite
  <2>5. Cardinality(R) \in Nat /\ Cardinality(S) \in Nat /\ Cardinality(R) < Cardinality(S)
    <3>1. R \in SUBSET (1 .. n) /\ S \in SUBSET (1 .. n)
      BY <2>1, <2>2, <2>3
    <3>2. Cardinality(R) \in Nat /\ Cardinality(S) \in Nat
      BY <3>1, PlacesFinite
    <3> QED
      BY <2>4, <3>2, FS_Subset
  <2> QED
    BY <2>2, <2>3, <2>5 DEF Before, below
<1>2. ASSUME NEW a \in P PROVE Before(P, a) \in Nat
  <2>1. {i \in P : i < a} \in SUBSET (1 .. n)
    OBVIOUS
  <2> QED
    BY <2>1, PlacesFinite DEF Before
<1>3. ASSUME NEW a \in P, NEW b \in P, Before(P, a) = Before(P, b) PROVE a = b
  <2>1. a \in Int /\ b \in Int
    OBVIOUS
  <2>2. ~(a < b) /\ ~(b < a)
    BY <1>1, <1>2, <1>3
  <2> QED
    BY <2>1, <2>2
<1> QED
  BY <1>1, <1>2, <1>3

UsableCells(row) == {i \in Idxs : Usable(row, i)}

\* find_slot finds a slot for n tokens, wherever it starts, if n cells can be used.
LEMMA HasSlot ==
  ASSUME NEW row, NEW h \in 0 .. Size, NEW n \in Nat \ {0},
         n <= Cardinality(UsableCells(row))
  PROVE  SlotsOf(row, h, n) # {}
<1> DEFINE s == SearchStart(row, h, n)
           rank(i) == (i - s) % Size
           U == UsableCells(row)
           P == {rank(i) + 1 : i \in U}
<1>0. Size \in Nat \ {0} /\ s \in 0 .. Size
  BY ShapeAssumption DEF SearchStart
<1>1. U \subseteq Idxs /\ IsFiniteSet(U) /\ Cardinality(U) \in Nat
  <2>1. IsFiniteSet(Idxs)
    BY <1>0, FS_Interval DEF Idxs
  <2>2. U \subseteq Idxs
    BY DEF UsableCells
  <2> HIDE DEF U
  <2> QED
    BY <2>1, <2>2, FS_Subset, FS_CardinalityType
<1>2. \A i \in Idxs : rank(i) = IF i >= s THEN i - s ELSE i - s + Size
  <2> HIDE DEF s
  <2> QED
    BY <1>0, RankOf
<1>3. /\ \A i \in Idxs : rank(i) \in 0 .. Size - 1
      /\ \A i, j \in Idxs : rank(i) = rank(j) => i = j
  <2> HIDE DEF s, rank
  <2> QED
    BY <1>0, <1>2 DEF Idxs
<1> HIDE DEF s, rank, U
<1>4. P \in SUBSET (1 .. Size)
  BY <1>0, <1>1, <1>3
<1>5. Cardinality(P) = Cardinality(U)
  <2> DEFINE f == [i \in U |-> rank(i) + 1]
  <2>1. f \in Surjection(U, P)
    BY DEF Surjection
  <2>2. f \in Injection(U, P)
    BY <1>1, <1>3, <2>1 DEF Injection, Surjection, IsInjective
  <2> HIDE DEF f, P
  <2> QED
    BY <1>1, <2>1, <2>2, FS_Surjection
<1>6. {Before(P, j) : j \in P} = 0 .. Cardinality(P) - 1
  <2> HIDE DEF P
  <2> QED
    BY <1>0, <1>4, RanksCount
<1>7. ASSUME NEW m \in 1 .. n PROVE \E i \in U : Before(P, rank(i) + 1) = m - 1
  <2>1. m - 1 \in 0 .. Cardinality(P) - 1
    BY <1>1, <1>5, <1>7 DEF U
  <2>2. PICK a \in P : Before(P, a) = m - 1
    BY <1>6, <2>1
  <2>3. PICK i \in U : a = rank(i) + 1
    BY <2>2
  <2> QED
    BY <2>2, <2>3
<1>8. PICK slot : /\ slot \in [1 .. n -> U]
                  /\ \A m \in 1 .. n : Before(P, rank(slot[m]) + 1) = m - 1
  <2> DEFINE place(m) == CHOOSE i \in U : Before(P, rank(i) + 1) = m - 1
  <2>1. \A m \in 1 .. n : place(m) \in U /\ Before(P, rank(place(m)) + 1) = m - 1
    <3> HIDE DEF P
    <3> QED
      BY <1>7
  <2>2. WITNESS [m \in 1 .. n |-> place(m)]
  <2> HIDE DEF place, P
  <2> QED
    BY <2>1
<1>9. \A i \in U : rank(i) + 1 \in P /\ rank(i) \in Int /\ i \in Idxs
  BY <1>1, <1>3
<1>10. /\ \A a, b \in P : a < b => Before(P, a) < Before(P, b)
       /\ \A a, b \in P : Before(P, a) = Before(P, b) => a = b
       /\ \A a \in P : Before(P, a) \in Nat
  <2> HIDE DEF P
  <2> QED
    BY <1>0, <1>4, RanksOrdered
<1> HIDE DEF P
<1>11. ASSUME NEW j \in 1 .. n, NEW k \in 1 .. n, j < k PROVE rank(slot[j]) < rank(slot[k])
  <2>1. PICK a, b : a = rank(slot[j]) + 1 /\ b = rank(slot[k]) + 1
    OBVIOUS
  <2>2. a \in P /\ b \in P /\ Before(P, a) = j - 1 /\ Before(P, b) = k - 1
    BY <1>8, <1>9, <2>1
  <2>3. a \in Int /\ b \in Int
    BY <1>4, <2>2
  <2>4. a # b /\ ~(b < a)
    BY <1>10, <1>11, <2>2
  <2> QED
    BY <1>8, <1>9, <2>1, <2>3, <2>4
<1>12. ASSUME NEW i \in U, rank(i) <= rank(slot[n]) PROVE \E j \in 1 .. n : slot[j] = i
  <2>1. PICK a, b : a = rank(i) + 1 /\ b = rank(slot[n]) + 1
    OBVIOUS
  <2>2. a \in P /\ b \in P /\ Before(P, b) = n - 1
    BY <1>8, <1>9, <2>1
  <2>3. a \in Int /\ b \in Int /\ a <= b
    BY <1>4, <1>8, <1>9, <1>12, <2>1, <2>2
  <2>4. Before(P, a) \in Nat /\ Before(P, a) <= n - 1
    BY <1>10, <2>2, <2>3
  <2>5. PICK j \in 1 .. n : j - 1 = Before(P, a)
    <3>1. Before(P, a) + 1 \in 1 .. n
      BY <2>4
    <3> QED
      BY <2>4, <3>1
  <2>6. rank(slot[j]) + 1 = a
    BY <1>8, <1>9, <1>10, <2>2, <2>5
  <2> QED
    BY <1>3, <1>8, <1>9, <2>1, <2>6
<1>13. slot \in [1 .. n -> Idxs] /\ \A j \in 1 .. n : Usable(row, slot[j])
  BY <1>1, <1>8 DEF U, UsableCells
<1>14. IsSlot(row, h, n, slot)
  BY <1>11, <1>12, <1>13 DEF IsSlot, rank, s, U, UsableCells
<1> QED
  BY <1>13, <1>14 DEF SlotsOf
==============================================================================
