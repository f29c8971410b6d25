---------------------------- MODULE FindSlotProofs ----------------------------
(***************************************************************************)
(* Proofs about FindSlot: for every stream, head and number of tokens, the   *)
(* loop of find_slot returns the one slot that SlotsOf describes, and fails  *)
(* only when there is none.                                                  *)
(***************************************************************************)
EXTENDS FindSlot, KVSlotsProofs

(***************************************************************************)
(* The order in which the ring is walked.                                   *)
(***************************************************************************)
Start == SearchStart(row, head, n)
Rank(x) == (x - Start) % Size

\* The search starts in the stream, or at its end.
LEMMA StartInRange == head \in 0 .. Size => Start \in 0 .. Size
BY ShapeAssumption DEF Start, SearchStart

\* No two cells are equally far from the start.
LEMMA RankOrders ==
  ASSUME Start \in 0 .. Size
  PROVE  /\ \A x \in Idxs : Rank(x) \in 0 .. Size - 1
         /\ \A x \in Idxs : Rank(x) = IF x >= Start THEN x - Start ELSE x - Start + Size
         /\ \A x, y \in Idxs : Rank(x) = Rank(y) => x = y
<1>0. Size \in Nat \ {0}
  BY ShapeAssumption
<1>1. \A x \in Idxs : Rank(x) = IF x >= Start THEN x - Start ELSE x - Start + Size
  BY RankOf DEF Rank
<1> QED
  BY <1>0, <1>1 DEF Idxs

(***************************************************************************)
(* There is at most one slot, and none in a row with too few usable cells.   *)
(***************************************************************************)
\* What IsSlot says of a slot with m cells, in terms of Rank.
InRing(m, slot) ==
  /\ \A j \in 1 .. m : Usable(row, slot[j])
  /\ \A j, k \in 1 .. m : j < k => Rank(slot[j]) < Rank(slot[k])
FirstOnes(slot) ==
  \A x \in Idxs : Usable(row, x) /\ Rank(x) <= Rank(slot[n]) => \E j \in 1 .. n : slot[j] = x

LEMMA SlotMeans ==
  \A slot : slot \in SlotsOf(row, head, n) <=>
              slot \in [1 .. n -> Idxs] /\ InRing(n, slot) /\ FirstOnes(slot)
BY DEF SlotsOf, IsSlot, InRing, FirstOnes, Rank, Start

LEMMA SlotIsUnique ==
  ASSUME n \in Nat \ {0}, Start \in 0 .. Size,
         NEW a \in SlotsOf(row, head, n), NEW b \in SlotsOf(row, head, n)
  PROVE  a = b
<1> DEFINE Differ == {j \in 1 .. n : a[j] # b[j]}
<1>1. /\ a \in [1 .. n -> Idxs] /\ InRing(n, a) /\ FirstOnes(a)
      /\ b \in [1 .. n -> Idxs] /\ InRing(n, b) /\ FirstOnes(b)
  BY SlotMeans
<1>2. \A x \in Idxs : Rank(x) \in Int
  BY RankOrders, ShapeAssumption
\* The first place where two slots differ: the one with the nearer cell there has left it out.
<1>3. ASSUME NEW s \in [1 .. n -> Idxs], NEW t \in [1 .. n -> Idxs], InRing(n, s), InRing(n, t),
             FirstOnes(t), NEW j \in 1 .. n, \A k \in 1 .. n : k < j => s[k] = t[k]
      PROVE  ~(Rank(s[j]) < Rank(t[j]))
  <2> SUFFICES ASSUME Rank(s[j]) < Rank(t[j]) PROVE FALSE
    OBVIOUS
  <2>1. Rank(t[j]) <= Rank(t[n])
    <3>1. CASE j = n
      BY <1>2, <1>3, <3>1
    <3>2. CASE j < n
      BY <1>2, <1>3, <3>2 DEF InRing
    <3> QED
      BY <3>1, <3>2
  <2>2. PICK k \in 1 .. n : t[k] = s[j]
    <3>1. s[j] \in Idxs /\ t[j] \in Idxs /\ t[n] \in Idxs /\ Usable(row, s[j])
      BY <1>3 DEF InRing
    <3>2. Rank(s[j]) <= Rank(t[n])
      BY <1>2, <2>1, <3>1
    <3> QED
      BY <1>3, <3>1, <3>2 DEF FirstOnes
  <2>3. k < j
    <3>1. CASE j < k
      BY <1>2, <1>3, <2>2, <3>1 DEF InRing
    <3>2. CASE j = k
      BY <1>2, <2>2, <3>2
    <3> QED
      BY <3>1, <3>2
  <2>4. s[k] = s[j] /\ Rank(s[k]) < Rank(s[j])
    BY <1>3, <2>2, <2>3 DEF InRing
  <2> QED
    BY <1>2, <2>4
<1>4. Differ = {}
  <2> SUFFICES ASSUME Differ # {} PROVE FALSE
    OBVIOUS
  <2>1. PICK j \in Differ : \A k \in Differ : j <= k
    <3>1. Differ \in SUBSET Nat
      OBVIOUS
    <3> QED
      BY <3>1, LeastIsMinimum
  <2>2. j \in 1 .. n /\ \A k \in 1 .. n : k < j => a[k] = b[k]
    BY <2>1
  <2>3. ~(Rank(a[j]) < Rank(b[j])) /\ ~(Rank(b[j]) < Rank(a[j]))
    BY <1>1, <1>3, <2>2
  <2>4. Rank(a[j]) = Rank(b[j])
    BY <1>1, <1>2, <2>2, <2>3
  <2> QED
    BY <1>1, <2>1, <2>2, <2>4, RankOrders
<1> QED
  BY <1>1, <1>4

\* When all usable cells are among the m cells of a list, m < n, there is no slot.
LEMMA TooFewUsable ==
  ASSUME n \in Nat \ {0}, Start \in 0 .. Size, NEW m \in Nat, m < n, NEW list,
         \A x \in Idxs : Usable(row, x) => \E j \in 1 .. m : list[j] = x
  PROVE  SlotsOf(row, head, n) = {}
<1> SUFFICES ASSUME NEW a \in SlotsOf(row, head, n) PROVE FALSE
  OBVIOUS
<1>1. a \in [1 .. n -> Idxs] /\ InRing(n, a)
  BY SlotMeans
<1> DEFINE f == [j \in 1 .. n |-> CHOOSE k \in 1 .. m : list[k] = a[j]]
<1>2. \A j \in 1 .. n : f[j] \in 1 .. m /\ list[f[j]] = a[j]
  <2> SUFFICES ASSUME NEW j \in 1 .. n PROVE f[j] \in 1 .. m /\ list[f[j]] = a[j]
    OBVIOUS
  <2>1. \E k \in 1 .. m : list[k] = a[j]
    BY <1>1 DEF InRing
  <2> QED
    BY <2>1
<1>3. f \in [1 .. n -> 1 .. m]
  BY <1>2
<1>4. Cardinality(1 .. m) < Cardinality(1 .. n) /\ IsFiniteSet(1 .. m) /\ IsFiniteSet(1 .. n)
  <2>1. Cardinality(1 .. m) = m /\ Cardinality(1 .. n) = n /\ IsFiniteSet(1 .. m) /\ IsFiniteSet(1 .. n)
    BY FS_Interval
  <2> QED
    BY <2>1
<1> HIDE DEF f
<1>5. PICK j, k \in 1 .. n : j # k /\ f[j] = f[k]
  BY <1>3, <1>4, FS_PigeonHole
<1>6. a[j] = a[k]
  BY <1>2, <1>5
<1>7. Rank(a[j]) \in Int /\ Rank(a[j]) # Rank(a[k])
  <2>1. \A x \in Idxs : Rank(x) \in Int
    BY RankOrders, ShapeAssumption
  <2> QED
    BY <1>1, <1>5, <2>1 DEF InRing
<1> QED
  BY <1>6, <1>7

(***************************************************************************)
(* The search.                                                              *)
(***************************************************************************)
Question ==
  /\ head \in 0 .. Size /\ n \in Nat \ {0} /\ cont \in BOOLEAN
  /\ headCur \in 0 .. Size /\ nTested \in Nat
  /\ pc \in {"enter", "loop", "window", "found", "failed"}
  /\ pc = "enter" => headCur = Start /\ nTested = 0 /\ res = <<>>
  /\ pc \in {"loop", "window"} => n <= Size

\* Single cells: the first t cells of the ring have been tested, and the usable ones among them
\* are in res, in the order of the ring.
Cells(t) ==
  /\ t \in 0 .. Size
  /\ headCur \in 0 .. Size /\ headCur \in {Start + t, Start + t - Size}
  /\ res \in Seq(Idxs) /\ Len(res) <= n
  /\ InRing(Len(res), res)
  /\ \A j \in 1 .. Len(res) : Rank(res[j]) < t
  /\ \A x \in Idxs : Usable(row, x) /\ Rank(x) < t => \E j \in 1 .. Len(res) : res[j] = x

SingleInv ==
  ~cont =>
    /\ pc \in {"enter", "loop"} => Cells(nTested) /\ nTested < Size /\ Len(res) < n
    /\ pc = "window" => /\ Cells(nTested) /\ i \in {0, 1}
                        /\ i = 0 => nTested < Size /\ headCur < Size /\ Len(res) < n
    /\ pc = "found" => SlotsOf(row, head, n) = {res}
    /\ pc = "failed" => SlotsOf(row, head, n) = {}

\* A contiguous search: no window begins at a cell that the search has left behind.  It has
\* come to cell h after t tests; it may have to go through the beginning of the ring twice.
NoneIn(from, to) == \A k \in Windows : ~(from <= k /\ k < to)
Passed(h, t) ==
  /\ h \in 0 .. Size /\ t \in Nat
  /\ \/ t = h - Start /\ NoneIn(Start, h)
     \/ t = Size - Start + h /\ NoneIn(Start, Size) /\ NoneIn(0, h)
     \/ t >= Size /\ NoneIn(0, Size)

\* A window of which the first i cells are usable, or which was given up.
Filling ==
  /\ i \in 0 .. n /\ headCur - i \in 0 .. Size - n /\ Passed(headCur - i, nTested - i)
  /\ res = [j \in 1 .. i |-> headCur - i + j - 1]
  /\ \A j \in 0 .. i - 1 : Usable(row, headCur - i + j)
GivenUp == i = n /\ Len(res) < n /\ Passed(headCur, nTested)

ContInv ==
  cont =>
    /\ pc = "loop" => res = <<>> /\ Passed(headCur, nTested)
    /\ pc = "window" => Filling \/ GivenUp
    /\ pc = "found" => \E k \in Windows : res = [j \in 1 .. n |-> k + j - 1]
    /\ pc = "failed" => Windows = {}

SearchInv == Question /\ SingleInv /\ ContInv

LEMMA SearchBegins == Init => SearchInv
<1> SUFFICES ASSUME Init PROVE SearchInv
  OBVIOUS
<1>0. Size \in Nat \ {0}
  BY ShapeAssumption
<1>1. Start \in 0 .. Size
  BY StartInRange DEF Init
<1>2. Question
  BY <1>0, <1>1 DEF Init, Question, Start
<1>3. SingleInv
  <2>1. Cells(0)
    BY <1>0, <1>1, RankOrders DEF Init, Start, Cells, InRing
  <2> QED
    BY <1>0, <2>1 DEF Init, SingleInv
<1>4. ContInv
  BY DEF Init, ContInv
<1> QED
  BY <1>2, <1>3, <1>4 DEF SearchInv

\* More tokens than cells.
LEMMA EnterKeeps == SearchInv /\ Enter => SearchInv'
<1> SUFFICES ASSUME SearchInv, Enter PROVE SearchInv'
  OBVIOUS
<1>0. Size \in Nat \ {0} /\ Start \in 0 .. Size /\ n \in Nat \ {0}
  BY ShapeAssumption, StartInRange DEF SearchInv, Question
<1>1. UNCHANGED <<row, head, n, cont, headCur, nTested, i, res>> /\ pc = "enter"
  BY DEF Enter, question
<1>2. pc' = IF n > Size THEN "failed" ELSE "loop"
  BY DEF Enter
<1>3. n > Size => SlotsOf(row, head, n) = {} /\ Windows = {}
  <2> SUFFICES ASSUME n > Size PROVE SlotsOf(row, head, n) = {} /\ Windows = {}
    OBVIOUS
  <2> DEFINE list == [k \in 1 .. Size |-> k - 1]
  <2>1. \A x \in Idxs : x + 1 \in 1 .. Size /\ list[x + 1] = x
    BY <1>0 DEF Idxs
  <2> HIDE DEF list
  <2>2. SlotsOf(row, head, n) = {}
    <3>1. \A x \in Idxs : \E j \in 1 .. Size : list[j] = x
      BY <2>1
    <3>2. Size \in Nat /\ Size < n
      BY <1>0
    <3> QED
      BY <1>0, <3>1, <3>2, TooFewUsable
  <2>3. 0 .. Size - n = {}
    BY <1>0
  <2> QED
    BY <2>2, <2>3 DEF Windows
<1>4. Passed(Start, 0)
  BY <1>0 DEF Passed, NoneIn, Windows
<1>5. Question'
  BY <1>0, <1>1, <1>2 DEF SearchInv, Question
<1>6. SingleInv'
  BY <1>1, <1>2, <1>3 DEF SearchInv, SingleInv, Cells, InRing, Rank, Start
<1>7. ContInv'
  <2>1. Windows' = Windows /\ Start' = Start
    BY <1>1 DEF Windows, Start
  <2>2. Passed(headCur, nTested)'
    BY <1>1, <1>4, <2>1 DEF SearchInv, Question, Passed, NoneIn
  <2> QED
    BY <1>1, <1>2, <1>3, <2>1, <2>2 DEF SearchInv, Question, ContInv
<1> QED
  BY <1>5, <1>6, <1>7 DEF SearchInv

\* The numbers that the steps of the loop start from.
LEMMA Facts ==
  ASSUME SearchInv
  PROVE  /\ Size \in Nat \ {0} /\ Start \in 0 .. Size /\ n \in Nat \ {0} /\ cont \in BOOLEAN
         /\ NTest = IF cont THEN n ELSE 1
BY ShapeAssumption, StartInRange DEF SearchInv, Question, NTest

\* A step of the loop leaves the question alone.
LEMMA SameQuestion ==
  ASSUME UNCHANGED question
  PROVE  /\ UNCHANGED <<row, head, n, cont>> /\ Start' = Start /\ Windows' = Windows
         /\ SlotsOf(row, head, n)' = SlotsOf(row, head, n)
BY DEF question, Start, Windows

LEMMA WrapKeeps == SearchInv /\ Wrap => SearchInv'
<1> SUFFICES ASSUME SearchInv, Wrap PROVE SearchInv'
  OBVIOUS
<1>0. Size \in Nat \ {0} /\ Start \in 0 .. Size /\ n \in Nat \ {0} /\ NTest = IF cont THEN n ELSE 1
  BY Facts
<1>1. /\ UNCHANGED <<row, head, n, cont, i, res, pc>> /\ Start' = Start /\ Windows' = Windows
      /\ pc = "loop" /\ headCur + NTest > Size /\ nTested' = nTested + (Size - headCur) /\ headCur' = 0
  BY SameQuestion DEF Wrap, question
<1>2. Question'
  BY <1>0, <1>1 DEF SearchInv, Question
<1>3. ASSUME ~cont PROVE SingleInv'
  <2>1. Cells(nTested) /\ nTested < Size /\ Len(res) < n
    BY <1>1, <1>3 DEF SearchInv, SingleInv
  <2>2. headCur = Size /\ nTested' = nTested /\ Start + nTested - Size = 0
    BY <1>0, <1>1, <1>3, <2>1 DEF Cells
  <2>3. Cells(nTested)'
    BY <1>0, <1>1, <2>1, <2>2 DEF Cells, InRing, Rank
  <2> QED
    BY <1>1, <2>1, <2>2, <2>3 DEF SingleInv
<1>4. ASSUME cont PROVE ContInv'
  <2>1. Passed(headCur, nTested) /\ res = <<>>
    BY <1>1, <1>4 DEF SearchInv, ContInv
  <2>2. \A k \in Windows : k < headCur /\ k \in 0 .. Size
    BY <1>0, <1>1, <1>4, <2>1 DEF Windows, Passed
  <2>3. Passed(0, nTested + (Size - headCur))
    BY <1>0, <2>1, <2>2 DEF Passed, NoneIn
  <2>4. Passed(headCur, nTested)'
    BY <1>1, <2>3 DEF Passed, NoneIn
  <2> QED
    BY <1>1, <2>1, <2>4 DEF ContInv
<1> QED
  BY <1>1, <1>2, <1>3, <1>4 DEF SearchInv, SingleInv, ContInv

LEMMA StartWindowKeeps == SearchInv /\ StartWindow => SearchInv'
<1> SUFFICES ASSUME SearchInv, StartWindow PROVE SearchInv'
  OBVIOUS
<1>0. Size \in Nat \ {0} /\ Start \in 0 .. Size /\ n \in Nat \ {0} /\ NTest = IF cont THEN n ELSE 1
  BY Facts
<1>1. /\ UNCHANGED <<row, head, n, cont, headCur, nTested, res>> /\ Start' = Start /\ Windows' = Windows
      /\ pc = "loop" /\ headCur + NTest <= Size /\ i' = 0 /\ pc' = "window"
  BY SameQuestion DEF StartWindow, question
<1>2. Question'
  BY <1>1 DEF SearchInv, Question
<1>3. ASSUME ~cont PROVE SingleInv'
  <2>1. Cells(nTested) /\ nTested < Size /\ Len(res) < n
    BY <1>1, <1>3 DEF SearchInv, SingleInv
  <2>2. Cells(nTested)' /\ headCur < Size
    BY <1>0, <1>1, <1>3, <2>1 DEF Cells, InRing, Rank
  <2> QED
    BY <1>1, <2>1, <2>2 DEF SingleInv
<1>4. ASSUME cont PROVE ContInv'
  <2>1. Passed(headCur, nTested) /\ res = <<>>
    BY <1>1, <1>4 DEF SearchInv, ContInv
  <2>2. Passed(headCur - 0, nTested - 0)'
    BY <1>0, <1>1, <2>1 DEF Passed, NoneIn
  <2>3. Filling'
    BY <1>0, <1>1, <1>4, <2>1, <2>2 DEF Filling, Passed
  <2> QED
    BY <1>1, <2>3 DEF ContInv
<1> QED
  BY <1>1, <1>2, <1>3, <1>4 DEF SearchInv, SingleInv, ContInv

LEMMA TestCellKeeps == SearchInv /\ TestCell => SearchInv'
<1> SUFFICES ASSUME SearchInv, TestCell PROVE SearchInv'
  OBVIOUS
<1>0. Size \in Nat \ {0} /\ Start \in 0 .. Size /\ n \in Nat \ {0} /\ NTest = IF cont THEN n ELSE 1
  BY Facts
<1>1. /\ UNCHANGED <<row, head, n, cont, pc>> /\ Start' = Start /\ Windows' = Windows
      /\ pc = "window" /\ i < NTest /\ headCur' = headCur + 1 /\ nTested' = nTested + 1
      /\ IF Usable(row, headCur) THEN res' = Append(res, headCur) /\ i' = i + 1
         ELSE res' = res /\ i' = IF cont THEN NTest ELSE i + 1
  BY SameQuestion DEF TestCell, question
<1>2. Question'
  <2>1. i < NTest /\ headCur + 1 \in 0 .. Size /\ nTested + 1 \in Nat
    <3>1. CASE ~cont
      BY <1>0, <1>1, <3>1 DEF SearchInv, Question, SingleInv
    <3>2. CASE cont
      <4>1. Filling /\ i < n
        BY <1>0, <1>1, <3>2 DEF SearchInv, ContInv, GivenUp
      <4> QED
        BY <1>0, <1>1, <4>1 DEF SearchInv, Question, Filling
    <3> QED
      BY <3>1, <3>2
  <2> QED
    BY <1>1, <2>1 DEF SearchInv, Question
<1>3. ASSUME ~cont PROVE SingleInv'
  <2>1. Cells(nTested) /\ nTested < Size /\ headCur < Size /\ Len(res) < n /\ i' = 1
    BY <1>0, <1>1, <1>3 DEF SearchInv, SingleInv
  <2>2. headCur \in Idxs /\ nTested \in Nat /\ res \in Seq(Idxs) /\ Len(res) \in Nat
    BY <1>0, <2>1 DEF Cells, Idxs
  <2>3. Rank(headCur) = nTested
    <3>1. headCur \in {Start + nTested, Start + nTested - Size} /\ nTested \in 0 .. Size
      BY <2>1 DEF Cells
    <3>2. Rank(headCur) = IF headCur >= Start THEN headCur - Start ELSE headCur - Start + Size
      BY <1>0, <2>2, RankOrders
    <3> QED
      BY <1>0, <2>1, <2>2, <3>1, <3>2
  <2>4. \A x \in Idxs : Rank(x) \in Int /\ (Rank(x) = nTested => x = headCur)
    BY <1>0, <2>2, <2>3, RankOrders
  <2>5. \A x \in Idxs : Rank(x)' = Rank(x)
    BY <1>1 DEF Rank
  <2>6. headCur' \in 0 .. Size /\ headCur' \in {Start' + nTested', Start' + nTested' - Size}
        /\ nTested' \in 0 .. Size
    BY <1>0, <1>1, <2>1, <2>2 DEF Cells, Idxs
  <2>7. CASE Usable(row, headCur)
    <3> DEFINE m == Len(res)
    <3>1. res' \in Seq(Idxs) /\ Len(res') = m + 1 /\ res'[m + 1] = headCur
          /\ \A j \in 1 .. m : res'[j] = res[j] /\ res[j] \in Idxs
      BY <1>1, <2>2, <2>7
    <3>2. \A j \in 1 .. m + 1 : res'[j] \in Idxs /\ Usable(row, res'[j])
      BY <2>1, <2>2, <2>7, <3>1 DEF Cells, InRing
    <3>3. \A j, k \in 1 .. m + 1 : j < k => Rank(res'[j]) < Rank(res'[k])
      <4> SUFFICES ASSUME NEW j \in 1 .. m + 1, NEW k \in 1 .. m + 1, j < k
                   PROVE  Rank(res'[j]) < Rank(res'[k])
        OBVIOUS
      <4>1. CASE k = m + 1
        BY <2>1, <2>2, <2>3, <3>1, <4>1 DEF Cells
      <4>2. CASE k < m + 1
        BY <2>1, <2>2, <3>1, <4>2 DEF Cells, InRing
      <4> QED
        BY <2>2, <4>1, <4>2
    <3>4. \A j \in 1 .. m + 1 : Rank(res'[j]) < nTested + 1
      <4> SUFFICES ASSUME NEW j \in 1 .. m + 1 PROVE Rank(res'[j]) < nTested + 1
        OBVIOUS
      <4>1. CASE j = m + 1
        BY <2>2, <2>3, <3>1, <4>1
      <4>2. CASE j < m + 1
        <5>1. j \in 1 .. Len(res) /\ res'[j] = res[j] /\ res[j] \in Idxs
          BY <2>2, <3>1, <4>2
        <5>2. Rank(res[j]) < nTested /\ Rank(res[j]) \in Int
          BY <2>1, <2>4, <5>1 DEF Cells
        <5> QED
          BY <2>2, <5>1, <5>2
      <4> QED
        BY <2>2, <4>1, <4>2
    <3>5. \A x \in Idxs : Usable(row, x) /\ Rank(x) < nTested + 1 => \E j \in 1 .. m + 1 : res'[j] = x
      <4> SUFFICES ASSUME NEW x \in Idxs, Usable(row, x), Rank(x) < nTested + 1
                   PROVE  \E j \in 1 .. m + 1 : res'[j] = x
        OBVIOUS
      <4>1. CASE Rank(x) < nTested
        BY <2>1, <2>2, <3>1, <4>1 DEF Cells
      <4>2. CASE Rank(x) = nTested
        BY <2>2, <2>4, <3>1, <4>2
      <4> QED
        BY <2>2, <2>4, <4>1, <4>2
    <3>6. InRing(Len(res), res)'
      BY <1>1, <2>5, <3>1, <3>2, <3>3 DEF InRing
    <3>7. Cells(nTested)'
      <4>1. (\A j \in 1 .. Len(res) : Rank(res[j]) < nTested)'
        BY <1>1, <2>2, <3>1, <3>4 DEF Rank
      <4>2. (\A x \in Idxs : Usable(row, x) /\ Rank(x) < nTested => \E j \in 1 .. Len(res) : res[j] = x)'
        BY <1>1, <2>5, <3>1, <3>5
      <4>3. Len(res') <= n'
        BY <1>0, <1>1, <2>1, <2>2, <3>1
      <4> QED
        BY <2>6, <3>1, <3>6, <4>1, <4>2, <4>3 DEF Cells
    <3> QED
      BY <1>1, <2>1, <3>7 DEF SingleInv
  <2>8. CASE ~Usable(row, headCur)
    <3>1. res' = res
      BY <1>1, <2>8
    <3>2. \A j \in 1 .. Len(res) : Rank(res[j]) < nTested + 1 /\ res[j] \in Idxs
      <4> SUFFICES ASSUME NEW j \in 1 .. Len(res) PROVE Rank(res[j]) < nTested + 1 /\ res[j] \in Idxs
        OBVIOUS
      <4>1. res[j] \in Idxs /\ Rank(res[j]) < nTested
        BY <2>1, <2>2 DEF Cells
      <4> QED
        BY <2>2, <2>4, <4>1
    <3>3. \A x \in Idxs : Usable(row, x) /\ Rank(x) < nTested + 1 => \E j \in 1 .. Len(res) : res[j] = x
      BY <2>1, <2>2, <2>4, <2>8 DEF Cells
    <3>4. InRing(Len(res), res)'
      <4>1. InRing(Len(res), res)
        BY <2>1 DEF Cells
      <4> QED
        BY <1>1, <3>1, <4>1 DEF InRing, Rank
    <3>5. Cells(nTested)'
      <4>1. (\A j \in 1 .. Len(res) : Rank(res[j]) < nTested)'
        BY <1>1, <3>1, <3>2 DEF Rank
      <4>2. (\A x \in Idxs : Usable(row, x) /\ Rank(x) < nTested => \E j \in 1 .. Len(res) : res[j] = x)'
        BY <1>1, <2>5, <3>1, <3>3
      <4>3. Len(res') <= n' /\ res' \in Seq(Idxs)
        BY <1>1, <2>1, <2>2, <3>1 DEF Cells
      <4> QED
        BY <2>6, <3>4, <4>1, <4>2, <4>3 DEF Cells
    <3> QED
      BY <1>1, <2>1, <3>5 DEF SingleInv
  <2> QED
    BY <2>7, <2>8
<1>4. ASSUME cont PROVE ContInv'
  <2>1. Filling /\ i < n /\ i \in Nat
    BY <1>0, <1>1, <1>4 DEF SearchInv, ContInv, Filling, GivenUp
  <2>2. headCur \in Nat /\ nTested \in Int
    BY <1>0 DEF SearchInv, Question
  <2>3. CASE Usable(row, headCur)
    <3>1. i' = i + 1 /\ headCur' - i' = headCur - i /\ nTested' - i' = nTested - i
      BY <1>1, <2>1, <2>2, <2>3
    <3>2. Passed(headCur - i, nTested - i)'
      BY <1>1, <2>1, <3>1 DEF Passed, NoneIn, Filling
    <3>3. res' = [j \in 1 .. i + 1 |-> headCur - i + j - 1]
      <4>1. res = [j \in 1 .. i |-> headCur - i + j - 1]
        BY <2>1 DEF Filling
      <4>2. res' = Append(res, headCur) /\ Len(res) = i
        BY <1>1, <2>1, <2>3, <4>1
      <4>3. headCur = headCur - i + (i + 1) - 1
        BY <2>1, <2>2
      <4> QED
        BY <2>1, <2>2, <4>1, <4>2, <4>3
    <3>4. \A j \in 0 .. i : Usable(row, headCur - i + j)
      <4> SUFFICES ASSUME NEW j \in 0 .. i PROVE Usable(row, headCur - i + j)
        OBVIOUS
      <4>1. CASE j = i
        <5>1. headCur - i + j = headCur
          BY <2>1, <2>2, <4>1
        <5> QED
          BY <2>3, <5>1
      <4>2. CASE j # i
        BY <2>1, <4>2 DEF Filling
      <4> QED
        BY <4>1, <4>2
    <3>5. Filling'
      BY <1>0, <1>1, <2>1, <2>2, <3>1, <3>2, <3>3, <3>4 DEF Filling
    <3> QED
      BY <1>1, <3>5 DEF ContInv
  <2>4. CASE ~Usable(row, headCur)
    <3>1. res' = res /\ i' = n /\ Len(res) = i
      BY <1>0, <1>1, <1>4, <2>1, <2>4 DEF Filling
    \* A window that begins in the one given up has the used cell in it.
    <3>2. NoneIn(headCur - i, headCur + 1)
      <4> SUFFICES ASSUME NEW k \in Windows, headCur - i <= k, k < headCur + 1 PROVE FALSE
        BY DEF NoneIn
      <4>1. k \in Int /\ headCur - k \in 0 .. n - 1 /\ k + (headCur - k) = headCur
        BY <1>0, <2>1, <2>2 DEF Windows
      <4>2. Usable(row, k + (headCur - k))
        BY <4>1 DEF Windows
      <4> QED
        BY <2>4, <4>1, <4>2
    <3>3. headCur + 1 \in 0 .. Size /\ headCur - i \in Int /\ \A k \in Windows : k \in Int
      BY <1>0, <2>1, <2>2 DEF Filling, Windows
    <3>4. Passed(headCur + 1, nTested + 1)
      BY <1>0, <2>1, <2>2, <3>2, <3>3 DEF Filling, Passed, NoneIn
    <3>5. Passed(headCur, nTested)'
      BY <1>1, <3>4 DEF Passed, NoneIn
    <3> QED
      BY <1>1, <2>1, <3>1, <3>5 DEF ContInv, GivenUp
  <2> QED
    BY <2>3, <2>4
<1> QED
  BY <1>1, <1>2, <1>3, <1>4 DEF SearchInv, SingleInv, ContInv

LEMMA EndWindowKeeps == SearchInv /\ EndWindow => SearchInv'
<1> SUFFICES ASSUME SearchInv, EndWindow PROVE SearchInv'
  OBVIOUS
<1>0. Size \in Nat \ {0} /\ Start \in 0 .. Size /\ n \in Nat \ {0} /\ NTest = IF cont THEN n ELSE 1
  BY Facts
<1>1. /\ UNCHANGED <<row, head, n, cont, headCur, nTested, i>> /\ Start' = Start /\ Windows' = Windows
      /\ SlotsOf(row, head, n)' = SlotsOf(row, head, n)
      /\ pc = "window" /\ i = NTest
      /\ res' = IF Len(res) < n /\ cont THEN <<>> ELSE res
  BY SameQuestion DEF EndWindow, question
<1>2. /\ Len(res) = n => pc' = "found"
      /\ Len(res) # n /\ Len(res) < n /\ nTested >= Size => pc' = "failed"
      /\ Len(res) # n /\ ~(Len(res) < n /\ nTested >= Size) => pc' = "loop"
  BY DEF EndWindow
<1>3. Question'
  BY <1>1, <1>2 DEF SearchInv, Question
<1>4. ASSUME ~cont PROVE SingleInv'
  <2>1. Cells(nTested) /\ res' = res /\ Len(res) \in Nat /\ Len(res) <= n /\ nTested \in Nat
    BY <1>0, <1>1, <1>4 DEF SearchInv, SingleInv, Cells
  <2>2. \A x \in Idxs : Rank(x) \in 0 .. Size - 1
    BY <1>0, RankOrders
  <2>3. CASE Len(res) = n
    <3>1. res \in [1 .. n -> Idxs] /\ InRing(n, res)
      BY <2>1, <2>3 DEF Cells
    <3>2. Rank(res[n]) < nTested /\ res[n] \in Idxs
      BY <1>0, <2>1, <2>3, <3>1 DEF Cells
    <3>3. \A x \in Idxs : Usable(row, x) /\ Rank(x) <= Rank(res[n]) => \E j \in 1 .. n : res[j] = x
      BY <1>0, <2>1, <2>2, <2>3, <3>2 DEF Cells
    <3>4. FirstOnes(res)
      BY <3>3 DEF FirstOnes
    <3>5. res \in SlotsOf(row, head, n)
      BY <3>1, <3>4, SlotMeans
    <3>6. SlotsOf(row, head, n) = {res}
      BY <1>0, <3>5, SlotIsUnique
    <3> QED
      BY <1>1, <1>2, <2>1, <2>3, <3>6 DEF SingleInv
  <2>4. CASE Len(res) < n /\ nTested >= Size
    <3>1. \A x \in Idxs : Usable(row, x) => \E j \in 1 .. Len(res) : res[j] = x
      BY <1>0, <2>1, <2>2, <2>4 DEF Cells
    <3>2. SlotsOf(row, head, n) = {}
      BY <1>0, <2>1, <2>4, <3>1, TooFewUsable
    <3> QED
      BY <1>1, <1>2, <2>1, <2>4, <3>2 DEF SingleInv
  <2>5. CASE Len(res) < n /\ nTested < Size
    <3>1. Cells(nTested)' /\ pc' = "loop"
      BY <1>0, <1>1, <1>2, <2>1, <2>5 DEF Cells, InRing, Rank
    <3> QED
      BY <1>1, <2>1, <2>5, <3>1 DEF SingleInv
  <2> QED
    BY <1>0, <2>1, <2>3, <2>4, <2>5
<1>5. ASSUME cont PROVE ContInv'
  <2>1. CASE Filling
    <3>1. i = n /\ res = [j \in 1 .. n |-> headCur - n + j - 1] /\ Len(res) = n
      BY <1>0, <1>1, <1>5, <2>1 DEF Filling
    <3>2. headCur - n \in Windows
      BY <2>1, <3>1 DEF Filling, Windows
    <3>3. res' = res /\ pc' = "found"
      BY <1>0, <1>1, <1>2, <3>1
    <3> QED
      BY <1>1, <3>1, <3>2, <3>3 DEF ContInv
  <2>2. CASE GivenUp
    <3>1. Passed(headCur, nTested) /\ Len(res) < n /\ Len(res) # n /\ res' = <<>>
      BY <1>0, <1>1, <1>5, <2>2 DEF GivenUp
    <3>2. nTested >= Size => Windows = {}
      <4> SUFFICES ASSUME nTested >= Size, NEW k \in Windows PROVE FALSE
        OBVIOUS
      <4>1. k \in 0 .. Size - 1
        BY <1>0 DEF Windows
      <4>2. headCur \in 0 .. Size /\ nTested \in Nat
        BY <3>1 DEF Passed
      <4>3. CASE nTested = headCur - Start /\ NoneIn(Start, headCur)
        BY <1>0, <4>1, <4>2, <4>3 DEF NoneIn
      <4>4. CASE nTested = Size - Start + headCur /\ NoneIn(Start, Size) /\ NoneIn(0, headCur)
        BY <1>0, <4>1, <4>2, <4>4 DEF NoneIn
      <4>5. CASE NoneIn(0, Size)
        BY <1>0, <4>1, <4>5 DEF NoneIn
      <4> QED
        BY <3>1, <4>3, <4>4, <4>5 DEF Passed
    <3>3. Passed(headCur, nTested)'
      BY <1>1, <3>1 DEF Passed, NoneIn
    <3> QED
      BY <1>1, <1>2, <3>1, <3>2, <3>3 DEF ContInv
  <2> QED
    BY <1>1, <1>5, <2>1, <2>2 DEF SearchInv, ContInv
<1> QED
  BY <1>1, <1>3, <1>4, <1>5 DEF SearchInv, SingleInv, ContInv

\* The search for single cells returns the one slot that SlotsOf describes - the first usable
\* cells met when the ring is walked once from the start - and the contiguous one a window; each
\* fails only when there is none, for every stream, head and number of tokens
\* (llama_kv_cache::find_slot).
THEOREM SearchFindsSlot == Spec => []FoundIsSlot
<1>1. SearchInv /\ [Next]_vars => SearchInv'
  <2>1. ASSUME SearchInv, UNCHANGED vars PROVE SearchInv'
    <3>0. /\ row' = row /\ head' = head /\ n' = n /\ cont' = cont /\ headCur' = headCur
          /\ nTested' = nTested /\ i' = i /\ res' = res /\ pc' = pc
      BY <2>1 DEF vars
    <3>1. Start' = Start /\ Windows' = Windows
      BY <3>0 DEF Start, Windows
    <3>2. Question'
      BY <2>1, <3>0, <3>1 DEF SearchInv, Question
    <3>3. Cells(nTested)' <=> Cells(nTested)
      <4>1. \A x : Rank(x)' = Rank(x)
        BY <3>1 DEF Rank
      <4>2. InRing(Len(res), res)' <=> InRing(Len(res), res)
        BY <3>0, <4>1 DEF InRing
      <4> QED
        BY <3>0, <3>1, <4>1, <4>2 DEF Cells
    <3>4. SingleInv'
      BY <2>1, <3>0, <3>3 DEF SearchInv, SingleInv
    <3>5. Passed(headCur, nTested)' <=> Passed(headCur, nTested)
      BY <3>0, <3>1 DEF Passed, NoneIn
    <3>6. (Filling' <=> Filling) /\ (GivenUp' <=> GivenUp)
      <4>1. Passed(headCur - i, nTested - i)' <=> Passed(headCur - i, nTested - i)
        BY <3>0, <3>1 DEF Passed, NoneIn
      <4>2. Filling' <=> Filling
        BY <3>0, <4>1 DEF Filling
      <4> QED
        BY <3>0, <3>5, <4>2 DEF GivenUp
    <3>7. ContInv'
      BY <2>1, <3>0, <3>1, <3>5, <3>6 DEF SearchInv, ContInv
    <3> QED
      BY <3>2, <3>4, <3>7 DEF SearchInv
  <2> QED
    BY <2>1, EnterKeeps, WrapKeeps, StartWindowKeeps, TestCellKeeps, EndWindowKeeps
       DEF Next, Loop, Done
<1>2. SearchInv => FoundIsSlot
  BY DEF SearchInv, Question, SingleInv, ContInv, FoundIsSlot
<1> QED
  BY SearchBegins, <1>1, <1>2, PTL DEF Spec
==============================================================================
