---------------------------- MODULE KVRefinesProofs ----------------------------
(***************************************************************************)
(* Proofs about KVRefinesMemory, for every value of the constants: a cache  *)
(* without a sliding window implements SeqMemory, and each of its operations *)
(* has its whole documented effect.  After that, about the positions in the  *)
(* cells: none is missing that a graph attends to, with a window or without. *)
(***************************************************************************)
EXTENDS KVCacheProofs, KVRefinesMemory

(***************************************************************************)
(* The queued copies.                                                       *)
(***************************************************************************)
Copies == Seq(Streams \X Streams)

\* eff lists the buffers before and after each copy of q.
Effects(buf, q, eff) ==
  /\ eff \in [0 .. Len(q) -> Bufs]
  /\ eff[0] = buf
  /\ \A k \in 1 .. Len(q) : eff[k] = [eff[k - 1] EXCEPT ![q[k][2]] = eff[k - 1][q[k][1]]]

\* One more copy.
LEMMA CopyOK ==
  ASSUME NEW buf \in Bufs, NEW c \in Streams \X Streams
  PROVE  [buf EXCEPT ![c[2]] = buf[c[1]]] \in Bufs
BY DEF Bufs

\* The copies can be made one after the other.
LEMMA EffectsExist ==
  ASSUME NEW buf \in Bufs, NEW q \in Copies
  PROVE  \E eff : Effects(buf, q, eff)
<1> DEFINE Step(eff, k) == eff[k] = [eff[k - 1] EXCEPT ![q[k][2]] = eff[k - 1][q[k][1]]]
           Part(n) == \E eff : /\ eff \in [0 .. n -> Bufs] /\ eff[0] = buf
                               /\ \A k \in 1 .. n : Step(eff, k)
           T == {n \in Nat : n <= Len(q) => Part(n)}
<1>1. 0 \in T
  <2>1. [k \in 0 .. 0 |-> buf] \in [0 .. 0 -> Bufs] /\ [k \in 0 .. 0 |-> buf][0] = buf
    OBVIOUS
  <2>2. 1 .. 0 = {}
    OBVIOUS
  <2> QED
    BY <2>1, <2>2
<1>2. ASSUME NEW n \in T PROVE n + 1 \in T
  <2>0. n \in Nat /\ (n <= Len(q) => Part(n))
    OBVIOUS
  <2> SUFFICES ASSUME n + 1 <= Len(q) PROVE Part(n + 1)
    <3> HIDE DEF Part
    <3> QED
      BY <2>0
  <2>1. n \in Nat /\ Len(q) \in Nat /\ n <= Len(q)
    BY <2>0 DEF Copies
  <2>2. PICK eff : eff \in [0 .. n -> Bufs] /\ eff[0] = buf /\ \A k \in 1 .. n : Step(eff, k)
    BY <2>0, <2>1
  <2> DEFINE next == [eff[n] EXCEPT ![q[n + 1][2]] = eff[n][q[n + 1][1]]]
             more == [k \in 0 .. n + 1 |-> IF k <= n THEN eff[k] ELSE next]
  <2>3. next \in Bufs
    <3>1. eff[n] \in Bufs /\ q[n + 1] \in Streams \X Streams
      BY <2>1, <2>2 DEF Copies
    <3> QED
      BY <3>1, CopyOK
  <2> HIDE DEF next
  <2>4. more \in [0 .. n + 1 -> Bufs] /\ more[0] = buf
    BY <2>1, <2>2, <2>3
  <2>5. ASSUME NEW k \in 1 .. n + 1 PROVE Step(more, k)
    <3>1. CASE k <= n
      <4>1. more[k] = eff[k] /\ more[k - 1] = eff[k - 1] /\ k \in 1 .. n
        BY <2>1, <3>1
      <4> HIDE DEF more
      <4> QED
        BY <2>2, <4>1
    <3>2. CASE ~(k <= n)
      <4>1. k = n + 1 /\ more[k] = next /\ more[k - 1] = eff[n]
        BY <2>1, <3>2
      <4> HIDE DEF more
      <4> QED
        BY <4>1 DEF next
    <3> QED
      BY <3>1, <3>2
  <2> HIDE DEF more
  <2> QED
    BY <2>4, <2>5
<1>3. Len(q) \in T /\ Len(q) \in Nat
  <2>1. T \in SUBSET Nat
    OBVIOUS
  <2> HIDE DEF T
  <2>2. T = Nat
    BY <1>1, <1>2, <2>1, SetInduction
  <2> QED
    BY <2>2 DEF Copies
<1>4. Part(Len(q))
  <2> HIDE DEF Part
  <2> QED
    BY <1>3
<1> QED
  BY <1>4 DEF Effects

\* Two lists are equal when they begin alike and go on alike.
LEMMA SameSteps ==
  ASSUME NEW m \in Nat, NEW f, NEW g, f[0] = g[0],
         \A k \in 1 .. m : f[k - 1] = g[k - 1] => f[k] = g[k]
  PROVE  f[m] = g[m]
<1> DEFINE T == {n \in Nat : n <= m => f[n] = g[n]}
<1>1. 0 \in T
  OBVIOUS
<1>2. ASSUME NEW n \in T PROVE n + 1 \in T
  <2> SUFFICES ASSUME n + 1 <= m PROVE f[n + 1] = g[n + 1]
    OBVIOUS
  <2>1. n + 1 \in 1 .. m /\ (n + 1) - 1 = n /\ f[n] = g[n]
    OBVIOUS
  <2> QED
    BY <2>1
<1>3. T \in SUBSET Nat
  OBVIOUS
<1> HIDE DEF T
<1>4. m \in T
  BY <1>1, <1>2, <1>3, SetInduction
<1> QED
  BY <1>4 DEF T

\* So CopiesMade is what the last of them leaves.
LEMMA CopiesMadeIs ==
  ASSUME NEW buf \in Bufs, NEW q \in Copies, NEW eff, Effects(buf, q, eff)
  PROVE  CopiesMade(buf, q) = eff[Len(q)] /\ CopiesMade(buf, q) \in Bufs
<1> DEFINE Def(f) == [n \in 0 .. Len(q) |->
             IF n = 0 THEN buf ELSE [f[n - 1] EXCEPT ![q[n][2]] = f[n - 1][q[n][1]]]]
           after == CHOOSE f : f = Def(f)
<1>0. Len(q) \in Nat
  BY DEF Copies
<1>1. CopiesMade(buf, q) = after[Len(q)]
  BY DEF CopiesMade
<1>2. eff = Def(eff)
  <2>1. ASSUME NEW n \in 0 .. Len(q) PROVE eff[n] = Def(eff)[n]
    <3>1. CASE n = 0
      BY <1>0, <3>1 DEF Effects
    <3>2. CASE n # 0
      <4>1. n \in 1 .. Len(q)
        BY <1>0, <3>2
      <4>2. eff[n] = [eff[n - 1] EXCEPT ![q[n][2]] = eff[n - 1][q[n][1]]]
        BY <4>1 DEF Effects
      <4> QED
        BY <3>2, <4>2, Zenon
    <3> QED
      BY <3>1, <3>2
  <2>2. eff = [n \in 0 .. Len(q) |-> eff[n]]
    BY DEF Effects
  <2>3. Def(eff) = [n \in 0 .. Len(q) |-> Def(eff)[n]]
    BY Zenon
  <2> HIDE DEF Def
  <2> QED
    BY <2>1, <2>2, <2>3
<1>3. after = Def(after)
  <2> HIDE DEF Def
  <2> QED
    BY <1>2
<1>4. after[0] = eff[0] /\ \A k \in 1 .. Len(q) :
          /\ after[k] = [after[k - 1] EXCEPT ![q[k][2]] = after[k - 1][q[k][1]]]
          /\ eff[k] = [eff[k - 1] EXCEPT ![q[k][2]] = eff[k - 1][q[k][1]]]
  <2> HIDE DEF after
  <2>1. \A n \in 0 .. Len(q) : after[n] = Def(after)[n]
    BY <1>3, Zenon
  <2>2. 0 \in 0 .. Len(q) /\ \A k \in 1 .. Len(q) : k \in 0 .. Len(q) /\ k # 0
    BY <1>0
  <2>3. after[0] = buf /\ \A k \in 1 .. Len(q) :
          after[k] = [after[k - 1] EXCEPT ![q[k][2]] = after[k - 1][q[k][1]]]
    BY <2>1, <2>2, Zenon
  <2> QED
    BY <2>3, Zenon DEF Effects
<1> HIDE DEF after
<1>5. after[Len(q)] = eff[Len(q)]
  <2>1. \A k \in 1 .. Len(q) : after[k - 1] = eff[k - 1] => after[k] = eff[k]
    BY <1>4, Zenon
  <2> QED
    BY <1>0, <1>4, <2>1, SameSteps
<1> QED
  BY <1>0, <1>1, <1>5 DEF Effects

\* The buffers stay buffers.
LEMMA CopiesMadeOK ==
  ASSUME NEW buf \in Bufs, NEW q \in Copies
  PROVE  CopiesMade(buf, q) \in Bufs
BY EffectsExist, CopiesMadeIs

\* Without copies the buffers are as they are.
LEMMA NoCopiesMade ==
  ASSUME NEW buf \in Bufs
  PROVE  CopiesMade(buf, <<>>) = buf
<1>1. <<>> \in Copies /\ Len(<<>>) = 0
  BY DEF Copies
<1>2. PICK eff : Effects(buf, <<>>, eff)
  BY <1>1, EffectsExist
<1> QED
  BY <1>1, <1>2, CopiesMadeIs DEF Effects

\* A copy that is queued is made last.
LEMMA LastCopyMade ==
  ASSUME NEW buf \in Bufs, NEW q \in Copies, NEW c \in Streams \X Streams
  PROVE  /\ Append(q, c) \in Copies
         /\ CopiesMade(buf, Append(q, c)) =
              [CopiesMade(buf, q) EXCEPT ![c[2]] = CopiesMade(buf, q)[c[1]]]
<1> DEFINE n == Len(q)
           longer == Append(q, c)
<1>1. /\ n \in Nat /\ longer \in Copies /\ Len(longer) = n + 1
      /\ longer[n + 1] = c /\ \A k \in 1 .. n : longer[k] = q[k]
  BY DEF Copies
<1>2. PICK eff : Effects(buf, q, eff)
  BY EffectsExist
<1>3. CopiesMade(buf, q) = eff[n] /\ eff[n] \in Bufs
  BY <1>2, CopiesMadeIs
<1>4. PICK last : last = [eff[n] EXCEPT ![c[2]] = eff[n][c[1]]]
  OBVIOUS
<1>5. last \in Bufs
  BY <1>3, <1>4, CopyOK
<1>6. PICK more : more = [k \in 0 .. n + 1 |-> IF k <= n THEN eff[k] ELSE last]
  OBVIOUS
<1> HIDE DEF longer
<1>7. Effects(buf, longer, more)
  <2>1. more \in [0 .. n + 1 -> Bufs] /\ more[0] = buf
    BY <1>1, <1>2, <1>5, <1>6 DEF Effects
  <2>2. ASSUME NEW k \in 1 .. n + 1
        PROVE  more[k] = [more[k - 1] EXCEPT ![longer[k][2]] = more[k - 1][longer[k][1]]]
    <3>1. CASE k <= n
      <4>1. more[k] = eff[k] /\ more[k - 1] = eff[k - 1] /\ k \in 1 .. n /\ longer[k] = q[k]
        BY <1>1, <1>6, <3>1
      <4>2. eff[k] = [eff[k - 1] EXCEPT ![q[k][2]] = eff[k - 1][q[k][1]]]
        BY <1>2, <4>1 DEF Effects
      <4> QED
        BY <4>1, <4>2, Zenon
    <3>2. CASE ~(k <= n)
      <4>1. k = n + 1 /\ more[k] = last /\ more[k - 1] = eff[n] /\ longer[k] = c
        BY <1>1, <1>6, <3>2
      <4> QED
        BY <4>1, <1>4, Zenon
    <3> QED
      BY <3>1, <3>2
  <2> QED
    BY <1>1, <2>1, <2>2 DEF Effects
<1>8. CopiesMade(buf, longer) = more[n + 1] /\ more[n + 1] = last
  BY <1>1, <1>6, <1>7, CopiesMadeIs
<1> QED
  BY <1>1, <1>3, <1>4, <1>8, Zenon DEF longer

\* The first copy is made first.
LEMMA FirstCopyMade ==
  ASSUME NEW buf \in Bufs, NEW q \in Copies, q # <<>>
  PROVE  CopiesMade(buf, q) =
           CopiesMade([buf EXCEPT ![Head(q)[2]] = buf[Head(q)[1]]], Tail(q))
<1> DEFINE n == Len(q)
<1>0. PICK rest, first : rest = Tail(q) /\ first = [buf EXCEPT ![Head(q)[2]] = buf[Head(q)[1]]]
  OBVIOUS
<1>1. /\ n \in Nat \ {0} /\ rest \in Copies /\ Len(rest) = n - 1 /\ Head(q) = q[1]
      /\ \A k \in 1 .. n - 1 : rest[k] = q[k + 1]
  BY <1>0 DEF Copies
<1>2. PICK eff : Effects(buf, q, eff)
  BY EffectsExist
<1>3. eff \in [0 .. n -> Bufs] /\ eff[0] = buf
  BY <1>2 DEF Effects
<1>4. \A k \in 1 .. n : eff[k] = [eff[k - 1] EXCEPT ![q[k][2]] = eff[k - 1][q[k][1]]]
  BY <1>2 DEF Effects
<1>5. eff[1] = first
  <2>1. 1 \in 1 .. n /\ 1 - 1 = 0
    BY <1>1
  <2>2. eff[1] = [eff[1 - 1] EXCEPT ![q[1][2]] = eff[1 - 1][q[1][1]]]
    BY <1>4, <2>1
  <2> QED
    BY <1>0, <1>1, <1>3, <2>1, <2>2, Zenon
<1>6. PICK less : less = [k \in 0 .. n - 1 |-> eff[k + 1]]
  OBVIOUS
<1>7. Effects(first, rest, less)
  <2>1. less \in [0 .. n - 1 -> Bufs] /\ less[0] = first
    BY <1>1, <1>3, <1>5, <1>6
  <2>2. ASSUME NEW k \in 1 .. n - 1
        PROVE  less[k] = [less[k - 1] EXCEPT ![rest[k][2]] = less[k - 1][rest[k][1]]]
    <3>1. /\ less[k] = eff[k + 1] /\ less[k - 1] = eff[(k + 1) - 1] /\ rest[k] = q[k + 1]
          /\ k + 1 \in 1 .. n
      BY <1>1, <1>6
    <3>2. eff[k + 1] =
            [eff[(k + 1) - 1] EXCEPT ![q[k + 1][2]] = eff[(k + 1) - 1][q[k + 1][1]]]
      BY <1>4, <3>1
    <3> QED
      BY <3>1, <3>2, Zenon
  <2> QED
    BY <1>1, <2>1, <2>2 DEF Effects
<1>8. first \in Bufs
  BY <1>1, <1>3, <1>5
<1>9. CopiesMade(first, rest) = less[n - 1] /\ less[n - 1] = eff[n]
  BY <1>1, <1>6, <1>7, <1>8, CopiesMadeIs
<1>10. CopiesMade(buf, q) = eff[n]
  BY <1>2, CopiesMadeIs
<1> QED
  BY <1>0, <1>9, <1>10

(***************************************************************************)
(* What a row of cells means to a sequence.                                 *)
(***************************************************************************)
Held(row, buf, hidden, s) ==
  {Meaning(row[i], buf[i]) : i \in {k \in Idxs : s \in row[k].seqs /\ k \notin hidden}}

\* An entry stands for a cell of the sequence that is not hidden.
LEMMA HeldMembers ==
  ASSUME NEW row, NEW buf, NEW hidden, NEW s, NEW e
  PROVE  e \in Held(row, buf, hidden, s) <=>
           \E i \in Idxs : /\ s \in row[i].seqs /\ i \notin hidden
                           /\ e = Meaning(row[i], buf[i])
BY DEF Held

\* An entry's position is the cell's.
LEMMA MeaningPos ==
  ASSUME NEW c, NEW x
  PROVE  Meaning(c, x).pos = c.pos
BY DEF Meaning

\* Cells that mean the same, seen alike, hold the same.
LEMMA HeldSame ==
  ASSUME NEW row, NEW buf, NEW hidden, NEW new, NEW newBuf, NEW newHidden, NEW s,
         \A i \in Idxs :
           /\ (s \in new[i].seqs /\ i \notin newHidden) <=> (s \in row[i].seqs /\ i \notin hidden)
           /\ s \in row[i].seqs /\ i \notin hidden =>
                Meaning(new[i], newBuf[i]) = Meaning(row[i], buf[i])
  PROVE  Held(new, newBuf, newHidden, s) = Held(row, buf, hidden, s)
<1>1. ASSUME NEW e
      PROVE  e \in Held(new, newBuf, newHidden, s) <=> e \in Held(row, buf, hidden, s)
  <2>1. e \in Held(new, newBuf, newHidden, s) <=>
          \E i \in Idxs : s \in new[i].seqs /\ i \notin newHidden /\ e = Meaning(new[i], newBuf[i])
    BY HeldMembers
  <2>2. e \in Held(row, buf, hidden, s) <=>
          \E i \in Idxs : s \in row[i].seqs /\ i \notin hidden /\ e = Meaning(row[i], buf[i])
    BY HeldMembers
  <2> QED
    BY <2>1, <2>2
<1> QED
  BY <1>1

\* A cell whose owners S were dropped: another owner still has it, as it was.
LEMMA DropSeqsMeans ==
  ASSUME NEW st \in Streams, NEW c, CellOK(st, c), NEW S, NEW s, NEW x
  PROVE  /\ s \in DropSeqs(c, S).seqs <=> s \in c.seqs /\ s \notin S
         /\ s \in DropSeqs(c, S).seqs => Meaning(DropSeqs(c, S), x) = Meaning(c, x)
<1>1. CASE c.seqs \subseteq S
  <2>1. DropSeqs(c, S) = EmptyCell
    BY <1>1 DEF DropSeqs
  <2>2. DropSeqs(c, S).seqs = {}
    BY <2>1 DEF EmptyCell
  <2> QED
    BY <1>1, <2>2
<1>2. CASE ~(c.seqs \subseteq S)
  <2>1. c \in Cell /\ DropSeqs(c, S) = [c EXCEPT !.seqs = c.seqs \ S]
    BY <1>2 DEF DropSeqs, CellOK
  <2>2. /\ DropSeqs(c, S).seqs = c.seqs \ S /\ DropSeqs(c, S).pos = c.pos
        /\ DropSeqs(c, S).shift = c.shift
    BY <2>1 DEF Cell
  <2> QED
    BY <2>2 DEF Meaning
<1> QED
  BY <1>1, <1>2

\* seq_rm on a row removes what the range holds, of the sequences it is called for.
LEMMA RemovedHeld ==
  ASSUME NEW st \in Streams, NEW row, RowOK(st, row), NEW buf, NEW S, NEW p0, NEW p1, NEW s, NEW e
  PROVE  e \in Held(RemovedRow(row, S, p0, p1), buf, {}, s) <=>
           e \in Held(row, buf, {}, s) /\ ~(s \in S /\ PosIn(e.pos, p0, p1))
<1> DEFINE new == RemovedRow(row, S, p0, p1)
<1>1. ASSUME NEW i \in Idxs
      PROVE  /\ s \in new[i].seqs <=> /\ s \in row[i].seqs
                                      /\ ~(s \in S /\ PosIn(row[i].pos, p0, p1))
             /\ s \in new[i].seqs => Meaning(new[i], buf[i]) = Meaning(row[i], buf[i])
  <2>1. CellOK(st, row[i])
    BY DEF RowOK
  <2>2. CASE PosIn(row[i].pos, p0, p1)
    <3>1. new[i] = DropSeqs(row[i], S)
      BY <2>2 DEF RemovedRow
    <3> HIDE DEF new
    <3> QED
      BY <2>1, <2>2, <3>1, DropSeqsMeans
  <2>3. CASE ~PosIn(row[i].pos, p0, p1)
    <3>1. new[i] = row[i]
      BY <2>3 DEF RemovedRow
    <3> HIDE DEF new
    <3> QED
      BY <2>3, <3>1
  <2> QED
    BY <2>2, <2>3
<1> HIDE DEF new
<1>2. e \in Held(new, buf, {}, s) <=>
        e \in Held(row, buf, {}, s) /\ ~(s \in S /\ PosIn(e.pos, p0, p1))
  <2>1. e \in Held(new, buf, {}, s) <=>
          \E i \in Idxs : s \in new[i].seqs /\ i \notin {} /\ e = Meaning(new[i], buf[i])
    BY HeldMembers
  <2>2. e \in Held(row, buf, {}, s) <=>
          \E i \in Idxs : s \in row[i].seqs /\ i \notin {} /\ e = Meaning(row[i], buf[i])
    BY HeldMembers
  <2>3. \A i \in Idxs : e = Meaning(row[i], buf[i]) => e.pos = row[i].pos
    BY MeaningPos
  <2> QED
    BY <1>1, <2>1, <2>2, <2>3
<1> QED
  BY <1>2 DEF new

\* A copy within a row adds what the range holds of s to what d holds.
LEMMA SharedHeld ==
  ASSUME NEW st \in Streams, NEW row, RowOK(st, row), NEW buf, NEW s, NEW d, NEW p0, NEW p1, NEW q, NEW e
  PROVE  e \in Held(SharedRow(row, s, d, p0, p1), buf, {}, q) <=>
           \/ e \in Held(row, buf, {}, q)
           \/ q = d /\ e \in Held(row, buf, {}, s) /\ PosIn(e.pos, p0, p1)
<1> DEFINE new == SharedRow(row, s, d, p0, p1)
<1>1. ASSUME NEW i \in Idxs
      PROVE  /\ q \in new[i].seqs <=> \/ q \in row[i].seqs
                                      \/ q = d /\ s \in row[i].seqs /\ PosIn(row[i].pos, p0, p1)
             /\ Meaning(new[i], buf[i]) = Meaning(row[i], buf[i])
  <2>1. row[i] \in Cell
    BY DEF RowOK, CellOK
  <2>2. CASE PosIn(row[i].pos, p0, p1) /\ s \in row[i].seqs
    <3>1. new[i] = [row[i] EXCEPT !.seqs = row[i].seqs \cup {d}]
      BY <2>2 DEF SharedRow
    <3>2. new[i].seqs = row[i].seqs \cup {d} /\ new[i].pos = row[i].pos /\ new[i].shift = row[i].shift
      BY <2>1, <3>1 DEF Cell
    <3> HIDE DEF new
    <3> QED
      BY <2>2, <3>2 DEF Meaning
  <2>3. CASE ~(PosIn(row[i].pos, p0, p1) /\ s \in row[i].seqs)
    <3>1. new[i] = row[i]
      BY <2>3 DEF SharedRow
    <3> HIDE DEF new
    <3> QED
      BY <2>3, <3>1
  <2> QED
    BY <2>2, <2>3
<1> HIDE DEF new
<1>2. e \in Held(new, buf, {}, q) <=>
        \/ e \in Held(row, buf, {}, q)
        \/ q = d /\ e \in Held(row, buf, {}, s) /\ PosIn(e.pos, p0, p1)
  <2>1. e \in Held(new, buf, {}, q) <=>
          \E i \in Idxs : q \in new[i].seqs /\ i \notin {} /\ e = Meaning(new[i], buf[i])
    BY HeldMembers
  <2>2. \A r : e \in Held(row, buf, {}, r) <=>
          \E i \in Idxs : r \in row[i].seqs /\ i \notin {} /\ e = Meaning(row[i], buf[i])
    BY HeldMembers
  <2>3. \A i \in Idxs : e = Meaning(row[i], buf[i]) => e.pos = row[i].pos
    BY MeaningPos
  <2> QED
    BY <1>1, <2>1, <2>2, <2>3
<1> QED
  BY <1>2 DEF new

\* seq_keep on a row leaves its sequence all it has, and the others nothing.
LEMMA KeptHeld ==
  ASSUME NEW st \in Streams, NEW row, RowOK(st, row), NEW buf, NEW s, NEW q, NEW e
  PROVE  e \in Held([i \in Idxs |-> KeepOnly(row[i], s)], buf, {}, q) <=>
           q = s /\ e \in Held(row, buf, {}, s)
<1> DEFINE new == [i \in Idxs |-> KeepOnly(row[i], s)]
<1>1. ASSUME NEW i \in Idxs
      PROVE  /\ q \in new[i].seqs <=> q = s /\ s \in row[i].seqs
             /\ s \in row[i].seqs => Meaning(new[i], buf[i]) = Meaning(row[i], buf[i])
  <2>1. row[i] \in Cell
    BY DEF RowOK, CellOK
  <2>2. CASE s \in row[i].seqs
    <3>1. new[i] = [row[i] EXCEPT !.seqs = {s}]
      BY <2>2 DEF KeepOnly
    <3>2. new[i].seqs = {s} /\ new[i].pos = row[i].pos /\ new[i].shift = row[i].shift
      BY <2>1, <3>1 DEF Cell
    <3> HIDE DEF new
    <3> QED
      BY <2>2, <3>2 DEF Meaning
  <2>3. CASE s \notin row[i].seqs
    <3>1. new[i] = EmptyCell
      BY <2>3 DEF KeepOnly
    <3>2. new[i].seqs = {}
      BY <3>1 DEF EmptyCell
    <3> HIDE DEF new
    <3> QED
      BY <2>3, <3>2
  <2> QED
    BY <2>2, <2>3
<1> HIDE DEF new
<1>2. CASE q = s
  <2>1. Held(new, buf, {}, s) = Held(row, buf, {}, s)
    BY <1>1, <1>2, HeldSame
  <2> QED
    BY <1>2, <2>1 DEF new
<1>3. CASE q # s
  <2>1. e \notin Held(new, buf, {}, q)
    BY <1>1, <1>3, HeldMembers
  <2> QED
    BY <1>3, <2>1 DEF new
<1> QED
  BY <1>2, <1>3

\* The cells of s in a range, which it shares with nobody.
OwnCells(row, T, s, p0, p1) ==
  /\ T = {i \in Idxs : PosIn(row[i].pos, p0, p1) /\ s \in row[i].seqs}
  /\ \A i \in T : row[i].seqs = {s}

\* A row in which the cells T of s became others of s, or nothing: nobody else notices.
LEMMA MovedOthers ==
  ASSUME NEW row, NEW buf, NEW T, NEW s, NEW p0, NEW p1, OwnCells(row, T, s, p0, p1),
         NEW new, \A i \in T : new[i].seqs \subseteq {s},
         \A i \in Idxs : i \notin T => new[i] = row[i], NEW q, q # s
  PROVE  Held(new, buf, {}, q) = Held(row, buf, {}, q)
<1>1. ASSUME NEW i \in Idxs
      PROVE  /\ q \in new[i].seqs <=> q \in row[i].seqs
             /\ q \in row[i].seqs => Meaning(new[i], buf[i]) = Meaning(row[i], buf[i])
  BY DEF OwnCells
<1> QED
  BY <1>1, HeldSame

\* What s holds then is outside of the range, or stands for one of the cells T.
LEMMA MovedOwn ==
  ASSUME NEW row, NEW buf, NEW T, NEW s, NEW p0, NEW p1, OwnCells(row, T, s, p0, p1),
         NEW new, \A i \in Idxs : i \notin T => new[i] = row[i], NEW e
  PROVE  e \in Held(new, buf, {}, s) <=>
              \/ e \in Held(row, buf, {}, s) /\ ~PosIn(e.pos, p0, p1)
              \/ \E i \in T : s \in new[i].seqs /\ e = Meaning(new[i], buf[i])
<1>0. T \subseteq Idxs
  BY DEF OwnCells
<1>1. e \in Held(new, buf, {}, s) <=>
        \E i \in Idxs : s \in new[i].seqs /\ i \notin {} /\ e = Meaning(new[i], buf[i])
  BY HeldMembers
<1>2. e \in Held(row, buf, {}, s) <=>
        \E i \in Idxs : s \in row[i].seqs /\ i \notin {} /\ e = Meaning(row[i], buf[i])
  BY HeldMembers
<1>3. \A i \in Idxs : e = Meaning(row[i], buf[i]) => e.pos = row[i].pos
  BY MeaningPos
<1>4. \A i \in Idxs : i \in T <=> PosIn(row[i].pos, p0, p1) /\ s \in row[i].seqs
  BY DEF OwnCells
<1> QED
  BY <1>0, <1>1, <1>2, <1>3, <1>4

\* A cell that was moved and shifted alike stands for the same token.
LEMMA MovedMeans ==
  ASSUME NEW c \in Cell, NEW x \in Content, NEW new, NEW p \in Int,
         new.pos = p, new.shift = c.shift + p - c.pos
  PROVE  Meaning(new, x) = [pos |-> p, tok |-> Meaning(c, x).tok]
<1>1. x.rot \in Int /\ c.shift \in Int /\ c.pos \in Int
  BY DEF Cell, Content
<1>2. x.rot + new.shift = new.pos <=> x.rot + c.shift = c.pos
  <2>1. PICK r \in Int, h \in Int, q \in Int : r = x.rot /\ h = c.shift /\ q = c.pos
    BY <1>1, Zenon
  <2>2. new.shift = h + p - q /\ new.pos = p
    BY <2>1, Zenon
  <2>3. r + (h + p - q) = p <=> r + h = q
    OBVIOUS
  <2> QED
    BY <2>1, <2>2, <2>3, Zenon
<1> QED
  BY <1>2 DEF Meaning

\* seq_add on a row.
LEMMA AddedHeld ==
  ASSUME NEW st \in Streams, NEW row, RowOK(st, row), NEW buf \in [Idxs -> Content],
         NEW T, NEW s, NEW p0, NEW p1, OwnCells(row, T, s, p0, p1), NEW d \in Int, NEW q, NEW e
  PROVE  e \in Held([i \in Idxs |-> IF i \in T THEN ShiftPos(row[i], d) ELSE row[i]], buf, {}, q) <=>
           \/ e \in Held(row, buf, {}, q) /\ ~(q = s /\ PosIn(e.pos, p0, p1))
           \/ /\ q = s
              /\ \E f \in Held(row, buf, {}, s) :
                   /\ PosIn(f.pos, p0, p1) /\ f.pos + d >= 0
                   /\ e = [pos |-> f.pos + d, tok |-> f.tok]
<1> DEFINE new == [i \in Idxs |-> IF i \in T THEN ShiftPos(row[i], d) ELSE row[i]]
<1>1. ASSUME NEW i \in T
      PROVE  /\ i \in Idxs /\ row[i].seqs = {s} /\ PosIn(row[i].pos, p0, p1)
             /\ row[i] \in Cell /\ buf[i] \in Content /\ new[i].seqs \subseteq {s}
             /\ s \in new[i].seqs <=> row[i].pos + d >= 0
             /\ s \in new[i].seqs =>
                  Meaning(new[i], buf[i]) = [pos |-> row[i].pos + d, tok |-> Meaning(row[i], buf[i]).tok]
  <2>1. i \in Idxs /\ row[i].seqs = {s} /\ PosIn(row[i].pos, p0, p1)
    BY DEF OwnCells
  <2>2. row[i] \in Cell /\ buf[i] \in Content /\ row[i].pos \in Int /\ row[i].shift \in Int
    BY <2>1 DEF RowOK, CellOK, Cell
  <2>3. new[i] = ShiftPos(row[i], d)
    BY <2>1
  <2>4. CASE row[i].pos + d < 0
    <3>1. new[i].seqs = {}
      <4>1. new[i] = EmptyCell
        BY <2>3, <2>4 DEF ShiftPos
      <4> QED
        BY <4>1 DEF EmptyCell
    <3> QED
      BY <2>1, <2>2, <2>4, <3>1
  <2>5. CASE ~(row[i].pos + d < 0)
    <3>1. /\ new[i].seqs = {s} /\ new[i].pos = row[i].pos + d
          /\ new[i].shift = row[i].shift + (row[i].pos + d) - row[i].pos
      BY <2>1, <2>2, <2>3, <2>5 DEF ShiftPos
    <3> QED
      BY <2>1, <2>2, <2>5, <3>1, MovedMeans
  <2> QED
    BY <2>4, <2>5
<1>2. /\ \A i \in T : new[i].seqs \subseteq {s}
      /\ \A i \in Idxs : i \notin T => new[i] = row[i]
  BY <1>1
<1> HIDE DEF new
<1>3. CASE q # s
  <2>1. Held(new, buf, {}, q) = Held(row, buf, {}, q)
    BY <1>2, <1>3, MovedOthers
  <2> QED
    BY <1>3, <2>1 DEF new
<1>4. (\E i \in T : s \in new[i].seqs /\ e = Meaning(new[i], buf[i])) <=>
        (\E f \in Held(row, buf, {}, s) :
           /\ PosIn(f.pos, p0, p1) /\ f.pos + d >= 0
           /\ e = [pos |-> f.pos + d, tok |-> f.tok])
  <2>1. ASSUME NEW i \in T, s \in new[i].seqs, e = Meaning(new[i], buf[i])
        PROVE  \E f \in Held(row, buf, {}, s) :
                /\ PosIn(f.pos, p0, p1) /\ f.pos + d >= 0
                /\ e = [pos |-> f.pos + d, tok |-> f.tok]
    <3>1. Meaning(row[i], buf[i]) \in Held(row, buf, {}, s)
      <4>1. i \in Idxs /\ s \in row[i].seqs /\ i \notin {}
        BY <1>1
      <4> QED
        BY <4>1, HeldMembers
    <3> QED
      BY <1>1, <2>1, <3>1, MeaningPos
  <2>2. ASSUME NEW f \in Held(row, buf, {}, s), PosIn(f.pos, p0, p1), f.pos + d >= 0,
               e = [pos |-> f.pos + d, tok |-> f.tok]
        PROVE  \E i \in T : s \in new[i].seqs /\ e = Meaning(new[i], buf[i])
    <3>1. PICK i \in Idxs : s \in row[i].seqs /\ f = Meaning(row[i], buf[i])
      BY HeldMembers
    <3>2. f.pos = row[i].pos
      BY <3>1, MeaningPos
    <3>3. i \in T
      BY <2>2, <3>1, <3>2 DEF OwnCells
    <3> QED
      BY <1>1, <2>2, <3>1, <3>2, <3>3
  <2> QED
    BY <2>1, <2>2
<1>5. e \in Held(new, buf, {}, s) <=>
        \/ e \in Held(row, buf, {}, s) /\ ~PosIn(e.pos, p0, p1)
        \/ \E i \in T : s \in new[i].seqs /\ e = Meaning(new[i], buf[i])
  BY <1>2, MovedOwn
<1> QED
  BY <1>3, <1>4, <1>5 DEF new

\* seq_div on a row.
LEMMA DividedHeld ==
  ASSUME NEW st \in Streams, NEW row, RowOK(st, row), NEW buf \in [Idxs -> Content],
         NEW T, NEW s, NEW p0, NEW p1, OwnCells(row, T, s, p0, p1), NEW d \in Nat \ {0}, NEW q, NEW e
  PROVE  e \in Held([i \in Idxs |-> IF i \in T THEN DivPos(row[i], d) ELSE row[i]], buf, {}, q) <=>
           \/ e \in Held(row, buf, {}, q) /\ ~(q = s /\ PosIn(e.pos, p0, p1))
           \/ /\ q = s
              /\ \E f \in Held(row, buf, {}, s) :
                   PosIn(f.pos, p0, p1) /\ e = [pos |-> f.pos \div d, tok |-> f.tok]
<1> DEFINE new == [i \in Idxs |-> IF i \in T THEN DivPos(row[i], d) ELSE row[i]]
<1>1. ASSUME NEW i \in T
      PROVE  /\ i \in Idxs /\ row[i].seqs = {s} /\ PosIn(row[i].pos, p0, p1)
             /\ new[i].seqs = {s}
             /\ Meaning(new[i], buf[i]) = [pos |-> row[i].pos \div d, tok |-> Meaning(row[i], buf[i]).tok]
  <2>1. i \in Idxs /\ row[i].seqs = {s} /\ PosIn(row[i].pos, p0, p1)
    BY DEF OwnCells
  <2>2. row[i] \in Cell /\ buf[i] \in Content /\ row[i].pos \in Int /\ row[i].shift \in Int
    BY <2>1 DEF RowOK, CellOK, Cell
  <2>3. row[i].pos \in Nat
    BY <2>1, <2>2 DEF PosIn
  <2>4. row[i].pos \div d \in Int
    BY <2>3, QuotientInRange
  <2>5. new[i] = DivPos(row[i], d)
    BY <2>1
  <2>6. /\ new[i].seqs = {s} /\ new[i].pos = row[i].pos \div d
        /\ new[i].shift = row[i].shift + (row[i].pos \div d) - row[i].pos
    BY <2>1, <2>5 DEF DivPos
  <2> QED
    BY <2>1, <2>2, <2>4, <2>6, MovedMeans
<1>2. /\ \A i \in T : new[i].seqs \subseteq {s}
      /\ \A i \in Idxs : i \notin T => new[i] = row[i]
  BY <1>1
<1> HIDE DEF new
<1>3. CASE q # s
  <2>1. Held(new, buf, {}, q) = Held(row, buf, {}, q)
    BY <1>2, <1>3, MovedOthers
  <2> QED
    BY <1>3, <2>1 DEF new
<1>4. (\E i \in T : s \in new[i].seqs /\ e = Meaning(new[i], buf[i])) <=>
        (\E f \in Held(row, buf, {}, s) :
           PosIn(f.pos, p0, p1) /\ e = [pos |-> f.pos \div d, tok |-> f.tok])
  <2>1. ASSUME NEW i \in T, s \in new[i].seqs, e = Meaning(new[i], buf[i])
        PROVE  \E f \in Held(row, buf, {}, s) :
                 PosIn(f.pos, p0, p1) /\ e = [pos |-> f.pos \div d, tok |-> f.tok]
    <3>1. Meaning(row[i], buf[i]) \in Held(row, buf, {}, s)
      <4>1. i \in Idxs /\ s \in row[i].seqs /\ i \notin {}
        BY <1>1
      <4> QED
        BY <4>1, HeldMembers
    <3> QED
      BY <1>1, <2>1, <3>1, MeaningPos
  <2>2. ASSUME NEW f \in Held(row, buf, {}, s), PosIn(f.pos, p0, p1),
               e = [pos |-> f.pos \div d, tok |-> f.tok]
        PROVE  \E i \in T : s \in new[i].seqs /\ e = Meaning(new[i], buf[i])
    <3>1. PICK i \in Idxs : s \in row[i].seqs /\ f = Meaning(row[i], buf[i])
      BY HeldMembers
    <3>2. f.pos = row[i].pos
      BY <3>1, MeaningPos
    <3>3. i \in T
      BY <2>2, <3>1, <3>2 DEF OwnCells
    <3> QED
      BY <1>1, <2>2, <3>1, <3>2, <3>3
  <2> QED
    BY <2>1, <2>2
<1>5. e \in Held(new, buf, {}, s) <=>
        \/ e \in Held(row, buf, {}, s) /\ ~PosIn(e.pos, p0, p1)
        \/ \E i \in T : s \in new[i].seqs /\ e = Meaning(new[i], buf[i])
  BY <1>2, MovedOwn
<1> QED
  BY <1>3, <1>4, <1>5 DEF new

\* A copy between streams replaces the cells of the destination by those of s.
LEMMA CopiedHeld ==
  ASSUME NEW st \in Streams, NEW row, RowOK(st, row), NEW buf, NEW s, NEW d, NEW new,
         \A i \in Idxs : new[i] = IF s \in row[i].seqs THEN [row[i] EXCEPT !.seqs = {d}]
                                  ELSE EmptyCell
  PROVE  Held(new, buf, {}, d) = Held(row, buf, {}, s)
<1>1. ASSUME NEW i \in Idxs
      PROVE  /\ d \in new[i].seqs <=> s \in row[i].seqs
             /\ s \in row[i].seqs => Meaning(new[i], buf[i]) = Meaning(row[i], buf[i])
  <2>1. row[i] \in Cell
    BY DEF RowOK, CellOK
  <2>2. CASE s \in row[i].seqs
    <3>1. new[i] = [row[i] EXCEPT !.seqs = {d}]
      BY <2>2
    <3>2. new[i].seqs = {d} /\ new[i].pos = row[i].pos /\ new[i].shift = row[i].shift
      BY <2>1, <3>1 DEF Cell
    <3> QED
      BY <2>2, <3>2 DEF Meaning
  <2>3. CASE s \notin row[i].seqs
    <3>1. new[i] = EmptyCell
      BY <2>3, Zenon
    <3>2. new[i].seqs = {}
      BY <3>1 DEF EmptyCell
    <3> QED
      BY <2>3, <3>2
  <2> QED
    BY <2>2, <2>3
<1>2. ASSUME NEW e PROVE e \in Held(new, buf, {}, d) <=> e \in Held(row, buf, {}, s)
  <2>1. e \in Held(new, buf, {}, d) <=>
          \E i \in Idxs : d \in new[i].seqs /\ i \notin {} /\ e = Meaning(new[i], buf[i])
    BY HeldMembers
  <2>2. e \in Held(row, buf, {}, s) <=>
          \E i \in Idxs : s \in row[i].seqs /\ i \notin {} /\ e = Meaning(row[i], buf[i])
    BY HeldMembers
  <2> QED
    BY <1>1, <2>1, <2>2
<1> QED
  BY <1>2

(***************************************************************************)
(* The operations between calls.                                            *)
(***************************************************************************)

\* What a sequence holds in the cache.
LEMMA ContentHeld ==
  /\ SeqContent = [s \in Seqs |-> SeqContent[s]]
  /\ \A s \in Seqs :
       SeqContent[s] = Held(cells[SeqToStream(s)], Settled[SeqToStream(s)], Hidden(SeqToStream(s)), s)
BY DEF SeqContent, Held

\* Between calls nothing is hidden.
LEMMA IdleHides == phase = "idle" => \A st \in Streams : Hidden(st) = {}
BY DEF Hidden

\* The queued copies are copies between streams.
LEMMA QueueOK ==
  ASSUME IInv
  PROVE  copies \in Copies /\ scInfo \in Copies /\ copies \o scInfo \in Copies /\ Settled \in Bufs
<1>1. copies \in Copies /\ scInfo \in Copies
  BY DEF IInv, TypeOK, Copies
<1>2. copies \o scInfo \in Copies
  BY <1>1 DEF Copies
<1> QED
  BY <1>1, <1>2, BufsOK, CopiesMadeOK DEF Settled

\* An operation that touches the cells only.
LEMMA BetweenCalls ==
  ASSUME IInv, phase = "idle", UNCHANGED callVars, UNCHANGED <<scInfo, data>>
  PROVE  \E buf \in Bufs :
           /\ \A s \in Seqs :
                SeqContent[s] = Held(cells[SeqToStream(s)], buf[SeqToStream(s)], {}, s)
           /\ SeqContent' =
                [s \in Seqs |-> Held(cells'[SeqToStream(s)], buf[SeqToStream(s)], {}, s)]
<1>1. PICK buf \in Bufs : buf = Settled
  BY QueueOK
<1>2. Settled' = buf
  BY <1>1 DEF Settled, callVars
<1>3. phase' = "idle"
  BY DEF callVars
<1>4. \A st \in Streams : Hidden(st)' = {}
  BY <1>3 DEF Hidden
<1>5. \A s \in Seqs : SeqContent[s] = Held(cells[SeqToStream(s)], buf[SeqToStream(s)], {}, s)
  BY <1>1, ContentHeld, IdleHides, StreamOfSeq
<1>6. SeqContent' = [s \in Seqs |->
        Held(cells'[SeqToStream(s)], Settled'[SeqToStream(s)], Hidden(SeqToStream(s))', s)]
  BY DEF SeqContent, Held
<1>7. ASSUME NEW s \in Seqs
      PROVE  Held(cells'[SeqToStream(s)], Settled'[SeqToStream(s)], Hidden(SeqToStream(s))', s) =
             Held(cells'[SeqToStream(s)], buf[SeqToStream(s)], {}, s)
  BY <1>2, <1>4, StreamOfSeq
<1>8. SeqContent' = [s \in Seqs |-> Held(cells'[SeqToStream(s)], buf[SeqToStream(s)], {}, s)]
  BY <1>6, <1>7, Zenon
<1> QED
  BY <1>5, <1>8

\* The sequences of stream st, and no others, hold what `row` has for them.
OnlyStream(st, row, buf, new) ==
  /\ new = [q \in Seqs |-> new[q]]
  /\ \A q \in Seqs : SeqToStream(q) # st => new[q] = SeqContent[q]
  /\ \A q \in Seqs : SeqToStream(q) = st =>
       /\ SeqContent[q] = Held(cells[st], buf[st], {}, q)
       /\ new[q] = Held(row, buf[st], {}, q)

\* A client operation that changes one stream's cells.
LEMMA OneStream ==
  ASSUME IInv, phase = "idle", UNCHANGED callVars, UNCHANGED <<scInfo, data>>,
         NEW st \in Streams, NEW row, cells' = [cells EXCEPT ![st] = row]
  PROVE  \E buf, new : buf \in Bufs /\ SeqContent' = new /\ OnlyStream(st, row, buf, new)
<1>1. PICK buf \in Bufs :
           /\ \A q \in Seqs :
                SeqContent[q] = Held(cells[SeqToStream(q)], buf[SeqToStream(q)], {}, q)
           /\ SeqContent' =
                [q \in Seqs |-> Held(cells'[SeqToStream(q)], buf[SeqToStream(q)], {}, q)]
  BY BetweenCalls
<1>2. PICK new : new = [q \in Seqs |-> Held(cells'[SeqToStream(q)], buf[SeqToStream(q)], {}, q)]
  OBVIOUS
<1>3. SeqContent' = new
  BY <1>1, <1>2, Zenon
<1>4. new = [q \in Seqs |-> new[q]]
  BY <1>2
<1>5. cells \in [Streams -> [Idxs -> Cell]]
  BY DEF IInv, TypeOK
<1>6. ASSUME NEW q \in Seqs
      PROVE  /\ SeqToStream(q) # st => new[q] = SeqContent[q]
             /\ SeqToStream(q) = st => /\ SeqContent[q] = Held(cells[st], buf[st], {}, q)
                                       /\ new[q] = Held(row, buf[st], {}, q)
  <2>1. SeqToStream(q) \in Streams
    BY StreamOfSeq
  <2>2. cells'[SeqToStream(q)] = IF SeqToStream(q) = st THEN row ELSE cells[SeqToStream(q)]
    BY <1>5, <2>1
  <2>3. new[q] = Held(cells'[SeqToStream(q)], buf[SeqToStream(q)], {}, q)
    BY <1>2, Zenon
  <2>4. SeqContent[q] = Held(cells[SeqToStream(q)], buf[SeqToStream(q)], {}, q)
    BY <1>1
  <2> QED
    BY <2>2, <2>3, <2>4
<1> QED
  BY <1>3, <1>4, <1>6, Zenon DEF OnlyStream

\* seq_rm removes the tokens of the sequence in the range, and no others.
LEMMA SeqRmMeans ==
  ASSUME IInv, NEW s \in Seqs, NEW r, SeqRm(s, r[1], r[2])
  PROVE  Memory!Rm({s}, r)
<1>0. PICK st, row : st = SeqToStream(s) /\ row = RemovedRow(cells[st], {s}, r[1], r[2])
  OBVIOUS
<1>1. st \in Streams /\ RowOK(st, cells[st])
  BY <1>0, StreamOfSeq, TypeOKMemory DEF IInv, MemoryOK
<1>2. /\ phase = "idle" /\ UNCHANGED callVars /\ UNCHANGED <<scInfo, data>>
      /\ cells' = [cells EXCEPT ![st] = row]
  BY <1>0 DEF SeqRm, Client, SetRow, bufVars
<1>3. PICK buf, new : buf \in Bufs /\ SeqContent' = new /\ OnlyStream(st, row, buf, new)
  BY <1>1, <1>2, OneStream
<1>4. ASSUME NEW q \in Seqs, NEW e
      PROVE  e \in new[q] <=> e \in SeqContent[q] /\ ~(q \in {s} /\ PosIn(e.pos, r[1], r[2]))
  <2>1. CASE SeqToStream(q) = st
    <3>1. e \in Held(RemovedRow(cells[st], {s}, r[1], r[2]), buf[st], {}, q) <=>
            e \in Held(cells[st], buf[st], {}, q) /\ ~(q \in {s} /\ PosIn(e.pos, r[1], r[2]))
      BY <1>1, RemovedHeld
    <3> QED
      BY <1>0, <1>3, <2>1, <3>1, Zenon DEF OnlyStream
  <2>2. CASE SeqToStream(q) # st
    BY <1>0, <1>3, <2>2 DEF OnlyStream
  <2> QED
    BY <2>1, <2>2
<1>5. ASSUME NEW q \in Seqs
      PROVE  new[q] = IF q \in {s} THEN {e \in SeqContent[q] : ~PosIn(e.pos, r[1], r[2])}
                      ELSE SeqContent[q]
  BY <1>4
<1> QED
  BY <1>3, <1>5, Zenon DEF OnlyStream, Memory!Rm, Memory!In, Memory!PosIn, PosIn

\* A copy within a stream gives d what s has in the range.
LEMMA SeqCpSharedMeans ==
  ASSUME IInv, NEW s \in Seqs, NEW d \in Seqs, NEW r, SeqCpShared(s, d, r[1], r[2])
  PROVE  Memory!Cp(s, d, r)
<1>0. PICK st, row : st = SeqToStream(s) /\ row = SharedRow(cells[st], s, d, r[1], r[2])
  OBVIOUS
<1>1. st \in Streams /\ RowOK(st, cells[st]) /\ SeqToStream(d) = st
  BY <1>0, StreamOfSeq, TypeOKMemory DEF IInv, MemoryOK, SeqCpShared
<1>2. /\ phase = "idle" /\ UNCHANGED callVars /\ UNCHANGED <<scInfo, data>>
      /\ cells' = [cells EXCEPT ![st] = row]
  BY <1>0 DEF SeqCpShared, Client, bufVars
<1>3. PICK buf, new : buf \in Bufs /\ SeqContent' = new /\ OnlyStream(st, row, buf, new)
  BY <1>1, <1>2, OneStream
<1>4. ASSUME NEW q \in Seqs, NEW e
      PROVE  e \in new[q] <=> \/ e \in SeqContent[q]
                              \/ q = d /\ e \in SeqContent[s] /\ PosIn(e.pos, r[1], r[2])
  <2>1. CASE SeqToStream(q) = st
    <3>1. e \in Held(SharedRow(cells[st], s, d, r[1], r[2]), buf[st], {}, q) <=>
            \/ e \in Held(cells[st], buf[st], {}, q)
            \/ q = d /\ e \in Held(cells[st], buf[st], {}, s) /\ PosIn(e.pos, r[1], r[2])
      BY <1>1, SharedHeld
    <3> QED
      BY <1>0, <1>3, <2>1, <3>1, Zenon DEF OnlyStream
  <2>2. CASE SeqToStream(q) # st
    BY <1>1, <1>3, <2>2 DEF OnlyStream
  <2> QED
    BY <2>1, <2>2
<1>5. ASSUME NEW q \in Seqs
      PROVE  new[q] = IF q = d THEN SeqContent[d] \cup {e \in SeqContent[s] : PosIn(e.pos, r[1], r[2])}
                      ELSE SeqContent[q]
  BY <1>4
<1>6. new = [SeqContent EXCEPT ![d] =
               SeqContent[d] \cup {e \in SeqContent[s] : PosIn(e.pos, r[1], r[2])}]
  <2>1. SeqContent = [q \in Seqs |-> SeqContent[q]]
    BY ContentHeld
  <2> QED
    BY <1>3, <1>5, <2>1 DEF OnlyStream
<1> QED
  BY <1>3, <1>6, Zenon DEF Memory!Cp, Memory!In, Memory!PosIn, PosIn

\* Of a unified cache seq_keep leaves one sequence.
LEMMA SeqKeepMeans ==
  ASSUME IInv, Unified, NEW s \in Seqs, SeqKeep(s)
  PROVE  Memory!Keep(s)
<1>0. PICK st, row : st = SeqToStream(s) /\ row = [i \in Idxs |-> KeepOnly(cells[st][i], s)]
  OBVIOUS
<1>1. st \in Streams /\ RowOK(st, cells[st])
  BY <1>0, StreamOfSeq, TypeOKMemory DEF IInv, MemoryOK
<1>2. /\ phase = "idle" /\ UNCHANGED callVars /\ UNCHANGED <<scInfo, data>>
      /\ cells' = [cells EXCEPT ![st] = row]
  BY <1>0 DEF SeqKeep, Client, KeptCells, bufVars
<1>3. PICK buf, new : buf \in Bufs /\ SeqContent' = new /\ OnlyStream(st, row, buf, new)
  BY <1>1, <1>2, OneStream
<1>4. ASSUME NEW q \in Seqs, NEW e
      PROVE  e \in new[q] <=> q = s /\ e \in SeqContent[s]
  <2>1. SeqToStream(q) = st
    BY <1>0 DEF SeqToStream
  <2>2. e \in Held([i \in Idxs |-> KeepOnly(cells[st][i], s)], buf[st], {}, q) <=>
          q = s /\ e \in Held(cells[st], buf[st], {}, s)
    BY <1>1, KeptHeld
  <2> QED
    BY <1>0, <1>3, <2>1, <2>2, Zenon DEF OnlyStream
<1>5. ASSUME NEW q \in Seqs
      PROVE  new[q] = IF q = s THEN SeqContent[s] ELSE {}
  BY <1>4
<1> QED
  BY <1>3, <1>5, Zenon DEF OnlyStream, Memory!Keep

\* The cells seq_add and seq_div touch are the sequence's own.
LEMMA TouchedAreOwn ==
  ASSUME ~SharedShift, NEW s \in Seqs, NEW p0, NEW p1, NEW d, MayMove(s, p0, p1, d)
  PROVE  OwnCells(cells[SeqToStream(s)], Touched(s, p0, p1), s, p0, p1)
BY DEF OwnCells, Touched, MayMove

\* seq_add moves the tokens of the sequence in the range, and no others.
LEMMA SeqAddMeans ==
  ASSUME IInv, ~SharedShift, NEW s \in Seqs, NEW r, NEW d \in Int, SeqAdd(s, r[1], r[2], d)
  PROVE  Memory!Add(s, r, d)
<1>0. PICK st, T, row :
        /\ st = SeqToStream(s) /\ T = Touched(s, r[1], r[2])
        /\ row = [i \in Idxs |-> IF i \in T THEN ShiftPos(cells[st][i], d) ELSE cells[st][i]]
  OBVIOUS
<1>1. st \in Streams /\ RowOK(st, cells[st])
  BY <1>0, StreamOfSeq, TypeOKMemory DEF IInv, MemoryOK
<1>2. /\ phase = "idle" /\ UNCHANGED callVars /\ UNCHANGED <<scInfo, data>>
      /\ cells' = [cells EXCEPT ![st] = row]
  BY <1>0, Zenon DEF SeqAdd, Client, SetRow, bufVars
<1>3. PICK buf, new : buf \in Bufs /\ SeqContent' = new /\ OnlyStream(st, row, buf, new)
  BY <1>1, <1>2, OneStream
<1>4. OwnCells(cells[st], T, s, r[1], r[2]) /\ buf[st] \in [Idxs -> Content]
  <2>1. MayMove(s, r[1], r[2], d)
    BY DEF SeqAdd
  <2> QED
    BY <1>0, <1>1, <1>3, <2>1, TouchedAreOwn DEF Bufs
<1>5. ASSUME NEW q \in Seqs, NEW e
      PROVE  e \in new[q] <=>
               \/ e \in SeqContent[q] /\ ~(q = s /\ PosIn(e.pos, r[1], r[2]))
               \/ /\ q = s
                  /\ \E f \in SeqContent[s] :
                       /\ PosIn(f.pos, r[1], r[2]) /\ f.pos + d >= 0
                       /\ e = [pos |-> f.pos + d, tok |-> f.tok]
  <2>1. CASE SeqToStream(q) = st
    <3>1. e \in Held([i \in Idxs |-> IF i \in T THEN ShiftPos(cells[st][i], d) ELSE cells[st][i]],
                     buf[st], {}, q) <=>
            \/ e \in Held(cells[st], buf[st], {}, q) /\ ~(q = s /\ PosIn(e.pos, r[1], r[2]))
            \/ /\ q = s
               /\ \E f \in Held(cells[st], buf[st], {}, s) :
                    /\ PosIn(f.pos, r[1], r[2]) /\ f.pos + d >= 0
                    /\ e = [pos |-> f.pos + d, tok |-> f.tok]
      BY <1>1, <1>4, AddedHeld
    <3> QED
      BY <1>0, <1>3, <2>1, <3>1, Zenon DEF OnlyStream
  <2>2. CASE SeqToStream(q) # st
    BY <1>0, <1>3, <2>2 DEF OnlyStream
  <2> QED
    BY <2>1, <2>2
<1>6. ASSUME NEW q \in Seqs
      PROVE  new[q] = IF q = s
               THEN {e \in SeqContent[s] : ~PosIn(e.pos, r[1], r[2])} \cup
                    {[pos |-> e.pos + d, tok |-> e.tok] :
                       e \in {f \in SeqContent[s] : PosIn(f.pos, r[1], r[2]) /\ f.pos + d >= 0}}
               ELSE SeqContent[q]
  BY <1>5
<1>7. new = [SeqContent EXCEPT ![s] =
               {e \in SeqContent[s] : ~PosIn(e.pos, r[1], r[2])} \cup
               {[pos |-> e.pos + d, tok |-> e.tok] :
                  e \in {f \in SeqContent[s] : PosIn(f.pos, r[1], r[2]) /\ f.pos + d >= 0}}]
  <2>1. SeqContent = [q \in Seqs |-> SeqContent[q]]
    BY ContentHeld
  <2> QED
    BY <1>3, <1>6, <2>1 DEF OnlyStream
<1> QED
  BY <1>3, <1>7, Zenon DEF Memory!Add, Memory!Entry, Memory!In, Memory!PosIn, PosIn

\* seq_div divides the positions of the sequence in the range, and no others.
LEMMA SeqDivMeans ==
  ASSUME IInv, ~SharedShift, NEW s \in Seqs, NEW r, NEW d \in Nat \ {0}, SeqDiv(s, r[1], r[2], d)
  PROVE  Memory!Div(s, r, d)
<1>0. PICK st, T, row :
        /\ st = SeqToStream(s) /\ T = Touched(s, r[1], r[2])
        /\ row = [i \in Idxs |-> IF i \in T THEN DivPos(cells[st][i], d) ELSE cells[st][i]]
  OBVIOUS
<1>1. st \in Streams /\ RowOK(st, cells[st])
  BY <1>0, StreamOfSeq, TypeOKMemory DEF IInv, MemoryOK
<1>2. /\ phase = "idle" /\ UNCHANGED callVars /\ UNCHANGED <<scInfo, data>>
      /\ cells' = [cells EXCEPT ![st] = row]
  BY <1>0, Zenon DEF SeqDiv, Client, bufVars
<1>3. PICK buf, new : buf \in Bufs /\ SeqContent' = new /\ OnlyStream(st, row, buf, new)
  BY <1>1, <1>2, OneStream
<1>4. OwnCells(cells[st], T, s, r[1], r[2]) /\ buf[st] \in [Idxs -> Content]
  <2>1. MayMove(s, r[1], r[2], 0)
    BY DEF SeqDiv
  <2> QED
    BY <1>0, <1>1, <1>3, <2>1, TouchedAreOwn DEF Bufs
<1>5. ASSUME NEW q \in Seqs, NEW e
      PROVE  e \in new[q] <=>
               \/ e \in SeqContent[q] /\ ~(q = s /\ PosIn(e.pos, r[1], r[2]))
               \/ /\ q = s
                  /\ \E f \in SeqContent[s] :
                       PosIn(f.pos, r[1], r[2]) /\ e = [pos |-> f.pos \div d, tok |-> f.tok]
  <2>1. CASE SeqToStream(q) = st
    <3>1. e \in Held([i \in Idxs |-> IF i \in T THEN DivPos(cells[st][i], d) ELSE cells[st][i]],
                     buf[st], {}, q) <=>
            \/ e \in Held(cells[st], buf[st], {}, q) /\ ~(q = s /\ PosIn(e.pos, r[1], r[2]))
            \/ /\ q = s
               /\ \E f \in Held(cells[st], buf[st], {}, s) :
                    PosIn(f.pos, r[1], r[2]) /\ e = [pos |-> f.pos \div d, tok |-> f.tok]
      BY <1>1, <1>4, DividedHeld
    <3> QED
      BY <1>0, <1>3, <2>1, <3>1, Zenon DEF OnlyStream
  <2>2. CASE SeqToStream(q) # st
    BY <1>0, <1>3, <2>2 DEF OnlyStream
  <2> QED
    BY <2>1, <2>2
<1>6. ASSUME NEW q \in Seqs
      PROVE  new[q] = IF q = s
               THEN {e \in SeqContent[s] : ~PosIn(e.pos, r[1], r[2])} \cup
                    {[pos |-> e.pos \div d, tok |-> e.tok] :
                       e \in {f \in SeqContent[s] : PosIn(f.pos, r[1], r[2])}}
               ELSE SeqContent[q]
  BY <1>5
<1>7. new = [SeqContent EXCEPT ![s] =
               {e \in SeqContent[s] : ~PosIn(e.pos, r[1], r[2])} \cup
               {[pos |-> e.pos \div d, tok |-> e.tok] :
                  e \in {f \in SeqContent[s] : PosIn(f.pos, r[1], r[2])}}]
  <2>1. SeqContent = [q \in Seqs |-> SeqContent[q]]
    BY ContentHeld
  <2> QED
    BY <1>3, <1>6, <2>1 DEF OnlyStream
<1> QED
  BY <1>3, <1>7, Zenon DEF Memory!Div, Memory!Entry, Memory!In, Memory!PosIn, PosIn

\* Without a sequence, seq_rm removes the range from all of them.
LEMMA SeqRmAnyMeans ==
  ASSUME IInv, NEW r, SeqRmAny(r[1], r[2])
  PROVE  Memory!Rm(Seqs, r)
<1>1. PICK rows : rows = [st \in Streams |-> RemovedRow(cells[st], Seqs, r[1], r[2])]
  OBVIOUS
<1>2. /\ phase = "idle" /\ UNCHANGED callVars /\ UNCHANGED <<scInfo, data>>
      /\ cells' = rows
  BY <1>1 DEF SeqRmAny, Client, bufVars
<1>3. PICK buf \in Bufs :
           /\ \A q \in Seqs :
                SeqContent[q] = Held(cells[SeqToStream(q)], buf[SeqToStream(q)], {}, q)
           /\ SeqContent' =
                [q \in Seqs |-> Held(cells'[SeqToStream(q)], buf[SeqToStream(q)], {}, q)]
  BY <1>2, BetweenCalls
<1>4. PICK new : new = [q \in Seqs |-> Held(rows[SeqToStream(q)], buf[SeqToStream(q)], {}, q)]
  OBVIOUS
<1>5. SeqContent' = new
  BY <1>2, <1>3, <1>4, Zenon
<1>6. ASSUME NEW q \in Seqs, NEW e
      PROVE  e \in new[q] <=> e \in SeqContent[q] /\ ~PosIn(e.pos, r[1], r[2])
  <2>1. PICK st \in Streams : st = SeqToStream(q)
    BY StreamOfSeq
  <2>2. RowOK(st, cells[st])
    BY TypeOKMemory DEF IInv, MemoryOK
  <2>3. e \in Held(RemovedRow(cells[st], Seqs, r[1], r[2]), buf[st], {}, q) <=>
          e \in Held(cells[st], buf[st], {}, q) /\ ~(q \in Seqs /\ PosIn(e.pos, r[1], r[2]))
    BY <2>2, RemovedHeld
  <2>4. rows[st] = RemovedRow(cells[st], Seqs, r[1], r[2])
    BY <1>1
  <2>5. new[q] = Held(rows[st], buf[st], {}, q) /\ SeqContent[q] = Held(cells[st], buf[st], {}, q)
    BY <1>3, <1>4, <2>1, Zenon
  <2> QED
    BY <2>3, <2>4, <2>5, Zenon
<1>7. ASSUME NEW q \in Seqs
      PROVE  new[q] = {e \in SeqContent[q] : ~PosIn(e.pos, r[1], r[2])}
  BY <1>6
<1>8. new = [q \in Seqs |-> IF q \in Seqs THEN {e \in SeqContent[q] : ~PosIn(e.pos, r[1], r[2])}
                            ELSE SeqContent[q]]
  BY <1>4, <1>7
<1> QED
  BY <1>5, <1>8, Zenon DEF Memory!Rm, Memory!In, Memory!PosIn, PosIn

\* clear leaves no sequence anything.
LEMMA ClearMeans ==
  ASSUME IInv, NEW wipe \in BOOLEAN, Clear(wipe)
  PROVE  Memory!Clear
<1>1. SeqContent' = [q \in Seqs |->
        Held(cells'[SeqToStream(q)], Settled'[SeqToStream(q)], Hidden(SeqToStream(q))', q)]
  BY DEF SeqContent, Held
<1>2. cells' = NoCells
  BY DEF Clear
<1>3. ASSUME NEW q \in Seqs, NEW buf, NEW hidden
      PROVE  Held(NoCells[SeqToStream(q)], buf, hidden, q) = {}
  <2>1. SeqToStream(q) \in Streams
    BY StreamOfSeq
  <2>2. \A i \in Idxs : NoCells[SeqToStream(q)][i].seqs = {}
    BY <2>1 DEF NoCells, EmptyCell
  <2>3. \A e : e \notin Held(NoCells[SeqToStream(q)], buf, hidden, q)
    BY <2>2, HeldMembers
  <2> QED
    BY <2>3
<1>4. SeqContent' = [q \in Seqs |->
        Held(NoCells[SeqToStream(q)], Settled'[SeqToStream(q)], Hidden(SeqToStream(q))', q)]
  BY <1>1, <1>2, Zenon
<1>5. SeqContent' = [q \in Seqs |-> {}]
  BY <1>3, <1>4, Zenon
<1> QED
  BY <1>5 DEF Memory!Clear

\* The ranges a copy between streams is asked for hold every position.
FullRanges == \A r \in Ranges : IsFullRange(r[1], r[2]) => r[1] <= 0 /\ (r[2] < 0 \/ r[2] >= MaxPos)

\* An entry of a sequence has a position.
LEMMA EntryPos ==
  ASSUME NEW st \in Streams, NEW row, RowOK(st, row), NEW buf, NEW hidden, NEW s,
         NEW e \in Held(row, buf, hidden, s)
  PROVE  e.pos \in 0 .. MaxPos - 1
<1>1. PICK i \in Idxs : s \in row[i].seqs /\ e = Meaning(row[i], buf[i])
  BY HeldMembers
<1>2. CellOK(st, row[i]) /\ ~IsEmpty(row[i])
  BY <1>1 DEF RowOK, CellOK
<1>3. row[i].pos \in 0 .. MaxPos - 1
  BY <1>2, OccupiedParts
<1> QED
  BY <1>1, <1>3, MeaningPos

\* A full range leaves nothing out.
LEMMA FullRangeHoldsAll ==
  ASSUME NEW p \in 0 .. MaxPos - 1, NEW p0 \in Int, NEW p1 \in Int, p0 <= 0, p1 < 0 \/ p1 >= MaxPos
  PROVE  PosIn(p, p0, p1)
BY ConstAssumption DEF PosIn

\* A copy between streams replaces what d has by what s has.
LEMMA SeqCpStreamMeans ==
  ASSUME IInv, QueueInv, FullRanges, NEW s \in Seqs, NEW d \in Seqs, NEW r \in Ranges,
         SeqCpStream(s, d, r[1], r[2])
  PROVE  Memory!Cp(s, d, r)
<1>0. PICK src, dst, row, c :
        /\ src = SeqToStream(s) /\ dst = SeqToStream(d) /\ c = <<src, dst>>
        /\ row = [i \in Idxs |-> IF s \in cells[src][i].seqs THEN [cells[src][i] EXCEPT !.seqs = {d}]
                                 ELSE EmptyCell]
  OBVIOUS
<1>1. src \in Streams /\ dst \in Streams /\ src # dst /\ RowOK(src, cells[src])
  BY <1>0, StreamOfSeq, TypeOKMemory DEF IInv, MemoryOK, SeqCpStream
<1>2. \A q \in Seqs : SeqToStream(q) = q
  BY <1>0, <1>1 DEF SeqToStream
<1>3. /\ phase = "idle" /\ UNCHANGED callVars /\ UNCHANGED data /\ scInfo' = Append(scInfo, c)
      /\ cells' = [cells EXCEPT ![dst] = row] /\ IsFullRange(r[1], r[2])
  BY <1>0, Zenon DEF SeqCpStream, Client, SetRow, bufVars
<1>4. copies = <<>> /\ copies' = <<>> /\ phase' = "idle"
  BY <1>3 DEF QueueInv, callVars
<1>5. PICK buf \in Bufs : buf = Settled
  BY QueueOK
<1>6. scInfo \in Copies /\ c \in Streams \X Streams /\ data \in Bufs
  BY <1>0, <1>1, QueueOK, BufsOK
<1>7. buf = CopiesMade(data, scInfo) /\ Settled' = CopiesMade(data, Append(scInfo, c))
  <2>1. copies \o scInfo = scInfo /\ copies' \o scInfo' = Append(scInfo, c)
    BY <1>3, <1>4, <1>6 DEF Copies
  <2> QED
    BY <1>3, <1>5, <2>1, Zenon DEF Settled
<1>8. PICK after : after = [buf EXCEPT ![dst] = buf[src]]
  OBVIOUS
<1>9. Settled' = after
  <2>1. CopiesMade(data, Append(scInfo, c)) =
          [CopiesMade(data, scInfo) EXCEPT ![c[2]] = CopiesMade(data, scInfo)[c[1]]]
    BY <1>6, LastCopyMade
  <2>2. c[1] = src /\ c[2] = dst
    BY <1>0
  <2> QED
    BY <1>7, <1>8, <2>1, <2>2, Zenon
<1>10. PICK new : new = [q \in Seqs |-> Held(cells'[SeqToStream(q)], after[SeqToStream(q)], {}, q)]
  OBVIOUS
<1>11. SeqContent' = new
  <2>1. SeqContent' = [q \in Seqs |->
        Held(cells'[SeqToStream(q)], Settled'[SeqToStream(q)], Hidden(SeqToStream(q))', q)]
    BY DEF SeqContent, Held
  <2>2. \A st \in Streams : Hidden(st)' = {}
    BY <1>4 DEF Hidden
  <2>3. SeqContent' = [q \in Seqs |->
        Held(cells'[SeqToStream(q)], after[SeqToStream(q)], Hidden(SeqToStream(q))', q)]
    BY <1>9, <2>1, Zenon
  <2>4. \A q \in Seqs : Hidden(SeqToStream(q))' = {}
    BY <2>2, StreamOfSeq, Zenon
  <2> QED
    BY <1>10, <2>3, <2>4, Zenon
<1>12. ASSUME NEW q \in Seqs PROVE SeqContent[q] = Held(cells[q], buf[q], {}, q)
  <2>1. SeqContent[q] = Held(cells[SeqToStream(q)], Settled[SeqToStream(q)], Hidden(SeqToStream(q)), q)
    BY ContentHeld
  <2>2. SeqToStream(q) = q /\ q \in Streams
    BY <1>2, StreamOfSeq
  <2>3. Hidden(q) = {}
    BY <1>3, <2>2, IdleHides
  <2> QED
    BY <1>5, <2>1, <2>2, <2>3, Zenon
<1>13. ASSUME NEW q \in Seqs PROVE new[q] = IF q = d THEN SeqContent[s] ELSE SeqContent[q]
  <2>1. new[q] = Held(cells'[q], after[q], {}, q) /\ q \in Streams
    BY <1>2, <1>10, StreamOfSeq
  <2>2. cells \in [Streams -> [Idxs -> Cell]] /\ buf \in Bufs
    BY DEF IInv, TypeOK
  <2>3. CASE q = d
    <3>1. q = dst /\ s = src
      BY <1>0, <1>2, <2>3
    <3>2. cells'[q] = row /\ after[q] = buf[src]
      BY <1>1, <1>3, <1>8, <2>2, <3>1 DEF Bufs
    <3>3. Held(row, buf[src], {}, d) = Held(cells[src], buf[src], {}, s)
      <4>1. \A i \in Idxs : row[i] = IF s \in cells[src][i].seqs THEN [cells[src][i] EXCEPT !.seqs = {d}]
                                      ELSE EmptyCell
        BY <1>0
      <4> QED
        BY <1>1, <4>1, CopiedHeld
    <3>4. SeqContent[s] = Held(cells[src], buf[src], {}, s)
      BY <1>12, <3>1
    <3> QED
      BY <1>0, <2>1, <2>3, <3>2, <3>3, <3>4, Zenon
  <2>4. CASE q # d
    <3>1. q # dst
      BY <1>0, <1>2, <2>4
    <3>2. cells'[q] = cells[q] /\ after[q] = buf[q]
      BY <1>1, <1>3, <1>8, <2>1, <2>2, <3>1 DEF Bufs
    <3> QED
      BY <1>12, <2>1, <2>4, <3>2, Zenon
  <2> QED
    BY <2>3, <2>4
<1>14. {e \in SeqContent[s] : PosIn(e.pos, r[1], r[2])} = SeqContent[s]
  <2>1. ASSUME NEW e \in SeqContent[s] PROVE PosIn(e.pos, r[1], r[2])
    <3>1. e \in Held(cells[src], buf[src], {}, s)
      BY <1>0, <1>2, <1>12
    <3>2. e.pos \in 0 .. MaxPos - 1
      BY <1>1, <3>1, EntryPos
    <3>3. r[1] \in Int /\ r[2] \in Int /\ r[1] <= 0 /\ (r[2] < 0 \/ r[2] >= MaxPos)
      BY <1>3, ConstAssumption DEF FullRanges
    <3> QED
      BY <3>2, <3>3, FullRangeHoldsAll
  <2> QED
    BY <2>1
<1>15. new = [SeqContent EXCEPT ![d] = {} \cup {e \in SeqContent[s] : PosIn(e.pos, r[1], r[2])}]
  <2>1. SeqContent = [q \in Seqs |-> SeqContent[q]]
    BY ContentHeld
  <2>2. new = [q \in Seqs |-> new[q]]
    BY <1>10
  <2>3. new = [SeqContent EXCEPT ![d] = SeqContent[s]]
    BY <1>13, <2>1, <2>2
  <2>4. SeqContent[s] = {} \cup SeqContent[s]
    OBVIOUS
  <2> QED
    BY <1>14, <2>3, <2>4, Zenon
<1> QED
  BY <1>11, <1>15, Zenon DEF Memory!Cp, Memory!In, Memory!PosIn, PosIn

(***************************************************************************)
(* Steps of a decode call that the client does not notice.                  *)
(***************************************************************************)

\* A cell that stands for nothing, before and after, or that stands for the same.
Unnoticed(st, i) ==
  \/ /\ cells[st][i].seqs = {} \/ i \in Hidden(st)
     /\ cells[st][i].seqs' = {} \/ i \in Hidden(st)'
  \/ /\ i \notin Hidden(st) /\ i \notin Hidden(st)'
     /\ cells[st][i].seqs' = cells[st][i].seqs
     /\ Meaning(cells[st][i]', Settled[st][i]') = Meaning(cells[st][i], Settled[st][i])

\* When that holds of every cell, no sequence's content changes.
LEMMA NothingNoticed ==
  ASSUME \A st \in Streams : \A i \in Idxs : Unnoticed(st, i)
  PROVE  SeqContent' = SeqContent
<1>1. SeqContent' = [s \in Seqs |->
        Held(cells'[SeqToStream(s)], Settled'[SeqToStream(s)], Hidden(SeqToStream(s))', s)]
  BY DEF SeqContent, Held
<1>2. SeqContent = [s \in Seqs |->
        Held(cells[SeqToStream(s)], Settled[SeqToStream(s)], Hidden(SeqToStream(s)), s)]
  BY DEF SeqContent, Held
<1>3. ASSUME NEW s \in Seqs
      PROVE  Held(cells'[SeqToStream(s)], Settled'[SeqToStream(s)], Hidden(SeqToStream(s))', s) =
             Held(cells[SeqToStream(s)], Settled[SeqToStream(s)], Hidden(SeqToStream(s)), s)
  <2>1. PICK st \in Streams : st = SeqToStream(s)
    BY StreamOfSeq
  <2>2. PICK row, buf, hidden, new, newBuf, newHidden :
          /\ row = cells[st] /\ buf = Settled[st] /\ hidden = Hidden(st)
          /\ new = cells'[st] /\ newBuf = Settled'[st] /\ newHidden = Hidden(st)'
    OBVIOUS
  <2>3. ASSUME NEW i \in Idxs
        PROVE  /\ (s \in new[i].seqs /\ i \notin newHidden) <=> (s \in row[i].seqs /\ i \notin hidden)
               /\ s \in row[i].seqs /\ i \notin hidden =>
                    Meaning(new[i], newBuf[i]) = Meaning(row[i], buf[i])
    <3>1. Unnoticed(st, i)
      OBVIOUS
    <3>2. \/ /\ row[i].seqs = {} \/ i \in hidden
             /\ new[i].seqs = {} \/ i \in newHidden
          \/ /\ i \notin hidden /\ i \notin newHidden
             /\ new[i].seqs = row[i].seqs
             /\ Meaning(new[i], newBuf[i]) = Meaning(row[i], buf[i])
      BY <2>2, <3>1, Zenon DEF Unnoticed
    <3> QED
      BY <3>2
  <2>4. Held(new, newBuf, newHidden, s) = Held(row, buf, hidden, s)
    BY <2>3, HeldSame
  <2> QED
    BY <2>1, <2>2, <2>4, Zenon
<1> QED
  BY <1>1, <1>2, <1>3, Zenon

\* Nothing happened to the cells, the buffers or what is hidden.
LEMMA AllSame ==
  ASSUME UNCHANGED cells, Settled' = Settled, \A st \in Streams : Hidden(st)' = Hidden(st)
  PROVE  SeqContent' = SeqContent
<1>1. ASSUME NEW st \in Streams, NEW i \in Idxs PROVE Unnoticed(st, i)
  BY DEF Unnoticed
<1> QED
  BY <1>1, NothingNoticed

\* Between the update and the end of the call the buffers are settled.
LEMMA SettledIsData ==
  ASSUME IInv, QueueInv, phase \notin {"idle", "update"}
  PROVE  Settled = data
<1>1. copies \o scInfo = <<>>
  BY DEF QueueInv
<1> QED
  BY <1>1, BufsOK, NoCopiesMade DEF Settled

\* The same of the next state.
LEMMA SettledIsDataNext ==
  ASSUME IInv', QueueInv', phase' \notin {"idle", "update"}
  PROVE  Settled' = data'
<1>1. copies' \o scInfo' = <<>>
  BY DEF QueueInv
<1>2. data' \in Bufs
  BY DEF IInv, TypeOK, Bufs
<1> QED
  BY <1>1, <1>2, NoCopiesMade DEF Settled

\* Which phases hide nothing.
LEMMA NothingHidden ==
  /\ phase \in {"idle", "update", "apply"} => \A st \in Streams : Hidden(st) = {}
  /\ phase' \in {"idle", "update", "apply"} => \A st \in Streams : Hidden(st)' = {}
BY DEF Hidden

\* The start of a call: the queue becomes the call's.
LEMMA DecodeBeginUnnoticed ==
  ASSUME IInv, QueueInv, NEW b \in Batches, NEW tok \in Toks, DecodeBegin(b, tok)
  PROVE  SeqContent' = SeqContent
<1>1. /\ phase = "idle" /\ phase' = "update" /\ copies' = scInfo /\ scInfo' = <<>>
      /\ UNCHANGED <<cells, data>> /\ copies = <<>>
  BY DEF DecodeBegin, memVars, bufVars, QueueInv
<1>2. copies \o scInfo = scInfo /\ copies' \o scInfo' = scInfo
  BY <1>1, QueueOK DEF Copies
<1>3. Settled' = Settled
  BY <1>1, <1>2 DEF Settled
<1> QED
  BY <1>1, <1>3, NothingHidden, AllSame

\* A copy was due and is made.
LEMMA UpdateCopyUnnoticed ==
  ASSUME IInv, QueueInv, UpdateCopy
  PROVE  SeqContent' = SeqContent
<1>1. /\ phase = "update" /\ phase' = "update" /\ scInfo = <<>> /\ scInfo' = <<>>
      /\ copies # <<>> /\ copies' = Tail(copies) /\ UNCHANGED cells
      /\ data' = [data EXCEPT ![Head(copies)[2]] = data[Head(copies)[1]]]
  BY DEF UpdateCopy, memVars, QueueInv
<1>2. copies \o scInfo = copies /\ copies' \o scInfo' = Tail(copies)
  BY <1>1, QueueOK DEF Copies
<1>3. data \in Bufs /\ copies \in Copies
  BY BufsOK, QueueOK
<1>4. CopiesMade(data, copies) =
        CopiesMade([data EXCEPT ![Head(copies)[2]] = data[Head(copies)[1]]], Tail(copies))
  BY <1>1, <1>3, FirstCopyMade
<1>5. Settled' = Settled
  BY <1>1, <1>2, <1>4, Zenon DEF Settled
<1> QED
  BY <1>1, <1>5, NothingHidden, AllSame

\* With nothing planned yet, prepare() hides nothing.
LEMMA NothingPlannedHidden ==
  ASSUME phase' \in {"prepare", "restore"}, plan' = <<>>
  PROVE  \A st \in Streams : Hidden(st)' = {}
<1>1. 1 .. Len(plan') = {}
  OBVIOUS
<1> QED
  BY <1>1 DEF Hidden

\* A cell whose K follows its pending shift.
LEMMA ShiftedMeans ==
  ASSUME NEW c \in Cell, NEW x \in Content
  PROVE  Meaning([c EXCEPT !.shift = 0], [x EXCEPT !.rot = x.rot + c.shift]) = Meaning(c, x)
<1>1. PICK new, y : new = [c EXCEPT !.shift = 0] /\ y = [x EXCEPT !.rot = x.rot + c.shift]
  OBVIOUS
<1>2. /\ new.pos = c.pos /\ new.shift = 0 /\ y.tok = x.tok /\ y.rot = x.rot + c.shift
      /\ x.rot \in Int /\ c.shift \in Int
  BY <1>1 DEF Cell, Content
<1>3. y.rot + new.shift = x.rot + c.shift
  <2>1. PICK a \in Int, d \in Int : a = x.rot /\ d = c.shift
    BY <1>2, Zenon
  <2>2. y.rot = a + d /\ new.shift = 0
    BY <1>2, <2>1, Zenon
  <2>3. (a + d) + 0 = a + d
    OBVIOUS
  <2> QED
    BY <2>1, <2>2, <2>3, Zenon
<1> QED
  BY <1>1, <1>2, <1>3, Zenon DEF Meaning

\* The shift was due and is applied, or there is none.
LEMMA UpdateEndsUnnoticed ==
  ASSUME IInv, IInv', QueueInv, QueueInv', UpdateShift \/ UpdateNothing
  PROVE  SeqContent' = SeqContent
<1>1. /\ phase = "update" /\ phase' = "prepare" /\ copies = <<>> /\ scInfo = <<>> /\ plan' = <<>>
  BY DEF UpdateShift, UpdateNothing, QueueInv, IInv, CallOK
<1>2. \A st \in Streams : Hidden(st) = {} /\ Hidden(st)' = {}
  BY <1>1, NothingHidden, NothingPlannedHidden
<1>3. Settled = data /\ Settled' = data'
  <2>1. copies \o scInfo = <<>>
    BY <1>1
  <2>2. Settled = data
    BY <2>1, BufsOK, NoCopiesMade DEF Settled
  <2> QED
    BY <1>1, <2>2, SettledIsDataNext
<1>4. CASE UpdateShift
  <2>1. ASSUME NEW st \in Streams, NEW i \in Idxs PROVE Unnoticed(st, i)
    <3>1. cells[st][i] \in Cell /\ data[st][i] \in Content
      BY BufsOK
    <3>2. /\ cells'[st][i] = [cells[st][i] EXCEPT !.shift = 0]
          /\ data'[st][i] = [data[st][i] EXCEPT !.rot = data[st][i].rot + cells[st][i].shift]
      BY <1>4 DEF UpdateShift, Turned
    <3>3. Meaning(cells'[st][i], data'[st][i]) = Meaning(cells[st][i], data[st][i])
      BY <3>1, <3>2, ShiftedMeans, Zenon
    <3>4. cells'[st][i].seqs = cells[st][i].seqs
      BY <3>1, <3>2 DEF Cell
    <3> QED
      BY <1>2, <1>3, <3>3, <3>4, Zenon DEF Unnoticed
  <2> QED
    BY <2>1, NothingNoticed
<1>5. CASE UpdateNothing
  <2>1. UNCHANGED <<cells, data>>
    BY <1>5 DEF UpdateNothing, memVars, bufVars
  <2> QED
    BY <1>2, <1>3, <2>1, AllSame
<1> QED
  BY <1>4, <1>5

\* Every sequence has the positions it had.
SamePositions == \A s \in Seqs : {e.pos : e \in SeqContent'[s]} = {e.pos : e \in SeqContent[s]}

\* A K-shift that failed spoils what stands at the positions, if anything.
LEMMA ShiftFailsSpoils ==
  ASSUME IInv, UpdateShiftFails
  PROVE  SamePositions /\ Memory!Spoil
<1>1. /\ phase = "update" /\ phase' = "prepare" /\ plan' = <<>> /\ cells' = cells
  BY DEF UpdateShiftFails, IInv, CallOK, memVars
<1>2. \A st \in Streams : Hidden(st) = {} /\ Hidden(st)' = {}
  BY <1>1, NothingHidden, NothingPlannedHidden
<1>3. ASSUME NEW s \in Seqs
      PROVE  {e.pos : e \in SeqContent'[s]} = {e.pos : e \in SeqContent[s]}
  <2>1. PICK st \in Streams : st = SeqToStream(s)
    BY StreamOfSeq
  <2>2. SeqContent[s] = Held(cells[st], Settled[st], {}, s)
    BY <1>2, <2>1, ContentHeld
  <2>3. SeqContent'[s] = Held(cells[st], Settled'[st], {}, s)
    BY <1>1, <1>2, <2>1 DEF SeqContent, Held
  <2> DEFINE places == {cells[st][i].pos : i \in {k \in Idxs : s \in cells[st][k].seqs /\ k \notin {}}}
  <2>4. ASSUME NEW buf PROVE {e.pos : e \in Held(cells[st], buf, {}, s)} = places
    <3>1. ASSUME NEW p
          PROVE  p \in {e.pos : e \in Held(cells[st], buf, {}, s)} <=> p \in places
      <4>1. p \in {e.pos : e \in Held(cells[st], buf, {}, s)} <=>
              \E e \in Held(cells[st], buf, {}, s) : e.pos = p
        BY Zenon
      <4>2. p \in places <=>
              \E i \in Idxs : /\ s \in cells[st][i].seqs /\ i \notin {}
                              /\ cells[st][i].pos = p
        OBVIOUS
      <4>3. \A i \in Idxs : s \in cells[st][i].seqs =>
              Meaning(cells[st][i], buf[i]) \in Held(cells[st], buf, {}, s)
        BY HeldMembers
      <4>4. \A e \in Held(cells[st], buf, {}, s) :
              \E i \in Idxs : s \in cells[st][i].seqs /\ e = Meaning(cells[st][i], buf[i])
        BY HeldMembers
      <4> HIDE DEF places
      <4>5. ASSUME NEW e \in Held(cells[st], buf, {}, s), e.pos = p
            PROVE  p \in places
        <5>1. PICK i \in Idxs : s \in cells[st][i].seqs /\ e = Meaning(cells[st][i], buf[i])
          BY <4>4, <4>5
        <5>2. e.pos = cells[st][i].pos
          BY <5>1, MeaningPos, Zenon
        <5> QED
          BY <5>1, <5>2, <4>2, <4>5
      <4>6. ASSUME NEW i \in Idxs, s \in cells[st][i].seqs, cells[st][i].pos = p
            PROVE  p \in {e.pos : e \in Held(cells[st], buf, {}, s)}
        <5>1. Meaning(cells[st][i], buf[i]).pos = p
          BY <4>6, MeaningPos, Zenon
        <5> QED
          BY <5>1, <4>1, <4>3, <4>6
      <4> QED
        BY <4>1, <4>2, <4>5, <4>6, Zenon
    <3> QED
      BY <3>1, Zenon
  <2> HIDE DEF places
  <2>5. {e.pos : e \in SeqContent[s]} = places
    BY <2>2, <2>4
  <2>6. {e.pos : e \in SeqContent'[s]} = places
    BY <2>3, <2>4
  <2> QED
    BY <2>5, <2>6
<1>4. DOMAIN SeqContent' = Seqs
  BY DEF SeqContent
<1> QED
  BY <1>3, <1>4, Zenon DEF SamePositions, Memory!Spoil

\* What prepare() hides, and a graph that runs: the cells planned, as far as they are placed.
LEMMA HiddenCells ==
  ASSUME IInv, NEW st \in Streams, NEW i \in Idxs
  PROVE  /\ phase = "prepare" =>
              (i \in Hidden(st) <=> \E k \in 1 .. Len(plan) : <<st, i>> \in PlannedCells(k))
         /\ phase = "restore" =>
              (i \in Hidden(st) <=>
                 \E k \in 1 .. Len(plan) : k <= iCur /\ <<st, i>> \in PlannedCells(k))
         /\ phase = "compute" => (i \in Hidden(st) <=> <<st, i>> \in PlannedCells(iCur))
<1>0. Len(plan) \in Nat /\ Len(plan) <= Len(batch) /\ Len(batch) \in Nat
  BY AppendIsSequence DEF IInv, TypeOK, CallOK
<1>1. ASSUME NEW k \in 1 .. Len(plan)
      PROVE  <<st, i>> \in PlannedCells(k) <=>
               st \in DOMAIN batch[k] /\ i \in SlotCells(plan[k].slots[st])
  <2>1. UbatchOK(batch[k]) /\ PlannedOK(batch[k], plan[k])
    BY <1>0 DEF IInv, CallOK
  <2> QED
    BY <2>1, PlannedCellsOf
<1>2. phase = "compute" => iCur \in 1 .. Len(plan)
  BY DEF IInv, CallOK
<1>3. ASSUME phase \in {"prepare", "restore"}
      PROVE  i \in Hidden(st) <=>
               \E k \in 1 .. Len(plan) : /\ st \in DOMAIN batch[k] /\ i \in SlotCells(plan[k].slots[st])
                                         /\ phase = "restore" => k <= iCur
  <2>1. \A k \in 1 .. Len(plan) : k \in 1 .. Len(batch)
    BY <1>0
  <2> QED
    BY <1>3, <2>1 DEF Hidden
<1>4. ASSUME phase = "compute"
      PROVE  i \in Hidden(st) <=> st \in DOMAIN batch[iCur] /\ i \in SlotCells(plan[iCur].slots[st])
  BY <1>4 DEF Hidden
<1> QED
  BY <1>1, <1>2, <1>3, <1>4

\* The same of the next state.
LEMMA HiddenCellsNext ==
  ASSUME IInv', NEW st \in Streams, NEW i \in Idxs
  PROVE  /\ phase' = "prepare" =>
              (i \in Hidden(st)' <=> \E k \in 1 .. Len(plan') : <<st, i>> \in PlannedCells(k)')
         /\ phase' = "restore" =>
              (i \in Hidden(st)' <=>
                 \E k \in 1 .. Len(plan') : k <= iCur' /\ <<st, i>> \in PlannedCells(k)')
         /\ phase' = "compute" => (i \in Hidden(st)' <=> <<st, i>> \in PlannedCells(iCur)')
<1>0. Len(plan') \in Nat /\ Len(plan') <= Len(batch') /\ Len(batch') \in Nat
  BY AppendIsSequence DEF IInv, TypeOK, CallOK
<1>1. ASSUME NEW k \in 1 .. Len(plan')
      PROVE  <<st, i>> \in PlannedCells(k)' <=>
               st \in DOMAIN batch'[k] /\ i \in SlotCells(plan'[k].slots[st])
  <2>1. UbatchOK(batch'[k]) /\ PlannedOK(batch'[k], plan'[k])
    BY <1>0 DEF IInv, CallOK
  <2> QED
    BY <2>1 DEF PlannedCells, PlannedOK, SlotCells
<1>2. phase' = "compute" => iCur' \in 1 .. Len(plan')
  BY DEF IInv, CallOK
<1>3. ASSUME phase' \in {"prepare", "restore"}
      PROVE  i \in Hidden(st)' <=>
               \E k \in 1 .. Len(plan') : /\ st \in DOMAIN batch'[k] /\ i \in SlotCells(plan'[k].slots[st])
                                          /\ phase' = "restore" => k <= iCur'
  <2>1. \A k \in 1 .. Len(plan') : k \in 1 .. Len(batch')
    BY <1>0
  <2> QED
    BY <1>3, <2>1 DEF Hidden
<1>4. ASSUME phase' = "compute"
      PROVE  i \in Hidden(st)' <=> st \in DOMAIN batch'[iCur'] /\ i \in SlotCells(plan'[iCur'].slots[st])
  BY <1>4 DEF Hidden
<1>5. phase' = "compute" =>
        (<<st, i>> \in PlannedCells(iCur)' <=>
           st \in DOMAIN batch'[iCur'] /\ i \in SlotCells(plan'[iCur'].slots[st]))
  <2>1. phase' = "compute" => PlannedOK(batch'[iCur'], plan'[iCur'])
    BY <1>2 DEF IInv, CallOK
  <2> QED
    BY <2>1 DEF PlannedCells, PlannedOK, SlotCells
<1> QED
  BY <1>1, <1>2, <1>3, <1>4, <1>5

\* Placed on free cells, an ubatch changes what no owned cell is, and each of its cells
\* becomes one of its tokens'.
LEMMA AppliedFree ==
  ASSUME IInv, NEW u, UbatchOK(u), NEW slots, SlotsFit(u, slots), ApplyUbatch(u, slots),
         \A st \in DOMAIN u : \A i \in SlotCells(slots[st]) : IsEmpty(cells[st][i]),
         NEW st \in Streams, NEW i \in Idxs
  PROVE  IF st \in DOMAIN u /\ i \in SlotCells(slots[st])
         THEN cells'[st][i] = Placed(cells[st], u[st], slots[st])[i]
         ELSE IF cells[st][i].seqs = {} THEN cells'[st][i].seqs = {} ELSE cells'[st][i] = cells[st][i]
<1>1. RowOK(st, cells[st]) /\ CellOK(st, cells[st][i])
  BY TypeOKMemory DEF IInv, MemoryOK, RowOK
<1>2. CASE st \in DOMAIN u
  <2>1. RowFits(st, u[st], slots[st])
    BY <1>2 DEF RowFits, UbatchOK, SlotsFit
  <2>2. cells'[st] = AppliedRow(cells[st], u[st], slots[st])
    BY <1>2 DEF ApplyUbatch
  <2>3. \A k \in SlotCells(slots[st]) : IsEmpty(cells[st][k])
    BY <1>2
  <2>4. CASE i \in SlotCells(slots[st])
    <3>1. AppliedRow(cells[st], u[st], slots[st])[i] = Placed(cells[st], u[st], slots[st])[i]
      BY <1>1, <2>1, <2>3, <2>4, FreeSlotPurgesNothing
    <3> QED
      BY <1>2, <2>2, <2>4, <3>1
  <2>5. CASE i \notin SlotCells(slots[st])
    <3>1. CASE cells[st][i].seqs = {}
      <4>1. IsEmpty(AppliedRow(cells[st], u[st], slots[st])[i])
        BY <1>1, <2>1, <2>5, <3>1, EmptyStaysEmpty DEF CellOK
      <4>2. CellOK(st, AppliedRow(cells[st], u[st], slots[st])[i])
        BY <1>1, <2>1, AppliedRowOK DEF RowOK
      <4> QED
        BY <2>2, <2>5, <3>1, <4>1, <4>2 DEF CellOK
    <3>2. CASE cells[st][i].seqs # {}
      <4>1. ~IsEmpty(cells[st][i])
        BY <1>1, <3>2 DEF CellOK
      <4>2. AppliedRow(cells[st], u[st], slots[st])[i] = cells[st][i]
        BY <1>1, <2>1, <2>3, <4>1, FreeSlotPurgesNothing
      <4> QED
        BY <2>2, <2>5, <3>2, <4>2
    <3> QED
      BY <3>1, <3>2
  <2> QED
    BY <2>4, <2>5
<1>3. CASE st \notin DOMAIN u
  <2>1. cells'[st] = cells[st]
    BY <1>3 DEF ApplyUbatch
  <2> QED
    BY <1>3, <2>1
<1> QED
  BY <1>2, <1>3

\* Planning an ubatch hides the cells it takes, which were empty.
LEMMA PrepareUbatchUnnoticed ==
  ASSUME NSwa = 0, IInv, IInv', QueueInv, QueueInv', PrepareUbatch
  PROVE  SeqContent' = SeqContent
<1>n. PICK n : n = Len(plan)
  OBVIOUS
<1>u. PICK u, slots : u = batch[iCur] /\ slots = FindSlot(u)
  OBVIOUS
<1>1. /\ phase = "prepare" /\ phase' = "prepare" /\ iCur = n + 1 /\ IsSequence(plan)
      /\ iCur <= Len(batch) /\ ApplyUbatch(u, slots) /\ FoundSlot(u)
      /\ UNCHANGED <<data, batch>>
  BY <1>n, <1>u DEF IInv, CallOK, PrepareUbatch, bufVars
<1>2. /\ n \in Nat /\ UbatchOK(u) /\ Len(plan') = n + 1 /\ plan'[n + 1].slots = slots
      /\ \A k \in 1 .. n : plan'[k] = plan[k]
  <2>1. PICK entry : plan' = Append(plan, entry) /\ entry.slots = slots
    BY <1>u DEF PrepareUbatch
  <2>2. n \in Nat
    BY <1>n, <1>1, AppendIsSequence
  <2> QED
    BY <1>n, <1>u, <1>1, <2>1, <2>2, AppendIsSequence DEF IInv, CallOK
<1>3. /\ SlotsFit(u, slots)
      /\ \A st \in DOMAIN u : \A i \in SlotCells(slots[st]) : IsEmpty(cells[st][i])
  <2>1. /\ SlotsFit(u, FindSlot(u))
        /\ NSwa = 0 => \A st \in DOMAIN u : \A j \in 1 .. Len(u[st]) :
                          IsEmpty(cells[st][FindSlot(u)[st][j]])
    BY <1>1, <1>2, TypeOKMemory, FoundSlots DEF IInv
  <2> QED
    BY <1>u, <2>1 DEF SlotsFit, SlotCells
<1>4. Settled = data /\ Settled' = data
  BY <1>1, SettledIsData, SettledIsDataNext
<1>5. ASSUME NEW st \in Streams, NEW i \in Idxs PROVE Unnoticed(st, i)
  <2>1. i \in Hidden(st) <=> \E k \in 1 .. n : <<st, i>> \in PlannedCells(k)
    BY <1>n, <1>1, HiddenCells
  <2>2. i \in Hidden(st)' <=> \E k \in 1 .. n + 1 : <<st, i>> \in PlannedCells(k)'
    BY <1>1, <1>2, HiddenCellsNext
  <2>3. \A k \in 1 .. n : PlannedCells(k)' = PlannedCells(k)
    BY <1>1, <1>2 DEF PlannedCells
  <2>4. <<st, i>> \in PlannedCells(n + 1)' <=> st \in DOMAIN u /\ i \in SlotCells(slots[st])
    <3>1. batch'[n + 1] = u /\ plan'[n + 1].slots = slots
      BY <1>u, <1>1, <1>2
    <3>2. st \in DOMAIN u =>
            (i \in SlotCells(slots[st]) <=> \E j \in 1 .. Len(u[st]) : slots[st][j] = i)
      BY <1>3 DEF SlotsFit, SlotCells
    <3> QED
      BY <3>1, <3>2 DEF PlannedCells
  <2>5. i \in Hidden(st)' <=> i \in Hidden(st) \/ (st \in DOMAIN u /\ i \in SlotCells(slots[st]))
    <3>1. \A k : k \in 1 .. n + 1 <=> k \in 1 .. n \/ k = n + 1
      BY <1>2
    <3> QED
      BY <2>1, <2>2, <2>3, <2>4, <3>1
  <2>6. CellOK(st, cells[st][i])
    BY BufsOK
  <2>7. CASE st \in DOMAIN u /\ i \in SlotCells(slots[st])
    <3>1. cells[st][i].seqs = {}
      BY <1>3, <2>6, <2>7 DEF CellOK
    <3> QED
      BY <2>5, <2>7, <3>1 DEF Unnoticed
  <2>8. CASE ~(st \in DOMAIN u /\ i \in SlotCells(slots[st]))
    <3>1. IF cells[st][i].seqs = {} THEN cells'[st][i].seqs = {} ELSE cells'[st][i] = cells[st][i]
      BY <1>1, <1>2, <1>3, <2>8, AppliedFree
    <3> QED
      BY <1>4, <2>5, <2>8, <3>1 DEF Unnoticed
  <2> QED
    BY <2>7, <2>8
<1> QED
  BY <1>5, NothingNoticed

\* Planning ends: everything planned is still to be taken back.
LEMMA PrepareEndsUnnoticed ==
  ASSUME IInv, IInv', QueueInv, QueueInv', PrepareEnds
  PROVE  SeqContent' = SeqContent
<1>1. /\ phase = "prepare" /\ phase' = "restore" /\ iCur' = Len(plan) /\ Len(plan) \in Nat
      /\ UNCHANGED <<cells, data, batch, plan>>
  BY AppendIsSequence DEF PrepareEnds, memVars, bufVars, IInv, CallOK
<1>2. Settled = data /\ Settled' = data
  BY <1>1, SettledIsData, SettledIsDataNext
<1>3. ASSUME NEW st \in Streams, NEW i \in Idxs PROVE i \in Hidden(st)' <=> i \in Hidden(st)
  <2>1. i \in Hidden(st) <=> \E k \in 1 .. Len(plan) : <<st, i>> \in PlannedCells(k)
    BY <1>1, HiddenCells
  <2>2. i \in Hidden(st)' <=>
          \E k \in 1 .. Len(plan') : k <= iCur' /\ <<st, i>> \in PlannedCells(k)'
    BY <1>1, HiddenCellsNext
  <2>3. \A k : PlannedCells(k)' = PlannedCells(k)
    BY <1>1 DEF PlannedCells
  <2> QED
    BY <1>1, <2>1, <2>2, <2>3
<1>4. ASSUME NEW st \in Streams, NEW i \in Idxs PROVE Unnoticed(st, i)
  BY <1>1, <1>2, <1>3 DEF Unnoticed
<1> QED
  BY <1>4, NothingNoticed

\* Taking an ubatch back empties the cells that were hidden for it.
LEMMA RestoreUbatchUnnoticed ==
  ASSUME NSwa = 0, IInv, IInv', QueueInv, QueueInv', RestoreUbatch
  PROVE  SeqContent' = SeqContent
<1>n. PICK n, u, p : n = iCur /\ u = batch[n] /\ p = plan[n]
  OBVIOUS
<1>1. /\ phase = "restore" /\ phase' = "restore" /\ n \in 1 .. Len(plan) /\ Len(plan) \in Nat
      /\ UbatchOK(u) /\ PlannedOK(u, p) /\ n \in Nat \ {0}
      /\ iCur' = n - 1 /\ UNCHANGED <<data, batch, plan>>
  BY <1>n, RestoresPlanned
<1>2. cells' = [st \in Streams |-> IF st \notin DOMAIN u THEN cells[st] ELSE
             [i \in Idxs |-> IF i \in SlotCells(p.slots[st])
                THEN p.old[st][CHOOSE j \in DOMAIN p.slots[st] : p.slots[st][j] = i]
                ELSE cells[st][i]]]
  BY <1>n DEF RestoreUbatch
<1>3. Settled = data /\ Settled' = data
  BY <1>1, SettledIsData, SettledIsDataNext
<1>4. ASSUME NEW st \in Streams, NEW i \in Idxs PROVE Unnoticed(st, i)
  <2>1. i \in Hidden(st) <=> \E k \in 1 .. Len(plan) : k <= n /\ <<st, i>> \in PlannedCells(k)
    BY <1>n, <1>1, HiddenCells
  <2>2. i \in Hidden(st)' <=> \E k \in 1 .. Len(plan) : k <= n - 1 /\ <<st, i>> \in PlannedCells(k)
    <3>1. i \in Hidden(st)' <=>
            \E k \in 1 .. Len(plan') : k <= iCur' /\ <<st, i>> \in PlannedCells(k)'
      BY <1>1, HiddenCellsNext
    <3>2. \A k : PlannedCells(k)' = PlannedCells(k)
      BY <1>1 DEF PlannedCells
    <3> QED
      BY <1>1, <3>1, <3>2
  <2>3. <<st, i>> \in PlannedCells(n) <=> st \in DOMAIN u /\ i \in SlotCells(p.slots[st])
    BY <1>n, <1>1, PlannedCellsOf
  <2>4. CASE <<st, i>> \in PlannedCells(n)
    <3>1. PICK j : j = CHOOSE l \in DOMAIN p.slots[st] : p.slots[st][l] = i
      OBVIOUS
    <3>2. st \in DOMAIN u /\ i \in SlotCells(p.slots[st]) /\ DOMAIN p.slots[st] = 1 .. Len(u[st])
      BY <1>1, <2>3, <2>4 DEF PlannedOK
    <3>3. j \in 1 .. Len(u[st])
      BY <3>1, <3>2 DEF SlotCells
    <3>4. cells'[st][i] = p.old[st][j]
      BY <1>2, <3>1, <3>2
    <3>5. IsEmpty(p.old[st][j]) /\ CellOK(st, p.old[st][j])
      BY <1>n, <1>1, <3>2, <3>3 DEF IInv, FreeOK, PlannedOK
    <3>6. cells'[st][i].seqs = {}
      BY <3>4, <3>5 DEF CellOK
    <3>7. i \in Hidden(st)
      BY <1>1, <2>1, <2>4
    <3> QED
      BY <3>6, <3>7 DEF Unnoticed
  <2>5. CASE <<st, i>> \notin PlannedCells(n)
    <3>1. cells'[st][i] = cells[st][i]
      BY <1>2, <2>3, <2>5
    <3>2. i \in Hidden(st)' <=> i \in Hidden(st)
      <4>1. \A k \in 1 .. Len(plan) : k <= n <=> k <= n - 1 \/ k = n
        BY <1>1
      <4> QED
        BY <2>1, <2>2, <2>5, <4>1
    <3> QED
      BY <1>3, <3>1, <3>2 DEF Unnoticed
  <2> QED
    BY <2>4, <2>5
<1> QED
  BY <1>4, NothingNoticed

\* However the search ended, no client sees it.
LEMMA OutcomeUnnoticed ==
  ASSUME IInv, IInv', QueueInv, Outcome
  PROVE  SeqContent' = SeqContent
<1>1. /\ phase = "restore" /\ iCur = 0 /\ UNCHANGED <<cells, data>>
      /\ phase' \in {"idle", "update", "apply"} /\ copies = <<>> /\ scInfo = <<>>
      /\ copies' = <<>> /\ scInfo' = <<>>
  BY DEF Outcome, RetryPrepare, RefuseBatch, ReserveFails, StartUbatches, Restored, Return,
         memVars, bufVars, QueueInv
<1>2. Settled' = Settled
  BY <1>1 DEF Settled
<1>3. ASSUME NEW st \in Streams, NEW i \in Idxs PROVE i \notin Hidden(st)
  <2>1. i \in Hidden(st) <=>
                 \E k \in 1 .. Len(plan) : k <= iCur /\ <<st, i>> \in PlannedCells(k)
    BY <1>1, HiddenCells
  <2>2. \A k \in 1 .. Len(plan) : ~(k <= 0)
    OBVIOUS
  <2> QED
    BY <1>1, <2>1, <2>2
<1>4. ASSUME NEW st \in Streams, NEW i \in Idxs PROVE Unnoticed(st, i)
  <2>1. i \notin Hidden(st)'
    BY <1>1, NothingHidden
  <2> QED
    BY <1>1, <1>2, <1>3, <2>1 DEF Unnoticed
<1> QED
  BY <1>4, NothingNoticed

\* A placed ubatch is hidden until its graph has run.
LEMMA ApplyUnnoticed ==
  ASSUME NSwa = 0, IInv, IInv', QueueInv, QueueInv', Apply
  PROVE  SeqContent' = SeqContent
<1>n. PICK n, u, slots : n = iCur /\ u = batch[n] /\ slots = plan[n].slots
  OBVIOUS
<1>1. /\ phase = "apply" /\ phase' = "compute" /\ ApplyUbatch(u, slots)
      /\ UNCHANGED <<data, batch, plan, iCur>>
  BY <1>n DEF Apply, bufVars
<1>2. /\ UbatchOK(u) /\ SlotsFit(u, slots) /\ n \in 1 .. Len(plan)
      /\ \A c \in Streams \X Idxs :
           c \in PlannedCells(n) <=> c[1] \in DOMAIN u /\ c[2] \in SlotCells(slots[c[1]])
  BY <1>n, <1>1, CurrentUbatch
<1>3. \A st \in DOMAIN u : \A i \in SlotCells(slots[st]) : IsEmpty(cells[st][i])
  <2>1. ASSUME NEW st \in DOMAIN u, NEW i \in SlotCells(slots[st]) PROVE IsEmpty(cells[st][i])
    <3>1. st \in Streams /\ i \in Idxs
      BY <1>2 DEF UbatchOK, SlotsFit, SlotCells
    <3>2. <<st, i>> \in PlannedCells(n)
      BY <1>2, <3>1
    <3>3. FreeCell(<<st, i>>)
      BY <1>n, <1>1, <1>2, <3>2 DEF IInv, FreeOK
    <3> QED
      BY <3>3 DEF FreeCell
  <2> QED
    BY <2>1
<1>4. Settled = data /\ Settled' = data
  BY <1>1, SettledIsData, SettledIsDataNext
<1>5. ASSUME NEW st \in Streams, NEW i \in Idxs PROVE Unnoticed(st, i)
  <2>1. i \notin Hidden(st)
    BY <1>1, NothingHidden
  <2>2. i \in Hidden(st)' <=> st \in DOMAIN u /\ i \in SlotCells(slots[st])
    <3>1. i \in Hidden(st)' <=> <<st, i>> \in PlannedCells(iCur)'
      BY <1>1, HiddenCellsNext
    <3>2. PlannedCells(iCur)' = PlannedCells(n)
      BY <1>n, <1>1 DEF PlannedCells
    <3> QED
      BY <1>2, <3>1, <3>2
  <2>3. CellOK(st, cells[st][i])
    BY BufsOK
  <2>4. CASE st \in DOMAIN u /\ i \in SlotCells(slots[st])
    <3>1. cells[st][i].seqs = {}
      BY <1>3, <2>3, <2>4 DEF CellOK
    <3> QED
      BY <2>2, <2>4, <3>1 DEF Unnoticed
  <2>5. CASE ~(st \in DOMAIN u /\ i \in SlotCells(slots[st]))
    <3>1. IF cells[st][i].seqs = {} THEN cells'[st][i].seqs = {} ELSE cells'[st][i] = cells[st][i]
      BY <1>1, <1>2, <1>3, <2>5, AppliedFree
    <3> QED
      BY <1>4, <2>1, <2>2, <2>5, <3>1 DEF Unnoticed
  <2> QED
    BY <2>4, <2>5
<1> QED
  BY <1>5, NothingNoticed

(***************************************************************************)
(* What the refinement needs beside the invariant of KVCacheProofs.         *)
(***************************************************************************)

\* The cells planned for a row of an ubatch are different ones.
SlotsInv ==
  \A k \in 1 .. Len(plan) : \A st \in DOMAIN batch[k] : \A i, j \in 1 .. Len(batch[k][st]) :
    plan[k].slots[st][i] = plan[k].slots[st][j] => i = j

\* When a graph runs, each cell of its ubatch is that of a token planned for it.
PlacedInv ==
  phase = "compute" =>
    \A st \in DOMAIN batch[iCur] : \A i \in SlotCells(plan[iCur].slots[st]) :
      cells[st][i] = Placed(cells[st], batch[iCur][st], plan[iCur].slots[st])[i]

\* The queue is taken when a call starts, and copied before its search starts.
LEMMA QueueKeeps == QueueInv /\ Next => QueueInv'
<1> SUFFICES ASSUME QueueInv, Next PROVE QueueInv'
  OBVIOUS
<1>1. CASE Operate
  <2>1. phase = "idle" /\ UNCHANGED callVars
    BY <1>1 DEF Operate, SeqRm, SeqRmAny, SeqCpShared, SeqCpStream, SeqKeep, SeqAdd, SeqDiv, Clear, Client
  <2> QED
    BY <2>1 DEF QueueInv, callVars
<1>2. CASE \E b \in Batches, tok \in Toks : DecodeBegin(b, tok)
  BY <1>2 DEF DecodeBegin, QueueInv
<1>3. CASE Update
  BY <1>3 DEF Update, UpdateCopy, UpdateShift, UpdateShiftFails, UpdateNothing, QueueInv
<1>4. CASE Prepare
  BY <1>4 DEF Prepare, PrepareUbatch, PrepareEnds, RestoreUbatch, QueueInv
<1>5. CASE Outcome
  BY <1>5 DEF Outcome, RetryPrepare, RefuseBatch, ReserveFails, StartUbatches, Restored, Return, QueueInv
<1>6. CASE Process
  BY <1>6 DEF Process, Apply, Compute, ComputeFails, Return, QueueInv
<1> QED
  BY <1>1, <1>2, <1>3, <1>4, <1>5, <1>6 DEF Next, Decode

\* A slot has no cell twice: the cells follow each other on the ring.
LEMMA SlotsDiffer ==
  ASSUME NEW row, NEW h \in 0 .. Size, NEW n \in Nat, NEW slot \in SlotsOf(row, h, n),
         NEW i \in 1 .. n, NEW j \in 1 .. n, slot[i] = slot[j]
  PROVE  i = j
<1>1. PICK start : start = SearchStart(row, h, n)
  OBVIOUS
<1>2. start \in Int /\ Size \in Nat \ {0}
  BY <1>1, ShapeAssumption DEF SearchStart
<1>3. slot \in [1 .. n -> Idxs]
  BY DEF SlotsOf
<1>4. \A k, m \in 1 .. n : k < m => (slot[k] - start) % Size < (slot[m] - start) % Size
  BY <1>1 DEF SlotsOf, IsSlot
<1>5. PICK x \in Idxs : x = slot[i] /\ x = slot[j]
  BY <1>3
<1>6. PICK v : v = (x - start) % Size
  OBVIOUS
<1>7. v \in Int
  BY <1>2, <1>5, <1>6 DEF Idxs
<1>8. ~(i < j) /\ ~(j < i)
  BY <1>4, <1>5, <1>6, <1>7
<1> QED
  BY <1>8

\* What the search of prepare() finds is a slot of each row.
LEMMA FoundIsSlotOf ==
  ASSUME NEW u, FoundSlot(u), NEW st \in DOMAIN u
  PROVE  FindSlot(u)[st] \in SlotsOf(cells[st], head[st], Len(u[st]))
<1>1. PICK found : found = SlotsOf(cells[st], head[st], Len(u[st]))
  OBVIOUS
<1>2. found # {}
  BY <1>1 DEF FoundSlot
<1>3. FindSlot(u)[st] = CHOOSE slot \in found : TRUE
  BY <1>1 DEF FindSlot
<1> QED
  BY <1>1, <1>2, <1>3, ChoiceIsMember

\* Planning keeps the slots of a row different.
LEMMA SlotsKeeps == IInv /\ SlotsInv /\ Next => SlotsInv'
<1> SUFFICES ASSUME IInv, SlotsInv, Next PROVE SlotsInv'
  OBVIOUS
<1>1. CASE UNCHANGED <<batch, plan>>
  BY <1>1 DEF SlotsInv
<1>2. CASE plan' = <<>>
  BY <1>2 DEF SlotsInv
<1>3. CASE PrepareUbatch
  <2>n. PICK n, u, slots : n = Len(plan) /\ u = batch[iCur] /\ slots = FindSlot(u)
    OBVIOUS
  <2>1. /\ iCur = n + 1 /\ IsSequence(plan) /\ iCur <= Len(batch) /\ FoundSlot(u)
        /\ UNCHANGED batch /\ head \in [Streams -> 0 .. Size]
    BY <1>3, <2>n DEF IInv, TypeOK, CallOK, PrepareUbatch
  <2>2. PICK entry : plan' = Append(plan, entry) /\ entry.slots = slots
    BY <1>3, <2>n DEF PrepareUbatch
  <2>3. n \in Nat
    BY <2>n, <2>1, AppendIsSequence
  <2>4. /\ UbatchOK(u) /\ Len(plan') = n + 1 /\ plan'[n + 1].slots = slots
        /\ \A k \in 1 .. n : plan'[k] = plan[k]
    BY <2>n, <2>1, <2>2, <2>3, AppendIsSequence DEF IInv, CallOK
  <2>5. ASSUME NEW st \in DOMAIN u, NEW i \in 1 .. Len(u[st]), NEW j \in 1 .. Len(u[st]),
               slots[st][i] = slots[st][j]
        PROVE  i = j
    <3>1. st \in Streams /\ Len(u[st]) \in Nat /\ head[st] \in 0 .. Size
      BY <2>1, <2>4 DEF UbatchOK
    <3>2. slots[st] \in SlotsOf(cells[st], head[st], Len(u[st]))
      BY <2>n, <2>1, FoundIsSlotOf
    <3> QED
      BY <2>5, <3>1, <3>2, SlotsDiffer
  <2>6. ASSUME NEW k \in 1 .. n + 1
        PROVE  \A st \in DOMAIN batch'[k] : \A i, j \in 1 .. Len(batch'[k][st]) :
                 plan'[k].slots[st][i] = plan'[k].slots[st][j] => i = j
    <3>1. CASE k = n + 1
      <4>1. batch'[k] = u /\ plan'[k].slots = slots
        BY <2>n, <2>1, <2>4, <3>1
      <4> QED
        BY <2>5, <4>1
    <3>2. CASE k # n + 1
      <4>1. k \in 1 .. n
        BY <2>3, <3>2
      <4>2. plan'[k] = plan[k] /\ batch'[k] = batch[k] /\ k \in 1 .. Len(plan)
        BY <2>n, <2>1, <2>4, <4>1
      <4> QED
        BY <4>2 DEF SlotsInv
    <3> QED
      BY <3>1, <3>2
  <2> QED
    BY <2>4, <2>6 DEF SlotsInv
<1>4. CASE Operate
  <2>1. UNCHANGED callVars
    BY <1>4 DEF Operate, SeqRm, SeqRmAny, SeqCpShared, SeqCpStream, SeqKeep, SeqAdd, SeqDiv, Clear, Client
  <2> QED
    BY <1>1, <2>1 DEF callVars
<1>5. CASE \E b \in Batches, tok \in Toks : DecodeBegin(b, tok)
  <2>1. plan' = <<>>
    BY <1>5 DEF DecodeBegin, IInv, CallOK
  <2> QED
    BY <1>2, <2>1
<1>6. CASE Update
  BY <1>1, <1>6 DEF Update, UpdateCopy, UpdateShift, UpdateShiftFails, UpdateNothing
<1>7. CASE PrepareEnds \/ RestoreUbatch
  BY <1>1, <1>7 DEF PrepareEnds, RestoreUbatch
<1>8. CASE Outcome
  BY <1>1, <1>2, <1>8 DEF Outcome, RetryPrepare, RefuseBatch, ReserveFails, StartUbatches, Return
<1>9. CASE Process
  BY <1>1, <1>2, <1>9 DEF Process, Apply, Compute, ComputeFails, Return
<1> QED
  BY <1>3, <1>4, <1>5, <1>6, <1>7, <1>8, <1>9 DEF Next, Decode, Prepare

\* Apply places the tokens, and the graph runs next.
LEMMA PlacedKeeps ==
  ASSUME NSwa = 0, IInv, Next
  PROVE  PlacedInv'
<1>1. CASE Apply
  <2>n. PICK n, u, slots : n = iCur /\ u = batch[n] /\ slots = plan[n].slots
    OBVIOUS
  <2>1. /\ phase = "apply" /\ phase' = "compute" /\ ApplyUbatch(u, slots)
        /\ UNCHANGED <<data, batch, plan, iCur>>
    BY <1>1, <2>n DEF Apply, bufVars
  <2>2. /\ UbatchOK(u) /\ SlotsFit(u, slots) /\ n \in 1 .. Len(plan)
        /\ \A c \in Streams \X Idxs :
             c \in PlannedCells(n) <=> c[1] \in DOMAIN u /\ c[2] \in SlotCells(slots[c[1]])
    BY <2>n, <2>1, CurrentUbatch
  <2>3. \A st \in DOMAIN u : \A i \in SlotCells(slots[st]) : st \in Streams /\ i \in Idxs
    BY <2>2 DEF UbatchOK, SlotsFit, SlotCells
  <2>4. \A st \in DOMAIN u : \A i \in SlotCells(slots[st]) : IsEmpty(cells[st][i])
    <3>1. ASSUME NEW st \in DOMAIN u, NEW i \in SlotCells(slots[st]) PROVE IsEmpty(cells[st][i])
      <4>1. <<st, i>> \in PlannedCells(n)
        BY <2>2, <2>3
      <4>2. FreeCell(<<st, i>>)
        BY <2>n, <2>1, <2>2, <4>1 DEF IInv, FreeOK
      <4> QED
        BY <4>2 DEF FreeCell
    <3> QED
      BY <3>1
  <2>5. ASSUME NEW st \in DOMAIN u, NEW i \in SlotCells(slots[st])
        PROVE  cells'[st][i] = Placed(cells'[st], u[st], slots[st])[i]
    <3>1. cells'[st][i] = Placed(cells[st], u[st], slots[st])[i]
      BY <2>1, <2>2, <2>3, <2>4, AppliedFree
    <3>2. Placed(cells'[st], u[st], slots[st])[i] = Placed(cells[st], u[st], slots[st])[i]
      BY <2>3 DEF Placed
    <3> QED
      BY <3>1, <3>2
  <2> QED
    BY <2>n, <2>1, <2>5 DEF PlacedInv
<1>2. CASE phase' # "compute"
  BY <1>2 DEF PlacedInv
<1>3. CASE Operate
  <2>1. phase' = "idle"
    BY <1>3 DEF Operate, SeqRm, SeqRmAny, SeqCpShared, SeqCpStream, SeqKeep, SeqAdd, SeqDiv, Clear, Client, callVars
  <2> QED
    BY <1>2, <2>1
<1>4. CASE \E b \in Batches, tok \in Toks : DecodeBegin(b, tok)
  BY <1>2, <1>4 DEF DecodeBegin
<1>5. CASE Update
  BY <1>2, <1>5 DEF Update, UpdateCopy, UpdateShift, UpdateShiftFails, UpdateNothing
<1>6. CASE Prepare
  BY <1>2, <1>6 DEF Prepare, PrepareUbatch, PrepareEnds, RestoreUbatch
<1>7. CASE Outcome
  BY <1>2, <1>7 DEF Outcome, RetryPrepare, RefuseBatch, ReserveFails, StartUbatches, Return
<1>8. CASE Compute \/ ComputeFails
  BY <1>2, <1>8 DEF Compute, ComputeFails, Return
<1> QED
  BY <1>1, <1>3, <1>4, <1>5, <1>6, <1>7, <1>8 DEF Next, Decode, Process

(***************************************************************************)
(* The tokens of a call: their owners and their positions.                  *)
(***************************************************************************)

\* A submitted token keeps its row and its sequences.
LEMMA PositionedTokens ==
  ASSUME NEW b \in Batches, NEW tok \in Toks, NEW k \in 1 .. Len(b)
  PROVE  /\ DOMAIN Positioned(b, tok)[k] = DOMAIN b[k]
         /\ \A st \in DOMAIN b[k] :
              /\ Len(b[k][st]) \in Nat /\ Len(Positioned(b, tok)[k][st]) = Len(b[k][st])
              /\ \A j \in 1 .. Len(b[k][st]) :
                   /\ b[k][st][j] \in (SUBSET Seqs) \ {{}}
                   /\ Positioned(b, tok)[k][st][j].seqs = b[k][st][j]
                   /\ Positioned(b, tok)[k][st][j].tok = tok
<1> DEFINE P == Positioned(b, tok)
<1>1. P[k] = [sv \in DOMAIN b[k] |-> [m \in 1 .. Len(b[k][sv]) |->
               [pos  |-> BatchPos(b, k, sv, m, CHOOSE q \in b[k][sv][m] : TRUE),
                seqs |-> b[k][sv][m],
                tok  |-> tok]]]
  BY DEF Positioned
<1>2. IsUbatch(b[k])
  BY ConstAssumption
<1>3. ASSUME NEW st \in DOMAIN b[k]
      PROVE  /\ Len(b[k][st]) \in Nat /\ Len(P[k][st]) = Len(b[k][st])
             /\ \A j \in 1 .. Len(b[k][st]) : b[k][st][j] \in (SUBSET Seqs) \ {{}}
  <2>1. b[k][st] \in Seq((SUBSET Seqs) \ {{}})
    BY <1>2 DEF IsUbatch
  <2>2. Len(b[k][st]) \in Nat /\ \A j \in 1 .. Len(b[k][st]) : b[k][st][j] \in (SUBSET Seqs) \ {{}}
    <3>1. PICK row, T : row = b[k][st] /\ T = (SUBSET Seqs) \ {{}}
      OBVIOUS
    <3>2. Len(row) \in Nat /\ \A j \in 1 .. Len(row) : row[j] \in T
      BY <2>1, <3>1, ElementOfSeq, LenProperties
    <3> QED
      BY <3>1, <3>2, Zenon
  <2>3. P[k][st] \in [1 .. Len(b[k][st]) -> {P[k][st][m] : m \in 1 .. Len(b[k][st])}]
    BY <1>1
  <2>4. Len(P[k][st]) = Len(b[k][st])
    BY <2>2, <2>3, LenOfFunction
  <2> QED
    BY <2>2, <2>4
<1>4. DOMAIN P[k] = DOMAIN b[k]
  BY <1>1
<1>5. ASSUME NEW st \in DOMAIN b[k], NEW j \in 1 .. Len(b[k][st])
      PROVE  /\ P[k][st][j].seqs = b[k][st][j]
             /\ P[k][st][j].tok = tok
  BY <1>1
<1> HIDE DEF P
<1>7. PICK Q : Q = P
  OBVIOUS
<1>8. /\ DOMAIN Q[k] = DOMAIN b[k]
      /\ \A st \in DOMAIN b[k] :
           /\ Len(b[k][st]) \in Nat /\ Len(Q[k][st]) = Len(b[k][st])
           /\ \A j \in 1 .. Len(b[k][st]) :
                /\ b[k][st][j] \in (SUBSET Seqs) \ {{}}
                /\ Q[k][st][j].seqs = b[k][st][j]
                /\ Q[k][st][j].tok = tok
  BY <1>3, <1>4, <1>5, <1>7
<1> QED
  BY <1>7, <1>8 DEF P

\* It gets the position each of its sequences has for it.
LEMMA PositionedPos ==
  ASSUME NEW b \in Batches, NEW tok \in Toks, Accepted(b), NEW k \in 1 .. Len(b),
         NEW st \in DOMAIN b[k], NEW j \in 1 .. Len(b[k][st]), NEW s \in b[k][st][j]
  PROVE  Positioned(b, tok)[k][st][j].pos = BatchPos(b, k, st, j, s)
<1>1. PICK S : S = b[k][st][j]
  OBVIOUS
<1>2. PICK first : first = CHOOSE q \in S : TRUE
  OBVIOUS
<1>3. first \in S
  BY <1>1, <1>2, ChoiceIsMember
<1>4. Positioned(b, tok)[k][st][j].pos = BatchPos(b, k, st, j, first)
  BY <1>1, <1>2 DEF Positioned
<1>5. <<k, st, j>> \in Tokens(b)
  BY DEF Tokens
<1>6. BatchPos(b, k, st, j, first) = BatchPos(b, k, st, j, s)
  BY <1>1, <1>3, <1>5 DEF Accepted
<1> QED
  BY <1>4, <1>6

\* A call whose tokens have one owner each stays one until it returns.
LEMMA OwnersKeeps ==
  ASSUME \A b \in Batches : OneOwner(b), IInv, OwnersInv, Next
  PROVE  OwnersInv'
<1>1. CASE UNCHANGED batch
  BY <1>1 DEF OwnersInv
<1>2. CASE batch' = <<>>
  BY <1>2 DEF OwnersInv
<1>3. CASE \E b \in Batches, tok \in Toks : DecodeBegin(b, tok)
  <2>1. PICK b \in Batches, tok \in Toks : DecodeBegin(b, tok)
    BY <1>3
  <2>2. PICK P : P = Positioned(b, tok) /\ batch' = P
    BY <2>1 DEF DecodeBegin
  <2>3. Len(b) \in Nat /\ Len(P) = Len(b)
    BY <2>1, <2>2, PositionedOK DEF DecodeBegin
  <2> SUFFICES ASSUME "compute" \in Failures,
                      NEW k \in 1 .. Len(P), NEW st \in DOMAIN P[k], NEW j \in 1 .. Len(P[k][st])
               PROVE  \E s \in Seqs : P[k][st][j].seqs = {s}
    BY <2>2 DEF OwnersInv
  <2>k. k \in 1 .. Len(b)
    BY <2>3
  <2>s. st \in DOMAIN b[k]
    BY <2>2, <2>k, PositionedTokens
  <2>j. Len(P[k][st]) = Len(b[k][st]) /\ j \in 1 .. Len(b[k][st])
    BY <2>2, <2>k, <2>s, PositionedTokens
  <2>t. P[k][st][j].seqs = b[k][st][j]
    <3>1. Positioned(b, tok)[k][st][j].seqs = b[k][st][j]
      BY <2>k, <2>s, <2>j, PositionedTokens
    <3> QED
      BY <2>2, <3>1
  <2>4. st \in DOMAIN b[k] /\ Len(P[k][st]) = Len(b[k][st]) /\ P[k][st][j].seqs = b[k][st][j]
    BY <2>s, <2>j, <2>t
  <2> QED
    BY <2>3, <2>4 DEF OneOwner
<1>4. CASE Operate
  <2>1. UNCHANGED callVars
    BY <1>4 DEF Operate, SeqRm, SeqRmAny, SeqCpShared, SeqCpStream, SeqKeep, SeqAdd, SeqDiv, Clear, Client
  <2> QED
    BY <1>1, <2>1 DEF callVars
<1>5. CASE Update \/ Prepare
  BY <1>1, <1>5 DEF Update, UpdateCopy, UpdateShift, UpdateShiftFails, UpdateNothing,
                    Prepare, PrepareUbatch, PrepareEnds, RestoreUbatch
<1>6. CASE Outcome \/ Process
  BY <1>1, <1>2, <1>6 DEF Outcome, RetryPrepare, RefuseBatch, ReserveFails, StartUbatches,
                          Process, Apply, Compute, ComputeFails, Return
<1> QED
  BY <1>3, <1>4, <1>5, <1>6 DEF Next, Decode

\* The tokens of ubatch u that sequence s owns, by their place in the row of s.
OwnTokens(u, s) ==
  IF SeqToStream(s) \in DOMAIN u
  THEN {j \in 1 .. Len(u[SeqToStream(s)]) : s \in u[SeqToStream(s)][j].seqs}
  ELSE {}

\* They take the positions from .. to - 1, each once.
Continues(u, s, from, to) ==
  /\ {u[SeqToStream(s)][j].pos : j \in OwnTokens(u, s)} = from .. to - 1
  /\ Cardinality(OwnTokens(u, s)) = to - from

\* The largest position sequence s holds is n - 1.
NextAt(s, n) ==
  /\ \A e \in SeqContent[s] : e.pos < n
  /\ n = 0 \/ \E e \in SeqContent[s] : e.pos = n - 1

\* Every token of the call is of kind tok.
OneKind(tok) ==
  \A k \in 1 .. Len(batch) : \A st \in DOMAIN batch[k] : \A j \in 1 .. Len(batch[k][st]) :
    batch[k][st][j].tok = tok

\* The ubatches of a call continue each sequence, one after the other, from what it
\* holds when the ubatch starts; all of a call's tokens are of one kind.
CountInv ==
  phase # "idle" =>
    /\ \E tok \in Toks : OneKind(tok)
    /\ \A s \in Seqs : \E next \in [1 .. Len(batch) + 1 -> Nat] :
         /\ \A k \in 1 .. Len(batch) : Continues(batch[k], s, next[k], next[k + 1])
         /\ NextAt(s, next[IF phase \in {"apply", "compute"} THEN iCur ELSE 1])

(***************************************************************************)
(* Counting the tokens of a sequence.                                       *)
(***************************************************************************)

\* Adding the places T of one more ubatch.
LEMMA OneMoreCounts ==
  ASSUME NEW S, IsFiniteSet(S), NEW T, IsFiniteSet(T), NEW k, S \cap ({k} \X T) = {}
  PROVE  /\ IsFiniteSet(S \cup ({k} \X T))
         /\ Cardinality(S \cup ({k} \X T)) = Cardinality(S) + Cardinality(T)
<1>1. IsFiniteSet({k}) /\ Cardinality({k}) = 1
  BY FS_Singleton
<1>2. PICK Y : Y = {k} \X T
  OBVIOUS
<1>3. IsFiniteSet(Y) /\ Cardinality(Y) = Cardinality({k}) * Cardinality(T)
  BY <1>1, <1>2, FS_Product
<1>4. Cardinality(S) \in Nat /\ Cardinality(T) \in Nat
  BY FS_CardinalityType
<1>5. Cardinality(Y) = Cardinality(T)
  BY <1>1, <1>3, <1>4
<1>6. IsFiniteSet(S \cup Y) /\ Cardinality(S \cup Y) = Cardinality(S) + Cardinality(Y) - Cardinality(S \cap Y)
  BY <1>3, FS_Union
<1>7. Cardinality(S \cap Y) = 0
  BY <1>2, FS_EmptySet
<1> QED
  BY <1>2, <1>4, <1>5, <1>6, <1>7

\* The places of sequence s in ubatch k of a submitted batch, and its tokens in the
\* ubatches up to k.
Places(b, k, s) ==
  IF SeqToStream(s) \in DOMAIN b[k]
  THEN {j \in 1 .. Len(b[k][SeqToStream(s)]) : s \in b[k][SeqToStream(s)][j]}
  ELSE {}
Upto(b, k, s) == UNION {{v} \X Places(b, v, s) : v \in 1 .. k}

LEMMA PlacesOK ==
  ASSUME NEW b \in Batches, NEW k \in 1 .. Len(b), NEW s \in Seqs
  PROVE  /\ IsFiniteSet(Places(b, k, s)) /\ Cardinality(Places(b, k, s)) \in Nat
         /\ \E n \in Nat : Places(b, k, s) \in SUBSET (1 .. n)
<1>1. \A st \in DOMAIN b[k] : Len(b[k][st]) \in Nat
  <2>1. IsUbatch(b[k])
    BY ConstAssumption
  <2>2. ASSUME NEW st \in DOMAIN b[k] PROVE Len(b[k][st]) \in Nat
    <3>1. b[k][st] \in Seq((SUBSET Seqs) \ {{}})
      BY <2>1 DEF IsUbatch
    <3> QED
      BY <3>1, LenProperties
  <2> QED
    BY <2>2
<1>2. \E n \in Nat : Places(b, k, s) \in SUBSET (1 .. n)
  <2>1. CASE SeqToStream(s) \in DOMAIN b[k]
    BY <1>1, <2>1 DEF Places
  <2>2. CASE SeqToStream(s) \notin DOMAIN b[k]
    <3>1. Places(b, k, s) \in SUBSET (1 .. 0)
      BY <2>2 DEF Places
    <3> QED
      BY <3>1
  <2> QED
    BY <2>1, <2>2
<1> QED
  BY <1>2, PlacesFinite

\* One ubatch after the other.
LEMMA UptoCounts ==
  ASSUME NEW b \in Batches, NEW s \in Seqs
  PROVE  /\ Upto(b, 0, s) = {} /\ Cardinality(Upto(b, 0, s)) = 0
         /\ \A k \in 0 .. Len(b) :
              IsFiniteSet(Upto(b, k, s)) /\ Cardinality(Upto(b, k, s)) \in Nat
         /\ \A k \in 1 .. Len(b) :
              Cardinality(Upto(b, k, s)) = Cardinality(Upto(b, k - 1, s)) + Cardinality(Places(b, k, s))
<1>1. Len(b) \in Nat
  BY ConstAssumption
<1>2. Upto(b, 0, s) = {} /\ Cardinality(Upto(b, 0, s)) = 0
  <2>1. 1 .. 0 = {}
    OBVIOUS
  <2>2. Upto(b, 0, s) = {}
    BY <2>1 DEF Upto
  <2> QED
    BY <2>2, FS_EmptySet
<1>3. ASSUME NEW k \in 1 .. Len(b)
      PROVE  /\ Upto(b, k, s) = Upto(b, k - 1, s) \cup ({k} \X Places(b, k, s))
             /\ Upto(b, k - 1, s) \cap ({k} \X Places(b, k, s)) = {}
  <2>1. PICK m : m = k - 1
    OBVIOUS
  <2>2. m \in Nat /\ 1 .. k = (1 .. m) \cup {k} /\ k \notin 1 .. m
    BY <1>1, <2>1
  <2>3. Upto(b, k, s) = Upto(b, m, s) \cup ({k} \X Places(b, k, s))
    BY <2>2 DEF Upto
  <2>4. Upto(b, m, s) \cap ({k} \X Places(b, k, s)) = {}
    BY <2>2 DEF Upto
  <2> QED
    BY <2>1, <2>3, <2>4
<1>4. \A k \in Nat : k \in 0 .. Len(b) => IsFiniteSet(Upto(b, k, s))
  <2> DEFINE T == {m \in Nat : m \in 0 .. Len(b) => IsFiniteSet(Upto(b, m, s))}
  <2>1. 0 \in T
    BY <1>2, FS_EmptySet
  <2>2. ASSUME NEW m \in T PROVE m + 1 \in T
    <3> SUFFICES ASSUME m + 1 \in 0 .. Len(b) PROVE IsFiniteSet(Upto(b, m + 1, s))
      OBVIOUS
    <3>1. PICK k : k = m + 1
      OBVIOUS
    <3>2. k \in 1 .. Len(b) /\ k - 1 = m /\ m \in 0 .. Len(b)
      BY <1>1, <3>1
    <3>3. /\ Upto(b, k, s) = Upto(b, m, s) \cup ({k} \X Places(b, k, s))
          /\ Upto(b, m, s) \cap ({k} \X Places(b, k, s)) = {}
      BY <1>3, <3>2
    <3>4. IsFiniteSet(Upto(b, m, s)) /\ IsFiniteSet(Places(b, k, s))
      BY <3>2, PlacesOK
    <3>5. IsFiniteSet(Upto(b, k, s))
      <4>1. PICK S, P : S = Upto(b, m, s) /\ P = Places(b, k, s)
        OBVIOUS
      <4>2. IsFiniteSet(S \cup ({k} \X P))
        BY <3>3, <3>4, <4>1, OneMoreCounts
      <4> QED
        BY <3>3, <4>1, <4>2
    <3> QED
      BY <3>1, <3>5
  <2> HIDE DEF T
  <2>3. T \in SUBSET Nat
    BY DEF T
  <2>4. T = Nat
    BY <2>1, <2>2, <2>3, SetInduction
  <2> QED
    BY <2>4 DEF T
<1>5. \A k \in 0 .. Len(b) : IsFiniteSet(Upto(b, k, s)) /\ Cardinality(Upto(b, k, s)) \in Nat
  BY <1>1, <1>4, FS_CardinalityType
<1>6. ASSUME NEW k \in 1 .. Len(b)
      PROVE  Cardinality(Upto(b, k, s)) = Cardinality(Upto(b, k - 1, s)) + Cardinality(Places(b, k, s))
  <2>1. k - 1 \in 0 .. Len(b)
    BY <1>1
  <2>2. IsFiniteSet(Upto(b, k - 1, s)) /\ IsFiniteSet(Places(b, k, s))
    BY <1>5, <2>1, PlacesOK
  <2>3. PICK S, P : S = Upto(b, k - 1, s) /\ P = Places(b, k, s)
    OBVIOUS
  <2>4. Cardinality(S \cup ({k} \X P)) = Cardinality(S) + Cardinality(P)
    BY <1>3, <2>2, <2>3, OneMoreCounts
  <2>5. Upto(b, k, s) = S \cup ({k} \X P)
    BY <1>3, <2>3
  <2> QED
    BY <2>3, <2>4, <2>5
<1> QED
  BY <1>2, <1>5, <1>6

\* The tokens of sequence s that come before token j of its row in ubatch k.
LEMMA EarlierTokens ==
  ASSUME NEW b \in Batches, NEW k \in 1 .. Len(b), NEW s \in Seqs, NEW j \in Places(b, k, s)
  PROVE  Earlier(b, k, SeqToStream(s), j, s) =
           Upto(b, k - 1, s) \cup ({k} \X {i \in Places(b, k, s) : i < j})
<1>1. PICK st : st = SeqToStream(s)
  OBVIOUS
<1>2. PICK m : m = k - 1
  OBVIOUS
<1>3. m \in Nat /\ Len(b) \in Nat /\ k \in Nat /\ 1 .. k = (1 .. m) \cup {k}
  BY <1>2, ConstAssumption
<1>k. \A v \in 1 .. m : v < k /\ v # k
  BY <1>2, <1>3
<1>4. \A v, i : i \in Places(b, v, s) <=> st \in DOMAIN b[v] /\ i \in 1 .. Len(b[v][st]) /\ s \in b[v][st][i]
  BY <1>1 DEF Places
<1>5. \A e : e \in Upto(b, m, s) <=> \E v \in 1 .. m : \E i \in Places(b, v, s) : e = <<v, i>>
  BY DEF Upto
<1>6. \A e : e \in Earlier(b, k, st, j, s) <=>
               \E v \in 1 .. k : \E i \in Places(b, v, s) : e = <<v, i>> /\ (v < k \/ i < j)
  <2>1. ASSUME NEW e \in Earlier(b, k, st, j, s)
        PROVE  \E v \in 1 .. k : \E i \in Places(b, v, s) : e = <<v, i>> /\ (v < k \/ i < j)
    <3>1. PICK v \in 1 .. k : st \in DOMAIN b[v] /\ e \in {v} \X (1 .. Len(b[v][st]))
      BY DEF Earlier
    <3>2. PICK i \in 1 .. Len(b[v][st]) : e = <<v, i>>
      BY <3>1
    <3>3. (v < k \/ i < j) /\ s \in b[v][st][i]
      BY <3>2 DEF Earlier
    <3> QED
      BY <1>4, <3>1, <3>2, <3>3
  <2>2. ASSUME NEW v \in 1 .. k, NEW i \in Places(b, v, s), v < k \/ i < j
        PROVE  <<v, i>> \in Earlier(b, k, st, j, s)
    <3>1. st \in DOMAIN b[v] /\ i \in 1 .. Len(b[v][st]) /\ s \in b[v][st][i]
      BY <1>4
    <3> QED
      BY <2>2, <3>1 DEF Earlier
  <2> QED
    BY <2>1, <2>2
<1>7. ASSUME NEW e
      PROVE  e \in Earlier(b, k, st, j, s) <=>
               e \in Upto(b, m, s) \/ \E i \in Places(b, k, s) : e = <<k, i>> /\ i < j
  <2>1. ASSUME e \in Earlier(b, k, st, j, s)
        PROVE  e \in Upto(b, m, s) \/ \E i \in Places(b, k, s) : e = <<k, i>> /\ i < j
    <3>1. PICK v \in 1 .. k : \E i \in Places(b, v, s) : e = <<v, i>> /\ (v < k \/ i < j)
      BY <1>6, <2>1
    <3>2. PICK i \in Places(b, v, s) : e = <<v, i>> /\ (v < k \/ i < j)
      BY <3>1
    <3>3. v \in 1 .. m \/ (v = k /\ ~(v < k))
      <4>1. k \in Nat /\ v \in Nat /\ 1 <= v /\ v <= k
        BY <1>3
      <4> QED
        BY <1>2, <4>1
    <3> QED
      BY <1>5, <3>2, <3>3
  <2>2. ASSUME e \in Upto(b, m, s) PROVE e \in Earlier(b, k, st, j, s)
    <3>1. PICK v \in 1 .. m : \E i \in Places(b, v, s) : e = <<v, i>>
      BY <1>5, <2>2
    <3>2. v \in 1 .. k /\ v < k
      BY <1>3, <1>k
    <3> QED
      BY <1>6, <3>1, <3>2
  <2>3. ASSUME \E i \in Places(b, k, s) : e = <<k, i>> /\ i < j PROVE e \in Earlier(b, k, st, j, s)
    <3>1. k \in 1 .. k
      BY <1>3
    <3> QED
      BY <1>6, <2>3, <3>1
  <2> QED
    BY <2>1, <2>2, <2>3, Zenon
<1>8. \A e : e \in {k} \X {i \in Places(b, k, s) : i < j} <=>
               \E i \in Places(b, k, s) : e = <<k, i>> /\ i < j
  OBVIOUS
<1>9. Earlier(b, k, st, j, s) = Upto(b, m, s) \cup ({k} \X {i \in Places(b, k, s) : i < j})
  BY <1>7, <1>8
<1> QED
  BY <1>1, <1>2, <1>9

\* The call has them where the client had them.
LEMMA OwnArePlaces ==
  ASSUME NEW b \in Batches, NEW tok \in Toks, NEW k \in 1 .. Len(b), NEW s \in Seqs
  PROVE  OwnTokens(Positioned(b, tok)[k], s) = Places(b, k, s)
<1>1. PICK st, u : st = SeqToStream(s) /\ u = Positioned(b, tok)[k]
  OBVIOUS
<1>2. DOMAIN u = DOMAIN b[k]
  BY <1>1, PositionedTokens
<1>3. CASE st \notin DOMAIN u
  BY <1>1, <1>2, <1>3 DEF OwnTokens, Places
<1>4. CASE st \in DOMAIN u
  <2>1. Len(u[st]) = Len(b[k][st]) /\ \A j \in 1 .. Len(b[k][st]) : u[st][j].seqs = b[k][st][j]
    BY <1>1, <1>2, <1>4, PositionedTokens
  <2> QED
    BY <1>1, <1>2, <1>4, <2>1 DEF OwnTokens, Places
<1> QED
  BY <1>3, <1>4

\* The tokens of an ubatch continue the sequence where the ubatches before it end.
LEMMA PositionedContinues ==
  ASSUME NEW b \in Batches, NEW tok \in Toks, Accepted(b), NEW k \in 1 .. Len(b), NEW s \in Seqs,
         NEW base \in Nat, base = SeqPosMax(cells[SeqToStream(s)], s) + 1
  PROVE  Continues(Positioned(b, tok)[k], s,
                   base + Cardinality(Upto(b, k - 1, s)), base + Cardinality(Upto(b, k, s)))
<1>1. PICK st, u, P, from : /\ st = SeqToStream(s) /\ u = Positioned(b, tok)[k]
                            /\ P = Places(b, k, s) /\ from = base + Cardinality(Upto(b, k - 1, s))
  OBVIOUS
<1>2. /\ k - 1 \in 0 .. Len(b) /\ IsFiniteSet(Upto(b, k - 1, s)) /\ from \in Nat
      /\ Cardinality(Upto(b, k - 1, s)) \in Nat
      /\ base + Cardinality(Upto(b, k, s)) = from + Cardinality(P)
  <2>1. Len(b) \in Nat
    BY ConstAssumption
  <2>2. k - 1 \in 0 .. Len(b)
    BY <2>1
  <2>3. /\ IsFiniteSet(Upto(b, k - 1, s)) /\ Cardinality(Upto(b, k - 1, s)) \in Nat
        /\ Cardinality(Upto(b, k, s)) = Cardinality(Upto(b, k - 1, s)) + Cardinality(Places(b, k, s))
    BY <2>2, UptoCounts
  <2>4. Cardinality(P) \in Nat
    BY <1>1, PlacesOK
  <2>5. PICK x, y, z : x = Cardinality(Upto(b, k - 1, s)) /\ y = Cardinality(P) /\ z = Cardinality(Upto(b, k, s))
    OBVIOUS
  <2>6. x \in Nat /\ y \in Nat /\ z = x + y /\ from = base + x
    BY <1>1, <2>3, <2>4, <2>5
  <2>7. from \in Nat /\ base + z = from + y
    BY <2>6
  <2> QED
    BY <2>2, <2>3, <2>5, <2>7
<1>3. PICK n \in Nat : P \in SUBSET (1 .. n)
  BY <1>1, PlacesOK
<1>4. OwnTokens(u, s) = P
  BY <1>1, OwnArePlaces
<1>5. ASSUME NEW j \in P PROVE u[st][j].pos = from + Before(P, j)
  <2>1. st \in DOMAIN b[k] /\ j \in 1 .. Len(b[k][st]) /\ s \in b[k][st][j]
    BY <1>1 DEF Places
  <2>2. u[st][j].pos = BatchPos(b, k, st, j, s)
    BY <1>1, <2>1, PositionedPos
  <2>3. PICK R : R = {i \in P : i < j}
    OBVIOUS
  <2>4. R \in SUBSET (1 .. n) /\ Before(P, j) = Cardinality(R)
    BY <1>3, <2>3 DEF Before
  <2>5. IsFiniteSet(R) /\ Cardinality(R) \in Nat
    BY <2>4, PlacesFinite
  <2>6. PICK S : S = Upto(b, k - 1, s)
    OBVIOUS
  <2>7. Earlier(b, k, st, j, s) = S \cup ({k} \X R)
    BY <1>1, <2>3, <2>6, EarlierTokens
  <2>8. S \cap ({k} \X R) = {}
    <3>1. \A v \in 1 .. k - 1 : v # k
      BY <1>2
    <3> QED
      BY <2>6, <3>1 DEF Upto
  <2>f. IsFiniteSet(S)
    BY <1>2, <2>6
  <2>9. Cardinality(Earlier(b, k, st, j, s)) = Cardinality(S) + Cardinality(R)
    <3>1. Cardinality(S \cup ({k} \X R)) = Cardinality(S) + Cardinality(R)
      BY <2>5, <2>8, <2>f, OneMoreCounts
    <3> QED
      BY <2>7, <3>1
  <2> QED
    BY <1>1, <1>2, <2>2, <2>4, <2>5, <2>6, <2>9 DEF BatchPos
<1>6. {u[st][j].pos : j \in P} = from .. (from + Cardinality(P)) - 1
  <2>1. {Before(P, j) : j \in P} = 0 .. Cardinality(P) - 1
    BY <1>3, RanksCount
  <2>2. PICK c : c = Cardinality(P)
    OBVIOUS
  <2>3. c \in Nat
    BY <1>1, <2>2, PlacesOK
  <2>4. ASSUME NEW p \in {u[st][j].pos : j \in P} PROVE p \in from .. (from + c) - 1
    <3>1. PICK j \in P : p = u[st][j].pos
      OBVIOUS
    <3>2. PICK x : x = Before(P, j)
      OBVIOUS
    <3>3. x \in 0 .. c - 1
      BY <2>1, <2>2, <3>2
    <3>4. p = from + x
      BY <1>5, <3>1, <3>2
    <3> QED
      BY <1>2, <2>3, <3>3, <3>4
  <2>5. ASSUME NEW p \in from .. (from + c) - 1 PROVE p \in {u[st][j].pos : j \in P}
    <3>1. PICK x : x = p - from
      OBVIOUS
    <3>2. x \in 0 .. c - 1 /\ p = from + x
      BY <1>2, <2>3, <3>1
    <3>3. PICK j \in P : x = Before(P, j)
      BY <2>1, <2>2, <3>2
    <3>4. u[st][j].pos = p
      BY <1>5, <3>2, <3>3
    <3> QED
      BY <3>4
  <2> QED
    BY <2>2, <2>4, <2>5
<1>7. Cardinality(P) = (from + Cardinality(P)) - from
  <2>1. Cardinality(P) \in Nat
    BY <1>1, PlacesOK
  <2> QED
    BY <1>2, <2>1
<1>8. Continues(u, s, from, from + Cardinality(P))
  <2>1. {u[SeqToStream(s)][j].pos : j \in OwnTokens(u, s)} = {u[st][j].pos : j \in P}
    BY <1>1, <1>4
  <2>2. {u[SeqToStream(s)][j].pos : j \in OwnTokens(u, s)} = from .. (from + Cardinality(P)) - 1
    BY <1>6, <2>1
  <2>3. Cardinality(OwnTokens(u, s)) = (from + Cardinality(P)) - from
    BY <1>4, <1>7
  <2> QED
    BY <2>2, <2>3 DEF Continues
<1> QED
  BY <1>1, <1>2, <1>8

\* A bounded set of naturals has a greatest member.
LEMMA GreatestIsMaximum ==
  ASSUME NEW n \in Nat, NEW S \in SUBSET (0 .. n), S # {}
  PROVE  Greatest(S) \in S /\ \A y \in S : y <= Greatest(S)
<1>1. PICK U : U = {n - x : x \in S}
  OBVIOUS
<1>2. U \in SUBSET Nat /\ U # {}
  <2>1. \A x \in S : n - x \in Nat
    <3>1. ASSUME NEW x \in S PROVE n - x \in Nat
      <4>1. x \in 0 .. n
        OBVIOUS
      <4> QED
        BY <4>1
    <3> QED
      BY <3>1
  <2> QED
    BY <1>1, <2>1
<1>3. PICK m : m = Least(U)
  OBVIOUS
<1>4. m \in U /\ \A y \in U : m <= y
  BY <1>2, <1>3, LeastIsMinimum
<1>5. PICK g \in S : m = n - g
  BY <1>1, <1>4
<1>6. ASSUME NEW y \in S PROVE g >= y
  <2>1. n - y \in U
    BY <1>1
  <2>2. m <= n - y
    BY <1>4, <2>1
  <2> QED
    BY <1>5, <2>2
<1>7. PICK h : h = CHOOSE x \in S : \A y \in S : x >= y
  OBVIOUS
<1>8. h \in S /\ \A y \in S : h >= y
  BY <1>6, <1>7
<1>9. \A y \in S : y <= h
  BY <1>8
<1> QED
  BY <1>7, <1>8, <1>9 DEF Greatest

\* Between calls the next position of a sequence is the one after its largest.
LEMMA NextIsAt ==
  ASSUME IInv, phase = "idle", NEW s \in Seqs
  PROVE  /\ SeqPosMax(cells[SeqToStream(s)], s) + 1 \in Nat
         /\ NextAt(s, SeqPosMax(cells[SeqToStream(s)], s) + 1)
<1>1. PICK st : st = SeqToStream(s)
  OBVIOUS
<1>2. st \in Streams
  BY <1>1, StreamOfSeq
<1>3. PICK row, buf : row = cells[st] /\ buf = Settled[st]
  OBVIOUS
<1>4. row \in [Idxs -> Cell] /\ \A i \in Idxs : CellOK(st, row[i])
  BY <1>2, <1>3 DEF IInv, TypeOK
<1>5. PICK S : S = SeqPositions(row, s)
  OBVIOUS
<1>6. \A p : p \in S <=> \E i \in Idxs : s \in row[i].seqs /\ p = row[i].pos
  <2>1. DOMAIN row = Idxs
    BY <1>4
  <2> QED
    BY <1>5, <2>1 DEF SeqPositions
<1>7. S \in SUBSET (0 .. MaxPos)
  <2>1. ASSUME NEW p \in S PROVE p \in 0 .. MaxPos
    <3>1. PICK i \in Idxs : s \in row[i].seqs /\ p = row[i].pos
      BY <1>6
    <3>2. CellOK(st, row[i])
      BY <1>4
    <3> QED
      BY <3>1, <3>2, ConstAssumption DEF CellOK, IsEmpty, Cell
  <2> QED
    BY <2>1
<1>8. \A e : e \in SeqContent[s] <=> \E i \in Idxs : s \in row[i].seqs /\ e = Meaning(row[i], buf[i])
  <2>1. SeqContent[s] = Held(row, buf, {}, s)
    BY <1>1, <1>2, <1>3, ContentHeld, IdleHides
  <2> QED
    BY <2>1, HeldMembers
<1>9. PICK n : n = SeqPosMax(row, s) + 1
  OBVIOUS
<1>10. n \in Nat /\ (\A p \in S : p < n) /\ (n = 0 \/ n - 1 \in S)
  <2>1. CASE S = {}
    BY <1>5, <1>9, <2>1 DEF SeqPosMax
  <2>2. CASE S # {}
    <3>1. PICK g : g = Greatest(S)
      OBVIOUS
    <3>2. g \in S /\ \A p \in S : p <= g
      BY <1>7, <2>2, <3>1, GreatestIsMaximum, ConstAssumption
    <3>3. n = g + 1
      BY <1>5, <1>9, <2>2, <3>1 DEF SeqPosMax
    <3>4. S \subseteq Int /\ g \in Nat
      BY <1>7, <3>2
    <3> QED
      BY <3>2, <3>3, <3>4
  <2> QED
    BY <2>1, <2>2
<1>11. \A e \in SeqContent[s] : e.pos < n
  BY <1>6, <1>8, <1>10, MeaningPos
<1>12. n = 0 \/ \E e \in SeqContent[s] : e.pos = n - 1
  <2>1. CASE n - 1 \in S
    <3>1. PICK i \in Idxs : s \in row[i].seqs /\ n - 1 = row[i].pos
      BY <1>6, <2>1
    <3>2. Meaning(row[i], buf[i]) \in SeqContent[s]
      BY <1>8, <3>1
    <3>3. Meaning(row[i], buf[i]).pos = n - 1
      BY <3>1, MeaningPos
    <3> QED
      BY <3>2, <3>3
  <2> QED
    BY <1>10, <2>1
<1> QED
  BY <1>1, <1>3, <1>9, <1>10, <1>11, <1>12 DEF NextAt

\* A call starts with tokens that continue what its sequences hold.
LEMMA DecodeBeginCounts ==
  ASSUME IInv, QueueInv, NEW b \in Batches, NEW tok \in Toks, DecodeBegin(b, tok)
  PROVE  CountInv'
<1>1. /\ phase = "idle" /\ phase' = "update" /\ batch' = Positioned(b, tok) /\ Accepted(b)
  BY DEF DecodeBegin
<1>2. PICK P : P = Positioned(b, tok) /\ batch' = P
  BY <1>1
<1>3. Len(b) \in Nat /\ Len(P) = Len(b)
  BY <1>1, <1>2, PositionedOK
<1>4. SeqContent' = SeqContent
  BY DecodeBeginUnnoticed
<1>5. ASSUME NEW k \in 1 .. Len(P), NEW st \in DOMAIN P[k], NEW j \in 1 .. Len(P[k][st])
      PROVE  P[k][st][j].tok = tok
  <2>k. k \in 1 .. Len(b)
    BY <1>3
  <2>s. st \in DOMAIN b[k]
    BY <1>2, <2>k, PositionedTokens
  <2>j. j \in 1 .. Len(b[k][st])
    BY <1>2, <2>k, <2>s, PositionedTokens
  <2> QED
    BY <1>2, <2>k, <2>s, <2>j, PositionedTokens
<1>6. ASSUME NEW s \in Seqs
      PROVE  \E next \in [1 .. Len(P) + 1 -> Nat] :
               /\ \A k \in 1 .. Len(P) : Continues(P[k], s, next[k], next[k + 1])
               /\ NextAt(s, next[1])
  <2>1. PICK base : base = SeqPosMax(cells[SeqToStream(s)], s) + 1
    OBVIOUS
  <2>2. base \in Nat /\ NextAt(s, base)
    BY <1>1, <2>1, NextIsAt
  <2>3. PICK next : next = [k \in 1 .. Len(P) + 1 |-> base + Cardinality(Upto(b, k - 1, s))]
    OBVIOUS
  <2>4. next \in [1 .. Len(P) + 1 -> Nat]
    <3>1. \A k \in 1 .. Len(P) + 1 : base + Cardinality(Upto(b, k - 1, s)) \in Nat
      <4>1. ASSUME NEW k \in 1 .. Len(P) + 1 PROVE base + Cardinality(Upto(b, k - 1, s)) \in Nat
        <5>1. k - 1 \in 0 .. Len(b)
          BY <1>3
        <5>2. Cardinality(Upto(b, k - 1, s)) \in Nat
          BY <5>1, UptoCounts
        <5> QED
          BY <2>2, <5>2
      <4> QED
        BY <4>1
    <3> QED
      BY <2>3, <3>1
  <2>5. ASSUME NEW k \in 1 .. Len(P) PROVE Continues(P[k], s, next[k], next[k + 1])
    <3>1. k \in 1 .. Len(b) /\ k \in 1 .. Len(P) + 1 /\ k + 1 \in 1 .. Len(P) + 1 /\ (k + 1) - 1 = k
      BY <1>3
    <3>2. next[k] = base + Cardinality(Upto(b, k - 1, s)) /\ next[k + 1] = base + Cardinality(Upto(b, k, s))
      BY <2>3, <3>1
    <3>3. Continues(Positioned(b, tok)[k], s,
                    base + Cardinality(Upto(b, k - 1, s)), base + Cardinality(Upto(b, k, s)))
      BY <1>1, <2>1, <2>2, <3>1, PositionedContinues
    <3> QED
      BY <1>2, <3>2, <3>3
  <2>6. next[1] = base
    <3>1. 1 \in 1 .. Len(P) + 1 /\ 1 - 1 = 0
      BY <1>3
    <3>2. next[1] = base + Cardinality(Upto(b, 0, s))
      BY <2>3, <3>1
    <3>3. Cardinality(Upto(b, 0, s)) = 0
      BY UptoCounts
    <3> QED
      BY <2>2, <3>2, <3>3
  <2> QED
    BY <2>2, <2>4, <2>5, <2>6
<1> QED
  BY <1>1, <1>2, <1>4, <1>5, <1>6 DEF CountInv, NextAt, OneKind

\* No ubatch has more tokens of a sequence than MaxAppend, the bound of SeqMemory.
FewTokens(b) == \A k \in 1 .. Len(b) : \A s \in Seqs : Cardinality(Places(b, k, s)) <= MaxAppend
AppendInv ==
  \A k \in 1 .. Len(batch) : \A s \in Seqs : Cardinality(OwnTokens(batch[k], s)) <= MaxAppend

LEMMA AppendKeeps ==
  ASSUME \A b \in Batches : FewTokens(b), IInv, AppendInv, Next
  PROVE  AppendInv'
<1>1. CASE UNCHANGED batch
  BY <1>1 DEF AppendInv
<1>2. CASE batch' = <<>>
  BY <1>2 DEF AppendInv
<1>3. CASE \E b \in Batches, tok \in Toks : DecodeBegin(b, tok)
  <2>1. PICK b \in Batches, tok \in Toks : DecodeBegin(b, tok)
    BY <1>3
  <2>2. PICK P : P = Positioned(b, tok) /\ batch' = P
    BY <2>1 DEF DecodeBegin
  <2>3. Len(b) \in Nat /\ Len(P) = Len(b)
    BY <2>1, <2>2, PositionedOK DEF DecodeBegin
  <2>4. ASSUME NEW k \in 1 .. Len(P), NEW s \in Seqs PROVE Cardinality(OwnTokens(P[k], s)) <= MaxAppend
    <3>1. k \in 1 .. Len(b)
      BY <2>3
    <3>2. OwnTokens(P[k], s) = Places(b, k, s)
      BY <2>2, <3>1, OwnArePlaces
    <3>3. Cardinality(Places(b, k, s)) <= MaxAppend
      BY <3>1 DEF FewTokens
    <3> QED
      BY <3>2, <3>3
  <2> QED
    BY <2>2, <2>4 DEF AppendInv
<1>4. CASE Operate
  <2>1. UNCHANGED callVars
    BY <1>4 DEF Operate, SeqRm, SeqRmAny, SeqCpShared, SeqCpStream, SeqKeep, SeqAdd, SeqDiv, Clear, Client
  <2> QED
    BY <1>1, <2>1 DEF callVars
<1>5. CASE Update \/ Prepare
  BY <1>1, <1>5 DEF Update, UpdateCopy, UpdateShift, UpdateShiftFails, UpdateNothing,
                    Prepare, PrepareUbatch, PrepareEnds, RestoreUbatch
<1>6. CASE Outcome \/ Process
  BY <1>1, <1>2, <1>6 DEF Outcome, RetryPrepare, RefuseBatch, ReserveFails, StartUbatches,
                          Process, Apply, Compute, ComputeFails, Return
<1> QED
  BY <1>3, <1>4, <1>5, <1>6 DEF Next, Decode

\* Of two memories with the same positions, one has an entry where the other has.
LEMMA PositionKept ==
  ASSUME SamePositions, NEW s \in Seqs
  PROVE  /\ \A e \in SeqContent[s] : \E f \in SeqContent'[s] : f.pos = e.pos
         /\ \A f \in SeqContent'[s] : \E e \in SeqContent[s] : f.pos = e.pos
<1>1. PICK now, then : now = SeqContent[s] /\ then = SeqContent'[s]
  OBVIOUS
<1>2. {e.pos : e \in then} = {e.pos : e \in now}
  BY <1>1 DEF SamePositions
<1>3. \A e \in now : e.pos \in {f.pos : f \in then}
  BY <1>2
<1>4. \A f \in then : f.pos \in {e.pos : e \in now}
  BY <1>2
<1> QED
  BY <1>1, <1>3, <1>4

\* A step that moves no position, inside a call.
LEMMA CountStays ==
  ASSUME CountInv, phase # "idle", UNCHANGED batch, SamePositions,
         \/ phase' \notin {"apply", "compute"} /\ phase \notin {"apply", "compute"}
         \/ phase' = "apply" /\ iCur' = 1 /\ phase \notin {"apply", "compute"}
         \/ phase' = "compute" /\ phase = "apply" /\ UNCHANGED iCur
  PROVE  CountInv'
<1>1. PICK now, then : /\ now = (IF phase \in {"apply", "compute"} THEN iCur ELSE 1)
                       /\ then = (IF phase' \in {"apply", "compute"} THEN iCur' ELSE 1)
  OBVIOUS
<1>2. now = then
  BY <1>1
<1>4. ASSUME NEW s \in Seqs
      PROVE  \E next \in [1 .. Len(batch) + 1 -> Nat] :
               /\ \A k \in 1 .. Len(batch) : Continues(batch[k], s, next[k], next[k + 1])
               /\ NextAt(s, next[then])'
  <2>1. PICK next \in [1 .. Len(batch) + 1 -> Nat] :
               /\ \A k \in 1 .. Len(batch) : Continues(batch[k], s, next[k], next[k + 1])
               /\ NextAt(s, next[now])
    BY <1>1 DEF CountInv
  <2>2. NextAt(s, next[then])'
    <3>1. \A e \in SeqContent[s] : \E f \in SeqContent'[s] : f.pos = e.pos
      BY PositionKept
    <3>2. \A f \in SeqContent'[s] : \E e \in SeqContent[s] : f.pos = e.pos
      BY PositionKept
    <3> QED
      BY <1>2, <2>1, <3>1, <3>2 DEF NextAt
  <2> QED
    BY <2>1, <2>2
<1>5. \E tok \in Toks : OneKind(tok)'
  BY DEF CountInv, OneKind
<1> QED
  BY <1>1, <1>4, <1>5 DEF CountInv, NextAt

(***************************************************************************)
(* A graph that has run: its ubatch becomes the client's.                   *)
(***************************************************************************)

\* The cell of token j of a row that is being computed.
LEMMA TokenCells ==
  ASSUME IInv, SlotsInv, PlacedInv, phase = "compute",
         NEW st \in DOMAIN batch[iCur], NEW j \in 1 .. Len(batch[iCur][st]),
         NEW i, i = plan[iCur].slots[st][j]
  PROVE  /\ st \in Streams /\ i \in Idxs /\ i \in SlotCells(plan[iCur].slots[st])
         /\ (CHOOSE m \in DOMAIN plan[iCur].slots[st] : plan[iCur].slots[st][m] = i) = j
         /\ cells[st][i] = TokenCell(batch[iCur][st][j].pos, batch[iCur][st][j].seqs)
<1>1. PICK u, slot : u = batch[iCur] /\ slot = plan[iCur].slots[st]
  OBVIOUS
<1>2. /\ iCur \in 1 .. Len(plan) /\ UbatchOK(u) /\ SlotsFit(u, plan[iCur].slots)
  BY <1>1, CurrentUbatch
<1>3. st \in Streams /\ slot \in [1 .. Len(u[st]) -> Idxs]
  BY <1>1, <1>2 DEF UbatchOK, SlotsFit
<1>4. i \in Idxs /\ i \in SlotCells(slot) /\ i = slot[j] /\ j \in DOMAIN slot
  BY <1>1, <1>3 DEF SlotCells
<1>5. \A m \in DOMAIN slot : slot[m] = i => m = j
  BY <1>1, <1>2, <1>3, <1>4 DEF SlotsInv
<1>6. PICK x : x = CHOOSE m \in DOMAIN slot : slot[m] = i
  OBVIOUS
<1>7. x = j
  BY <1>4, <1>5, <1>6
<1>8. cells[st][i] = Placed(cells[st], u[st], slot)[i]
  BY <1>1, <1>4 DEF PlacedInv
<1>9. Placed(cells[st], u[st], slot)[i] = TokenCell(u[st][j].pos, u[st][j].seqs)
  BY <1>4, <1>6, <1>7 DEF Placed
<1> QED
  BY <1>1, <1>3, <1>4, <1>6, <1>7, <1>8, <1>9

\* What a graph leaves in a cell it reaches.
LEMMA WrittenAt ==
  ASSUME NEW buf, NEW u, NEW slots, NEW W, NEW st \in Streams, NEW i \in Idxs,
         st \in DOMAIN u, <<st, i>> \in W,
         NEW j, j = CHOOSE m \in DOMAIN slots[st] : slots[st][m] = i
  PROVE  Written(buf, u, slots, W)[st][i] = [tok |-> u[st][j].tok, rot |-> u[st][j].pos]
BY DEF Written

\* What the graph wrote, where it got to.
LEMMA WrittenCells ==
  ASSUME IInv, SlotsInv, PlacedInv, phase = "compute", NEW W \in SUBSET CurrentCells,
         NEW new, new = Written(data, batch[iCur], plan[iCur].slots, W)
  PROVE  /\ \A st \in Streams : \A i \in Idxs : <<st, i>> \notin W => new[st][i] = data[st][i]
         /\ \A st \in DOMAIN batch[iCur] : \A j \in 1 .. Len(batch[iCur][st]) :
              <<st, plan[iCur].slots[st][j]>> \in W =>
                new[st][plan[iCur].slots[st][j]] =
                  [tok |-> batch[iCur][st][j].tok, rot |-> batch[iCur][st][j].pos]
<1>1. ASSUME NEW st \in Streams, NEW i \in Idxs, <<st, i>> \notin W PROVE new[st][i] = data[st][i]
  BY <1>1 DEF Written
<1>2. ASSUME NEW st \in DOMAIN batch[iCur], NEW j \in 1 .. Len(batch[iCur][st]),
             <<st, plan[iCur].slots[st][j]>> \in W
      PROVE  new[st][plan[iCur].slots[st][j]] =
               [tok |-> batch[iCur][st][j].tok, rot |-> batch[iCur][st][j].pos]
  <2>1. PICK i, x : /\ i = plan[iCur].slots[st][j]
                    /\ x = CHOOSE m \in DOMAIN plan[iCur].slots[st] : plan[iCur].slots[st][m] = i
    OBVIOUS
  <2>2. st \in Streams /\ i \in Idxs /\ x = j
    BY <2>1, TokenCells
  <2>3. PICK u, slots : u = batch[iCur] /\ slots = plan[iCur].slots
    OBVIOUS
  <2>4. st \in DOMAIN u /\ <<st, i>> \in W /\ x = CHOOSE m \in DOMAIN slots[st] : slots[st][m] = i
    BY <1>2, <2>1, <2>3
  <2>5. new[st][i] = [tok |-> u[st][j].tok, rot |-> u[st][j].pos]
    <3>1. Written(data, u, slots, W)[st][i] = [tok |-> u[st][x].tok, rot |-> u[st][x].pos]
      BY <2>2, <2>4, WrittenAt
    <3> QED
      BY <2>2, <2>3, <3>1
  <2>6. new[st][plan[iCur].slots[st][j]] = new[st][i]
    BY <2>1
  <2> QED
    BY <2>3, <2>5, <2>6
<1> QED
  BY <1>1, <1>2

\* An own token of sequence s that is computed stands for its position and kind.
LEMMA OwnMeans ==
  ASSUME IInv, phase = "compute", NEW tok, OneKind(tok),
         NEW st \in DOMAIN batch[iCur], NEW j \in 1 .. Len(batch[iCur][st])
  PROVE  Meaning(TokenCell(batch[iCur][st][j].pos, batch[iCur][st][j].seqs),
                 [tok |-> batch[iCur][st][j].tok, rot |-> batch[iCur][st][j].pos]) =
           [pos |-> batch[iCur][st][j].pos, tok |-> tok]
<1>1. iCur \in 1 .. Len(batch) /\ UbatchOK(batch[iCur])
  BY CurrentUbatch
<1>2. PICK t : t = batch[iCur][st][j]
  OBVIOUS
<1>3. t.tok = tok /\ t.pos \in Int
  <2>1. TokenOK(st, t)
    BY <1>1, <1>2 DEF UbatchOK
  <2>2. t.pos \in 0 .. MaxPos - 1
    BY <2>1 DEF TokenOK, Token
  <2> QED
    BY <1>1, <1>2, <2>2, ConstAssumption DEF OneKind
<1>4. Meaning(TokenCell(t.pos, t.seqs), [tok |-> t.tok, rot |-> t.pos]) = [pos |-> t.pos, tok |-> tok]
  BY <1>3 DEF Meaning, TokenCell
<1> QED
  BY <1>2, <1>4

\* After a graph that succeeded the buffers are settled, and nothing is hidden.
LEMMA ComputeSettles ==
  ASSUME IInv, IInv', QueueInv, QueueInv', Compute
  PROVE  /\ Settled = data /\ Settled' = data' /\ UNCHANGED cells
         /\ \A st \in Streams : Hidden(st)' = {}
<1>1. phase = "compute" /\ phase' \in {"apply", "idle"} /\ UNCHANGED cells /\ UNCHANGED <<scInfo>>
      /\ copies' \in {<<>>, copies}
  BY DEF Compute, Return, memVars
<1>2. copies = <<>> /\ scInfo = <<>>
  BY <1>1 DEF QueueInv
<1>3. copies' \o scInfo' = <<>>
  BY <1>1, <1>2
<1>4. data' \in Bufs
  BY DEF IInv, TypeOK, Bufs
<1>5. Settled' = data'
  BY <1>3, <1>4, NoCopiesMade DEF Settled
<1> QED
  BY <1>1, <1>5, SettledIsData, NothingHidden

\* A sequence holds what it held, and its tokens of the ubatch.
LEMMA ComputeAdds ==
  ASSUME IInv, IInv', QueueInv, QueueInv', SlotsInv, PlacedInv, Compute, NEW tok, OneKind(tok),
         NEW s \in Seqs, NEW e
  PROVE  e \in SeqContent'[s] <=>
           \/ e \in SeqContent[s]
           \/ \E j \in OwnTokens(batch[iCur], s) :
                e = [pos |-> batch[iCur][SeqToStream(s)][j].pos, tok |-> tok]
<1>1. PICK st, u, slots, new, row :
        /\ st = SeqToStream(s) /\ u = batch[iCur] /\ slots = plan[iCur].slots
        /\ new = Written(data, u, slots, CurrentCells) /\ row = cells[st]
  OBVIOUS
<1>2. phase = "compute" /\ data' = new
  BY <1>1 DEF Compute
<1>3. st \in Streams /\ SlotsFit(u, slots) /\ UbatchOK(u)
  BY <1>1, <1>2, StreamOfSeq, CurrentUbatch
<1>4. \A f : f \in SeqContent[s] <=>
               \E i \in Idxs : s \in row[i].seqs /\ i \notin Hidden(st) /\ f = Meaning(row[i], data[st][i])
  <2>1. SeqContent[s] = Held(row, data[st], Hidden(st), s)
    BY <1>1, <1>3, ContentHeld, ComputeSettles
  <2> QED
    BY <2>1, HeldMembers
<1>5. \A f : f \in SeqContent'[s] <=>
               \E i \in Idxs : s \in row[i].seqs /\ f = Meaning(row[i], new[st][i])
  <2>1. SeqContent'[s] = Held(cells'[st], Settled'[st], Hidden(st)', s)
    BY <1>1 DEF SeqContent, Held
  <2>2. SeqContent'[s] = Held(row, new[st], {}, s)
    BY <1>1, <1>2, <1>3, <2>1, ComputeSettles
  <2> QED
    BY <2>2, HeldMembers
<1>6. \A i \in Idxs : /\ i \in Hidden(st) <=> <<st, i>> \in CurrentCells
                      /\ i \in Hidden(st) <=> st \in DOMAIN u /\ i \in SlotCells(slots[st])
  <2>1. ASSUME NEW i \in Idxs
        PROVE  /\ i \in Hidden(st) <=> <<st, i>> \in CurrentCells
               /\ i \in Hidden(st) <=> st \in DOMAIN u /\ i \in SlotCells(slots[st])
    <3>1. i \in Hidden(st) <=> <<st, i>> \in PlannedCells(iCur)
      BY <1>2, <1>3, HiddenCells
    <3> QED
      BY <1>1, <1>2, <1>3, <3>1, CurrentUbatch
  <2> QED
    BY <2>1
<1>7. \A i \in Idxs : i \notin Hidden(st) => new[st][i] = data[st][i]
  <2>1. \A i \in Idxs : <<st, i>> \notin CurrentCells => new[st][i] = data[st][i]
    <3>1. CurrentCells \in SUBSET CurrentCells
      OBVIOUS
    <3> QED
      BY <1>1, <1>2, <1>3, <3>1, WrittenCells
  <2> QED
    BY <1>6, <2>1
<1>8. ASSUME NEW j \in 1 .. Len(u[st]), st \in DOMAIN u
      PROVE  /\ slots[st][j] \in Idxs /\ slots[st][j] \in Hidden(st)
             /\ row[slots[st][j]].seqs = u[st][j].seqs
             /\ Meaning(row[slots[st][j]], new[st][slots[st][j]]) = [pos |-> u[st][j].pos, tok |-> tok]
  <2>1. PICK i : i = slots[st][j]
    OBVIOUS
  <2>2. i \in Idxs /\ i \in SlotCells(slots[st]) /\ row[i] = TokenCell(u[st][j].pos, u[st][j].seqs)
    BY <1>1, <1>2, <1>8, <2>1, TokenCells
  <2>3. i \in Hidden(st) /\ <<st, i>> \in CurrentCells
    BY <1>6, <1>8, <2>2
  <2>4. new[st][i] = [tok |-> u[st][j].tok, rot |-> u[st][j].pos]
    BY <1>1, <1>2, <1>8, <2>1, <2>3, WrittenCells
  <2>5. Meaning(TokenCell(u[st][j].pos, u[st][j].seqs), [tok |-> u[st][j].tok, rot |-> u[st][j].pos]) =
          [pos |-> u[st][j].pos, tok |-> tok]
    BY <1>1, <1>2, <1>8, OwnMeans
  <2> QED
    BY <2>1, <2>2, <2>3, <2>4, <2>5 DEF TokenCell
<1>9. ASSUME e \in SeqContent'[s]
      PROVE  e \in SeqContent[s] \/ \E j \in OwnTokens(u, s) : e = [pos |-> u[st][j].pos, tok |-> tok]
  <2>1. PICK i \in Idxs : s \in row[i].seqs /\ e = Meaning(row[i], new[st][i])
    BY <1>5, <1>9
  <2>2. CASE i \notin Hidden(st)
    BY <1>4, <1>7, <2>1, <2>2
  <2>3. CASE i \in Hidden(st)
    <3>1. st \in DOMAIN u /\ i \in SlotCells(slots[st])
      BY <1>6, <2>3
    <3>2. PICK j \in 1 .. Len(u[st]) : i = slots[st][j]
      BY <1>3, <3>1 DEF SlotCells, SlotsFit
    <3>3. s \in u[st][j].seqs /\ e = [pos |-> u[st][j].pos, tok |-> tok]
      BY <1>8, <2>1, <3>1, <3>2
    <3>4. j \in OwnTokens(u, s)
      BY <1>1, <3>1, <3>3 DEF OwnTokens
    <3> QED
      BY <3>3, <3>4
  <2> QED
    BY <2>2, <2>3
<1>10. ASSUME e \in SeqContent[s] PROVE e \in SeqContent'[s]
  <2>1. PICK i \in Idxs : s \in row[i].seqs /\ i \notin Hidden(st) /\ e = Meaning(row[i], data[st][i])
    BY <1>4, <1>10
  <2>2. e = Meaning(row[i], new[st][i])
    BY <1>7, <2>1
  <2> QED
    BY <1>5, <2>1, <2>2
<1>11. ASSUME NEW j \in OwnTokens(u, s), e = [pos |-> u[st][j].pos, tok |-> tok]
       PROVE  e \in SeqContent'[s]
  <2>1. st \in DOMAIN u /\ j \in 1 .. Len(u[st]) /\ s \in u[st][j].seqs
    BY <1>1 DEF OwnTokens
  <2>2. PICK i : i = slots[st][j]
    OBVIOUS
  <2>3. i \in Idxs /\ s \in row[i].seqs /\ e = Meaning(row[i], new[st][i])
    BY <1>8, <1>11, <2>1, <2>2
  <2> QED
    BY <1>5, <2>3
<1> QED
  BY <1>1, <1>9, <1>10, <1>11

\* The greatest member of a set is the one that is.
LEMMA GreatestIs ==
  ASSUME NEW S \in SUBSET Int, NEW g \in S, \A y \in S : y <= g
  PROVE  (CHOOSE x \in S : \A y \in S : x >= y) = g
<1>1. PICK h : h = CHOOSE x \in S : \A y \in S : x >= y
  OBVIOUS
<1>2. g \in Int /\ \A y \in S : g >= y
  BY Z3
<1>3. h \in S /\ \A y \in S : h >= y
  BY <1>1, <1>2
<1>4. h \in Int /\ h <= g /\ h >= g
  BY <1>3
<1> QED
  BY <1>1, <1>2, <1>4

\* The position the API calls the next one.
LEMMA NextIsFree ==
  ASSUME IInv, NEW s \in Seqs, NEW n \in Nat, NextAt(s, n)
  PROVE  Memory!Next0(s) = n
<1>1. PICK mem : mem = SeqContent[s]
  OBVIOUS
<1>2. \A e \in mem : e.pos \in Nat /\ e.pos < n
  <2>1. ASSUME NEW e \in mem PROVE e.pos \in Nat /\ e.pos < n
    <3>1. PICK st : st = SeqToStream(s)
      OBVIOUS
    <3>2. st \in Streams /\ RowOK(st, cells[st])
      BY <3>1, StreamOfSeq, TypeOKMemory DEF IInv, MemoryOK
    <3>3. e \in Held(cells[st], Settled[st], Hidden(st), s)
      BY <1>1, <3>1, ContentHeld
    <3>4. e.pos \in 0 .. MaxPos - 1
      BY <3>2, <3>3, EntryPos
    <3> QED
      BY <1>1, <3>4, ConstAssumption DEF NextAt
  <2> QED
    BY <2>1
<1>3. n = 0 \/ \E e \in mem : e.pos = n - 1
  BY <1>1 DEF NextAt
<1>4. CASE mem = {}
  BY <1>1, <1>3, <1>4 DEF Memory!Next0
<1>5. CASE mem # {}
  <2>1. PICK S : S = {e.pos : e \in mem}
    OBVIOUS
  <2>2. n # 0
    <3>1. PICK e : e \in mem
      BY <1>5
    <3>2. e.pos \in Nat /\ e.pos < n
      BY <1>2, <3>1
    <3> QED
      BY <3>2
  <2>3. n - 1 \in S
    BY <1>3, <2>1, <2>2
  <2>4. S \in SUBSET Int /\ \A y \in S : y <= n - 1
    <3>1. ASSUME NEW y \in S PROVE y \in Int /\ y <= n - 1
      <4>1. PICK e \in mem : y = e.pos
        BY <2>1
      <4>2. y \in Nat /\ y < n
        BY <1>2, <4>1
      <4> QED
        BY <4>2
    <3> QED
      BY <3>1
  <2>5. (CHOOSE x \in S : \A y \in S : x >= y) = n - 1
    BY <2>3, <2>4, GreatestIs
  <2>6. Memory!Next0(s) = (CHOOSE x \in S : \A y \in S : x >= y) + 1
    BY <1>1, <1>5, <2>1 DEF Memory!Next0, Memory!Greatest
  <2>7. PICK g : g = CHOOSE x \in S : \A y \in S : x >= y
    OBVIOUS
  <2>8. g = n - 1 /\ Memory!Next0(s) = g + 1
    BY <2>5, <2>6, <2>7, Zenon
  <2> QED
    BY <2>8
<1> QED
  BY <1>4, <1>5

\* The own tokens of an ubatch are finitely many.
LEMMA OwnFinite ==
  ASSUME NEW u, UbatchOK(u), NEW s
  PROVE  IsFiniteSet(OwnTokens(u, s)) /\ Cardinality(OwnTokens(u, s)) \in Nat
<1>1. \E n \in Nat : OwnTokens(u, s) \in SUBSET (1 .. n)
  <2>1. CASE SeqToStream(s) \in DOMAIN u
    <3>1. Len(u[SeqToStream(s)]) \in Nat
      BY <2>1 DEF UbatchOK
    <3>2. OwnTokens(u, s) \in SUBSET (1 .. Len(u[SeqToStream(s)]))
      BY <2>1 DEF OwnTokens
    <3> QED
      BY <3>1, <3>2
  <2>2. CASE SeqToStream(s) \notin DOMAIN u
    <3>1. OwnTokens(u, s) \in SUBSET (1 .. 0)
      BY <2>2 DEF OwnTokens
    <3> QED
      BY <3>1
  <2> QED
    BY <2>1, <2>2
<1> QED
  BY <1>1, PlacesFinite

\* Beside the entries of old, new has one of kind t at each position from .. to - 1.
Gains(new, old, from, to, t) ==
  \A e : e \in new <=> e \in old \/ \E p \in from .. to - 1 : e = [pos |-> p, tok |-> t]

\* The tokens a sequence gains are at its next positions.
LEMMA ComputeEntries ==
  ASSUME IInv, IInv', QueueInv, QueueInv', SlotsInv, PlacedInv, Compute, NEW tok, OneKind(tok),
         NEW s \in Seqs, NEW from \in Nat, NEW to \in Nat,
         Continues(batch[iCur], s, from, to), NEW t, t = tok \/ OwnTokens(batch[iCur], s) = {}
  PROVE  /\ from <= to /\ Cardinality(OwnTokens(batch[iCur], s)) = to - from
         /\ Gains(SeqContent'[s], SeqContent[s], from, to, t)
<1>1. PICK u, st : u = batch[iCur] /\ st = SeqToStream(s)
  OBVIOUS
<1>2. UbatchOK(u)
  BY <1>1, CurrentUbatch DEF Compute
<1>3. PICK own : own = OwnTokens(u, s)
  OBVIOUS
<1>4. {u[st][j].pos : j \in own} = from .. to - 1 /\ Cardinality(own) = to - from
  BY <1>1, <1>3 DEF Continues
<1>5. Cardinality(own) \in Nat
  BY <1>2, <1>3, OwnFinite
<1>6. from <= to
  BY <1>4, <1>5
<1>7. ASSUME NEW e
      PROVE  e \in SeqContent'[s] <=>
               e \in SeqContent[s] \/ \E p \in from .. to - 1 : e = [pos |-> p, tok |-> t]
  <2>1. e \in SeqContent'[s] <=>
          e \in SeqContent[s] \/ \E j \in own : e = [pos |-> u[st][j].pos, tok |-> tok]
    <3>1. e \in SeqContent'[s] <=>
            \/ e \in SeqContent[s]
            \/ \E j \in OwnTokens(batch[iCur], s) :
                 e = [pos |-> batch[iCur][SeqToStream(s)][j].pos, tok |-> tok]
      BY ComputeAdds
    <3> QED
      BY <1>1, <1>3, <3>1, Zenon
  <2>2. ASSUME NEW j \in own PROVE u[st][j].pos \in from .. to - 1 /\ t = tok
    BY <1>1, <1>3, <1>4
  <2>3. ASSUME NEW p \in from .. to - 1 PROVE \E j \in own : p = u[st][j].pos /\ t = tok
    <3>1. p \in {u[st][j].pos : j \in own}
      BY <1>4
    <3>2. PICK j \in own : p = u[st][j].pos
      BY <3>1
    <3> QED
      BY <2>2, <3>2
  <2> QED
    BY <2>1, <2>2, <2>3
<1>8. Gains(SeqContent'[s], SeqContent[s], from, to, t)
  BY <1>7 DEF Gains
<1> QED
  BY <1>1, <1>3, <1>4, <1>6, <1>8

\* A graph that succeeded appends the tokens of its ubatch, whatever kind a sequence
\* that has none is said to have.
LEMMA ComputeAppends ==
  ASSUME IInv, IInv', QueueInv, QueueInv', SlotsInv, PlacedInv, CountInv, Compute
  PROVE  \E tok \in Toks :
           /\ \A st \in DOMAIN batch[iCur] : \A j \in 1 .. Len(batch[iCur][st]) :
                batch[iCur][st][j].tok = tok
           /\ \A n, t : /\ n = [s \in Seqs |-> Cardinality(OwnTokens(batch[iCur], s))]
                        /\ \A s \in Seqs : t = tok \/ OwnTokens(batch[iCur], s) = {}
                        => Memory!Append(n, t)
<1>1. phase = "compute" /\ iCur \in 1 .. Len(batch) /\ Len(batch) \in Nat
  BY AtCompute DEF Compute, IInv, CallOK
<1>2. PICK tok \in Toks : OneKind(tok)
  BY <1>1 DEF CountInv
<1>3. ASSUME NEW n, NEW t, n = [s \in Seqs |-> Cardinality(OwnTokens(batch[iCur], s))],
             \A s \in Seqs : t = tok \/ OwnTokens(batch[iCur], s) = {}
      PROVE  Memory!Append(n, t)
  <2>1. ASSUME NEW s \in Seqs
        PROVE  SeqContent'[s] =
                 SeqContent[s] \cup {Memory!Entry(p, t) : p \in Memory!Next0(s) .. Memory!Next0(s) + n[s] - 1}
    <3>1. PICK next \in [1 .. Len(batch) + 1 -> Nat] :
               /\ \A k \in 1 .. Len(batch) : Continues(batch[k], s, next[k], next[k + 1])
               /\ NextAt(s, next[iCur])
      BY <1>1 DEF CountInv
    <3>2. iCur \in 1 .. Len(batch) + 1 /\ iCur + 1 \in 1 .. Len(batch) + 1
      BY <1>1
    <3>3. PICK from \in Nat, to \in Nat :
               Continues(batch[iCur], s, from, to) /\ NextAt(s, from)
      BY <1>1, <3>1, <3>2
    <3>4. Memory!Next0(s) = from
      BY <3>3, NextIsFree
    <3>5. PICK c : c = n[s]
      OBVIOUS
    <3>6. /\ from <= to /\ c = to - from
          /\ \A e : e \in SeqContent'[s] <=>
                      e \in SeqContent[s] \/ \E p \in from .. to - 1 : e = [pos |-> p, tok |-> t]
      <4>1. c = Cardinality(OwnTokens(batch[iCur], s))
        BY <1>3, <3>5
      <4>2. t = tok \/ OwnTokens(batch[iCur], s) = {}
        BY <1>3
      <4>3. /\ from <= to /\ Cardinality(OwnTokens(batch[iCur], s)) = to - from
            /\ Gains(SeqContent'[s], SeqContent[s], from, to, t)
        BY <1>2, <3>3, <4>2, ComputeEntries
      <4> QED
        BY <4>1, <4>3 DEF Gains
    <3>7. from + c - 1 = to - 1
      BY <3>6
    <3>8. \A e : e \in SeqContent'[s] <=>
                   e \in SeqContent[s] \cup {[pos |-> p, tok |-> t] : p \in from .. from + c - 1}
      BY <3>6, <3>7
    <3>9. SeqContent'[s] = SeqContent[s] \cup {[pos |-> p, tok |-> t] : p \in from .. from + c - 1}
      BY <3>8
    <3> QED
      BY <3>4, <3>5, <3>9, Zenon DEF Memory!Entry
  <2>2. SeqContent' = [s \in Seqs |-> SeqContent'[s]]
    BY DEF SeqContent
  <2> QED
    BY <2>1, <2>2, Zenon DEF Memory!Append
<1>4. \A st \in DOMAIN batch[iCur] : \A j \in 1 .. Len(batch[iCur][st]) : batch[iCur][st][j].tok = tok
  BY <1>1, <1>2 DEF OneKind
<1> QED
  BY <1>3, <1>4

\* The next ubatch continues what this one leaves.
LEMMA ComputeCounts ==
  ASSUME IInv, IInv', QueueInv, QueueInv', SlotsInv, PlacedInv, CountInv, Compute
  PROVE  CountInv'
<1>1. phase = "compute" /\ iCur \in 1 .. Len(batch) /\ Len(batch) \in Nat
  BY AtCompute DEF Compute, IInv, CallOK
<1>2. CASE phase' = "idle"
  BY <1>2 DEF CountInv
<1>3. CASE phase' # "idle"
  <2>1. phase' = "apply" /\ iCur' = iCur + 1 /\ UNCHANGED batch
    BY <1>3 DEF Compute, Return
  <2>2. PICK tok \in Toks : OneKind(tok)
    BY <1>1 DEF CountInv
  <2>m. PICK m : m = iCur + 1
    OBVIOUS
  <2>3. ASSUME NEW s \in Seqs
        PROVE  \E next \in [1 .. Len(batch) + 1 -> Nat] :
                 /\ \A k \in 1 .. Len(batch) : Continues(batch[k], s, next[k], next[k + 1])
                 /\ NextAt(s, next[m])'
    <3>1. PICK next \in [1 .. Len(batch) + 1 -> Nat] :
               /\ \A k \in 1 .. Len(batch) : Continues(batch[k], s, next[k], next[k + 1])
               /\ NextAt(s, next[iCur])
      BY <1>1 DEF CountInv
    <3>2. iCur \in 1 .. Len(batch) + 1 /\ iCur + 1 \in 1 .. Len(batch) + 1
      BY <1>1
    <3>3. PICK from \in Nat, to \in Nat : from = next[iCur] /\ to = next[iCur + 1]
      BY <3>1, <3>2
    <3>4. Continues(batch[iCur], s, from, to) /\ NextAt(s, from)
      BY <1>1, <3>1, <3>3
    <3>5. /\ from <= to
          /\ \A e : e \in SeqContent'[s] <=>
                      e \in SeqContent[s] \/ \E p \in from .. to - 1 : e = [pos |-> p, tok |-> tok]
      <4>1. from <= to /\ Gains(SeqContent'[s], SeqContent[s], from, to, tok)
        BY <2>2, <3>4, ComputeEntries
      <4> QED
        BY <4>1 DEF Gains
    <3>6. ASSUME NEW e \in SeqContent'[s] PROVE e.pos < to
      <4>1. CASE e \in SeqContent[s]
        <5>1. e.pos < from
          BY <3>4, <4>1 DEF NextAt
        <5>2. e.pos \in Int
          <6>1. PICK st : st = SeqToStream(s)
            OBVIOUS
          <6>2. st \in Streams /\ RowOK(st, cells[st])
            BY <6>1, StreamOfSeq, TypeOKMemory DEF IInv, MemoryOK
          <6>3. e \in Held(cells[st], Settled[st], Hidden(st), s)
            BY <4>1, <6>1, ContentHeld
          <6>4. e.pos \in 0 .. MaxPos - 1
            BY <6>2, <6>3, EntryPos
          <6> QED
            BY <6>4, ConstAssumption
        <5> QED
          BY <3>5, <5>1, <5>2
      <4>2. CASE \E p \in from .. to - 1 : e = [pos |-> p, tok |-> tok]
        BY <4>2
      <4> QED
        BY <3>5, <3>6, <4>1, <4>2
    <3>7. to = 0 \/ \E e \in SeqContent'[s] : e.pos = to - 1
      <4>1. CASE from = to
        <5>1. from = 0 \/ \E e \in SeqContent[s] : e.pos = from - 1
          BY <3>4 DEF NextAt
        <5> QED
          BY <3>5, <4>1, <5>1
      <4>2. CASE from < to
        <5>1. to - 1 \in from .. to - 1
          BY <4>2
        <5>2. [pos |-> to - 1, tok |-> tok] \in SeqContent'[s]
          BY <3>5, <5>1
        <5> QED
          BY <5>2
      <4> QED
        BY <3>5, <4>1, <4>2
    <3>8. NextAt(s, next[m])'
      BY <2>m, <3>3, <3>6, <3>7 DEF NextAt
    <3> QED
      BY <3>1, <3>8
  <2>4. OneKind(tok)'
    BY <2>1, <2>2 DEF OneKind
  <2>5. iCur' = m
    BY <2>1, <2>m
  <2> QED
    BY <2>1, <2>2, <2>3, <2>4, <2>5 DEF CountInv
<1> QED
  BY <1>2, <1>3

\* Counting the tokens of an ubatch by row and place, or in the row of the sequence.
LEMMA TokensCounted ==
  ASSUME IInv, phase = "compute", NEW s \in Seqs
  PROVE  Cardinality({t \in Tokens(batch) : t[1] = iCur /\ s \in batch[t[1]][t[2]][t[3]].seqs}) =
           Cardinality(OwnTokens(batch[iCur], s))
<1>1. PICK u, st, own, T : /\ u = batch[iCur] /\ st = SeqToStream(s) /\ own = OwnTokens(u, s)
        /\ T = {t \in Tokens(batch) : t[1] = iCur /\ s \in batch[t[1]][t[2]][t[3]].seqs}
  OBVIOUS
<1>2. iCur \in 1 .. Len(batch) /\ UbatchOK(u)
  BY <1>1, CurrentUbatch
<1>3. \A t : t \in T <=> \E j \in own : t = <<iCur, st, j>>
  <2>1. ASSUME NEW t \in T PROVE \E j \in own : t = <<iCur, st, j>>
    <3>1. PICK k, sv, j : /\ k \in 1 .. Len(batch) /\ sv \in DOMAIN batch[k]
                          /\ j \in 1 .. Len(batch[k][sv]) /\ t = <<k, sv, j>>
      BY <1>1 DEF Tokens
    <3>2. k = iCur /\ s \in u[sv][j].seqs /\ sv \in DOMAIN u /\ j \in 1 .. Len(u[sv])
      BY <1>1, <3>1
    <3>3. sv = st
      BY <1>1, <1>2, <3>2 DEF UbatchOK, TokenOK
    <3>4. j \in own
      BY <1>1, <3>2, <3>3 DEF OwnTokens
    <3> QED
      BY <3>1, <3>2, <3>3, <3>4
  <2>2. ASSUME NEW j \in own PROVE <<iCur, st, j>> \in T
    <3>1. st \in DOMAIN u /\ j \in 1 .. Len(u[st]) /\ s \in u[st][j].seqs
      BY <1>1 DEF OwnTokens
    <3>2. <<iCur, st, j>> \in Tokens(batch)
      BY <1>1, <1>2, <3>1 DEF Tokens
    <3> QED
      BY <1>1, <3>1, <3>2
  <2> QED
    BY <2>1, <2>2
<1>4. PICK f : f = [j \in own |-> <<iCur, st, j>>]
  OBVIOUS
<1>5. f \in Bijection(own, T)
  <2>1. f \in [own -> T]
    BY <1>3, <1>4
  <2>2. \A j, m \in own : f[j] = f[m] => j = m
    BY <1>4
  <2>3. \A t \in T : \E j \in own : f[j] = t
    BY <1>3, <1>4
  <2> QED
    BY <2>1, <2>2, <2>3 DEF Bijection, Injection, Surjection, IsInjective
<1>6. ExistsBijection(own, T)
  BY <1>5 DEF ExistsBijection
<1>7. IsFiniteSet(own)
  BY <1>1, <1>2, OwnFinite
<1>8. Cardinality(T) = Cardinality(own)
  BY <1>6, <1>7, FS_Bijection
<1> QED
  BY <1>1, <1>8

(***************************************************************************)
(* A graph that has failed: its ubatch is taken back.                       *)
(***************************************************************************)

\* The first sequence of a token that has one.
LEMMA FirstOfOne ==
  ASSUME NEW t, NEW s \in Int, t.seqs = {s}
  PROVE  FirstSeq(t) = s
BY DEF FirstSeq, Least

\* What a sequence holds lies before its tokens of the ubatch that is computed.
LEMMA HeldBefore ==
  ASSUME IInv, CountInv, phase = "compute", NEW s \in Seqs, NEW e \in SeqContent[s],
         NEW j \in OwnTokens(batch[iCur], s)
  PROVE  e.pos < batch[iCur][SeqToStream(s)][j].pos
<1>1. iCur \in 1 .. Len(batch) /\ Len(batch) \in Nat
  BY DEF IInv, CallOK
<1>2. PICK next \in [1 .. Len(batch) + 1 -> Nat] :
           /\ \A k \in 1 .. Len(batch) : Continues(batch[k], s, next[k], next[k + 1])
           /\ NextAt(s, next[iCur])
  BY DEF CountInv
<1>3. PICK from, to : from = next[iCur] /\ to = next[iCur + 1]
  OBVIOUS
<1>4. from \in Nat /\ to \in Nat /\ Continues(batch[iCur], s, from, to) /\ NextAt(s, from)
  BY <1>1, <1>2, <1>3
<1>5. PICK p : p = batch[iCur][SeqToStream(s)][j].pos
  OBVIOUS
<1>6. p \in from .. to - 1
  BY <1>4, <1>5 DEF Continues
<1>7. e.pos < from
  BY <1>4 DEF NextAt
<1>8. e.pos \in Int
  <2>1. PICK st : st = SeqToStream(s)
    OBVIOUS
  <2>2. st \in Streams /\ RowOK(st, cells[st])
    BY <2>1, StreamOfSeq, TypeOKMemory DEF IInv, MemoryOK
  <2>3. e \in Held(cells[st], Settled[st], Hidden(st), s)
    BY <2>1, ContentHeld
  <2>4. e.pos \in 0 .. MaxPos - 1
    BY <2>2, <2>3, EntryPos
  <2> QED
    BY <2>4, ConstAssumption
<1> QED
  BY <1>4, <1>5, <1>6, <1>7, <1>8

\* The rollback removes the ubatch and nothing the client had.
LEMMA ComputeFailsUnnoticed ==
  ASSUME IInv, IInv', QueueInv, OwnersInv, SlotsInv, PlacedInv, CountInv, ComputeFails
  PROVE  SeqContent' = SeqContent
<1>1. PICK u, slots : u = batch[iCur] /\ slots = plan[iCur].slots
  OBVIOUS
<1>2. PICK W \in SUBSET CurrentCells : data' = Written(data, u, slots, W)
  BY <1>1 DEF ComputeFails
<1>3. /\ phase = "compute" /\ "compute" \in Failures /\ phase' = "idle" /\ copies' = <<>> /\ UNCHANGED scInfo
      /\ cells' = [st \in Streams |-> IF st \in DOMAIN u THEN RolledBack(cells[st], u[st]) ELSE cells[st]]
  BY <1>1 DEF ComputeFails, Return
<1>4. Settled = data /\ Settled' = data'
  <2>1. copies' \o scInfo' = <<>>
    BY <1>3 DEF QueueInv
  <2>2. data' \in Bufs
    BY DEF IInv, TypeOK, Bufs
  <2> QED
    BY <1>3, <2>1, <2>2, SettledIsData, NoCopiesMade DEF Settled
<1>5. UbatchOK(u) /\ SlotsFit(u, slots) /\ iCur \in 1 .. Len(batch)
  BY <1>1, <1>3, CurrentUbatch
<1>6. ASSUME NEW st \in Streams, NEW i \in Idxs PROVE Unnoticed(st, i)
  <2>1. i \notin Hidden(st)'
    BY <1>3, NothingHidden
  <2>2. /\ i \in Hidden(st) <=> <<st, i>> \in CurrentCells
        /\ i \in Hidden(st) <=> st \in DOMAIN u /\ i \in SlotCells(slots[st])
    <3>1. i \in Hidden(st) <=> <<st, i>> \in PlannedCells(iCur)
      BY <1>3, HiddenCells
    <3> QED
      BY <1>1, <1>3, <3>1, CurrentUbatch
  <2>3. PICK c : c = cells[st][i]
    OBVIOUS
  <2>4. CellOK(st, c)
    BY <2>3, BufsOK
  <2>5. <<st, i>> \notin CurrentCells => data'[st][i] = data[st][i]
    BY <1>1, <1>2, <1>3, WrittenCells
  <2>6. CASE st \notin DOMAIN u
    <3>1. cells'[st][i] = cells[st][i]
      BY <1>3, <2>6
    <3> QED
      BY <1>4, <2>1, <2>2, <2>5, <2>6, <3>1 DEF Unnoticed
  <2>7. CASE st \in DOMAIN u
    <3>1. PICK R : R = {s \in Seqs : \E j \in 1 .. Len(u[st]) : FirstSeq(u[st][j]) = s /\ u[st][j].pos <= c.pos}
      OBVIOUS
    <3>2. cells'[st][i] = DropSeqs(c, R)
      BY <1>3, <2>3, <2>7, <3>1 DEF RolledBack
    <3>3. \A j \in 1 .. Len(u[st]) : \E s \in Seqs : u[st][j].seqs = {s} /\ FirstSeq(u[st][j]) = s
      <4>1. ASSUME NEW j \in 1 .. Len(u[st])
            PROVE  \E s \in Seqs : u[st][j].seqs = {s} /\ FirstSeq(u[st][j]) = s
        <5>1. PICK s \in Seqs : u[st][j].seqs = {s}
          BY <1>1, <1>3, <1>5, <2>7 DEF OwnersInv
        <5>2. s \in Int
          BY ShapeAssumption DEF Seqs
        <5> QED
          BY <5>1, <5>2, FirstOfOne
      <4> QED
        BY <4>1
    <3>4. CASE i \in SlotCells(slots[st])
      <4>1. PICK j \in 1 .. Len(u[st]) : i = slots[st][j]
        BY <1>5, <2>7, <3>4 DEF SlotCells, SlotsFit
      <4>2. c = TokenCell(u[st][j].pos, u[st][j].seqs)
        BY <1>1, <1>3, <2>3, <2>7, <4>1, TokenCells
      <4>3. PICK s \in Seqs : u[st][j].seqs = {s} /\ FirstSeq(u[st][j]) = s
        BY <3>3
      <4>4. u[st][j].pos <= c.pos /\ c.seqs = {s}
        <5>1. TokenOK(st, u[st][j])
          BY <1>5, <2>7 DEF UbatchOK
        <5>2. u[st][j].pos \in 0 .. MaxPos - 1
          BY <5>1 DEF TokenOK, Token
        <5>3. c.pos = u[st][j].pos /\ c.seqs = {s}
          BY <4>2, <4>3 DEF TokenCell
        <5> QED
          BY <5>2, <5>3, ConstAssumption
      <4>5. c.seqs \subseteq R
        BY <3>1, <4>3, <4>4
      <4>6. cells'[st][i].seqs = {}
        BY <3>2, <4>5 DEF DropSeqs, EmptyCell
      <4> QED
        BY <2>2, <2>7, <3>4, <4>6 DEF Unnoticed
    <3>5. CASE i \notin SlotCells(slots[st])
      <4>1. i \notin Hidden(st) /\ data'[st][i] = data[st][i]
        BY <2>2, <2>5, <3>5
      <4>2. ASSUME NEW s \in c.seqs PROVE s \notin R
        <5>1. s \in Seqs /\ SeqToStream(s) = st
          BY <2>4 DEF CellOK, Cell
        <5>2. Meaning(c, data[st][i]) \in SeqContent[s]
          <6>1. SeqContent[s] = Held(cells[st], Settled[st], Hidden(st), s)
            BY <5>1, ContentHeld
          <6> QED
            BY <1>4, <2>3, <4>1, <6>1, HeldMembers
        <5>3. ASSUME NEW j \in 1 .. Len(u[st]), FirstSeq(u[st][j]) = s PROVE ~(u[st][j].pos <= c.pos)
          <6>1. s \in u[st][j].seqs
            BY <3>3, <5>3
          <6>2. j \in OwnTokens(u, s)
            BY <2>7, <5>1, <5>3, <6>1 DEF OwnTokens
          <6>3. Meaning(c, data[st][i]).pos < u[st][j].pos
            BY <1>1, <1>3, <5>1, <5>2, <6>2, HeldBefore
          <6>4. c.pos < u[st][j].pos
            BY <6>3, MeaningPos
          <6>5. TokenOK(st, u[st][j])
            BY <1>5, <2>7, <5>3 DEF UbatchOK
          <6>6. u[st][j].pos \in Int /\ c.pos \in Int
            BY <2>4, <6>5, ConstAssumption DEF TokenOK, Token, CellOK, Cell
          <6> QED
            BY <6>4, <6>6
        <5> QED
          BY <3>1, <5>3
      <4>3. CASE c.seqs = {}
        <5>1. cells'[st][i].seqs = {}
          BY <3>2, <4>3 DEF DropSeqs, EmptyCell
        <5> QED
          BY <2>3, <4>3, <5>1 DEF Unnoticed
      <4>4. CASE c.seqs # {}
        <5>1. ~(c.seqs \subseteq R) /\ c.seqs \ R = c.seqs
          BY <4>2, <4>4
        <5>2. DropSeqs(c, R) = c
          BY <2>4, <5>1 DEF DropSeqs, CellOK, Cell
        <5>3. cells'[st][i] = cells[st][i]
          BY <2>3, <3>2, <5>2
        <5> QED
          BY <1>4, <2>1, <4>1, <5>3 DEF Unnoticed
      <4> QED
        BY <4>3, <4>4
    <3> QED
      BY <3>4, <3>5
  <2> QED
    BY <2>6, <2>7
<1> QED
  BY <1>6, NothingNoticed

(***************************************************************************)
(* The refinement.                                                          *)
(***************************************************************************)

\* The cache without a sliding window, used as the API asks (llama.h:737-802): one
\* sequence per cell that is shifted, seq_keep in a unified cache only, copies between
\* streams of whole sequences, one sequence per token where a graph may fail (the
\* rollback looks at no other), and MaxAppend really a bound.
PlainUse ==
  /\ NSwa = 0
  /\ ~SharedShift
  /\ "seq_keep" \in ClientOps => Unified
  /\ Unified \/ FullRanges
  /\ \A b \in Batches : OneOwner(b) /\ FewTokens(b)
  /\ MaxAppend \in Nat

\* The inductive invariant of the refinement.
RefineInv ==
  /\ IInv /\ QueueInv
  /\ OwnersInv /\ SlotsInv /\ PlacedInv /\ CountInv /\ AppendInv

\* What the steps of the cache do to the memory; each is its documented operation.
OperateMeans ==
  /\ \A s \in Seqs, r \in Ranges :
       /\ SeqRm(s, r[1], r[2]) => Memory!Rm({s}, r)
       /\ \A d \in Deltas : SeqAdd(s, r[1], r[2], d) => Memory!Add(s, r, d)
       /\ \A d \in Seqs : SeqCpShared(s, d, r[1], r[2]) \/ SeqCpStream(s, d, r[1], r[2])
                            => Memory!Cp(s, d, r)
       /\ \A d \in Divisors : SeqDiv(s, r[1], r[2], d) => Memory!Div(s, r, d)
  /\ \A s \in Seqs : SeqKeep(s) => Memory!Keep(s)
  /\ \A wipe \in BOOLEAN : Clear(wipe) => Memory!Clear
  /\ \A r \in Ranges : SeqRmAny(r[1], r[2]) => Memory!Rm(Seqs, r)

LEMMA OperationsMean ==
  ASSUME PlainUse, IInv, QueueInv
  PROVE  OperateMeans
<1>1. ASSUME NEW s \in Seqs, NEW r \in Ranges, SeqRm(s, r[1], r[2]) PROVE Memory!Rm({s}, r)
  BY <1>1, SeqRmMeans
<1>2. ASSUME NEW s \in Seqs, NEW r \in Ranges, NEW d \in Deltas, SeqAdd(s, r[1], r[2], d)
      PROVE  Memory!Add(s, r, d)
  <2>1. d \in Int
    BY ConstAssumption
  <2> QED
    BY <1>2, <2>1, SeqAddMeans DEF PlainUse
<1>3. ASSUME NEW s \in Seqs, NEW r \in Ranges, NEW d \in Seqs, SeqCpShared(s, d, r[1], r[2])
      PROVE  Memory!Cp(s, d, r)
  BY <1>3, SeqCpSharedMeans
<1>4. ASSUME NEW s \in Seqs, NEW r \in Ranges, NEW d \in Seqs, SeqCpStream(s, d, r[1], r[2])
      PROVE  Memory!Cp(s, d, r)
  <2>1. ~Unified
    BY <1>4 DEF SeqCpStream, SeqToStream
  <2>2. FullRanges
    BY <2>1 DEF PlainUse
  <2> QED
    BY <1>4, <2>2, SeqCpStreamMeans
<1>5. ASSUME NEW s \in Seqs, NEW r \in Ranges, NEW d \in Divisors, SeqDiv(s, r[1], r[2], d)
      PROVE  Memory!Div(s, r, d)
  <2>1. d \in Nat \ {0}
    BY ConstAssumption
  <2> QED
    BY <1>5, <2>1, SeqDivMeans DEF PlainUse
<1>6. ASSUME NEW s \in Seqs, SeqKeep(s) PROVE Memory!Keep(s)
  <2>1. Unified
    BY <1>6 DEF SeqKeep, Client, PlainUse
  <2> QED
    BY <1>6, <2>1, SeqKeepMeans
<1>7. ASSUME NEW wipe \in BOOLEAN, Clear(wipe) PROVE Memory!Clear
  BY <1>7, ClearMeans
<1>8. ASSUME NEW r \in Ranges, SeqRmAny(r[1], r[2]) PROVE Memory!Rm(Seqs, r)
  BY <1>8, SeqRmAnyMeans
<1> QED
  BY <1>1, <1>2, <1>3, <1>4, <1>5, <1>6, <1>7, <1>8, Zenon DEF OperateMeans

\* A decode call's own steps, the graph that succeeds and the K-shift that fails
\* apart, change nothing the client can see.
LEMMA DecodeUnnoticed ==
  ASSUME PlainUse, RefineInv, IInv', QueueInv', Decode, ~Compute, ~UpdateShiftFails
  PROVE  SeqContent' = SeqContent
<1>1. CASE Update
  BY <1>1, UpdateCopyUnnoticed, UpdateEndsUnnoticed DEF Update, RefineInv
<1>2. CASE Prepare
  BY <1>2, PrepareUbatchUnnoticed, PrepareEndsUnnoticed, RestoreUbatchUnnoticed
     DEF Prepare, RefineInv, PlainUse
<1>3. CASE Outcome
  BY <1>3, OutcomeUnnoticed DEF RefineInv
<1>4. CASE Process
  BY <1>4, ApplyUnnoticed, ComputeFailsUnnoticed DEF Process, RefineInv, PlainUse
<1> QED
  BY <1>1, <1>2, <1>3, <1>4 DEF Decode

\* And the K-shift that fails moves no position.
LEMMA DecodeKeepsPositions ==
  ASSUME PlainUse, RefineInv, IInv', QueueInv', Decode, ~Compute
  PROVE  SamePositions
<1>1. CASE UpdateShiftFails
  BY <1>1, ShiftFailsSpoils DEF RefineInv
<1>2. CASE ~UpdateShiftFails
  BY <1>2, DecodeUnnoticed DEF SamePositions
<1> QED
  BY <1>1, <1>2

\* The tokens of a call continue its sequences at every step.
LEMMA CountKeeps ==
  ASSUME PlainUse, RefineInv, IInv', QueueInv', Next
  PROVE  CountInv'
<1>1. CASE phase' = "idle"
  BY <1>1 DEF CountInv
<1>2. CASE Operate
  <2>1. phase' = "idle"
    BY <1>2 DEF Operate, SeqRm, SeqRmAny, SeqCpShared, SeqCpStream, SeqKeep, SeqAdd, SeqDiv, Clear, Client, callVars
  <2> QED
    BY <1>1, <2>1
<1>3. CASE \E b \in Batches, tok \in Toks : DecodeBegin(b, tok)
  BY <1>3, DecodeBeginCounts DEF RefineInv
<1>4. CASE Compute
  BY <1>4, ComputeCounts DEF RefineInv
<1>5. CASE Decode /\ ~Compute /\ phase' # "idle"
  <2>1. SamePositions
    BY <1>5, DecodeKeepsPositions
  <2>2. CASE Update
    <3>1. phase = "update" /\ phase' \in {"update", "prepare"} /\ UNCHANGED batch
      BY <2>2 DEF Update, UpdateCopy, UpdateShift, UpdateShiftFails, UpdateNothing
    <3> QED
      BY <2>1, <3>1, CountStays DEF RefineInv
  <2>3. CASE Prepare
    <3>1. phase \in {"prepare", "restore"} /\ phase' \in {"prepare", "restore"} /\ UNCHANGED batch
      BY <2>3 DEF Prepare, PrepareUbatch, PrepareEnds, RestoreUbatch
    <3> QED
      BY <2>1, <3>1, CountStays DEF RefineInv
  <2>4. CASE Outcome
    <3>1. phase = "restore" /\ UNCHANGED batch /\ (phase' = "update" \/ (phase' = "apply" /\ iCur' = 1))
      <4>1. CASE RetryPrepare
        BY <4>1 DEF RetryPrepare, Restored
      <4>2. CASE StartUbatches
        BY <4>2 DEF StartUbatches, Restored
      <4>3. CASE RefuseBatch \/ ReserveFails
        BY <1>5, <4>3 DEF RefuseBatch, ReserveFails, Return
      <4> QED
        BY <2>4, <4>1, <4>2, <4>3 DEF Outcome
    <3> QED
      BY <2>1, <3>1, CountStays DEF RefineInv
  <2>5. CASE Process
    <3>1. Apply
      BY <1>5, <2>5 DEF Process, ComputeFails, Return
    <3>2. phase = "apply" /\ phase' = "compute" /\ UNCHANGED <<batch, iCur>>
      BY <3>1 DEF Apply
    <3> QED
      BY <2>1, <3>2, CountStays DEF RefineInv
  <2> QED
    BY <1>5, <2>2, <2>3, <2>4, <2>5 DEF Decode
<1> QED
  BY <1>1, <1>2, <1>3, <1>4, <1>5 DEF Next

\* A step of the cache that is none of its actions.
LEMMA VarsUnchanged ==
  ASSUME UNCHANGED vars
  PROVE  SeqContent' = SeqContent /\ (RefineInv => RefineInv')
<1>1. SeqContent' = SeqContent
  BY DEF vars, callVars, SeqContent, Settled, Hidden
<1>2. UNCHANGED <<cells, head, scInfo, data, shadow, phase, batch, plan, copies, doShift, retried, iCur>>
  BY DEF vars, callVars
<1>3. IInv => IInv'
  BY NextKeeps
<1>4. QueueInv /\ OwnersInv /\ SlotsInv /\ AppendInv => QueueInv' /\ OwnersInv' /\ SlotsInv' /\ AppendInv'
  BY <1>2 DEF QueueInv, OwnersInv, SlotsInv, AppendInv
<1>5. PlacedInv => PlacedInv'
  BY <1>2 DEF PlacedInv
<1>6. CountInv => CountInv'
  BY <1>1, <1>2 DEF CountInv, NextAt, OneKind
<1> QED
  BY <1>1, <1>3, <1>4, <1>5, <1>6 DEF RefineInv

\* The invariant is preserved.
LEMMA RefineKeeps == PlainUse /\ RefineInv /\ [Next]_vars => RefineInv'
<1> SUFFICES ASSUME PlainUse, RefineInv, [Next]_vars PROVE RefineInv'
  OBVIOUS
<1>1. CASE UNCHANGED vars
  BY <1>1, VarsUnchanged
<1>2. CASE Next
  <2>1. IInv'
    BY <1>2, NextKeeps DEF RefineInv
  <2>2. QueueInv'
    BY <1>2, QueueKeeps DEF RefineInv
  <2>3. OwnersInv' /\ SlotsInv' /\ PlacedInv' /\ AppendInv'
    BY <1>2, OwnersKeeps, SlotsKeeps, PlacedKeeps, AppendKeeps DEF RefineInv, PlainUse
  <2>4. CountInv'
    BY <1>2, <2>1, <2>2, CountKeeps
  <2> QED
    BY <2>1, <2>2, <2>3, <2>4 DEF RefineInv
<1> QED
  BY <1>1, <1>2

LEMMA RefineStarts == Init => RefineInv
<1> SUFFICES ASSUME Init PROVE RefineInv
  OBVIOUS
<1>1. IInv
  BY InitEstablishes
<1>2. phase = "idle" /\ batch = <<>> /\ plan = <<>> /\ scInfo = <<>> /\ copies = <<>>
  BY DEF Init
<1> QED
  BY <1>1, <1>2 DEF RefineInv, QueueInv, OwnersInv, SlotsInv, PlacedInv, CountInv, AppendInv

\* The memory of an empty cache is empty.
LEMMA EmptyMemory == Init => Memory!Init
<1> SUFFICES ASSUME Init PROVE SeqContent = [s \in Seqs |-> {}]
  BY DEF Memory!Init
<1>1. \A st \in Streams : \A i \in Idxs : cells[st][i].seqs = {}
  BY DEF Init, NoCells, EmptyCell
<1>2. ASSUME NEW s \in Seqs PROVE SeqContent[s] = {}
  <2>1. \A e : e \notin Held(cells[SeqToStream(s)], Settled[SeqToStream(s)], Hidden(SeqToStream(s)), s)
    BY <1>1, StreamOfSeq, HeldMembers
  <2> QED
    BY <2>1, ContentHeld
<1>3. SeqContent = [s \in Seqs |-> SeqContent[s]]
  BY DEF SeqContent
<1> QED
  BY <1>2, <1>3, Zenon

\* An ubatch appends: the step is one of SeqMemory's, with its documented effect.
LEMMA ComputeMeans ==
  ASSUME PlainUse, RefineInv, IInv', QueueInv', Compute
  PROVE  /\ \E n \in [Seqs -> 0 .. MaxAppend], t \in Toks : Memory!Append(n, t)
         /\ Memory!Append(
              [s \in Seqs |-> Cardinality({t \in Tokens(batch) :
                 t[1] = iCur /\ s \in batch[t[1]][t[2]][t[3]].seqs})],
              batch[iCur][CHOOSE st \in DOMAIN batch[iCur] : TRUE][1].tok)
<1>1. phase = "compute" /\ iCur \in 1 .. Len(batch) /\ UbatchOK(batch[iCur])
  BY CurrentUbatch DEF Compute, RefineInv
<1>2. PICK u, n : u = batch[iCur] /\ n = [s \in Seqs |-> Cardinality(OwnTokens(batch[iCur], s))]
  OBVIOUS
<1>3. PICK tok \in Toks :
           /\ \A st \in DOMAIN batch[iCur] : \A j \in 1 .. Len(batch[iCur][st]) :
                batch[iCur][st][j].tok = tok
           /\ \A m, t : /\ m = [s \in Seqs |-> Cardinality(OwnTokens(batch[iCur], s))]
                        /\ \A s \in Seqs : t = tok \/ OwnTokens(batch[iCur], s) = {}
                        => Memory!Append(m, t)
  BY ComputeAppends DEF RefineInv
<1>4. \A t : (\A s \in Seqs : t = tok \/ OwnTokens(u, s) = {}) => Memory!Append(n, t)
  BY <1>2, <1>3
<1>5. n \in [Seqs -> 0 .. MaxAppend]
  <2>1. ASSUME NEW s \in Seqs PROVE Cardinality(OwnTokens(u, s)) \in 0 .. MaxAppend
    <3>1. Cardinality(OwnTokens(u, s)) \in Nat
      BY <1>1, <1>2, OwnFinite
    <3>2. Cardinality(OwnTokens(u, s)) <= MaxAppend
      BY <1>1, <1>2 DEF RefineInv, AppendInv
    <3> QED
      BY <3>1, <3>2 DEF PlainUse
  <2> QED
    BY <1>2, <2>1
<1>6. Memory!Append(n, tok)
  BY <1>4
<1>7. n = [s \in Seqs |-> Cardinality({t \in Tokens(batch) :
             t[1] = iCur /\ s \in batch[t[1]][t[2]][t[3]].seqs})]
  <2>1. \A s \in Seqs :
          Cardinality({t \in Tokens(batch) : t[1] = iCur /\ s \in batch[t[1]][t[2]][t[3]].seqs}) =
            Cardinality(OwnTokens(batch[iCur], s))
    BY <1>1, TokensCounted DEF RefineInv
  <2> QED
    BY <1>2, <2>1, Zenon
<1>8. PICK st : st = CHOOSE sv \in DOMAIN u : TRUE
  OBVIOUS
<1>9. PICK kind : kind = u[st][1].tok
  OBVIOUS
<1>10. ASSUME NEW s \in Seqs PROVE kind = tok \/ OwnTokens(u, s) = {}
  <2>1. CASE DOMAIN u = {}
    BY <2>1 DEF OwnTokens
  <2>2. CASE DOMAIN u # {}
    <3>1. st \in DOMAIN u
      BY <1>8, <2>2, ChoiceIsMember
    <3>2. Len(u[st]) \in Nat \ {0}
      BY <1>1, <1>2, <3>1 DEF UbatchOK
    <3>3. 1 \in 1 .. Len(u[st])
      BY <3>2
    <3> QED
      BY <1>2, <1>3, <1>9, <3>1, <3>3
  <2> QED
    BY <2>1, <2>2
<1>11. Memory!Append(n, kind)
  BY <1>4, <1>10
<1>12. kind = batch[iCur][CHOOSE sv \in DOMAIN batch[iCur] : TRUE][1].tok
  BY <1>2, <1>8, <1>9
<1> QED
  BY <1>5, <1>6, <1>7, <1>11, <1>12, Zenon

\* Every step of the cache, a K-shift that fails apart, is an operation of SeqMemory
\* or changes nothing in it.
LEMMA StepImplements ==
  ASSUME PlainUse, RefineInv, IInv', QueueInv', Next, ~UpdateShiftFails
  PROVE  Memory!Use \/ SeqContent' = SeqContent
<1>1. CASE Operate
  <2>1. OperateMeans
    BY OperationsMean DEF RefineInv
  <2>2. ASSUME NEW s \in Seqs, NEW r \in Ranges, SeqRm(s, r[1], r[2]) PROVE Memory!Use
    <3>1. Memory!Rm({s}, r)
      BY <2>1, <2>2 DEF OperateMeans
    <3>2. {s} \in {Seqs} \cup {{q} : q \in Seqs}
      OBVIOUS
    <3> QED
      BY <3>1, <3>2, Zenon DEF Memory!Use
  <2>3. ASSUME NEW r \in Ranges, SeqRmAny(r[1], r[2]) PROVE Memory!Use
    <3>1. Memory!Rm(Seqs, r)
      BY <2>1, <2>3 DEF OperateMeans
    <3>2. Seqs \in {Seqs} \cup {{q} : q \in Seqs}
      OBVIOUS
    <3> QED
      BY <3>1, <3>2, Zenon DEF Memory!Use
  <2>4. ASSUME NEW s \in Seqs, NEW d \in Seqs, NEW r \in Ranges,
               SeqCpShared(s, d, r[1], r[2]) \/ SeqCpStream(s, d, r[1], r[2])
        PROVE  Memory!Use
    <3>1. Memory!Cp(s, d, r)
      BY <2>1, <2>4 DEF OperateMeans
    <3>2. s # d
      BY <2>4 DEF SeqCpShared, SeqCpStream
    <3> QED
      BY <3>1, <3>2, Zenon DEF Memory!Use
  <2>5. ASSUME NEW s \in Seqs, SeqKeep(s) PROVE Memory!Use
    <3>1. Memory!Keep(s)
      BY <2>1, <2>5 DEF OperateMeans
    <3> QED
      BY <3>1, Zenon DEF Memory!Use
  <2>6. ASSUME NEW s \in Seqs, NEW r \in Ranges, NEW d \in Deltas, SeqAdd(s, r[1], r[2], d)
        PROVE  Memory!Use
    <3>1. Memory!Add(s, r, d)
      BY <2>1, <2>6 DEF OperateMeans
    <3> QED
      BY <3>1, Zenon DEF Memory!Use
  <2>7. ASSUME NEW s \in Seqs, NEW r \in Ranges, NEW d \in Divisors, SeqDiv(s, r[1], r[2], d)
        PROVE  Memory!Use
    <3>1. Memory!Div(s, r, d)
      BY <2>1, <2>7 DEF OperateMeans
    <3> QED
      BY <3>1, Zenon DEF Memory!Use
  <2>8. ASSUME NEW wipe \in BOOLEAN, Clear(wipe) PROVE Memory!Use
    <3>1. Memory!Clear
      BY <2>1, <2>8 DEF OperateMeans
    <3> QED
      BY <3>1, Zenon DEF Memory!Use
  <2> QED
    BY <1>1, <2>2, <2>3, <2>4, <2>5, <2>6, <2>7, <2>8, Zenon DEF Operate
<1>2. CASE \E b \in Batches, tok \in Toks : DecodeBegin(b, tok)
  BY <1>2, DecodeBeginUnnoticed DEF RefineInv
<1>3. CASE Compute
  <2>1. \E n \in [Seqs -> 0 .. MaxAppend], t \in Toks : Memory!Append(n, t)
    BY <1>3, ComputeMeans
  <2> QED
    BY <2>1, Zenon DEF Memory!Use
<1>4. CASE Decode /\ ~Compute
  BY <1>4, DecodeUnnoticed
<1> QED
  BY <1>1, <1>2, <1>3, <1>4 DEF Next

\* The cache implements the memory the API documents: every step is one of its
\* operations, or changes nothing the client can see; only a K-shift that fails may
\* spoil what stands at the positions, and it loses none.
THEOREM CacheImplementsMemory ==
  ASSUME PlainUse
  PROVE  Spec => ImplementsMemory
<1>1. Init => RefineInv /\ Memory!Init
  BY RefineStarts, EmptyMemory
<1>2. RefineInv /\ [Next]_vars => RefineInv'
  BY RefineKeeps
<1>3. RefineInv /\ RefineInv' /\ [Next]_vars /\ ~UpdateShiftFails => [Memory!Use]_SeqContent
  <2> SUFFICES ASSUME RefineInv, RefineInv', [Next]_vars, ~UpdateShiftFails
               PROVE  Memory!Use \/ SeqContent' = SeqContent
    OBVIOUS
  <2>1. CASE UNCHANGED vars
    BY <2>1, VarsUnchanged
  <2>2. CASE Next
    BY <2>2, StepImplements DEF RefineInv
  <2> QED
    BY <2>1, <2>2
<1>4. RefineInv /\ UpdateShiftFails => "shift" \in Failures /\ Memory!Spoil
  <2>1. UpdateShiftFails => "shift" \in Failures
    BY DEF UpdateShiftFails
  <2> QED
    BY <2>1, ShiftFailsSpoils DEF RefineInv
<1>5. RefineInv /\ RefineInv' /\ [Next]_vars => [Memory!Next]_SeqContent
  <2> SUFFICES ASSUME RefineInv, RefineInv', [Next]_vars
               PROVE  Memory!Next \/ SeqContent' = SeqContent
    OBVIOUS
  <2>1. CASE UpdateShiftFails
    BY <1>4, <2>1, Zenon DEF Memory!Next
  <2>2. CASE ~UpdateShiftFails
    BY <1>3, <2>2, Zenon DEF Memory!Next
  <2> QED
    BY <2>1, <2>2
<1>6. RefineInv /\ RefineInv' /\ [Next]_vars => [~UpdateShiftFails => Memory!Use]_SeqContent
  BY <1>3, Zenon
<1> QED
  BY <1>1, <1>2, <1>5, <1>6, PTL DEF Spec, ImplementsMemory, Memory!Spec

\* Every operation of the cache has its whole documented effect, and a graph that
\* succeeded adds exactly the tokens of its ubatch.
THEOREM OperationsAreComplete ==
  ASSUME PlainUse
  PROVE  Spec => OperationsComplete
<1>1. Init => RefineInv
  BY RefineStarts
<1>2. RefineInv /\ [Next]_vars => RefineInv'
  BY RefineKeeps
<1>3. RefineInv => OperateMeans
  BY OperationsMean DEF RefineInv
<1>4. RefineInv /\ RefineInv' /\ Compute =>
        Memory!Append(
          [s \in Seqs |-> Cardinality({t \in Tokens(batch) :
             t[1] = iCur /\ s \in batch[t[1]][t[2]][t[3]].seqs})],
          batch[iCur][CHOOSE st \in DOMAIN batch[iCur] : TRUE][1].tok)
  BY ComputeMeans DEF RefineInv
<1> QED
  BY <1>1, <1>2, <1>3, <1>4, PTL DEF Spec, OperationsComplete, OperateMeans

(***************************************************************************)
(* No gaps: every position a graph's tokens attend to is in the cache.      *)
(***************************************************************************)

\* A client that makes no gaps: it removes suffixes, copies prefixes, and neither
\* shifts nor divides.
NoGapUse ==
  /\ ClientOps \subseteq {"seq_rm", "seq_rm_any", "seq_cp", "seq_keep", "clear"}
  /\ "seq_rm" \in ClientOps \/ "seq_rm_any" \in ClientOps => \A r \in Ranges : r[2] < 0
  /\ "seq_cp" \in ClientOps => \A r \in Ranges : r[1] <= 0

\* A memory without gaps holds, with an entry, one at every smaller position.
NoGaps(m) ==
  \A s \in Seqs : \A e \in m[s] : \A p \in 0 .. e.pos : \E f \in m[s] : f.pos = p

GapInv == NoGaps(SeqContent)

\* The entries have positions.
LEMMA ContentPos ==
  ASSUME IInv
  PROVE  \A s \in Seqs : \A e \in SeqContent[s] : e.pos \in Nat
<1>1. ASSUME NEW s \in Seqs, NEW e \in SeqContent[s] PROVE e.pos \in Nat
  <2>1. PICK st : st = SeqToStream(s)
    OBVIOUS
  <2>2. st \in Streams /\ RowOK(st, cells[st])
    BY <2>1, StreamOfSeq, TypeOKMemory DEF IInv, MemoryOK
  <2>3. e \in Held(cells[st], Settled[st], Hidden(st), s)
    BY <2>1, ContentHeld
  <2>4. e.pos \in 0 .. MaxPos - 1
    BY <2>2, <2>3, EntryPos
  <2> QED
    BY <2>4, ConstAssumption
<1> QED
  BY <1>1

\* Removing a suffix makes no gap.
LEMMA RmNoGaps ==
  ASSUME IInv, GapInv, NEW S \in SUBSET Seqs, NEW r \in Ranges, r[2] < 0, Memory!Rm(S, r)
  PROVE  GapInv'
<1>1. PICK m, new : m = SeqContent /\ new = SeqContent'
  OBVIOUS
<1>2. \A s \in Seqs : new[s] = IF s \in S THEN {e \in m[s] : ~Memory!In(e, r)} ELSE m[s]
  BY <1>1, Zenon DEF Memory!Rm
<1>3. r[1] \in Int /\ r[2] \in Int
  BY ConstAssumption
<1>4. ASSUME NEW s \in Seqs, NEW e \in new[s], NEW p \in 0 .. e.pos
      PROVE  \E f \in new[s] : f.pos = p
  <2>1. e \in m[s] /\ e.pos \in Nat
    BY <1>1, <1>2, ContentPos
  <2>2. PICK f \in m[s] : f.pos = p
    BY <1>1, <2>1 DEF GapInv, NoGaps
  <2>3. CASE s \notin S
    BY <1>2, <2>2, <2>3
  <2>4. CASE s \in S
    <3>1. ~Memory!In(e, r)
      BY <1>2, <2>4
    <3>2. e.pos < r[1]
      BY <1>3, <2>1, <3>1 DEF Memory!In, Memory!PosIn
    <3>3. ~Memory!In(f, r)
      BY <1>3, <2>1, <2>2, <3>2 DEF Memory!In, Memory!PosIn
    <3> QED
      BY <1>2, <2>2, <2>4, <3>3
  <2> QED
    BY <2>3, <2>4
<1>5. \A s \in Seqs : \A e \in SeqContent'[s] : \A p \in 0 .. e.pos : \E f \in SeqContent'[s] : f.pos = p
  BY <1>1, <1>4
<1> QED
  BY <1>5 DEF GapInv, NoGaps

\* Copying a prefix makes no gap.
LEMMA CpNoGaps ==
  ASSUME IInv, GapInv, NEW s \in Seqs, NEW d \in Seqs, NEW r \in Ranges, r[1] <= 0,
         Memory!Cp(s, d, r)
  PROVE  GapInv'
<1>1. PICK m, new : m = SeqContent /\ new = SeqContent'
  OBVIOUS
<1>2. PICK kept \in {{}, m[d]} :
        new = [m EXCEPT ![d] = kept \cup {e \in m[s] : Memory!In(e, r)}]
  BY <1>1, Zenon DEF Memory!Cp
<1>3. \A q \in Seqs : new[q] = IF q = d THEN kept \cup {e \in m[s] : Memory!In(e, r)} ELSE m[q]
  <2>1. m = [q \in Seqs |-> m[q]]
    BY <1>1, ContentHeld
  <2> QED
    BY <1>2, <2>1
<1>4. r[1] \in Int /\ r[2] \in Int
  BY ConstAssumption
<1>5. ASSUME NEW q \in Seqs, NEW e \in m[q], NEW p \in 0 .. e.pos
      PROVE  e.pos \in Nat /\ \E f \in m[q] : f.pos = p
  BY <1>1, ContentPos DEF GapInv, NoGaps
<1>6. ASSUME NEW q \in Seqs, NEW e \in new[q], NEW p \in 0 .. e.pos
      PROVE  \E f \in new[q] : f.pos = p
  <2>1. CASE q # d
    BY <1>3, <1>5, <2>1
  <2>2. CASE q = d /\ e \in kept
    <3>1. kept = m[d] /\ e \in m[d]
      BY <2>2
    <3>2. PICK f \in m[d] : f.pos = p
      BY <1>5, <3>1
    <3> QED
      BY <1>3, <2>2, <3>1, <3>2
  <2>3. CASE q = d /\ e \in m[s] /\ Memory!In(e, r)
    <3>1. PICK f \in m[s] : f.pos = p
      BY <1>5, <2>3
    <3>2. e.pos \in Nat
      BY <1>1, <2>3, ContentPos
    <3>3. Memory!In(f, r)
      BY <1>4, <2>3, <3>1, <3>2 DEF Memory!In, Memory!PosIn
    <3> QED
      BY <1>3, <2>3, <3>1, <3>3
  <2> QED
    BY <1>3, <2>1, <2>2, <2>3
<1>7. \A q \in Seqs : \A e \in SeqContent'[q] : \A p \in 0 .. e.pos : \E f \in SeqContent'[q] : f.pos = p
  BY <1>1, <1>6
<1> QED
  BY <1>7 DEF GapInv, NoGaps

\* The tokens of an ubatch follow what their sequences hold.
LEMMA ComputeNoGaps ==
  ASSUME RefineInv, IInv', QueueInv', GapInv, Compute
  PROVE  GapInv'
<1>1. phase = "compute" /\ iCur \in 1 .. Len(batch) /\ Len(batch) \in Nat
  BY AtCompute DEF Compute, RefineInv, IInv, CallOK
<1>2. PICK tok \in Toks : OneKind(tok)
  BY <1>1 DEF RefineInv, CountInv
<1>3. ASSUME NEW s \in Seqs, NEW e \in SeqContent'[s], NEW p \in 0 .. e.pos
      PROVE  \E f \in SeqContent'[s] : f.pos = p
  <2>1. PICK next \in [1 .. Len(batch) + 1 -> Nat] :
             /\ \A k \in 1 .. Len(batch) : Continues(batch[k], s, next[k], next[k + 1])
             /\ NextAt(s, next[iCur])
    BY <1>1 DEF RefineInv, CountInv
  <2>2. iCur \in 1 .. Len(batch) + 1 /\ iCur + 1 \in 1 .. Len(batch) + 1
    BY <1>1
  <2>3. PICK from \in Nat, to \in Nat : Continues(batch[iCur], s, from, to) /\ NextAt(s, from)
    BY <1>1, <2>1, <2>2
  <2>4. Gains(SeqContent'[s], SeqContent[s], from, to, tok)
    BY <1>2, <2>3, ComputeEntries DEF RefineInv
  <2>5. PICK m, new : m = SeqContent[s] /\ new = SeqContent'[s]
    OBVIOUS
  <2>6. \A g : g \in new <=> g \in m \/ \E q \in from .. to - 1 : g = [pos |-> q, tok |-> tok]
    BY <2>4, <2>5, Zenon DEF Gains
  <2>7. \A g \in m : g.pos \in Nat /\ g.pos < from
    BY <2>3, <2>5, ContentPos DEF RefineInv, NextAt
  <2>8. \A g \in m : \A q \in 0 .. g.pos : \E f \in m : f.pos = q
    BY <2>5 DEF GapInv, NoGaps
  <2>9. \A q \in 0 .. from - 1 : \E f \in m : f.pos = q
    <3>1. CASE from = 0
      BY <3>1
    <3>2. CASE from # 0
      <4>1. PICK g \in m : g.pos = from - 1
        BY <2>3, <2>5, <3>2 DEF NextAt
      <4> QED
        BY <2>8, <4>1
    <3> QED
      BY <3>1, <3>2
  <2>10. e.pos \in Int /\ (e.pos < from \/ e.pos \in from .. to - 1)
    <3>1. e \in m \/ \E q \in from .. to - 1 : e = [pos |-> q, tok |-> tok]
      BY <2>5, <2>6, Zenon
    <3>2. CASE e \in m
      BY <2>7, <3>2
    <3>3. ASSUME NEW q \in from .. to - 1, e = [pos |-> q, tok |-> tok]
          PROVE  e.pos \in Int /\ e.pos \in from .. to - 1
      BY <2>3, <3>3
    <3> QED
      BY <3>1, <3>2, <3>3
  <2>11. CASE p < from
    <3>1. p \in 0 .. from - 1
      BY <2>10, <2>11
    <3>2. PICK f \in m : f.pos = p
      BY <2>9, <3>1
    <3>3. f \in new
      BY <2>6, <3>2
    <3> QED
      BY <2>5, <3>2, <3>3
  <2>12. CASE p >= from
    <3>1. p \in from .. to - 1
      BY <2>10, <2>12
    <3>2. PICK f : f = [pos |-> p, tok |-> tok]
      OBVIOUS
    <3>3. f \in new /\ f.pos = p
      BY <2>6, <3>1, <3>2
    <3> QED
      BY <2>5, <3>3
  <2> QED
    BY <2>3, <2>10, <2>11, <2>12
<1> QED
  BY <1>3 DEF GapInv, NoGaps

\* Every step keeps the memory without gaps.
LEMMA GapKeeps ==
  ASSUME PlainUse, NoGapUse, RefineInv, IInv', QueueInv', GapInv, Next
  PROVE  GapInv'
<1>1. CASE Operate
  <2>1. OperateMeans
    BY OperationsMean DEF RefineInv
  <2>2. ASSUME NEW s \in Seqs, NEW r \in Ranges, SeqRm(s, r[1], r[2]) PROVE GapInv'
    <3>1. Memory!Rm({s}, r)
      BY <2>1, <2>2 DEF OperateMeans
    <3>2. r[2] < 0
      BY <2>2 DEF SeqRm, Client, NoGapUse
    <3> QED
      BY <3>1, <3>2, RmNoGaps DEF RefineInv
  <2>3. ASSUME NEW r \in Ranges, SeqRmAny(r[1], r[2]) PROVE GapInv'
    <3>1. Memory!Rm(Seqs, r)
      BY <2>1, <2>3 DEF OperateMeans
    <3>2. r[2] < 0
      BY <2>3 DEF SeqRmAny, Client, NoGapUse
    <3> QED
      BY <3>1, <3>2, RmNoGaps DEF RefineInv
  <2>4. ASSUME NEW s \in Seqs, NEW d \in Seqs, NEW r \in Ranges,
               SeqCpShared(s, d, r[1], r[2]) \/ SeqCpStream(s, d, r[1], r[2])
        PROVE  GapInv'
    <3>1. Memory!Cp(s, d, r)
      BY <2>1, <2>4 DEF OperateMeans
    <3>2. r[1] <= 0
      BY <2>4 DEF SeqCpShared, SeqCpStream, Client, NoGapUse
    <3> QED
      BY <3>1, <3>2, CpNoGaps DEF RefineInv
  <2>5. ASSUME NEW s \in Seqs, SeqKeep(s) PROVE GapInv'
    <3>1. Memory!Keep(s)
      BY <2>1, <2>5 DEF OperateMeans
    <3>2. \A q \in Seqs : SeqContent'[q] = IF q = s THEN SeqContent[s] ELSE {}
      BY <3>1, Zenon DEF Memory!Keep
    <3> QED
      BY <3>2 DEF GapInv, NoGaps
  <2>6. ASSUME NEW wipe \in BOOLEAN, Clear(wipe) PROVE GapInv'
    <3>1. Memory!Clear
      BY <2>1, <2>6 DEF OperateMeans
    <3>2. \A q \in Seqs : SeqContent'[q] = {}
      BY <3>1, Zenon DEF Memory!Clear
    <3> QED
      BY <3>2 DEF GapInv, NoGaps
  <2>7. ASSUME NEW s \in Seqs, NEW r \in Ranges, NEW d, SeqAdd(s, r[1], r[2], d) PROVE FALSE
    BY <2>7 DEF SeqAdd, Client, NoGapUse
  <2>8. ASSUME NEW s \in Seqs, NEW r \in Ranges, NEW d, SeqDiv(s, r[1], r[2], d) PROVE FALSE
    BY <2>8 DEF SeqDiv, Client, NoGapUse
  <2> QED
    BY <1>1, <2>2, <2>3, <2>4, <2>5, <2>6, <2>7, <2>8, Zenon DEF Operate
<1>2. CASE \E b \in Batches, tok \in Toks : DecodeBegin(b, tok)
  <2>1. SeqContent' = SeqContent
    BY <1>2, DecodeBeginUnnoticed DEF RefineInv
  <2> QED
    BY <2>1 DEF GapInv, NoGaps
<1>3. CASE Compute
  BY <1>3, ComputeNoGaps
<1>4. CASE Decode /\ ~Compute
  <2>1. SamePositions
    BY <1>4, DecodeKeepsPositions
  <2>2. ASSUME NEW s \in Seqs
        PROVE  \A e \in SeqContent'[s] : \A p \in 0 .. e.pos : \E f \in SeqContent'[s] : f.pos = p
    <3>1. /\ \A e \in SeqContent[s] : \E f \in SeqContent'[s] : f.pos = e.pos
          /\ \A f \in SeqContent'[s] : \E e \in SeqContent[s] : f.pos = e.pos
      BY <2>1, PositionKept
    <3>2. \A e \in SeqContent[s] : \A p \in 0 .. e.pos : \E f \in SeqContent[s] : f.pos = p
      BY DEF GapInv, NoGaps
    <3> QED
      BY <3>1, <3>2
  <2> QED
    BY <2>2, Zenon DEF GapInv, NoGaps
<1> QED
  BY <1>1, <1>2, <1>3, <1>4 DEF Next

\* While a graph runs, the hidden cells of a sequence are those of its own tokens.
LEMMA HiddenAreOwn ==
  ASSUME IInv, SlotsInv, PlacedInv, phase = "compute", NEW s \in Seqs, NEW p
  PROVE  (\E i \in Idxs : /\ s \in cells[SeqToStream(s)][i].seqs /\ i \in Hidden(SeqToStream(s))
                          /\ cells[SeqToStream(s)][i].pos = p)
           <=> \E j \in OwnTokens(batch[iCur], s) : batch[iCur][SeqToStream(s)][j].pos = p
<1>1. PICK st, u, row : st = SeqToStream(s) /\ u = batch[iCur] /\ row = cells[st]
  OBVIOUS
<1>2. UbatchOK(u) /\ SlotsFit(u, plan[iCur].slots)
  BY <1>1, CurrentUbatch
<1>3. Hidden(st) = IF st \in DOMAIN u THEN SlotCells(plan[iCur].slots[st]) ELSE {}
  BY <1>1 DEF Hidden
<1>4. ASSUME NEW j \in 1 .. Len(u[st]), st \in DOMAIN u
      PROVE  /\ plan[iCur].slots[st][j] \in Idxs /\ plan[iCur].slots[st][j] \in Hidden(st)
             /\ row[plan[iCur].slots[st][j]].seqs = u[st][j].seqs
             /\ row[plan[iCur].slots[st][j]].pos = u[st][j].pos
  <2>1. PICK i : i = plan[iCur].slots[st][j]
    OBVIOUS
  <2>2. i \in Idxs /\ i \in SlotCells(plan[iCur].slots[st])
        /\ row[i] = TokenCell(u[st][j].pos, u[st][j].seqs)
    BY <1>1, <1>4, <2>1, TokenCells
  <2> QED
    BY <1>3, <1>4, <2>1, <2>2 DEF TokenCell
<1>5. ASSUME NEW i \in Idxs, s \in row[i].seqs, i \in Hidden(st), row[i].pos = p
      PROVE  \E j \in OwnTokens(u, s) : u[st][j].pos = p
  <2>1. st \in DOMAIN u /\ i \in SlotCells(plan[iCur].slots[st])
    BY <1>3, <1>5
  <2>2. PICK j \in 1 .. Len(u[st]) : i = plan[iCur].slots[st][j]
    BY <1>2, <2>1 DEF SlotCells, SlotsFit
  <2>3. s \in u[st][j].seqs /\ u[st][j].pos = p
    BY <1>4, <1>5, <2>1, <2>2
  <2>4. j \in OwnTokens(u, s)
    BY <1>1, <2>1, <2>3 DEF OwnTokens
  <2> QED
    BY <2>3, <2>4
<1>6. ASSUME NEW j \in OwnTokens(u, s), u[st][j].pos = p
      PROVE  \E i \in Idxs : s \in row[i].seqs /\ i \in Hidden(st) /\ row[i].pos = p
  <2>1. st \in DOMAIN u /\ j \in 1 .. Len(u[st]) /\ s \in u[st][j].seqs
    BY <1>1 DEF OwnTokens
  <2> QED
    BY <1>4, <1>6, <2>1
<1> QED
  BY <1>1, <1>5, <1>6

\* What find_slot and the attention mask see of a sequence: what it holds and, while
\* a graph runs, its tokens of the ubatch.
LEMMA PositionsHeld ==
  ASSUME IInv, SlotsInv, PlacedInv, phase \in {"idle", "compute"}, NEW s \in Seqs, NEW p
  PROVE  p \in SeqPositions(cells[SeqToStream(s)], s) <=>
           \/ \E e \in SeqContent[s] : e.pos = p
           \/ /\ phase = "compute"
              /\ \E j \in OwnTokens(batch[iCur], s) : batch[iCur][SeqToStream(s)][j].pos = p
<1>1. PICK st, row : st = SeqToStream(s) /\ row = cells[st]
  OBVIOUS
<1>2. st \in Streams /\ DOMAIN row = Idxs
  BY <1>1, StreamOfSeq DEF IInv, TypeOK
<1>3. p \in SeqPositions(row, s) <=> \E i \in Idxs : s \in row[i].seqs /\ row[i].pos = p
  BY <1>2 DEF SeqPositions
<1>4. (\E e \in SeqContent[s] : e.pos = p) <=>
        \E i \in Idxs : s \in row[i].seqs /\ i \notin Hidden(st) /\ row[i].pos = p
  <2>1. SeqContent[s] = Held(row, Settled[st], Hidden(st), s)
    BY <1>1, ContentHeld
  <2>2. \A e : e \in SeqContent[s] <=>
          \E i \in Idxs : s \in row[i].seqs /\ i \notin Hidden(st) /\ e = Meaning(row[i], Settled[st][i])
    BY <2>1, HeldMembers
  <2> QED
    BY <2>2, MeaningPos
<1>5. CASE phase = "idle"
  BY <1>1, <1>2, <1>3, <1>4, <1>5, IdleHides
<1>6. CASE phase = "compute"
  <2>1. (\E i \in Idxs : s \in row[i].seqs /\ i \in Hidden(st) /\ row[i].pos = p)
          <=> \E j \in OwnTokens(batch[iCur], s) : batch[iCur][st][j].pos = p
    BY <1>1, <1>6, HiddenAreOwn
  <2> QED
    BY <1>1, <1>3, <1>4, <1>6, <2>1
<1> QED
  BY <1>5, <1>6

\* The tokens of an ubatch belong to its streams' sequences.
LEMMA TokenOwner ==
  ASSUME IInv, phase = "compute", NEW st \in DOMAIN batch[iCur],
         NEW j \in 1 .. Len(batch[iCur][st]), NEW s \in batch[iCur][st][j].seqs
  PROVE  /\ s \in Seqs /\ SeqToStream(s) = st /\ j \in OwnTokens(batch[iCur], s)
         /\ batch[iCur][st][j].pos \in Nat
<1>1. UbatchOK(batch[iCur])
  BY CurrentUbatch
<1>2. TokenOK(st, batch[iCur][st][j])
  BY <1>1 DEF UbatchOK
<1>3. s \in Seqs /\ SeqToStream(s) = st
  BY <1>2 DEF TokenOK, Token
<1>4. batch[iCur][st][j].pos \in 0 .. MaxPos - 1
  BY <1>2 DEF TokenOK, Token
<1> QED
  BY <1>3, <1>4, ConstAssumption DEF OwnTokens

\* Between calls and while a graph runs, the positions of a sequence are the first n.
LEMMA FirstPositions ==
  ASSUME RefineInv, GapInv, phase \in {"idle", "compute"}, NEW s \in Seqs
  PROVE  \E n \in Nat : SeqPositions(cells[SeqToStream(s)], s) = 0 .. n - 1
<1>1. PICK S, m : S = SeqPositions(cells[SeqToStream(s)], s) /\ m = SeqContent[s]
  OBVIOUS
<1>2. /\ \A e \in m : e.pos \in Nat
      /\ \A e \in m : \A p \in 0 .. e.pos : \E f \in m : f.pos = p
  BY <1>1, ContentPos DEF RefineInv, GapInv, NoGaps
<1>3. ASSUME NEW n \in Nat, NextAt(s, n)
      PROVE  \A p : p \in 0 .. n - 1 <=> \E e \in m : e.pos = p
  <2>1. \A e \in m : e.pos < n
    BY <1>1, <1>3 DEF NextAt
  <2>2. n = 0 \/ \E e \in m : e.pos = n - 1
    BY <1>1, <1>3 DEF NextAt
  <2>3. ASSUME NEW p \in 0 .. n - 1 PROVE \E e \in m : e.pos = p
    <3>1. n # 0
      OBVIOUS
    <3>2. PICK e \in m : e.pos = n - 1
      BY <2>2, <3>1
    <3> QED
      BY <1>2, <3>2
  <2>4. ASSUME NEW e \in m PROVE e.pos \in 0 .. n - 1
    BY <1>2, <2>1
  <2> QED
    BY <2>3, <2>4
<1>4. CASE phase = "idle"
  <2>1. PICK n \in Nat : NextAt(s, n)
    BY <1>4, NextIsAt DEF RefineInv
  <2>2. \A p : p \in S <=> \E e \in m : e.pos = p
    BY <1>1, <1>4, PositionsHeld DEF RefineInv
  <2>3. \A p : p \in S <=> p \in 0 .. n - 1
    BY <1>3, <2>1, <2>2
  <2>4. S = 0 .. n - 1
    BY <2>3
  <2> QED
    BY <1>1, <2>4
<1>5. CASE phase = "compute"
  <2>1. iCur \in 1 .. Len(batch) /\ Len(batch) \in Nat
    BY <1>5 DEF RefineInv, IInv, CallOK
  <2>2. PICK next \in [1 .. Len(batch) + 1 -> Nat] :
             /\ \A k \in 1 .. Len(batch) : Continues(batch[k], s, next[k], next[k + 1])
             /\ NextAt(s, next[iCur])
    BY <1>5 DEF RefineInv, CountInv
  <2>3. iCur \in 1 .. Len(batch) + 1 /\ iCur + 1 \in 1 .. Len(batch) + 1
    BY <2>1
  <2>4. PICK from \in Nat, to \in Nat : Continues(batch[iCur], s, from, to) /\ NextAt(s, from)
    BY <2>1, <2>2, <2>3
  <2>5. PICK own, u, st : own = OwnTokens(batch[iCur], s) /\ u = batch[iCur] /\ st = SeqToStream(s)
    OBVIOUS
  <2>6. {u[st][j].pos : j \in own} = from .. to - 1 /\ Cardinality(own) = to - from
    BY <2>4, <2>5 DEF Continues
  <2>7. from <= to
    <3>1. UbatchOK(u)
      BY <1>5, <2>5, CurrentUbatch DEF RefineInv
    <3>2. Cardinality(own) \in Nat
      BY <2>5, <3>1, OwnFinite
    <3> QED
      BY <2>6, <3>2
  <2>8. \A p : p \in S <=> (\E e \in m : e.pos = p) \/ \E j \in own : u[st][j].pos = p
    BY <1>1, <1>5, <2>5, PositionsHeld DEF RefineInv
  <2>9. \A p : p \in S <=> p \in 0 .. from - 1 \/ p \in from .. to - 1
    <3>1. \A p : (\E e \in m : e.pos = p) <=> p \in 0 .. from - 1
      BY <1>3, <2>4
    <3>2. \A p : (\E j \in own : u[st][j].pos = p) <=> p \in {u[st][j].pos : j \in own}
      OBVIOUS
    <3> QED
      BY <2>6, <2>8, <3>1, <3>2
  <2>10. \A p : p \in 0 .. from - 1 \/ p \in from .. to - 1 <=> p \in 0 .. to - 1
    BY <2>7
  <2>11. S = 0 .. to - 1
    BY <2>9, <2>10
  <2> QED
    BY <1>1, <2>11
<1> QED
  BY <1>4, <1>5

\* A run of positions has no gap.
LEMMA RunContiguous ==
  ASSUME NEW row, NEW s, NEW low \in Nat, NEW n \in Nat, SeqPositions(row, s) = low .. n - 1
  PROVE  /\ SeqPosMin(row, s) .. SeqPosMax(row, s) \subseteq {-1} \cup SeqPositions(row, s)
         /\ SeqPosMax(row, s) = IF low < n THEN n - 1 ELSE -1
<1>1. PICK S : S = SeqPositions(row, s)
  OBVIOUS
<1>2. CASE low >= n
  <2>1. S = {}
    BY <1>1, <1>2
  <2>2. SeqPosMin(row, s) = -1 /\ SeqPosMax(row, s) = -1
    BY <1>1, <2>1 DEF SeqPosMin, SeqPosMax
  <2> QED
    BY <1>1, <1>2, <2>2
<1>3. CASE low < n
  <2>1. S # {} /\ S \in SUBSET Nat /\ S \in SUBSET (0 .. n) /\ n - 1 \in S
    BY <1>1, <1>3
  <2>2. PICK least, greatest : least = Least(S) /\ greatest = Greatest(S)
    OBVIOUS
  <2>3. least \in S
    BY <2>1, <2>2, LeastIsMinimum
  <2>4. greatest \in S /\ \A y \in S : y <= greatest
    BY <2>1, <2>2, GreatestIsMaximum
  <2>5. SeqPosMin(row, s) = least /\ SeqPosMax(row, s) = greatest
    BY <1>1, <2>1, <2>2 DEF SeqPosMin, SeqPosMax
  <2>6. greatest = n - 1
    BY <1>1, <2>1, <2>4
  <2>7. least .. greatest \subseteq S
    BY <1>1, <2>3, <2>4
  <2> QED
    BY <1>1, <1>3, <2>5, <2>6, <2>7
<1> QED
  BY <1>2, <1>3

\* So between its smallest and its largest position a sequence misses none...
LEMMA NoGapsContiguous ==
  ASSUME RefineInv, GapInv
  PROVE  Contiguous
<1>1. ASSUME phase \in {"idle", "compute"}, NEW s \in Seqs
      PROVE  SeqPosMin(cells[SeqToStream(s)], s) .. SeqPosMax(cells[SeqToStream(s)], s)
               \subseteq {-1} \cup SeqPositions(cells[SeqToStream(s)], s)
  <2>1. PICK n \in Nat : SeqPositions(cells[SeqToStream(s)], s) = 0 .. n - 1
    BY <1>1, FirstPositions
  <2> QED
    BY <2>1, RunContiguous
<1> QED
  BY <1>1 DEF Contiguous

\* ...and a token of the running graph finds every position up to its own.
LEMMA NoGapsPresent ==
  ASSUME RefineInv, GapInv
  PROVE  WindowPresent
<1>1. ASSUME phase = "compute", NEW st \in DOMAIN batch[iCur], NEW j \in 1 .. Len(batch[iCur][st]),
             NEW s \in batch[iCur][st][j].seqs, NEW p \in 0 .. batch[iCur][st][j].pos
      PROVE  p \in SeqPositions(cells[st], s)
  <2>1. /\ s \in Seqs /\ SeqToStream(s) = st /\ j \in OwnTokens(batch[iCur], s)
        /\ batch[iCur][st][j].pos \in Nat
    BY <1>1, TokenOwner DEF RefineInv
  <2>2. PICK q : q = batch[iCur][st][j].pos
    OBVIOUS
  <2>3. q \in SeqPositions(cells[st], s)
    BY <1>1, <2>1, <2>2, PositionsHeld DEF RefineInv
  <2>4. PICK n \in Nat : SeqPositions(cells[st], s) = 0 .. n - 1
    BY <1>1, <2>1, FirstPositions
  <2> QED
    BY <2>1, <2>2, <2>3, <2>4
<1> QED
  BY <1>1 DEF WindowPresent

\* A cache without a sliding window, used by a client that makes no gaps, has none, and
\* every graph finds all positions its tokens attend to: whatever was refused, retried,
\* undone, rolled back or copied before.
THEOREM NoGapsInCache ==
  ASSUME PlainUse, NoGapUse
  PROVE  Spec => [](Contiguous /\ WindowPresent)
<1>1. Init => RefineInv /\ GapInv
  <2> SUFFICES ASSUME Init PROVE RefineInv /\ GapInv
    OBVIOUS
  <2>1. Memory!Init
    BY EmptyMemory
  <2>2. \A s \in Seqs : SeqContent[s] = {}
    BY <2>1, Zenon DEF Memory!Init
  <2> QED
    BY <2>2, RefineStarts DEF GapInv, NoGaps
<1>2. RefineInv /\ GapInv /\ [Next]_vars => RefineInv' /\ GapInv'
  <2> SUFFICES ASSUME RefineInv, GapInv, [Next]_vars PROVE RefineInv' /\ GapInv'
    OBVIOUS
  <2>1. RefineInv'
    BY RefineKeeps
  <2>2. CASE UNCHANGED vars
    <3>1. SeqContent' = SeqContent
      BY <2>2, VarsUnchanged
    <3> QED
      BY <2>1, <3>1 DEF GapInv, NoGaps
  <2>3. CASE Next
    BY <2>1, <2>3, GapKeeps DEF RefineInv
  <2> QED
    BY <2>2, <2>3
<1>3. RefineInv /\ GapInv => Contiguous /\ WindowPresent
  BY NoGapsContiguous, NoGapsPresent
<1> QED
  BY <1>1, <1>2, <1>3, PTL DEF Spec

(***************************************************************************)
(* The same with a sliding window: only cells no later token attends to are *)
(* given up.                                                                *)
(***************************************************************************)

\* A client that removes whole sequences, copies them to other streams, and whose
\* batches are one ubatch each; no output buffer is refused.  It may remove suffixes
\* where a window holds one earlier position only.  (What prepare() purges is not given
\* back, and a suffix that is removed uncovers the larger window of an earlier position.)
WindowUse ==
  /\ NSwa > 0
  /\ ClientOps \subseteq {"seq_rm", "seq_rm_any", "seq_cp", "seq_keep", "clear"}
  /\ "seq_rm" \in ClientOps \/ "seq_rm_any" \in ClientOps => \A r \in Ranges : r[2] < 0 /\ (r[1] <= 0 \/ NSwa <= 2)
  /\ "seq_cp" \in ClientOps => ~Unified
  /\ "reserve" \notin Failures
  /\ \A b \in Batches : Len(b) = 1 /\ OneOwner(b)

\* The positions of sequence s in the cells that a slot neither covers nor, by the
\* purge, empties.
Kept(row, slot, s) ==
  {row[i].pos : i \in {k \in Idxs : /\ k \notin SlotCells(slot) /\ s \in row[k].seqs
                                    /\ row[k].pos > Overwritten(row, slot, s)}}

\* The positions of s outside a slot.
Outside(row, slot, s) ==
  {row[i].pos : i \in {k \in Idxs : k \notin SlotCells(slot) /\ s \in row[k].seqs}}

\* The slot that is planned in stream st, if one is.
Spot(st) == IF plan # <<>> /\ st \in DOMAIN batch[1] THEN plan[1].slots[st] ELSE <<>>

\* The cells with the planned ubatch taken back.
Beneath(st) ==
  IF plan # <<>> /\ st \in DOMAIN batch[1] /\ (phase = "prepare" \/ (phase = "restore" /\ iCur = 1))
  THEN [i \in Idxs |-> IF i \in SlotCells(plan[1].slots[st])
          THEN plan[1].old[st][CHOOSE j \in DOMAIN plan[1].slots[st] : plan[1].slots[st][j] = i]
          ELSE cells[st][i]]
  ELSE cells[st]

\* A run of positions that ends before n and holds what a token at n attends to.
HasWindow(S, n) == \E low \in 0 .. n : S = low .. n - 1 /\ (low = 0 \/ low <= n - NSwa + 1)

\* Without the ubatch in progress each sequence is such a run, and the ubatch continues it.
WindowOf(s, n) ==
  LET st == SeqToStream(s)
  IN /\ phase # "idle" => \E to \in Nat : Continues(batch[1], s, n, to)
     /\ phase # "compute" => /\ HasWindow(Kept(Beneath(st), Spot(st), s), n)
                             /\ Overwritten(Beneath(st), Spot(st), s) < n
     /\ phase = "compute" => HasWindow(Outside(cells[st], Spot(st), s), n)
WindowInv ==
  /\ phase # "idle" => Len(batch) = 1
  /\ \A s \in Seqs : \E n \in Nat : WindowOf(s, n)

\* The owners a cell keeps.
LEMMA OwnersLeft ==
  ASSUME NEW st \in Streams, NEW c, CellOK(st, c), NEW S, NEW s
  PROVE  /\ s \in DropSeqs(c, S).seqs <=> s \in c.seqs /\ s \notin S
         /\ s \in DropSeqs(c, S).seqs => DropSeqs(c, S).pos = c.pos
<1>1. /\ s \in DropSeqs(c, S).seqs <=> s \in c.seqs /\ s \notin S
      /\ s \in DropSeqs(c, S).seqs => Meaning(DropSeqs(c, S), NoData) = Meaning(c, NoData)
  BY DropSeqsMeans
<1> QED
  BY <1>1, MeaningPos

\* The largest position of a sequence that a slot covers.
LEMMA OverwrittenIs ==
  ASSUME NEW st \in Streams, NEW row, RowOK(st, row), NEW slot, SlotCells(slot) \subseteq Idxs, NEW s
  PROVE  /\ Overwritten(row, slot, s) \in Int /\ Overwritten(row, slot, s) >= -1
         /\ \A i \in SlotCells(slot) : s \in row[i].seqs => row[i].pos <= Overwritten(row, slot, s)
         /\ \/ Overwritten(row, slot, s) = -1
            \/ \E i \in SlotCells(slot) : s \in row[i].seqs /\ row[i].pos = Overwritten(row, slot, s)
<1>1. PICK T : T = {row[i].pos : i \in {k \in SlotCells(slot) : s \in row[k].seqs}}
  OBVIOUS
<1>2. T \in SUBSET (0 .. MaxPos) /\ MaxPos \in Nat
  <2>1. ASSUME NEW i \in SlotCells(slot), s \in row[i].seqs PROVE row[i].pos \in 0 .. MaxPos
    <3>1. CellOK(st, row[i]) /\ ~IsEmpty(row[i])
      BY <2>1 DEF RowOK, CellOK
    <3>2. row[i].pos \in 0 .. MaxPos - 1
      BY <3>1, OccupiedParts
    <3> QED
      BY <3>2, ConstAssumption
  <2> QED
    BY <1>1, <2>1, ConstAssumption
<1>3. PICK S, m : S = {-1} \cup T /\ m = Overwritten(row, slot, s)
  OBVIOUS
<1>4. m = CHOOSE x \in S : \A y \in S : x >= y
  BY <1>1, <1>3 DEF Overwritten, Greatest
<1>5. S \in SUBSET Int
  BY <1>2, <1>3
<1>6. m \in S /\ \A y \in S : y <= m
  <2>1. CASE T = {}
    <3>1. -1 \in S /\ \A y \in S : y <= -1
      BY <1>3, <2>1
    <3>2. m = -1
      BY <1>4, <1>5, <3>1, GreatestIs
    <3> QED
      BY <3>1, <3>2
  <2>2. CASE T # {}
    <3>1. PICK g : g = Greatest(T)
      OBVIOUS
    <3>2. g \in T /\ \A y \in T : y <= g
      BY <1>2, <2>2, <3>1, GreatestIsMaximum
    <3>3. g \in S /\ \A y \in S : y <= g
      BY <1>2, <1>3, <3>2
    <3>4. m = g
      BY <1>4, <1>5, <3>3, GreatestIs
    <3> QED
      BY <3>3, <3>4
  <2> QED
    BY <2>1, <2>2
<1>7. m \in Int /\ m >= -1 /\ (m = -1 \/ m \in T) /\ \A y \in T : y <= m
  BY <1>3, <1>5, <1>6
<1> QED
  BY <1>1, <1>3, <1>7

\* What apply_ubatch leaves outside its slot: of each sequence the positions above
\* those the slot covers.
LEMMA AppliedOutside ==
  ASSUME NEW st \in Streams, NEW row, RowOK(st, row), NEW toks, NEW slot,
         SlotCells(slot) \subseteq Idxs, NEW i \in Idxs, i \notin SlotCells(slot), NEW s \in Seqs
  PROVE  /\ s \in AppliedRow(row, toks, slot)[i].seqs <=>
              s \in row[i].seqs /\ row[i].pos > Overwritten(row, slot, s)
         /\ s \in AppliedRow(row, toks, slot)[i].seqs => AppliedRow(row, toks, slot)[i].pos = row[i].pos
<1>1. PICK S : S = {q \in Seqs : Overwritten(row, slot, q) >= row[i].pos}
  OBVIOUS
<1>2. AppliedRow(row, toks, slot)[i] = DropSeqs(row[i], S)
  BY <1>1 DEF AppliedRow, Placed
<1>3. CellOK(st, row[i])
  BY DEF RowOK
<1>4. row[i].pos \in Int
  BY <1>3, ConstAssumption DEF CellOK, Cell
<1>5. s \notin S <=> row[i].pos > Overwritten(row, slot, s)
  <2>1. Overwritten(row, slot, s) \in Int
    BY OverwrittenIs
  <2> QED
    BY <1>1, <1>4, <2>1
<1> QED
  BY <1>2, <1>3, <1>5, OwnersLeft

\* A token above everything its sequences lose is placed as it is.
LEMMA AppliedInside ==
  ASSUME NEW row, NEW toks, NEW slot, NEW i \in Idxs, NEW p \in Int, NEW Q, Q # {},
         Placed(row, toks, slot)[i] = TokenCell(p, Q),
         \A s \in Q : Overwritten(row, slot, s) \in Int /\ Overwritten(row, slot, s) < p
  PROVE  AppliedRow(row, toks, slot)[i] = TokenCell(p, Q)
<1>1. PICK S : S = {q \in Seqs : Overwritten(row, slot, q) >= p}
  OBVIOUS
<1>2. AppliedRow(row, toks, slot)[i] = DropSeqs(TokenCell(p, Q), S)
  BY <1>1 DEF AppliedRow, TokenCell
<1>3. Q \ S = Q /\ ~(Q \subseteq S)
  BY <1>1
<1> QED
  BY <1>2, <1>3 DEF DropSeqs, TokenCell

\* Without a slot all is kept.
LEMMA NoSlotKept ==
  ASSUME NEW st \in Streams, NEW row, RowOK(st, row), NEW s
  PROVE  /\ Overwritten(row, <<>>, s) = -1
         /\ Kept(row, <<>>, s) = SeqPositions(row, s)
         /\ Outside(row, <<>>, s) = SeqPositions(row, s)
<1>1. SlotCells(<<>>) = {}
  BY DEF SlotCells
<1>2. PICK m : m = Overwritten(row, <<>>, s)
  OBVIOUS
<1>3. m = -1
  BY <1>1, <1>2, OverwrittenIs
<1>4. ASSUME NEW i \in Idxs, s \in row[i].seqs PROVE row[i].pos > -1
  <2>1. CellOK(st, row[i]) /\ ~IsEmpty(row[i])
    BY <1>4 DEF RowOK, CellOK
  <2>2. row[i].pos \in 0 .. MaxPos - 1
    BY <2>1, OccupiedParts
  <2> QED
    BY <2>2
<1>5. DOMAIN row = Idxs
  BY DEF RowOK
<1> QED
  BY <1>1, <1>2, <1>3, <1>4, <1>5 DEF Kept, Outside, SeqPositions

\* Only positions and owners count.
LEMMA KeptSame ==
  ASSUME NEW row, NEW new, NEW slot, SlotCells(slot) \subseteq Idxs, NEW s,
         \A i \in Idxs : new[i].pos = row[i].pos /\ new[i].seqs = row[i].seqs
  PROVE  /\ Overwritten(new, slot, s) = Overwritten(row, slot, s)
         /\ Kept(new, slot, s) = Kept(row, slot, s)
         /\ Outside(new, slot, s) = Outside(row, slot, s)
<1>1. {new[i].pos : i \in {k \in SlotCells(slot) : s \in new[k].seqs}} =
        {row[i].pos : i \in {k \in SlotCells(slot) : s \in row[k].seqs}}
  OBVIOUS
<1>2. Overwritten(new, slot, s) = Overwritten(row, slot, s)
  BY <1>1 DEF Overwritten
<1> QED
  BY <1>2 DEF Kept, Outside

(***************************************************************************)
(* The steps between calls.                                                 *)
(***************************************************************************)

\* A window that no ubatch is planned for is a run of the sequence's positions.
LEMMA WindowIsRun ==
  ASSUME IInv, plan = <<>>, phase # "compute", NEW s \in Seqs, NEW n \in Nat, WindowOf(s, n)
  PROVE  HasWindow(SeqPositions(cells[SeqToStream(s)], s), n)
<1>1. PICK st : st = SeqToStream(s)
  OBVIOUS
<1>2. st \in Streams /\ RowOK(st, cells[st])
  BY <1>1, StreamOfSeq, TypeOKMemory DEF IInv, MemoryOK
<1>3. Beneath(st) = cells[st] /\ Spot(st) = <<>>
  BY DEF Beneath, Spot
<1>4. HasWindow(Kept(cells[st], <<>>, s), n)
  BY <1>1, <1>3 DEF WindowOf
<1> QED
  BY <1>1, <1>2, <1>4, NoSlotKept

\* And back, in the next state.
LEMMA RunIsWindow ==
  ASSUME IInv', plan' = <<>>, phase' # "compute", NEW s \in Seqs, NEW n \in Nat,
         HasWindow(SeqPositions(cells'[SeqToStream(s)], s), n),
         phase' # "idle" => \E to \in Nat : Continues(batch'[1], s, n, to)
  PROVE  WindowOf(s, n)'
<1>1. PICK st, row : st = SeqToStream(s) /\ row = cells'[st]
  OBVIOUS
<1>2. st \in Streams /\ RowOK(st, row)
  <2>1. cells' \in [Streams -> [Idxs -> Cell]] /\ \A sv \in Streams : \A i \in Idxs : CellOK(sv, cells'[sv][i])
    BY DEF IInv, TypeOK
  <2> QED
    BY <1>1, <2>1, StreamOfSeq DEF RowOK
<1>3. Beneath(st)' = row /\ Spot(st)' = <<>>
  BY <1>1 DEF Beneath, Spot
<1>4. Kept(row, <<>>, s) = SeqPositions(row, s) /\ Overwritten(row, <<>>, s) < n
  BY <1>2, NoSlotKept
<1>5. HasWindow(Kept(row, <<>>, s), n)
  BY <1>1, <1>4
<1>6. /\ HasWindow(Kept(Beneath(st)', Spot(st)', s), n)
      /\ Overwritten(Beneath(st)', Spot(st)', s) < n
  BY <1>3, <1>4, <1>5
<1> QED
  BY <1>1, <1>6 DEF WindowOf

\* Nothing at all is a run.
LEMMA NothingIsRun == HasWindow({}, 0)
BY DEF HasWindow

\* A run that loses a suffix still is one, where a window holds one earlier position.
LEMMA SuffixIsCut ==
  ASSUME NSwa > 0, NSwa <= 2, NEW S, NEW n \in Nat, HasWindow(S, n), NEW k \in Nat
  PROVE  \E m \in Nat : HasWindow({p \in S : p < k}, m)
<1>1. PICK low \in 0 .. n : S = low .. n - 1 /\ (low = 0 \/ low <= n - NSwa + 1)
  BY DEF HasWindow
<1>2. NSwa \in Nat
  BY ShapeAssumption
<1>3. CASE k <= low
  <2>1. {p \in S : p < k} = {}
    BY <1>1, <1>3
  <2> QED
    BY <2>1, NothingIsRun
<1>4. CASE low < k /\ k < n
  <2>1. {p \in S : p < k} = low .. k - 1
    BY <1>1, <1>4
  <2>2. low \in 0 .. k /\ low <= k - NSwa + 1
    BY <1>1, <1>2, <1>4
  <2> QED
    BY <2>1, <2>2 DEF HasWindow
<1>5. CASE n <= k
  <2>1. {p \in S : p < k} = S
    BY <1>1, <1>5
  <2> QED
    BY <2>1
<1>6. k <= low \/ (low < k /\ k < n) \/ n <= k
  BY <1>1
<1> QED
  BY <1>3, <1>4, <1>5, <1>6, Zenon

\* Every operation leaves a sequence its positions, takes all or, where the window is
\* small, a suffix of them, or gives it those of another.
LEMMA OperatePositions ==
  ASSUME WindowUse, IInv, IInv', Operate, NEW s \in Seqs
  PROVE  \/ SeqPositions(cells'[SeqToStream(s)], s) = {}
         \/ /\ NSwa <= 2
            /\ \E k \in Nat : SeqPositions(cells'[SeqToStream(s)], s) =
                              {p \in SeqPositions(cells[SeqToStream(s)], s) : p < k}
         \/ \E q \in Seqs :
              SeqPositions(cells'[SeqToStream(s)], s) = SeqPositions(cells[SeqToStream(q)], q)
<1> DEFINE Gone == \A i \in Idxs : s \notin cells'[SeqToStream(s)][i].seqs
           Stays == \A i \in Idxs :
                      /\ s \in cells'[SeqToStream(s)][i].seqs <=> s \in cells[SeqToStream(s)][i].seqs
                      /\ s \in cells[SeqToStream(s)][i].seqs =>
                           cells'[SeqToStream(s)][i].pos = cells[SeqToStream(s)][i].pos
           Cut == /\ NSwa <= 2
                  /\ \E k \in Nat : \A i \in Idxs :
                       /\ s \in cells'[SeqToStream(s)][i].seqs <=>
                            s \in cells[SeqToStream(s)][i].seqs /\ cells[SeqToStream(s)][i].pos < k
                       /\ s \in cells'[SeqToStream(s)][i].seqs =>
                            cells'[SeqToStream(s)][i].pos = cells[SeqToStream(s)][i].pos
<1>1. PICK st : st = SeqToStream(s)
  OBVIOUS
<1>2. /\ st \in Streams /\ cells \in [Streams -> [Idxs -> Cell]] /\ RowOK(st, cells[st])
      /\ \A i \in Idxs : CellOK(st, cells[st][i])
  BY <1>1, StreamOfSeq, TypeOKMemory DEF IInv, MemoryOK, RowOK
<1>3. ASSUME NEW S \in SUBSET Seqs, NEW r \in Ranges, r[1] <= 0 \/ NSwa <= 2, r[2] < 0,
             \/ cells'[st] = RemovedRow(cells[st], S, r[1], r[2])
             \/ cells'[st] = cells[st]
      PROVE  Gone \/ Stays \/ Cut
  <2>1. CASE cells'[st] = cells[st]
    BY <1>1, <2>1
  <2>2. CASE cells'[st] = RemovedRow(cells[st], S, r[1], r[2])
    <3>1. r[1] \in Int /\ r[2] \in Int /\ st \in Streams
      BY <1>2, ConstAssumption
    <3>2. ASSUME NEW i \in Idxs
          PROVE  /\ s \in cells'[st][i].seqs <=>
                      s \in cells[st][i].seqs /\ (s \notin S \/ cells[st][i].pos < r[1])
                 /\ s \in cells'[st][i].seqs => cells'[st][i].pos = cells[st][i].pos
                 /\ s \in cells[st][i].seqs => cells[st][i].pos \in Nat
      <4>1. cells'[st][i] = IF PosIn(cells[st][i].pos, r[1], r[2])
                            THEN DropSeqs(cells[st][i], S) ELSE cells[st][i]
        BY <2>2 DEF RemovedRow
      <4>2. cells[st][i].pos \in {-1} \cup 0 .. MaxPos - 1
        BY <1>2 DEF CellOK, Cell
      <4>3. s \in cells[st][i].seqs => cells[st][i].pos \in Nat
        BY <1>2, <4>2, ConstAssumption DEF CellOK, IsEmpty
      <4>4. CASE PosIn(cells[st][i].pos, r[1], r[2])
        <5>1. cells'[st][i] = DropSeqs(cells[st][i], S)
          BY <4>1, <4>4
        <5>2. cells[st][i].pos >= r[1]
          BY <1>3, <3>1, <4>2, <4>4, ConstAssumption DEF PosIn
        <5>3. ~(cells[st][i].pos < r[1])
          BY <3>1, <4>2, <5>2, ConstAssumption
        <5> QED
          BY <1>2, <4>3, <5>1, <5>3, OwnersLeft
      <4>5. CASE ~PosIn(cells[st][i].pos, r[1], r[2])
        <5>1. s \in cells[st][i].seqs => cells[st][i].pos < r[1]
          BY <1>3, <3>1, <4>3, <4>5 DEF PosIn
        <5> QED
          BY <4>1, <4>3, <4>5, <5>1
      <4> QED
        BY <4>4, <4>5
    <3>3. CASE s \notin S
      BY <1>1, <3>2, <3>3
    <3>4. CASE s \in S /\ r[1] <= 0
      <4>1. \A i \in Idxs : s \notin cells'[st][i].seqs
        BY <3>1, <3>2, <3>4
      <4> QED
        BY <1>1, <4>1
    <3>5. CASE s \in S /\ ~(r[1] <= 0)
      <4>1. r[1] \in Nat /\ NSwa <= 2
        BY <1>3, <3>1, <3>5
      <4> QED
        BY <1>1, <3>2, <3>5, <4>1
    <3> QED
      BY <3>3, <3>4, <3>5
  <2> QED
    BY <1>3, <2>1, <2>2
<1>4. ASSUME NEW q \in Seqs, NEW r \in Ranges, SeqRm(q, r[1], r[2]) PROVE Gone \/ Stays \/ Cut
  <2>1. (r[1] <= 0 \/ NSwa <= 2) /\ r[2] < 0
    BY <1>4 DEF SeqRm, Client, WindowUse
  <2>2. \/ cells'[st] = RemovedRow(cells[st], {q}, r[1], r[2])
        \/ cells'[st] = cells[st]
    BY <1>2, <1>4 DEF SeqRm, SetRow
  <2> QED
    BY <1>3, <2>1, <2>2
<1>5. ASSUME NEW r \in Ranges, SeqRmAny(r[1], r[2]) PROVE Gone \/ Stays \/ Cut
  <2>1. (r[1] <= 0 \/ NSwa <= 2) /\ r[2] < 0
    BY <1>5 DEF SeqRmAny, Client, WindowUse
  <2>2. cells'[st] = RemovedRow(cells[st], Seqs, r[1], r[2])
    BY <1>2, <1>5 DEF SeqRmAny
  <2> QED
    BY <1>3, <2>1, <2>2
<1>6. ASSUME NEW q \in Seqs, SeqKeep(q) PROVE Gone \/ Stays \/ Cut
  <2>1. CASE SeqToStream(q) # st
    <3>1. cells'[st] = cells[st]
      BY <1>2, <1>6, <2>1 DEF SeqKeep, KeptCells
    <3> QED
      BY <1>1, <3>1
  <2>2. CASE SeqToStream(q) = st
    <3>1. \A i \in Idxs : cells'[st][i] = KeepOnly(cells[st][i], q)
      BY <1>2, <1>6, <2>2 DEF SeqKeep, KeptCells
    <3>2. ASSUME NEW i \in Idxs
          PROVE  /\ s \in cells'[st][i].seqs <=> s \in cells[st][i].seqs /\ s = q
                 /\ s \in cells'[st][i].seqs => cells'[st][i].pos = cells[st][i].pos
      <4>1. cells[st][i] = [pos |-> cells[st][i].pos, shift |-> cells[st][i].shift,
                            seqs |-> cells[st][i].seqs]
        BY <1>2 DEF CellOK, Cell
      <4>2. CASE q \in cells[st][i].seqs
        <5>1. cells'[st][i].seqs = {q} /\ cells'[st][i].pos = cells[st][i].pos
          BY <3>1, <4>1, <4>2 DEF KeepOnly
        <5> QED
          BY <4>2, <5>1
      <4>3. CASE q \notin cells[st][i].seqs
        <5>1. KeepOnly(cells[st][i], q) = EmptyCell
          BY <4>3 DEF KeepOnly
        <5>2. cells'[st][i].seqs = {}
          BY <3>1, <5>1 DEF EmptyCell
        <5> QED
          BY <4>3, <5>2
      <4> QED
        BY <4>2, <4>3
    <3> QED
      BY <1>1, <3>2
  <2> QED
    BY <2>1, <2>2
<1>7. ASSUME NEW wipe \in BOOLEAN, Clear(wipe) PROVE Gone
  BY <1>1, <1>2, <1>7 DEF Clear, NoCells, EmptyCell
<1>8. ASSUME NEW q \in Seqs, NEW d \in Seqs, NEW r \in Ranges,
             SeqCpShared(q, d, r[1], r[2])
      PROVE  FALSE
  BY <1>8 DEF SeqCpShared, Client, WindowUse, SeqToStream
<1>9. ASSUME NEW q \in Seqs, NEW d \in Seqs, NEW r \in Ranges,
             SeqCpStream(q, d, r[1], r[2])
      PROVE  \/ Stays
             \/ SeqPositions(cells'[SeqToStream(s)], s) = SeqPositions(cells[SeqToStream(q)], q)
  <2>1. CASE s # d
    <3>1. SeqToStream(d) # st
      BY <1>1, <1>9, <2>1 DEF SeqCpStream, Client, WindowUse, SeqToStream
    <3>2. cells'[st] = cells[st]
      BY <1>2, <1>9, <3>1 DEF SeqCpStream, SetRow
    <3> QED
      BY <1>1, <3>2
  <2>2. CASE s = d
    <3>1. PICK src, row : src = SeqToStream(q) /\ row = cells[src]
      OBVIOUS
    <3>2. src \in Streams /\ row \in [Idxs -> Cell]
      BY <1>2, <3>1, StreamOfSeq
    <3>3. cells'[st] = [i \in Idxs |-> IF q \in row[i].seqs THEN [row[i] EXCEPT !.seqs = {d}]
                                      ELSE EmptyCell]
      BY <1>1, <1>2, <1>9, <2>2, <3>1 DEF SeqCpStream, SetRow
    <3>4. ASSUME NEW i \in Idxs
          PROVE  /\ s \in cells'[st][i].seqs <=> q \in row[i].seqs
                 /\ q \in row[i].seqs => cells'[st][i].pos = row[i].pos
      <4>1. row[i] \in Cell
        BY <3>2
      <4>2. CASE q \in row[i].seqs
        <5>1. cells'[st][i].seqs = {d} /\ cells'[st][i].pos = row[i].pos
          BY <3>3, <4>1, <4>2 DEF Cell
        <5> QED
          BY <2>2, <4>2, <5>1
      <4>3. CASE q \notin row[i].seqs
        <5>1. cells'[st][i].seqs = {}
          BY <3>3, <4>3 DEF EmptyCell
        <5> QED
          BY <4>3, <5>1
      <4> QED
        BY <4>2, <4>3
    <3>5. DOMAIN row = Idxs /\ DOMAIN cells'[st] = Idxs
      BY <3>2, <3>3
    <3>6. SeqPositions(cells'[st], s) = SeqPositions(row, q)
      BY <3>4, <3>5 DEF SeqPositions
    <3> QED
      BY <1>1, <3>1, <3>6
  <2> QED
    BY <2>1, <2>2
<1>10. ASSUME NEW q \in Seqs, NEW r \in Ranges, NEW d, SeqAdd(q, r[1], r[2], d) PROVE FALSE
  BY <1>10 DEF SeqAdd, Client, WindowUse
<1>11. ASSUME NEW q \in Seqs, NEW r \in Ranges, NEW d, SeqDiv(q, r[1], r[2], d) PROVE FALSE
  BY <1>11 DEF SeqDiv, Client, WindowUse
<1>12. \/ Gone \/ Stays \/ Cut
       \/ \E q \in Seqs :
            SeqPositions(cells'[SeqToStream(s)], s) = SeqPositions(cells[SeqToStream(q)], q)
  <2> HIDE DEF Gone, Stays, Cut
  <2> QED
    BY <1>4, <1>5, <1>6, <1>7, <1>8, <1>9, <1>10, <1>11, Zenon DEF Operate
<1>13. DOMAIN cells'[st] = Idxs /\ DOMAIN cells[st] = Idxs
  <2>1. cells' \in [Streams -> [Idxs -> Cell]]
    BY DEF IInv, TypeOK
  <2> QED
    BY <1>2, <2>1
<1>14. CASE Gone
  <2>1. SeqPositions(cells'[st], s) = {}
    BY <1>1, <1>13, <1>14 DEF SeqPositions
  <2> QED
    BY <1>1, <2>1
<1>15. CASE Stays
  <2>1. SeqPositions(cells'[st], s) = SeqPositions(cells[st], s)
    BY <1>1, <1>13, <1>15 DEF SeqPositions
  <2> QED
    BY <1>1, <2>1
<1>16. CASE Cut
  <2>1. PICK k \in Nat : \A i \in Idxs :
          /\ s \in cells'[st][i].seqs <=> s \in cells[st][i].seqs /\ cells[st][i].pos < k
          /\ s \in cells'[st][i].seqs => cells'[st][i].pos = cells[st][i].pos
    BY <1>1, <1>16
  <2>2. SeqPositions(cells'[st], s) = {p \in SeqPositions(cells[st], s) : p < k}
    BY <1>13, <2>1 DEF SeqPositions
  <2> QED
    BY <1>1, <1>16, <2>2
<1> QED
  BY <1>12, <1>14, <1>15, <1>16

\* The next position of a run is the one after its largest.
LEMMA NextOfRun ==
  ASSUME NEW row, NEW s, NEW n \in Nat, HasWindow(SeqPositions(row, s), n)
  PROVE  /\ SeqPosMax(row, s) + 1 \in Nat
         /\ HasWindow(SeqPositions(row, s), SeqPosMax(row, s) + 1)
<1>1. PICK low \in 0 .. n : SeqPositions(row, s) = low .. n - 1 /\ (low = 0 \/ low <= n - NSwa + 1)
  BY DEF HasWindow
<1>2. PICK max : max = SeqPosMax(row, s)
  OBVIOUS
<1>3. max = IF low < n THEN n - 1 ELSE -1
  BY <1>1, <1>2, RunContiguous
<1>4. CASE low < n
  BY <1>2, <1>3, <1>4
<1>5. CASE low = n
  <2>1. SeqPositions(row, s) = {} /\ max + 1 = 0
    BY <1>1, <1>3, <1>5
  <2> QED
    BY <1>2, <2>1, NothingIsRun
<1> QED
  BY <1>1, <1>4, <1>5

\* Operations keep the windows.
LEMMA OperateWindows ==
  ASSUME WindowUse, IInv, IInv', WindowInv, Operate
  PROVE  WindowInv'
<1>1. phase = "idle" /\ phase' = "idle" /\ plan = <<>> /\ plan' = <<>>
  <2>1. phase = "idle" /\ UNCHANGED callVars
    BY DEF Operate, SeqRm, SeqRmAny, SeqCpShared, SeqCpStream, SeqKeep, SeqAdd, SeqDiv, Clear, Client
  <2> QED
    BY <2>1 DEF callVars, IInv, CallOK
<1>2. ASSUME NEW s \in Seqs PROVE \E n \in Nat : WindowOf(s, n)'
  <2>1. CASE SeqPositions(cells'[SeqToStream(s)], s) = {}
    <3>1. WindowOf(s, 0)'
      BY <1>1, <2>1, NothingIsRun, RunIsWindow
    <3> QED
      BY <3>1
  <2>2. ASSUME NSwa <= 2, NEW k \in Nat,
               SeqPositions(cells'[SeqToStream(s)], s) =
                 {p \in SeqPositions(cells[SeqToStream(s)], s) : p < k}
        PROVE  \E n \in Nat : WindowOf(s, n)'
    <3>1. PICK n \in Nat : WindowOf(s, n)
      BY DEF WindowInv
    <3>2. HasWindow(SeqPositions(cells[SeqToStream(s)], s), n)
      BY <1>1, <3>1, WindowIsRun
    <3>3. \E m \in Nat : HasWindow(SeqPositions(cells'[SeqToStream(s)], s), m)
      BY <2>2, <3>2, SuffixIsCut DEF WindowUse
    <3> QED
      BY <1>1, <3>3, RunIsWindow
  <2>3. ASSUME NEW q \in Seqs,
               SeqPositions(cells'[SeqToStream(s)], s) = SeqPositions(cells[SeqToStream(q)], q)
        PROVE  \E n \in Nat : WindowOf(s, n)'
    <3>1. PICK n \in Nat : WindowOf(q, n)
      BY DEF WindowInv
    <3>2. HasWindow(SeqPositions(cells[SeqToStream(q)], q), n)
      BY <1>1, <3>1, WindowIsRun
    <3>3. WindowOf(s, n)'
      BY <1>1, <2>3, <3>2, RunIsWindow
    <3> QED
      BY <3>3
  <2> QED
    BY <2>1, <2>2, <2>3, OperatePositions
<1> QED
  BY <1>1, <1>2 DEF WindowInv

\* A call's ubatch continues the runs.
LEMMA DecodeBeginWindows ==
  ASSUME WindowUse, IInv, IInv', WindowInv, NEW b \in Batches, NEW tok \in Toks, DecodeBegin(b, tok)
  PROVE  WindowInv'
<1>1. /\ phase = "idle" /\ phase' = "update" /\ batch' = Positioned(b, tok) /\ Accepted(b)
      /\ plan = <<>> /\ plan' = <<>> /\ UNCHANGED cells
  BY DEF DecodeBegin, memVars, IInv, CallOK
<1>2. Len(b) = 1 /\ Len(batch') = 1
  BY <1>1, PositionedOK DEF WindowUse
<1>3. ASSUME NEW s \in Seqs PROVE \E n \in Nat : WindowOf(s, n)'
  <2>1. PICK m \in Nat : WindowOf(s, m)
    BY DEF WindowInv
  <2>2. PICK base : base = SeqPosMax(cells[SeqToStream(s)], s) + 1
    OBVIOUS
  <2>3. base \in Nat /\ HasWindow(SeqPositions(cells[SeqToStream(s)], s), base)
    BY <1>1, <2>1, <2>2, WindowIsRun, NextOfRun
  <2>4. PICK count : count = Cardinality(Upto(b, 1, s))
    OBVIOUS
  <2>5. Cardinality(Upto(b, 0, s)) = 0 /\ count \in Nat
    BY <1>2, <2>4, UptoCounts
  <2>6. Continues(Positioned(b, tok)[1], s, base, base + count)
    <3>1. 1 \in 1 .. Len(b) /\ 1 - 1 = 0
      BY <1>2
    <3>2. Continues(Positioned(b, tok)[1], s, base + Cardinality(Upto(b, 1 - 1, s)),
                    base + Cardinality(Upto(b, 1, s)))
      BY <1>1, <2>2, <2>3, <3>1, PositionedContinues
    <3> QED
      BY <2>3, <2>4, <2>5, <3>1, <3>2
  <2>7. Continues(batch'[1], s, base, base + count) /\ base + count \in Nat
    BY <1>1, <2>3, <2>5, <2>6
  <2>8. HasWindow(SeqPositions(cells'[SeqToStream(s)], s), base)
    BY <1>1, <2>3
  <2>9. WindowOf(s, base)'
    BY <1>1, <2>3, <2>7, <2>8, RunIsWindow
  <2> QED
    BY <2>3, <2>9
<1> QED
  BY <1>2, <1>3 DEF WindowInv

(***************************************************************************)
(* The steps of a call that leave the cells beneath the plan as they are.   *)
(***************************************************************************)

\* Neither the plan nor the positions and owners beneath it change.
LEMMA WindowStays ==
  ASSUME WindowInv, phase \notin {"idle", "compute"}, phase' # "compute",
         phase' = "idle" \/ UNCHANGED batch,
         \A st \in Streams :
           /\ SlotCells(Spot(st)) \subseteq Idxs /\ Spot(st)' = Spot(st)
           /\ \A i \in Idxs : /\ Beneath(st)'[i].pos = Beneath(st)[i].pos
                              /\ Beneath(st)'[i].seqs = Beneath(st)[i].seqs
  PROVE  WindowInv'
<1>1. ASSUME NEW s \in Seqs PROVE \E n \in Nat : WindowOf(s, n)'
  <2>1. PICK n \in Nat : WindowOf(s, n)
    BY DEF WindowInv
  <2>2. PICK st : st = SeqToStream(s)
    OBVIOUS
  <2>3. st \in Streams
    BY <2>2, StreamOfSeq
  <2>4. PICK row, new, slot : row = Beneath(st) /\ new = Beneath(st)' /\ slot = Spot(st)
    OBVIOUS
  <2>5. SlotCells(slot) \subseteq Idxs /\ Spot(st)' = slot
        /\ \A i \in Idxs : new[i].pos = row[i].pos /\ new[i].seqs = row[i].seqs
    BY <2>3, <2>4
  <2>6. Kept(new, slot, s) = Kept(row, slot, s) /\ Overwritten(new, slot, s) = Overwritten(row, slot, s)
    BY <2>5, KeptSame
  <2>7. HasWindow(Kept(row, slot, s), n) /\ Overwritten(row, slot, s) < n
    BY <2>1, <2>2, <2>4 DEF WindowOf
  <2>8. /\ HasWindow(Kept(Beneath(st)', Spot(st)', s), n)
        /\ Overwritten(Beneath(st)', Spot(st)', s) < n
    BY <2>4, <2>5, <2>6, <2>7
  <2>9. phase' # "idle" => \E to \in Nat : Continues(batch'[1], s, n, to)
    BY <2>1 DEF WindowOf
  <2>10. WindowOf(s, n)'
    BY <2>2, <2>8, <2>9 DEF WindowOf
  <2> QED
    BY <2>10
<1> QED
  BY <1>1 DEF WindowInv

\* A plan is as long as what it holds.
LEMMA PlanLength ==
  ASSUME NEW q, IsSequence(q)
  PROVE  Len(q) \in Nat /\ (q = <<>> <=> Len(q) = 0)
<1>1. PICK S : q \in Seq(S)
  BY DEF IsSequence
<1> QED
  BY <1>1, EmptySeq, LenProperties

\* A planned slot lies in the stream.
LEMMA SpotOK ==
  ASSUME IInv, NEW st \in Streams
  PROVE  SlotCells(Spot(st)) \subseteq Idxs
<1>1. CASE plan # <<>> /\ st \in DOMAIN batch[1]
  <2>1. 1 \in 1 .. Len(plan)
    BY <1>1, PlanLength DEF IInv, CallOK
  <2>2. PlannedOK(batch[1], plan[1])
    BY <2>1 DEF IInv, CallOK
  <2>3. plan[1].slots[st] \in [1 .. Len(batch[1][st]) -> Idxs]
    BY <1>1, <2>2 DEF PlannedOK
  <2> QED
    BY <1>1, <2>3 DEF Spot, SlotCells
<1>2. CASE ~(plan # <<>> /\ st \in DOMAIN batch[1])
  <2>1. Spot(st) = <<>>
    BY <1>2 DEF Spot
  <2> QED
    BY <2>1 DEF SlotCells
<1> QED
  BY <1>1, <1>2

\* The pending copies and the K-shift move no position.
LEMMA UpdateWindows ==
  ASSUME IInv, WindowInv, Update
  PROVE  WindowInv'
<1>1. /\ phase = "update" /\ phase' \in {"update", "prepare"} /\ UNCHANGED <<batch, plan>> /\ plan = <<>>
      /\ cells' = cells \/ cells' = [st \in Streams |-> [i \in Idxs |-> [cells[st][i] EXCEPT !.shift = 0]]]
  BY DEF Update, UpdateCopy, UpdateShift, UpdateShiftFails, UpdateNothing, memVars, IInv, CallOK
<1>2. ASSUME NEW st \in Streams, NEW i \in Idxs
      PROVE  cells'[st][i].pos = cells[st][i].pos /\ cells'[st][i].seqs = cells[st][i].seqs
  <2>1. cells[st][i] \in Cell
    BY DEF IInv, TypeOK
  <2> QED
    BY <1>1, <2>1 DEF Cell
<1>3. ASSUME NEW st \in Streams
      PROVE  /\ SlotCells(Spot(st)) \subseteq Idxs /\ Spot(st)' = Spot(st)
             /\ Beneath(st) = cells[st] /\ Beneath(st)' = cells'[st]
  BY <1>1, SpotOK DEF Spot, Beneath
<1> QED
  BY <1>1, <1>2, <1>3, WindowStays

\* The search ends; nothing is taken back yet.
LEMMA PrepareEndsWindows ==
  ASSUME IInv, WindowInv, PrepareEnds
  PROVE  WindowInv'
<1>1. /\ phase = "prepare" /\ phase' = "restore" /\ iCur' = Len(plan) /\ iCur = Len(plan) + 1
      /\ UNCHANGED <<cells, batch, plan>> /\ Len(plan) <= Len(batch) /\ Len(batch) = 1
  BY DEF PrepareEnds, memVars, IInv, TypeOK, CallOK, WindowInv
<1>2. plan # <<>> => iCur' = 1
  <2>1. Len(plan) \in Nat /\ (plan = <<>> <=> Len(plan) = 0)
    BY PlanLength DEF IInv, CallOK
  <2> QED
    BY <1>1, <2>1
<1>3. ASSUME NEW st \in Streams
      PROVE  /\ SlotCells(Spot(st)) \subseteq Idxs /\ Spot(st)' = Spot(st)
             /\ Beneath(st)' = Beneath(st)
  <2>1. Spot(st)' = Spot(st)
    BY <1>1 DEF Spot
  <2>2. Beneath(st)' = Beneath(st)
    BY <1>1, <1>2 DEF Beneath
  <2> QED
    BY <2>1, <2>2, SpotOK
<1> QED
  BY <1>1, <1>3, WindowStays

\* The planned ubatch is taken back: the cells are what was beneath it.
LEMMA RestoreUbatchWindows ==
  ASSUME IInv, WindowInv, RestoreUbatch
  PROVE  WindowInv'
<1>1. /\ phase = "restore" /\ phase' = "restore" /\ iCur > 0 /\ iCur' = iCur - 1 /\ UNCHANGED <<batch, plan>>
      /\ iCur \in Nat /\ iCur <= Len(plan) /\ Len(plan) <= Len(batch) /\ Len(batch) = 1
  BY DEF RestoreUbatch, IInv, TypeOK, CallOK, WindowInv
<1>2. iCur = 1 /\ iCur' = 0 /\ plan # <<>>
  <2>1. Len(plan) \in Nat /\ (plan = <<>> <=> Len(plan) = 0)
    BY PlanLength DEF IInv, CallOK
  <2> QED
    BY <1>1, <2>1
<1>3. cells' = [st \in Streams |-> IF st \notin DOMAIN batch[1] THEN cells[st] ELSE
         [i \in Idxs |-> IF i \in SlotCells(plan[1].slots[st])
            THEN plan[1].old[st][CHOOSE j \in DOMAIN plan[1].slots[st] : plan[1].slots[st][j] = i]
            ELSE cells[st][i]]]
  BY <1>2 DEF RestoreUbatch
<1>4. ASSUME NEW st \in Streams
      PROVE  /\ SlotCells(Spot(st)) \subseteq Idxs /\ Spot(st)' = Spot(st)
             /\ Beneath(st)' = Beneath(st)
  <2>1. Spot(st)' = Spot(st)
    BY <1>1 DEF Spot
  <2>2. Beneath(st)' = cells'[st]
    BY <1>1, <1>2 DEF Beneath
  <2>3. CASE st \in DOMAIN batch[1]
    <3>1. cells'[st] = Beneath(st)
      BY <1>1, <1>2, <1>3, <2>3 DEF Beneath
    <3> QED
      BY <2>1, <2>2, <3>1, SpotOK
  <2>4. CASE st \notin DOMAIN batch[1]
    <3>1. cells'[st] = cells[st] /\ Beneath(st) = cells[st]
      BY <1>3, <2>4 DEF Beneath
    <3> QED
      BY <2>1, <2>2, <3>1, SpotOK
  <2> QED
    BY <2>3, <2>4
<1> QED
  BY <1>1, <1>4, WindowStays

\* What decode makes of the plan moves no cell; a plan is given up only when it is empty.
LEMMA OutcomeWindows ==
  ASSUME WindowUse, IInv, WindowInv, Outcome
  PROVE  WindowInv'
<1>1. /\ phase = "restore" /\ iCur = 0 /\ UNCHANGED cells /\ Len(batch) = 1 /\ Len(plan) <= Len(batch)
      /\ \/ Len(plan) # Len(batch) /\ plan' = <<>> /\ phase' = "update" /\ UNCHANGED batch
         \/ Len(plan) # Len(batch) /\ plan' = <<>> /\ phase' = "idle"
         \/ UNCHANGED <<plan, batch>> /\ phase' = "apply"
  BY DEF Outcome, RetryPrepare, RefuseBatch, ReserveFails, StartUbatches, Restored, Planned, Return,
         memVars, WindowInv, WindowUse, IInv, TypeOK
<1>2. plan' = plan
  <2>1. Len(plan) \in Nat /\ (plan = <<>> <=> Len(plan) = 0)
    BY PlanLength DEF IInv, CallOK
  <2> QED
    BY <1>1, <2>1
<1>3. phase' = "idle" => plan = <<>>
  BY <1>1, <1>2
<1>4. ASSUME NEW st \in Streams
      PROVE  /\ SlotCells(Spot(st)) \subseteq Idxs /\ Spot(st)' = Spot(st)
             /\ Beneath(st)' = Beneath(st)
  <2>1. Spot(st)' = Spot(st)
    BY <1>1, <1>2, <1>3 DEF Spot
  <2>2. Beneath(st)' = Beneath(st)
    BY <1>1, <1>2 DEF Beneath
  <2> QED
    BY <2>1, <2>2, SpotOK
<1> QED
  BY <1>1, <1>4, WindowStays

(***************************************************************************)
(* Planning, placing and computing the ubatch.                              *)
(***************************************************************************)

\* What a slot takes of a run is masked for the next token: the rest is a run with the
\* same window.
LEMMA SlotKeepsWindow ==
  ASSUME NSwa > 0, NEW st \in Streams, NEW row, RowOK(st, row), NEW toks, NEW slot,
         SlotCells(slot) \subseteq Idxs, \A i \in SlotCells(slot) : Usable(row, i),
         NEW s \in Seqs, NEW n \in Nat, HasWindow(SeqPositions(row, s), n), NEW new,
         \A i \in Idxs : IF i \in SlotCells(slot)
                        THEN new[i].pos = row[i].pos /\ new[i].seqs = row[i].seqs
                        ELSE new[i] = AppliedRow(row, toks, slot)[i]
  PROVE  HasWindow(Kept(new, slot, s), n) /\ Overwritten(new, slot, s) < n
<1>1. PICK low \in 0 .. n : SeqPositions(row, s) = low .. n - 1 /\ (low = 0 \/ low <= n - NSwa + 1)
  BY DEF HasWindow
<1>2. PICK m : m = Overwritten(row, slot, s)
  OBVIOUS
<1>3. Overwritten(new, slot, s) = m
  <2>1. {new[i].pos : i \in {k \in SlotCells(slot) : s \in new[k].seqs}} =
          {row[i].pos : i \in {k \in SlotCells(slot) : s \in row[k].seqs}}
    OBVIOUS
  <2> QED
    BY <1>2, <2>1 DEF Overwritten
<1>4. /\ m \in Int /\ m >= -1
      /\ \A i \in SlotCells(slot) : s \in row[i].seqs => row[i].pos <= m
      /\ m = -1 \/ \E i \in SlotCells(slot) : s \in row[i].seqs /\ row[i].pos = m
  BY <1>2, OverwrittenIs
<1>5. DOMAIN row = Idxs /\ NSwa \in Nat
  BY ShapeAssumption DEF RowOK
<1>6. \A p : p \in SeqPositions(row, s) <=> \E i \in Idxs : s \in row[i].seqs /\ row[i].pos = p
  BY <1>5 DEF SeqPositions
<1>7. m = -1 \/ m <= n - NSwa
  <2> SUFFICES ASSUME m # -1 PROVE m <= n - NSwa
    OBVIOUS
  <2>1. PICK i \in SlotCells(slot) : s \in row[i].seqs /\ row[i].pos = m
    BY <1>4
  <2>2. i \in Idxs /\ CellOK(st, row[i])
    BY <2>1 DEF RowOK
  <2>3. ~IsEmpty(row[i])
    BY <2>1, <2>2 DEF CellOK
  <2>4. PICK q \in Seqs : row[i].seqs = {q} /\ MaskedSwa(row[i].pos, SeqPosMax(row, q) + 1)
    BY <2>1, <2>3 DEF Usable
  <2>5. q = s
    BY <2>1, <2>4
  <2>6. m \in low .. n - 1
    BY <1>1, <1>6, <2>1, <2>2
  <2>7. SeqPosMax(row, s) = n - 1
    BY <1>1, <2>6, RunContiguous
  <2> QED
    BY <1>5, <2>1, <2>4, <2>5, <2>6, <2>7 DEF MaskedSwa
<1>8. ASSUME NEW p
      PROVE  p \in Kept(new, slot, s) <=> p \in SeqPositions(row, s) /\ p > m
  <2>1. ASSUME NEW i \in Idxs, i \notin SlotCells(slot)
        PROVE  /\ s \in new[i].seqs <=> s \in row[i].seqs /\ row[i].pos > m
               /\ s \in new[i].seqs => new[i].pos = row[i].pos
    <3>1. new[i] = AppliedRow(row, toks, slot)[i]
      BY <2>1
    <3> QED
      BY <1>2, <2>1, <3>1, AppliedOutside
  <2>2. p \in Kept(new, slot, s) <=>
          \E i \in Idxs : i \notin SlotCells(slot) /\ s \in new[i].seqs /\ new[i].pos > m /\ new[i].pos = p
    BY <1>3 DEF Kept
  <2>3. p \in Kept(new, slot, s) <=>
          \E i \in Idxs : i \notin SlotCells(slot) /\ s \in row[i].seqs /\ row[i].pos > m /\ row[i].pos = p
    BY <2>1, <2>2
  <2>4. ASSUME NEW i \in Idxs, s \in row[i].seqs, row[i].pos > m PROVE i \notin SlotCells(slot)
    <3>1. row[i].pos \in Int
      BY ConstAssumption DEF RowOK, CellOK, Cell
    <3> QED
      BY <1>4, <2>4, <3>1
  <2> QED
    BY <1>6, <2>3, <2>4
<1>9. PICK from : from = IF m < low THEN low ELSE m + 1
  OBVIOUS
<1>10. from \in 0 .. n /\ (from = 0 \/ from <= n - NSwa + 1)
  BY <1>1, <1>4, <1>5, <1>7, <1>9
<1>11. \A p : p \in Kept(new, slot, s) <=> p \in from .. n - 1
  BY <1>1, <1>4, <1>8, <1>9
<1>12. Kept(new, slot, s) = from .. n - 1
  BY <1>11
<1>13. m < n
  BY <1>4, <1>5, <1>7
<1> QED
  BY <1>3, <1>10, <1>12, <1>13 DEF HasWindow

\* Planning the ubatch purges nothing a later token needs.
LEMMA PrepareUbatchWindows ==
  ASSUME WindowUse, IInv, WindowInv, PrepareUbatch
  PROVE  WindowInv'
<1>n. PICK u, slots : u = batch[1] /\ slots = FindSlot(u)
  OBVIOUS
<1>1. /\ phase = "prepare" /\ phase' = "prepare" /\ Len(batch) = 1 /\ iCur = Len(plan) + 1 /\ iCur <= Len(batch)
      /\ UNCHANGED batch
  BY DEF PrepareUbatch, IInv, CallOK, WindowInv
<1>2. plan = <<>> /\ iCur = 1
  <2>1. Len(plan) \in Nat /\ (plan = <<>> <=> Len(plan) = 0)
    BY PlanLength DEF IInv, CallOK
  <2> QED
    BY <1>1, <2>1
<1>3. FoundSlot(u) /\ ApplyUbatch(u, slots)
  BY <1>n, <1>2 DEF PrepareUbatch
<1>4. PICK entry :
        /\ plan' = Append(plan, entry) /\ entry.slots = slots
        /\ entry.old = [st \in DOMAIN u |-> [j \in DOMAIN slots[st] |->
                         [cells[st][slots[st][j]] EXCEPT !.shift = 0]]]
  <2>1. PICK old : old = [st \in DOMAIN u |-> [j \in DOMAIN slots[st] |->
                           [cells[st][slots[st][j]] EXCEPT !.shift = 0]]]
    OBVIOUS
  <2>2. plan' = Append(plan, [slots |-> slots, heads |-> head, old |-> old])
    BY <1>n, <1>2, <2>1, Zenon DEF PrepareUbatch
  <2>3. PICK entry : entry = [slots |-> slots, heads |-> head, old |-> old]
    OBVIOUS
  <2>4. entry.slots = slots /\ entry.old = old
    BY <2>3
  <2> QED
    BY <2>1, <2>2, <2>3, <2>4, Zenon
<1>5. plan' = <<entry>> /\ plan' # <<>> /\ plan'[1] = entry
  BY <1>2, <1>4
<1>6. UbatchOK(u)
  BY <1>n, <1>1 DEF IInv, CallOK
<1>7. ASSUME NEW s \in Seqs PROVE \E n \in Nat : WindowOf(s, n)'
  <2>1. PICK n \in Nat : WindowOf(s, n)
    BY DEF WindowInv
  <2>2. PICK st, row : st = SeqToStream(s) /\ row = cells[st]
    OBVIOUS
  <2>3. st \in Streams /\ RowOK(st, row) /\ cells \in [Streams -> [Idxs -> Cell]]
    BY <2>2, StreamOfSeq, TypeOKMemory DEF IInv, MemoryOK
  <2>4. HasWindow(SeqPositions(row, s), n)
    BY <1>1, <1>2, <2>1, <2>2, WindowIsRun
  <2>5. HasWindow(Kept(Beneath(st)', Spot(st)', s), n) /\ Overwritten(Beneath(st)', Spot(st)', s) < n
    <3>1. CASE st \notin DOMAIN u
      <4>1. Spot(st)' = <<>>
        BY <1>n, <1>1, <3>1 DEF Spot
      <4>2. Beneath(st)' = cells'[st]
        BY <1>n, <1>1, <3>1 DEF Beneath
      <4>3. cells'[st] = row
        BY <1>3, <2>2, <2>3, <3>1 DEF ApplyUbatch
      <4> QED
        BY <2>3, <2>4, <4>1, <4>2, <4>3, NoSlotKept
    <3>2. CASE st \in DOMAIN u
      <4>1. PICK slot, new : slot = slots[st] /\ new = Beneath(st)'
        OBVIOUS
      <4>2. slot \in SlotsOf(row, head[st], Len(u[st]))
        BY <1>3, <1>n, <2>2, <3>2, <4>1, FoundIsSlotOf
      <4>3. slot \in [1 .. Len(u[st]) -> Idxs] /\ \A j \in 1 .. Len(u[st]) : Usable(row, slot[j])
        BY <4>2 DEF SlotsOf, IsSlot
      <4>4. SlotCells(slot) \subseteq Idxs /\ \A i \in SlotCells(slot) : Usable(row, i)
        BY <4>3 DEF SlotCells
      <4>5. Spot(st)' = slot
        BY <1>n, <1>1, <1>4, <1>5, <3>2, <4>1 DEF Spot
      <4>6. cells'[st] = AppliedRow(row, u[st], slot)
        BY <1>3, <2>2, <2>3, <3>2, <4>1 DEF ApplyUbatch
      <4>7. new = [i \in Idxs |-> IF i \in SlotCells(slot)
                    THEN entry.old[st][CHOOSE j \in DOMAIN slot : slot[j] = i] ELSE cells'[st][i]]
        BY <1>n, <1>1, <1>4, <1>5, <3>2, <4>1 DEF Beneath
      <4>8. ASSUME NEW i \in Idxs
            PROVE  IF i \in SlotCells(slot)
                   THEN new[i].pos = row[i].pos /\ new[i].seqs = row[i].seqs
                   ELSE new[i] = AppliedRow(row, u[st], slot)[i]
        <5>1. CASE i \in SlotCells(slot)
          <6>1. PICK j : j = CHOOSE k \in DOMAIN slot : slot[k] = i
            OBVIOUS
          <6>2. j \in DOMAIN slot /\ slot[j] = i
            BY <5>1, <6>1 DEF SlotCells
          <6>3. new[i] = entry.old[st][j]
            BY <4>7, <5>1, <6>1
          <6>4. entry.old[st][j] = [row[i] EXCEPT !.shift = 0]
            <7>1. entry.old[st] = [k \in DOMAIN slot |-> [row[slot[k]] EXCEPT !.shift = 0]]
              BY <1>4, <2>2, <3>2, <4>1
            <7> QED
              BY <6>2, <7>1
          <6>5. row[i] \in Cell
            BY <2>3 DEF RowOK
          <6> QED
            BY <5>1, <6>3, <6>4, <6>5 DEF Cell
        <5>2. CASE i \notin SlotCells(slot)
          BY <4>6, <4>7, <5>2
        <5> QED
          BY <5>1, <5>2
      <4>9. HasWindow(Kept(new, slot, s), n) /\ Overwritten(new, slot, s) < n
        BY <2>3, <2>4, <4>4, <4>8, SlotKeepsWindow DEF WindowUse
      <4> QED
        BY <4>1, <4>5, <4>9
    <3> QED
      BY <3>1, <3>2
  <2>6. \E to \in Nat : Continues(batch'[1], s, n, to)
    BY <1>1, <2>1 DEF WindowOf
  <2>7. WindowOf(s, n)'
    BY <1>1, <2>2, <2>5, <2>6 DEF WindowOf
  <2> QED
    BY <2>7
<1> QED
  BY <1>1, <1>7 DEF WindowInv

\* The ubatch that is placed or computed is the call's only one.
LEMMA OnlyUbatch ==
  ASSUME IInv, WindowInv, phase \in {"apply", "compute"}
  PROVE  /\ iCur = 1 /\ Len(batch) = 1 /\ plan # <<>> /\ UbatchOK(batch[1])
         /\ \A st \in Streams : Spot(st) = IF st \in DOMAIN batch[1] THEN plan[1].slots[st] ELSE <<>>
<1>1. Len(batch) = 1 /\ Len(plan) = 1 /\ iCur \in 1 .. 1
  BY DEF WindowInv, IInv, CallOK
<1>2. plan # <<>>
  BY <1>1, PlanLength DEF IInv, CallOK
<1> QED
  BY <1>1, <1>2 DEF Spot, IInv, CallOK

\* Its tokens of a sequence are at the positions from n to to - 1.
LEMMA TokenOf ==
  ASSUME IInv, WindowInv, phase \in {"apply", "compute"},
         NEW s \in Seqs, NEW n \in Nat, NEW to, Continues(batch[1], s, n, to),
         SeqToStream(s) \in DOMAIN batch[1], NEW j \in 1 .. Len(batch[1][SeqToStream(s)]),
         s \in batch[1][SeqToStream(s)][j].seqs
  PROVE  batch[1][SeqToStream(s)][j].pos \in n .. to - 1
<1>1. j \in OwnTokens(batch[1], s)
  BY DEF OwnTokens
<1> QED
  BY <1>1 DEF Continues

\* Placing the ubatch drops none of its tokens, and nothing of the runs but what the
\* plan took.
LEMMA ApplyWindows ==
  ASSUME WindowUse, IInv, WindowInv, Apply
  PROVE  WindowInv' /\ PlacedInv'
<1>n. PICK u, slots : u = batch[1] /\ slots = plan[1].slots
  OBVIOUS
<1>1. /\ phase = "apply" /\ phase' = "compute" /\ UNCHANGED <<batch, plan, iCur>>
      /\ iCur = 1 /\ Len(batch) = 1 /\ plan # <<>> /\ UbatchOK(u) /\ SlotsFit(u, slots)
      /\ ApplyUbatch(u, slots)
  BY <1>n, OnlyUbatch, CurrentUbatch DEF Apply
<1>2. ASSUME NEW st \in Streams
      PROVE  /\ RowOK(st, cells[st]) /\ cells \in [Streams -> [Idxs -> Cell]] /\ Beneath(st) = cells[st]
             /\ SlotCells(Spot(st)) \subseteq Idxs /\ Spot(st)' = Spot(st)
             /\ Spot(st) = IF st \in DOMAIN u THEN slots[st] ELSE <<>>
  BY <1>n, <1>1, SpotOK, TypeOKMemory DEF IInv, MemoryOK, Beneath, Spot
<1>3. ASSUME NEW s \in Seqs PROVE \E n \in Nat : WindowOf(s, n)'
  <2>1. PICK n \in Nat : WindowOf(s, n)
    BY DEF WindowInv
  <2>2. PICK st, row, slot : st = SeqToStream(s) /\ row = cells[st] /\ slot = Spot(st)
    OBVIOUS
  <2>3. st \in Streams
    BY <2>2, StreamOfSeq
  <2>4. HasWindow(Kept(row, slot, s), n)
    BY <1>1, <1>2, <2>1, <2>2, <2>3 DEF WindowOf
  <2>5. Outside(cells'[st], slot, s) = Kept(row, slot, s)
    <3>1. CASE st \in DOMAIN u
      <4>1. cells'[st] = AppliedRow(row, u[st], slot)
        BY <1>1, <1>2, <2>2, <2>3, <3>1 DEF ApplyUbatch
      <4>2. ASSUME NEW i \in Idxs, i \notin SlotCells(slot)
            PROVE  /\ s \in cells'[st][i].seqs <=> s \in row[i].seqs /\ row[i].pos > Overwritten(row, slot, s)
                   /\ s \in cells'[st][i].seqs => cells'[st][i].pos = row[i].pos
        BY <1>2, <2>2, <2>3, <4>1, <4>2, AppliedOutside
      <4> QED
        BY <4>2 DEF Outside, Kept
    <3>2. CASE st \notin DOMAIN u
      <4>1. cells'[st] = row /\ slot = <<>>
        BY <1>1, <1>2, <2>2, <2>3, <3>2 DEF ApplyUbatch
      <4>2. RowOK(st, row)
        BY <1>2, <2>2, <2>3
      <4> QED
        BY <2>3, <4>1, <4>2, NoSlotKept
    <3> QED
      BY <3>1, <3>2
  <2>6. HasWindow(Outside(cells'[st], Spot(st)', s), n)
    BY <1>2, <2>2, <2>3, <2>4, <2>5
  <2>7. \E to \in Nat : Continues(batch'[1], s, n, to)
    BY <1>1, <2>1 DEF WindowOf
  <2>8. WindowOf(s, n)'
    BY <1>1, <2>2, <2>6, <2>7 DEF WindowOf
  <2> QED
    BY <2>8
<1>4. WindowInv'
  BY <1>1, <1>3 DEF WindowInv
<1>5. ASSUME NEW st \in DOMAIN u, NEW i \in SlotCells(slots[st])
      PROVE  cells'[st][i] = Placed(cells'[st], u[st], slots[st])[i]
  <2>1. PICK row, slot, toks : row = cells[st] /\ slot = slots[st] /\ toks = u[st]
    OBVIOUS
  <2>2. st \in Streams /\ slot \in [1 .. Len(toks) -> Idxs] /\ i \in Idxs /\ i \in SlotCells(slot)
    BY <1>1, <1>5, <2>1 DEF UbatchOK, SlotsFit, SlotCells
  <2>3. PICK j : j = CHOOSE k \in DOMAIN slot : slot[k] = i
    OBVIOUS
  <2>4. j \in 1 .. Len(toks)
    BY <2>2, <2>3 DEF SlotCells
  <2>5. PICK p, Q : p = toks[j].pos /\ Q = toks[j].seqs
    OBVIOUS
  <2>6. TokenOK(st, toks[j])
    BY <1>1, <2>1, <2>4 DEF UbatchOK
  <2>7. p \in Int /\ Q # {} /\ \A s \in Q : s \in Seqs /\ SeqToStream(s) = st
    BY <2>5, <2>6 DEF TokenOK, Token
  <2>8. \A any : Placed(any, toks, slot)[i] = TokenCell(p, Q)
    BY <2>2, <2>3, <2>5 DEF Placed
  <2>9. ASSUME NEW s \in Q
        PROVE  Overwritten(row, slot, s) \in Int /\ Overwritten(row, slot, s) < p
    <3>1. s \in Seqs /\ SeqToStream(s) = st
      BY <2>7
    <3>2. PICK n \in Nat, to \in Nat : WindowOf(s, n) /\ Continues(batch[1], s, n, to)
      BY <1>1, <3>1 DEF WindowInv, WindowOf
    <3>3. p \in n .. to - 1
      BY <1>n, <1>1, <2>1, <2>4, <2>5, <2>9, <3>1, <3>2, TokenOf
    <3>4. Overwritten(row, slot, s) < n
      BY <1>1, <1>2, <2>1, <2>2, <3>1, <3>2 DEF WindowOf
    <3>5. Overwritten(row, slot, s) \in Int
      BY <1>2, <2>1, <2>2, OverwrittenIs
    <3> QED
      BY <3>3, <3>4, <3>5
  <2>10. AppliedRow(row, toks, slot)[i] = TokenCell(p, Q)
    BY <2>2, <2>7, <2>8, <2>9, AppliedInside
  <2>11. cells'[st] = AppliedRow(row, toks, slot)
    BY <1>1, <1>2, <2>1, <2>2 DEF ApplyUbatch
  <2> QED
    BY <2>1, <2>8, <2>10, <2>11
<1>6. PlacedInv'
  BY <1>n, <1>1, <1>5 DEF PlacedInv
<1> QED
  BY <1>4, <1>6

\* While the graph runs a sequence has its run and its tokens of the ubatch, which
\* follow each other.
LEMMA RunningPositions ==
  ASSUME IInv, SlotsInv, PlacedInv, WindowInv, phase = "compute", NEW s \in Seqs
  PROVE  \E n, low, to \in Nat :
           /\ low <= n /\ n <= to /\ (low = 0 \/ low <= n - NSwa + 1)
           /\ Continues(batch[1], s, n, to)
           /\ SeqPositions(cells[SeqToStream(s)], s) = low .. to - 1
<1>1. PICK n \in Nat : WindowOf(s, n)
  BY DEF WindowInv
<1>2. PICK st, row, u, slot : st = SeqToStream(s) /\ row = cells[st] /\ u = batch[1] /\ slot = Spot(st)
  OBVIOUS
<1>3. PICK to \in Nat : Continues(u, s, n, to)
  BY <1>1, <1>2 DEF WindowOf
<1>4. PICK low \in 0 .. n : Outside(row, slot, s) = low .. n - 1 /\ (low = 0 \/ low <= n - NSwa + 1)
  BY <1>1, <1>2 DEF WindowOf, HasWindow
<1>5. iCur = 1 /\ UbatchOK(u) /\ st \in Streams /\ DOMAIN row = Idxs
      /\ slot = IF st \in DOMAIN u THEN plan[1].slots[st] ELSE <<>>
  BY <1>2, OnlyUbatch, StreamOfSeq DEF IInv, TypeOK
<1>6. n <= to /\ {u[st][j].pos : j \in OwnTokens(u, s)} = n .. to - 1
  <2>1. Cardinality(OwnTokens(u, s)) \in Nat
    BY <1>5, OwnFinite
  <2> QED
    BY <1>2, <1>3, <2>1 DEF Continues
<1>7. Hidden(st) = SlotCells(slot)
  <2>1. SlotCells(<<>>) = {}
    BY DEF SlotCells
  <2> QED
    BY <1>2, <1>5, <2>1 DEF Hidden
<1>8. ASSUME NEW p
      PROVE  p \in SeqPositions(row, s) <=> p \in low .. n - 1 \/ p \in n .. to - 1
  <2>1. p \in SeqPositions(row, s) <=> \E i \in Idxs : s \in row[i].seqs /\ row[i].pos = p
    BY <1>5 DEF SeqPositions
  <2>2. p \in Outside(row, slot, s) <=>
          \E i \in Idxs : s \in row[i].seqs /\ i \notin SlotCells(slot) /\ row[i].pos = p
    BY DEF Outside
  <2>3. (\E i \in Idxs : s \in row[i].seqs /\ i \in SlotCells(slot) /\ row[i].pos = p)
          <=> \E j \in OwnTokens(u, s) : u[st][j].pos = p
    BY <1>2, <1>5, <1>7, HiddenAreOwn
  <2>4. (\E j \in OwnTokens(u, s) : u[st][j].pos = p) <=> p \in n .. to - 1
    BY <1>6
  <2> QED
    BY <1>4, <2>1, <2>2, <2>3, <2>4
<1>9. SeqPositions(row, s) = low .. to - 1
  <2>1. \A p : p \in low .. n - 1 \/ p \in n .. to - 1 <=> p \in low .. to - 1
    BY <1>6
  <2> QED
    BY <1>8, <2>1
<1> QED
  BY <1>2, <1>3, <1>4, <1>6, <1>9

\* A graph that succeeded leaves runs that end with its tokens.
LEMMA ComputeWindows ==
  ASSUME WindowUse, IInv, IInv', SlotsInv, PlacedInv, WindowInv, Compute
  PROVE  WindowInv'
<1>1. phase = "compute" /\ phase' = "idle" /\ plan' = <<>> /\ UNCHANGED cells
  <2>1. phase = "compute"
    BY DEF Compute
  <2>2. iCur = 1 /\ Len(batch) = 1
    BY <2>1, OnlyUbatch
  <2> QED
    BY <2>1, <2>2 DEF Compute, Return, memVars
<1>2. ASSUME NEW s \in Seqs PROVE \E n \in Nat : WindowOf(s, n)'
  <2>1. PICK n \in Nat, low \in Nat, to \in Nat :
           /\ low <= n /\ n <= to /\ (low = 0 \/ low <= n - NSwa + 1)
           /\ SeqPositions(cells[SeqToStream(s)], s) = low .. to - 1
    BY <1>1, RunningPositions
  <2>2. low \in 0 .. to /\ (low = 0 \/ low <= to - NSwa + 1)
    BY <2>1, ShapeAssumption
  <2>3. HasWindow(SeqPositions(cells'[SeqToStream(s)], s), to)
    BY <1>1, <2>1, <2>2 DEF HasWindow
  <2>4. WindowOf(s, to)'
    BY <1>1, <2>3, RunIsWindow
  <2> QED
    BY <2>4
<1> QED
  BY <1>1, <1>2 DEF WindowInv

\* A graph that failed leaves the runs as they were before the ubatch.
LEMMA ComputeFailsWindows ==
  ASSUME WindowUse, IInv, IInv', OwnersInv, SlotsInv, PlacedInv, WindowInv, ComputeFails
  PROVE  WindowInv'
<1>n. PICK u : u = batch[1]
  OBVIOUS
<1>1. /\ phase = "compute" /\ phase' = "idle" /\ plan' = <<>> /\ "compute" \in Failures
      /\ iCur = 1 /\ Len(batch) = 1 /\ UbatchOK(u)
      /\ cells' = [st \in Streams |-> IF st \in DOMAIN u
                                      THEN RolledBack(cells[st], u[st]) ELSE cells[st]]
  <2>1. phase = "compute"
    BY DEF ComputeFails
  <2>2. iCur = 1 /\ Len(batch) = 1 /\ UbatchOK(u)
    BY <1>n, <2>1, OnlyUbatch
  <2> QED
    BY <1>n, <2>1, <2>2 DEF ComputeFails, Return
<1>2. ASSUME NEW s \in Seqs PROVE \E n \in Nat : WindowOf(s, n)'
  <2>1. PICK n \in Nat, low \in Nat, to \in Nat :
           /\ low <= n /\ n <= to /\ (low = 0 \/ low <= n - NSwa + 1)
           /\ Continues(u, s, n, to)
           /\ SeqPositions(cells[SeqToStream(s)], s) = low .. to - 1
    BY <1>n, <1>1, RunningPositions
  <2>2. PICK st, row, new : st = SeqToStream(s) /\ row = cells[st] /\ new = cells'[st]
    OBVIOUS
  <2>3. st \in Streams /\ RowOK(st, row) /\ DOMAIN row = Idxs
    BY <2>2, StreamOfSeq, TypeOKMemory DEF IInv, MemoryOK, RowOK
  <2>4. CASE st \notin DOMAIN u
    <3>1. OwnTokens(u, s) = {}
      BY <2>2, <2>4 DEF OwnTokens
    <3>2. n .. to - 1 = {}
      BY <2>1, <3>1 DEF Continues
    <3>3. to = n
      BY <2>1, <3>2
    <3>4. new = row
      BY <1>1, <2>2, <2>3, <2>4
    <3>5. HasWindow(SeqPositions(new, s), n)
      BY <2>1, <2>2, <3>3, <3>4 DEF HasWindow
    <3>6. WindowOf(s, n)'
      BY <1>1, <2>2, <3>5, RunIsWindow
    <3> QED
      BY <3>6
  <2>5. CASE st \in DOMAIN u
    <3>1. PICK toks : toks = u[st]
      OBVIOUS
    <3>2. new = RolledBack(row, toks)
      BY <1>1, <2>2, <2>3, <2>5, <3>1
    <3>3. ASSUME NEW j \in 1 .. Len(toks)
          PROVE  toks[j].pos \in Nat /\ (FirstSeq(toks[j]) = s <=> s \in toks[j].seqs)
      <4>1. TokenOK(st, toks[j])
        BY <1>1, <2>5, <3>1 DEF UbatchOK
      <4>2. toks[j].pos \in Nat
        BY <4>1, ConstAssumption DEF TokenOK, Token
      <4>3. PICK q \in Seqs : toks[j].seqs = {q}
        BY <1>n, <1>1, <2>5, <3>1 DEF OwnersInv
      <4>4. q \in Int
        BY <4>3, ShapeAssumption DEF Seqs
      <4>5. FirstSeq(toks[j]) = q
        BY <4>3, <4>4, FirstOfOne
      <4> QED
        BY <4>2, <4>3, <4>5
    <3>4. PICK Taken : Taken = {toks[j].pos : j \in OwnTokens(u, s)}
      OBVIOUS
    <3>5. Taken = n .. to - 1
      BY <2>1, <2>2, <3>1, <3>4 DEF Continues
    <3>6. \A p : p \in Taken <=> \E j \in 1 .. Len(toks) : s \in toks[j].seqs /\ toks[j].pos = p
      BY <2>2, <2>5, <3>1, <3>4 DEF OwnTokens
    <3>7. ASSUME NEW i \in Idxs
          PROVE  /\ s \in new[i].seqs <=> s \in row[i].seqs /\ ~\E p \in Taken : p <= row[i].pos
                 /\ s \in new[i].seqs => new[i].pos = row[i].pos
      <4>1. PICK S : S = {q \in Seqs : \E j \in 1 .. Len(toks) : FirstSeq(toks[j]) = q /\ toks[j].pos <= row[i].pos}
        OBVIOUS
      <4>2. new[i] = DropSeqs(row[i], S)
        BY <3>2, <4>1 DEF RolledBack
      <4>3. s \in S <=> \E j \in 1 .. Len(toks) : s \in toks[j].seqs /\ toks[j].pos <= row[i].pos
        BY <3>3, <4>1
      <4>4. s \in S <=> \E p \in Taken : p <= row[i].pos
        BY <3>6, <4>3
      <4> QED
        BY <2>3, <4>2, <4>4, OwnersLeft DEF RowOK
    <3>8. DOMAIN new = Idxs
      BY <3>2 DEF RolledBack
    <3>9. ASSUME NEW p
          PROVE  p \in SeqPositions(new, s) <=> p \in low .. n - 1
      <4>1. p \in SeqPositions(new, s) <=>
              \E i \in Idxs : s \in new[i].seqs /\ new[i].pos = p
        BY <3>8 DEF SeqPositions
      <4>2. p \in SeqPositions(row, s) <=> \E i \in Idxs : s \in row[i].seqs /\ row[i].pos = p
        BY <2>3 DEF SeqPositions
      <4>3. p \in SeqPositions(new, s) <=> p \in SeqPositions(row, s) /\ ~\E t \in Taken : t <= p
        BY <3>7, <4>1, <4>2
      <4>4. p \in SeqPositions(row, s) <=> p \in low .. to - 1
        BY <2>1, <2>2
      <4>5. ASSUME p \in low .. to - 1
            PROVE  (\E t \in Taken : t <= p) <=> p >= n
        BY <2>1, <3>5, <4>5
      <4> QED
        BY <2>1, <4>3, <4>4, <4>5
    <3>10. SeqPositions(new, s) = low .. n - 1
      BY <3>9
    <3>11. HasWindow(SeqPositions(new, s), n)
      BY <2>1, <3>10 DEF HasWindow
    <3>12. WindowOf(s, n)'
      BY <1>1, <2>2, <3>11, RunIsWindow
    <3> QED
      BY <3>12
  <2> QED
    BY <2>4, <2>5
<1> QED
  BY <1>1, <1>2 DEF WindowInv

(***************************************************************************)
(* The inductive invariant and what follows from it.                        *)
(***************************************************************************)
SlidingInv == IInv /\ SlotsInv /\ OwnersInv /\ PlacedInv /\ WindowInv

\* An empty cache has empty windows.
LEMMA WindowStarts == Init => SlidingInv
<1> SUFFICES ASSUME Init PROVE SlidingInv
  OBVIOUS
<1>1. RefineInv /\ phase = "idle" /\ plan = <<>>
  BY RefineStarts DEF Init
<1>2. ASSUME NEW s \in Seqs PROVE WindowOf(s, 0)
  <2>1. PICK st, row : st = SeqToStream(s) /\ row = cells[st]
    OBVIOUS
  <2>2. st \in Streams /\ RowOK(st, row)
    BY <1>1, <2>1, StreamOfSeq, TypeOKMemory DEF RefineInv, IInv, MemoryOK
  <2>3. Beneath(st) = row /\ Spot(st) = <<>>
    BY <1>1, <2>1 DEF Beneath, Spot
  <2>4. SeqPositions(row, s) = {}
    <3>1. \A i \in Idxs : row[i].seqs = {}
      BY <2>1, <2>2 DEF Init, NoCells, EmptyCell
    <3> QED
      BY <2>2, <3>1 DEF SeqPositions, RowOK
  <2>5. HasWindow(Kept(row, <<>>, s), 0) /\ Overwritten(row, <<>>, s) < 0
    BY <2>2, <2>4, NoSlotKept, NothingIsRun
  <2> QED
    BY <1>1, <2>1, <2>3, <2>5 DEF WindowOf
<1>3. WindowInv
  BY <1>1, <1>2 DEF WindowInv
<1> QED
  BY <1>1, <1>3 DEF SlidingInv, RefineInv

\* A step that runs no graph leaves no placed ubatch.
LEMMA PlacedOnlyToRun ==
  ASSUME IInv, WindowInv, Next, ~Apply
  PROVE  PlacedInv'
<1>1. CASE phase' # "compute"
  BY <1>1 DEF PlacedInv
<1>2. CASE Operate
  <2>1. phase' = "idle"
    BY <1>2 DEF Operate, SeqRm, SeqRmAny, SeqCpShared, SeqCpStream, SeqKeep, SeqAdd, SeqDiv, Clear, Client, callVars
  <2> QED
    BY <1>1, <2>1
<1>3. CASE \E b \in Batches, tok \in Toks : DecodeBegin(b, tok)
  BY <1>1, <1>3 DEF DecodeBegin
<1>4. CASE Update
  BY <1>1, <1>4 DEF Update, UpdateCopy, UpdateShift, UpdateShiftFails, UpdateNothing
<1>5. CASE Prepare
  BY <1>1, <1>5 DEF Prepare, PrepareUbatch, PrepareEnds, RestoreUbatch
<1>6. CASE Outcome
  BY <1>1, <1>6 DEF Outcome, RetryPrepare, RefuseBatch, ReserveFails, StartUbatches, Return
<1>7. CASE Compute \/ ComputeFails
  BY <1>1, <1>7 DEF Compute, ComputeFails, Return
<1> QED
  BY <1>2, <1>3, <1>4, <1>5, <1>6, <1>7 DEF Next, Decode, Process

\* Every step keeps the windows.
LEMMA WindowKeeps == WindowUse /\ SlidingInv /\ [Next]_vars => SlidingInv'
<1> SUFFICES ASSUME WindowUse, SlidingInv, [Next]_vars PROVE SlidingInv'
  OBVIOUS
<1>1. IInv /\ SlotsInv /\ OwnersInv /\ PlacedInv /\ WindowInv
  BY DEF SlidingInv
<1>2. IInv'
  BY <1>1, NextKeeps
<1>3. CASE UNCHANGED vars
  <2>1. UNCHANGED <<cells, phase, batch, plan, iCur>>
    BY <1>3 DEF vars, callVars
  <2>2. SlotsInv' /\ OwnersInv' /\ PlacedInv'
    BY <1>1, <2>1 DEF SlotsInv, OwnersInv, PlacedInv
  <2>3. ASSUME NEW st PROVE Beneath(st)' = Beneath(st) /\ Spot(st)' = Spot(st)
    BY <2>1 DEF Beneath, Spot
  <2>4. ASSUME NEW s \in Seqs, NEW n \in Nat, WindowOf(s, n) PROVE WindowOf(s, n)'
    BY <2>1, <2>3, <2>4 DEF WindowOf
  <2>5. WindowInv'
    BY <1>1, <2>1, <2>4 DEF WindowInv
  <2> QED
    BY <1>2, <2>2, <2>5 DEF SlidingInv
<1>4. CASE Next
  <2>1. SlotsInv' /\ OwnersInv'
    BY <1>1, <1>4, SlotsKeeps, OwnersKeeps DEF WindowUse
  <2>2. PlacedInv'
    BY <1>1, <1>4, ApplyWindows, PlacedOnlyToRun
  <2>3. ASSUME Operate PROVE WindowInv'
    BY <1>1, <1>2, <2>3, OperateWindows
  <2>4. ASSUME \E b \in Batches, tok \in Toks : DecodeBegin(b, tok) PROVE WindowInv'
    BY <1>1, <1>2, <2>4, DecodeBeginWindows
  <2>5. ASSUME Update PROVE WindowInv'
    BY <1>1, <1>2, <2>5, UpdateWindows
  <2>6. ASSUME Prepare PROVE WindowInv'
    BY <1>1, <1>2, <2>6, PrepareUbatchWindows, PrepareEndsWindows, RestoreUbatchWindows DEF Prepare
  <2>7. ASSUME Outcome PROVE WindowInv'
    BY <1>1, <1>2, <2>7, OutcomeWindows
  <2>8. ASSUME Process PROVE WindowInv'
    BY <1>1, <1>2, <2>8, ApplyWindows, ComputeWindows, ComputeFailsWindows DEF Process
  <2>9. WindowInv'
    BY <1>4, <2>3, <2>4, <2>5, <2>6, <2>7, <2>8 DEF Next, Decode
  <2> QED
    BY <1>2, <2>1, <2>2, <2>9 DEF SlidingInv
<1> QED
  BY <1>3, <1>4

\* Between calls and while a graph runs a sequence's positions follow each other...
LEMMA WindowsContiguous == SlidingInv => Contiguous
<1> SUFFICES ASSUME SlidingInv, phase \in {"idle", "compute"}, NEW s \in Seqs
             PROVE  SeqPosMin(cells[SeqToStream(s)], s) .. SeqPosMax(cells[SeqToStream(s)], s)
                      \subseteq {-1} \cup SeqPositions(cells[SeqToStream(s)], s)
  BY DEF Contiguous
<1>1. IInv /\ SlotsInv /\ PlacedInv /\ WindowInv
  BY DEF SlidingInv
<1>2. \E low, n \in Nat : SeqPositions(cells[SeqToStream(s)], s) = low .. n - 1
  <2>1. CASE phase = "compute"
    BY <1>1, <2>1, RunningPositions
  <2>2. CASE phase = "idle"
    <3>1. plan = <<>>
      BY <1>1, <2>2 DEF IInv, CallOK
    <3>2. PICK n \in Nat : WindowOf(s, n)
      BY <1>1 DEF WindowInv
    <3>3. HasWindow(SeqPositions(cells[SeqToStream(s)], s), n)
      BY <1>1, <2>2, <3>1, <3>2, WindowIsRun
    <3> QED
      BY <3>3 DEF HasWindow
  <2> QED
    BY <2>1, <2>2
<1> QED
  BY <1>2, RunContiguous

\* ...and each token of the running graph finds its window.
LEMMA WindowsPresent == WindowUse /\ SlidingInv => WindowPresent
<1>1. ASSUME WindowUse, SlidingInv, phase = "compute",
             NEW st \in DOMAIN batch[iCur], NEW j \in 1 .. Len(batch[iCur][st]),
             NEW s \in batch[iCur][st][j].seqs, NEW p \in 0 .. batch[iCur][st][j].pos,
             NSwa > 0 => batch[iCur][st][j].pos - p < NSwa
      PROVE  p \in SeqPositions(cells[st], s)
  <2>1. IInv /\ SlotsInv /\ PlacedInv /\ WindowInv /\ NSwa > 0 /\ NSwa \in Nat
    BY <1>1, ShapeAssumption DEF SlidingInv, WindowUse
  <2>2. s \in Seqs /\ SeqToStream(s) = st /\ batch[iCur][st][j].pos \in Nat
    BY <1>1, <2>1, TokenOwner
  <2>3. PICK q : q = batch[iCur][st][j].pos
    OBVIOUS
  <2>4. PICK n \in Nat, low \in Nat, to \in Nat :
           /\ low <= n /\ n <= to /\ (low = 0 \/ low <= n - NSwa + 1)
           /\ Continues(batch[1], s, n, to)
           /\ SeqPositions(cells[st], s) = low .. to - 1
    BY <1>1, <2>1, <2>2, RunningPositions
  <2>5. q \in n .. to - 1
    BY <1>1, <2>1, <2>2, <2>3, <2>4, OnlyUbatch, TokenOf
  <2>6. p \in 0 .. q /\ q - p < NSwa
    BY <1>1, <2>1, <2>3
  <2>7. p \in low .. to - 1
    BY <2>1, <2>4, <2>5, <2>6
  <2> QED
    BY <2>4, <2>7
<1> QED
  BY <1>1 DEF WindowPresent

\* A sliding-window cache whose client removes whole sequences and submits batches of one
\* ubatch gives up only cells no later token attends to, and makes no gaps: whatever
\* was refused, undone or failed before, each token finds its window.
THEOREM SlidingCacheKeepsWindows ==
  ASSUME WindowUse
  PROVE  Spec => [](Contiguous /\ WindowPresent)
<1>1. SlidingInv => Contiguous /\ WindowPresent
  BY WindowsContiguous, WindowsPresent
<1> QED
  BY <1>1, WindowStarts, WindowKeeps, PTL DEF Spec
==============================================================================
