---------------------------- MODULE KVCacheProofs ----------------------------
(***************************************************************************)
(* Proofs about KVCache, for every value of its constants: its type         *)
(* invariant, and that a cache without a sliding window never overwrites a  *)
(* token (PlannedSlotsFree) and refuses a batch only when it lacks the cells *)
(* (RefusedOnlyWhenFull); then about the content of the K/V buffers.        *)
(***************************************************************************)
EXTENDS KVCache, KVSlotsProofs, SequenceTheorems

(***************************************************************************)
(* Cells and rows.                                                          *)
(***************************************************************************)
RowOK(st, row) == row \in [Idxs -> Cell] /\ \A i \in Idxs : CellOK(st, row[i])

\* The empty cell is a cell of every stream.
LEMMA EmptyCellOK == \A st \in Streams : CellOK(st, EmptyCell)
BY DEF CellOK, EmptyCell, Cell, IsEmpty

\* A position below the bound and owners that live in the stream make a cell.
LEMMA OccupiedCellOK ==
  ASSUME NEW st \in Streams, NEW p \in 0 .. MaxPos - 1, NEW sh \in Int,
         NEW S \in SUBSET Seqs, S # {}, \A s \in S : SeqToStream(s) = st
  PROVE  /\ CellOK(st, [pos |-> p, shift |-> sh, seqs |-> S])
         /\ ~IsEmpty([pos |-> p, shift |-> sh, seqs |-> S])
BY ConstAssumption DEF CellOK, Cell, IsEmpty

\* The parts of an occupied cell.
LEMMA OccupiedParts ==
  ASSUME NEW st \in Streams, NEW c, CellOK(st, c), ~IsEmpty(c)
  PROVE  /\ c = [pos |-> c.pos, shift |-> c.shift, seqs |-> c.seqs]
         /\ c.pos \in 0 .. MaxPos - 1 /\ c.shift \in Int
         /\ c.seqs \in SUBSET Seqs /\ c.seqs # {}
         /\ \A s \in c.seqs : SeqToStream(s) = st
BY DEF CellOK, Cell, IsEmpty

\* Removing owners from a cell (seq_rm on one cell) leaves a cell of its stream.
LEMMA DropSeqsOK ==
  ASSUME NEW st \in Streams, NEW c, CellOK(st, c), NEW S
  PROVE  CellOK(st, DropSeqs(c, S))
<1>1. CASE c.seqs \subseteq S
  BY <1>1, EmptyCellOK DEF DropSeqs
<1>2. CASE ~(c.seqs \subseteq S)
  <2>1. DropSeqs(c, S) = [c EXCEPT !.seqs = c.seqs \ S]
    BY <1>2 DEF DropSeqs
  <2> QED
    BY <1>2, <2>1 DEF CellOK, Cell, IsEmpty
<1> QED
  BY <1>1, <1>2

\* So does keeping one owner only (seq_keep on one cell).
LEMMA KeepOnlyOK ==
  ASSUME NEW st \in Streams, NEW c, CellOK(st, c), NEW s \in Seqs
  PROVE  CellOK(st, KeepOnly(c, s))
<1>1. CASE s \in c.seqs
  BY <1>1 DEF KeepOnly, CellOK, Cell, IsEmpty
<1>2. CASE s \notin c.seqs
  BY <1>2, EmptyCellOK DEF KeepOnly
<1> QED
  BY <1>1, <1>2

\* A shifted cell (pos_add) is a cell when the new position stays below the bound.
LEMMA ShiftPosOK ==
  ASSUME NEW st \in Streams, NEW c, CellOK(st, c), ~IsEmpty(c),
         NEW d \in Int, c.pos + d < MaxPos
  PROVE  CellOK(st, ShiftPos(c, d))
<1>0. MaxPos \in Nat
  BY ConstAssumption
<1>1. CASE c.pos + d < 0
  BY <1>1, EmptyCellOK DEF ShiftPos
<1>2. CASE ~(c.pos + d < 0)
  <2>1. c.pos + d \in 0 .. MaxPos - 1 /\ c.shift + d \in Int
    BY <1>0, <1>2, OccupiedParts
  <2>2. ShiftPos(c, d) = [pos |-> c.pos + d, shift |-> c.shift + d, seqs |-> c.seqs]
    BY <1>2 DEF ShiftPos
  <2> QED
    BY <2>1, <2>2, OccupiedParts, OccupiedCellOK
<1> QED
  BY <1>1, <1>2

\* The quotient of a position by a positive divisor is no larger.
LEMMA QuotientInRange ==
  ASSUME NEW p \in Nat, NEW d \in Nat \ {0}
  PROVE  p \div d \in 0 .. p
  OBVIOUS

\* A cell whose position was divided (pos_div) is a cell.
LEMMA DivPosOK ==
  ASSUME NEW st \in Streams, NEW c, CellOK(st, c), ~IsEmpty(c), NEW d \in Nat \ {0}
  PROVE  CellOK(st, DivPos(c, d))
<1>0. MaxPos \in Nat
  BY ConstAssumption
<1>1. c.pos \in Nat /\ c.pos < MaxPos
  BY <1>0, OccupiedParts
<1>2. c.pos \div d \in 0 .. c.pos
  BY <1>1, QuotientInRange
<1> DEFINE q == c.pos \div d
<1>3. q \in 0 .. MaxPos - 1 /\ c.shift + q - c.pos \in Int
  BY <1>0, <1>1, <1>2, OccupiedParts
<1>4. DivPos(c, d) = [pos |-> q, shift |-> c.shift + q - c.pos, seqs |-> c.seqs]
  BY DEF DivPos
<1> QED
  BY <1>3, <1>4, OccupiedParts, OccupiedCellOK

\* A cell whose pending shift was applied, or left out of a copy, is a cell.
LEMMA UnshiftedOK ==
  ASSUME NEW st \in Streams, NEW c, CellOK(st, c)
  PROVE  /\ CellOK(st, [c EXCEPT !.shift = 0])
         /\ IsEmpty([c EXCEPT !.shift = 0]) <=> IsEmpty(c)
<1> DEFINE r == [c EXCEPT !.shift = 0]
<1>1. r.pos = c.pos /\ r.shift = 0 /\ r.seqs = c.seqs /\ r \in Cell
  BY DEF CellOK, Cell
<1> QED
  BY <1>1 DEF CellOK, IsEmpty

\* Pulling the head back to a freed cell keeps it within its stream.
LEMMA HeadAfterInRange ==
  ASSUME NEW old \in [Idxs -> Cell], NEW new, NEW h \in 0 .. Size
  PROVE  HeadAfter(old, new, h) \in 0 .. Size
<1>0. Size \in Nat
  BY ShapeAssumption
<1>1. Freed(old, new) \subseteq Idxs
  BY DEF Freed
<1>2. CASE Freed(old, new) # {}
  <2>1. Freed(old, new) \in SUBSET Nat
    BY <1>0, <1>1 DEF Idxs
  <2>2. Least(Freed(old, new)) \in Idxs
    BY <1>1, <1>2, <2>1, LeastIsMinimum
  <2> QED
    BY <1>0, <2>2 DEF HeadAfter, Idxs
<1>3. CASE Freed(old, new) = {}
  BY <1>3 DEF HeadAfter
<1> QED
  BY <1>2, <1>3

(***************************************************************************)
(* The inductive invariant.  TypeOK alone is not inductive: a decode call   *)
(* places tokens of `batch` into slots of `plan` and writes back what it    *)
(* saved there, so these have to be well-formed too (CallOK).  And that the *)
(* planned cells are free when their ubatch is placed rests on how prepare  *)
(* found them: one ubatch after the other, on cells the earlier ones had    *)
(* occupied, all of which it gave back as it had found them (FreeOK).       *)
(***************************************************************************)
TokenOK(st, t) == t \in Token /\ \A s \in t.seqs : SeqToStream(s) = st

\* An ubatch of the running call.
UbatchOK(u) ==
  /\ DOMAIN u \subseteq Streams
  /\ \A st \in DOMAIN u :
       /\ Len(u[st]) \in Nat \ {0}
       /\ \A j \in 1 .. Len(u[st]) : TokenOK(st, u[st][j])

\* What prepare() remembers for an ubatch: its slots, the heads, the covered cells.
PlannedOK(u, p) ==
  /\ p.heads \in [Streams -> 0 .. Size]
  /\ \A st \in DOMAIN u :
       /\ p.slots[st] \in [1 .. Len(u[st]) -> Idxs]
       /\ \A j \in 1 .. Len(u[st]) : CellOK(st, p.old[st][j])

\* A sequence of whatever its elements are.
IsSequence(q) == q \in Seq({q[k] : k \in DOMAIN q})

\* The running call: its ubatches, its plan, and how far it is in each phase.
CallOK ==
  /\ Len(batch) \in Nat
  /\ \A k \in 1 .. Len(batch) : UbatchOK(batch[k])
  /\ IsSequence(plan)
  /\ \A k \in 1 .. Len(plan) : PlannedOK(batch[k], plan[k])
  /\ phase # "idle" => Len(batch) > 0
  /\ phase \in {"idle", "update"} => plan = <<>>
  /\ phase = "prepare" => iCur = Len(plan) + 1
  /\ phase = "restore" => iCur <= Len(plan)
  /\ phase \in {"apply", "compute"} => Len(plan) = Len(batch) /\ iCur \in 1 .. Len(batch)

\* The cells planned for ubatch k, as <<stream, index>>.
PlannedCells(k) ==
  {c \in Streams \X Idxs : /\ c[1] \in DOMAIN batch[k]
                           /\ \E j \in 1 .. Len(batch[k][c[1]]) : plan[k].slots[c[1]][j] = c[2]}

\* A cell, as <<stream, index>>, that is empty.
FreeCell(c) == IsEmpty(cells[c[1]][c[2]])

\* Without a sliding window, the slots of a plan are disjoint, were free when they were
\* found, are occupied while later ubatches are planned and free again afterwards.
FreeOK ==
  NSwa = 0 =>
    /\ \A k, m \in 1 .. Len(plan) : k # m => PlannedCells(k) \cap PlannedCells(m) = {}
    /\ \A k \in 1 .. Len(plan) : \A st \in DOMAIN batch[k] : \A j \in 1 .. Len(batch[k][st]) :
         IsEmpty(plan[k].old[st][j])
    /\ phase = "prepare" =>
         \A k \in 1 .. Len(plan) : \A c \in PlannedCells(k) : ~FreeCell(c)
    /\ phase = "restore" =>
         \A k \in 1 .. Len(plan) : k > iCur => \A c \in PlannedCells(k) : FreeCell(c)
    /\ phase \in {"apply", "compute"} =>
         \A k \in 1 .. Len(plan) : k > iCur \/ (k = iCur /\ phase = "apply") =>
           \A c \in PlannedCells(k) : FreeCell(c)

\* The inductive invariant.
IInv == TypeOK /\ CallOK /\ FreeOK

\* What TypeOK says of the cells and heads.
MemoryOK ==
  /\ \A st \in Streams : RowOK(st, cells[st])
  /\ cells \in [Streams -> [Idxs -> Cell]]
  /\ head \in [Streams -> 0 .. Size]

\* Type correctness gives the form of every row and head.
LEMMA TypeOKMemory == TypeOK => MemoryOK
BY DEF TypeOK, MemoryOK, RowOK

\* And back, in the next state: well-formed rows and heads are what TypeOK asks of
\* cells and head.
LEMMA MemoryOKTypes ==
  MemoryOK' => /\ cells' \in [Streams -> [Idxs -> Cell]]
               /\ \A st \in Streams : \A i \in Idxs : CellOK(st, cells'[st][i])
               /\ head' \in [Streams -> 0 .. Size]
BY DEF MemoryOK, RowOK

(***************************************************************************)
(* Client operations.  They happen between calls, so they leave CallOK and  *)
(* FreeOK alone and only the cells' types are at stake.                     *)
(***************************************************************************)

\* A step outside a decode call keeps the invariant when it keeps the types.
LEMMA IdleStep ==
  ASSUME IInv, phase = "idle", UNCHANGED callVars, TypeOK'
  PROVE  IInv'
<1>1. CallOK'
  BY DEF IInv, CallOK, callVars, IsSequence, UbatchOK, TokenOK, PlannedOK
<1>2. plan' = <<>> /\ phase' = "idle"
  BY DEF IInv, CallOK, callVars
<1>3. FreeOK'
  BY <1>2 DEF FreeOK
<1> QED
  BY <1>1, <1>3 DEF IInv

\* One stream's cells and head replaced by well-formed ones.
LEMMA SetRowOK ==
  ASSUME MemoryOK, NEW st \in Streams, NEW row, RowOK(st, row), NEW h \in 0 .. Size,
         SetRow(st, row, h)
  PROVE  MemoryOK'
BY DEF MemoryOK, SetRow, RowOK, CellOK, Cell, IsEmpty, SeqToStream, Seqs, Streams, NStream,
       Idxs

\* Every sequence lives in a stream.
LEMMA StreamOfSeq == \A s \in Seqs : SeqToStream(s) \in Streams
BY ShapeAssumption DEF Seqs, SeqToStream, Streams, NStream

\* A client operation that keeps the cells well-formed keeps the invariant.
LEMMA ClientStep ==
  ASSUME IInv, phase = "idle", UNCHANGED callVars, MemoryOK',
         scInfo' \in Seq(Streams \X Streams),
         data' \in [Streams -> [Idxs -> Content]], shadow' \in [Streams -> [Idxs -> Content]]
  PROVE  IInv'
<1>1. TypeOK'
  BY MemoryOKTypes DEF IInv, TypeOK, callVars
<1> QED
  BY <1>1, IdleStep

\* seq_rm of one sequence keeps the invariant: an emptied cell has no owner left and
\* the head moves to a freed cell or stays.
LEMMA SeqRmKeeps ==
  ASSUME IInv, NEW s \in Seqs, NEW p0, NEW p1, SeqRm(s, p0, p1)
  PROVE  IInv'
<1> DEFINE st == SeqToStream(s)
           row == RemovedRow(cells[st], {s}, p0, p1)
<1>0. st \in Streams /\ MemoryOK
  BY StreamOfSeq, TypeOKMemory DEF IInv
<1>1. RowOK(st, row)
  <2>1. ASSUME NEW i \in Idxs PROVE CellOK(st, row[i])
    BY <1>0, <2>1, DropSeqsOK DEF RemovedRow, MemoryOK, RowOK
  <2> QED
    BY <2>1 DEF RowOK, RemovedRow, CellOK
<1>2. HeadAfter(cells[st], row, head[st]) \in 0 .. Size
  BY <1>0, HeadAfterInRange DEF MemoryOK
<1>3. MemoryOK'
  BY <1>0, <1>1, <1>2, SetRowOK DEF SeqRm
<1> QED
  BY <1>3, ClientStep DEF SeqRm, Client, IInv, TypeOK, bufVars

\* seq_rm of every sequence keeps the invariant in every stream.
LEMMA SeqRmAnyKeeps ==
  ASSUME IInv, NEW p0, NEW p1, SeqRmAny(p0, p1)
  PROVE  IInv'
<1> DEFINE rows == [st \in Streams |-> RemovedRow(cells[st], Seqs, p0, p1)]
<1>0. MemoryOK
  BY TypeOKMemory DEF IInv
<1>1. ASSUME NEW st \in Streams
      PROVE  /\ RowOK(st, rows[st])
             /\ HeadAfter(cells[st], rows[st], head[st]) \in 0 .. Size
  <2>1. ASSUME NEW i \in Idxs PROVE CellOK(st, rows[st][i])
    BY <1>0, <2>1, DropSeqsOK DEF RemovedRow, MemoryOK, RowOK
  <2>2. RowOK(st, rows[st])
    BY <2>1 DEF RowOK, RemovedRow, CellOK
  <2>3. HeadAfter(cells[st], rows[st], head[st]) \in 0 .. Size
    BY <1>0, HeadAfterInRange DEF MemoryOK
  <2> QED
    BY <2>2, <2>3
<1>2. cells' = rows /\ head' = [st \in Streams |-> HeadAfter(cells[st], rows[st], head[st])]
  BY DEF SeqRmAny
<1>3. MemoryOK'
  BY <1>1, <1>2 DEF MemoryOK, RowOK
<1> QED
  BY <1>3, ClientStep DEF SeqRmAny, Client, IInv, TypeOK, bufVars

\* A copy within a stream adds an owner that lives in the same stream.
LEMMA SeqCpSharedKeeps ==
  ASSUME IInv, NEW s \in Seqs, NEW d \in Seqs, NEW p0, NEW p1, SeqCpShared(s, d, p0, p1)
  PROVE  IInv'
<1> DEFINE st == SeqToStream(s)
           row == SharedRow(cells[st], s, d, p0, p1)
<1>0. st \in Streams /\ MemoryOK
  BY StreamOfSeq, TypeOKMemory DEF IInv
<1>1. SeqToStream(d) = st /\ UNCHANGED head
  BY DEF SeqCpShared
<1>2. cells' = [cells EXCEPT ![st] = row]
  BY DEF SeqCpShared
<1>3. RowOK(st, row)
  <2>1. ASSUME NEW i \in Idxs PROVE CellOK(st, row[i])
    <3>1. CellOK(st, cells[st][i])
      BY <1>0, <2>1 DEF MemoryOK, RowOK
    <3>2. CASE s \in cells[st][i].seqs
      BY <1>0, <1>1, <3>1, <3>2 DEF SharedRow, CellOK, Cell, IsEmpty
    <3>3. CASE s \notin cells[st][i].seqs
      BY <3>1, <3>3 DEF SharedRow
    <3> QED
      BY <3>2, <3>3
  <2> QED
    BY <2>1 DEF RowOK, CellOK, SharedRow
<1>4. MemoryOK'
  BY <1>0, <1>1, <1>2, <1>3 DEF MemoryOK, RowOK
<1> QED
  BY <1>4, ClientStep DEF SeqCpShared, Client, IInv, TypeOK, bufVars

\* A copy between streams leaves the destination only cells of its own sequence.
LEMMA SeqCpStreamKeeps ==
  ASSUME IInv, NEW s \in Seqs, NEW d \in Seqs, NEW p0, NEW p1, SeqCpStream(s, d, p0, p1)
  PROVE  IInv'
<1> DEFINE src == SeqToStream(s)
           dst == SeqToStream(d)
           row == [i \in Idxs |-> IF s \in cells[src][i].seqs
                                  THEN [cells[src][i] EXCEPT !.seqs = {d}] ELSE EmptyCell]
<1>0. src \in Streams /\ dst \in Streams /\ MemoryOK
  BY StreamOfSeq, TypeOKMemory DEF IInv
<1>1. RowOK(dst, row)
  <2>1. ASSUME NEW i \in Idxs PROVE CellOK(dst, row[i])
    <3>1. CASE s \in cells[src][i].seqs
      BY <1>0, <3>1 DEF MemoryOK, RowOK, CellOK, Cell, IsEmpty
    <3>2. CASE s \notin cells[src][i].seqs
      BY <1>0, <3>2, EmptyCellOK
    <3> QED
      BY <3>1, <3>2
  <2> QED
    BY <2>1 DEF RowOK, CellOK
<1>2. head[src] \in 0 .. Size
  BY <1>0 DEF MemoryOK
<1>3. SetRow(dst, row, head[src])
  BY DEF SeqCpStream
<1>4. MemoryOK'
  BY <1>0, <1>1, <1>2, <1>3, SetRowOK
<1>5. scInfo' \in Seq(Streams \X Streams)
  BY <1>0 DEF SeqCpStream, IInv, TypeOK
<1> QED
  BY <1>4, <1>5, ClientStep DEF SeqCpStream, Client, IInv, TypeOK, bufVars

\* seq_keep leaves only cells of the kept sequence, which lives in that stream.
LEMMA SeqKeepKeeps ==
  ASSUME IInv, NEW s \in Seqs, SeqKeep(s)
  PROVE  IInv'
<1> DEFINE st == SeqToStream(s)
           row == [i \in Idxs |-> KeepOnly(cells[st][i], s)]
<1>0. st \in Streams /\ MemoryOK
  BY StreamOfSeq, TypeOKMemory DEF IInv
<1>1. KeptCells(s) = [cells EXCEPT ![st] = row]
  BY DEF KeptCells
<1>2. KeptCells(s)[st] = row
  BY <1>0, <1>1 DEF MemoryOK
<1>3. RowOK(st, row)
  <2>1. ASSUME NEW i \in Idxs PROVE CellOK(st, row[i])
    BY <1>0, <2>1, KeepOnlyOK DEF MemoryOK, RowOK
  <2> QED
    BY <2>1 DEF RowOK, CellOK
<1>4. HeadAfter(cells[st], row, head[st]) \in 0 .. Size
  BY <1>0, HeadAfterInRange DEF MemoryOK
<1>5. SetRow(st, row, HeadAfter(cells[st], row, head[st]))
  BY <1>1, <1>2 DEF SeqKeep, SetRow
<1>6. MemoryOK'
  BY <1>0, <1>3, <1>4, <1>5, SetRowOK
<1> QED
  BY <1>6, ClientStep DEF SeqKeep, Client, IInv, TypeOK, bufVars

\* The cells seq_add and seq_div touch are occupied.
LEMMA TouchedOccupied ==
  ASSUME MemoryOK, NEW s \in Seqs, NEW p0, NEW p1, NEW i \in Touched(s, p0, p1)
  PROVE  i \in Idxs /\ ~IsEmpty(cells[SeqToStream(s)][i])
BY DEF Touched, PosIn, IsEmpty

\* seq_add keeps positions within bounds: a cell moved below zero is freed.
LEMMA SeqAddKeeps ==
  ASSUME IInv, NEW s \in Seqs, NEW p0, NEW p1, NEW d \in Int, SeqAdd(s, p0, p1, d)
  PROVE  IInv'
<1> DEFINE st == SeqToStream(s)
           row == [i \in Idxs |-> IF i \in Touched(s, p0, p1)
                                  THEN ShiftPos(cells[st][i], d) ELSE cells[st][i]]
           freed == Freed(cells[st], row)
           h == IF freed # {} THEN Least(freed) ELSE 0
<1>0. st \in Streams /\ MemoryOK
  BY StreamOfSeq, TypeOKMemory DEF IInv
<1>1. RowOK(st, row)
  <2>1. ASSUME NEW i \in Idxs PROVE CellOK(st, row[i])
    <3>1. CASE i \in Touched(s, p0, p1)
      <4>1. cells[st][i].pos + d < MaxPos
        BY <3>1 DEF SeqAdd, MayMove
      <4>2. CellOK(st, cells[st][i]) /\ ~IsEmpty(cells[st][i])
        BY <1>0, <3>1, TouchedOccupied DEF MemoryOK, RowOK
      <4> QED
        BY <1>0, <3>1, <4>1, <4>2, ShiftPosOK
    <3>2. CASE i \notin Touched(s, p0, p1)
      BY <1>0, <3>2 DEF MemoryOK, RowOK
    <3> QED
      BY <3>1, <3>2
  <2> QED
    BY <2>1 DEF RowOK, CellOK
<1>2. h \in 0 .. Size
  <2>1. Size \in Nat
    BY ShapeAssumption
  <2>2. freed \subseteq Idxs
    BY <1>0 DEF Freed, MemoryOK
  <2>3. CASE freed # {}
    BY <2>1, <2>2, <2>3, LeastIsMinimum DEF Idxs
  <2>4. CASE freed = {}
    BY <2>1, <2>4
  <2> QED
    BY <2>3, <2>4
<1>3. SetRow(st, row, h)
  BY DEF SeqAdd
<1>4. MemoryOK'
  BY <1>0, <1>1, <1>2, <1>3, SetRowOK
<1> QED
  BY <1>4, ClientStep DEF SeqAdd, Client, IInv, TypeOK, bufVars

\* seq_div keeps positions within bounds: dividing only makes them smaller.
LEMMA SeqDivKeeps ==
  ASSUME IInv, NEW s \in Seqs, NEW p0, NEW p1, NEW d \in Nat \ {0}, SeqDiv(s, p0, p1, d)
  PROVE  IInv'
<1> DEFINE st == SeqToStream(s)
           row == [i \in Idxs |-> IF i \in Touched(s, p0, p1)
                                  THEN DivPos(cells[st][i], d) ELSE cells[st][i]]
<1>0. st \in Streams /\ MemoryOK
  BY StreamOfSeq, TypeOKMemory DEF IInv
<1>1. RowOK(st, row)
  <2>1. ASSUME NEW i \in Idxs PROVE CellOK(st, row[i])
    <3>1. CASE i \in Touched(s, p0, p1)
      BY <1>0, <3>1, TouchedOccupied, DivPosOK DEF MemoryOK, RowOK
    <3>2. CASE i \notin Touched(s, p0, p1)
      BY <1>0, <3>2 DEF MemoryOK, RowOK
    <3> QED
      BY <3>1, <3>2
  <2> QED
    BY <2>1 DEF RowOK, CellOK
<1>2. cells' = [cells EXCEPT ![st] = row] /\ UNCHANGED head
  BY DEF SeqDiv
<1>3. MemoryOK'
  BY <1>0, <1>1, <1>2 DEF MemoryOK, RowOK
<1> QED
  BY <1>3, ClientStep DEF SeqDiv, Client, IInv, TypeOK, bufVars

\* The cache Init and clear leave.
LEMMA NoCellsOK ==
  /\ NoCells \in [Streams -> [Idxs -> Cell]]
  /\ \A st \in Streams : RowOK(st, NoCells[st])
  /\ NoHeads \in [Streams -> 0 .. Size]
  /\ NoBufs \in [Streams -> [Idxs -> Content]]
<1>1. Size \in Nat
  BY ShapeAssumption
<1>2. EmptyCell \in Cell
  BY DEF EmptyCell, Cell
<1>3. NoData \in Content
  BY DEF NoData, Content
<1> QED
  BY <1>1, <1>2, <1>3, EmptyCellOK DEF NoCells, NoHeads, NoBufs, RowOK

\* clear leaves empty cells, heads at zero and, when asked, empty buffers.
LEMMA ClearKeeps ==
  ASSUME IInv, NEW wipe \in BOOLEAN, Clear(wipe)
  PROVE  IInv'
<1>1. MemoryOK'
  BY NoCellsOK DEF Clear, MemoryOK, RowOK
<1>2. /\ data' \in [Streams -> [Idxs -> Content]]
      /\ shadow' \in [Streams -> [Idxs -> Content]]
  BY NoCellsOK DEF Clear, IInv, TypeOK, bufVars
<1> QED
  BY <1>1, <1>2, ClientStep DEF Clear, Client, IInv, TypeOK

\* Every memory operation of the client keeps the invariant.
LEMMA OperateKeeps == IInv /\ Operate => IInv'
<1> SUFFICES ASSUME IInv, Operate PROVE IInv'
  OBVIOUS
<1>0. /\ \A r \in Ranges : r \in Int \X Int
      /\ Deltas \subseteq Int /\ Divisors \subseteq Nat \ {0}
  BY ConstAssumption
<1>1. ASSUME NEW s \in Seqs, NEW r \in Ranges, SeqRm(s, r[1], r[2]) PROVE IInv'
  BY <1>1, SeqRmKeeps
<1>2. ASSUME NEW r \in Ranges, SeqRmAny(r[1], r[2]) PROVE IInv'
  BY <1>2, SeqRmAnyKeeps
<1>3. ASSUME NEW s \in Seqs, NEW d \in Seqs, NEW r \in Ranges, SeqCpShared(s, d, r[1], r[2])
      PROVE  IInv'
  BY <1>3, SeqCpSharedKeeps
<1>4. ASSUME NEW s \in Seqs, NEW d \in Seqs, NEW r \in Ranges, SeqCpStream(s, d, r[1], r[2])
      PROVE  IInv'
  BY <1>4, SeqCpStreamKeeps
<1>5. ASSUME NEW s \in Seqs, SeqKeep(s) PROVE IInv'
  BY <1>5, SeqKeepKeeps
<1>6. ASSUME NEW s \in Seqs, NEW r \in Ranges, NEW d \in Deltas, SeqAdd(s, r[1], r[2], d)
      PROVE  IInv'
  BY <1>0, <1>6, SeqAddKeeps
<1>7. ASSUME NEW s \in Seqs, NEW r \in Ranges, NEW d \in Divisors, SeqDiv(s, r[1], r[2], d)
      PROVE  IInv'
  BY <1>0, <1>7, SeqDivKeeps
<1>8. ASSUME NEW wipe \in BOOLEAN, Clear(wipe) PROVE IInv'
  BY <1>8, ClearKeeps
<1> QED
  BY <1>1, <1>2, <1>3, <1>4, <1>5, <1>6, <1>7, <1>8 DEF Operate

(***************************************************************************)
(* The start of a call: the ubatches get their positions.                   *)
(***************************************************************************)

\* The length of a function on 1 .. n.
LEMMA LenOfFunction ==
  ASSUME NEW n \in Nat, NEW S, NEW f \in [1 .. n -> S]
  PROVE  f \in Seq(S) /\ Len(f) = n
<1>1. f \in Seq(S)
  BY SeqDef
<1>2. DOMAIN f = 1 .. Len(f) /\ Len(f) \in Nat
  BY <1>1, LenProperties
<1> QED
  BY <1>1, <1>2

\* A batch the allocator accepts becomes well-formed ubatches.
LEMMA PositionedOK ==
  ASSUME NEW b \in Batches, NEW tok \in Toks, Accepted(b)
  PROVE  /\ Len(Positioned(b, tok)) = Len(b) /\ Len(b) \in Nat \ {0}
         /\ \A k \in 1 .. Len(b) : UbatchOK(Positioned(b, tok)[k])
<1> DEFINE P == Positioned(b, tok)
<1>1. Len(b) \in Nat \ {0} /\ \A k \in 1 .. Len(b) : IsUbatch(b[k])
  BY ConstAssumption
<1>2. Len(P) = Len(b)
  <2>1. P \in [1 .. Len(b) -> {P[k] : k \in 1 .. Len(b)}]
    BY DEF Positioned
  <2> QED
    BY <1>1, <2>1, LenOfFunction
<1>3. ASSUME NEW k \in 1 .. Len(b) PROVE UbatchOK(P[k])
  <2>1. IsUbatch(b[k])
    BY <1>1
  <2>2. DOMAIN P[k] = DOMAIN b[k] /\ DOMAIN b[k] \subseteq Streams
    BY <2>1 DEF Positioned, IsUbatch
  <2>3. ASSUME NEW st \in DOMAIN b[k]
        PROVE  /\ Len(P[k][st]) \in Nat \ {0}
               /\ \A j \in 1 .. Len(P[k][st]) : TokenOK(st, P[k][st][j])
    <3>1. b[k][st] \in Seq((SUBSET Seqs) \ {{}}) /\ b[k][st] # <<>>
      BY <2>1, <2>3 DEF IsUbatch
    <3>2. Len(b[k][st]) \in Nat \ {0}
      BY <3>1
    <3>3. P[k][st] \in [1 .. Len(b[k][st]) -> {P[k][st][j] : j \in 1 .. Len(b[k][st])}]
      BY <2>3 DEF Positioned
    <3>4. Len(P[k][st]) = Len(b[k][st])
      BY <3>2, <3>3, LenOfFunction
    <3>5. ASSUME NEW j \in 1 .. Len(b[k][st]) PROVE TokenOK(st, P[k][st][j])
      <4> DEFINE S == b[k][st][j]
                 first == CHOOSE q \in S : TRUE
      <4>1. S \in (SUBSET Seqs) \ {{}}
        BY <3>1, <3>5
      <4>2. first \in S
        <5>1. S # {}
          BY <4>1
        <5> HIDE DEF S
        <5> QED
          BY <5>1, ChoiceIsMember
      <4>3. <<k, st, j>> \in Tokens(b)
        BY DEF Tokens
      <4>4. BatchPos(b, k, st, j, first) \in 0 .. MaxPos - 1
        BY <4>2, <4>3 DEF Accepted
      <4>5. P[k][st][j] = [pos |-> BatchPos(b, k, st, j, first), seqs |-> S, tok |-> tok]
        BY DEF Positioned
      <4>6. \A s \in S : SeqToStream(s) = st
        BY <2>1, <2>2, <3>1, <4>1, ShapeAssumption
           DEF IsUbatch, SeqToStream, Streams, NStream, Seqs
      <4> QED
        BY <4>1, <4>4, <4>5, <4>6 DEF TokenOK, Token
    <3> QED
      BY <3>2, <3>4, <3>5
  <2> QED
    BY <2>2, <2>3 DEF UbatchOK
<1> QED
  BY <1>1, <1>2, <1>3

\* With nothing planned CallOK and FreeOK say little.
LEMMA NothingPlanned ==
  ASSUME plan = <<>>
  PROVE  IsSequence(plan) /\ Len(plan) = 0
BY DEF IsSequence

\* The positions a new call gives its tokens are within the bound, and every token
\* has an owner in its own stream.
LEMMA DecodeBeginKeeps ==
  ASSUME IInv, NEW b \in Batches, NEW tok \in Toks, DecodeBegin(b, tok)
  PROVE  IInv'
<1>1. /\ phase' = "update" /\ batch' = Positioned(b, tok) /\ plan' = <<>> /\ iCur' = 0
      /\ UNCHANGED <<memVars, bufVars>>
      /\ copies' = scInfo /\ scInfo' = <<>> /\ retried' = FALSE /\ doShift' \in BOOLEAN
  BY DEF DecodeBegin, IInv, CallOK, HasShift
<1>2. /\ Len(batch') = Len(b) /\ Len(b) \in Nat \ {0}
      /\ \A k \in 1 .. Len(batch') : UbatchOK(batch'[k])
  BY <1>1, PositionedOK DEF DecodeBegin
<1>3. TypeOK'
  <2>1. MemoryOK'
    BY <1>1, TypeOKMemory DEF IInv, memVars, MemoryOK, RowOK, CellOK
  <2>2. scInfo' \in Seq(Streams \X Streams) /\ copies' \in Seq(Streams \X Streams)
    BY <1>1 DEF IInv, TypeOK
  <2>3. Len(plan') <= Len(batch')
    BY <1>1, <1>2
  <2> QED
    BY <1>1, <2>1, <2>2, <2>3, MemoryOKTypes
       DEF TypeOK, bufVars, IInv, Phases
<1>4. CallOK'
  BY <1>1, <1>2 DEF CallOK, IsSequence
<1>5. FreeOK'
  BY <1>1 DEF FreeOK
<1> QED
  BY <1>3, <1>4, <1>5 DEF IInv

(***************************************************************************)
(* The memory update of a call.                                             *)
(***************************************************************************)
LEMMA UpdateCopyKeeps == IInv /\ UpdateCopy => IInv'
<1> SUFFICES ASSUME IInv, UpdateCopy PROVE IInv'
  OBVIOUS
<1>1. data' \in [Streams -> [Idxs -> Content]] /\ copies' \in Seq(Streams \X Streams)
  BY DEF UpdateCopy, IInv, TypeOK
<1>2. UNCHANGED <<memVars, scInfo, shadow, phase, batch, plan, doShift, retried, iCur>>
  BY DEF UpdateCopy
<1>3. TypeOK'
  BY <1>1, <1>2 DEF TypeOK, IInv, memVars, CellOK
<1>4. CallOK'
  BY <1>2 DEF CallOK, IInv, UbatchOK, TokenOK, PlannedOK, IsSequence
<1>5. FreeOK'
  BY <1>2 DEF FreeOK, IInv, UpdateCopy, CallOK
<1> QED
  BY <1>3, <1>4, <1>5 DEF IInv

\* The end of the update: the search starts with nothing planned.
LEMMA PrepareStarts ==
  ASSUME IInv, phase = "update", phase' = "prepare", iCur' = 1,
         UNCHANGED <<head, scInfo, shadow, batch, plan, copies, doShift, retried>>,
         MemoryOK', data' \in [Streams -> [Idxs -> Content]]
  PROVE  IInv'
<1>1. plan' = <<>> /\ Len(plan') = 0
  BY DEF IInv, CallOK
<1>2. TypeOK'
  BY <1>1, MemoryOKTypes DEF TypeOK, IInv, Phases
<1>3. CallOK'
  BY <1>1 DEF CallOK, IInv, UbatchOK, TokenOK, IsSequence
<1>4. FreeOK'
  BY <1>1 DEF FreeOK
<1> QED
  BY <1>2, <1>3, <1>4 DEF IInv

\* Applying the K-shift changes neither positions nor owners.
LEMMA UpdateShiftKeeps == IInv /\ UpdateShift => IInv'
<1> SUFFICES ASSUME IInv, UpdateShift PROVE IInv'
  OBVIOUS
<1>0. MemoryOK
  BY TypeOKMemory DEF IInv
<1>1. MemoryOK'
  <2>1. ASSUME NEW st \in Streams, NEW i \in Idxs
        PROVE  CellOK(st, [cells[st][i] EXCEPT !.shift = 0])
    BY <1>0, <2>1, UnshiftedOK DEF MemoryOK, RowOK
  <2> QED
    BY <1>0, <2>1 DEF UpdateShift, MemoryOK, RowOK, CellOK
<1>2. data' \in [Streams -> [Idxs -> Content]]
  <2>1. ASSUME NEW st \in Streams, NEW i \in Idxs
        PROVE  [data[st][i] EXCEPT !.rot = @ + cells[st][i].shift] \in Content
    <3>1. data[st][i] \in Content
      BY <2>1 DEF IInv, TypeOK
    <3>2. cells[st][i].shift \in Int
      BY <1>0, <2>1 DEF MemoryOK, RowOK, CellOK, Cell
    <3> QED
      BY <3>1, <3>2 DEF Content
  <2> QED
    BY <2>1 DEF UpdateShift, Turned
<1> QED
  BY <1>1, <1>2, PrepareStarts DEF UpdateShift

\* Neither does one that fails: it turns the K of some cells, and that is all.
LEMMA UpdateShiftFailsKeeps == IInv /\ UpdateShiftFails => IInv'
<1> SUFFICES ASSUME IInv, UpdateShiftFails PROVE IInv'
  OBVIOUS
<1>0. MemoryOK
  BY TypeOKMemory DEF IInv
<1>1. MemoryOK'
  BY <1>0 DEF UpdateShiftFails, MemoryOK, RowOK, memVars, CellOK
<1>2. data' \in [Streams -> [Idxs -> Content]]
  <2>1. ASSUME NEW W, NEW st \in Streams, NEW i \in Idxs PROVE Turned(W)[st][i] \in Content
    <3>1. data[st][i] \in Content
      BY <2>1 DEF IInv, TypeOK
    <3>2. cells[st][i].shift \in Int
      BY <1>0, <2>1 DEF MemoryOK, RowOK, CellOK, Cell
    <3>3. [data[st][i] EXCEPT !.rot = @ + cells[st][i].shift] \in Content
      BY <3>1, <3>2 DEF Content
    <3> QED
      BY <3>1, <3>3, Zenon DEF Turned
  <2>2. ASSUME NEW W PROVE Turned(W) \in [Streams -> [Idxs -> Content]]
    BY <2>1 DEF Turned
  <2> QED
    BY <2>2 DEF UpdateShiftFails
<1> QED
  BY <1>1, <1>2, PrepareStarts DEF UpdateShiftFails, memVars

\* The memory update that opens a call keeps the invariant, whether it fails or not.
LEMMA UpdateKeeps == IInv /\ Update => IInv'
<1> SUFFICES ASSUME IInv, Update PROVE IInv'
  OBVIOUS
<1>1. CASE UpdateNothing
  <2>1. MemoryOK'
    BY <1>1, TypeOKMemory DEF IInv, UpdateNothing, MemoryOK, RowOK, memVars, CellOK
  <2> QED
    BY <1>1, <2>1, PrepareStarts DEF UpdateNothing, memVars, bufVars, IInv, TypeOK
<1> QED
  BY <1>1, UpdateCopyKeeps, UpdateShiftKeeps, UpdateShiftFailsKeeps DEF Update

(***************************************************************************)
(* apply_ubatch.                                                            *)
(***************************************************************************)

\* What a slot for the tokens of one row is, as far as the types go.
RowFits(st, toks, slot) ==
  /\ Len(toks) \in Nat \ {0}
  /\ \A j \in 1 .. Len(toks) : TokenOK(st, toks[j])
  /\ slot \in [1 .. Len(toks) -> Idxs]

\* The tokens make occupied cells of the slot and leave the others alone.
LEMMA PlacedOK ==
  ASSUME NEW st \in Streams, NEW row, RowOK(st, row), NEW toks, NEW slot,
         RowFits(st, toks, slot), NEW i \in Idxs
  PROVE  /\ CellOK(st, Placed(row, toks, slot)[i])
         /\ i \in SlotCells(slot) => ~IsEmpty(Placed(row, toks, slot)[i])
         /\ i \notin SlotCells(slot) => Placed(row, toks, slot)[i] = row[i]
<1>1. CASE i \in SlotCells(slot)
  <2> DEFINE j == CHOOSE j \in DOMAIN slot : slot[j] = i
             t == toks[j]
  <2>1. j \in 1 .. Len(toks)
    <3>1. \E k \in DOMAIN slot : slot[k] = i
      BY <1>1 DEF SlotCells
    <3>2. j \in DOMAIN slot
      BY <3>1
    <3> QED
      BY <3>2 DEF RowFits
  <2>2. TokenOK(st, t)
    BY <2>1 DEF RowFits
  <2>3. Placed(row, toks, slot)[i] = [pos |-> t.pos, shift |-> 0, seqs |-> t.seqs]
    BY <1>1 DEF Placed, TokenCell
  <2>4. /\ t.pos \in 0 .. MaxPos - 1 /\ t.seqs \in SUBSET Seqs /\ t.seqs # {}
        /\ \A s \in t.seqs : SeqToStream(s) = st
    BY <2>2 DEF TokenOK, Token
  <2> HIDE DEF t
  <2> QED
    BY <1>1, <2>3, <2>4, OccupiedCellOK
<1>2. CASE i \notin SlotCells(slot)
  BY <1>2 DEF Placed, RowOK
<1> QED
  BY <1>1, <1>2

\* So does the purge that follows.
LEMMA AppliedRowOK ==
  ASSUME NEW st \in Streams, NEW row, RowOK(st, row), NEW toks, NEW slot,
         RowFits(st, toks, slot)
  PROVE  RowOK(st, AppliedRow(row, toks, slot))
<1> DEFINE new == Placed(row, toks, slot)
           lost(i) == {s \in Seqs : Overwritten(row, slot, s) >= new[i].pos}
<1>1. \A i \in Idxs : AppliedRow(row, toks, slot)[i] = DropSeqs(new[i], lost(i))
  BY DEF AppliedRow
<1>2. \A i \in Idxs : CellOK(st, DropSeqs(new[i], lost(i)))
  <2>1. ASSUME NEW i \in Idxs PROVE CellOK(st, DropSeqs(new[i], lost(i)))
    <3>1. CellOK(st, new[i])
      BY PlacedOK
    <3> HIDE DEF new, lost
    <3> QED
      BY <3>1, DropSeqsOK
  <2> QED
    BY <2>1
<1>3. DOMAIN AppliedRow(row, toks, slot) = Idxs
  BY DEF AppliedRow
<1>4. AppliedRow(row, toks, slot) = [i \in Idxs |-> AppliedRow(row, toks, slot)[i]]
  BY DEF AppliedRow
<1> HIDE DEF new, lost
<1>5. \A i \in Idxs : CellOK(st, AppliedRow(row, toks, slot)[i])
  BY <1>1, <1>2
<1>6. \A i \in Idxs : AppliedRow(row, toks, slot)[i] \in Cell
  BY <1>5 DEF CellOK
<1>7. AppliedRow(row, toks, slot) \in [Idxs -> Cell]
  BY <1>4, <1>6
<1> QED
  BY <1>5, <1>7 DEF RowOK

\* An empty cell no token is placed on stays empty.
LEMMA EmptyStaysEmpty ==
  ASSUME NEW st \in Streams, NEW row, RowOK(st, row), NEW toks, NEW slot,
         RowFits(st, toks, slot), NEW i \in Idxs, i \notin SlotCells(slot), IsEmpty(row[i])
  PROVE  IsEmpty(AppliedRow(row, toks, slot)[i])
<1>1. Placed(row, toks, slot)[i] = row[i]
  BY PlacedOK
<1>2. row[i].seqs = {}
  BY DEF RowOK, CellOK
<1> QED
  BY <1>1, <1>2 DEF AppliedRow, DropSeqs, IsEmpty, EmptyCell

\* On a free slot nothing is overwritten, so nothing is purged: every occupied cell
\* stays as it was, and the cells of the slot become occupied.
LEMMA FreeSlotPurgesNothing ==
  ASSUME NEW st \in Streams, NEW row, RowOK(st, row), NEW toks, NEW slot,
         RowFits(st, toks, slot), \A i \in SlotCells(slot) : IsEmpty(row[i]),
         NEW i \in Idxs
  PROVE  /\ i \in SlotCells(slot) => ~IsEmpty(AppliedRow(row, toks, slot)[i])
         /\ ~IsEmpty(row[i]) => AppliedRow(row, toks, slot)[i] = row[i]
         /\ i \in SlotCells(slot) => AppliedRow(row, toks, slot)[i] = Placed(row, toks, slot)[i]
<1> DEFINE new == Placed(row, toks, slot)
<1>1. ASSUME NEW s \in Seqs PROVE Overwritten(row, slot, s) = -1
  <2>1. {row[k].pos : k \in {m \in SlotCells(slot) : s \in row[m].seqs}} = {}
    <3>1. ASSUME NEW m \in SlotCells(slot) PROVE row[m].seqs = {}
      <4>1. m \in Idxs
        BY <3>1 DEF SlotCells, RowFits
      <4> QED
        BY <3>1, <4>1 DEF RowOK, CellOK
    <3> QED
      BY <3>1
  <2> QED
    BY <2>1 DEF Overwritten, Greatest
<1>2. ASSUME ~IsEmpty(new[i])
      PROVE  AppliedRow(row, toks, slot)[i] = new[i]
  <2>1. CellOK(st, new[i])
    BY PlacedOK
  <2>2. new[i].pos \in 0 .. MaxPos - 1 /\ new[i].seqs # {}
    BY <1>2, <2>1, OccupiedParts
  <2>3. {s \in Seqs : Overwritten(row, slot, s) >= new[i].pos} = {}
    BY <1>1, <2>2, ConstAssumption
  <2>4. AppliedRow(row, toks, slot)[i] = DropSeqs(new[i], {})
    BY <2>3 DEF AppliedRow
  <2> HIDE DEF new
  <2>5. DropSeqs(new[i], {}) = new[i]
    BY <2>1, <2>2 DEF DropSeqs, CellOK, Cell
  <2> QED
    BY <2>4, <2>5
<1>3. i \in SlotCells(slot) => ~IsEmpty(new[i])
  BY PlacedOK
<1>4. ~IsEmpty(row[i]) => i \notin SlotCells(slot) /\ new[i] = row[i]
  BY PlacedOK
<1>5. i \in SlotCells(slot) => AppliedRow(row, toks, slot)[i] = Placed(row, toks, slot)[i]
  BY <1>2, <1>3
<1> HIDE DEF new
<1> QED
  BY <1>2, <1>3, <1>4, <1>5

\* Slots that fit an ubatch.
SlotsFit(u, slots) ==
  \A st \in DOMAIN u : slots[st] \in [1 .. Len(u[st]) -> Idxs]

\* Placing well-formed tokens into cells of their own stream keeps every row
\* well-formed, purge included, and leaves the head at most one past the last cell.
LEMMA ApplyUbatchOK ==
  ASSUME MemoryOK, NEW u, UbatchOK(u), NEW slots, SlotsFit(u, slots), ApplyUbatch(u, slots)
  PROVE  MemoryOK'
<1>1. ASSUME NEW st \in Streams PROVE RowOK(st, cells'[st]) /\ head'[st] \in 0 .. Size
  <2>1. CASE st \in DOMAIN u
    <3>1. RowFits(st, u[st], slots[st])
      BY <2>1 DEF RowFits, UbatchOK, SlotsFit
    <3>2. cells'[st] = AppliedRow(cells[st], u[st], slots[st])
      BY <2>1 DEF ApplyUbatch
    <3>3. RowOK(st, cells'[st])
      BY <3>1, <3>2, AppliedRowOK DEF MemoryOK
    <3>4. slots[st][Len(u[st])] \in Idxs
      BY <3>1 DEF RowFits
    <3>5. head'[st] = slots[st][Len(u[st])] + 1
      BY <2>1 DEF ApplyUbatch
    <3> QED
      BY <3>3, <3>4, <3>5, ShapeAssumption DEF Idxs
  <2>2. CASE st \notin DOMAIN u
    BY <2>2 DEF ApplyUbatch, MemoryOK
  <2> QED
    BY <2>1, <2>2
<1>2. /\ cells' = [st \in Streams |-> cells'[st]]
      /\ head' = [st \in Streams |-> head'[st]]
  BY DEF ApplyUbatch
<1> QED
  BY <1>1, <1>2 DEF MemoryOK, RowOK

(***************************************************************************)
(* prepare(): planning.                                                     *)
(***************************************************************************)

\* The search yields usable cells; without a sliding window these are empty ones.
LEMMA FoundSlots ==
  ASSUME MemoryOK, NEW u, UbatchOK(u), FoundSlot(u)
  PROVE  /\ SlotsFit(u, FindSlot(u))
         /\ NSwa = 0 => \A st \in DOMAIN u : \A j \in 1 .. Len(u[st]) :
                          IsEmpty(cells[st][FindSlot(u)[st][j]])
<1> SUFFICES ASSUME NEW st \in DOMAIN u
             PROVE  /\ FindSlot(u)[st] \in [1 .. Len(u[st]) -> Idxs]
                    /\ NSwa = 0 => \A j \in 1 .. Len(u[st]) :
                                     IsEmpty(cells[st][FindSlot(u)[st][j]])
  BY DEF SlotsFit
<1> DEFINE found == SlotsOf(cells[st], head[st], Len(u[st]))
           slot == CHOOSE slot \in found : TRUE
<1>1. slot \in found
  <2>1. found # {}
    BY DEF FoundSlot
  <2> HIDE DEF found
  <2> QED
    BY <2>1, ChoiceIsMember
<1>2. FindSlot(u)[st] = slot
  BY DEF FindSlot
<1>3. slot \in [1 .. Len(u[st]) -> Idxs] /\ IsSlot(cells[st], head[st], Len(u[st]), slot)
  BY <1>1 DEF SlotsOf
<1> HIDE DEF slot
<1>4. ASSUME NSwa = 0, NEW j \in 1 .. Len(u[st]) PROVE IsEmpty(cells[st][slot[j]])
  <2>1. Usable(cells[st], slot[j])
    BY <1>3, <1>4 DEF IsSlot
  <2> QED
    BY <1>4, <2>1 DEF Usable, MaskedSwa
<1> QED
  BY <1>2, <1>3, <1>4

\* Appending to a sequence.
LEMMA AppendIsSequence ==
  ASSUME NEW q, IsSequence(q), NEW e
  PROVE  /\ IsSequence(Append(q, e))
         /\ Len(q) \in Nat /\ Len(Append(q, e)) = Len(q) + 1
         /\ \A k \in 1 .. Len(q) : Append(q, e)[k] = q[k]
         /\ Append(q, e)[Len(q) + 1] = e
<1> DEFINE S == {q[k] : k \in DOMAIN q}
           a == Append(q, e)
<1>1. q \in Seq(S \cup {e})
  BY SeqMonotonic DEF IsSequence
<1>2. /\ a \in Seq(S \cup {e}) /\ Len(q) \in Nat /\ Len(a) = Len(q) + 1
      /\ \A k \in 1 .. Len(q) : a[k] = q[k]
      /\ a[Len(q) + 1] = e
  BY <1>1, AppendProperties
<1>3. a \in [1 .. Len(a) -> {a[k] : k \in DOMAIN a}] /\ Len(a) \in Nat
  BY <1>2, LenProperties
<1>4. a \in Seq({a[k] : k \in DOMAIN a})
  BY <1>3, LenOfFunction
<1> QED
  BY <1>2, <1>4 DEF IsSequence

\* Members of PlannedCells, from the side of an ubatch.
LEMMA PlannedCellsOf ==
  ASSUME NEW k \in 1 .. Len(plan), UbatchOK(batch[k]), PlannedOK(batch[k], plan[k]), NEW c
  PROVE  c \in PlannedCells(k) <=>
           /\ c \in Streams \X Idxs
           /\ c[1] \in DOMAIN batch[k]
           /\ c[2] \in SlotCells(plan[k].slots[c[1]])
BY DEF PlannedCells, PlannedOK, SlotCells

\* Planning one more ubatch keeps the invariant: its slot is disjoint from the earlier
\* ones because their cells are occupied by now, and what it saved was free.
LEMMA PrepareUbatchKeeps == IInv /\ PrepareUbatch => IInv'
<1> SUFFICES ASSUME IInv, PrepareUbatch PROVE IInv'
  OBVIOUS
<1>n. PICK n : n = Len(plan)
  OBVIOUS
<1> DEFINE u == batch[iCur]
           slots == FindSlot(u)
           entry == [slots |-> slots, heads |-> head,
                     old |-> [st \in DOMAIN u |-> [j \in DOMAIN slots[st] |->
                                [cells[st][slots[st][j]] EXCEPT !.shift = 0]]]]
<1>1. /\ MemoryOK /\ TypeOK /\ CallOK /\ FreeOK
      /\ phase = "prepare" /\ iCur = n + 1 /\ IsSequence(plan)
  BY <1>n, TypeOKMemory DEF IInv, CallOK, PrepareUbatch
<1>2. /\ plan' = Append(plan, entry) /\ ApplyUbatch(u, slots) /\ iCur' = iCur + 1
      /\ UNCHANGED <<scInfo, bufVars, phase, batch, copies, doShift, retried>>
      /\ FoundSlot(u) /\ iCur <= Len(batch)
  BY DEF PrepareUbatch
<1>3. n \in Nat /\ iCur \in 1 .. Len(batch) /\ UbatchOK(u)
  BY <1>n, <1>1, <1>2, AppendIsSequence DEF CallOK
<1>4. SlotsFit(u, slots)
  BY <1>1, <1>2, <1>3, FoundSlots
<1>5. MemoryOK'
  BY <1>1, <1>2, <1>3, <1>4, ApplyUbatchOK
<1>6. /\ IsSequence(plan') /\ Len(plan') = n + 1
      /\ \A k \in 1 .. n : plan'[k] = plan[k]
      /\ plan'[n + 1] = entry /\ entry.slots = slots
  BY <1>n, <1>1, <1>2, AppendIsSequence
<1>7. ASSUME NEW st \in DOMAIN u, NEW j \in 1 .. Len(u[st])
      PROVE  /\ entry.old[st][j] = [cells[st][slots[st][j]] EXCEPT !.shift = 0]
             /\ CellOK(st, entry.old[st][j])
             /\ IsEmpty(entry.old[st][j]) <=> IsEmpty(cells[st][slots[st][j]])
  <2>1. slots[st][j] \in Idxs /\ DOMAIN slots[st] = 1 .. Len(u[st]) /\ st \in Streams
    BY <1>3, <1>4 DEF SlotsFit, UbatchOK
  <2>2. CellOK(st, cells[st][slots[st][j]])
    BY <1>1, <2>1 DEF MemoryOK, RowOK
  <2>3. entry.old[st][j] = [cells[st][slots[st][j]] EXCEPT !.shift = 0]
    BY <2>1
  <2> HIDE DEF entry
  <2> QED
    BY <2>1, <2>2, <2>3, UnshiftedOK
<1>8. PlannedOK(u, entry)
  <2>1. entry.heads \in [Streams -> 0 .. Size]
    BY <1>1 DEF MemoryOK
  <2>2. \A st \in DOMAIN u : entry.slots[st] \in [1 .. Len(u[st]) -> Idxs]
    BY <1>4 DEF SlotsFit
  <2> HIDE DEF entry
  <2> QED
    BY <1>7, <2>1, <2>2 DEF PlannedOK
<1> HIDE DEF entry
<1>9. TypeOK'
  BY <1>1, <1>2, <1>3, <1>5, <1>6, MemoryOKTypes DEF TypeOK, bufVars
<1>10. \A k \in 1 .. Len(plan') : PlannedOK(batch'[k], plan'[k])
  <2>1. ASSUME NEW k \in 1 .. n PROVE PlannedOK(batch'[k], plan'[k])
    BY <1>n, <1>1, <1>2, <1>6, <2>1 DEF CallOK
  <2> QED
    BY <1>1, <1>2, <1>3, <1>6, <1>8, <2>1
<1>11. CallOK'
  BY <1>1, <1>2, <1>3, <1>6, <1>10 DEF CallOK
<1>12. FreeOK'
  <2> SUFFICES ASSUME NSwa = 0 PROVE FreeOK'
    BY DEF FreeOK
  <2>1. \A st \in DOMAIN u : \A i \in SlotCells(slots[st]) : IsEmpty(cells[st][i])
    BY <1>1, <1>2, <1>3, <1>4, FoundSlots DEF SlotCells, SlotsFit
  <2>2. \A k \in 1 .. n : PlannedCells(k)' = PlannedCells(k)
    BY <1>2, <1>6 DEF PlannedCells
  <2>3. ASSUME NEW c \in PlannedCells(n + 1)'
        PROVE  /\ c \in Streams \X Idxs /\ c[1] \in DOMAIN u
               /\ c[2] \in SlotCells(slots[c[1]]) /\ FreeCell(c)
    <3>1. /\ c \in Streams \X Idxs /\ c[1] \in DOMAIN u
          /\ \E j \in 1 .. Len(u[c[1]]) : slots[c[1]][j] = c[2]
      BY <1>1, <1>2, <1>6, <2>3 DEF PlannedCells
    <3>2. c[2] \in SlotCells(slots[c[1]])
      BY <1>4, <3>1 DEF SlotCells, SlotsFit
    <3> QED
      BY <2>1, <3>1, <3>2 DEF FreeCell
  <2>4. ASSUME NEW st \in Streams, NEW i \in Idxs
        PROVE  /\ ~IsEmpty(cells[st][i]) => ~IsEmpty(cells'[st][i])
               /\ st \in DOMAIN u /\ i \in SlotCells(slots[st]) => ~IsEmpty(cells'[st][i])
    <3>1. CASE st \in DOMAIN u
      <4>1. RowFits(st, u[st], slots[st])
        BY <1>3, <1>4, <3>1 DEF RowFits, UbatchOK, SlotsFit
      <4>2. cells'[st] = AppliedRow(cells[st], u[st], slots[st])
        BY <1>2, <3>1 DEF ApplyUbatch
      <4>3. RowOK(st, cells[st])
        BY <1>1 DEF MemoryOK
      <4>4. \A m \in SlotCells(slots[st]) : IsEmpty(cells[st][m])
        BY <2>1, <3>1
      <4>5. /\ i \in SlotCells(slots[st]) => ~IsEmpty(cells'[st][i])
            /\ ~IsEmpty(cells[st][i]) => cells'[st][i] = cells[st][i]
        BY <4>1, <4>2, <4>3, <4>4, FreeSlotPurgesNothing
      <4> QED
        BY <4>5
    <3>2. CASE st \notin DOMAIN u
      BY <1>2, <3>2 DEF ApplyUbatch
    <3> QED
      BY <3>1, <3>2
  <2>5. \A k, m \in 1 .. Len(plan') : k # m => PlannedCells(k)' \cap PlannedCells(m)' = {}
    <3>1. ASSUME NEW k \in 1 .. n PROVE PlannedCells(k) \cap PlannedCells(n + 1)' = {}
      BY <1>n, <1>1, <2>3, <3>1 DEF FreeOK
    <3> QED
      BY <1>n, <1>1, <1>3, <1>6, <2>2, <3>1 DEF FreeOK
  <2>6. \A k \in 1 .. Len(plan') : \A st \in DOMAIN batch'[k] :
          \A j \in 1 .. Len(batch'[k][st]) : IsEmpty(plan'[k].old[st][j])
    <3>1. ASSUME NEW st \in DOMAIN u, NEW j \in 1 .. Len(u[st])
          PROVE  IsEmpty(entry.old[st][j])
      BY <1>1, <1>2, <1>3, <1>7, FoundSlots
    <3> QED
      BY <1>n, <1>1, <1>2, <1>3, <1>6, <3>1 DEF FreeOK
  <2>7. \A k \in 1 .. Len(plan') : \A c \in PlannedCells(k)' : ~FreeCell(c)'
    <3>1. ASSUME NEW k \in 1 .. n, NEW c \in PlannedCells(k) PROVE ~FreeCell(c)'
      <4>1. c \in Streams \X Idxs /\ ~FreeCell(c)
        BY <1>n, <1>1, <3>1 DEF FreeOK, PlannedCells
      <4> QED
        BY <2>4, <4>1 DEF FreeCell
    <3>2. ASSUME NEW c \in PlannedCells(n + 1)' PROVE ~FreeCell(c)'
      BY <2>3, <2>4, <3>2 DEF FreeCell
    <3> QED
      BY <1>3, <1>6, <2>2, <3>1, <3>2
  <2> QED
    BY <1>1, <1>2, <2>5, <2>6, <2>7 DEF FreeOK
<1> QED
  BY <1>9, <1>11, <1>12 DEF IInv

(***************************************************************************)
(* prepare(): taking the planned ubatches back, and what follows.           *)
(***************************************************************************)

\* A step that only moves the call on: the plan, its cells and the memory stay.
LEMMA MoveOn ==
  ASSUME IInv, phase' \in Phases, iCur' \in Nat,
         UNCHANGED <<memVars, scInfo, bufVars, batch, plan, copies, doShift, retried>>
  PROVE  /\ TypeOK'
         /\ \A k \in 1 .. Len(plan) : PlannedCells(k)' = PlannedCells(k)
         /\ \A c \in Streams \X Idxs : FreeCell(c)' = FreeCell(c)
<1>1. TypeOK'
  BY DEF IInv, TypeOK, memVars, bufVars, CellOK
<1>2. \A k \in 1 .. Len(plan) : PlannedCells(k)' = PlannedCells(k)
  BY DEF PlannedCells
<1>3. \A c \in Streams \X Idxs : FreeCell(c)' = FreeCell(c)
  BY DEF FreeCell, memVars
<1> QED
  BY <1>1, <1>2, <1>3

\* The end of planning changes no cell.
LEMMA PrepareEndsKeeps == IInv /\ PrepareEnds => IInv'
<1> SUFFICES ASSUME IInv, PrepareEnds PROVE IInv'
  OBVIOUS
<1>1. /\ phase = "prepare" /\ phase' = "restore" /\ iCur' = Len(plan) /\ Len(plan) \in Nat
      /\ UNCHANGED <<memVars, scInfo, bufVars, batch, plan, copies, doShift, retried>>
  BY AppendIsSequence DEF PrepareEnds, IInv, CallOK
<1>2. /\ TypeOK'
      /\ \A k \in 1 .. Len(plan) : PlannedCells(k)' = PlannedCells(k)
  BY <1>1, MoveOn DEF Phases
<1>3. CallOK'
  BY <1>1 DEF IInv, CallOK
<1>4. FreeOK'
  BY <1>1, <1>2 DEF IInv, FreeOK
<1> QED
  BY <1>2, <1>3, <1>4 DEF IInv

\* The number of a stream's row in an ubatch is that of a stream, though in general
\* of another one.
LEMMA RowNumberIsStream ==
  ASSUME NEW u, UbatchOK(u), NEW st \in DOMAIN u
  PROVE  RowNumber(u, st) \in Streams
<1> DEFINE below == {sv \in DOMAIN u : sv < st}
<1>1. st \in Streams /\ st \in Nat /\ DOMAIN u \subseteq Streams
  BY ShapeAssumption DEF UbatchOK, Streams, NStream
<1>2. below \subseteq 0 .. st - 1
  BY <1>1, ShapeAssumption DEF Streams, NStream
<1>3. IsFiniteSet(0 .. st - 1) /\ Cardinality(0 .. st - 1) = st
  BY <1>1, FS_Interval
<1>4. Cardinality(below) <= st /\ Cardinality(below) \in Nat
  BY <1>2, <1>3, FS_Subset, FS_CardinalityType
<1> QED
  BY <1>1, <1>4, ShapeAssumption DEF RowNumber, Streams, NStream

\* What is taken back is an ubatch of the batch, by the plan that was made of it.
LEMMA RestoresPlanned ==
  ASSUME IInv, RestoreUbatch
  PROVE  /\ phase = "restore" /\ phase' = "restore"
         /\ iCur \in 1 .. Len(plan) /\ Len(plan) \in Nat /\ iCur \in Nat \ {0}
         /\ UbatchOK(batch[iCur]) /\ PlannedOK(batch[iCur], plan[iCur])
         /\ iCur' = iCur - 1
         /\ UNCHANGED <<scInfo, data, shadow, batch, plan, copies, doShift, retried>>
<1>1. /\ phase = "restore" /\ iCur > 0 /\ iCur' = iCur - 1
      /\ UNCHANGED <<scInfo, bufVars, phase, batch, plan, copies, doShift, retried>>
  BY DEF RestoreUbatch
<1>2. IsSequence(plan) /\ iCur \in Nat /\ iCur <= Len(plan) /\ Len(plan) <= Len(batch)
  BY <1>1 DEF IInv, CallOK, TypeOK
<1>3. Len(plan) \in Nat /\ Len(batch) \in Nat
  BY <1>2, AppendIsSequence DEF IInv, CallOK
<1>4. iCur \in 1 .. Len(plan) /\ iCur \in 1 .. Len(batch) /\ iCur \in Nat \ {0}
  BY <1>1, <1>2, <1>3
<1>5. UbatchOK(batch[iCur]) /\ PlannedOK(batch[iCur], plan[iCur])
  BY <1>4 DEF IInv, CallOK
<1> QED
  BY <1>1, <1>3, <1>4, <1>5 DEF bufVars

\* Taking an ubatch back frees exactly its own cells: the slots are disjoint.
LEMMA RestoreUbatchKeeps == IInv /\ RestoreUbatch => IInv'
<1> SUFFICES ASSUME IInv, RestoreUbatch PROVE IInv'
  OBVIOUS
<1>n. PICK n : n = iCur
  OBVIOUS
<1> DEFINE u == batch[n]
           p == plan[n]
<1>1. /\ MemoryOK /\ TypeOK /\ CallOK /\ FreeOK
      /\ phase = "restore" /\ n \in 1 .. Len(plan) /\ Len(plan) \in Nat
      /\ Len(plan) <= Len(batch)
  BY <1>n, TypeOKMemory, RestoresPlanned DEF IInv, TypeOK
<1>2. UbatchOK(u) /\ PlannedOK(u, p)
  BY <1>n, RestoresPlanned
<1>3. /\ cells' = [st \in Streams |-> IF st \notin DOMAIN u THEN cells[st] ELSE
             [i \in Idxs |-> IF i \in SlotCells(p.slots[st])
                THEN p.old[st][CHOOSE j \in DOMAIN p.slots[st] : p.slots[st][j] = i]
                ELSE cells[st][i]]]
      /\ head' = [st \in Streams |-> IF st \in DOMAIN u
                                     THEN p.heads[RowNumber(u, st)] ELSE head[st]]
      /\ iCur' = n - 1
      /\ UNCHANGED <<scInfo, bufVars, phase, batch, plan, copies, doShift, retried>>
  BY <1>n DEF RestoreUbatch
<1>4. ASSUME NEW st \in DOMAIN u, NEW i \in SlotCells(p.slots[st])
      PROVE  \E j \in 1 .. Len(u[st]) : st \in Streams /\ i \in Idxs /\ cells'[st][i] = p.old[st][j]
  <2> DEFINE j == CHOOSE j \in DOMAIN p.slots[st] : p.slots[st][j] = i
  <2>1. DOMAIN p.slots[st] = 1 .. Len(u[st]) /\ st \in Streams /\ i \in Idxs
    BY <1>2, <1>4 DEF PlannedOK, UbatchOK, SlotCells
  <2>2. j \in 1 .. Len(u[st])
    <3>1. \E k \in DOMAIN p.slots[st] : p.slots[st][k] = i
      BY <1>4 DEF SlotCells
    <3>2. j \in DOMAIN p.slots[st]
      BY <3>1
    <3> QED
      BY <2>1, <3>2
  <2>3. cells'[st][i] = p.old[st][j]
    BY <1>3, <1>4, <2>1
  <2> HIDE DEF j
  <2> QED
    BY <2>1, <2>2, <2>3
<1>5. ASSUME NEW st \in Streams, NEW i \in Idxs, ~(st \in DOMAIN u /\ i \in SlotCells(p.slots[st]))
      PROVE  cells'[st][i] = cells[st][i]
  BY <1>3, <1>5
<1>6. MemoryOK'
  <2>1. ASSUME NEW st \in Streams, NEW i \in Idxs PROVE CellOK(st, cells'[st][i])
    <3>1. CASE st \in DOMAIN u /\ i \in SlotCells(p.slots[st])
      BY <1>2, <1>4, <3>1 DEF PlannedOK
    <3>2. CASE ~(st \in DOMAIN u /\ i \in SlotCells(p.slots[st]))
      BY <1>1, <1>5, <3>2 DEF MemoryOK, RowOK
    <3> QED
      BY <3>1, <3>2
  <2>2. ASSUME NEW st \in Streams PROVE RowOK(st, cells'[st])
    <3>1. cells'[st] = [i \in Idxs |-> cells'[st][i]]
      <4>1. CASE st \in DOMAIN u
        <5> DEFINE back == [i \in Idxs |-> IF i \in SlotCells(p.slots[st])
                      THEN p.old[st][CHOOSE j \in DOMAIN p.slots[st] : p.slots[st][j] = i]
                      ELSE cells[st][i]]
        <5>1. cells'[st] = back
          BY <1>3, <4>1
        <5>2. back = [i \in Idxs |-> back[i]]
          OBVIOUS
        <5> HIDE DEF back
        <5> QED
          BY <5>1, <5>2
      <4>2. CASE st \notin DOMAIN u
        BY <1>1, <1>3, <4>2 DEF MemoryOK
      <4> QED
        BY <4>1, <4>2
    <3> QED
      BY <2>1, <3>1 DEF RowOK, CellOK
  <2>3. head' \in [Streams -> 0 .. Size]
    <3>1. ASSUME NEW st \in Streams
          PROVE  (IF st \in DOMAIN u THEN p.heads[RowNumber(u, st)] ELSE head[st]) \in 0 .. Size
      BY <1>1, <1>2, <3>1, RowNumberIsStream DEF MemoryOK, PlannedOK
    <3> QED
      BY <1>3, <3>1
  <2>4. cells' = [st \in Streams |-> cells'[st]]
    BY <1>3
  <2> QED
    BY <2>2, <2>3, <2>4 DEF MemoryOK, RowOK
<1>7. TypeOK'
  <2>1. iCur' \in Nat
    BY <1>1, <1>3
  <2>2. UNCHANGED <<scInfo, bufVars, phase, batch, plan, copies, doShift, retried>>
    BY <1>3
  <2> QED
    BY <1>1, <1>6, <2>1, <2>2, MemoryOKTypes DEF TypeOK, bufVars
<1>8. CallOK'
  BY <1>1, <1>3 DEF CallOK
<1>9. FreeOK'
  <2> SUFFICES ASSUME NSwa = 0 PROVE FreeOK'
    BY DEF FreeOK
  <2>1. \A k \in 1 .. Len(plan) : PlannedCells(k)' = PlannedCells(k)
    BY <1>3 DEF PlannedCells
  <2>2. ASSUME NEW c \in PlannedCells(n) PROVE FreeCell(c)'
    <3>1. c[1] \in DOMAIN u /\ c[2] \in SlotCells(p.slots[c[1]])
      BY <1>1, <1>2, <2>2, PlannedCellsOf
    <3>2. PICK j \in 1 .. Len(u[c[1]]) : cells'[c[1]][c[2]] = p.old[c[1]][j]
      BY <1>4, <3>1
    <3>3. IsEmpty(p.old[c[1]][j])
      BY <1>1, <3>1 DEF FreeOK
    <3> QED
      BY <3>2, <3>3 DEF FreeCell
  <2>3. ASSUME NEW k \in 1 .. Len(plan), k > n, NEW c \in PlannedCells(k) PROVE FreeCell(c)'
    <3>1. FreeCell(c) /\ c \in Streams \X Idxs
      BY <1>n, <1>1, <2>3 DEF FreeOK, PlannedCells
    <3>2. c \notin PlannedCells(n)
      BY <1>1, <2>3 DEF FreeOK
    <3>3. ~(c[1] \in DOMAIN u /\ c[2] \in SlotCells(p.slots[c[1]]))
      BY <1>1, <1>2, <3>1, <3>2, PlannedCellsOf
    <3>4. cells'[c[1]][c[2]] = cells[c[1]][c[2]]
      BY <1>5, <3>1, <3>3
    <3> QED
      BY <3>1, <3>4 DEF FreeCell
  <2>4. \A k \in 1 .. Len(plan) : k > iCur' => \A c \in PlannedCells(k) : FreeCell(c)'
    BY <1>1, <1>3, <2>2, <2>3
  <2> QED
    BY <1>1, <1>3, <2>1, <2>4 DEF FreeOK
<1> QED
  BY <1>7, <1>8, <1>9 DEF IInv

\* The call returns with a well-formed memory.
LEMMA ReturnKeeps ==
  ASSUME IInv, Return, MemoryOK', UNCHANGED scInfo,
         data' \in [Streams -> [Idxs -> Content]], shadow' \in [Streams -> [Idxs -> Content]]
  PROVE  IInv'
<1>1. /\ phase' = "idle" /\ batch' = <<>> /\ plan' = <<>> /\ copies' = <<>>
      /\ doShift' = FALSE /\ retried' = FALSE /\ iCur' = 0
  BY DEF Return
<1>2. TypeOK'
  <2>1. copies' \in Seq(Streams \X Streams) /\ Len(plan') <= Len(batch')
    BY <1>1
  <2>2. scInfo' \in Seq(Streams \X Streams)
    BY DEF IInv, TypeOK
  <2> QED
    BY <1>1, <2>1, <2>2, MemoryOKTypes DEF TypeOK, Phases
<1>3. CallOK'
  BY <1>1 DEF CallOK, IsSequence
<1>4. FreeOK'
  BY <1>1 DEF FreeOK
<1> QED
  BY <1>2, <1>3, <1>4 DEF IInv

\* Retrying, refusing, giving up and starting the ubatches keep the invariant.
LEMMA OutcomeKeeps == IInv /\ Outcome => IInv'
<1> SUFFICES ASSUME IInv, Outcome PROVE IInv'
  OBVIOUS
<1>1. CASE RetryPrepare
  <2>1. /\ phase' = "update" /\ plan' = <<>> /\ retried' = TRUE /\ doShift' = TRUE
        /\ UNCHANGED <<memVars, scInfo, bufVars, batch, copies, iCur>> /\ phase = "restore"
    BY <1>1 DEF RetryPrepare, Restored
  <2>2. TypeOK'
    BY <2>1 DEF IInv, TypeOK, CallOK, Phases, memVars, bufVars, CellOK
  <2>3. CallOK'
    BY <2>1 DEF IInv, CallOK, IsSequence
  <2>4. FreeOK'
    BY <2>1 DEF FreeOK
  <2> QED
    BY <2>2, <2>3, <2>4 DEF IInv
<1>2. CASE RefuseBatch \/ ReserveFails
  <2>1. MemoryOK'
    BY <1>2, TypeOKMemory
       DEF IInv, RefuseBatch, ReserveFails, MemoryOK, RowOK, memVars, CellOK
  <2> QED
    BY <1>2, <2>1, ReturnKeeps DEF RefuseBatch, ReserveFails, IInv, TypeOK, bufVars
<1>3. CASE StartUbatches
  <2>1. /\ phase = "restore" /\ iCur = 0 /\ Len(plan) = Len(batch) /\ Len(batch) \in Nat
        /\ phase' = "apply" /\ iCur' = 1 /\ Len(batch) > 0
        /\ UNCHANGED <<memVars, scInfo, bufVars, batch, plan, copies, doShift, retried>>
    BY <1>3 DEF StartUbatches, Restored, Planned, IInv, CallOK
  <2>2. /\ TypeOK'
        /\ \A k \in 1 .. Len(plan) : PlannedCells(k)' = PlannedCells(k)
        /\ \A c \in Streams \X Idxs : FreeCell(c)' = FreeCell(c)
    BY <2>1, MoveOn DEF Phases
  <2>3. CallOK'
    BY <2>1 DEF IInv, CallOK
  <2>4. ASSUME NSwa = 0
        PROVE  \A k \in 1 .. Len(plan) : \A c \in PlannedCells(k) : FreeCell(c)'
    BY <2>1, <2>2, <2>4 DEF IInv, FreeOK, PlannedCells
  <2>5. FreeOK'
    BY <2>1, <2>2, <2>4 DEF IInv, FreeOK
  <2> QED
    BY <2>2, <2>3, <2>5 DEF IInv
<1> QED
  BY <1>1, <1>2, <1>3 DEF Outcome

(***************************************************************************)
(* Placing and computing the ubatches.                                      *)
(***************************************************************************)
LEMMA ApplyKeeps == IInv /\ Apply => IInv'
<1> SUFFICES ASSUME IInv, Apply PROVE IInv'
  OBVIOUS
<1>n. PICK n : n = iCur
  OBVIOUS
<1> DEFINE u == batch[n]
           p == plan[n]
<1>1. /\ MemoryOK /\ TypeOK /\ CallOK /\ FreeOK
      /\ phase = "apply" /\ n \in 1 .. Len(plan) /\ Len(plan) = Len(batch)
  BY <1>n, TypeOKMemory DEF IInv, CallOK, Apply
<1>2. UbatchOK(u) /\ PlannedOK(u, p) /\ SlotsFit(u, p.slots)
  BY <1>1 DEF CallOK, PlannedOK, SlotsFit
<1>3. /\ ApplyUbatch(u, p.slots) /\ phase' = "compute"
      /\ UNCHANGED <<scInfo, bufVars, batch, plan, copies, doShift, retried, iCur>>
  BY <1>n DEF Apply
<1>4. MemoryOK'
  BY <1>1, <1>2, <1>3, ApplyUbatchOK
<1>5. TypeOK'
  BY <1>1, <1>3, <1>4, MemoryOKTypes DEF TypeOK, bufVars, Phases
<1>6. CallOK'
  BY <1>1, <1>3 DEF CallOK
<1>7. ASSUME NSwa = 0, NEW k \in 1 .. Len(plan), k > n, NEW c \in PlannedCells(k)
      PROVE  FreeCell(c)'
  <2>1. FreeCell(c) /\ c \in Streams \X Idxs /\ c \notin PlannedCells(n)
    BY <1>n, <1>1, <1>7 DEF FreeOK, PlannedCells
  <2>2. CASE c[1] \in DOMAIN u
    <3>1. c[2] \notin SlotCells(p.slots[c[1]])
      BY <1>1, <1>2, <2>1, <2>2, PlannedCellsOf
    <3>2. RowFits(c[1], u[c[1]], p.slots[c[1]])
      BY <1>2, <2>2 DEF RowFits, UbatchOK, SlotsFit
    <3>3. cells'[c[1]] = AppliedRow(cells[c[1]], u[c[1]], p.slots[c[1]])
      BY <1>3, <2>1, <2>2 DEF ApplyUbatch
    <3>4. RowOK(c[1], cells[c[1]]) /\ IsEmpty(cells[c[1]][c[2]]) /\ c[1] \in Streams /\ c[2] \in Idxs
      BY <1>1, <2>1 DEF MemoryOK, FreeCell
    <3> QED
      BY <3>1, <3>2, <3>3, <3>4, EmptyStaysEmpty DEF FreeCell
  <2>3. CASE c[1] \notin DOMAIN u
    BY <1>3, <2>1, <2>3 DEF ApplyUbatch, FreeCell
  <2> QED
    BY <2>2, <2>3
<1>8. FreeOK'
  <2>1. \A k \in 1 .. Len(plan) : PlannedCells(k)' = PlannedCells(k)
    BY <1>3 DEF PlannedCells
  <2> QED
    BY <1>n, <1>1, <1>3, <1>7, <2>1 DEF FreeOK
<1> QED
  BY <1>5, <1>6, <1>8 DEF IInv

\* What a graph writes are tokens at positions.
LEMMA WrittenOK ==
  ASSUME NEW buf \in [Streams -> [Idxs -> Content]], NEW u, UbatchOK(u),
         NEW slots, SlotsFit(u, slots), NEW W,
         \A w \in W : w[1] \in DOMAIN u /\ w[2] \in SlotCells(slots[w[1]])
  PROVE  Written(buf, u, slots, W) \in [Streams -> [Idxs -> Content]]
<1>1. ASSUME NEW st \in Streams, NEW i \in Idxs
      PROVE  Written(buf, u, slots, W)[st][i] \in Content
  <2>1. CASE st \in DOMAIN u /\ <<st, i>> \in W
    <3> DEFINE j == CHOOSE j \in DOMAIN slots[st] : slots[st][j] = i
               t == u[st][j]
    <3>1. \E k \in DOMAIN slots[st] : slots[st][k] = i
      BY <2>1 DEF SlotCells
    <3>2. j \in DOMAIN slots[st]
      BY <3>1
    <3>3. j \in 1 .. Len(u[st])
      BY <2>1, <3>2 DEF SlotsFit
    <3>4. t.pos \in Int /\ t.tok \in Toks
      BY <2>1, <3>3, ConstAssumption DEF UbatchOK, TokenOK, Token
    <3>5. Written(buf, u, slots, W)[st][i] = [tok |-> t.tok, rot |-> t.pos]
      BY <2>1 DEF Written
    <3> HIDE DEF t
    <3> QED
      BY <3>4, <3>5 DEF Content
  <2>2. CASE ~(st \in DOMAIN u /\ <<st, i>> \in W)
    <3>1. Written(buf, u, slots, W)[st][i] = buf[st][i]
      BY <2>2 DEF Written
    <3> QED
      BY <3>1
  <2> QED
    BY <2>1, <2>2
<1>2. Written(buf, u, slots, W) =
        [st \in Streams |-> [i \in Idxs |-> Written(buf, u, slots, W)[st][i]]]
  BY DEF Written
<1> QED
  BY <1>1, <1>2

\* What is known when a graph runs.
LEMMA AtCompute ==
  ASSUME IInv, phase = "compute", NEW W \in SUBSET CurrentCells
  PROVE  /\ UbatchOK(batch[iCur])
         /\ iCur \in 1 .. Len(batch) /\ Len(plan) = Len(batch) /\ Len(batch) \in Nat
         /\ Written(data, batch[iCur], plan[iCur].slots, W) \in [Streams -> [Idxs -> Content]]
         /\ Written(shadow, batch[iCur], plan[iCur].slots, W) \in [Streams -> [Idxs -> Content]]
<1>1. /\ iCur \in 1 .. Len(batch) /\ Len(plan) = Len(batch) /\ Len(batch) \in Nat
      /\ UbatchOK(batch[iCur]) /\ PlannedOK(batch[iCur], plan[iCur])
  BY DEF IInv, CallOK
<1>2. SlotsFit(batch[iCur], plan[iCur].slots)
  BY <1>1 DEF PlannedOK, SlotsFit
<1>3. \A w \in W : w[1] \in DOMAIN batch[iCur] /\ w[2] \in SlotCells(plan[iCur].slots[w[1]])
  BY DEF CurrentCells
<1>4. data \in [Streams -> [Idxs -> Content]] /\ shadow \in [Streams -> [Idxs -> Content]]
  BY DEF IInv, TypeOK
<1> QED
  BY <1>1, <1>2, <1>3, <1>4, WrittenOK

\* A graph that ran writes contents with an integer rotation and moves to the next
\* ubatch, whose cells are still free.
LEMMA ComputeKeeps == IInv /\ Compute => IInv'
<1> SUFFICES ASSUME IInv, Compute PROVE IInv'
  OBVIOUS
<1>1. /\ MemoryOK /\ phase = "compute"
      /\ UNCHANGED <<memVars, scInfo>>
  BY TypeOKMemory DEF IInv, Compute
<1>2. MemoryOK'
  BY <1>1 DEF MemoryOK, RowOK, memVars, CellOK
<1>3. /\ iCur \in 1 .. Len(batch) /\ Len(plan) = Len(batch) /\ Len(batch) \in Nat
      /\ data' \in [Streams -> [Idxs -> Content]] /\ shadow' \in [Streams -> [Idxs -> Content]]
  <2>1. /\ data' = Written(data, batch[iCur], plan[iCur].slots, CurrentCells)
        /\ shadow' = IF HasShadow
                     THEN Written(shadow, batch[iCur], plan[iCur].slots, CurrentCells)
                     ELSE shadow
    BY DEF Compute
  <2> QED
    BY <1>1, <2>1, AtCompute DEF IInv, TypeOK
<1>4. CASE iCur < Len(batch)
  <2>1. /\ phase' = "apply" /\ iCur' = iCur + 1
        /\ UNCHANGED <<memVars, scInfo, batch, plan, copies, doShift, retried>>
    BY <1>1, <1>4 DEF Compute
  <2>2. TypeOK'
    BY <1>2, <1>3, <2>1, MemoryOKTypes DEF IInv, TypeOK, Phases
  <2>3. CallOK'
    BY <1>1, <1>3, <1>4, <2>1 DEF IInv, CallOK
  <2>4. FreeOK'
    <3>1. \A k \in 1 .. Len(plan) : PlannedCells(k)' = PlannedCells(k)
      BY <2>1 DEF PlannedCells
    <3>2. \A c : FreeCell(c)' = FreeCell(c)
      BY <2>1 DEF FreeCell, memVars
    <3> QED
      BY <1>1, <1>3, <2>1, <3>1, <3>2 DEF IInv, FreeOK
  <2> QED
    BY <2>2, <2>3, <2>4 DEF IInv
<1>5. CASE ~(iCur < Len(batch))
  <2>1. Return
    BY <1>5 DEF Compute
  <2> QED
    BY <1>1, <1>2, <1>3, <2>1, ReturnKeeps
<1> QED
  BY <1>4, <1>5

\* A failed graph and the rollback keep the invariant.
LEMMA ComputeFailsKeeps == IInv /\ ComputeFails => IInv'
<1> SUFFICES ASSUME IInv, ComputeFails PROVE IInv'
  OBVIOUS
<1> DEFINE u == batch[iCur]
           rows == [st \in Streams |-> IF st \in DOMAIN u
                                       THEN RolledBack(cells[st], u[st]) ELSE cells[st]]
<1>1. MemoryOK /\ phase = "compute" /\ UNCHANGED scInfo /\ Return
  BY TypeOKMemory DEF IInv, ComputeFails
<1>2. data' \in [Streams -> [Idxs -> Content]] /\ shadow' \in [Streams -> [Idxs -> Content]]
  <2>1. PICK W \in SUBSET CurrentCells :
          /\ data' = Written(data, batch[iCur], plan[iCur].slots, W)
          /\ shadow' = IF HasShadow
                       THEN Written(shadow, batch[iCur], plan[iCur].slots, W) ELSE shadow
    BY DEF ComputeFails
  <2> QED
    BY <1>1, <2>1, AtCompute DEF IInv, TypeOK
<1>3. /\ cells' = rows
      /\ head' = [st \in Streams |-> HeadAfter(cells[st], rows[st], head[st])]
  BY DEF ComputeFails
<1>4. ASSUME NEW st \in Streams
      PROVE  /\ RowOK(st, rows[st])
             /\ HeadAfter(cells[st], rows[st], head[st]) \in 0 .. Size
  <2>1. RowOK(st, cells[st])
    BY <1>1 DEF MemoryOK
  <2>2. RowOK(st, rows[st])
    <3>1. CASE st \in DOMAIN u
      <4>1. rows[st] = RolledBack(cells[st], u[st])
        BY <3>1
      <4>2. ASSUME NEW i \in Idxs PROVE CellOK(st, RolledBack(cells[st], u[st])[i])
        <5> DEFINE lost == {s \in Seqs : \E j \in 1 .. Len(u[st]) :
                              FirstSeq(u[st][j]) = s /\ u[st][j].pos <= cells[st][i].pos}
        <5>1. RolledBack(cells[st], u[st])[i] = DropSeqs(cells[st][i], lost)
          BY DEF RolledBack
        <5>2. CellOK(st, cells[st][i])
          BY <2>1 DEF RowOK
        <5> HIDE DEF lost
        <5> QED
          BY <5>1, <5>2, DropSeqsOK
      <4>3. RolledBack(cells[st], u[st]) = [i \in Idxs |-> RolledBack(cells[st], u[st])[i]]
        BY DEF RolledBack
      <4> QED
        BY <4>1, <4>2, <4>3 DEF RowOK, CellOK
    <3>2. CASE st \notin DOMAIN u
      BY <2>1, <3>2
    <3> QED
      BY <3>1, <3>2
  <2>3. HeadAfter(cells[st], rows[st], head[st]) \in 0 .. Size
    BY <1>1, HeadAfterInRange DEF MemoryOK
  <2> QED
    BY <2>2, <2>3
<1>5. MemoryOK'
  BY <1>3, <1>4 DEF MemoryOK, RowOK
<1> QED
  BY <1>1, <1>2, <1>5, ReturnKeeps

(***************************************************************************)
(* The theorems.                                                            *)
(***************************************************************************)
LEMMA InitEstablishes == Init => IInv
<1> SUFFICES ASSUME Init PROVE IInv
  OBVIOUS
<1>1. TypeOK
  <2>1. /\ cells = NoCells /\ head = NoHeads /\ data = NoBufs /\ shadow = NoBufs
        /\ scInfo = <<>> /\ copies = <<>> /\ plan = <<>> /\ batch = <<>>
        /\ phase = "idle" /\ doShift = FALSE /\ retried = FALSE /\ iCur = 0
    BY DEF Init
  <2>2. Len(plan) <= Len(batch)
    BY <2>1
  <2>3. <<>> \in Seq(Streams \X Streams)
    OBVIOUS
  <2> QED
    BY <2>1, <2>2, <2>3, NoCellsOK DEF TypeOK, RowOK, Phases
<1>2. CallOK
  BY DEF Init, CallOK, IsSequence
<1>3. FreeOK
  BY DEF Init, FreeOK
<1> QED
  BY <1>1, <1>2, <1>3 DEF IInv

\* Every step keeps the inductive invariant.
LEMMA NextKeeps == IInv /\ [Next]_vars => IInv'
<1> SUFFICES ASSUME IInv, [Next]_vars PROVE IInv'
  OBVIOUS
<1>1. CASE Operate
  BY <1>1, OperateKeeps
<1>2. ASSUME NEW b \in Batches, NEW tok \in Toks, DecodeBegin(b, tok) PROVE IInv'
  BY <1>2, DecodeBeginKeeps
<1>3. CASE Update
  BY <1>3, UpdateKeeps
<1>4. CASE Prepare
  BY <1>4, PrepareUbatchKeeps, PrepareEndsKeeps, RestoreUbatchKeeps DEF Prepare
<1>5. CASE Outcome
  BY <1>5, OutcomeKeeps
<1>6. CASE Process
  BY <1>6, ApplyKeeps, ComputeKeeps, ComputeFailsKeeps DEF Process
<1>7. CASE UNCHANGED vars
  <2>1. UNCHANGED <<memVars, scInfo, bufVars, batch, plan, copies, doShift, retried, phase, iCur>>
    BY <1>7 DEF vars, callVars, memVars, bufVars
  <2>2. /\ TypeOK'
        /\ \A k \in 1 .. Len(plan) : PlannedCells(k)' = PlannedCells(k)
        /\ \A c \in Streams \X Idxs : FreeCell(c)' = FreeCell(c)
    BY <2>1, MoveOn DEF IInv, TypeOK
  <2>3. CallOK'
    BY <2>1 DEF IInv, CallOK
  <2>4. \A c : FreeCell(c)' = FreeCell(c)
    BY <2>1 DEF FreeCell, memVars
  <2>5. FreeOK'
    BY <2>1, <2>2, <2>4 DEF IInv, FreeOK
  <2> QED
    BY <2>2, <2>3, <2>5 DEF IInv
<1> QED
  BY <1>1, <1>2, <1>3, <1>4, <1>5, <1>6, <1>7 DEF Next, Decode

\* The inductive invariant holds in every reachable state.
THEOREM Invariance == Spec => []IInv
<1>1. Init => IInv
  BY InitEstablishes
<1>2. IInv /\ [Next]_vars => IInv'
  BY NextKeeps
<1> QED
  BY <1>1, <1>2, PTL DEF Spec

\* Type correctness of the cache for every shape, batch and failure: cells and their
\* owners stay consistent, and no head leaves its stream.
THEOREM TypeCorrect == Spec => []TypeOK
<1>1. IInv => TypeOK
  BY DEF IInv
<1> QED
  BY <1>1, Invariance, PTL

\* A cache without a sliding window finds the cells it planned free when it places
\* their ubatch: apply_ubatch overwrites no token and purges no sequence.
THEOREM PlannedStayFree == Spec => []PlannedSlotsFree
<1>1. IInv => PlannedSlotsFree
  <2> SUFFICES ASSUME IInv, NSwa = 0, phase \in {"apply", "compute"},
                      NEW k \in 1 .. Len(plan), k > iCur \/ (k = iCur /\ phase = "apply"),
                      NEW st \in DOMAIN batch[k], NEW j \in 1 .. Len(batch[k][st])
               PROVE  IsEmpty(cells[st][plan[k].slots[st][j]])
    BY DEF PlannedSlotsFree
  <2> DEFINE i == plan[k].slots[st][j]
  <2>1. UbatchOK(batch[k]) /\ PlannedOK(batch[k], plan[k])
    BY DEF IInv, CallOK
  <2>2. st \in Streams /\ i \in Idxs
    BY <2>1 DEF UbatchOK, PlannedOK
  <2>3. <<st, i>> \in PlannedCells(k)
    BY <2>2 DEF PlannedCells
  <2> HIDE DEF i
  <2>4. FreeCell(<<st, i>>)
    BY <2>3 DEF IInv, FreeOK
  <2> QED
    BY <2>4 DEF FreeCell, i
<1> QED
  BY <1>1, Invariance, PTL
(***************************************************************************)
(* Batches that are refused (RefusedOnlyWhenFull).  When prepare() gives up, *)
(* some stream has too few free cells for the ubatch it could not place;     *)
(* together with the cells of the ubatches before, which it takes back, they *)
(* are too few for the batch.                                               *)
(***************************************************************************)
\* The image of a finite set is finite, and no larger.
LEMMA ImageFinite ==
  ASSUME NEW S, IsFiniteSet(S), NEW f, DOMAIN f = S
  PROVE  /\ IsFiniteSet({f[x] : x \in S})
         /\ Cardinality({f[x] : x \in S}) <= Cardinality(S)
<1> DEFINE T == {f[x] : x \in S}
           g == [x \in S |-> f[x]]
<1>1. g \in Surjection(S, T)
  BY DEF Surjection
<1> HIDE DEF T, g
<1>2. IsFiniteSet(T) /\ Cardinality(T) <= Cardinality(S)
  BY <1>1, FS_Surjection
<1> QED
  BY <1>2 DEF T

\* The positions of a sequence of length n are n in number.
LEMMA UpToFinite ==
  ASSUME NEW n \in Nat
  PROVE  IsFiniteSet(1 .. n) /\ Cardinality(1 .. n) = n
<1>1. /\ IsFiniteSet(1 .. n)
      /\ Cardinality(1 .. n) = IF 1 > n THEN 0 ELSE n - 1 + 1
  BY FS_Interval
<1>2. (IF 1 > n THEN 0 ELSE n - 1 + 1) = n
  OBVIOUS
<1> QED
  BY <1>1, <1>2

\* The tokens of a batch, as <<ubatch, stream, place>>.
LEMMA TokensAre ==
  ASSUME NEW b
  PROVE  /\ \A k \in 1 .. Len(b) : \A st \in DOMAIN b[k] : \A j \in 1 .. Len(b[k][st]) :
              <<k, st, j>> \in Tokens(b)
         /\ \A t \in Tokens(b) : \E k \in 1 .. Len(b) : \E st \in DOMAIN b[k] :
              \E j \in 1 .. Len(b[k][st]) : t = <<k, st, j>>
BY DEF Tokens

\* What the batch has for a stream, and what the ubatches before k have.
StreamTokens(st) == {t \in Tokens(batch) : t[2] = st}
TokensBefore(st, k) == {t \in StreamTokens(st) : t[1] < k}

LEMMA StreamTokensFinite ==
  ASSUME IInv, NEW st
  PROVE  IsFiniteSet(StreamTokens(st))
<1> DEFINE rows == [k \in 1 .. Len(batch) |-> {t \in StreamTokens(st) : t[1] = k}]
<1>1. Len(batch) \in Nat
  BY DEF IInv, CallOK
<1>2. ASSUME NEW k \in 1 .. Len(batch) PROVE IsFiniteSet(rows[k])
  <2>1. CASE st \in DOMAIN batch[k]
    <3> DEFINE f == [j \in 1 .. Len(batch[k][st]) |-> <<k, st, j>>]
    <3>1. Len(batch[k][st]) \in Nat
      BY <2>1 DEF IInv, CallOK, UbatchOK
    <3>2. IsFiniteSet(1 .. Len(batch[k][st]))
      BY <3>1, UpToFinite
    <3>3. IsFiniteSet({f[j] : j \in 1 .. Len(batch[k][st])})
      <4>1. DOMAIN f = 1 .. Len(batch[k][st])
        OBVIOUS
      <4> HIDE DEF f
      <4> QED
        BY <3>2, <4>1, ImageFinite
    <3>4. rows[k] \subseteq {f[j] : j \in 1 .. Len(batch[k][st])}
      BY TokensAre DEF StreamTokens
    <3> HIDE DEF f
    <3> QED
      BY <3>3, <3>4, FS_Subset
  <2>2. CASE st \notin DOMAIN batch[k]
    <3>1. rows[k] = {}
      BY <2>2, TokensAre DEF StreamTokens
    <3> QED
      BY <3>1, FS_EmptySet
  <2> QED
    BY <2>1, <2>2
<1>3. IsFiniteSet({rows[k] : k \in 1 .. Len(batch)})
  <2>1. IsFiniteSet(1 .. Len(batch)) /\ DOMAIN rows = 1 .. Len(batch)
    BY <1>1, FS_Interval
  <2> HIDE DEF rows
  <2> QED
    BY <2>1, ImageFinite
<1>4. IsFiniteSet(UNION {rows[k] : k \in 1 .. Len(batch)})
  <2> HIDE DEF rows
  <2> QED
    BY <1>2, <1>3, FS_UNION
<1>5. StreamTokens(st) \subseteq UNION {rows[k] : k \in 1 .. Len(batch)}
  <2> SUFFICES ASSUME NEW t \in StreamTokens(st)
               PROVE  \E k \in 1 .. Len(batch) : t \in rows[k]
    BY Zenon
  <2>1. t[1] \in 1 .. Len(batch)
    BY TokensAre DEF StreamTokens
  <2> QED
    BY <2>1
<1> HIDE DEF rows
<1> QED
  BY <1>4, <1>5, FS_Subset

\* The cells of a stream that are free, or planned for one of the ubatches.
PlannedIn(st) ==
  {i \in Idxs : \E k \in 1 .. Len(plan) : <<st, i>> \in PlannedCells(k)}
FreeIn(st) == {i \in Idxs : FreeCell(<<st, i>>)}
Room(st) == FreeIn(st) \cup PlannedIn(st)

\* While a plan that failed is taken back, some stream has less room than the batch has tokens.
RefusalInv ==
  NSwa = 0 /\ phase = "restore" /\ Len(plan) < Len(batch) =>
    \E st \in Streams : Cardinality(Room(st)) < TokensFor(st)

LEMMA CellsFinite ==
  ASSUME NEW S \in SUBSET Idxs
  PROVE  IsFiniteSet(S) /\ Cardinality(S) \in Nat
<1>1. PICK T : T = Idxs
  OBVIOUS
<1>2. IsFiniteSet(T)
  BY <1>1, ShapeAssumption, FS_Interval DEF Idxs
<1> QED
  BY <1>1, <1>2, FS_Subset, FS_CardinalityType

\* No more cells are planned than the planned ubatches have tokens.
LEMMA PlannedAreFew ==
  ASSUME IInv, NEW st \in Streams, NEW k \in Nat, Len(plan) < k
  PROVE  Cardinality(PlannedIn(st)) <= Cardinality(TokensBefore(st, k))
<1> DEFINE old == TokensBefore(st, k)
           f == [t \in old |-> plan[t[1]].slots[st][t[3]]]
<1>0. Len(plan) \in Nat /\ Len(plan) <= Len(batch) /\ Len(batch) \in Nat
  BY AppendIsSequence DEF IInv, CallOK, TypeOK
<1>1. IsFiniteSet(old)
  BY StreamTokensFinite, FS_Subset DEF TokensBefore
<1>2. PlannedIn(st) \subseteq {f[t] : t \in old}
  <2> SUFFICES ASSUME NEW i \in PlannedIn(st) PROVE \E t \in old : f[t] = i
    BY Zenon
  <2>1. PICK m \in 1 .. Len(plan) : <<st, i>> \in PlannedCells(m)
    BY DEF PlannedIn
  <2>2. PICK j \in 1 .. Len(batch[m][st]) : plan[m].slots[st][j] = i
    BY <2>1 DEF PlannedCells
  <2>3. st \in DOMAIN batch[m] /\ m \in 1 .. Len(batch) /\ m < k
    BY <1>0, <2>1 DEF PlannedCells
  <2>4. <<m, st, j>> \in Tokens(batch)
    BY <2>2, <2>3, TokensAre
  <2>5. <<m, st, j>> \in old
    BY <2>3, <2>4 DEF TokensBefore, StreamTokens
  <2> QED
    BY <2>2, <2>5
<1>3. PICK T : T = {f[t] : t \in old}
  OBVIOUS
<1>4. IsFiniteSet(T) /\ Cardinality(T) <= Cardinality(old)
  <2>1. DOMAIN f = old
    OBVIOUS
  <2> HIDE DEF f, old
  <2> QED
    BY <1>1, <1>3, <2>1, ImageFinite
<1>5. PlannedIn(st) \in SUBSET T
  BY <1>2, <1>3
<1>6. /\ Cardinality(PlannedIn(st)) <= Cardinality(T) /\ Cardinality(T) \in Nat
      /\ Cardinality(PlannedIn(st)) \in Nat /\ Cardinality(old) \in Nat
  <2>1. PlannedIn(st) \in SUBSET Idxs
    BY DEF PlannedIn
  <2>2. Cardinality(PlannedIn(st)) \in Nat
    BY <2>1, CellsFinite
  <2>3. Cardinality(PlannedIn(st)) <= Cardinality(T)
    BY <1>4, <1>5, FS_Subset
  <2> HIDE DEF old
  <2> QED
    BY <1>1, <1>4, <2>2, <2>3, FS_CardinalityType
<1> QED
  BY <1>4, <1>6

\* An ubatch that has a row for a stream adds its length to the tokens of the ubatches before.
LEMMA RowIsCounted ==
  ASSUME IInv, NEW k \in 1 .. Len(batch), NEW st \in DOMAIN batch[k]
  PROVE  /\ Cardinality(TokensBefore(st, k)) \in Nat /\ TokensFor(st) \in Nat
         /\ Cardinality(TokensBefore(st, k)) + Len(batch[k][st]) <= TokensFor(st)
<1>n. PICK n : n = Len(batch[k][st])
  OBVIOUS
<1> DEFINE f == [j \in 1 .. n |-> <<k, st, j>>]
           own == {f[j] : j \in 1 .. n}
           old == TokensBefore(st, k)
           all == StreamTokens(st)
<1>1. n \in Nat /\ IsFiniteSet(1 .. n) /\ Cardinality(1 .. n) = n
  <2>1. n \in Nat
    BY <1>n DEF IInv, CallOK, UbatchOK
  <2> QED
    BY <2>1, UpToFinite
<1>2. IsFiniteSet(all) /\ IsFiniteSet(old) /\ old \subseteq all
  BY StreamTokensFinite, FS_Subset DEF TokensBefore
<1>3. IsFiniteSet(own) /\ Cardinality(own) = n
  <2>1. f \in Surjection(1 .. n, own)
    BY DEF Surjection
  <2>2. f \in Injection(1 .. n, own)
    BY <2>1 DEF Injection, Surjection, IsInjective
  <2> HIDE DEF f, own
  <2> QED
    BY <1>1, <2>1, <2>2, FS_Surjection
<1>4. own \subseteq all
  <2> SUFFICES ASSUME NEW j \in 1 .. n PROVE <<k, st, j>> \in StreamTokens(st)
    OBVIOUS
  <2>1. <<k, st, j>> \in Tokens(batch)
    BY <1>n, TokensAre
  <2> QED
    BY <2>1 DEF StreamTokens
<1>5. old \cap own = {}
  <2> SUFFICES ASSUME NEW t \in old, NEW j \in 1 .. n, t = <<k, st, j>> PROVE FALSE
    OBVIOUS
  <2>1. t[1] < k /\ t[1] = k /\ k \in Int
    BY DEF TokensBefore
  <2> QED
    BY <2>1
<1>6. TokensFor(st) = Cardinality(all)
  BY DEF TokensFor, StreamTokens
<1> HIDE DEF f, own, old, all
<1>7. /\ Cardinality(old) \in Nat /\ Cardinality(all) \in Nat
      /\ IsFiniteSet(old \cup own) /\ Cardinality(old \cup own) = Cardinality(old) + n
  <2>1. Cardinality(old \cap own) = 0
    BY <1>5, FS_EmptySet
  <2>2. /\ IsFiniteSet(old \cup own)
        /\ Cardinality(old \cup own)
             = Cardinality(old) + Cardinality(own) - Cardinality(old \cap own)
    BY <1>2, <1>3, FS_Union
  <2>3. Cardinality(old) \in Nat /\ Cardinality(all) \in Nat
    BY <1>2, FS_CardinalityType
  <2>4. PICK a : a = Cardinality(old)
    OBVIOUS
  <2>5. a + n - 0 = a + n
    BY <1>1, <2>3, <2>4
  <2> QED
    BY <1>3, <2>1, <2>2, <2>3, <2>4, <2>5
<1>8. old \cup own \in SUBSET all
  BY <1>2, <1>4
<1>9. Cardinality(old \cup own) <= Cardinality(all)
  BY <1>2, <1>8, FS_Subset
<1> QED
  BY <1>n, <1>1, <1>6, <1>7, <1>9 DEF old

\* prepare() gives up on an ubatch that some stream has too few free cells for.
LEMMA GivenUpIsShort ==
  ASSUME IInv, NSwa = 0, PrepareEnds, Len(plan) < Len(batch)
  PROVE  \E st \in Streams : Cardinality(Room(st)) < TokensFor(st)
<1>k. PICK k : k = iCur
  OBVIOUS
<1>1. /\ k = Len(plan) + 1 /\ Len(plan) \in Nat /\ k \in 1 .. Len(batch) /\ ~FoundSlot(batch[k])
      /\ UbatchOK(batch[k])
  <2>1. phase = "prepare" /\ Len(plan) \in Nat /\ Len(batch) \in Nat
    BY AppendIsSequence DEF PrepareEnds, IInv, CallOK
  <2>2. k = Len(plan) + 1 /\ k \in 1 .. Len(batch)
    BY <1>k, <2>1 DEF IInv, CallOK
  <2> QED
    BY <1>k, <2>1, <2>2 DEF PrepareEnds, IInv, CallOK
<1>2. PICK st \in DOMAIN batch[k] : SlotsOf(cells[st], head[st], Len(batch[k][st])) = {}
  BY <1>1 DEF FoundSlot
<1>n. PICK n : n = Len(batch[k][st])
  OBVIOUS
<1>3. st \in Streams /\ n \in Nat \ {0} /\ head[st] \in 0 .. Size
  BY <1>1, <1>n DEF UbatchOK, IInv, TypeOK
<1>4. ~(n <= Cardinality(UsableCells(cells[st])))
  BY <1>2, <1>3, <1>n, HasSlot
<1>5. FreeIn(st) \subseteq UsableCells(cells[st])
  BY DEF FreeIn, FreeCell, UsableCells, Usable
<1>6. /\ IsFiniteSet(FreeIn(st)) /\ Cardinality(FreeIn(st)) \in Nat
      /\ IsFiniteSet(PlannedIn(st)) /\ Cardinality(PlannedIn(st)) \in Nat
  <2>1. FreeIn(st) \in SUBSET Idxs /\ PlannedIn(st) \in SUBSET Idxs
    BY DEF FreeIn, PlannedIn
  <2> QED
    BY <2>1, CellsFinite
<1>7. Cardinality(FreeIn(st)) < n
  <2>1. PICK U : U = UsableCells(cells[st])
    OBVIOUS
  <2>2. U \in SUBSET Idxs
    BY <2>1 DEF UsableCells
  <2>3. IsFiniteSet(U) /\ Cardinality(U) \in Nat
    BY <2>2, CellsFinite
  <2>4. Cardinality(FreeIn(st)) <= Cardinality(U)
    BY <1>5, <2>1, <2>3, FS_Subset
  <2> QED
    BY <1>3, <1>4, <1>6, <2>1, <2>3, <2>4
<1>8. Cardinality(Room(st)) <= Cardinality(FreeIn(st)) + Cardinality(PlannedIn(st)) /\ Cardinality(Room(st)) \in Nat
  <2>1. PICK X : X = FreeIn(st) \cap PlannedIn(st)
    OBVIOUS
  <2>2. Cardinality(X) \in Nat
    BY <1>6, <2>1, FS_Subset, FS_CardinalityType
  <2>3. PICK R : R = Room(st)
    OBVIOUS
  <2>4. IsFiniteSet(R) /\ Cardinality(R) = Cardinality(FreeIn(st)) + Cardinality(PlannedIn(st)) - Cardinality(X)
    BY <1>6, <2>1, <2>3, FS_Union DEF Room
  <2>5. Cardinality(R) \in Nat
    BY <2>4, FS_CardinalityType
  <2> QED
    BY <1>6, <2>2, <2>3, <2>4, <2>5
<1>9. Cardinality(PlannedIn(st)) <= Cardinality(TokensBefore(st, k))
  BY <1>1, <1>3, PlannedAreFew
<1>10. /\ Cardinality(TokensBefore(st, k)) \in Nat /\ TokensFor(st) \in Nat
       /\ Cardinality(TokensBefore(st, k)) + n <= TokensFor(st)
  BY <1>1, <1>n, RowIsCounted
<1> QED
  BY <1>3, <1>6, <1>7, <1>8, <1>9, <1>10

\* Taking an ubatch back changes only cells that are planned, and frees them.
LEMMA RoomStays ==
  ASSUME IInv, IInv', NSwa = 0, RestoreUbatch, NEW st \in Streams
  PROVE  Room(st)' = Room(st)
<1>n. PICK n : n = iCur
  OBVIOUS
<1>1. n \in 1 .. Len(plan) /\ Len(plan) \in Nat /\ phase = "restore" /\ phase' = "restore" /\ iCur' = n - 1
      /\ UNCHANGED <<batch, plan>>
  BY <1>n, RestoresPlanned
<1>2. UbatchOK(batch[n]) /\ PlannedOK(batch[n], plan[n])
  BY <1>n, RestoresPlanned
<1>3. \A k \in 1 .. Len(plan) : PlannedCells(k)' = PlannedCells(k)
  BY <1>1 DEF PlannedCells
<1>4. PlannedIn(st)' = PlannedIn(st)
  BY <1>1, <1>3 DEF PlannedIn
<1>5. ASSUME NEW i \in Idxs, i \notin PlannedIn(st) PROVE FreeCell(<<st, i>>)' <=> FreeCell(<<st, i>>)
  <2>1. <<st, i>> \notin PlannedCells(n)
    BY <1>1, <1>5 DEF PlannedIn
  <2>2. <<st, i>> \in Streams \X Idxs
    OBVIOUS
  <2>3. ~(st \in DOMAIN batch[n] /\ i \in SlotCells(plan[n].slots[st]))
    BY <1>1, <1>2, <2>1, <2>2, PlannedCellsOf
  <2>4. cells'[st][i] = cells[st][i]
    BY <1>n, <2>3 DEF RestoreUbatch
  <2> QED
    BY <2>4 DEF FreeCell
<1> QED
  BY <1>4, <1>5 DEF Room, FreeIn

LEMMA RefusalKeeps == IInv /\ IInv' /\ RefusalInv /\ [Next]_vars => RefusalInv'
<1> SUFFICES ASSUME IInv, IInv', RefusalInv, [Next]_vars, NSwa = 0, phase' = "restore", Len(plan)' < Len(batch)'
             PROVE  \E st \in Streams : Cardinality(Room(st)') < TokensFor(st)'
  BY DEF RefusalInv
<1>1. CASE PrepareEnds
  <2>1. UNCHANGED <<cells, batch, plan>>
    BY <1>1 DEF PrepareEnds, memVars
  <2>2. \A st : Room(st)' = Room(st) /\ TokensFor(st)' = TokensFor(st)
    BY <2>1 DEF Room, FreeIn, PlannedIn, PlannedCells, FreeCell, TokensFor
  <2>3. \E st \in Streams : Cardinality(Room(st)) < TokensFor(st)
    BY <1>1, <2>1, GivenUpIsShort
  <2> QED
    BY <2>2, <2>3
<1>2. CASE RestoreUbatch
  <2>1. phase = "restore" /\ UNCHANGED <<batch, plan>>
    BY <1>2 DEF RestoreUbatch
  <2>2. \A st : TokensFor(st)' = TokensFor(st)
    BY <2>1 DEF TokensFor
  <2>3. PICK st \in Streams : Cardinality(Room(st)) < TokensFor(st)
    BY <2>1 DEF RefusalInv
  <2> QED
    BY <1>2, <2>2, <2>3, RoomStays
<1>3. CASE UNCHANGED vars
  <2>1. UNCHANGED <<cells, batch, plan, phase>>
    BY <1>3 DEF vars, callVars, memVars
  <2>2. \A st : Room(st)' = Room(st) /\ TokensFor(st)' = TokensFor(st)
    BY <2>1 DEF Room, FreeIn, PlannedIn, PlannedCells, FreeCell, TokensFor
  <2> QED
    BY <2>1, <2>2 DEF RefusalInv
<1>4. CASE Operate \/ (\E b \in Batches, tok \in Toks : DecodeBegin(b, tok)) \/ Update \/ PrepareUbatch
           \/ Outcome \/ Process
  <2>1. CASE Operate
    BY <2>1 DEF Operate, SeqRm, SeqRmAny, SeqCpShared, SeqCpStream, SeqKeep, SeqAdd, SeqDiv, Clear, Client, callVars
  <2>2. CASE \E b \in Batches, tok \in Toks : DecodeBegin(b, tok)
    BY <2>2 DEF DecodeBegin
  <2>3. CASE Update
    BY <2>3 DEF Update, UpdateCopy, UpdateShift, UpdateShiftFails, UpdateNothing
  <2>4. CASE PrepareUbatch
    BY <2>4 DEF PrepareUbatch
  <2>5. CASE Outcome
    BY <2>5 DEF Outcome, RetryPrepare, RefuseBatch, ReserveFails, StartUbatches, Return
  <2>6. CASE Process
    BY <2>6 DEF Process, Apply, Compute, ComputeFails, Return
  <2> QED
    BY <1>4, <2>1, <2>2, <2>3, <2>4, <2>5, <2>6
<1> QED
  BY <1>1, <1>2, <1>3, <1>4 DEF Next, Decode, Prepare

\* A batch is refused only when some stream has fewer free cells than the batch has tokens
\* for it, whatever the fragmentation, the head and the split into ubatches.
THEOREM RefusedNeedsFull == Spec => RefusedOnlyWhenFull
<1>1. Init => RefusalInv
  BY DEF Init, RefusalInv
<1>2. IInv /\ IInv' /\ RefusalInv /\ [Next]_vars => RefusalInv'
  BY RefusalKeeps
<1>3. IInv /\ RefusalInv /\ RefuseBatch /\ NSwa = 0 =>
        \E st \in Streams : TokensFor(st) + Used(cells[st]) > Size
  <2> SUFFICES ASSUME IInv, RefusalInv, RefuseBatch, NSwa = 0
               PROVE  \E st \in Streams : TokensFor(st) + Used(cells[st]) > Size
    OBVIOUS
  <2>1. phase = "restore" /\ iCur = 0 /\ Len(plan) < Len(batch) /\ Len(plan) \in Nat
    BY AppendIsSequence DEF RefuseBatch, Restored, Planned, IInv, CallOK, TypeOK
  <2>2. PICK st \in Streams : Cardinality(Room(st)) < TokensFor(st)
    BY <2>1 DEF RefusalInv
  <2>3. Room(st) = FreeIn(st)
    <3>1. ASSUME NEW i \in PlannedIn(st) PROVE i \in FreeIn(st)
      <4>1. PICK k \in 1 .. Len(plan) : <<st, i>> \in PlannedCells(k)
        BY DEF PlannedIn
      <4>2. k > iCur
        BY <2>1, <4>1
      <4>3. FreeCell(<<st, i>>)
        BY <2>1, <4>1, <4>2 DEF IInv, FreeOK
      <4> QED
        BY <4>3 DEF PlannedIn, FreeIn
    <3> QED
      BY <3>1 DEF Room
  <2> DEFINE taken == {i \in Idxs : ~IsEmpty(cells[st][i])}
  <2>4. Used(cells[st]) = Cardinality(taken)
    <3>1. DOMAIN cells[st] = Idxs
      BY DEF IInv, TypeOK
    <3> QED
      BY <3>1 DEF Used
  <2>5. taken = Idxs \ FreeIn(st) /\ FreeIn(st) \subseteq Idxs
    BY DEF FreeIn, FreeCell
  <2> HIDE DEF taken
  <2>6. Cardinality(Idxs) = Size /\ IsFiniteSet(Idxs) /\ Size \in Nat
    BY ShapeAssumption, FS_Interval DEF Idxs
  <2>7. Cardinality(FreeIn(st)) \in Nat
    BY <2>5, CellsFinite
  <2>8. Cardinality(taken) = Size - Cardinality(FreeIn(st))
    <3>1. Idxs \cap FreeIn(st) = FreeIn(st)
      BY <2>5
    <3>2. Cardinality(Idxs \ FreeIn(st)) = Cardinality(Idxs) - Cardinality(Idxs \cap FreeIn(st))
      BY <2>6, FS_Difference
    <3> QED
      BY <2>5, <2>6, <3>1, <3>2
  <2>9. TokensFor(st) \in Nat
    BY StreamTokensFinite, FS_CardinalityType DEF TokensFor, StreamTokens
  <2> QED
    BY <2>2, <2>3, <2>4, <2>6, <2>7, <2>8, <2>9
<1>4. IInv /\ RefusalInv => [RefuseBatch /\ NSwa = 0 =>
        \E st \in Streams : TokensFor(st) + Used(cells[st]) > Size]_vars
  BY <1>3
<1> QED
  BY <1>1, <1>2, <1>4, Invariance, PTL DEF Spec, RefusedOnlyWhenFull

(***************************************************************************)
(* The content of the K/V buffers: when a graph runs, the keys it attends   *)
(* to are rotated to the positions the mask uses (AttendedKeysRotated), and *)
(* the shadow agrees with the primary buffers (ShadowMirrors).              *)
(***************************************************************************)
(***************************************************************************)
(* Cells and their content.                                                 *)
(***************************************************************************)
\* The K of an occupied cell is rotated to the cell's position up to the pending shift.
Rotated(c, d) == IsEmpty(c) \/ d.rot + c.shift = c.pos

\* A cell that is emptied, or moved and shifted alike.
Follows(c, d) == IsEmpty(d) \/ (~IsEmpty(c) /\ d.pos - d.shift = c.pos - c.shift)

LEMMA CellNumbers ==
  ASSUME NEW c \in Cell
  PROVE  c.pos \in Int /\ c.shift \in Int
BY ConstAssumption DEF Cell

LEMMA RotatedFollows ==
  ASSUME NEW c \in Cell, NEW d \in Cell, NEW x \in Content, Rotated(c, x), Follows(c, d)
  PROVE  Rotated(d, x)
<1>1. c.pos \in Int /\ c.shift \in Int /\ d.pos \in Int /\ d.shift \in Int /\ x.rot \in Int
  BY CellNumbers DEF Content
<1> QED
  BY <1>1 DEF Rotated, Follows

\* Owners lost: the cell stays as it is otherwise, or is emptied.
LEMMA DropSeqsFollows ==
  ASSUME NEW c \in Cell, NEW S
  PROVE  /\ Follows(c, DropSeqs(c, S))
         /\ DropSeqs(c, S) = EmptyCell \/ (/\ DropSeqs(c, S).pos = c.pos
                                           /\ DropSeqs(c, S).shift = c.shift
                                           /\ DropSeqs(c, S).seqs \subseteq c.seqs)
         /\ c.shift = 0 => DropSeqs(c, S).shift = 0
         /\ c.seqs \subseteq S => IsEmpty(DropSeqs(c, S))
<1>1. CASE c.seqs \subseteq S
  BY <1>1 DEF DropSeqs, Follows, IsEmpty, EmptyCell
<1>2. CASE ~(c.seqs \subseteq S)
  <2>1. DropSeqs(c, S) = [c EXCEPT !.seqs = c.seqs \ S]
    BY <1>2 DEF DropSeqs
  <2>2. /\ DropSeqs(c, S).pos = c.pos /\ DropSeqs(c, S).shift = c.shift
        /\ DropSeqs(c, S).seqs = c.seqs \ S
    BY <2>1 DEF Cell
  <2> QED
    BY <1>2, <2>2 DEF Follows, IsEmpty
<1> QED
  BY <1>1, <1>2

(***************************************************************************)
(* The queue of stream copies.  What the buffers will hold when the queued   *)
(* copies have been made is described by the buffers after each of them.     *)
(***************************************************************************)
Bufs == [Streams -> [Idxs -> Content]]

AfterCopies(q, eff) ==
  /\ eff \in [0 .. Len(q) -> Bufs]
  /\ eff[0] = data
  /\ \A k \in 1 .. Len(q) : eff[k] = [eff[k - 1] EXCEPT ![q[k][2]] = eff[k - 1][q[k][1]]]

AllRotated(buf) == \A st \in Streams : \A i \in Idxs : Rotated(cells[st][i], buf[st][i])
KeysFollow(q) == \E eff : AfterCopies(q, eff) /\ AllRotated(eff[Len(q)])

(***************************************************************************)
(* The inductive invariant.                                                 *)
(***************************************************************************)
\* Every token of the call has one sequence, where a graph may fail.
OneOwner(b) ==
  "compute" \in Failures =>
    \A k \in 1 .. Len(b) : \A st \in DOMAIN b[k] : \A j \in 1 .. Len(b[k][st]) :
      \E s \in Seqs : b[k][st][j] = {s}
OwnersInv ==
  "compute" \in Failures =>
    \A k \in 1 .. Len(batch) : \A st \in DOMAIN batch[k] : \A j \in 1 .. Len(batch[k][st]) :
      \E s \in Seqs : batch[k][st][j].seqs = {s}

\* The queue is taken when a call starts and empty once its copies are made.
QueueInv ==
  /\ phase # "idle" => scInfo = <<>>
  /\ phase # "update" => copies = <<>>

\* After the update no cell has a shift pending, and nothing prepare() saved has one.
NoShift == \A st \in Streams : \A i \in Idxs : cells[st][i].shift = 0
ShiftInv ==
  /\ phase \in {"prepare", "restore", "apply", "compute"} => NoShift
  /\ phase = "update" => doShift \/ NoShift
  /\ \A k \in 1 .. Len(plan) : \A st \in DOMAIN batch[k] : \A j \in 1 .. Len(batch[k][st]) :
       plan[k].old[st][j].shift = 0

\* The token of ubatch k that is planned for a cell.
TokenAt(k, c) ==
  batch[k][c[1]][CHOOSE j \in DOMAIN plan[k].slots[c[1]] : plan[k].slots[c[1]][j] = c[2]]

\* The cells of the first m planned ubatches.
Covered(m) == {c \in Streams \X Idxs : \E k \in 1 .. m : c \in PlannedCells(k)}

\* Apart from the cells of these ubatches the keys fit, and what was saved from the cells of
\* each fits unless an ubatch before it covers the cell.
FitsBeside(m) ==
  /\ \A c \in Streams \X Idxs : c \in Covered(m) \/ Rotated(cells[c[1]][c[2]], data[c[1]][c[2]])
  /\ \A k \in 1 .. m : \A st \in DOMAIN batch[k] : \A j \in 1 .. Len(batch[k][st]) :
       \/ <<st, plan[k].slots[st][j]>> \in Covered(k - 1)
       \/ Rotated(plan[k].old[st][j], data[st][plan[k].slots[st][j]])

\* The graph that runs will write the cells of its own ubatch.
FitsOnceWritten ==
  \A c \in Streams \X Idxs :
    IF c \in PlannedCells(iCur)
    THEN \/ IsEmpty(cells[c[1]][c[2]])
         \/ /\ cells[c[1]][c[2]].pos = TokenAt(iCur, c).pos
            /\ cells[c[1]][c[2]].seqs \subseteq TokenAt(iCur, c).seqs
    ELSE Rotated(cells[c[1]][c[2]], data[c[1]][c[2]])

KeysInv ==
  /\ phase = "idle" => KeysFollow(scInfo)
  /\ phase = "update" => KeysFollow(copies)
  /\ phase = "prepare" => FitsBeside(Len(plan))
  /\ phase = "restore" => FitsBeside(iCur)
  /\ phase = "apply" => AllRotated(data)
  /\ phase = "compute" => FitsOnceWritten

ContentInv == OwnersInv /\ QueueInv /\ ShiftInv /\ KeysInv

\* What IInv says of the buffers.
LEMMA BufsOK ==
  ASSUME IInv
  PROVE  /\ data \in Bufs /\ shadow \in Bufs
         /\ \A st \in Streams : \A i \in Idxs : cells[st][i] \in Cell /\ CellOK(st, cells[st][i])
         /\ \A buf \in Bufs : \A st \in Streams : \A i \in Idxs : buf[st][i] \in Content
BY DEF IInv, TypeOK, Bufs, CellOK

\* No copy is queued: the buffers are what they are.
LEMMA NothingQueued ==
  ASSUME data \in Bufs, NEW q, q = <<>>
  PROVE  KeysFollow(q) <=> AllRotated(data)
<1>1. Len(q) = 0 /\ 0 .. Len(q) = {0} /\ 1 .. Len(q) = {}
  OBVIOUS
<1>2. ASSUME AllRotated(data) PROVE KeysFollow(q)
  <2> DEFINE eff == [k \in {0} |-> data]
  <2>1. AfterCopies(q, eff)
    BY <1>1 DEF AfterCopies
  <2>2. eff[Len(q)] = data
    BY <1>1
  <2> HIDE DEF eff
  <2> QED
    BY <1>2, <2>1, <2>2 DEF KeysFollow
<1>3. ASSUME KeysFollow(q) PROVE AllRotated(data)
  BY <1>1, <1>3 DEF KeysFollow, AfterCopies
<1> QED
  BY <1>2, <1>3

\* Client operations that leave the queue and the buffers alone.
LEMMA ClientContent ==
  ASSUME IInv, IInv', ContentInv, phase = "idle", UNCHANGED <<callVars, scInfo, data>>,
         \A st \in Streams : \A i \in Idxs : Follows(cells[st][i], cells'[st][i])
  PROVE  ContentInv'
<1>1. UNCHANGED <<phase, batch, plan, copies, doShift, retried, iCur, scInfo, data>> /\ plan = <<>>
  BY DEF callVars, IInv, CallOK
<1>2. KeysFollow(scInfo)'
  <2>1. PICK eff : AfterCopies(scInfo, eff) /\ AllRotated(eff[Len(scInfo)])
    BY DEF ContentInv, KeysInv, KeysFollow
  <2>2. eff[Len(scInfo)] \in Bufs
    <3>1. Len(scInfo) \in Nat
      BY DEF IInv, TypeOK
    <3> QED
      BY <2>1, <3>1 DEF AfterCopies
  <2>3. AfterCopies(scInfo, eff)'
    BY <1>1, <2>1 DEF AfterCopies
  <2>4. AllRotated(eff[Len(scInfo)])'
    <3> DEFINE buf == eff[Len(scInfo)]
    <3>1. buf \in Bufs /\ AllRotated(buf)
      BY <2>1, <2>2
    <3> HIDE DEF buf
    <3>2. ASSUME NEW st \in Streams, NEW i \in Idxs PROVE Rotated(cells'[st][i], buf[st][i])
      <4>1. cells[st][i] \in Cell /\ buf[st][i] \in Content
        BY <3>1, BufsOK
      <4>2. cells'[st][i] \in Cell
        BY DEF IInv, TypeOK
      <4> QED
        BY <3>1, <4>1, <4>2, RotatedFollows DEF AllRotated
    <3> QED
      BY <1>1, <3>2 DEF AllRotated, buf
  <2> QED
    BY <2>3, <2>4 DEF KeysFollow
<1>3. OwnersInv' /\ QueueInv'
  BY <1>1 DEF ContentInv, OwnersInv, QueueInv
<1>4. ShiftInv'
  BY <1>1 DEF ShiftInv
<1>5. KeysInv'
  BY <1>1, <1>2 DEF KeysInv
<1> QED
  BY <1>3, <1>4, <1>5 DEF ContentInv

(***************************************************************************)
(* Client operations.                                                       *)
(***************************************************************************)
LEMMA SeqRmContent ==
  ASSUME IInv, IInv', ContentInv, NEW s \in Seqs, NEW p0, NEW p1, SeqRm(s, p0, p1)
  PROVE  ContentInv'
<1> DEFINE home == SeqToStream(s)
<1>0. home \in Streams /\ cells \in [Streams -> [Idxs -> Cell]]
  BY StreamOfSeq DEF IInv, TypeOK
<1>1. ASSUME NEW st \in Streams, NEW i \in Idxs PROVE Follows(cells[st][i], cells'[st][i])
  <2>0. cells[st][i] \in Cell
    BY <1>0
  <2>1. \/ cells'[st][i] = cells[st][i]
        \/ cells'[st][i] = DropSeqs(cells[st][i], {s})
    BY <1>0 DEF SeqRm, SetRow, RemovedRow
  <2> QED
    BY <2>0, <2>1, DropSeqsFollows DEF Follows
<1> QED
  BY <1>1, ClientContent DEF SeqRm, Client, bufVars

LEMMA SeqRmAnyContent ==
  ASSUME IInv, IInv', ContentInv, NEW p0, NEW p1, SeqRmAny(p0, p1)
  PROVE  ContentInv'
<1>1. ASSUME NEW st \in Streams, NEW i \in Idxs PROVE Follows(cells[st][i], cells'[st][i])
  <2>0. cells[st][i] \in Cell
    BY BufsOK
  <2>1. \/ cells'[st][i] = cells[st][i]
        \/ cells'[st][i] = DropSeqs(cells[st][i], Seqs)
    BY DEF SeqRmAny, RemovedRow
  <2> QED
    BY <2>0, <2>1, DropSeqsFollows DEF Follows
<1> QED
  BY <1>1, ClientContent DEF SeqRmAny, Client, bufVars

LEMMA SeqCpSharedContent ==
  ASSUME IInv, IInv', ContentInv, NEW s \in Seqs, NEW d \in Seqs, NEW p0, NEW p1,
         SeqCpShared(s, d, p0, p1)
  PROVE  ContentInv'
<1> DEFINE home == SeqToStream(s)
<1>0. home \in Streams /\ cells \in [Streams -> [Idxs -> Cell]]
  BY StreamOfSeq DEF IInv, TypeOK
<1>1. ASSUME NEW st \in Streams, NEW i \in Idxs PROVE Follows(cells[st][i], cells'[st][i])
  <2>0. cells[st][i] \in Cell
    BY <1>0
  <2>1. \/ cells'[st][i] = cells[st][i]
        \/ cells'[st][i] = [cells[st][i] EXCEPT !.seqs = @ \cup {d}]
    BY <1>0 DEF SeqCpShared, SharedRow
  <2>2. cells'[st][i].pos = cells[st][i].pos /\ cells'[st][i].shift = cells[st][i].shift
    BY <2>0, <2>1 DEF Cell
  <2> QED
    BY <2>2 DEF Follows, IsEmpty
<1> QED
  BY <1>1, ClientContent DEF SeqCpShared, Client, bufVars

LEMMA SeqKeepContent ==
  ASSUME IInv, IInv', ContentInv, NEW s \in Seqs, SeqKeep(s)
  PROVE  ContentInv'
<1> DEFINE home == SeqToStream(s)
<1>0. home \in Streams /\ cells \in [Streams -> [Idxs -> Cell]]
  BY StreamOfSeq DEF IInv, TypeOK
<1>1. ASSUME NEW st \in Streams, NEW i \in Idxs PROVE Follows(cells[st][i], cells'[st][i])
  <2>0. cells[st][i] \in Cell
    BY <1>0
  <2>1. \/ cells'[st][i] = cells[st][i]
        \/ cells'[st][i] = [cells[st][i] EXCEPT !.seqs = {s}]
        \/ cells'[st][i] = EmptyCell
    BY <1>0 DEF SeqKeep, KeptCells, KeepOnly
  <2>2. CASE cells'[st][i] = EmptyCell
    BY <2>2 DEF Follows, IsEmpty, EmptyCell
  <2>3. CASE cells'[st][i] # EmptyCell
    <3>1. cells'[st][i].pos = cells[st][i].pos /\ cells'[st][i].shift = cells[st][i].shift
      BY <2>0, <2>1, <2>3 DEF Cell
    <3> QED
      BY <3>1 DEF Follows, IsEmpty
  <2> QED
    BY <2>2, <2>3
<1> QED
  BY <1>1, ClientContent DEF SeqKeep, Client, bufVars

LEMMA SeqAddContent ==
  ASSUME IInv, IInv', ContentInv, NEW s \in Seqs, NEW p0, NEW p1, NEW d \in Int,
         SeqAdd(s, p0, p1, d)
  PROVE  ContentInv'
<1> DEFINE home == SeqToStream(s)
<1>0. home \in Streams /\ cells \in [Streams -> [Idxs -> Cell]] /\ MemoryOK
  BY StreamOfSeq, TypeOKMemory DEF IInv, TypeOK
<1>1. ASSUME NEW st \in Streams, NEW i \in Idxs PROVE Follows(cells[st][i], cells'[st][i])
  <2>0. cells[st][i] \in Cell /\ cells[st][i].pos \in Int /\ cells[st][i].shift \in Int
    BY <1>0, CellNumbers
  <2>1. \/ cells'[st][i] = cells[st][i]
        \/ cells'[st][i] = ShiftPos(cells[st][i], d) /\ ~IsEmpty(cells[st][i])
    BY <1>0, TouchedOccupied DEF SeqAdd, SetRow
  <2>2. ShiftPos(cells[st][i], d) = EmptyCell \/
        /\ ShiftPos(cells[st][i], d).pos = cells[st][i].pos + d
        /\ ShiftPos(cells[st][i], d).shift = cells[st][i].shift + d
    BY DEF ShiftPos
  <2>3. CASE cells'[st][i] = EmptyCell
    BY <2>3 DEF Follows, IsEmpty, EmptyCell
  <2>4. CASE cells'[st][i] = cells[st][i]
    BY <2>4 DEF Follows
  <2>5. CASE ~IsEmpty(cells[st][i]) /\ cells'[st][i].pos = cells[st][i].pos + d
             /\ cells'[st][i].shift = cells[st][i].shift + d
    BY <2>0, <2>5 DEF Follows
  <2> QED
    BY <2>1, <2>2, <2>3, <2>4, <2>5
<1> QED
  BY <1>1, ClientContent DEF SeqAdd, Client, bufVars

LEMMA SeqDivContent ==
  ASSUME IInv, IInv', ContentInv, NEW s \in Seqs, NEW p0, NEW p1, NEW d \in Nat \ {0},
         SeqDiv(s, p0, p1, d)
  PROVE  ContentInv'
<1> DEFINE home == SeqToStream(s)
<1>0. home \in Streams /\ cells \in [Streams -> [Idxs -> Cell]] /\ MemoryOK
  BY StreamOfSeq, TypeOKMemory DEF IInv, TypeOK
<1>1. ASSUME NEW st \in Streams, NEW i \in Idxs PROVE Follows(cells[st][i], cells'[st][i])
  <2>0. cells[st][i] \in Cell /\ cells[st][i].pos \in Int /\ cells[st][i].shift \in Int
    BY <1>0, CellNumbers
  <2>1. \/ cells'[st][i] = cells[st][i]
        \/ cells'[st][i] = DivPos(cells[st][i], d) /\ ~IsEmpty(cells[st][i])
    BY <1>0, TouchedOccupied DEF SeqDiv
  <2> DEFINE q == cells[st][i].pos \div d
  <2>2. /\ DivPos(cells[st][i], d).pos = q
        /\ DivPos(cells[st][i], d).shift = cells[st][i].shift + q - cells[st][i].pos
    BY DEF DivPos
  <2>3. q \in Int
    BY <2>0
  <2> HIDE DEF q
  <2>4. CASE cells'[st][i] = cells[st][i]
    BY <2>4 DEF Follows
  <2>5. CASE cells'[st][i] = DivPos(cells[st][i], d) /\ ~IsEmpty(cells[st][i])
    <3>1. cells'[st][i].pos - cells'[st][i].shift = cells[st][i].pos - cells[st][i].shift
      BY <2>0, <2>2, <2>3, <2>5
    <3> QED
      BY <2>5, <3>1 DEF Follows
  <2> QED
    BY <2>1, <2>4, <2>5
<1> QED
  BY <1>1, ClientContent DEF SeqDiv, Client, bufVars

\* A copy between streams: the destination's cells fit once the queued copy is made.
LEMMA SeqCpStreamContent ==
  ASSUME IInv, IInv', ContentInv, NEW s \in Seqs, NEW d \in Seqs, NEW p0, NEW p1,
         SeqCpStream(s, d, p0, p1)
  PROVE  ContentInv'
<1> DEFINE src == SeqToStream(s)
           dst == SeqToStream(d)
<1>n. PICK n : n = Len(scInfo)
  OBVIOUS
<1>0. /\ src \in Streams /\ dst \in Streams /\ cells \in [Streams -> [Idxs -> Cell]]
      /\ cells' \in [Streams -> [Idxs -> Cell]] /\ scInfo \in Seq(Streams \X Streams)
  BY StreamOfSeq DEF IInv, TypeOK
<1>1. /\ UNCHANGED <<phase, batch, plan, copies, doShift, retried, iCur, data>>
      /\ phase = "idle" /\ plan = <<>> /\ scInfo' = Append(scInfo, <<src, dst>>)
  BY DEF SeqCpStream, Client, callVars, bufVars, IInv, CallOK
<1>2. n \in Nat /\ Len(scInfo') = n + 1 /\ scInfo'[n + 1] = <<src, dst>>
      /\ \A k \in 1 .. n : scInfo'[k] = scInfo[k]
  BY <1>n, <1>0, <1>1
<1>3. PICK eff : AfterCopies(scInfo, eff) /\ AllRotated(eff[n])
  BY <1>n, <1>1 DEF ContentInv, KeysInv, KeysFollow
<1>4. eff \in [0 .. n -> Bufs] /\ eff[n] \in Bufs
  BY <1>n, <1>2, <1>3 DEF AfterCopies
<1>l. PICK last : last = [eff[n] EXCEPT ![dst] = eff[n][src]]
  OBVIOUS
<1>m. PICK more : more = [k \in 0 .. n + 1 |-> IF k = n + 1 THEN last ELSE eff[k]]
  OBVIOUS
<1>5. last \in Bufs
  BY <1>0, <1>l, <1>4 DEF Bufs
<1>6. /\ more \in [0 .. n + 1 -> Bufs] /\ more[n + 1] = last
      /\ \A k \in 0 .. n : more[k] = eff[k]
  BY <1>m, <1>2, <1>4, <1>5
<1>7. AfterCopies(scInfo, more)'
  <2>1. more[0] = data
    BY <1>n, <1>2, <1>3, <1>6 DEF AfterCopies
  <2>2. \A k \in 1 .. n : more[k] = [more[k - 1] EXCEPT ![scInfo[k][2]] = more[k - 1][scInfo[k][1]]]
    <3> SUFFICES ASSUME NEW k \in 1 .. n
                 PROVE  more[k] = [more[k - 1] EXCEPT ![scInfo[k][2]] = more[k - 1][scInfo[k][1]]]
      OBVIOUS
    <3>1. more[k] = eff[k] /\ more[k - 1] = eff[k - 1]
      BY <1>2, <1>6
    <3> QED
      BY <1>n, <1>3, <3>1 DEF AfterCopies
  <2>3. more[n + 1] = [more[n] EXCEPT ![dst] = more[n][src]]
    <3>1. more[n] = eff[n]
      BY <1>2, <1>6
    <3> QED
      BY <1>l, <1>6, <3>1
  <2>4. \A k \in 1 .. n + 1 :
          more[k] = [more[k - 1] EXCEPT ![scInfo'[k][2]] = more[k - 1][scInfo'[k][1]]]
    <3> SUFFICES ASSUME NEW k \in 1 .. n + 1
                 PROVE  more[k] = [more[k - 1] EXCEPT ![scInfo'[k][2]] = more[k - 1][scInfo'[k][1]]]
      OBVIOUS
    <3>1. CASE k = n + 1
      <4>1. k - 1 = n
        BY <1>2, <3>1
      <4> QED
        BY <1>2, <2>3, <3>1, <4>1
    <3>2. CASE k \in 1 .. n
      BY <1>2, <2>2, <3>2
    <3> QED
      BY <1>2, <3>1, <3>2
  <2> QED
    BY <1>1, <1>2, <1>6, <2>1, <2>4 DEF AfterCopies
<1>8. ASSUME NEW st \in Streams, NEW i \in Idxs PROVE Rotated(cells'[st][i], last[st][i])
  <2>1. /\ cells[st][i] \in Cell /\ cells[src][i] \in Cell /\ Rotated(cells[st][i], eff[n][st][i])
        /\ Rotated(cells[src][i], eff[n][src][i])
    BY <1>0, <1>3 DEF AllRotated
  <2>2. CASE st = dst
    <3>1. last[st][i] = eff[n][src][i]
      BY <1>0, <1>l, <1>4, <2>2 DEF Bufs
    <3>2. \/ cells'[st][i] = EmptyCell
          \/ cells'[st][i] = [cells[src][i] EXCEPT !.seqs = {d}]
      BY <1>0, <2>2 DEF SeqCpStream, SetRow
    <3>3. CASE cells'[st][i] = EmptyCell
      BY <3>3 DEF Rotated, IsEmpty, EmptyCell
    <3>4. CASE cells'[st][i] = [cells[src][i] EXCEPT !.seqs = {d}]
      <4>1. cells'[st][i].pos = cells[src][i].pos /\ cells'[st][i].shift = cells[src][i].shift
        BY <2>1, <3>4 DEF Cell
      <4> QED
        BY <2>1, <3>1, <4>1 DEF Rotated, IsEmpty
    <3> QED
      BY <3>2, <3>3, <3>4
  <2>3. CASE st # dst
    <3>1. last[st][i] = eff[n][st][i] /\ cells'[st][i] = cells[st][i]
      BY <1>0, <1>l, <1>4, <2>3 DEF Bufs, SeqCpStream, SetRow
    <3> QED
      BY <2>1, <3>1
  <2> QED
    BY <2>2, <2>3
<1>9. KeysFollow(scInfo)'
  <2>1. AllRotated(more[Len(scInfo)])'
    BY <1>2, <1>6, <1>8 DEF AllRotated
  <2> QED
    BY <1>7, <2>1 DEF KeysFollow
<1>10. OwnersInv' /\ QueueInv' /\ ShiftInv' /\ KeysInv'
  BY <1>1, <1>9 DEF ContentInv, OwnersInv, QueueInv, ShiftInv, KeysInv
<1> QED
  BY <1>10 DEF ContentInv

\* Cleared buffers stay what they are under every copy, and cleared cells hold nothing.
LEMMA ClearContent ==
  ASSUME IInv, IInv', ContentInv, NEW wipe \in BOOLEAN, Clear(wipe)
  PROVE  ContentInv'
<1>1. /\ UNCHANGED <<phase, batch, plan, copies, doShift, retried, iCur, scInfo>>
      /\ phase = "idle" /\ plan = <<>> /\ cells' = NoCells
  BY DEF Clear, Client, callVars, IInv, CallOK
<1>2. scInfo \in Seq(Streams \X Streams) /\ NoBufs \in Bufs
  BY NoCellsOK DEF IInv, TypeOK, Bufs
<1>3. \E eff : AfterCopies(scInfo, eff)'
  <2>1. CASE data' = NoBufs
    <3> DEFINE eff == [k \in 0 .. Len(scInfo) |-> NoBufs]
    <3>1. ASSUME NEW a \in Streams, NEW b \in Streams
          PROVE  NoBufs = [NoBufs EXCEPT ![b] = NoBufs[a]]
      BY DEF NoBufs
    <3>2. \A k \in 1 .. Len(scInfo) : scInfo[k][1] \in Streams /\ scInfo[k][2] \in Streams
      BY <1>2
    <3>3. \A k \in 1 .. Len(scInfo) : NoBufs = [NoBufs EXCEPT ![scInfo[k][2]] = NoBufs[scInfo[k][1]]]
      BY <3>1, <3>2
    <3>4. Len(scInfo) \in Nat /\ 0 \in 0 .. Len(scInfo)
          /\ \A k \in 1 .. Len(scInfo) : k \in 0 .. Len(scInfo) /\ k - 1 \in 0 .. Len(scInfo)
      BY <1>2
    <3>5. eff \in [0 .. Len(scInfo) -> Bufs] /\ \A k \in 0 .. Len(scInfo) : eff[k] = NoBufs
      BY <1>2
    <3> HIDE DEF eff
    <3>6. AfterCopies(scInfo, eff)'
      BY <1>1, <2>1, <3>3, <3>4, <3>5 DEF AfterCopies
    <3> QED
      BY <3>6
  <2>2. CASE data' = data
    <3>1. PICK eff : AfterCopies(scInfo, eff)
      BY <1>1 DEF ContentInv, KeysInv, KeysFollow
    <3>2. AfterCopies(scInfo, eff)'
      BY <1>1, <2>2, <3>1 DEF AfterCopies
    <3> QED
      BY <3>2
  <2> QED
    BY <2>1, <2>2 DEF Clear, bufVars
<1>4. \A buf : AllRotated(buf)'
  BY <1>1 DEF AllRotated, Rotated, NoCells, IsEmpty, EmptyCell
<1>5. KeysFollow(scInfo)'
  BY <1>3, <1>4 DEF KeysFollow
<1>6. OwnersInv' /\ QueueInv' /\ ShiftInv' /\ KeysInv'
  BY <1>1, <1>5 DEF ContentInv, OwnersInv, QueueInv, ShiftInv, KeysInv
<1> QED
  BY <1>6 DEF ContentInv

LEMMA OperateContent == IInv /\ IInv' /\ ContentInv /\ Operate => ContentInv'
<1> SUFFICES ASSUME IInv, IInv', ContentInv, Operate PROVE ContentInv'
  OBVIOUS
<1>0. Deltas \subseteq Int /\ Divisors \subseteq Nat \ {0}
  BY ConstAssumption
<1>1. ASSUME NEW s \in Seqs, NEW r \in Ranges, SeqRm(s, r[1], r[2]) PROVE ContentInv'
  BY <1>1, SeqRmContent
<1>2. ASSUME NEW r \in Ranges, SeqRmAny(r[1], r[2]) PROVE ContentInv'
  BY <1>2, SeqRmAnyContent
<1>3. ASSUME NEW s \in Seqs, NEW d \in Seqs, NEW r \in Ranges, SeqCpShared(s, d, r[1], r[2])
      PROVE  ContentInv'
  BY <1>3, SeqCpSharedContent
<1>4. ASSUME NEW s \in Seqs, NEW d \in Seqs, NEW r \in Ranges, SeqCpStream(s, d, r[1], r[2])
      PROVE  ContentInv'
  BY <1>4, SeqCpStreamContent
<1>5. ASSUME NEW s \in Seqs, SeqKeep(s) PROVE ContentInv'
  BY <1>5, SeqKeepContent
<1>6. ASSUME NEW s \in Seqs, NEW r \in Ranges, NEW d \in Deltas, SeqAdd(s, r[1], r[2], d)
      PROVE  ContentInv'
  BY <1>0, <1>6, SeqAddContent
<1>7. ASSUME NEW s \in Seqs, NEW r \in Ranges, NEW d \in Divisors, SeqDiv(s, r[1], r[2], d)
      PROVE  ContentInv'
  BY <1>0, <1>7, SeqDivContent
<1>8. ASSUME NEW wipe \in BOOLEAN, Clear(wipe) PROVE ContentInv'
  BY <1>8, ClearContent
<1> QED
  BY <1>1, <1>2, <1>3, <1>4, <1>5, <1>6, <1>7, <1>8 DEF Operate

(***************************************************************************)
(* The start of a call and its updates.                                     *)
(***************************************************************************)
LEMMA DecodeBeginContent ==
  ASSUME IInv, IInv', ContentInv, NEW b \in Batches, NEW tok \in Toks, OneOwner(b),
         DecodeBegin(b, tok)
  PROVE  ContentInv'
<1>1. /\ phase = "idle" /\ phase' = "update" /\ batch' = Positioned(b, tok)
      /\ copies' = scInfo /\ scInfo' = <<>> /\ plan' = <<>> /\ doShift' = HasShift
      /\ UNCHANGED <<cells, data>>
  BY DEF DecodeBegin, memVars, bufVars, IInv, CallOK
<1>2. OwnersInv'
  <2> SUFFICES ASSUME "compute" \in Failures PROVE OwnersInv'
    BY DEF OwnersInv
  <2> DEFINE P == Positioned(b, tok)
  <2>1. Len(b) \in Nat /\ Len(P) = Len(b)
    BY PositionedOK DEF DecodeBegin
  <2>2. ASSUME NEW k \in 1 .. Len(b), NEW st \in DOMAIN P[k], NEW j \in 1 .. Len(P[k][st])
        PROVE  \E s \in Seqs : P[k][st][j].seqs = {s}
    <3>1. P[k] = [sv \in DOMAIN b[k] |-> [m \in 1 .. Len(b[k][sv]) |->
                   [pos  |-> BatchPos(b, k, sv, m, CHOOSE q \in b[k][sv][m] : TRUE),
                    seqs |-> b[k][sv][m],
                    tok  |-> tok]]]
      BY <2>1 DEF Positioned
    <3>2. st \in DOMAIN b[k] /\ Len(b[k][st]) \in Nat
      BY <3>1, <2>1, ConstAssumption DEF IsUbatch
    <3>3. P[k][st] \in [1 .. Len(b[k][st]) -> {P[k][st][m] : m \in 1 .. Len(b[k][st])}]
      BY <3>1, <3>2
    <3>4. Len(P[k][st]) = Len(b[k][st])
      BY <3>2, <3>3, LenOfFunction
    <3>5. P[k][st][j].seqs = b[k][st][j]
      BY <3>1, <3>2, <3>4
    <3> HIDE DEF P
    <3> QED
      BY <3>2, <3>4, <3>5 DEF OneOwner
  <2> HIDE DEF P
  <2>3. batch' = P
    BY <1>1 DEF P
  <2> QED
    BY <2>1, <2>2, <2>3 DEF OwnersInv
<1>3. QueueInv'
  BY <1>1 DEF QueueInv
<1>4. ShiftInv'
  BY <1>1 DEF ShiftInv, NoShift, HasShift
<1>5. KeysInv'
  BY <1>1 DEF ContentInv, KeysInv, KeysFollow, AfterCopies, AllRotated
<1> QED
  BY <1>2, <1>3, <1>4, <1>5 DEF ContentInv

\* The first of the queued copies is made: what the others lead to stays the same.
LEMMA UpdateCopyContent == IInv /\ IInv' /\ ContentInv /\ UpdateCopy => ContentInv'
<1> SUFFICES ASSUME IInv, IInv', ContentInv, UpdateCopy PROVE ContentInv'
  OBVIOUS
<1>1. /\ phase = "update" /\ copies # <<>> /\ copies' = Tail(copies)
      /\ data' = [data EXCEPT ![copies[1][2]] = data[copies[1][1]]]
      /\ UNCHANGED <<cells, scInfo, phase, batch, plan, doShift>>
  <2>1. Head(copies) = copies[1]
    BY DEF IInv, TypeOK
  <2> QED
    BY <2>1 DEF UpdateCopy, memVars
<1>n. PICK n : n = Len(copies)
  OBVIOUS
<1>2. /\ n \in Nat \ {0} /\ Len(copies') = n - 1
      /\ \A k \in 1 .. n - 1 : copies'[k] = copies[k + 1]
  <2>1. copies \in Seq(Streams \X Streams)
    BY DEF IInv, TypeOK
  <2> QED
    BY <1>n, <1>1, <2>1
<1>3. PICK eff : AfterCopies(copies, eff) /\ AllRotated(eff[n])
  BY <1>n, <1>1 DEF ContentInv, KeysInv, KeysFollow
<1>4. /\ eff \in [0 .. n -> Bufs] /\ eff[0] = data
      /\ \A k \in 1 .. n : eff[k] = [eff[k - 1] EXCEPT ![copies[k][2]] = eff[k - 1][copies[k][1]]]
  BY <1>n, <1>3 DEF AfterCopies
<1>r. PICK rest : rest = [k \in 0 .. n - 1 |-> eff[k + 1]]
  OBVIOUS
<1>5. rest \in [0 .. n - 1 -> Bufs] /\ \A k \in 0 .. n - 1 : rest[k] = eff[k + 1]
  BY <1>r, <1>2, <1>4
<1>6. rest[0] = data'
  <2>0. 0 \in 0 .. n - 1 /\ 0 + 1 = 1 /\ 1 \in 1 .. n /\ 1 - 1 = 0
    BY <1>2
  <2>1. rest[0] = eff[1] /\ eff[1] = [eff[0] EXCEPT ![copies[1][2]] = eff[0][copies[1][1]]]
    <3>1. rest[0] = eff[1]
      BY <1>5, <2>0
    <3>2. eff[1] = [eff[1 - 1] EXCEPT ![copies[1][2]] = eff[1 - 1][copies[1][1]]]
      BY <1>4, <2>0
    <3> QED
      BY <2>0, <3>1, <3>2
  <2> QED
    BY <1>1, <1>4, <2>1
<1>7. \A k \in 1 .. n - 1 : rest[k] = [rest[k - 1] EXCEPT ![copies'[k][2]] = rest[k - 1][copies'[k][1]]]
  <2> SUFFICES ASSUME NEW k \in 1 .. n - 1
               PROVE  rest[k] = [rest[k - 1] EXCEPT ![copies'[k][2]] = rest[k - 1][copies'[k][1]]]
    OBVIOUS
  <2>1. rest[k] = eff[k + 1] /\ rest[k - 1] = eff[k] /\ copies'[k] = copies[k + 1]
    <3>1. k - 1 \in 0 .. n - 1 /\ (k - 1) + 1 = k
      BY <1>2
    <3> QED
      BY <1>2, <1>5, <3>1
  <2>2. eff[k + 1] = [eff[k] EXCEPT ![copies[k + 1][2]] = eff[k][copies[k + 1][1]]]
    <3>1. k + 1 \in 1 .. n /\ (k + 1) - 1 = k
      BY <1>2
    <3> QED
      BY <1>4, <3>1
  <2> QED
    BY <2>1, <2>2
<1>8. KeysFollow(copies)'
  <2>1. AfterCopies(copies, rest)'
    BY <1>2, <1>5, <1>6, <1>7 DEF AfterCopies
  <2>2. rest[n - 1] = eff[n]
    <3>1. n - 1 \in 0 .. n - 1 /\ (n - 1) + 1 = n
      BY <1>2
    <3> QED
      BY <1>5, <3>1
  <2>3. AllRotated(rest[Len(copies)])'
    BY <1>1, <1>2, <1>3, <2>2 DEF AllRotated
  <2> QED
    BY <2>1, <2>3 DEF KeysFollow
<1>9. OwnersInv' /\ QueueInv'
  BY <1>1 DEF ContentInv, OwnersInv, QueueInv
<1>10. ShiftInv'
  BY <1>1 DEF ContentInv, ShiftInv, NoShift
<1>11. KeysInv'
  BY <1>1, <1>8 DEF KeysInv
<1> QED
  BY <1>9, <1>10, <1>11 DEF ContentInv


\* The K-shift makes every pending shift real.
LEMMA UpdateShiftContent == IInv /\ IInv' /\ ContentInv /\ UpdateShift => ContentInv'
<1> SUFFICES ASSUME IInv, IInv', ContentInv, UpdateShift PROVE ContentInv'
  OBVIOUS
<1>1. /\ phase = "update" /\ copies = <<>> /\ phase' = "prepare" /\ plan = <<>> /\ plan' = <<>>
      /\ UNCHANGED <<scInfo, batch, copies>>
  BY DEF UpdateShift, IInv, CallOK
<1>2. ASSUME NEW st \in Streams, NEW i \in Idxs
      PROVE  /\ cells'[st][i] = [cells[st][i] EXCEPT !.shift = 0]
             /\ data'[st][i] = [data[st][i] EXCEPT !.rot = @ + cells[st][i].shift]
  BY DEF UpdateShift, Turned
<1>3. AllRotated(data)
  BY <1>1, BufsOK, NothingQueued DEF ContentInv, KeysInv
<1>4. ASSUME NEW st \in Streams, NEW i \in Idxs
      PROVE  cells'[st][i].shift = 0 /\ Rotated(cells'[st][i], data'[st][i])
  <2>1. cells[st][i] \in Cell /\ data[st][i] \in Content
    BY BufsOK
  <2>2. /\ cells'[st][i].pos = cells[st][i].pos /\ cells'[st][i].shift = 0
        /\ data'[st][i].rot = data[st][i].rot + cells[st][i].shift
    <3>1. cells'[st][i].pos = cells[st][i].pos /\ cells'[st][i].shift = 0
      <4>1. /\ [cells[st][i] EXCEPT !.shift = 0].pos = cells[st][i].pos
            /\ [cells[st][i] EXCEPT !.shift = 0].shift = 0
        BY <2>1 DEF Cell
      <4>2. cells'[st][i] = [cells[st][i] EXCEPT !.shift = 0]
        BY <1>2
      <4> QED
        BY <4>1, <4>2
    <3>2. \A r : [data[st][i] EXCEPT !.rot = r].rot = r
      BY <2>1 DEF Content
    <3>3. data'[st][i] = [data[st][i] EXCEPT !.rot = data[st][i].rot + cells[st][i].shift]
      BY <1>2
    <3> QED
      BY <3>1, <3>2, <3>3
  <2>3. data[st][i].rot \in Int /\ cells[st][i].pos \in Int /\ cells[st][i].shift \in Int
    BY <2>1, CellNumbers DEF Content
  <2> QED
    BY <1>3, <2>2, <2>3 DEF AllRotated, Rotated, IsEmpty
<1>5. FitsBeside(Len(plan))'
  <2>1. AllRotated(data)'
    BY <1>4 DEF AllRotated
  <2>2. Len(plan') = 0
    BY <1>1
  <2> QED
    BY <2>1, <2>2 DEF AllRotated, FitsBeside
<1>6. OwnersInv' /\ QueueInv'
  BY <1>1 DEF ContentInv, OwnersInv, QueueInv
<1>7. ShiftInv'
  BY <1>1, <1>4 DEF ShiftInv, NoShift
<1>8. KeysInv'
  BY <1>1, <1>5 DEF KeysInv
<1> QED
  BY <1>6, <1>7, <1>8 DEF ContentInv

LEMMA UpdateNothingContent == IInv /\ IInv' /\ ContentInv /\ UpdateNothing => ContentInv'
<1> SUFFICES ASSUME IInv, IInv', ContentInv, UpdateNothing PROVE ContentInv'
  OBVIOUS
<1>1. /\ phase = "update" /\ copies = <<>> /\ phase' = "prepare" /\ plan = <<>> /\ ~doShift
      /\ UNCHANGED <<cells, data, scInfo, batch, plan, copies>>
  BY DEF UpdateNothing, IInv, CallOK, memVars, bufVars
<1>2. AllRotated(data)
  BY <1>1, BufsOK, NothingQueued DEF ContentInv, KeysInv
<1>3. FitsBeside(Len(plan))'
  <2>1. AllRotated(data)' /\ Len(plan') = 0
    BY <1>1, <1>2 DEF AllRotated
  <2> QED
    BY <2>1 DEF AllRotated, FitsBeside
<1>4. OwnersInv' /\ QueueInv'
  BY <1>1 DEF ContentInv, OwnersInv, QueueInv
<1>5. ShiftInv'
  BY <1>1 DEF ContentInv, ShiftInv, NoShift
<1>6. KeysInv'
  BY <1>1, <1>3 DEF KeysInv
<1> QED
  BY <1>4, <1>5, <1>6 DEF ContentInv

(***************************************************************************)
(* prepare(): what it saves fits, and so does what it gives back.           *)
(***************************************************************************)
\* What apply_ubatch makes of a cell without shift.
LEMMA AppliedCell ==
  ASSUME NEW st \in Streams, NEW row, RowOK(st, row), NEW toks, NEW slot,
         RowFits(st, toks, slot), NEW i \in Idxs
  PROVE  LET t == toks[CHOOSE j \in DOMAIN slot : slot[j] = i]
             c == AppliedRow(row, toks, slot)[i]
         IN /\ i \in SlotCells(slot) => /\ c.shift = 0
                                        /\ IsEmpty(c) \/ (c.pos = t.pos /\ c.seqs \subseteq t.seqs)
            /\ i \notin SlotCells(slot) => /\ Follows(row[i], c)
                                           /\ row[i].shift = 0 => c.shift = 0
<1> DEFINE t == toks[CHOOSE j \in DOMAIN slot : slot[j] = i]
           c == AppliedRow(row, toks, slot)[i]
           new == Placed(row, toks, slot)[i]
           lost == {s \in Seqs : Overwritten(row, slot, s) >= new.pos}
<1>1. c = DropSeqs(new, lost)
  BY DEF AppliedRow
<1>2. new \in Cell
  BY PlacedOK DEF CellOK
<1>3. /\ i \in SlotCells(slot) => new.pos = t.pos /\ new.shift = 0 /\ new.seqs = t.seqs
      /\ i \notin SlotCells(slot) => new = row[i]
  BY DEF Placed, TokenCell
<1> HIDE DEF c, new, lost, t
<1>4. /\ new.shift = 0 => c.shift = 0
      /\ c = EmptyCell \/ (c.pos = new.pos /\ c.seqs \subseteq new.seqs)
  BY <1>1, <1>2, DropSeqsFollows
<1>5. i \in SlotCells(slot) => /\ c.shift = 0
                               /\ IsEmpty(c) \/ (c.pos = t.pos /\ c.seqs \subseteq t.seqs)
  BY <1>3, <1>4 DEF IsEmpty, EmptyCell
<1>6. i \notin SlotCells(slot) => Follows(row[i], c) /\ (row[i].shift = 0 => c.shift = 0)
  BY <1>1, <1>2, <1>3, DropSeqsFollows
<1> QED
  BY <1>5, <1>6 DEF c, t

\* What apply_ubatch makes of the cells of all streams, when none has a shift pending.
LEMMA AppliedCells ==
  ASSUME IInv, IInv', NoShift, NEW u, UbatchOK(u), NEW slots, SlotsFit(u, slots), ApplyUbatch(u, slots)
  PROVE  /\ NoShift'
         /\ \A st \in Streams : \A i \in Idxs :
              ~(st \in DOMAIN u /\ i \in SlotCells(slots[st])) =>
                 \A x \in Content : Rotated(cells[st][i], x) => Rotated(cells'[st][i], x)
         /\ \A st \in DOMAIN u : \A i \in SlotCells(slots[st]) : \A t :
              t = u[st][CHOOSE j \in DOMAIN slots[st] : slots[st][j] = i] =>
                 \/ IsEmpty(cells'[st][i])
                 \/ cells'[st][i].pos = t.pos /\ cells'[st][i].seqs \subseteq t.seqs
<1>1. ASSUME NEW st \in Streams, NEW i \in Idxs
      PROVE  /\ cells'[st][i].shift = 0
             /\ IF st \in DOMAIN u /\ i \in SlotCells(slots[st])
                THEN LET t == u[st][CHOOSE j \in DOMAIN slots[st] : slots[st][j] = i]
                     IN \/ IsEmpty(cells'[st][i])
                        \/ cells'[st][i].pos = t.pos /\ cells'[st][i].seqs \subseteq t.seqs
                ELSE \A x \in Content : Rotated(cells[st][i], x) => Rotated(cells'[st][i], x)
  <2>1. RowOK(st, cells[st]) /\ cells[st][i] \in Cell /\ cells'[st][i] \in Cell /\ cells[st][i].shift = 0
    BY TypeOKMemory DEF IInv, TypeOK, MemoryOK, NoShift
  <2>2. CASE st \in DOMAIN u
    <3>1. RowFits(st, u[st], slots[st])
      BY <2>2 DEF RowFits, UbatchOK, SlotsFit
    <3>2. cells'[st] = AppliedRow(cells[st], u[st], slots[st])
      BY <2>2 DEF ApplyUbatch
    <3>3. CASE i \in SlotCells(slots[st])
      <4>t. PICK t : t = u[st][CHOOSE j \in DOMAIN slots[st] : slots[st][j] = i]
        OBVIOUS
      <4>1. /\ cells'[st][i].shift = 0
            /\ IsEmpty(cells'[st][i]) \/ (cells'[st][i].pos = t.pos /\ cells'[st][i].seqs \subseteq t.seqs)
        BY <2>1, <3>1, <3>2, <3>3, <4>t, AppliedCell
      <4> QED
        BY <2>2, <3>3, <4>t, <4>1
    <3>4. CASE i \notin SlotCells(slots[st])
      <4>1. Follows(cells[st][i], cells'[st][i]) /\ cells'[st][i].shift = 0
        BY <2>1, <3>1, <3>2, <3>4, AppliedCell
      <4> QED
        BY <2>1, <3>4, <4>1, RotatedFollows
    <3> QED
      BY <3>3, <3>4
  <2>3. CASE st \notin DOMAIN u
    <3>1. cells'[st] = cells[st]
      BY <2>3 DEF ApplyUbatch
    <3> QED
      BY <2>1, <2>3, <3>1
  <2> QED
    BY <2>2, <2>3
<1>2. \A st \in DOMAIN u : st \in Streams /\ \A i \in SlotCells(slots[st]) : i \in Idxs
  BY DEF UbatchOK, SlotsFit, SlotCells
<1> QED
  BY <1>1, <1>2 DEF NoShift

LEMMA PrepareUbatchContent == IInv /\ IInv' /\ ContentInv /\ PrepareUbatch => ContentInv'
<1> SUFFICES ASSUME IInv, IInv', ContentInv, PrepareUbatch PROVE ContentInv'
  OBVIOUS
<1>n. PICK n : n = Len(plan)
  OBVIOUS
<1>u. PICK u, slots : u = batch[iCur] /\ slots = FindSlot(u)
  OBVIOUS
<1>e. PICK entry : entry = [slots |-> slots, heads |-> head,
                            old |-> [st \in DOMAIN u |-> [j \in DOMAIN slots[st] |->
                                       [cells[st][slots[st][j]] EXCEPT !.shift = 0]]]]
  OBVIOUS
<1>1. /\ phase = "prepare" /\ iCur = n + 1 /\ IsSequence(plan) /\ iCur <= Len(batch)
      /\ plan' = Append(plan, entry) /\ ApplyUbatch(u, slots) /\ FoundSlot(u)
      /\ UNCHANGED <<scInfo, data, phase, batch, copies, doShift>>
  BY <1>n, <1>u, <1>e DEF IInv, CallOK, PrepareUbatch, bufVars
<1>2. /\ n \in Nat /\ UbatchOK(u) /\ Len(plan') = n + 1 /\ plan'[n + 1] = entry
      /\ \A k \in 1 .. n : plan'[k] = plan[k]
  <2>1. n \in Nat
    BY <1>n, <1>1, AppendIsSequence
  <2> QED
    BY <1>n, <1>u, <1>1, <2>1, AppendIsSequence DEF IInv, CallOK
<1>3. SlotsFit(u, slots)
  BY <1>u, <1>1, <1>2, TypeOKMemory, FoundSlots DEF IInv
<1>4. /\ NoShift /\ NoShift' /\ FitsBeside(n)
      /\ \A c \in Streams \X Idxs : cells[c[1]][c[2]] \in Cell /\ data[c[1]][c[2]] \in Content
  BY <1>n, <1>1, <1>2, <1>3, AppliedCells, BufsOK DEF ContentInv, ShiftInv, KeysInv
<1>5. /\ \A k \in 1 .. n : PlannedCells(k)' = PlannedCells(k)
      /\ \A c \in Streams \X Idxs : c \in PlannedCells(n + 1)' <=>
                                       c[1] \in DOMAIN u /\ c[2] \in SlotCells(slots[c[1]])
  <2>1. \A k \in 1 .. n : PlannedCells(k)' = PlannedCells(k)
    BY <1>1, <1>2 DEF PlannedCells
  <2>2. batch'[n + 1] = u /\ plan'[n + 1].slots = slots
    <3>1. batch'[n + 1] = u
      BY <1>u, <1>1
    <3>2. entry.slots = slots
      BY <1>e
    <3> QED
      BY <1>2, <3>1, <3>2
  <2>3. ASSUME NEW c \in Streams \X Idxs, c[1] \in DOMAIN u
        PROVE  c[2] \in SlotCells(slots[c[1]]) <=> \E j \in 1 .. Len(u[c[1]]) : slots[c[1]][j] = c[2]
    BY <1>3, <2>3 DEF SlotsFit, SlotCells
  <2> QED
    BY <2>1, <2>2, <2>3 DEF PlannedCells
<1>6. /\ \A m \in 0 .. n : Covered(m)' = Covered(m)
      /\ Covered(n + 1)' = Covered(n) \cup {c \in Streams \X Idxs :
                                                c[1] \in DOMAIN u /\ c[2] \in SlotCells(slots[c[1]])}
  <2>1. \A m \in 0 .. n : Covered(m)' = Covered(m)
    BY <1>2, <1>5 DEF Covered
  <2>2. \A k \in 1 .. n + 1 : k \in 1 .. n \/ k = n + 1
    BY <1>2
  <2>3. \A k \in 1 .. n : k \in 1 .. n + 1
    BY <1>2
  <2>4. n + 1 \in 1 .. n + 1
    BY <1>2
  <2> QED
    BY <1>5, <2>1, <2>2, <2>3, <2>4 DEF Covered
<1>7. ASSUME NEW c \in Streams \X Idxs, c \notin Covered(n + 1)'
      PROVE  Rotated(cells'[c[1]][c[2]], data'[c[1]][c[2]])
  <2>1. Rotated(cells[c[1]][c[2]], data[c[1]][c[2]])
    BY <1>4, <1>6, <1>7 DEF FitsBeside
  <2>2. ~(c[1] \in DOMAIN u /\ c[2] \in SlotCells(slots[c[1]])) /\ c[1] \in Streams /\ c[2] \in Idxs
    BY <1>6, <1>7
  <2>3. \A x \in Content : Rotated(cells[c[1]][c[2]], x) => Rotated(cells'[c[1]][c[2]], x)
    BY <1>1, <1>2, <1>3, <1>4, <2>2, AppliedCells
  <2> QED
    BY <1>1, <1>4, <2>1, <2>3
<1>8. ASSUME NEW st \in DOMAIN u, NEW j \in 1 .. Len(u[st])
      PROVE  /\ entry.old[st][j].shift = 0
             /\ \/ <<st, slots[st][j]>> \in Covered(n)
                \/ Rotated(entry.old[st][j], data[st][slots[st][j]])
  <2>1. st \in Streams /\ slots[st][j] \in Idxs /\ j \in DOMAIN slots[st]
    BY <1>2, <1>3, <1>8 DEF UbatchOK, SlotsFit
  <2>p. PICK c : c = cells[st][slots[st][j]]
    OBVIOUS
  <2>2. entry.old[st][j] = [c EXCEPT !.shift = 0]
    BY <1>e, <1>8, <2>1, <2>p
  <2>3. c \in Cell /\ c.shift = 0
    BY <1>4, <2>1, <2>p, BufsOK DEF NoShift
  <2>4. [c EXCEPT !.shift = 0].pos = c.pos /\ [c EXCEPT !.shift = 0].shift = 0
    BY <2>3 DEF Cell
  <2>5. \/ <<st, slots[st][j]>> \in Covered(n)
        \/ Rotated(c, data[st][slots[st][j]])
    <3>1. <<st, slots[st][j]>> \in Streams \X Idxs
      BY <2>1
    <3> QED
      BY <1>4, <2>p, <3>1 DEF FitsBeside
  <2> QED
    BY <2>2, <2>3, <2>4, <2>5 DEF Rotated, IsEmpty
<1>9. FitsBeside(n + 1)'
  <2>1. ASSUME NEW k \in 1 .. n + 1, NEW st \in DOMAIN batch'[k], NEW j \in 1 .. Len(batch'[k][st])
        PROVE  \/ <<st, plan'[k].slots[st][j]>> \in Covered(k - 1)'
               \/ Rotated(plan'[k].old[st][j], data'[st][plan'[k].slots[st][j]])
    <3>1. CASE k = n + 1
      <4>1. batch'[k] = u /\ plan'[k] = entry /\ entry.slots = slots /\ Covered(k - 1)' = Covered(n)
        <5>1. batch'[k] = u /\ plan'[k] = entry
          BY <1>u, <1>1, <1>2, <3>1
        <5>2. entry.slots = slots
          BY <1>e
        <5>3. n \in 0 .. n /\ k - 1 = n
          BY <1>2, <3>1
        <5>4. Covered(k - 1)' = Covered(n)
          BY <1>6, <5>3
        <5> QED
          BY <5>1, <5>2, <5>4
      <4> QED
        BY <1>1, <1>8, <2>1, <4>1
    <3>2. CASE k # n + 1
      <4>1. k \in 1 .. n /\ k - 1 \in 0 .. n
        BY <1>2, <3>2
      <4>2. batch'[k] = batch[k] /\ plan'[k] = plan[k] /\ Covered(k - 1)' = Covered(k - 1)
        BY <1>1, <1>2, <1>6, <4>1
      <4> QED
        BY <1>1, <1>4, <2>1, <4>1, <4>2 DEF FitsBeside
    <3> QED
      BY <3>1, <3>2
  <2> QED
    BY <1>7, <2>1 DEF FitsBeside
<1>10. OwnersInv' /\ QueueInv'
  BY <1>1 DEF ContentInv, OwnersInv, QueueInv
<1>11. ShiftInv'
  <2>1. ASSUME NEW k \in 1 .. n + 1, NEW st \in DOMAIN batch'[k], NEW j \in 1 .. Len(batch'[k][st])
        PROVE  plan'[k].old[st][j].shift = 0
    <3>1. CASE k = n + 1
      <4>1. batch'[k] = u /\ plan'[k] = entry
        BY <1>u, <1>1, <1>2, <3>1
      <4> QED
        BY <1>8, <2>1, <4>1
    <3>2. CASE k # n + 1
      <4>1. k \in 1 .. n
        BY <1>2, <3>2
      <4> QED
        BY <1>n, <1>1, <1>2, <2>1, <4>1 DEF ContentInv, ShiftInv
    <3> QED
      BY <3>1, <3>2
  <2> QED
    BY <1>1, <1>2, <1>4, <2>1 DEF ShiftInv
<1>12. KeysInv'
  BY <1>1, <1>2, <1>9 DEF KeysInv
<1> QED
  BY <1>10, <1>11, <1>12 DEF ContentInv

\* Planning ends: what is to be taken back is all that was planned.
LEMMA PrepareEndsContent == IInv /\ IInv' /\ ContentInv /\ PrepareEnds => ContentInv'
<1> SUFFICES ASSUME IInv, IInv', ContentInv, PrepareEnds PROVE ContentInv'
  OBVIOUS
<1>1. /\ phase = "prepare" /\ phase' = "restore" /\ iCur' = Len(plan)
      /\ UNCHANGED <<cells, scInfo, data, batch, plan, copies, doShift>>
  BY DEF PrepareEnds, memVars, bufVars
<1>2. FitsBeside(iCur)'
  <2>1. \A m : Covered(m)' = Covered(m)
    BY <1>1 DEF Covered, PlannedCells
  <2>2. FitsBeside(Len(plan))
    BY <1>1 DEF ContentInv, KeysInv
  <2> QED
    BY <1>1, <2>1, <2>2 DEF FitsBeside
<1>3. OwnersInv' /\ QueueInv'
  BY <1>1 DEF ContentInv, OwnersInv, QueueInv
<1>4. ShiftInv'
  BY <1>1 DEF ContentInv, ShiftInv, NoShift
<1>5. KeysInv'
  BY <1>1, <1>2 DEF KeysInv
<1> QED
  BY <1>3, <1>4, <1>5 DEF ContentInv

\* One ubatch is taken back: its cells get what was saved from them.
LEMMA RestoreUbatchContent == IInv /\ IInv' /\ ContentInv /\ RestoreUbatch => ContentInv'
<1> SUFFICES ASSUME IInv, IInv', ContentInv, RestoreUbatch PROVE ContentInv'
  OBVIOUS
<1>n. PICK n, u, p : n = iCur /\ u = batch[n] /\ p = plan[n]
  OBVIOUS
<1>1. /\ phase = "restore" /\ n \in 1 .. Len(plan) /\ Len(plan) \in Nat
      /\ UbatchOK(u) /\ PlannedOK(u, p) /\ n \in Nat \ {0}
      /\ iCur' = n - 1 /\ UNCHANGED <<scInfo, data, phase, batch, plan, copies, doShift>>
  BY <1>n, RestoresPlanned
<1>2. cells' = [st \in Streams |-> IF st \notin DOMAIN u THEN cells[st] ELSE
             [i \in Idxs |-> IF i \in SlotCells(p.slots[st])
                THEN p.old[st][CHOOSE j \in DOMAIN p.slots[st] : p.slots[st][j] = i]
                ELSE cells[st][i]]]
  BY <1>n DEF RestoreUbatch
<1>3. FitsBeside(n) /\ NoShift
  BY <1>n, <1>1 DEF ContentInv, KeysInv, ShiftInv
<1>4. ASSUME NEW st \in DOMAIN u, NEW i \in SlotCells(p.slots[st])
      PROVE  \E j \in 1 .. Len(u[st]) : p.slots[st][j] = i /\ cells'[st][i] = p.old[st][j]
  <2>j. PICK j : j = CHOOSE l \in DOMAIN p.slots[st] : p.slots[st][l] = i
    OBVIOUS
  <2>1. DOMAIN p.slots[st] = 1 .. Len(u[st]) /\ st \in Streams /\ i \in Idxs
    BY <1>1, <1>4 DEF PlannedOK, UbatchOK, SlotCells
  <2>2. j \in 1 .. Len(u[st]) /\ p.slots[st][j] = i
    <3>1. \E k \in DOMAIN p.slots[st] : p.slots[st][k] = i
      BY <1>4 DEF SlotCells
    <3> QED
      BY <2>j, <2>1, <3>1
  <2>3. cells'[st][i] = p.old[st][j]
    BY <1>2, <1>4, <2>j, <2>1
  <2> QED
    BY <2>2, <2>3
<1>5. ASSUME NEW c \in Streams \X Idxs
      PROVE  /\ cells'[c[1]][c[2]].shift = 0
             /\ c \notin Covered(n - 1) => Rotated(cells'[c[1]][c[2]], data[c[1]][c[2]])
  <2>1. c \in PlannedCells(n) <=> c[1] \in DOMAIN u /\ c[2] \in SlotCells(p.slots[c[1]])
    BY <1>n, <1>1, PlannedCellsOf
  <2>2. CASE c \in PlannedCells(n)
    <3>1. PICK j \in 1 .. Len(u[c[1]]) : p.slots[c[1]][j] = c[2] /\ cells'[c[1]][c[2]] = p.old[c[1]][j]
      BY <1>4, <2>1, <2>2
    <3>2. p.old[c[1]][j].shift = 0
      BY <1>n, <1>1, <2>1, <2>2 DEF ContentInv, ShiftInv
    <3>3. <<c[1], p.slots[c[1]][j]>> \in Covered(n - 1) \/ Rotated(p.old[c[1]][j], data[c[1]][p.slots[c[1]][j]])
      BY <1>n, <1>1, <1>3, <2>1, <2>2 DEF FitsBeside
    <3>4. <<c[1], p.slots[c[1]][j]>> = c
      BY <3>1
    <3> QED
      BY <3>1, <3>2, <3>3, <3>4
  <2>3. CASE c \notin PlannedCells(n)
    <3>1. cells'[c[1]][c[2]] = cells[c[1]][c[2]]
      BY <1>2, <2>1, <2>3
    <3>2. c \notin Covered(n - 1) => c \notin Covered(n)
      <4>1. \A k \in 1 .. n : k = n \/ k \in 1 .. n - 1
        BY <1>1
      <4> QED
        BY <2>3, <4>1 DEF Covered
    <3> QED
      BY <1>3, <3>1, <3>2 DEF FitsBeside, NoShift
  <2> QED
    BY <2>2, <2>3
<1>6. FitsBeside(n - 1)'
  <2>1. \A m : Covered(m)' = Covered(m)
    BY <1>1 DEF Covered, PlannedCells
  <2>2. \A k \in 1 .. n - 1 : k \in 1 .. n
    BY <1>1
  <2> QED
    BY <1>1, <1>3, <1>5, <2>1, <2>2 DEF FitsBeside
<1>7. OwnersInv' /\ QueueInv'
  BY <1>1 DEF ContentInv, OwnersInv, QueueInv
<1>8. ShiftInv'
  <2>1. NoShift'
    <3>1. ASSUME NEW st \in Streams, NEW i \in Idxs PROVE cells'[st][i].shift = 0
      <4>1. <<st, i>> \in Streams \X Idxs
        OBVIOUS
      <4>2. cells'[<<st, i>>[1]][<<st, i>>[2]].shift = 0
        BY <1>5, <4>1
      <4> QED
        BY <4>2
    <3> QED
      BY <3>1 DEF NoShift
  <2> QED
    BY <1>1, <2>1 DEF ContentInv, ShiftInv
<1>9. KeysInv'
  BY <1>1, <1>6 DEF KeysInv
<1> QED
  BY <1>7, <1>8, <1>9 DEF ContentInv

(***************************************************************************)
(* What becomes of the call.                                                *)
(***************************************************************************)
\* A buffer that nothing is queued for.
LEMMA NoCopies ==
  ASSUME NEW buf \in Bufs, NEW q, q = <<>>
  PROVE  \E eff : /\ eff \in [0 .. Len(q) -> Bufs] /\ eff[0] = buf /\ eff[Len(q)] = buf
                  /\ 1 .. Len(q) = {}
<1>1. Len(q) = 0 /\ 0 .. Len(q) = {0} /\ 1 .. Len(q) = {}
  OBVIOUS
<1> DEFINE eff == [k \in {0} |-> buf]
<1>2. eff \in [{0} -> Bufs] /\ eff[0] = buf
  OBVIOUS
<1> HIDE DEF eff
<1> QED
  BY <1>1, <1>2

LEMMA ReturnContent ==
  ASSUME IInv, IInv', ContentInv, phase # "idle", Return, UNCHANGED scInfo, AllRotated(data)'
  PROVE  ContentInv'
<1>1. /\ phase' = "idle" /\ batch' = <<>> /\ plan' = <<>> /\ copies' = <<>> /\ scInfo' = <<>>
  BY DEF Return, ContentInv, QueueInv
<1>2. KeysFollow(scInfo)'
  <2>1. data' \in Bufs
    BY DEF IInv, TypeOK, Bufs
  <2>2. PICK eff : /\ eff \in [0 .. Len(scInfo') -> Bufs] /\ eff[0] = data'
                   /\ eff[Len(scInfo')] = data' /\ 1 .. Len(scInfo') = {}
    BY <1>1, <2>1, NoCopies
  <2>3. AfterCopies(scInfo, eff)' /\ AllRotated(eff[Len(scInfo)])'
    BY <2>2 DEF AfterCopies, AllRotated
  <2> QED
    BY <2>3 DEF KeysFollow
<1>3. OwnersInv' /\ QueueInv' /\ ShiftInv' /\ KeysInv'
  BY <1>1, <1>2 DEF OwnersInv, QueueInv, ShiftInv, KeysInv
<1> QED
  BY <1>3 DEF ContentInv

\* All that was planned has been taken back.
LEMMA AllTakenBack ==
  ASSUME FitsBeside(0)
  PROVE  AllRotated(data)
<1>1. Covered(0) = {}
  BY DEF Covered
<1>2. ASSUME NEW st \in Streams, NEW i \in Idxs PROVE Rotated(cells[st][i], data[st][i])
  <2>1. <<st, i>> \in Streams \X Idxs /\ <<st, i>>[1] = st /\ <<st, i>>[2] = i
    OBVIOUS
  <2> QED
    BY <1>1, <2>1 DEF FitsBeside
<1> QED
  BY <1>2 DEF AllRotated

LEMMA OutcomeContent == IInv /\ IInv' /\ ContentInv /\ Outcome => ContentInv'
<1> SUFFICES ASSUME IInv, IInv', ContentInv, Outcome PROVE ContentInv'
  OBVIOUS
<1>1. phase = "restore" /\ iCur = 0 /\ UNCHANGED <<cells, scInfo, data>>
  BY DEF Outcome, RetryPrepare, RefuseBatch, ReserveFails, StartUbatches, Restored, memVars, bufVars
<1>2. AllRotated(data) /\ NoShift
  BY <1>1, AllTakenBack DEF ContentInv, KeysInv, ShiftInv
<1>3. CASE RetryPrepare
  BY <1>2, <1>3 DEF RetryPrepare, HasShift, NoShift
<1>4. CASE RefuseBatch \/ ReserveFails
  <2>1. AllRotated(data)'
    BY <1>1, <1>2 DEF AllRotated
  <2> QED
    BY <1>1, <1>4, <2>1, ReturnContent DEF RefuseBatch, ReserveFails
<1>5. CASE StartUbatches
  <2>1. phase' = "apply" /\ UNCHANGED <<batch, plan, copies, doShift>>
    BY <1>5 DEF StartUbatches
  <2>2. OwnersInv' /\ QueueInv'
    BY <1>1, <2>1 DEF ContentInv, OwnersInv, QueueInv
  <2>3. ShiftInv'
    BY <1>1, <1>2, <2>1 DEF ContentInv, ShiftInv, NoShift
  <2>4. KeysInv'
    BY <1>1, <1>2, <2>1 DEF KeysInv, AllRotated
  <2> QED
    BY <2>2, <2>3, <2>4 DEF ContentInv
<1> QED
  BY <1>3, <1>4, <1>5 DEF Outcome

(***************************************************************************)
(* Placing and computing the ubatches.                                      *)
(***************************************************************************)
\* What is known of the ubatch that is placed or computed.
LEMMA CurrentUbatch ==
  ASSUME IInv, phase \in {"apply", "compute"}
  PROVE  /\ iCur \in 1 .. Len(plan) /\ iCur \in 1 .. Len(batch)
         /\ UbatchOK(batch[iCur]) /\ SlotsFit(batch[iCur], plan[iCur].slots)
         /\ \A c \in Streams \X Idxs :
              c \in PlannedCells(iCur) <=> /\ c[1] \in DOMAIN batch[iCur]
                                           /\ c[2] \in SlotCells(plan[iCur].slots[c[1]])
         /\ CurrentCells = PlannedCells(iCur)
<1>1. /\ iCur \in 1 .. Len(plan) /\ iCur \in 1 .. Len(batch)
      /\ UbatchOK(batch[iCur]) /\ PlannedOK(batch[iCur], plan[iCur])
  BY DEF IInv, CallOK
<1>2. SlotsFit(batch[iCur], plan[iCur].slots)
  BY <1>1 DEF PlannedOK, SlotsFit
<1>3. \A c : c \in PlannedCells(iCur) <=> /\ c \in Streams \X Idxs /\ c[1] \in DOMAIN batch[iCur]
                                          /\ c[2] \in SlotCells(plan[iCur].slots[c[1]])
  BY <1>1, PlannedCellsOf
<1>4. \A c : c \in CurrentCells <=> c \in PlannedCells(iCur)
  <2>1. \A c : c \in CurrentCells <=>
                 \E st \in DOMAIN batch[iCur] : \E i \in SlotCells(plan[iCur].slots[st]) : c = <<st, i>>
    BY DEF CurrentCells
  <2>2. \A st \in DOMAIN batch[iCur] : st \in Streams /\ \A i \in SlotCells(plan[iCur].slots[st]) : i \in Idxs
    BY <1>1, <1>2 DEF UbatchOK, SlotsFit, SlotCells
  <2> QED
    BY <1>3, <2>1, <2>2
<1> QED
  BY <1>1, <1>2, <1>3, <1>4

LEMMA ApplyContent == IInv /\ IInv' /\ ContentInv /\ Apply => ContentInv'
<1> SUFFICES ASSUME IInv, IInv', ContentInv, Apply PROVE ContentInv'
  OBVIOUS
<1>n. PICK n, u, slots : n = iCur /\ u = batch[n] /\ slots = plan[n].slots
  OBVIOUS
<1>1. /\ phase = "apply" /\ phase' = "compute" /\ ApplyUbatch(u, slots)
      /\ UNCHANGED <<scInfo, data, batch, plan, copies, doShift, iCur>>
  BY <1>n DEF Apply, bufVars
<1>2. /\ UbatchOK(u) /\ SlotsFit(u, slots)
      /\ \A c \in Streams \X Idxs :
           c \in PlannedCells(n) <=> c[1] \in DOMAIN u /\ c[2] \in SlotCells(slots[c[1]])
  BY <1>n, <1>1, CurrentUbatch
<1>3. NoShift /\ AllRotated(data)
  BY <1>1 DEF ContentInv, ShiftInv, KeysInv
<1>4. NoShift'
  BY <1>1, <1>2, <1>3, AppliedCells
<1>5. ASSUME NEW c \in Streams \X Idxs, c \notin PlannedCells(n)
      PROVE  Rotated(cells'[c[1]][c[2]], data[c[1]][c[2]])
  <2>1. ~(c[1] \in DOMAIN u /\ c[2] \in SlotCells(slots[c[1]])) /\ c[1] \in Streams /\ c[2] \in Idxs
    BY <1>2, <1>5
  <2>2. \A x \in Content : Rotated(cells[c[1]][c[2]], x) => Rotated(cells'[c[1]][c[2]], x)
    BY <1>1, <1>2, <1>3, <2>1, AppliedCells
  <2> QED
    BY <1>3, <2>1, <2>2, BufsOK DEF AllRotated
<1>6. ASSUME NEW c \in Streams \X Idxs, c \in PlannedCells(n)
      PROVE  \/ IsEmpty(cells'[c[1]][c[2]])
             \/ /\ cells'[c[1]][c[2]].pos = TokenAt(n, c).pos
                /\ cells'[c[1]][c[2]].seqs \subseteq TokenAt(n, c).seqs
  <2>1. c[1] \in DOMAIN u /\ c[2] \in SlotCells(slots[c[1]])
    BY <1>2, <1>6
  <2>2. PICK st, i : st = c[1] /\ i = c[2]
    OBVIOUS
  <2>3. PICK t : t = u[st][CHOOSE j \in DOMAIN slots[st] : slots[st][j] = i]
    OBVIOUS
  <2>4. \/ IsEmpty(cells'[st][i])
        \/ cells'[st][i].pos = t.pos /\ cells'[st][i].seqs \subseteq t.seqs
    BY <1>1, <1>2, <1>3, <2>1, <2>2, <2>3, AppliedCells
  <2>5. t = TokenAt(n, c)
    BY <1>n, <2>2, <2>3 DEF TokenAt
  <2> QED
    BY <2>2, <2>4, <2>5
<1>7. KeysInv'
  <2>1. PlannedCells(n)' = PlannedCells(n) /\ \A c : TokenAt(n, c)' = TokenAt(n, c)
    BY <1>1 DEF PlannedCells, TokenAt
  <2>2. iCur' = n
    BY <1>n, <1>1
  <2>3. FitsOnceWritten'
    BY <1>1, <1>5, <1>6, <2>1, <2>2 DEF FitsOnceWritten
  <2> QED
    BY <1>1, <2>3 DEF KeysInv
<1>8. OwnersInv' /\ QueueInv'
  BY <1>1 DEF ContentInv, OwnersInv, QueueInv
<1>9. ShiftInv'
  BY <1>1, <1>4 DEF ContentInv, ShiftInv
<1> QED
  BY <1>7, <1>8, <1>9 DEF ContentInv

\* The graph rotates every K it writes to its token's position, which is the cell's.
LEMMA WrittenFits ==
  ASSUME IInv, ContentInv, phase = "compute"
  PROVE  LET buf == Written(data, batch[iCur], plan[iCur].slots, CurrentCells)
         IN \A st \in Streams : \A i \in Idxs : Rotated(cells[st][i], buf[st][i])
<1>n. PICK n, u, slots, buf :
        /\ n = iCur /\ u = batch[n] /\ slots = plan[n].slots
        /\ buf = Written(data, u, slots, CurrentCells)
  OBVIOUS
<1>1. /\ FitsOnceWritten /\ NoShift
      /\ \A c \in Streams \X Idxs :
           c \in PlannedCells(n) <=> c[1] \in DOMAIN u /\ c[2] \in SlotCells(slots[c[1]])
      /\ CurrentCells = PlannedCells(n)
      /\ UbatchOK(u) /\ SlotsFit(u, slots)
  BY <1>n, CurrentUbatch DEF ContentInv, KeysInv, ShiftInv
<1>2. ASSUME NEW st \in Streams, NEW i \in Idxs PROVE Rotated(cells[st][i], buf[st][i])
  <2>c. PICK c : c = <<st, i>>
    OBVIOUS
  <2>1. c \in Streams \X Idxs /\ c[1] = st /\ c[2] = i
    BY <2>c
  <2>t. PICK t : t = u[st][CHOOSE j \in DOMAIN slots[st] : slots[st][j] = i]
    OBVIOUS
  <2>2. CASE c \in PlannedCells(n)
    <3>1. t = TokenAt(n, c) /\ st \in DOMAIN u
      BY <1>n, <1>1, <2>1, <2>t, <2>2 DEF TokenAt
    <3>2. buf[st][i] = [tok |-> t.tok, rot |-> t.pos]
      BY <1>n, <1>1, <2>c, <2>t, <2>2, <3>1 DEF Written
    <3>3. IsEmpty(cells[st][i]) \/ cells[st][i].pos = t.pos
      BY <1>n, <1>1, <2>1, <2>2, <3>1 DEF FitsOnceWritten
    <3>4. cells[st][i].shift = 0 /\ cells[st][i].pos \in Int
      BY <1>1, BufsOK, CellNumbers DEF NoShift
    <3> QED
      BY <3>2, <3>3, <3>4 DEF Rotated
  <2>3. CASE c \notin PlannedCells(n)
    <3>1. buf[st][i] = data[st][i]
      BY <1>n, <1>1, <2>c, <2>3 DEF Written
    <3>2. Rotated(cells[st][i], data[st][i])
      BY <1>n, <1>1, <2>1, <2>3 DEF FitsOnceWritten
    <3> QED
      BY <3>1, <3>2
  <2> QED
    BY <2>2, <2>3
<1> QED
  BY <1>n, <1>2

LEMMA ComputeContent == IInv /\ IInv' /\ ContentInv /\ Compute => ContentInv'
<1> SUFFICES ASSUME IInv, IInv', ContentInv, Compute PROVE ContentInv'
  OBVIOUS
<1>1. /\ phase = "compute" /\ UNCHANGED <<cells, scInfo>>
      /\ data' = Written(data, batch[iCur], plan[iCur].slots, CurrentCells)
  BY DEF Compute, memVars
<1>2. AllRotated(data)'
  BY <1>1, WrittenFits DEF AllRotated
<1>3. CASE iCur < Len(batch)
  <2>1. phase' = "apply" /\ UNCHANGED <<batch, plan, copies, doShift>>
    BY <1>3 DEF Compute
  <2>2. OwnersInv' /\ QueueInv'
    BY <1>1, <2>1 DEF ContentInv, OwnersInv, QueueInv
  <2>3. ShiftInv'
    BY <1>1, <2>1 DEF ContentInv, ShiftInv, NoShift
  <2>4. KeysInv'
    BY <1>2, <2>1 DEF KeysInv
  <2> QED
    BY <2>2, <2>3, <2>4 DEF ContentInv
<1>4. CASE ~(iCur < Len(batch))
  BY <1>1, <1>2, <1>4, ReturnContent DEF Compute
<1> QED
  BY <1>3, <1>4

\* A graph failed: its cells, whatever they hold, lose their one owner.
LEMMA ComputeFailsContent == IInv /\ IInv' /\ ContentInv /\ ComputeFails => ContentInv'
<1> SUFFICES ASSUME IInv, IInv', ContentInv, ComputeFails PROVE ContentInv'
  OBVIOUS
<1>n. PICK n, u, slots : n = iCur /\ u = batch[n] /\ slots = plan[n].slots
  OBVIOUS
<1>1. /\ phase = "compute" /\ "compute" \in Failures /\ UNCHANGED scInfo /\ Return
      /\ cells' = [st \in Streams |-> IF st \in DOMAIN u THEN RolledBack(cells[st], u[st]) ELSE cells[st]]
  BY <1>n DEF ComputeFails
<1>2. PICK W \in SUBSET CurrentCells : data' = Written(data, u, slots, W)
  BY <1>n DEF ComputeFails
<1>3. /\ FitsOnceWritten /\ n \in 1 .. Len(batch)
      /\ \A c \in Streams \X Idxs :
           c \in PlannedCells(n) <=> c[1] \in DOMAIN u /\ c[2] \in SlotCells(slots[c[1]])
      /\ CurrentCells = PlannedCells(n)
      /\ UbatchOK(u) /\ SlotsFit(u, slots)
  BY <1>n, <1>1, CurrentUbatch DEF ContentInv, KeysInv
<1>4. ASSUME NEW st \in Streams, NEW i \in Idxs PROVE Rotated(cells'[st][i], data'[st][i])
  <2>c. PICK c : c = <<st, i>>
    OBVIOUS
  <2>1. /\ c \in Streams \X Idxs /\ c[1] = st /\ c[2] = i
        /\ cells[st][i] \in Cell /\ CellOK(st, cells[st][i]) /\ cells'[st][i] \in Cell
        /\ data[st][i] \in Content
    BY <2>c, BufsOK DEF IInv, TypeOK
  <2>2. CASE c \in PlannedCells(n)
    <3>j. PICK j : j = CHOOSE l \in DOMAIN slots[st] : slots[st][l] = i
      OBVIOUS
    <3>1. st \in DOMAIN u /\ j \in 1 .. Len(u[st]) /\ TokenAt(n, c) = u[st][j]
      <4>1. st \in DOMAIN u /\ \E k \in DOMAIN slots[st] : slots[st][k] = i
        BY <1>3, <2>1, <2>2 DEF SlotCells
      <4>2. j \in DOMAIN slots[st]
        BY <3>j, <4>1
      <4> QED
        BY <1>n, <1>3, <2>1, <3>j, <4>1, <4>2 DEF TokenAt, SlotsFit
    <3>2. PICK s \in Seqs : u[st][j].seqs = {s}
      BY <1>n, <1>1, <1>3, <3>1 DEF ContentInv, OwnersInv
    <3>3. FirstSeq(u[st][j]) = s
      <4>1. s \in Int
        BY DEF Seqs
      <4> QED
        BY <3>2, <4>1 DEF FirstSeq, Least
    <3>l. PICK lost : lost = {q \in Seqs : \E m \in 1 .. Len(u[st]) :
                                FirstSeq(u[st][m]) = q /\ u[st][m].pos <= cells[st][i].pos}
      OBVIOUS
    <3>4. cells'[st][i] = DropSeqs(cells[st][i], lost)
      BY <1>1, <2>1, <3>1, <3>l DEF RolledBack
    <3>5. cells[st][i].seqs \subseteq lost
      <4>1. CASE IsEmpty(cells[st][i])
        BY <2>1, <4>1 DEF CellOK
      <4>2. CASE ~IsEmpty(cells[st][i])
        <5>1. cells[st][i].pos = u[st][j].pos /\ cells[st][i].seqs \subseteq {s}
          BY <1>n, <1>3, <2>1, <2>2, <3>1, <3>2, <4>2 DEF FitsOnceWritten
        <5>2. cells[st][i].pos \in Int
          BY <2>1, CellNumbers
        <5>3. s \in lost
          BY <3>1, <3>3, <3>l, <5>1, <5>2
        <5> QED
          BY <5>1, <5>3
      <4> QED
        BY <4>1, <4>2
    <3>6. IsEmpty(cells'[st][i])
      BY <2>1, <3>4, <3>5, DropSeqsFollows
    <3> QED
      BY <3>6 DEF Rotated
  <2>3. CASE c \notin PlannedCells(n)
    <3>1. c \notin W
      BY <1>3, <2>3
    <3>2. data'[st][i] = data[st][i]
      BY <1>2, <2>c, <3>1 DEF Written
    <3>3. Rotated(cells[st][i], data[st][i])
      BY <1>n, <1>3, <2>1, <2>3 DEF FitsOnceWritten
    <3>4. Follows(cells[st][i], cells'[st][i])
      <4>1. CASE st \in DOMAIN u
        <5>1. \E S : cells'[st][i] = DropSeqs(cells[st][i], S)
          BY <1>1, <4>1 DEF RolledBack
        <5> QED
          BY <2>1, <5>1, DropSeqsFollows
      <4>2. CASE st \notin DOMAIN u
        <5>1. cells'[st][i] = cells[st][i]
          BY <1>1, <4>2
        <5> QED
          BY <5>1 DEF Follows
      <4> QED
        BY <4>1, <4>2
    <3> QED
      BY <2>1, <3>2, <3>3, <3>4, RotatedFollows
  <2> QED
    BY <2>2, <2>3
<1>5. AllRotated(data)'
  BY <1>4 DEF AllRotated
<1> QED
  BY <1>1, <1>5, ReturnContent

(***************************************************************************)
(* The theorem.                                                             *)
(***************************************************************************)
LEMMA ContentBegins == Init => ContentInv
<1> SUFFICES ASSUME Init PROVE ContentInv
  OBVIOUS
<1>1. /\ phase = "idle" /\ batch = <<>> /\ plan = <<>> /\ copies = <<>> /\ scInfo = <<>>
      /\ cells = NoCells /\ data = NoBufs
  BY DEF Init
<1>2. data \in Bufs
  BY <1>1, NoCellsOK DEF Bufs
<1>3. AllRotated(data)
  BY <1>1 DEF AllRotated, Rotated, NoCells, IsEmpty, EmptyCell
<1>4. KeysFollow(scInfo)
  BY <1>1, <1>2, <1>3, NothingQueued
<1>5. OwnersInv /\ QueueInv /\ ShiftInv /\ KeysInv
  BY <1>1, <1>4 DEF OwnersInv, QueueInv, ShiftInv, KeysInv
<1> QED
  BY <1>5 DEF ContentInv

LEMMA ContentKeeps ==
  ASSUME "shift" \notin Failures, \A b \in Batches : OneOwner(b),
         IInv, IInv', ContentInv, [Next]_vars
  PROVE  ContentInv'
<1>1. ASSUME NEW b \in Batches, NEW tok \in Toks, DecodeBegin(b, tok) PROVE ContentInv'
  BY <1>1, DecodeBeginContent
<1>2. CASE Update
  BY <1>2, UpdateCopyContent, UpdateShiftContent, UpdateNothingContent DEF Update, UpdateShiftFails
<1>3. CASE Prepare
  BY <1>3, PrepareUbatchContent, PrepareEndsContent, RestoreUbatchContent DEF Prepare
<1>4. CASE Process
  BY <1>4, ApplyContent, ComputeContent, ComputeFailsContent DEF Process
<1>5. CASE UNCHANGED vars
  <2>1. UNCHANGED <<phase, batch, plan, copies, doShift, iCur, scInfo, cells, data>>
    BY <1>5 DEF vars, callVars
  <2>2. OwnersInv' /\ QueueInv' /\ ShiftInv'
    BY <2>1 DEF ContentInv, OwnersInv, QueueInv, ShiftInv, NoShift
  <2>3. /\ KeysFollow(scInfo) => KeysFollow(scInfo)'
        /\ KeysFollow(copies) => KeysFollow(copies)'
        /\ AllRotated(data) => AllRotated(data)'
    BY <2>1 DEF KeysFollow, AfterCopies, AllRotated
  <2>4. \A m : Covered(m)' = Covered(m)
    BY <2>1 DEF Covered, PlannedCells
  <2>5. FitsBeside(Len(plan)) => FitsBeside(Len(plan))'
    BY <2>1, <2>4 DEF FitsBeside
  <2>6. FitsBeside(iCur) => FitsBeside(iCur)'
    BY <2>1, <2>4 DEF FitsBeside
  <2>7. FitsOnceWritten => FitsOnceWritten'
    <3>1. PlannedCells(iCur)' = PlannedCells(iCur) /\ \A c : TokenAt(iCur, c)' = TokenAt(iCur, c)
      BY <2>1 DEF PlannedCells, TokenAt
    <3> QED
      BY <2>1, <3>1 DEF FitsOnceWritten
  <2>8. KeysInv'
    BY <2>1, <2>3, <2>5, <2>6, <2>7 DEF ContentInv, KeysInv
  <2> QED
    BY <2>2, <2>8 DEF ContentInv
<1> QED
  BY <1>1, <1>2, <1>3, <1>4, <1>5, OperateContent, OutcomeContent DEF Next, Decode

\* When a graph runs, every cell its sequences own holds a K rotated to the position the mask
\* uses, for every client and every sequence of calls, stream copies, shifts, refused batches
\* and failed graphs - provided that the K-shift graph does not fail, and that no graph fails
\* on a token of several sequences (the rollback removes it from the first of them only).
THEOREM KeysRotated ==
  ASSUME "shift" \notin Failures, \A b \in Batches : OneOwner(b)
  PROVE  Spec => []AttendedKeysRotated
<1>1. IInv /\ IInv' /\ ContentInv /\ [Next]_vars => ContentInv'
  BY ContentKeeps
<1>2. IInv /\ ContentInv => AttendedKeysRotated
  <2> SUFFICES ASSUME IInv, ContentInv, phase = "compute",
                      NEW st \in DOMAIN batch[iCur], NEW i \in Idxs,
                      ~IsEmpty(cells[st][i]), <<st, i>> \notin CurrentCells
               PROVE  data[st][i].rot = cells[st][i].pos
    BY DEF AttendedKeysRotated
  <2>1. st \in Streams /\ <<st, i>> \notin PlannedCells(iCur)
    BY CurrentUbatch DEF UbatchOK
  <2>2. Rotated(cells[st][i], data[st][i])
    <3>1. <<st, i>> \in Streams \X Idxs /\ <<st, i>>[1] = st /\ <<st, i>>[2] = i
      BY <2>1
    <3> QED
      BY <2>1, <3>1 DEF ContentInv, KeysInv, FitsOnceWritten
  <2>3. cells[st][i].shift = 0 /\ data[st][i].rot \in Int
    BY <2>1, BufsOK DEF ContentInv, ShiftInv, NoShift, Content
  <2> QED
    BY <2>2, <2>3 DEF Rotated
<1> QED
  BY ContentBegins, Invariance, <1>1, <1>2, PTL DEF Spec

(***************************************************************************)
(* The shadow.  Neither the K-shift nor a copy between streams is made in   *)
(* the shadow (UpdateShift and UpdateCopy move the primary buffers only), so *)
(* it agrees with them for a client that asks for neither.                  *)
(***************************************************************************)
SteadyClient ==
  /\ "seq_add" \notin ClientOps /\ "seq_div" \notin ClientOps
  /\ Unified \/ "seq_cp" \notin ClientOps

\* No shift is ever pending and no copy is ever queued; both buffers are written alike.
ShadowInv ==
  /\ HasShadow => shadow = data
  /\ NoShift /\ scInfo = <<>> /\ copies = <<>> /\ ~doShift
  /\ \A k \in 1 .. Len(plan) : \A st \in DOMAIN batch[k] : \A j \in 1 .. Len(batch[k][st]) :
       plan[k].old[st][j].shift = 0

\* A client operation that frees cells or changes their owners.
LEMMA ClientShadow ==
  ASSUME IInv, ShadowInv, phase = "idle", UNCHANGED <<callVars, scInfo, bufVars>>,
         \A st \in Streams : \A i \in Idxs : cells'[st][i].shift \in {0, cells[st][i].shift}
  PROVE  ShadowInv'
<1>1. plan' = <<>> /\ UNCHANGED <<copies, doShift, scInfo, data, shadow>>
  BY DEF callVars, bufVars, IInv, CallOK
<1> QED
  BY <1>1 DEF ShadowInv, NoShift

LEMMA OperateShadow ==
  ASSUME SteadyClient, IInv, ShadowInv, Operate
  PROVE  ShadowInv'
<1>0. \A st \in Streams : \A i \in Idxs : cells[st][i] \in Cell /\ cells[st][i].shift = 0
  BY BufsOK DEF ShadowInv, NoShift
<1>c. cells \in [Streams -> [Idxs -> Cell]] /\ \A s \in Seqs : SeqToStream(s) \in Streams
  BY StreamOfSeq DEF IInv, TypeOK
<1>d. ASSUME NEW st \in Streams, NEW i \in Idxs, NEW S PROVE DropSeqs(cells[st][i], S).shift = 0
  BY <1>0, DropSeqsFollows
<1>1. ASSUME NEW s \in Seqs, NEW r \in Ranges, SeqRm(s, r[1], r[2]) PROVE ShadowInv'
  <2>1. ASSUME NEW st \in Streams, NEW i \in Idxs PROVE cells'[st][i].shift = 0
    <3>1. \/ cells'[st][i] = cells[st][i]
          \/ cells'[st][i] = DropSeqs(cells[st][i], {s})
      BY <1>c, <1>1 DEF SeqRm, SetRow, RemovedRow
    <3> QED
      BY <1>0, <1>d, <3>1
  <2> QED
    BY <1>1, <2>1, ClientShadow DEF SeqRm, Client
<1>2. ASSUME NEW r \in Ranges, SeqRmAny(r[1], r[2]) PROVE ShadowInv'
  <2>1. ASSUME NEW st \in Streams, NEW i \in Idxs PROVE cells'[st][i].shift = 0
    <3>1. \/ cells'[st][i] = cells[st][i]
          \/ cells'[st][i] = DropSeqs(cells[st][i], Seqs)
      BY <1>2 DEF SeqRmAny, RemovedRow
    <3> QED
      BY <1>0, <1>d, <3>1
  <2> QED
    BY <1>2, <2>1, ClientShadow DEF SeqRmAny, Client
<1>3. ASSUME NEW s \in Seqs, NEW d \in Seqs, NEW r \in Ranges, SeqCpShared(s, d, r[1], r[2])
      PROVE  ShadowInv'
  <2>1. ASSUME NEW st \in Streams, NEW i \in Idxs PROVE cells'[st][i].shift = 0
    <3>1. \/ cells'[st][i] = cells[st][i]
          \/ cells'[st][i] = [cells[st][i] EXCEPT !.seqs = @ \cup {d}]
      BY <1>c, <1>3 DEF SeqCpShared, SharedRow
    <3>2. \A S : [cells[st][i] EXCEPT !.seqs = S].shift = cells[st][i].shift
      BY <1>0 DEF Cell
    <3> QED
      BY <1>0, <3>1, <3>2
  <2> QED
    BY <1>3, <2>1, ClientShadow DEF SeqCpShared, Client
<1>4. ASSUME NEW s \in Seqs, NEW d \in Seqs, NEW r \in Ranges, SeqCpStream(s, d, r[1], r[2])
      PROVE  ShadowInv'
  BY <1>4, ShapeAssumption DEF SteadyClient, SeqCpStream, Client, SeqToStream
<1>5. ASSUME NEW s \in Seqs, SeqKeep(s) PROVE ShadowInv'
  <2>1. ASSUME NEW st \in Streams, NEW i \in Idxs PROVE cells'[st][i].shift = 0
    <3>1. \/ cells'[st][i] = cells[st][i]
          \/ cells'[st][i] = [cells[st][i] EXCEPT !.seqs = {s}]
          \/ cells'[st][i] = EmptyCell
      BY <1>c, <1>5 DEF SeqKeep, KeptCells, KeepOnly
    <3>2. [cells[st][i] EXCEPT !.seqs = {s}].shift = cells[st][i].shift
      BY <1>0 DEF Cell
    <3>3. EmptyCell.shift = 0
      BY DEF EmptyCell
    <3> QED
      BY <1>0, <3>1, <3>2, <3>3
  <2> QED
    BY <1>5, <2>1, ClientShadow DEF SeqKeep, Client
<1>6. ASSUME NEW s \in Seqs, NEW r \in Ranges, NEW d \in Deltas, SeqAdd(s, r[1], r[2], d)
      PROVE  ShadowInv'
  BY <1>6 DEF SteadyClient, SeqAdd, Client
<1>7. ASSUME NEW s \in Seqs, NEW r \in Ranges, NEW d \in Divisors, SeqDiv(s, r[1], r[2], d)
      PROVE  ShadowInv'
  BY <1>7 DEF SteadyClient, SeqDiv, Client
<1>8. ASSUME NEW wipe \in BOOLEAN, Clear(wipe) PROVE ShadowInv'
  <2>1. /\ UNCHANGED <<copies, doShift, scInfo>> /\ plan' = <<>> /\ cells' = NoCells
        /\ (data' = NoBufs /\ shadow' = NoBufs) \/ UNCHANGED <<data, shadow>>
    BY <1>8 DEF Clear, Client, callVars, bufVars, IInv, CallOK
  <2>2. NoShift'
    BY <2>1 DEF NoShift, NoCells, EmptyCell
  <2> QED
    BY <2>1, <2>2 DEF ShadowInv
<1> QED
  BY <1>1, <1>2, <1>3, <1>4, <1>5, <1>6, <1>7, <1>8 DEF Operate

LEMMA PrepareShadow == IInv /\ IInv' /\ ShadowInv /\ Prepare => ShadowInv'
<1> SUFFICES ASSUME IInv, IInv', ShadowInv, Prepare PROVE ShadowInv'
  OBVIOUS
<1>1. CASE PrepareUbatch
  <2>n. PICK n : n = Len(plan)
    OBVIOUS
  <2>u. PICK u, slots : u = batch[iCur] /\ slots = FindSlot(u)
    OBVIOUS
  <2>e. PICK entry : entry = [slots |-> slots, heads |-> head,
                              old |-> [st \in DOMAIN u |-> [j \in DOMAIN slots[st] |->
                                         [cells[st][slots[st][j]] EXCEPT !.shift = 0]]]]
    OBVIOUS
  <2>1. /\ iCur = n + 1 /\ IsSequence(plan) /\ iCur <= Len(batch)
        /\ plan' = Append(plan, entry) /\ ApplyUbatch(u, slots) /\ FoundSlot(u)
        /\ UNCHANGED <<scInfo, data, shadow, batch, copies, doShift>>
    BY <1>1, <2>n, <2>u, <2>e DEF IInv, CallOK, PrepareUbatch, bufVars
  <2>2. /\ n \in Nat /\ UbatchOK(u) /\ Len(plan') = n + 1 /\ plan'[n + 1] = entry
        /\ \A k \in 1 .. n : plan'[k] = plan[k]
    <3>1. n \in Nat
      BY <2>n, <2>1, AppendIsSequence
    <3> QED
      BY <2>n, <2>u, <2>1, <3>1, AppendIsSequence DEF IInv, CallOK
  <2>3. SlotsFit(u, slots)
    BY <2>u, <2>1, <2>2, TypeOKMemory, FoundSlots DEF IInv
  <2>4. NoShift'
    BY <2>1, <2>2, <2>3, AppliedCells DEF ShadowInv
  <2>5. ASSUME NEW k \in 1 .. n + 1, NEW st \in DOMAIN batch'[k], NEW j \in 1 .. Len(batch'[k][st])
        PROVE  plan'[k].old[st][j].shift = 0
    <3>1. CASE k = n + 1
      <4>1. st \in DOMAIN u /\ st \in Streams /\ j \in DOMAIN slots[st] /\ slots[st][j] \in Idxs
        BY <2>u, <2>1, <2>2, <2>3, <2>5, <3>1 DEF UbatchOK, SlotsFit
      <4>c. PICK c : c = cells[st][slots[st][j]]
        OBVIOUS
      <4>2. plan'[k].old[st][j] = [c EXCEPT !.shift = 0]
        <5>1. plan'[k] = entry
          BY <2>2, <3>1
        <5>2. entry.old[st][j] = [c EXCEPT !.shift = 0]
          BY <2>e, <4>1, <4>c
        <5> QED
          BY <5>1, <5>2
      <4>3. c \in Cell
        BY <4>1, <4>c, BufsOK
      <4>4. [c EXCEPT !.shift = 0].shift = 0
        BY <4>3 DEF Cell
      <4> QED
        BY <4>2, <4>4
    <3>2. CASE k # n + 1
      <4>1. k \in 1 .. n
        BY <2>2, <3>2
      <4> QED
        BY <2>n, <2>1, <2>2, <2>5, <4>1 DEF ShadowInv
    <3> QED
      BY <3>1, <3>2
  <2> QED
    BY <2>1, <2>2, <2>4, <2>5 DEF ShadowInv
<1>2. CASE PrepareEnds
  BY <1>2 DEF PrepareEnds, memVars, bufVars, ShadowInv, NoShift
<1>3. CASE RestoreUbatch
  <2>n. PICK n, u, p : n = iCur /\ u = batch[n] /\ p = plan[n]
    OBVIOUS
  <2>1. /\ n \in 1 .. Len(plan) /\ UbatchOK(u) /\ PlannedOK(u, p)
        /\ UNCHANGED <<scInfo, data, shadow, batch, plan, copies, doShift>>
    BY <1>3, <2>n, RestoresPlanned
  <2>2. cells' = [st \in Streams |-> IF st \notin DOMAIN u THEN cells[st] ELSE
               [i \in Idxs |-> IF i \in SlotCells(p.slots[st])
                  THEN p.old[st][CHOOSE j \in DOMAIN p.slots[st] : p.slots[st][j] = i]
                  ELSE cells[st][i]]]
    BY <1>3, <2>n DEF RestoreUbatch
  <2>3. ASSUME NEW st \in Streams, NEW i \in Idxs PROVE cells'[st][i].shift = 0
    <3>1. CASE st \in DOMAIN u /\ i \in SlotCells(p.slots[st])
      <4>j. PICK j : j = CHOOSE l \in DOMAIN p.slots[st] : p.slots[st][l] = i
        OBVIOUS
      <4>1. \E k \in DOMAIN p.slots[st] : p.slots[st][k] = i
        BY <3>1 DEF SlotCells
      <4>2. j \in 1 .. Len(u[st])
        BY <2>1, <3>1, <4>j, <4>1 DEF PlannedOK
      <4>3. cells'[st][i] = p.old[st][j]
        BY <2>2, <3>1, <4>j
      <4> QED
        BY <2>n, <2>1, <3>1, <4>2, <4>3 DEF ShadowInv
    <3>2. CASE ~(st \in DOMAIN u /\ i \in SlotCells(p.slots[st]))
      <4>1. cells'[st][i] = cells[st][i]
        BY <2>2, <3>2
      <4> QED
        BY <4>1 DEF ShadowInv, NoShift
    <3> QED
      BY <3>1, <3>2
  <2> QED
    BY <2>1, <2>3 DEF ShadowInv, NoShift
<1> QED
  BY <1>1, <1>2, <1>3 DEF Prepare

LEMMA ProcessShadow == IInv /\ IInv' /\ ShadowInv /\ Process => ShadowInv'
<1> SUFFICES ASSUME IInv, IInv', ShadowInv, Process PROVE ShadowInv'
  OBVIOUS
<1>1. CASE Apply
  <2>1. /\ phase = "apply" /\ ApplyUbatch(batch[iCur], plan[iCur].slots)
        /\ UNCHANGED <<scInfo, data, shadow, batch, plan, copies, doShift>>
    BY <1>1 DEF Apply, bufVars
  <2>2. NoShift'
    BY <2>1, CurrentUbatch, AppliedCells DEF ShadowInv
  <2> QED
    BY <2>1, <2>2 DEF ShadowInv
<1>2. CASE Compute
  <2>1. HasShadow => shadow' = data'
    BY <1>2 DEF Compute, ShadowInv
  <2>2. UNCHANGED <<cells, scInfo>> /\ (Return \/ UNCHANGED <<batch, plan, copies, doShift>>)
    BY <1>2 DEF Compute, memVars
  <2>3. NoShift'
    BY <2>2 DEF ShadowInv, NoShift
  <2>4. CASE Return
    BY <2>1, <2>2, <2>3, <2>4 DEF Return, ShadowInv
  <2>5. CASE UNCHANGED <<batch, plan, copies, doShift>>
    BY <2>1, <2>2, <2>3, <2>5 DEF ShadowInv
  <2> QED
    BY <2>2, <2>4, <2>5
<1>3. CASE ComputeFails
  <2>n. PICK u : u = batch[iCur]
    OBVIOUS
  <2>1. HasShadow => shadow' = data'
    BY <1>3 DEF ComputeFails, ShadowInv
  <2>2. /\ UNCHANGED scInfo /\ Return
        /\ cells' = [st \in Streams |-> IF st \in DOMAIN u THEN RolledBack(cells[st], u[st]) ELSE cells[st]]
    BY <1>3, <2>n DEF ComputeFails
  <2>3. ASSUME NEW st \in Streams, NEW i \in Idxs PROVE cells'[st][i].shift = 0
    <3>1. cells[st][i] \in Cell /\ cells[st][i].shift = 0
      BY BufsOK DEF ShadowInv, NoShift
    <3>2. CASE st \in DOMAIN u
      <4>1. \E S : cells'[st][i] = DropSeqs(cells[st][i], S)
        BY <2>2, <3>2 DEF RolledBack
      <4> QED
        BY <3>1, <4>1, DropSeqsFollows
    <3>3. CASE st \notin DOMAIN u
      <4>1. cells'[st][i] = cells[st][i]
        BY <2>2, <3>3
      <4> QED
        BY <3>1, <4>1
    <3> QED
      BY <3>2, <3>3
  <2> QED
    BY <2>1, <2>2, <2>3 DEF Return, ShadowInv, NoShift
<1> QED
  BY <1>1, <1>2, <1>3 DEF Process

\* A prompt graph finds in the shadow what the primary buffers hold, in every cell it can
\* attend to: for every client that does not shift or divide positions and copies sequences
\* within one stream only, through refused batches and graphs that fail half-way.
THEOREM ShadowAgrees ==
  ASSUME SteadyClient
  PROVE  Spec => []ShadowMirrors
<1>1. Init => ShadowInv
  <2> SUFFICES ASSUME Init PROVE ShadowInv
    OBVIOUS
  <2>1. NoShift
    BY DEF Init, NoShift, NoCells, EmptyCell
  <2> QED
    BY <2>1 DEF Init, ShadowInv
<1>2. IInv /\ IInv' /\ ShadowInv /\ [Next]_vars => ShadowInv'
  <2> SUFFICES ASSUME IInv, IInv', ShadowInv, [Next]_vars PROVE ShadowInv'
    OBVIOUS
  <2>1. ASSUME NEW b \in Batches, NEW tok \in Toks, DecodeBegin(b, tok) PROVE ShadowInv'
    <3>1. /\ copies' = <<>> /\ scInfo' = <<>> /\ plan' = <<>> /\ doShift' = HasShift
          /\ UNCHANGED <<cells, data, shadow>>
      BY <2>1 DEF DecodeBegin, memVars, bufVars, IInv, CallOK, ShadowInv
    <3> QED
      BY <3>1 DEF ShadowInv, HasShift, NoShift
  <2>2. CASE Update
    <3>1. UpdateNothing
      BY <2>2 DEF Update, UpdateCopy, UpdateShift, UpdateShiftFails, ShadowInv
    <3> QED
      BY <3>1 DEF UpdateNothing, memVars, bufVars, ShadowInv, NoShift
  <2>3. CASE Outcome
    <3>1. CASE RetryPrepare
      BY <3>1 DEF RetryPrepare, HasShift, ShadowInv, NoShift
    <3>2. CASE RefuseBatch \/ ReserveFails
      BY <3>2 DEF RefuseBatch, ReserveFails, Return, memVars, bufVars, ShadowInv, NoShift
    <3>3. CASE StartUbatches
      BY <3>3 DEF StartUbatches, memVars, bufVars, ShadowInv, NoShift
    <3> QED
      BY <2>3, <3>1, <3>2, <3>3 DEF Outcome
  <2>4. CASE UNCHANGED vars
    BY <2>4 DEF vars, callVars, ShadowInv, NoShift
  <2> QED
    BY <2>1, <2>2, <2>3, <2>4, OperateShadow, PrepareShadow, ProcessShadow DEF Next, Decode
<1>3. IInv /\ ShadowInv => ShadowMirrors
  <2> SUFFICES ASSUME IInv, ShadowInv PROVE ShadowMirrors
    OBVIOUS
  <2> QED
    BY DEF ShadowInv, ShadowMirrors
<1> QED
  BY Invariance, <1>1, <1>2, <1>3, PTL DEF Spec
==============================================================================
