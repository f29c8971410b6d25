----------------------------- MODULE GraphAllocProofs -----------------------------
(***************************************************************************)
(* Proofs about the allocator, first for any client of ggml_dyn_tallocr:     *)
(* whatever is allocated, given back and handed over, in whatever order, no  *)
(* two tensors share a byte, no byte is free and in use or free twice, and   *)
(* the reserved size reaches to the end of every tensor.  For this the array *)
(* of free blocks is a set of pieces of memory, and tensors may be empty.    *)
(* When none is, the array is sorted too, with gaps between its blocks, and  *)
(* together with the tensors they make up the whole chunk.                   *)
(*                                                                          *)
(* Then for the graph allocator, which is such a client: each of its steps   *)
(* allocates, gives back or hands over one tensor, starts anew, or leaves    *)
(* the plan's memory alone.  So what MemoryExclusive says of any client is   *)
(* true of it.                                                               *)
(*                                                                          *)
(* Last, for the graphs that are placed: each lies inside the buffers, though *)
(* the plan was made for another.  While a graph is walked through its        *)
(* tensors have memory or a call that is left will give them some; what has   *)
(* been planned stays within chunks that only grow; and a graph that needs no *)
(* new plan fits what the plan remembers.                                     *)
(***************************************************************************)
EXTENDS GraphAlloc, SequenceTheorems, FiniteSetTheorems, WellFoundedInduction, TLAPS

Piece(p) == p.offset \in Nat /\ p.size \in Nat
Misses(free, p) == \A i \in 1 .. Len(free) : Apart(free[i], p)
FreeOK(free) ==
  /\ free \in Seq(BlockType)
  /\ \A i, j \in 1 .. Len(free) : i # j => Apart(free[i], free[j])

ChunkType == [free : Seq(BlockType), max : Nat]

LEMMA ApartSym == ASSUME NEW p, NEW q, Piece(p), Piece(q), Apart(p, q) PROVE Apart(q, p)
BY DEF Apart, End, Piece

\* Two pieces that touch are apart from a third one together when each of them is.
LEMMA JoinApart ==
  ASSUME NEW p, NEW q, NEW r, Piece(p), Piece(q), Piece(r), End(p) = q.offset,
         Apart(p, r), Apart(q, r)
  PROVE  Apart(Block(p.offset, p.size + q.size), r)
BY DEF Apart, End, Block, Piece

\* A part of a piece is apart from whatever the piece is apart from.
LEMMA PartApart ==
  ASSUME NEW p, NEW r, Piece(p), Piece(r), Apart(p, r), NEW n \in 0 .. p.size
  PROVE  /\ Apart(Block(p.offset, n), r)
         /\ Apart(Block(p.offset + n, p.size - n), r)
         /\ Apart(Block(p.offset, n), Block(p.offset + n, p.size - n))
BY DEF Apart, End, Block, Piece

LEMMA BlockProps ==
  ASSUME NEW a \in Nat, NEW n \in Nat
  PROVE  /\ Block(a, n) \in BlockType
         /\ Block(a, n).offset = a /\ Block(a, n).size = n /\ Piece(Block(a, n))
BY DEF Block, BlockType, Piece

LEMMA BlockPiece ==
  ASSUME NEW b \in BlockType
  PROVE  b.offset \in Nat /\ b.size \in Nat /\ Piece(b)
BY DEF Block, BlockType, Piece

LEMMA FreePiece ==
  ASSUME NEW free \in Seq(BlockType), NEW i \in 1 .. Len(free)
  PROVE  free[i] \in BlockType /\ free[i].offset \in Nat /\ free[i].size \in Nat /\ Piece(free[i])
<1>1. free[i] \in BlockType
  OBVIOUS
<1>2. QED
  BY <1>1, BlockPiece

(***************************************************************************)
(* The array of free blocks.                                                *)
(***************************************************************************)
LEMMA Removed ==
  ASSUME NEW free \in Seq(BlockType), NEW i \in 1 .. Len(free)
  PROVE  /\ RemoveBlock(free, i) \in Seq(BlockType)
         /\ Len(RemoveBlock(free, i)) = Len(free) - 1
         /\ \A k \in 1 .. Len(free) - 1 :
              RemoveBlock(free, i)[k] = IF k < i THEN free[k] ELSE free[k + 1]
<1> DEFINE n == Len(free) - 1
           removed == [k \in 1 .. n |-> IF k < i THEN free[k] ELSE free[k + 1]]
<1>1. n \in Nat
  OBVIOUS
<1>2. removed \in [1 .. n -> BlockType]
  <2>1. \A k \in 1 .. n : k \in 1 .. Len(free) /\ k + 1 \in 1 .. Len(free)
    OBVIOUS
  <2> QED
    BY <2>1, FreePiece
<1>3. removed \in Seq(BlockType) /\ Len(removed) = n
  BY <1>1, <1>2
<1> QED
  BY <1>3 DEF RemoveBlock

LEMMA RemovedOK ==
  ASSUME NEW free, FreeOK(free), NEW i \in 1 .. Len(free)
  PROVE  /\ FreeOK(RemoveBlock(free, i))
         /\ \A q : Misses(free, q) => Misses(RemoveBlock(free, i), q)
<1> DEFINE removed == RemoveBlock(free, i)
           from(k) == IF k < i THEN k ELSE k + 1
<1>1. removed \in Seq(BlockType) /\ Len(removed) = Len(free) - 1
  BY Removed DEF FreeOK
<1>2. \A k \in 1 .. Len(removed) : from(k) \in 1 .. Len(free) /\ removed[k] = free[from(k)]
  <2>1. Len(free) \in Nat /\ \A k \in 1 .. Len(free) - 1 : removed[k] = IF k < i THEN free[k] ELSE free[k + 1]
    BY Removed DEF FreeOK
  <2> QED
    BY <1>1, <2>1
<1>3. \A k, l \in 1 .. Len(removed) : k # l => from(k) # from(l)
  BY <1>1
<1>4. \A k, l \in 1 .. Len(removed) : k # l => Apart(removed[k], removed[l])
  BY <1>2, <1>3 DEF FreeOK
<1>5. ASSUME NEW q, Misses(free, q) PROVE Misses(removed, q)
  BY <1>2, <1>5 DEF Misses
<1> QED
  BY <1>1, <1>4, <1>5 DEF FreeOK

LEMMA Changed ==
  ASSUME NEW free, FreeOK(free), NEW i \in 1 .. Len(free), NEW b \in BlockType,
         \A j \in 1 .. Len(free) : j # i => Apart(b, free[j])
  PROVE  /\ FreeOK([free EXCEPT ![i] = b])
         /\ Len([free EXCEPT ![i] = b]) = Len(free)
         /\ \A q : Misses(free, q) /\ Apart(b, q) => Misses([free EXCEPT ![i] = b], q)
<1> DEFINE changed == [free EXCEPT ![i] = b]
<1>1. changed \in Seq(BlockType) /\ Len(changed) = Len(free)
  BY DEF FreeOK
<1>2. \A j \in 1 .. Len(free) : changed[j] = IF j = i THEN b ELSE free[j]
  BY DEF FreeOK
<1>3. ASSUME NEW j \in 1 .. Len(free), NEW k \in 1 .. Len(free), j # k
      PROVE  Apart(changed[j], changed[k])
  <2>1. CASE j = i
    BY <1>2, <1>3, <2>1
  <2>2. CASE k = i
    <3>1. Apart(b, free[j])
      BY <1>3, <2>2
    <3>2. Apart(free[j], b)
      BY <3>1, ApartSym, BlockPiece, FreePiece DEF FreeOK
    <3> QED
      BY <1>2, <1>3, <2>2, <3>2
  <2>3. CASE j # i /\ k # i
    BY <1>2, <1>3, <2>3 DEF FreeOK
  <2> QED
    BY <2>1, <2>2, <2>3
<1>4. ASSUME NEW q, Misses(free, q), Apart(b, q) PROVE Misses(changed, q)
  BY <1>1, <1>2, <1>4 DEF Misses
<1> QED
  BY <1>1, <1>3, <1>4 DEF FreeOK

LEMMA InsertedOK ==
  ASSUME NEW free, FreeOK(free), NEW pos \in 1 .. Len(free) + 1, NEW b \in BlockType, Misses(free, b)
  PROVE  /\ FreeOK(InsertBlock(free, pos, b))
         /\ \A q : Misses(free, q) /\ Apart(b, q) => Misses(InsertBlock(free, pos, b), q)
<1> DEFINE n == Len(free) + 1
           inserted == [k \in 1 .. n |->
                          IF k < pos THEN free[k] ELSE IF k = pos THEN b ELSE free[k - 1]]
           from(k) == IF k < pos THEN k ELSE k - 1
<1>1. n \in Nat
  BY DEF FreeOK
<1>2. \A k \in 1 .. n : k # pos => from(k) \in 1 .. Len(free) /\ inserted[k] = free[from(k)]
  BY DEF FreeOK
<1>3. inserted[pos] = b
  BY DEF FreeOK
<1>4. inserted \in [1 .. n -> BlockType]
  BY <1>2, <1>3, FreePiece DEF FreeOK
<1>5. inserted \in Seq(BlockType) /\ Len(inserted) = n
  BY <1>1, <1>4
<1>6. ASSUME NEW k \in 1 .. n, NEW l \in 1 .. n, k # l PROVE Apart(inserted[k], inserted[l])
  <2>1. CASE k # pos /\ l # pos
    <3>1. from(k) # from(l)
      BY <1>6, <2>1, <1>1
    <3> QED
      BY <1>2, <2>1, <3>1 DEF FreeOK
  <2>2. CASE l = pos
    BY <1>2, <1>3, <1>6, <2>2 DEF Misses
  <2>3. CASE k = pos
    <3>1. inserted[l] \in BlockType /\ Apart(inserted[l], b)
      BY <1>2, <1>4, <1>6, <2>3 DEF Misses
    <3> QED
      BY <1>3, <2>3, <3>1, ApartSym, BlockPiece
  <2> QED
    BY <2>1, <2>2, <2>3
<1>7. ASSUME NEW q, Misses(free, q), Apart(b, q) PROVE Misses(inserted, q)
  BY <1>2, <1>3, <1>5, <1>7 DEF Misses
<1> QED
  BY <1>5, <1>6, <1>7 DEF InsertBlock, FreeOK

LEMMA MergedOK ==
  ASSUME NEW free, FreeOK(free), NEW i \in 1 .. Len(free), i < Len(free),
         End(free[i]) = free[i + 1].offset
  PROVE  /\ FreeOK(MergeNext(free, i))
         /\ \A q : Piece(q) /\ Misses(free, q) => Misses(MergeNext(free, i), q)
<1> DEFINE b == Block(free[i].offset, free[i].size + free[i + 1].size)
           short == RemoveBlock(free, i + 1)
<1>0. free \in Seq(BlockType) /\ Len(free) \in Nat /\ i + 1 \in 1 .. Len(free)
  BY DEF FreeOK
<1>1. /\ FreeOK(short) /\ Len(short) = Len(free) - 1
      /\ \A q : Misses(free, q) => Misses(short, q)
  BY <1>0, Removed, RemovedOK
<1>2. \A k \in 1 .. Len(short) : short[k] = IF k < i + 1 THEN free[k] ELSE free[k + 1]
  BY <1>0, <1>1, Removed
<1>3. Piece(free[i]) /\ Piece(free[i + 1]) /\ b \in BlockType
  BY <1>0, FreePiece, BlockProps DEF Piece
<1>4. i \in 1 .. Len(short)
  BY <1>0, <1>1
<1>5. \A q : Piece(q) /\ Misses(free, q) => Apart(b, q)
  BY <1>0, <1>3, JoinApart DEF Misses
<1>6. ASSUME NEW j \in 1 .. Len(short), j # i PROVE Apart(b, short[j])
  <2>1. PICK k \in 1 .. Len(free) : k # i /\ k # i + 1 /\ short[j] = free[k]
    <3>1. CASE j < i
      BY <1>0, <1>1, <1>2, <3>1
    <3>2. CASE j > i
      <4>1. j + 1 \in 1 .. Len(free) /\ j + 1 # i /\ j + 1 # i + 1 /\ short[j] = free[j + 1]
        BY <1>0, <1>1, <1>2, <3>2
      <4> QED
        BY <4>1
    <3> QED
      BY <1>6, <3>1, <3>2, <1>0
  <2>2. Apart(free[i], free[k]) /\ Apart(free[i + 1], free[k])
    BY <1>0, <2>1 DEF FreeOK
  <2> QED
    BY <1>0, <1>3, <2>1, <2>2, JoinApart, FreePiece
<1>7. MergeNext(free, i) = [short EXCEPT ![i] = b]
  <2> DEFINE grown == [free EXCEPT ![i] = b]
  <2>1. grown \in Seq(BlockType) /\ Len(grown) = Len(free)
        /\ \A k \in 1 .. Len(free) : grown[k] = IF k = i THEN b ELSE free[k]
    BY <1>0, <1>3
  <2>2. RemoveBlock(grown, i + 1) \in Seq(BlockType) /\ Len(RemoveBlock(grown, i + 1)) = Len(short)
        /\ \A k \in 1 .. Len(short) :
             RemoveBlock(grown, i + 1)[k] = IF k < i + 1 THEN grown[k] ELSE grown[k + 1]
    <3> HIDE DEF grown, b, short
    <3>1. i + 1 \in 1 .. Len(grown)
      BY <1>0, <2>1
    <3>2. Len(short) = Len(grown) - 1
      BY <1>1, <2>1
    <3> QED
      BY <2>1, <3>1, <3>2, Removed
  <2>3. [short EXCEPT ![i] = b] \in Seq(BlockType) /\ Len([short EXCEPT ![i] = b]) = Len(short)
        /\ \A k \in 1 .. Len(short) : [short EXCEPT ![i] = b][k] = IF k = i THEN b ELSE short[k]
    BY <1>1, <1>3 DEF FreeOK
  <2>4. \A k \in 1 .. Len(short) : RemoveBlock(grown, i + 1)[k] = [short EXCEPT ![i] = b][k]
    <3>1. \A k \in 1 .. Len(short) : k \in 1 .. Len(free) /\ k + 1 \in 1 .. Len(free)
      BY <1>0, <1>1
    <3> HIDE DEF grown, short, b
    <3> QED
      BY <1>0, <1>2, <2>1, <2>2, <2>3, <3>1
  <2>5. RemoveBlock(grown, i + 1) = [short EXCEPT ![i] = b]
    <3> HIDE DEF grown, short, b
    <3> QED
      BY <2>2, <2>3, <2>4, SeqEqual
  <2> QED
    BY <2>5 DEF MergeNext
<1> HIDE DEF b, short
<1>8. \A j \in 1 .. Len(short) : j # i => Apart(b, short[j])
  BY <1>6
<1>9. /\ FreeOK([short EXCEPT ![i] = b])
      /\ \A q : Misses(short, q) /\ Apart(b, q) => Misses([short EXCEPT ![i] = b], q)
  BY <1>1, <1>3, <1>4, <1>8, Changed
<1>10. FreeOK(MergeNext(free, i))
  BY <1>7, <1>9
<1>11. ASSUME NEW q, Piece(q), Misses(free, q) PROVE Misses(MergeNext(free, i), q)
  <2>1. Misses(short, q)
    BY <1>1, <1>11
  <2>2. Apart(b, q)
    BY <1>5, <1>11
  <2> QED
    BY <1>7, <1>9, <2>1, <2>2
<1> QED
  BY <1>10, <1>11

\* The memory p of a piece that nobody has becomes part of block i, or of its neighbour too.
LEMMA BackOK ==
  ASSUME NEW free, FreeOK(free), NEW i \in 1 .. Len(free), NEW p, Piece(p), Misses(free, p),
         End(free[i]) = p.offset
  PROVE  /\ FreeOK(ExtendBack(free, i, p.size))
         /\ \A q : Piece(q) /\ Misses(free, q) /\ Apart(p, q) => Misses(ExtendBack(free, i, p.size), q)
<1> DEFINE b == Block(free[i].offset, free[i].size + p.size)
           grown == [free EXCEPT ![i] = b]
<1>0. free \in Seq(BlockType) /\ Len(free) \in Nat
  BY DEF FreeOK
<1>1. Piece(free[i]) /\ b \in BlockType
  BY <1>0, FreePiece, BlockProps DEF Piece
<1>2. \A q : Piece(q) /\ Misses(free, q) /\ Apart(p, q) => Apart(b, q)
  BY <1>1, JoinApart DEF Misses
<1>3. ASSUME NEW j \in 1 .. Len(free), j # i PROVE Apart(b, free[j])
  <2>1. Apart(free[i], free[j]) /\ Apart(p, free[j]) /\ Piece(free[j])
    BY <1>0, <1>3, FreePiece, ApartSym DEF FreeOK, Misses
  <2> QED
    BY <1>1, <2>1, JoinApart
<1>4. /\ FreeOK(grown) /\ Len(grown) = Len(free)
      /\ \A q : Misses(free, q) /\ Apart(b, q) => Misses(grown, q)
  BY <1>1, <1>3, Changed
<1>5. CASE i < Len(free) /\ End(grown[i]) = grown[i + 1].offset
  <2>1. ExtendBack(free, i, p.size) = MergeNext(grown, i)
    BY <1>5 DEF ExtendBack
  <2>2. /\ FreeOK(MergeNext(grown, i))
        /\ \A q : Piece(q) /\ Misses(grown, q) => Misses(MergeNext(grown, i), q)
    <3> HIDE DEF grown
    <3> QED
      BY <1>4, <1>5, MergedOK
  <2> HIDE DEF grown, b
  <2> QED
    BY <1>2, <1>4, <2>1, <2>2
<1>6. CASE ~(i < Len(free) /\ End(grown[i]) = grown[i + 1].offset)
  <2>1. ExtendBack(free, i, p.size) = grown
    BY <1>6 DEF ExtendBack
  <2> HIDE DEF grown, b
  <2> QED
    BY <1>2, <1>4, <2>1
<1> QED
  BY <1>5, <1>6

LEMMA FrontOK ==
  ASSUME NEW free, FreeOK(free), NEW i \in 1 .. Len(free), NEW p, Piece(p), Misses(free, p),
         End(p) = free[i].offset
  PROVE  /\ FreeOK(ExtendFront(free, i, p))
         /\ \A q : Piece(q) /\ Misses(free, q) /\ Apart(p, q) => Misses(ExtendFront(free, i, p), q)
<1> DEFINE b == Block(p.offset, free[i].size + p.size)
           grown == [free EXCEPT ![i] = b]
<1>0. free \in Seq(BlockType) /\ Len(free) \in Nat
  BY DEF FreeOK
<1>1. Piece(free[i]) /\ b \in BlockType /\ b = Block(p.offset, p.size + free[i].size)
  BY <1>0, FreePiece, BlockProps DEF Piece
<1>2. \A q : Piece(q) /\ Misses(free, q) /\ Apart(p, q) => Apart(b, q)
  BY <1>1, JoinApart DEF Misses
<1>3. ASSUME NEW j \in 1 .. Len(free), j # i PROVE Apart(b, free[j])
  <2>1. Apart(free[i], free[j]) /\ Apart(p, free[j]) /\ Piece(free[j])
    BY <1>0, <1>3, FreePiece, ApartSym DEF FreeOK, Misses
  <2> QED
    BY <1>1, <2>1, JoinApart
<1>4. /\ FreeOK(grown) /\ Len(grown) = Len(free)
      /\ \A q : Misses(free, q) /\ Apart(b, q) => Misses(grown, q)
  BY <1>1, <1>3, Changed
<1>5. CASE i > 1 /\ End(grown[i - 1]) = p.offset
  <2>1. ExtendFront(free, i, p) = MergeNext(grown, i - 1)
    BY <1>5 DEF ExtendFront
  <2>2. i - 1 \in 1 .. Len(grown) /\ i - 1 < Len(grown) /\ (i - 1) + 1 = i
    BY <1>0, <1>4, <1>5
  <2>3. grown[i] = b /\ b.offset = p.offset
    BY <1>0, <1>1, BlockProps DEF Block
  <2>4. /\ FreeOK(MergeNext(grown, i - 1))
        /\ \A q : Piece(q) /\ Misses(grown, q) => Misses(MergeNext(grown, i - 1), q)
    <3>1. End(grown[i - 1]) = grown[(i - 1) + 1].offset
      BY <1>5, <2>2, <2>3
    <3> HIDE DEF grown
    <3> QED
      BY <1>4, <2>2, <3>1, MergedOK
  <2> HIDE DEF grown, b
  <2> QED
    BY <1>2, <1>4, <2>1, <2>4
<1>6. CASE ~(i > 1 /\ End(grown[i - 1]) = p.offset)
  <2>1. ExtendFront(free, i, p) = grown
    BY <1>6 DEF ExtendFront
  <2> HIDE DEF grown, b
  <2> QED
    BY <1>2, <1>4, <2>1
<1> QED
  BY <1>5, <1>6

(***************************************************************************)
(* The invariant.                                                           *)
(***************************************************************************)
In(q, b, c) == q.buffer = b /\ q.chunk = c

AllocInv ==
  /\ chunks \in [Buffers -> Seq(ChunkType)]
  /\ place = [t \in Tensors |-> place[t]] /\ live \subseteq Tensors
  /\ \A t \in live :
       /\ Piece(place[t]) /\ place[t].buffer \in Buffers
       /\ place[t].chunk \in 1 .. Len(chunks[place[t].buffer])
  /\ LiveApart
  /\ \A b \in Buffers : \A c \in 1 .. Len(chunks[b]) : FreeOK(chunks[b][c].free)
  /\ \A t \in live : Misses(FreeOf(t), place[t])
  /\ Reserved

LEMMA AlignedNat == ASSUME NEW n \in Nat PROVE Aligned(n) \in Nat /\ Aligned(n) >= n
<1>1. Alignment \in Nat \ {0}
  BY AllocAssumption
<1>2. Alignment - (n % Alignment) \in Int
  BY <1>1
<1>3. (Alignment - (n % Alignment)) % Alignment \in Nat
  BY <1>1, <1>2
<1> QED
  BY <1>3 DEF Aligned

LEMMA AllocInvInit == AllocInit => AllocInv
BY DEF AllocInit, AllocInv, LiveApart, Reserved

LEMMA AllocInvImplies == AllocInv => LiveApart /\ FreeIsFree /\ Reserved
<1> SUFFICES ASSUME AllocInv PROVE FreeIsFree
  BY DEF AllocInv
<1>1. ASSUME NEW t \in live, NEW i \in 1 .. Len(FreeOf(t)) PROVE Apart(place[t], FreeOf(t)[i])
  <2>1. Apart(FreeOf(t)[i], place[t]) /\ Piece(place[t])
    BY <1>1 DEF AllocInv, Misses
  <2>2. FreeOf(t) \in Seq(BlockType)
    BY <1>1 DEF AllocInv, FreeOf, FreeOK
  <2> QED
    BY <2>1, <2>2, FreePiece, ApartSym
<1>2. QED
  BY <1>1 DEF FreeIsFree, AllocInv, FreeOK

\* The chunk c of buffer b becomes k, or is new; the tensors of S get memory in it, the others
\* of live' keep theirs, and nothing of all this shares a byte.
ChunkBecomes(b, c, k) ==
  /\ chunks' \in [Buffers -> Seq(ChunkType)]
  /\ c \in 1 .. Len(chunks'[b]) /\ chunks'[b][c] = k
  /\ \A d \in Buffers : \A e \in 1 .. Len(chunks[d]) : e \in 1 .. Len(chunks'[d])
  /\ \A d \in Buffers : \A e \in 1 .. Len(chunks'[d]) :
       (d = b /\ e = c) \/ (e \in 1 .. Len(chunks[d]) /\ chunks'[d][e] = chunks[d][e])
Stay(S, b, c, k) ==
  \A t \in live' \ S :
    /\ t \in live /\ place'[t] = place[t]
    /\ In(place[t], b, c) => Misses(k.free, place[t]) /\ End(place[t]) <= k.max
Come(S, b, c, k) ==
  /\ \A t, u \in S : t = u
  /\ \A t \in live' \cap S :
       /\ Piece(place'[t]) /\ In(place'[t], b, c)
       /\ Misses(k.free, place'[t]) /\ End(place'[t]) <= k.max
       /\ \A u \in live' \ S : In(place[u], b, c) => Apart(place'[t], place[u])

LEMMA ChunkStep ==
  ASSUME AllocInv, NEW b \in Buffers, NEW c, NEW k \in ChunkType, FreeOK(k.free), NEW S,
         ChunkBecomes(b, c, k), Stay(S, b, c, k), Come(S, b, c, k),
         place' = [t \in Tensors |-> place'[t]], live' \subseteq Tensors
  PROVE  AllocInv'
<1> USE DEF ChunkBecomes, Stay, Come
<1>1. ASSUME NEW t \in live'
      PROVE  /\ Piece(place'[t]) /\ place'[t].buffer \in Buffers
             /\ place'[t].chunk \in 1 .. Len(chunks'[place'[t].buffer])
             /\ Misses(chunks'[place'[t].buffer][place'[t].chunk].free, place'[t])
             /\ End(place'[t]) <= chunks'[place'[t].buffer][place'[t].chunk].max
  <2>1. CASE t \in S
    BY <1>1, <2>1 DEF In
  <2>2. CASE t \notin S
    <3>1. /\ t \in live /\ place'[t] = place[t] /\ Piece(place[t]) /\ place[t].buffer \in Buffers
          /\ place[t].chunk \in 1 .. Len(chunks[place[t].buffer])
          /\ Misses(chunks[place[t].buffer][place[t].chunk].free, place[t])
          /\ End(place[t]) <= chunks[place[t].buffer][place[t].chunk].max
      BY <1>1, <2>2 DEF AllocInv, FreeOf, Reserved
    <3>2. CASE In(place[t], b, c)
      BY <1>1, <2>2, <3>1, <3>2 DEF In
    <3>3. CASE ~In(place[t], b, c)
      BY <1>1, <2>2, <3>1, <3>3 DEF In
    <3> QED
      BY <3>2, <3>3
  <2> QED
    BY <2>1, <2>2
<1>2. ASSUME NEW t \in live', NEW u \in live', t # u,
             place'[t].buffer = place'[u].buffer, place'[t].chunk = place'[u].chunk
      PROVE  Apart(place'[t], place'[u])
  <2>1. CASE t \notin S /\ u \notin S
    BY <1>2, <2>1 DEF AllocInv, LiveApart, SameChunk
  <2>2. CASE t \in S
    BY <1>2, <2>2 DEF In
  <2>3. CASE u \in S /\ t \notin S
    <3>1. Apart(place'[u], place'[t])
      BY <1>2, <2>3 DEF In
    <3> QED
      BY <1>1, <3>1, ApartSym
  <2> QED
    BY <2>1, <2>2, <2>3
<1>3. \A d \in Buffers : \A e \in 1 .. Len(chunks'[d]) : FreeOK(chunks'[d][e].free)
  BY DEF AllocInv
<1> QED
  BY <1>1, <1>2, <1>3 DEF AllocInv, LiveApart, SameChunk, FreeOf, Reserved

(***************************************************************************)
(* The steps.                                                               *)
(***************************************************************************)

\* Memory that nothing free shares is given back: what is free afterwards shares a byte only
\* with what had one in common with the memory, or with what was free.
LEMMA FreeBytesOK ==
  ASSUME AllocInv, NEW p, Piece(p), p.buffer \in Buffers,
         p.chunk \in 1 .. Len(chunks[p.buffer]),
         Misses(chunks[p.buffer][p.chunk].free, p), FreeBytes(p)
  PROVE  \E free2 :
           /\ FreeOK(free2)
           /\ \A q : Piece(q) /\ Misses(chunks[p.buffer][p.chunk].free, q) /\ Apart(p, q) => Misses(free2, q)
           /\ chunks' = [chunks EXCEPT ![p.buffer][p.chunk].free = free2]
<1> DEFINE free == chunks[p.buffer][p.chunk].free
           Becomes(free2) == chunks' = [chunks EXCEPT ![p.buffer][p.chunk].free = free2]
           Good(free2) == /\ FreeOK(free2)
                          /\ \A q : Piece(q) /\ Misses(free, q) /\ Apart(p, q) => Misses(free2, q)
<1>1. FreeOK(free) /\ Misses(free, p)
  BY DEF AllocInv
<1>2. ASSUME NEW i \in 1 .. Len(free), End(free[i]) = p.offset,
             Becomes(ExtendBack(free, i, p.size))
      PROVE  \E free2 : Good(free2) /\ Becomes(free2)
  <2>1. Good(ExtendBack(free, i, p.size))
    <3> HIDE DEF free
    <3> QED
      BY <1>1, <1>2, BackOK
  <2> HIDE DEF Good, Becomes
  <2> QED
    BY <1>2, <2>1
<1>3. ASSUME NEW i \in 1 .. Len(free), End(p) = free[i].offset, Becomes(ExtendFront(free, i, p))
      PROVE  \E free2 : Good(free2) /\ Becomes(free2)
  <2>1. Good(ExtendFront(free, i, p))
    <3> HIDE DEF free
    <3> QED
      BY <1>1, <1>3, FrontOK
  <2> HIDE DEF Good, Becomes
  <2> QED
    BY <1>3, <2>1
<1>4. ASSUME NEW pos \in 1 .. Len(free) + 1,
             Becomes(InsertBlock(free, pos, Block(p.offset, p.size)))
      PROVE  \E free2 : Good(free2) /\ Becomes(free2)
  <2>1. /\ Block(p.offset, p.size) \in BlockType /\ Misses(free, Block(p.offset, p.size))
        /\ \A q : Apart(p, q) => Apart(Block(p.offset, p.size), q)
    BY BlockProps DEF Piece, Misses, Apart, End, Block
  <2>2. Good(InsertBlock(free, pos, Block(p.offset, p.size)))
    <3> HIDE DEF free
    <3> QED
      BY <1>1, <2>1, InsertedOK
  <2> HIDE DEF Good, Becomes
  <2> QED
    BY <1>4, <2>2
<1>5. \/ \E i \in 1 .. Len(free) :
            \/ End(free[i]) = p.offset /\ Becomes(ExtendBack(free, i, p.size))
            \/ End(p) = free[i].offset /\ Becomes(ExtendFront(free, i, p))
      \/ \E pos \in 1 .. Len(free) + 1 : Becomes(InsertBlock(free, pos, Block(p.offset, p.size)))
  BY DEF FreeBytes
<1> HIDE DEF free
<1>6. \E free2 : Good(free2) /\ Becomes(free2)
  <2> HIDE DEF Good, Becomes
  <2> QED
    BY <1>2, <1>3, <1>4, <1>5
<1> QED
  BY <1>6 DEF free

\* One chunk becomes k.
LEMMA Replaced ==
  ASSUME chunks \in [Buffers -> Seq(ChunkType)], NEW b \in Buffers,
         NEW c \in 1 .. Len(chunks[b]), NEW k \in ChunkType,
         chunks' = [chunks EXCEPT ![b][c] = k]
  PROVE  ChunkBecomes(b, c, k)
<1> USE DEF ChunkBecomes
<1> DEFINE s == [chunks[b] EXCEPT ![c] = k]
<1>1. /\ s \in Seq(ChunkType) /\ Len(s) = Len(chunks[b])
      /\ \A e \in 1 .. Len(chunks[b]) : s[e] = IF e = c THEN k ELSE chunks[b][e]
  OBVIOUS
<1>2. chunks' = [chunks EXCEPT ![b] = s]
  OBVIOUS
<1> HIDE DEF s
<1>3. chunks' \in [Buffers -> Seq(ChunkType)] /\ \A d \in Buffers : chunks'[d] = IF d = b THEN s ELSE chunks[d]
  BY <1>1, <1>2
<1> QED
  BY <1>1, <1>3

\* A chunk is added.
LEMMA Added ==
  ASSUME chunks \in [Buffers -> Seq(ChunkType)], NEW b \in Buffers, NEW k \in ChunkType,
         chunks' = [chunks EXCEPT ![b] = Append(@, k)], NEW c, c = Len(chunks[b]) + 1
  PROVE  ChunkBecomes(b, c, k)
<1> USE DEF ChunkBecomes
<1> DEFINE s == Append(chunks[b], k)
<1>1. /\ s \in Seq(ChunkType) /\ Len(s) = c /\ s[c] = k
      /\ \A e \in 1 .. Len(chunks[b]) : s[e] = chunks[b][e]
  OBVIOUS
<1> HIDE DEF s
<1>2. chunks' \in [Buffers -> Seq(ChunkType)] /\ \A d \in Buffers : chunks'[d] = IF d = b THEN s ELSE chunks[d]
  BY <1>1 DEF s
<1> QED
  BY <1>1, <1>2

\* The front of a block is taken.
LEMMA TakenOK ==
  ASSUME NEW k \in ChunkType, FreeOK(k.free), NEW i \in 1 .. Len(k.free), NEW n \in Nat,
         k.free[i].size >= n
  PROVE  LET k2 == TakeFrom(k, i, n)
             p == Block(k.free[i].offset, n)
         IN /\ k2 \in ChunkType /\ FreeOK(k2.free)
            /\ k2.max >= k.max /\ End(p) <= k2.max
            /\ Piece(p) /\ Misses(k2.free, p)
            /\ \A q : Piece(q) /\ Misses(k.free, q) => Misses(k2.free, q) /\ Apart(p, q)
<1> DEFINE free == k.free
           p == Block(free[i].offset, n)
           b == Block(free[i].offset + n, free[i].size - n)
           k2 == TakeFrom(k, i, n)
<1>1. /\ free \in Seq(BlockType) /\ Len(free) \in Nat /\ k.max \in Nat
      /\ free[i].offset \in Nat /\ free[i].size \in Nat /\ Piece(free[i])
  BY FreePiece DEF ChunkType, FreeOK
<1>2. /\ p.offset = free[i].offset /\ p.size = n /\ Piece(p)
      /\ b.offset = free[i].offset + n /\ b.size = free[i].size - n /\ b \in BlockType /\ Piece(b)
  <2>1. free[i].offset + n \in Nat /\ free[i].size - n \in Nat
    BY <1>1
  <2> QED
    BY <1>1, <2>1, BlockProps
<1>3. /\ k2.max = Larger(k.max, free[i].offset + n)
      /\ k2.free = IF free[i].size = n THEN RemoveBlock(free, i) ELSE [free EXCEPT ![i] = b]
  BY DEF TakeFrom
<1>4. \A q : Piece(q) /\ Misses(free, q) => Apart(p, q) /\ Apart(b, q)
  <2>1. n \in 0 .. free[i].size
    BY <1>1
  <2>2. SUFFICES ASSUME NEW q, Piece(q), Misses(free, q)
                 PROVE  Apart(p, q) /\ Apart(b, q)
    OBVIOUS
  <2>3. Apart(free[i], q)
    BY <2>2 DEF Misses
  <2> HIDE DEF free
  <2> QED
    BY <1>1, <2>1, <2>2, <2>3, PartApart
<1>5. \A j \in 1 .. Len(free) : j # i => Apart(b, free[j]) /\ Apart(free[j], p)
  <2>1. \A j \in 1 .. Len(free) : Piece(free[j])
    BY <1>1, FreePiece
  <2>2. n \in 0 .. free[i].size
    BY <1>1
  <2>3. ASSUME NEW j \in 1 .. Len(free), j # i
        PROVE  Apart(p, free[j]) /\ Apart(b, free[j])
    <3>1. Apart(free[i], free[j])
      BY <2>3 DEF FreeOK
    <3>2. Piece(free[j])
      BY <2>1, <2>3
    <3> HIDE DEF free
    <3> QED
      BY <1>1, <2>2, <3>1, <3>2, PartApart
  <2> QED
    BY <1>2, <2>1, <2>3, ApartSym
<1>6. Apart(b, p)
  <2>1. End(p) <= b.offset
    BY <1>1, <1>2 DEF End
  <2> QED
    BY <2>1 DEF Apart
<1>7. /\ FreeOK(k2.free) /\ Misses(k2.free, p)
      /\ \A q : Piece(q) /\ Misses(free, q) => Misses(k2.free, q)
  <2>1. CASE free[i].size = n
    <3>1. /\ FreeOK(RemoveBlock(free, i)) /\ \A q : Misses(free, q) => Misses(RemoveBlock(free, i), q)
      BY RemovedOK
    <3>2. Misses(RemoveBlock(free, i), p)
      <4>1. /\ Len(RemoveBlock(free, i)) = Len(free) - 1
            /\ \A j \in 1 .. Len(free) - 1 :
                 RemoveBlock(free, i)[j] = IF j < i THEN free[j] ELSE free[j + 1]
        BY <1>1, Removed
      <4> HIDE DEF free, p
      <4> QED
        BY <1>1, <1>5, <4>1 DEF Misses
    <3> QED
      BY <1>3, <2>1, <3>1, <3>2
  <2>2. CASE free[i].size # n
    <3> DEFINE changed == [free EXCEPT ![i] = b]
    <3>1. /\ FreeOK(changed) /\ Len(changed) = Len(free)
          /\ \A q : Misses(free, q) /\ Apart(b, q) => Misses(changed, q)
      BY <1>2, <1>5, Changed
    <3>2. \A j \in 1 .. Len(free) : changed[j] = IF j = i THEN b ELSE free[j]
      BY <1>1
    <3> HIDE DEF changed, free, p, b
    <3>3. Misses(changed, p)
      BY <1>5, <1>6, <3>1, <3>2 DEF Misses
    <3> QED
      BY <1>3, <1>4, <2>2, <3>1, <3>3 DEF changed
  <2> QED
    BY <2>1, <2>2
<1>8. k2 \in ChunkType /\ k2.max >= k.max /\ End(p) <= k2.max
  <2>1. k2.max \in Nat /\ k2.max >= k.max /\ End(p) <= k2.max
    BY <1>1, <1>2, <1>3 DEF Larger, End
  <2>2. k2.free \in Seq(BlockType)
    BY <1>7 DEF FreeOK
  <2> QED
    BY <2>1, <2>2 DEF ChunkType, TakeFrom
<1> QED
  BY <1>2, <1>4, <1>7, <1>8

LEMMA AllocateKeeps ==
  ASSUME AllocInv, NEW t \in Tensors, NEW b \in Buffers, NEW size \in Nat, Allocate(t, b, size)
  PROVE  AllocInv'
<1> DEFINE n == Aligned(size)
<1>0. n \in Nat /\ chunks \in [Buffers -> Seq(ChunkType)] /\ Len(chunks[b]) \in Nat
  BY AlignedNat DEF AllocInv
<1>1. live' = live \cup {t} /\ t \notin live /\ live' \ {t} = live /\ live' \subseteq Tensors
  BY DEF Allocate, AllocInv
<1>3. \A c : \A a \in Nat :
        place' = [place EXCEPT ![t] = At(b, c, a, n)] =>
          /\ place' = [u \in Tensors |-> place'[u]] /\ place'[t] = At(b, c, a, n)
          /\ \A u \in live : place'[u] = place[u]
  BY <1>1 DEF AllocInv
<1>4. ASSUME NEW c \in 1 .. Len(chunks[b]), NEW i \in 1 .. Len(chunks[b][c].free),
             chunks[b][c].free[i].size >= n,
             chunks' = [chunks EXCEPT ![b][c] = TakeFrom(@, i, n)],
             place' = [place EXCEPT ![t] = At(b, c, chunks[b][c].free[i].offset, n)]
      PROVE  AllocInv'
  <2> DEFINE k == chunks[b][c]
             k2 == TakeFrom(k, i, n)
             a == k.free[i].offset
             p == Block(a, n)
  <2>1. k \in ChunkType /\ FreeOK(k.free) /\ a \in Nat
    <3>1. k \in ChunkType /\ FreeOK(k.free)
      BY <1>0 DEF AllocInv
    <3> QED
      BY <3>1, FreePiece DEF FreeOK
  <2>2. /\ k2 \in ChunkType /\ FreeOK(k2.free) /\ k2.max >= k.max /\ End(p) <= k2.max
        /\ Piece(p) /\ Misses(k2.free, p)
        /\ \A q : Piece(q) /\ Misses(k.free, q) => Misses(k2.free, q) /\ Apart(p, q)
    <3> HIDE DEF k
    <3> QED
      BY <1>0, <1>4, <2>1, TakenOK DEF k
  <2>3. p.offset = a /\ p.size = n
    BY <1>0, <2>1, BlockProps
  <2>4. ASSUME NEW u \in live, In(place[u], b, c)
        PROVE  Piece(place[u]) /\ Misses(k.free, place[u]) /\ End(place[u]) \in Nat /\ End(place[u]) <= k.max
    <3>1. Piece(place[u]) /\ Misses(FreeOf(u), place[u])
      BY DEF AllocInv
    <3>2. End(place[u]) <= chunks[place[u].buffer][place[u].chunk].max
      BY DEF AllocInv, Reserved
    <3>3. FreeOf(u) = k.free /\ chunks[place[u].buffer][place[u].chunk] = k
      BY <2>4 DEF FreeOf, In
    <3>4. End(place[u]) \in Nat
      BY <3>1 DEF End, Piece
    <3> QED
      BY <3>1, <3>2, <3>3, <3>4
  <2>5. /\ Piece(place'[t]) /\ In(place'[t], b, c) /\ Misses(k2.free, place'[t])
        /\ End(place'[t]) <= k2.max /\ \A q : Apart(p, q) => Apart(place'[t], q)
    <3>1. /\ place'[t].offset = p.offset /\ place'[t].size = p.size
          /\ place'[t].buffer = b /\ place'[t].chunk = c
      <4>1. place'[t] = At(b, c, a, n)
        BY <1>3, <1>4, <2>1
      <4> HIDE DEF a, n, p
      <4> QED
        BY <2>3, <4>1 DEF At
    <3> HIDE DEF k2, p
    <3> QED
      BY <2>2, <3>1 DEF Piece, In, Misses, Apart, End
  <2>6. chunks' = [chunks EXCEPT ![b][c] = k2]
    BY <1>0, <1>4
  <2> DEFINE S == {t}
  <2>7. Stay(S, b, c, k2)
    <3>1. k.max \in Nat /\ k2.max \in Nat
      BY <2>1, <2>2 DEF ChunkType
    <3> HIDE DEF k2, k, p
    <3> QED
      BY <1>1, <1>3, <1>4, <2>1, <2>2, <2>4, <3>1 DEF k, Stay
  <2>8. \A u \in live' \ S : In(place[u], b, c) => Apart(place'[t], place[u])
    <3> HIDE DEF k2, k, p
    <3> QED
      BY <1>1, <2>2, <2>4, <2>5
  <2>9. ChunkBecomes(b, c, k2)
    <3> HIDE DEF k2
    <3> QED
      BY <1>0, <2>2, <2>6, Replaced
  <2>10. place' = [u \in Tensors |-> place'[u]]
    BY <1>3, <1>4, <2>1
  <2>11. Come(S, b, c, k2)
    <3> HIDE DEF k2, k, p, a
    <3> QED
      BY <2>5, <2>8 DEF Come
  <2>12. k2 \in ChunkType /\ FreeOK(k2.free)
    BY <2>2
  <2> HIDE DEF k2, k, p, a, S
  <2> QED
    BY <1>1, <2>7, <2>9, <2>10, <2>11, <2>12, ChunkStep
<1>5. ASSUME NewChunk(b, n).free[1].size >= n,
             chunks' = [chunks EXCEPT ![b] = Append(@, TakeFrom(NewChunk(b, n), 1, n))],
             place' = [place EXCEPT ![t] = At(b, Len(chunks[b]) + 1, 0, n)]
      PROVE  AllocInv'
  <2> DEFINE k == NewChunk(b, n)
             k2 == TakeFrom(k, 1, n)
             c == Len(chunks[b]) + 1
             p == Block(k.free[1].offset, n)
  <2>1. /\ k \in ChunkType /\ FreeOK(k.free) /\ Len(k.free) = 1 /\ k.free[1].offset = 0
    <3> DEFINE m == IF Len(chunks[b]) = MaxChunks - 1 THEN Huge ELSE Larger(n, MaxChunkSize)
    <3>1. m \in Nat
      BY <1>0, AllocAssumption DEF Larger
    <3>2. Block(0, m) \in BlockType /\ Block(0, m).offset = 0
      BY <3>1, BlockProps
    <3>3. k = [free |-> <<Block(0, m)>>, max |-> 0]
      BY DEF NewChunk
    <3> HIDE DEF m, k
    <3> QED
      BY <3>2, <3>3 DEF ChunkType, FreeOK
  <2>2. /\ k2 \in ChunkType /\ FreeOK(k2.free) /\ End(p) <= k2.max
        /\ Piece(p) /\ Misses(k2.free, p)
    <3> HIDE DEF k
    <3>1. 1 \in 1 .. Len(k.free) /\ k.free[1].size >= n
      BY <1>5, <2>1 DEF k
    <3> QED
      BY <1>0, <2>1, <3>1, TakenOK
  <2>3. p.offset = 0 /\ p.size = n
    <3> HIDE DEF k, n
    <3> QED
      BY <2>1 DEF Block
  <2>4. \A u \in live : ~In(place[u], b, c)
    <3>1. \A u \in live : place[u].chunk \in 1 .. Len(chunks[place[u].buffer])
      BY DEF AllocInv
    <3> QED
      BY <1>0, <3>1 DEF In
  <2>5. /\ Piece(place'[t]) /\ In(place'[t], b, c) /\ Misses(k2.free, place'[t])
        /\ End(place'[t]) <= k2.max
    <3>1. /\ place'[t].offset = p.offset /\ place'[t].size = p.size
          /\ place'[t].buffer = b /\ place'[t].chunk = c
      <4>1. place'[t] = At(b, c, 0, n)
        BY <1>3, <1>5
      <4> HIDE DEF n, p, c
      <4> QED
        BY <2>3, <4>1 DEF At
    <3> HIDE DEF k2, p
    <3> QED
      BY <2>2, <3>1 DEF Piece, In, Misses, Apart, End
  <2>6. chunks' = [chunks EXCEPT ![b] = Append(@, k2)]
    BY <1>5
  <2> DEFINE S == {t}
  <2>7. ChunkBecomes(b, c, k2)
    <3> HIDE DEF k2
    <3> QED
      BY <1>0, <2>2, <2>6, Added
  <2>8. place' = [u \in Tensors |-> place'[u]] /\ \A u \in live : place'[u] = place[u]
    BY <1>3, <1>5
  <2>9. Stay(S, b, c, k2) /\ Come(S, b, c, k2)
    <3> HIDE DEF k2, k, p, c
    <3> QED
      BY <1>1, <2>4, <2>5, <2>8 DEF Stay, Come
  <2>10. k2 \in ChunkType /\ FreeOK(k2.free)
    BY <2>2
  <2> HIDE DEF k2, k, p, c, S
  <2> QED
    BY <1>1, <2>7, <2>8, <2>9, <2>10, ChunkStep
<1>6. \/ \E c \in 1 .. Len(chunks[b]) : \E i \in 1 .. Len(chunks[b][c].free) :
            /\ chunks[b][c].free[i].size >= n
            /\ chunks' = [chunks EXCEPT ![b][c] = TakeFrom(@, i, n)]
            /\ place' = [place EXCEPT ![t] = At(b, c, chunks[b][c].free[i].offset, n)]
      \/ /\ NewChunk(b, n).free[1].size >= n
         /\ chunks' = [chunks EXCEPT ![b] = Append(@, TakeFrom(NewChunk(b, n), 1, n))]
         /\ place' = [place EXCEPT ![t] = At(b, Len(chunks[b]) + 1, 0, n)]
  BY DEF Allocate, BestInner, BestLast, InnerFit, LastFit
<1> HIDE DEF n
<1> QED
  BY <1>4, <1>5, <1>6

\* What a piece of live memory leaves of the invariant when it is given up.
LEMMA Given ==
  ASSUME AllocInv, NEW t \in live
  PROVE  LET b == place[t].buffer
             c == place[t].chunk
             k == chunks[b][c]
         IN /\ b \in Buffers /\ c \in 1 .. Len(chunks[b]) /\ k \in ChunkType /\ FreeOK(k.free)
            /\ Piece(place[t]) /\ Misses(k.free, place[t]) /\ End(place[t]) <= k.max
            /\ \A u \in live : In(place[u], b, c) =>
                 /\ Piece(place[u]) /\ Misses(k.free, place[u]) /\ End(place[u]) <= k.max
                 /\ u # t => Apart(place[t], place[u])
<1> DEFINE b == place[t].buffer
           c == place[t].chunk
           k == chunks[b][c]
<1>1. b \in Buffers /\ c \in 1 .. Len(chunks[b]) /\ Piece(place[t])
  BY DEF AllocInv
<1>2. k \in ChunkType
  <2>1. chunks[b] \in Seq(ChunkType)
    BY <1>1 DEF AllocInv
  <2> HIDE DEF b, c
  <2> QED
    BY <1>1, <2>1
<1>3. FreeOK(k.free)
  BY <1>1 DEF AllocInv
<1>4. ASSUME NEW u \in live, In(place[u], b, c)
      PROVE  Piece(place[u]) /\ Misses(k.free, place[u]) /\ End(place[u]) <= k.max
  <2>1. Piece(place[u]) /\ Misses(FreeOf(u), place[u])
    BY DEF AllocInv
  <2>2. End(place[u]) <= chunks[place[u].buffer][place[u].chunk].max
    BY DEF AllocInv, Reserved
  <2>3. FreeOf(u) = k.free /\ chunks[place[u].buffer][place[u].chunk] = k
    BY <1>4 DEF FreeOf, In
  <2> QED
    BY <2>1, <2>2, <2>3
<1>5. In(place[t], b, c)
  BY DEF In
<1>6. ASSUME NEW u \in live, In(place[u], b, c), u # t PROVE Apart(place[t], place[u])
  <2>1. SameChunk(t, u)
    BY <1>6 DEF In, SameChunk
  <2> QED
    BY <1>6, <2>1 DEF AllocInv, LiveApart
<1>7. /\ b \in Buffers /\ c \in 1 .. Len(chunks[b]) /\ k \in ChunkType /\ FreeOK(k.free)
      /\ Piece(place[t]) /\ Misses(k.free, place[t]) /\ End(place[t]) <= k.max
      /\ \A u \in live : In(place[u], b, c) =>
           /\ Piece(place[u]) /\ Misses(k.free, place[u]) /\ End(place[u]) <= k.max
           /\ u # t => Apart(place[t], place[u])
  <2> HIDE DEF b, c, k
  <2> QED
    BY <1>1, <1>2, <1>3, <1>4, <1>5, <1>6
<1> QED
  BY <1>7

\* The chunk whose free blocks become free2.
LEMMA FreeChanged ==
  ASSUME chunks \in [Buffers -> Seq(ChunkType)], NEW b \in Buffers, NEW c \in 1 .. Len(chunks[b]),
         NEW free2 \in Seq(BlockType), chunks' = [chunks EXCEPT ![b][c].free = free2]
  PROVE  \E k \in ChunkType :
           /\ k.free = free2 /\ k.max = chunks[b][c].max
           /\ ChunkBecomes(b, c, k)
<1> DEFINE k == [chunks[b][c] EXCEPT !.free = free2]
<1>1. chunks[b][c] \in ChunkType
  OBVIOUS
<1>2. k \in ChunkType /\ k.free = free2 /\ k.max = chunks[b][c].max
  BY <1>1 DEF ChunkType
<1>3. chunks' = [chunks EXCEPT ![b][c] = k]
  OBVIOUS
<1> HIDE DEF k
<1> QED
  BY <1>2, <1>3, Replaced

LEMMA ReleaseKeeps ==
  ASSUME AllocInv, NEW t \in Tensors, Release(t)
  PROVE  AllocInv'
<1> DEFINE b == place[t].buffer
           c == place[t].chunk
           p == place[t]
<1>1. t \in live /\ live' = live \ {t} /\ place' = place /\ FreeBytes(p)
  BY DEF Release
<1>2. /\ b \in Buffers /\ c \in 1 .. Len(chunks[b]) /\ Piece(p) /\ Misses(chunks[b][c].free, p)
      /\ \A u \in live : In(place[u], b, c) =>
           /\ Piece(place[u]) /\ Misses(chunks[b][c].free, place[u]) /\ End(place[u]) <= chunks[b][c].max
           /\ u # t => Apart(p, place[u])
  BY <1>1, Given
<1>3. PICK free2 :
        /\ FreeOK(free2)
        /\ \A q : Piece(q) /\ Misses(chunks[b][c].free, q) /\ Apart(p, q) => Misses(free2, q)
        /\ chunks' = [chunks EXCEPT ![b][c].free = free2]
  BY <1>1, <1>2, FreeBytesOK
<1>4. PICK k \in ChunkType : k.free = free2 /\ k.max = chunks[b][c].max /\ ChunkBecomes(b, c, k)
  BY <1>2, <1>3, FreeChanged DEF AllocInv, FreeOK
<1>5. Stay({}, b, c, k)
  BY <1>1, <1>2, <1>3, <1>4 DEF Stay
<1>6. Come({}, b, c, k)
  BY DEF Come
<1>7. place' = [u \in Tensors |-> place'[u]] /\ live' \subseteq Tensors
  BY <1>1 DEF AllocInv
<1>8. FreeOK(k.free)
  BY <1>3, <1>4
<1> HIDE DEF b, c
<1> QED
  BY <1>2, <1>4, <1>5, <1>6, <1>7, <1>8, ChunkStep

LEMMA TakeOverKeeps ==
  ASSUME AllocInv, NEW t \in Tensors, NEW p \in Tensors, NEW size \in Nat, TakeOver(t, p, size)
  PROVE  AllocInv'
<1> DEFINE n == Aligned(size)
           here == place[p]
           b == here.buffer
           c == here.chunk
           front == At(b, c, here.offset, n)
           rest == At(b, c, here.offset + n, here.size - n)
           S == {t}
<1>1. /\ n \in Nat /\ p \in live /\ t \notin live /\ n <= here.size
      /\ live' = (live \ {p}) \cup {t} /\ live' \subseteq Tensors
  BY AlignedNat DEF TakeOver, AllocInv
<1>2. /\ b \in Buffers /\ c \in 1 .. Len(chunks[b]) /\ chunks[b][c] \in ChunkType
      /\ FreeOK(chunks[b][c].free) /\ Piece(here) /\ Misses(chunks[b][c].free, here)
      /\ End(here) <= chunks[b][c].max
      /\ \A u \in live : In(place[u], b, c) =>
           /\ Piece(place[u]) /\ Misses(chunks[b][c].free, place[u]) /\ End(place[u]) <= chunks[b][c].max
           /\ u # p => Apart(here, place[u])
  BY <1>1, Given
<1>3. /\ place'[t] = front /\ place' = [u \in Tensors |-> place'[u]]
      /\ \A u \in live : place'[u] = place[u]
  BY <1>1 DEF TakeOver, AllocInv
<1>4. /\ Piece(front) /\ In(front, b, c) /\ Piece(rest) /\ In(rest, b, c)
      /\ rest.buffer = b /\ rest.chunk = c
      /\ End(front) <= End(here)
      /\ Apart(front, rest) /\ Apart(rest, front)
      /\ \A q : Piece(q) /\ Apart(here, q) => Apart(front, q) /\ Apart(rest, q)
  <2>1. here.offset \in Nat /\ here.size \in Nat
    BY <1>2 DEF Piece
  <2> HIDE DEF n, here, b, c
  <2> QED
    BY <1>1, <2>1 DEF At, Piece, In, End, Apart
<1>5. /\ Misses(chunks[b][c].free, front) /\ Misses(chunks[b][c].free, rest)
  <2>1. \A i \in 1 .. Len(chunks[b][c].free) : Piece(chunks[b][c].free[i])
    BY <1>2, FreePiece DEF FreeOK
  <2> HIDE DEF here, b, c, front, rest
  <2>2. \A i \in 1 .. Len(chunks[b][c].free) : Apart(here, chunks[b][c].free[i])
    BY <1>2, <2>1, ApartSym DEF Misses
  <2> QED
    BY <1>4, <2>1, <2>2, ApartSym DEF Misses
<1>6. PICK k \in ChunkType :
        /\ FreeOK(k.free) /\ k.max = chunks[b][c].max /\ ChunkBecomes(b, c, k)
        /\ \A q : Piece(q) /\ Misses(chunks[b][c].free, q) /\ Apart(rest, q) => Misses(k.free, q)
  <2>1. CASE n < here.size
    <3>1. FreeBytes(rest)
      BY <2>1 DEF TakeOver
    <3>2. PICK free2 :
            /\ FreeOK(free2)
            /\ \A q : Piece(q) /\ Misses(chunks[b][c].free, q) /\ Apart(rest, q) => Misses(free2, q)
            /\ chunks' = [chunks EXCEPT ![b][c].free = free2]
      <4>1. /\ rest.buffer \in Buffers /\ rest.chunk \in 1 .. Len(chunks[rest.buffer])
            /\ Misses(chunks[rest.buffer][rest.chunk].free, rest)
        <5> HIDE DEF here, b, c, rest
        <5> QED
          BY <1>2, <1>4, <1>5
      <4>2. PICK free2 :
              /\ FreeOK(free2)
              /\ \A q : Piece(q) /\ Misses(chunks[rest.buffer][rest.chunk].free, q) /\ Apart(rest, q)
                       => Misses(free2, q)
              /\ chunks' = [chunks EXCEPT ![rest.buffer][rest.chunk].free = free2]
        <5> HIDE DEF here, b, c, rest
        <5> QED
          BY <1>4, <3>1, <4>1, FreeBytesOK
      <4> HIDE DEF here, b, c, rest
      <4> QED
        BY <1>4, <4>2
    <3>3. PICK k \in ChunkType : k.free = free2 /\ k.max = chunks[b][c].max /\ ChunkBecomes(b, c, k)
      BY <1>2, <3>2, FreeChanged DEF AllocInv, FreeOK
    <3> HIDE DEF here, b, c, rest
    <3> QED
      BY <3>2, <3>3
  <2>2. CASE ~(n < here.size)
    <3>1. chunks' = chunks
      BY <2>2 DEF TakeOver
    <3>2. ChunkBecomes(b, c, chunks[b][c])
      BY <1>2, <3>1 DEF ChunkBecomes, AllocInv
    <3> HIDE DEF here, b, c, rest
    <3> QED
      BY <1>2, <3>2
  <2> QED
    BY <2>1, <2>2
<1>7. Stay(S, b, c, k)
  <2> HIDE DEF here, b, c, rest, front
  <2> QED
    BY <1>1, <1>2, <1>3, <1>4, <1>6 DEF Stay
<1>8. Come(S, b, c, k)
  <2>1. Misses(k.free, front)
    <3> HIDE DEF here, b, c, rest, front
    <3> QED
      BY <1>4, <1>5, <1>6
  <2>2. End(front) <= k.max
    <3>1. End(here) \in Nat /\ End(front) \in Nat /\ k.max \in Nat
      <4> HIDE DEF here, b, c, rest, front
      <4> QED
        <5>1. Piece(here) /\ Piece(front)
          BY <1>2, <1>4
        <5>2. k.max \in Nat
          BY DEF ChunkType
        <5> QED
          BY <5>1, <5>2 DEF Piece, End
    <3> HIDE DEF here, b, c, rest, front
    <3> QED
      BY <1>2, <1>4, <1>6, <3>1
  <2>3. \A u \in live' \ S : In(place[u], b, c) => Apart(front, place[u])
    <3> HIDE DEF here, b, c, rest, front
    <3> QED
      BY <1>1, <1>2, <1>4
  <2> HIDE DEF here, b, c, rest, front
  <2> QED
    BY <1>3, <1>4, <2>1, <2>2, <2>3 DEF Come
<1> HIDE DEF here, b, c, S
<1> QED
  BY <1>1, <1>2, <1>3, <1>6, <1>7, <1>8, ChunkStep

LEMMA ResetKeeps == AllocInv /\ Reset => AllocInv'
BY DEF AllocInv, Reset, LiveApart, Reserved

LEMMA StepKeeps == AllocInv /\ [AllocNext]_allocVars => AllocInv'
<1> SUFFICES ASSUME AllocInv, [AllocNext]_allocVars PROVE AllocInv'
  OBVIOUS
<1>0. Sizes \subseteq Nat
  BY AllocAssumption
<1>1. ASSUME NEW t \in Tensors, NEW b \in Buffers, NEW size \in Sizes, Allocate(t, b, size)
      PROVE  AllocInv'
  BY <1>0, <1>1, AllocateKeeps
<1>2. ASSUME NEW t \in Tensors, Release(t) PROVE AllocInv'
  BY <1>2, ReleaseKeeps
<1>3. ASSUME NEW t \in Tensors, NEW p \in Tensors, NEW size \in Sizes, TakeOver(t, p, size)
      PROVE  AllocInv'
  BY <1>0, <1>3, TakeOverKeeps
<1>4. CASE Reset
  BY <1>4, ResetKeeps
<1>5. CASE UNCHANGED allocVars
  BY <1>5 DEF allocVars, AllocInv, LiveApart, SameChunk, FreeOf, Reserved
<1> QED
  BY <1>1, <1>2, <1>3, <1>4, <1>5 DEF AllocNext

\* However tensors are allocated, given back, handed over and merged with what is free, no two
\* that have memory share a byte, nothing in use is free, nothing is free twice, and the
\* reserved size reaches to every tensor's end: for every alignment, size and number of
\* tensors, with tensors that have no bytes as well.
THEOREM MemoryExclusive == AllocSpec => [](LiveApart /\ FreeIsFree /\ Reserved)
<1>1. AllocInit => AllocInv
  BY AllocInvInit
<1>2. AllocInv /\ [AllocNext]_allocVars => AllocInv'
  BY StepKeeps
<1>3. AllocInv => LiveApart /\ FreeIsFree /\ Reserved
  BY AllocInvImplies
<1> QED
  BY <1>1, <1>2, <1>3, PTL DEF AllocSpec

(***************************************************************************)
(* The order of the free blocks, and what they cover.                       *)
(***************************************************************************)
Within(p, x) == p.offset <= x /\ x < End(p)
Covered(free, x) == \E i \in 1 .. Len(free) : Within(free[i], x)
Below(free, n) == \A i \in 1 .. Len(free) : End(free[i]) <= n

\* No block is empty, and there is a gap between two of them.
Ordered(free) ==
  /\ \A i \in 1 .. Len(free) : free[i].size > 0
  /\ \A i, j \in 1 .. Len(free) : i < j => End(free[i]) < free[j].offset

\* free2 has the bytes of free, and those of p.
Joins(free, p, free2) ==
  /\ Ordered(free2)
  /\ \A x \in Nat : Covered(free, x) \/ Within(p, x) => Covered(free2, x)
  /\ \A n \in Nat : Below(free, n) /\ End(p) <= n => Below(free2, n)

\* Two pieces that neither share a byte nor touch have a gap between them.
LEMMA Gap ==
  ASSUME NEW q, NEW p, Piece(q), Piece(p), q.size > 0, p.size > 0, Apart(q, p), ~Touches(q, p)
  PROVE  /\ End(q) \in Nat /\ End(p) \in Nat /\ q.offset < End(q) /\ p.offset < End(p)
         /\ End(q) < p.offset \/ End(p) < q.offset
<1>1. End(q) \in Nat /\ End(p) \in Nat /\ q.offset < End(q) /\ p.offset < End(p)
  BY DEF End, Piece
<1>2. End(q) <= p.offset \/ End(p) <= q.offset
  BY DEF Apart, Piece
<1>3. End(q) # p.offset /\ End(p) # q.offset
  BY DEF Touches
<1> QED
  BY <1>1, <1>2, <1>3 DEF Piece

LEMMA MergedIs ==
  ASSUME NEW free \in Seq(BlockType), NEW i \in 1 .. Len(free), i < Len(free)
  PROVE  /\ Len(MergeNext(free, i)) = Len(free) - 1
         /\ \A k \in 1 .. Len(free) - 1 :
              MergeNext(free, i)[k] =
                IF k < i THEN free[k]
                ELSE IF k = i THEN Block(free[i].offset, free[i].size + free[i + 1].size) ELSE free[k + 1]
<1> DEFINE b == Block(free[i].offset, free[i].size + free[i + 1].size)
           grown == [free EXCEPT ![i] = b]
<1>1. b \in BlockType /\ Len(free) \in Nat
  <2>1. i + 1 \in 1 .. Len(free)
    OBVIOUS
  <2> QED
    BY <2>1, FreePiece, BlockProps
<1>2. grown \in Seq(BlockType) /\ Len(grown) = Len(free)
      /\ \A k \in 1 .. Len(free) : grown[k] = IF k = i THEN b ELSE free[k]
  BY <1>1
<1>3. MergeNext(free, i) = RemoveBlock(grown, i + 1)
  BY DEF MergeNext
<1> HIDE DEF grown
<1>4. i + 1 \in 1 .. Len(grown)
  BY <1>2
<1>5. /\ Len(RemoveBlock(grown, i + 1)) = Len(grown) - 1
      /\ \A k \in 1 .. Len(grown) - 1 :
           RemoveBlock(grown, i + 1)[k] = IF k < i + 1 THEN grown[k] ELSE grown[k + 1]
  BY <1>2, <1>4, Removed
<1> HIDE DEF b
<1>6. ASSUME NEW k \in 1 .. Len(free) - 1
      PROVE  RemoveBlock(grown, i + 1)[k] = IF k < i THEN free[k] ELSE IF k = i THEN b ELSE free[k + 1]
  <2>1. k \in 1 .. Len(free) /\ k + 1 \in 1 .. Len(free) /\ k \in 1 .. Len(grown) - 1
    BY <1>1, <1>2
  <2> QED
    BY <1>1, <1>2, <1>5, <2>1
<1> QED
  BY <1>2, <1>3, <1>5, <1>6 DEF b

\* A byte of a piece that nobody has joins block i, and the next one when they touch.
LEMMA BackJoins ==
  ASSUME NEW free, FreeOK(free), Ordered(free), NEW i \in 1 .. Len(free), NEW p, Piece(p), p.size > 0,
         Misses(free, p), End(free[i]) = p.offset
  PROVE  Joins(free, p, ExtendBack(free, i, p.size))
<1> DEFINE b == Block(free[i].offset, free[i].size + p.size)
           grown == [free EXCEPT ![i] = b]
<1>0. free \in Seq(BlockType) /\ Len(free) \in Nat /\ p.offset \in Nat /\ p.size \in Nat
  BY DEF FreeOK, Piece
<1>1. \A j \in 1 .. Len(free) : free[j].offset \in Nat /\ free[j].size \in Nat
  BY <1>0, FreePiece
<1>2. b \in BlockType /\ b.offset = free[i].offset /\ b.size = free[i].size + p.size /\ End(b) = End(p)
  <2>1. free[i].size + p.size \in Nat
    BY <1>0, <1>1
  <2>2. b \in BlockType /\ b.offset = free[i].offset /\ b.size = free[i].size + p.size
    BY <1>1, <2>1, BlockProps
  <2> HIDE DEF b
  <2> QED
    BY <1>0, <1>1, <2>2 DEF End
<1>3. grown \in Seq(BlockType) /\ Len(grown) = Len(free)
      /\ \A k \in 1 .. Len(free) : grown[k] = IF k = i THEN b ELSE free[k]
  BY <1>0, <1>2
<1> HIDE DEF b
<1>4. \A j \in 1 .. Len(free) : i < j => End(p) <= free[j].offset
  <2> SUFFICES ASSUME NEW j \in 1 .. Len(free), i < j PROVE End(p) <= free[j].offset
    OBVIOUS
  <2>1. Apart(free[j], p)
    BY DEF Misses
  <2>2. free[j].size > 0 /\ p.offset < free[j].offset
    BY DEF Ordered
  <2>3. free[j].offset \in Nat /\ free[j].size \in Nat
    BY <1>1
  <2> QED
    BY <1>0, <2>1, <2>2, <2>3 DEF Apart, End
<1>5. CASE i < Len(free) /\ End(grown[i]) = grown[i + 1].offset
  <2> DEFINE merged == MergeNext(grown, i)
             m == Block(grown[i].offset, grown[i].size + grown[i + 1].size)
  <2>1. /\ Len(merged) = Len(free) - 1
        /\ \A k \in 1 .. Len(free) - 1 :
             merged[k] = IF k < i THEN grown[k] ELSE IF k = i THEN m ELSE grown[k + 1]
    <3> HIDE DEF grown
    <3> QED
      BY <1>3, <1>5, MergedIs
  <2>2. ExtendBack(free, i, p.size) = merged
    BY <1>5 DEF ExtendBack, b
  <2> HIDE DEF grown, merged
  <2>3. i + 1 \in 1 .. Len(free) /\ grown[i] = b /\ grown[i + 1] = free[i + 1]
    BY <1>0, <1>3, <1>5
  <2>4. /\ m.offset = free[i].offset /\ m.size = free[i].size + p.size + free[i + 1].size
        /\ End(m) = End(free[i + 1]) /\ End(p) = free[i + 1].offset
    <3>1. m.offset = b.offset /\ m.size = b.size + free[i + 1].size
      <4>1. b.offset \in Nat /\ b.size + free[i + 1].size \in Nat
        BY <1>0, <1>1, <1>2, <2>3
      <4> QED
        BY <2>3, <4>1, BlockProps
    <3>2. End(p) = free[i + 1].offset
      BY <1>2, <1>5, <2>3
    <3> HIDE DEF m
    <3> QED
      BY <1>0, <1>1, <1>2, <2>3, <3>1, <3>2 DEF End
  <2> HIDE DEF m
  <2>5. \A k \in 1 .. Len(merged) :
          /\ k < i => merged[k] = free[k] /\ k \in 1 .. Len(free)
          /\ k = i => merged[k] = m
          /\ k > i => merged[k] = free[k + 1] /\ k + 1 \in 1 .. Len(free)
    BY <1>0, <1>3, <2>1
  <2>6. Ordered(merged)
    <3>1. \A k \in 1 .. Len(merged) : merged[k].size > 0
      <4> SUFFICES ASSUME NEW k \in 1 .. Len(merged) PROVE merged[k].size > 0
        OBVIOUS
      <4>1. m.size > 0
        <5>1. free[i].size \in Nat /\ free[i + 1].size \in Nat /\ free[i].size > 0
          BY <1>1, <2>3 DEF Ordered
        <5> QED
          BY <1>0, <2>4, <5>1
      <4>2. CASE k < i
        BY <2>5, <4>2 DEF Ordered
      <4>3. CASE k = i
        BY <2>5, <4>1, <4>3
      <4>4. CASE k > i
        BY <2>5, <4>4 DEF Ordered
      <4> QED
        BY <1>0, <2>1, <4>2, <4>3, <4>4
    <3>2. ASSUME NEW k \in 1 .. Len(merged), NEW l \in 1 .. Len(merged), k < l
          PROVE  End(merged[k]) < merged[l].offset
      <4>1. CASE l < i
        BY <2>5, <3>2, <4>1 DEF Ordered
      <4>2. CASE l = i
        <5>1. merged[k] = free[k] /\ k \in 1 .. Len(free) /\ k < i /\ merged[l] = m
          BY <2>5, <3>2, <4>2
        <5>2. End(free[k]) < free[i].offset
          BY <5>1 DEF Ordered
        <5> QED
          BY <2>4, <5>1, <5>2
      <4>3. CASE l > i /\ k = i
        <5>1. merged[l] = free[l + 1] /\ l + 1 \in 1 .. Len(free) /\ merged[k] = m
          BY <2>5, <4>3
        <5>2. i + 1 < l + 1
          BY <4>3
        <5>3. End(free[i + 1]) < free[l + 1].offset
          BY <2>3, <5>1, <5>2 DEF Ordered
        <5> QED
          BY <2>4, <5>1, <5>3
      <4>4. CASE l > i /\ k < i
        <5>1. k < l + 1
          BY <3>2
        <5> QED
          BY <2>5, <3>2, <4>4, <5>1 DEF Ordered
      <4>5. CASE l > i /\ k > i
        <5>1. k + 1 < l + 1
          BY <3>2
        <5> QED
          BY <2>5, <3>2, <4>5, <5>1 DEF Ordered
      <4> QED
        BY <4>1, <4>2, <4>3, <4>4, <4>5
    <3> QED
      BY <3>1, <3>2 DEF Ordered
  <2>7. i \in 1 .. Len(merged) /\ merged[i] = m
    BY <1>0, <1>5, <2>1
  <2>8. ASSUME NEW x \in Nat, Covered(free, x) \/ Within(p, x) PROVE Covered(merged, x)
    <3>1. CASE Within(p, x) \/ Within(free[i], x) \/ Within(free[i + 1], x)
      <4>1. /\ free[i].offset \in Nat /\ p.offset \in Nat /\ End(p) \in Nat /\ End(free[i + 1]) \in Nat
            /\ free[i].offset <= p.offset /\ p.offset <= End(p) /\ End(p) <= End(free[i + 1])
        <5>1. /\ free[i].offset \in Nat /\ free[i].size \in Nat
              /\ free[i + 1].offset \in Nat /\ free[i + 1].size \in Nat
          BY <1>1, <2>3
        <5>2. p.offset = free[i].offset + free[i].size
          BY DEF End
        <5>3. End(p) = p.offset + p.size /\ End(free[i + 1]) = End(p) + free[i + 1].size
          <6>1. End(free[i + 1]) = free[i + 1].offset + free[i + 1].size
            BY DEF End
          <6> QED
            BY <2>4, <6>1 DEF End
        <5>4. free[i].offset <= p.offset
          BY <5>1, <5>2
        <5>5. End(p) \in Nat /\ p.offset <= End(p)
          BY <1>0, <5>3
        <5>6. End(free[i + 1]) \in Nat /\ End(p) <= End(free[i + 1])
          BY <5>1, <5>3, <5>5
        <5> QED
          BY <1>0, <5>1, <5>4, <5>5, <5>6
      <4>2. CASE Within(p, x)
        <5>1. p.offset <= x /\ x < End(p)
          BY <4>2 DEF Within
        <5>2. free[i].offset <= x /\ x < End(free[i + 1])
          BY <4>1, <5>1
        <5>3. Within(m, x)
          BY <2>4, <5>2 DEF Within
        <5> QED
          BY <2>7, <5>3 DEF Covered
      <4>3. CASE Within(free[i], x)
        <5>1. free[i].offset <= x /\ x < p.offset
          BY <4>3 DEF Within
        <5>2. free[i].offset <= x /\ x < End(free[i + 1])
          BY <4>1, <5>1
        <5>3. Within(m, x)
          BY <2>4, <5>2 DEF Within
        <5> QED
          BY <2>7, <5>3 DEF Covered
      <4>4. CASE Within(free[i + 1], x)
        <5>1. End(p) <= x /\ x < End(free[i + 1])
          BY <2>4, <4>4 DEF Within
        <5>2. free[i].offset <= x /\ x < End(free[i + 1])
          BY <4>1, <5>1
        <5>3. Within(m, x)
          BY <2>4, <5>2 DEF Within
        <5> QED
          BY <2>7, <5>3 DEF Covered
      <4> QED
        BY <3>1, <4>2, <4>3, <4>4
    <3>2. ASSUME NEW j \in 1 .. Len(free), Within(free[j], x), j # i, j # i + 1
          PROVE  Covered(merged, x)
      <4>1. CASE j < i
        <5>1. j \in 1 .. Len(merged)
          BY <1>0, <2>1, <4>1
        <5> QED
          BY <2>5, <3>2, <4>1, <5>1 DEF Covered
      <4>2. CASE j > i
        <5>1. j - 1 \in 1 .. Len(merged) /\ j - 1 > i /\ (j - 1) + 1 = j
          BY <1>0, <2>1, <3>2, <4>2
        <5>2. merged[j - 1] = free[j]
          BY <2>5, <5>1
        <5> QED
          BY <3>2, <5>1, <5>2 DEF Covered
      <4> QED
        BY <1>0, <3>2, <4>1, <4>2
    <3> QED
      BY <2>8, <3>1, <3>2 DEF Covered
  <2>9. ASSUME NEW n \in Nat, Below(free, n) PROVE Below(merged, n)
    <3> SUFFICES ASSUME NEW k \in 1 .. Len(merged) PROVE End(merged[k]) <= n
      BY DEF Below
    <3>1. CASE k < i
      BY <2>5, <2>9, <3>1 DEF Below
    <3>2. CASE k = i
      BY <2>3, <2>4, <2>5, <2>9, <3>2 DEF Below
    <3>3. CASE k > i
      BY <2>5, <2>9, <3>3 DEF Below
    <3> QED
      BY <3>1, <3>2, <3>3
  <2> QED
    BY <2>2, <2>6, <2>8, <2>9 DEF Joins
<1>6. CASE ~(i < Len(free) /\ End(grown[i]) = grown[i + 1].offset)
  <2>1. ExtendBack(free, i, p.size) = grown
    BY <1>6 DEF ExtendBack, b
  <2> HIDE DEF grown
  <2>2. \A j \in 1 .. Len(free) : i < j => End(p) < free[j].offset
    <3> SUFFICES ASSUME NEW j \in 1 .. Len(free), i < j PROVE End(p) < free[j].offset
      OBVIOUS
    <3>1. i + 1 \in 1 .. Len(free) /\ i < i + 1 /\ i + 1 # i
      BY <1>0
    <3>2. grown[i] = b /\ grown[i + 1] = free[i + 1]
      BY <1>3, <3>1
    <3>3. End(p) # free[i + 1].offset
      BY <1>0, <1>2, <1>6, <3>1, <3>2
    <3>4. End(p) < free[i + 1].offset
      <4>1. End(p) <= free[i + 1].offset /\ free[i + 1].offset \in Nat
        BY <1>1, <1>4, <3>1
      <4>2. End(p) \in Nat
        BY <1>0 DEF End
      <4> QED
        BY <3>3, <4>1, <4>2
    <3>5. CASE j = i + 1
      BY <3>4, <3>5
    <3>6. CASE j > i + 1
      <4>1. End(free[i + 1]) < free[j].offset
        BY <3>1, <3>6 DEF Ordered
      <4>2. /\ free[i + 1].offset \in Nat /\ free[i + 1].size \in Nat /\ free[j].offset \in Nat
            /\ End(p) \in Nat
        BY <1>0, <1>1, <3>1 DEF End
      <4>3. free[i + 1].offset + free[i + 1].size < free[j].offset
        BY <4>1 DEF End
      <4> QED
        BY <3>4, <4>2, <4>3
    <3> QED
      BY <1>0, <3>5, <3>6
  <2>3. Ordered(grown)
    <3>1. \A k \in 1 .. Len(free) : grown[k].size > 0
      BY <1>0, <1>1, <1>2, <1>3 DEF Ordered
    <3>2. ASSUME NEW k \in 1 .. Len(free), NEW l \in 1 .. Len(free), k < l
          PROVE  End(grown[k]) < grown[l].offset
      BY <1>2, <1>3, <2>2, <3>2 DEF Ordered
    <3> QED
      BY <1>3, <3>1, <3>2 DEF Ordered
  <2>4. ASSUME NEW x \in Nat, Covered(free, x) \/ Within(p, x) PROVE Covered(grown, x)
    <3>1. CASE Within(p, x) \/ Within(free[i], x)
      <4>1. Within(b, x)
        BY <1>0, <1>1, <1>2, <3>1 DEF Within, End
      <4> QED
        BY <1>3, <4>1 DEF Covered
    <3>2. ASSUME NEW j \in 1 .. Len(free), Within(free[j], x), j # i PROVE Covered(grown, x)
      BY <1>3, <3>2 DEF Covered
    <3> QED
      BY <2>4, <3>1, <3>2 DEF Covered
  <2>5. ASSUME NEW n \in Nat, Below(free, n), End(p) <= n PROVE Below(grown, n)
    BY <1>2, <1>3, <2>5 DEF Below
  <2> QED
    BY <2>1, <2>3, <2>4, <2>5 DEF Joins
<1> QED
  BY <1>5, <1>6

\* So it is in front of block i; the block before that one does not touch it.
LEMMA FrontJoins ==
  ASSUME NEW free, FreeOK(free), Ordered(free), NEW i \in 1 .. Len(free), NEW p, Piece(p), p.size > 0,
         Misses(free, p), End(p) = free[i].offset, \A k \in 1 .. i - 1 : ~Touches(free[k], p)
  PROVE  Joins(free, p, ExtendFront(free, i, p))
<1> DEFINE b == Block(p.offset, free[i].size + p.size)
           grown == [free EXCEPT ![i] = b]
<1>0. free \in Seq(BlockType) /\ Len(free) \in Nat /\ p.offset \in Nat /\ p.size \in Nat
  BY DEF FreeOK, Piece
<1>1. \A j \in 1 .. Len(free) : free[j].offset \in Nat /\ free[j].size \in Nat
  BY <1>0, FreePiece
<1>2. b \in BlockType /\ b.offset = p.offset /\ b.size = free[i].size + p.size /\ End(b) = End(free[i])
  <2>1. free[i].size + p.size \in Nat
    BY <1>0, <1>1
  <2>2. b \in BlockType /\ b.offset = p.offset /\ b.size = free[i].size + p.size
    BY <1>0, <2>1, BlockProps
  <2> HIDE DEF b
  <2> QED
    BY <1>0, <1>1, <2>2 DEF End
<1>3. grown \in Seq(BlockType) /\ Len(grown) = Len(free)
      /\ \A k \in 1 .. Len(free) : grown[k] = IF k = i THEN b ELSE free[k]
  BY <1>0, <1>2
<1>4. ASSUME NEW j \in 1 .. Len(free), j < i PROVE End(free[j]) < p.offset
  <2>1. Apart(free[j], p)
    BY DEF Misses
  <2>2. free[j].size > 0 /\ End(free[j]) < End(p)
    BY <1>4 DEF Ordered
  <2>3. free[j].offset \in Nat /\ free[j].size \in Nat
    BY <1>1
  <2>4. ~Touches(free[j], p)
    BY <1>4
  <2>5. End(free[j]) < p.offset \/ End(p) < free[j].offset
    BY <2>1, <2>2, <2>3, <2>4, Gap DEF Piece
  <2>6. free[j].offset < End(free[j]) /\ End(free[j]) \in Nat /\ End(p) \in Nat
    BY <1>0, <2>2, <2>3 DEF End
  <2> QED
    BY <1>0, <2>2, <2>3, <2>5, <2>6
<1>5. ExtendFront(free, i, p) = grown
  <2>1. ASSUME i > 1 PROVE End(grown[i - 1]) # p.offset
    <3>1. i - 1 \in 1 .. Len(free) /\ i - 1 < i /\ i - 1 # i
      BY <1>0, <2>1
    <3>2. grown[i - 1] = free[i - 1]
      BY <1>3, <3>1
    <3>3. End(free[i - 1]) < p.offset
      BY <1>4, <3>1
    <3>4. End(free[i - 1]) \in Nat
      BY <1>1, <3>1 DEF End
    <3> QED
      BY <1>0, <3>2, <3>3, <3>4
  <2> QED
    BY <2>1 DEF ExtendFront
<1> HIDE DEF grown, b
<1>6. Ordered(grown)
  <2>1. ASSUME NEW k \in 1 .. Len(free) PROVE grown[k].size > 0
    <3>1. free[i].size > 0 /\ free[i].size \in Nat
      BY <1>1 DEF Ordered
    <3>2. b.size > 0
      BY <1>0, <1>2, <3>1
    <3> QED
      BY <1>3, <3>2 DEF Ordered
  <2>2. ASSUME NEW k \in 1 .. Len(free), NEW l \in 1 .. Len(free), k < l
        PROVE  End(grown[k]) < grown[l].offset
    BY <1>2, <1>3, <1>4, <2>2 DEF Ordered
  <2> QED
    BY <1>3, <2>1, <2>2 DEF Ordered
<1>7. ASSUME NEW x \in Nat, Covered(free, x) \/ Within(p, x) PROVE Covered(grown, x)
  <2>1. CASE Within(p, x) \/ Within(free[i], x)
    <3>1. Within(b, x)
      BY <1>0, <1>1, <1>2, <2>1 DEF Within, End
    <3> QED
      BY <1>3, <3>1 DEF Covered
  <2>2. ASSUME NEW j \in 1 .. Len(free), Within(free[j], x), j # i PROVE Covered(grown, x)
    BY <1>3, <2>2 DEF Covered
  <2> QED
    BY <1>7, <2>1, <2>2 DEF Covered
<1>8. ASSUME NEW n \in Nat, Below(free, n), End(p) <= n PROVE Below(grown, n)
  BY <1>2, <1>3, <1>8 DEF Below
<1> QED
  BY <1>5, <1>6, <1>7, <1>8 DEF Joins

\* So it becomes a block of its own.
LEMMA InsertJoins ==
  ASSUME NEW free, FreeOK(free), Ordered(free), NEW pos \in 1 .. Len(free) + 1, NEW p, Piece(p), p.size > 0,
         Misses(free, p), InsertPos(free, p.offset, pos), \A k \in 1 .. Len(free) : ~Touches(free[k], p)
  PROVE  Joins(free, p, InsertBlock(free, pos, Block(p.offset, p.size)))
<1> DEFINE b == Block(p.offset, p.size)
           inserted == InsertBlock(free, pos, b)
<1>0. free \in Seq(BlockType) /\ Len(free) \in Nat /\ p.offset \in Nat /\ p.size \in Nat
  BY DEF FreeOK, Piece
<1>1. \A j \in 1 .. Len(free) : free[j].offset \in Nat /\ free[j].size \in Nat
  BY <1>0, FreePiece
<1>2. b.offset = p.offset /\ b.size = p.size /\ End(b) = End(p)
  <2>1. b.offset = p.offset /\ b.size = p.size
    BY <1>0, BlockProps
  <2> HIDE DEF b
  <2> QED
    BY <2>1 DEF End
<1> HIDE DEF b
<1>3. /\ Len(inserted) = Len(free) + 1
      /\ \A k \in 1 .. Len(free) + 1 :
           inserted[k] = IF k < pos THEN free[k] ELSE IF k = pos THEN b ELSE free[k - 1]
  BY <1>0 DEF InsertBlock
<1> HIDE DEF inserted
<1>4. ASSUME NEW j \in 1 .. Len(free), j < pos PROVE End(free[j]) < p.offset
  <2>1. Apart(free[j], p) /\ ~Touches(free[j], p) /\ free[j].size > 0
    BY DEF Misses, Ordered
  <2>2. free[j].offset < p.offset
    BY <1>4 DEF InsertPos
  <2>3. free[j].offset \in Nat /\ free[j].size \in Nat
    BY <1>1
  <2>4. End(free[j]) < p.offset \/ End(p) < free[j].offset
    BY <2>1, <2>3, Gap DEF Piece
  <2>5. p.offset < End(p) /\ End(p) \in Nat
    BY <1>0 DEF End
  <2> QED
    BY <1>0, <2>2, <2>3, <2>4, <2>5
<1>5. ASSUME NEW j \in 1 .. Len(free), j >= pos PROVE End(p) < free[j].offset
  <2>1. Apart(free[j], p) /\ ~Touches(free[j], p) /\ free[j].size > 0
    BY DEF Misses, Ordered
  <2>2. free[j].offset \in Nat /\ free[j].size \in Nat
    BY <1>1
  <2>3. free[j].offset >= p.offset
    <3>1. pos \in 1 .. Len(free) /\ free[pos].offset >= p.offset
      BY <1>0, <1>5 DEF InsertPos
    <3>2. CASE j = pos
      BY <3>1, <3>2
    <3>3. CASE j > pos
      <4>1. free[pos].offset \in Nat /\ free[pos].size \in Nat /\ End(free[pos]) < free[j].offset
        BY <1>1, <3>1, <3>3 DEF Ordered
      <4> QED
        BY <1>0, <2>2, <3>1, <4>1 DEF End
    <3> QED
      BY <1>5, <3>2, <3>3
  <2>4. Apart(free[j], p) /\ ~Touches(free[j], p)
    BY <2>1
  <2>5. End(free[j]) < p.offset \/ End(p) < free[j].offset
    BY <2>1, <2>2, <2>4, Gap DEF Piece
  <2>6. free[j].offset < End(free[j]) /\ End(free[j]) \in Nat
    BY <2>1, <2>2 DEF End
  <2> QED
    BY <1>0, <2>2, <2>3, <2>5, <2>6
<1>6. \A k \in 1 .. Len(inserted) :
        /\ k < pos => inserted[k] = free[k] /\ k \in 1 .. Len(free)
        /\ k = pos => inserted[k] = b
        /\ k > pos => inserted[k] = free[k - 1] /\ k - 1 \in 1 .. Len(free) /\ k - 1 >= pos
  BY <1>0, <1>3
<1>7. Ordered(inserted)
  <2>1. \A k \in 1 .. Len(inserted) : inserted[k].size > 0
    BY <1>2, <1>6 DEF Ordered
  <2>2. ASSUME NEW k \in 1 .. Len(inserted), NEW l \in 1 .. Len(inserted), k < l
        PROVE  End(inserted[k]) < inserted[l].offset
    <3>1. CASE l < pos
      BY <1>6, <2>2, <3>1 DEF Ordered
    <3>2. CASE l = pos
      BY <1>2, <1>4, <1>6, <2>2, <3>2
    <3>3. CASE l > pos /\ k = pos
      BY <1>2, <1>5, <1>6, <3>3
    <3>4. CASE l > pos /\ k < pos
      <4>1. k < l - 1
        BY <3>4
      <4> QED
        BY <1>6, <3>4, <4>1 DEF Ordered
    <3>5. CASE l > pos /\ k > pos
      <4>1. k - 1 < l - 1
        BY <2>2
      <4> QED
        BY <1>6, <3>5, <4>1 DEF Ordered
    <3> QED
      BY <3>1, <3>2, <3>3, <3>4, <3>5
  <2> QED
    BY <2>1, <2>2 DEF Ordered
<1>8. ASSUME NEW x \in Nat, Covered(free, x) \/ Within(p, x) PROVE Covered(inserted, x)
  <2>1. CASE Within(p, x)
    <3>1. Within(b, x) /\ pos \in 1 .. Len(inserted)
      BY <1>0, <1>2, <1>3, <2>1 DEF Within
    <3> QED
      BY <1>6, <3>1 DEF Covered
  <2>2. ASSUME NEW j \in 1 .. Len(free), Within(free[j], x) PROVE Covered(inserted, x)
    <3>1. CASE j < pos
      <4>1. j \in 1 .. Len(inserted)
        BY <1>0, <1>3
      <4> QED
        BY <1>6, <2>2, <3>1, <4>1 DEF Covered
    <3>2. CASE j >= pos
      <4>1. j + 1 \in 1 .. Len(inserted) /\ j + 1 > pos /\ (j + 1) - 1 = j
        BY <1>0, <1>3, <3>2
      <4>2. inserted[j + 1] = free[j]
        BY <1>6, <4>1
      <4> QED
        BY <2>2, <4>1, <4>2 DEF Covered
    <3> QED
      BY <3>1, <3>2
  <2> QED
    BY <1>8, <2>1, <2>2 DEF Covered
<1>9. ASSUME NEW n \in Nat, Below(free, n), End(p) <= n PROVE Below(inserted, n)
  <2> SUFFICES ASSUME NEW k \in 1 .. Len(inserted) PROVE End(inserted[k]) <= n
    BY DEF Below
  <2>1. CASE k < pos
    BY <1>6, <1>9, <2>1 DEF Below
  <2>2. CASE k = pos
    BY <1>2, <1>6, <1>9, <2>2
  <2>3. CASE k > pos
    BY <1>6, <1>9, <2>3 DEF Below
  <2> QED
    BY <2>1, <2>2, <2>3
<1> QED
  BY <1>7, <1>8, <1>9 DEF Joins, inserted, b

\* The front of a block is taken: what was free still is, or is in what was taken.
LEMMA TakeJoins ==
  ASSUME NEW k, FreeOK(k.free), Ordered(k.free), NEW i \in 1 .. Len(k.free), NEW n \in Nat,
         n > 0, k.free[i].size >= n
  PROVE  LET free2 == TakeFrom(k, i, n).free
         IN /\ Ordered(free2)
            /\ \A x \in Nat : Covered(k.free, x) => Covered(free2, x) \/ Within(Block(k.free[i].offset, n), x)
            /\ \A m \in Nat : Below(k.free, m) => Below(free2, m) /\ End(Block(k.free[i].offset, n)) <= m
<1> DEFINE free == k.free
           p == Block(free[i].offset, n)
           b == Block(free[i].offset + n, free[i].size - n)
           free2 == TakeFrom(k, i, n).free
<1>0. free \in Seq(BlockType) /\ Len(free) \in Nat
  BY DEF FreeOK
<1>1. \A j \in 1 .. Len(free) : free[j].offset \in Nat /\ free[j].size \in Nat
  BY <1>0, FreePiece
<1>2. /\ p.offset = free[i].offset /\ p.size = n
      /\ b.offset = free[i].offset + n /\ b.size = free[i].size - n /\ b \in BlockType
  <2>1. free[i].offset + n \in Nat /\ free[i].size - n \in Nat
    BY <1>1
  <2> QED
    BY <1>1, <2>1, BlockProps
<1>3. free2 = IF free[i].size = n THEN RemoveBlock(free, i) ELSE [free EXCEPT ![i] = b]
  BY DEF TakeFrom
<1>4. i \in 1 .. Len(free) /\ n \in Nat /\ n > 0 /\ free[i].size >= n /\ Ordered(free)
  OBVIOUS
<1> HIDE DEF p, b, free2
<1>5. End(b) = End(free[i]) /\ End(p) = b.offset /\ End(p) <= End(free[i])
  BY <1>1, <1>2, <1>4 DEF End
<1> HIDE DEF free
<1>6. \A x \in Nat : Within(free[i], x) => Within(p, x) \/ (Within(b, x) /\ b.size > 0)
  BY <1>1, <1>2, <1>4 DEF Within, End
<1>7. \A m \in Nat : Below(free, m) => End(p) <= m
  BY <1>1, <1>2, <1>4, <1>5 DEF Below, End
<1>8. CASE free[i].size = n
  <2>1. /\ Len(free2) = Len(free) - 1
        /\ \A j \in 1 .. Len(free) - 1 : free2[j] = IF j < i THEN free[j] ELSE free[j + 1]
    BY <1>0, <1>3, <1>4, <1>8, Removed
  <2> DEFINE from(j) == IF j < i THEN j ELSE j + 1
  <2>2. \A j \in 1 .. Len(free2) : from(j) \in 1 .. Len(free) /\ free2[j] = free[from(j)]
    BY <1>0, <2>1
  <2>3. \A j, l \in 1 .. Len(free2) : j < l => from(j) < from(l)
    BY <1>0, <2>1
  <2>4. Ordered(free2)
    <3> HIDE DEF from
    <3> QED
      BY <1>4, <2>2, <2>3 DEF Ordered
  <2>5. ASSUME NEW x \in Nat, Covered(free, x) PROVE Covered(free2, x) \/ Within(p, x)
    <3>1. PICK j \in 1 .. Len(free) : Within(free[j], x)
      BY <2>5 DEF Covered
    <3>2. CASE j = i
      <4>1. ~(b.size > 0)
        BY <1>1, <1>2, <1>4, <1>8
      <4> QED
        BY <1>6, <3>1, <3>2, <4>1
    <3>3. CASE j < i
      <4>1. j \in 1 .. Len(free2)
        BY <1>0, <1>4, <2>1, <3>3
      <4> QED
        BY <2>1, <3>1, <3>3, <4>1 DEF Covered
    <3>4. CASE j > i
      <4>1. j - 1 \in 1 .. Len(free2) /\ ~(j - 1 < i) /\ (j - 1) + 1 = j
        BY <1>0, <1>4, <2>1, <3>4
      <4>2. free2[j - 1] = free[j]
        BY <2>1, <4>1
      <4> QED
        BY <3>1, <4>1, <4>2 DEF Covered
    <3> QED
      BY <1>4, <3>2, <3>3, <3>4
  <2>6. \A m \in Nat : Below(free, m) => Below(free2, m)
    <3> HIDE DEF from
    <3> QED
      BY <2>2 DEF Below
  <2> QED
    BY <1>7, <2>4, <2>5, <2>6 DEF free2, free, p
<1>9. CASE free[i].size # n
  <2>1. /\ Len(free2) = Len(free)
        /\ \A j \in 1 .. Len(free) : free2[j] = IF j = i THEN b ELSE free[j]
    BY <1>0, <1>2, <1>3, <1>9
  <2>2. b.size > 0
    BY <1>1, <1>2, <1>4, <1>9
  <2>3. Ordered(free2)
    <3>1. \A j \in 1 .. Len(free) : free2[j].size > 0
      BY <1>4, <2>1, <2>2 DEF Ordered
    <3>2. ASSUME NEW j \in 1 .. Len(free), NEW l \in 1 .. Len(free), j < l
          PROVE  End(free2[j]) < free2[l].offset
      <4>1. End(free[j]) < free[l].offset
        BY <1>4, <3>2 DEF Ordered
      <4>2. CASE l = i
        <5>1. free2[l] = b /\ free2[j] = free[j]
          BY <2>1, <3>2, <4>2
        <5>2. End(free[j]) \in Nat /\ free[i].offset \in Nat
          BY <1>1, <1>4 DEF End
        <5> QED
          BY <1>2, <1>4, <4>1, <4>2, <5>1, <5>2
      <4>3. CASE l # i
        BY <1>5, <2>1, <4>1, <4>3
      <4> QED
        BY <4>2, <4>3
    <3> QED
      BY <2>1, <3>1, <3>2 DEF Ordered
  <2>4. ASSUME NEW x \in Nat, Covered(free, x) PROVE Covered(free2, x) \/ Within(p, x)
    <3>1. PICK j \in 1 .. Len(free) : Within(free[j], x)
      BY <2>4 DEF Covered
    <3>2. CASE j = i
      BY <1>4, <1>6, <2>1, <3>1, <3>2 DEF Covered
    <3>3. CASE j # i
      BY <2>1, <3>1, <3>3 DEF Covered
    <3> QED
      BY <3>2, <3>3
  <2>5. \A m \in Nat : Below(free, m) => Below(free2, m)
    BY <1>4, <1>5, <2>1 DEF Below
  <2> QED
    BY <1>7, <2>3, <2>4, <2>5 DEF free2, free, p
<1> QED
  BY <1>8, <1>9

\* What free_bytes makes of the array.
LEMMA FreeBytesJoins ==
  ASSUME AllocInv, NEW p, Piece(p), p.size > 0, p.buffer \in Buffers,
         p.chunk \in 1 .. Len(chunks[p.buffer]),
         Misses(chunks[p.buffer][p.chunk].free, p), FreeBytes(p),
         Ordered(chunks[p.buffer][p.chunk].free)
  PROVE  \E free2 :
           /\ free2 \in Seq(BlockType) /\ Joins(chunks[p.buffer][p.chunk].free, p, free2)
           /\ chunks' = [chunks EXCEPT ![p.buffer][p.chunk].free = free2]
<1> DEFINE free == chunks[p.buffer][p.chunk].free
           Becomes(free2) == chunks' = [chunks EXCEPT ![p.buffer][p.chunk].free = free2]
           Good(free2) == free2 \in Seq(BlockType) /\ Joins(free, p, free2)
<1>1. FreeOK(free) /\ Misses(free, p) /\ Ordered(free)
  BY DEF AllocInv
<1>2. ASSUME NEW i \in 1 .. Len(free), End(free[i]) = p.offset,
             Becomes(ExtendBack(free, i, p.size))
      PROVE  \E free2 : Good(free2) /\ Becomes(free2)
  <2>1. Good(ExtendBack(free, i, p.size))
    <3> HIDE DEF free
    <3> QED
      BY <1>1, <1>2, BackOK, BackJoins DEF FreeOK
  <2> HIDE DEF Good, Becomes
  <2> QED
    BY <1>2, <2>1
<1>3. ASSUME NEW i \in 1 .. Len(free), End(p) = free[i].offset, Becomes(ExtendFront(free, i, p)),
             \A k \in 1 .. i - 1 : ~Touches(free[k], p)
      PROVE  \E free2 : Good(free2) /\ Becomes(free2)
  <2>1. Good(ExtendFront(free, i, p))
    <3> HIDE DEF free
    <3>1. FreeOK(ExtendFront(free, i, p))
      BY <1>1, <1>3, FrontOK
    <3>2. Joins(free, p, ExtendFront(free, i, p))
      BY <1>1, <1>3, FrontJoins
    <3> QED
      BY <3>1, <3>2 DEF FreeOK
  <2> HIDE DEF Good, Becomes
  <2> QED
    BY <1>3, <2>1
<1>4. ASSUME NEW pos \in 1 .. Len(free) + 1, InsertPos(free, p.offset, pos),
             Becomes(InsertBlock(free, pos, Block(p.offset, p.size))),
             \A k \in 1 .. Len(free) : ~Touches(free[k], p)
      PROVE  \E free2 : Good(free2) /\ Becomes(free2)
  <2>1. /\ Block(p.offset, p.size) \in BlockType /\ Misses(free, Block(p.offset, p.size))
    BY BlockProps DEF Piece, Misses, Apart, End, Block
  <2>2. Good(InsertBlock(free, pos, Block(p.offset, p.size)))
    <3> HIDE DEF free
    <3>1. FreeOK(InsertBlock(free, pos, Block(p.offset, p.size)))
      BY <1>1, <2>1, InsertedOK
    <3>2. Joins(free, p, InsertBlock(free, pos, Block(p.offset, p.size)))
      BY <1>1, <1>4, InsertJoins
    <3> QED
      BY <3>1, <3>2 DEF FreeOK
  <2> HIDE DEF Good, Becomes
  <2> QED
    BY <1>4, <2>2
<1>5. \/ \E i \in 1 .. Len(free) :
            \/ End(free[i]) = p.offset /\ Becomes(ExtendBack(free, i, p.size))
            \/ /\ End(p) = free[i].offset /\ Becomes(ExtendFront(free, i, p))
               /\ \A k \in 1 .. i - 1 : ~Touches(free[k], p)
      \/ /\ \A k \in 1 .. Len(free) : ~Touches(free[k], p)
         /\ \E pos \in 1 .. Len(free) + 1 :
              InsertPos(free, p.offset, pos) /\ Becomes(InsertBlock(free, pos, Block(p.offset, p.size)))
  BY DEF FreeBytes
<1> HIDE DEF free
<1>6. \E free2 : Good(free2) /\ Becomes(free2)
  <2> HIDE DEF Good, Becomes
  <2> QED
    BY <1>2, <1>3, <1>4, <1>5
<1> QED
  BY <1>6 DEF free

(***************************************************************************)
(* Why the array stays short: what is free and what tensors have makes up   *)
(* the whole chunk.                                                         *)
(***************************************************************************)
\* Every byte of the chunk's n is free or a tensor's, and there are no others.
Whole(b, c, n) ==
  /\ Below(chunks[b][c].free, n)
  /\ \A t \in live : In(place[t], b, c) => End(place[t]) <= n
  /\ \A x \in 0 .. n - 1 : \/ Covered(chunks[b][c].free, x)
                           \/ \E t \in live : In(place[t], b, c) /\ Within(place[t], x)

OrderInv ==
  /\ \A b \in Buffers : \A c \in 1 .. Len(chunks[b]) :
       /\ Ordered(chunks[b][c].free)
       /\ \E n \in Nat : n > 0 /\ Whole(b, c, n)
  /\ \A t \in live : place[t].size > 0
  /\ IsFiniteSet(live)

\* The byte behind a block, but for the last, is not free, so that a tensor has it.
LEMMA BehindBlocks ==
  ASSUME AllocInv, OrderInv, NEW b \in Buffers, NEW c \in 1 .. Len(chunks[b]),
         NEW i \in 1 .. Len(chunks[b][c].free), i < Len(chunks[b][c].free)
  PROVE  \E t \in live : In(place[t], b, c) /\ Within(place[t], End(chunks[b][c].free[i]))
<1> DEFINE free == chunks[b][c].free
           x == End(free[i])
<1>1. free \in Seq(BlockType) /\ Len(free) \in Nat /\ Ordered(free)
  BY DEF AllocInv, FreeOK, OrderInv
<1>2. PICK n \in Nat : n > 0 /\ Whole(b, c, n)
  BY DEF OrderInv
<1>3. Below(free, n)
  BY <1>2 DEF Whole
<1>4. i \in 1 .. Len(free) /\ i < Len(free)
  OBVIOUS
<1>5. x \in 0 .. n - 1 => \/ Covered(free, x)
                          \/ \E t \in live : In(place[t], b, c) /\ Within(place[t], x)
  BY <1>2 DEF Whole
<1> HIDE DEF free
<1>6. \A j \in 1 .. Len(free) : free[j].offset \in Nat /\ free[j].size \in Nat
  BY <1>1, FreePiece
<1>7. x \in 0 .. n - 1
  <2>1. i + 1 \in 1 .. Len(free) /\ i < i + 1
    BY <1>1, <1>4
  <2>2. x < free[i + 1].offset
    BY <1>1, <1>4, <2>1 DEF Ordered
  <2>3. End(free[i + 1]) <= n
    BY <1>3, <2>1 DEF Below
  <2>4. x \in Nat
    BY <1>4, <1>6 DEF End
  <2>5. free[i + 1].offset \in Nat /\ free[i + 1].offset <= End(free[i + 1]) /\ End(free[i + 1]) \in Nat
    BY <1>6, <2>1 DEF End
  <2> HIDE DEF x
  <2> QED
    BY <1>2, <2>2, <2>3, <2>4, <2>5
<1>8. ASSUME NEW j \in 1 .. Len(free) PROVE ~Within(free[j], x)
  <2>1. x \in Nat /\ free[j].offset \in Nat /\ End(free[j]) \in Nat
    BY <1>4, <1>6 DEF End
  <2>2. CASE j = i
    BY <2>1, <2>2 DEF Within
  <2>3. CASE j > i
    <3>1. x < free[j].offset
      BY <1>1, <1>4, <2>3 DEF Ordered
    <3> HIDE DEF x
    <3> QED
      BY <2>1, <3>1 DEF Within
  <2>4. CASE j < i
    <3>1. End(free[j]) < free[i].offset /\ free[i].offset <= x /\ free[i].offset \in Nat
      BY <1>1, <1>4, <1>6, <2>4 DEF Ordered, End
    <3> HIDE DEF x
    <3> QED
      BY <2>1, <3>1 DEF Within
  <2> QED
    BY <1>1, <1>4, <2>2, <2>3, <2>4
<1> QED
  BY <1>5, <1>7, <1>8 DEF free, Covered

\* No tensor is behind two of them.
LEMMA BehindOne ==
  ASSUME NEW free, FreeOK(free), Ordered(free), NEW p, Piece(p), p.size > 0, Misses(free, p),
         NEW i \in 1 .. Len(free), NEW j \in 1 .. Len(free), i < j, Within(p, End(free[i]))
  PROVE  ~Within(p, End(free[j]))
<1>1. /\ free[i].offset \in Nat /\ free[i].size \in Nat /\ free[j].offset \in Nat /\ free[j].size \in Nat
      /\ free[j].size > 0
  BY FreePiece DEF FreeOK, Ordered
<1>2. End(free[i]) < free[j].offset /\ Apart(free[j], p)
  BY DEF Ordered, Misses
<1>3. p.offset <= End(free[i]) /\ p.offset \in Nat /\ p.size \in Nat /\ End(p) \in Nat
  BY DEF Within, Piece, End
<1>4. End(free[j]) <= p.offset \/ End(p) <= free[j].offset
  BY <1>1, <1>2, <1>3 DEF Apart
<1>5. End(free[i]) \in Nat /\ End(free[j]) \in Nat /\ free[j].offset < End(free[j])
  BY <1>1 DEF End
<1>6. ASSUME Within(p, End(free[j])) PROVE FALSE
  <2>1. End(free[j]) < End(p)
    BY <1>6 DEF Within
  <2> QED
    BY <1>1, <1>2, <1>3, <1>4, <1>5, <2>1
<1> QED
  BY <1>6

LEMMA OrderInvImplies == AllocInv /\ OrderInv => Compact
<1> SUFFICES ASSUME AllocInv, OrderInv, NEW b \in Buffers, NEW c \in 1 .. Len(chunks[b])
             PROVE  LET free == chunks[b][c].free
                        here == {t \in live : place[t].buffer = b /\ place[t].chunk = c}
                    IN /\ \A i \in 1 .. Len(free) - 1 : End(free[i]) < free[i + 1].offset
                       /\ Len(free) <= Cardinality(here) + 1
                       /\ here = {} => Len(free) = 1
  BY DEF Compact
<1> DEFINE free == chunks[b][c].free
           here == {t \in live : place[t].buffer = b /\ place[t].chunk = c}
<1>1. free \in Seq(BlockType) /\ Len(free) \in Nat /\ Ordered(free) /\ FreeOK(free)
  BY DEF AllocInv, FreeOK, OrderInv
<1>2. \A t \in here : Piece(place[t]) /\ place[t].size > 0 /\ Misses(free, place[t])
  BY DEF AllocInv, OrderInv, FreeOf
<1>3. \A i \in 1 .. Len(free) - 1 : \E t \in here : Within(place[t], End(free[i]))
  <2>1. \A i \in 1 .. Len(free) - 1 : i \in 1 .. Len(free) /\ i < Len(free)
    BY <1>1
  <2> QED
    BY <2>1, BehindBlocks DEF In
<1>4. IsFiniteSet(here) /\ Cardinality(here) \in Nat
  BY FS_Subset, FS_CardinalityType DEF OrderInv
<1>5. here = {} => Len(free) >= 1
  <2> SUFFICES ASSUME here = {} PROVE Len(free) >= 1
    OBVIOUS
  <2>1. PICK n \in Nat : n > 0 /\ Whole(b, c, n)
    BY DEF OrderInv
  <2>2. Covered(free, 0)
    BY <2>1 DEF Whole, In
  <2> HIDE DEF free
  <2> QED
    BY <1>1, <2>2 DEF Covered
<1> HIDE DEF free, here
<1>6. \A i \in 1 .. Len(free) - 1 : End(free[i]) < free[i + 1].offset
  <2>1. \A i \in 1 .. Len(free) - 1 : i \in 1 .. Len(free) /\ i + 1 \in 1 .. Len(free) /\ i < i + 1
    BY <1>1
  <2> QED
    BY <1>1, <2>1 DEF Ordered
<1>7. Len(free) <= Cardinality(here) + 1
  <2> SUFFICES ASSUME Cardinality(here) + 1 < Len(free) PROVE FALSE
    BY <1>1, <1>4
  <2> DEFINE f == [i \in 1 .. Len(free) - 1 |-> CHOOSE t \in here : Within(place[t], End(free[i]))]
  <2>1. \A i \in 1 .. Len(free) - 1 : f[i] \in here /\ Within(place[f[i]], End(free[i]))
    BY <1>3
  <2>2. f \in [1 .. Len(free) - 1 -> here]
    BY <2>1
  <2>3. IsFiniteSet(1 .. Len(free) - 1) /\ Cardinality(1 .. Len(free) - 1) = Len(free) - 1
    <3>1. Len(free) - 1 \in Nat /\ Len(free) - 1 >= 1
      BY <1>1, <1>4
    <3> QED
      BY <3>1, FS_Interval
  <2>4. Cardinality(here) < Cardinality(1 .. Len(free) - 1)
    BY <1>1, <1>4, <2>3
  <2> HIDE DEF f
  <2>5. PICK i, j \in 1 .. Len(free) - 1 : i # j /\ f[i] = f[j]
    BY <1>4, <2>2, <2>3, <2>4, FS_PigeonHole
  <2>6. i \in 1 .. Len(free) /\ j \in 1 .. Len(free) /\ (i < j \/ j < i)
    BY <1>1, <2>5
  <2>7. /\ Piece(place[f[i]]) /\ place[f[i]].size > 0 /\ Misses(free, place[f[i]])
        /\ Within(place[f[i]], End(free[i])) /\ Within(place[f[i]], End(free[j]))
    BY <1>2, <2>1, <2>5
  <2>8. CASE i < j
    BY <1>1, <2>6, <2>7, <2>8, BehindOne
  <2>9. CASE j < i
    BY <1>1, <2>6, <2>7, <2>9, BehindOne
  <2> QED
    BY <2>6, <2>8, <2>9
<1>8. here = {} => Len(free) = 1
  <2> SUFFICES ASSUME here = {} PROVE Len(free) = 1
    OBVIOUS
  <2>1. Cardinality(here) = 0
    BY FS_EmptySet
  <2>2. Len(free) \in Nat /\ Len(free) <= 1 /\ Len(free) >= 1
    BY <1>1, <1>5, <1>7, <2>1
  <2>3. \A l \in Nat : l <= 1 /\ l >= 1 => l = 1
    OBVIOUS
  <2> QED
    BY <2>2, <2>3
<1> QED
  BY <1>6, <1>7, <1>8 DEF free, here

\* One chunk changes, and only tensors that are or come there.
LEMMA OrderStep ==
  ASSUME AllocInv, OrderInv, NEW b \in Buffers, NEW c, NEW k, ChunkBecomes(b, c, k),
         \A t \in live' : (t \in live /\ place'[t] = place[t]) \/ In(place'[t], b, c),
         \A t \in live : (t \in live' /\ place'[t] = place[t]) \/ In(place[t], b, c),
         \A t \in live' : place'[t].size > 0, IsFiniteSet(live'),
         Ordered(k.free), NEW n \in Nat, n > 0,
         Below(k.free, n),
         \A t \in live' : In(place'[t], b, c) => End(place'[t]) <= n,
         \A x \in 0 .. n - 1 : \/ Covered(k.free, x)
                               \/ \E t \in live' : In(place'[t], b, c) /\ Within(place'[t], x)
  PROVE  OrderInv'
<1>1. chunks'[b][c] = k
  BY DEF ChunkBecomes
<1>2. ASSUME NEW d \in Buffers, NEW e \in 1 .. Len(chunks'[d])
      PROVE  /\ Ordered(chunks'[d][e].free)
             /\ \E m \in Nat : m > 0 /\ Whole(d, e, m)'
  <2>1. CASE d = b /\ e = c
    <3>1. Whole(d, e, n)'
      BY <1>1, <2>1 DEF Whole
    <3> QED
      BY <1>1, <2>1, <3>1
  <2>2. CASE ~(d = b /\ e = c)
    <3>1. e \in 1 .. Len(chunks[d]) /\ chunks'[d][e] = chunks[d][e]
      BY <1>2, <2>2 DEF ChunkBecomes
    <3>2. PICK m \in Nat : m > 0 /\ Whole(d, e, m)
      BY <3>1 DEF OrderInv
    <3>3. \A t \in live' : In(place'[t], d, e) => t \in live /\ place'[t] = place[t]
      BY <2>2 DEF In
    <3>4. \A t \in live : In(place[t], d, e) => t \in live' /\ place'[t] = place[t]
      BY <2>2 DEF In
    <3>5. Whole(d, e, m)'
      <4>1. Below(chunks'[d][e].free, m)
        BY <3>1, <3>2 DEF Whole
      <4>2. \A t \in live' : In(place'[t], d, e) => End(place'[t]) <= m
        BY <3>2, <3>3 DEF Whole
      <4>3. ASSUME NEW x \in 0 .. m - 1
            PROVE  \/ Covered(chunks'[d][e].free, x)
                   \/ \E t \in live' : In(place'[t], d, e) /\ Within(place'[t], x)
        <5>1. CASE Covered(chunks[d][e].free, x)
          BY <3>1, <5>1
        <5>2. ASSUME NEW t \in live, In(place[t], d, e), Within(place[t], x)
              PROVE  \E u \in live' : In(place'[u], d, e) /\ Within(place'[u], x)
          BY <3>4, <5>2
        <5> QED
          BY <3>2, <5>1, <5>2 DEF Whole
      <4> QED
        BY <4>1, <4>2, <4>3 DEF Whole
    <3> QED
      BY <3>1, <3>2, <3>5 DEF OrderInv
  <2> QED
    BY <2>1, <2>2
<1> QED
  BY <1>2 DEF OrderInv

LEMMA AllocateOrders ==
  ASSUME AllocInv, OrderInv, NEW t \in Tensors, NEW b \in Buffers, NEW size \in Nat, size > 0,
         Allocate(t, b, size)
  PROVE  OrderInv'
<1> DEFINE n == Aligned(size)
<1>0. n \in Nat /\ n > 0 /\ chunks \in [Buffers -> Seq(ChunkType)] /\ Len(chunks[b]) \in Nat
  BY AlignedNat DEF AllocInv
<1> HIDE DEF n
<1>1. live' = live \cup {t} /\ t \notin live
  BY DEF Allocate
<1>2. \A c : \A a \in Nat :
        place' = [place EXCEPT ![t] = At(b, c, a, n)] =>
          /\ place'[t] = At(b, c, a, n) /\ In(place'[t], b, c)
          /\ \A u \in live : place'[u] = place[u]
  BY <1>1 DEF AllocInv, In, At
<1>3. \A c : \A a \in Nat :
        /\ At(b, c, a, n).offset = a /\ At(b, c, a, n).size = n
        /\ End(At(b, c, a, n)) = End(Block(a, n))
        /\ \A x \in Nat : Within(Block(a, n), x) => Within(At(b, c, a, n), x)
  BY DEF At, End, Block, Within
<1>4. IsFiniteSet(live')
  BY <1>1, FS_AddElement DEF OrderInv
<1>5. ASSUME NEW c \in 1 .. Len(chunks[b]), NEW i \in 1 .. Len(chunks[b][c].free),
             chunks[b][c].free[i].size >= n,
             chunks' = [chunks EXCEPT ![b][c] = TakeFrom(@, i, n)],
             place' = [place EXCEPT ![t] = At(b, c, chunks[b][c].free[i].offset, n)]
      PROVE  OrderInv'
  <2> DEFINE k == chunks[b][c]
             k2 == TakeFrom(k, i, n)
             a == k.free[i].offset
  <2>1. k \in ChunkType /\ FreeOK(k.free) /\ a \in Nat
    <3>1. k \in ChunkType /\ FreeOK(k.free)
      BY <1>0 DEF AllocInv
    <3> QED
      BY <3>1, FreePiece DEF FreeOK
  <2>2. PICK m \in Nat : m > 0 /\ Whole(b, c, m)
    BY DEF OrderInv
  <2>3. Ordered(k.free) /\ Below(k.free, m)
    BY <2>2 DEF OrderInv, Whole
  <2>4. k2 \in ChunkType
    <3> HIDE DEF k
    <3> QED
      BY <1>0, <1>5, <2>1, TakenOK DEF k
  <2>5. /\ Ordered(k2.free) /\ Below(k2.free, m) /\ End(Block(a, n)) <= m
        /\ \A x \in Nat : Covered(k.free, x) => Covered(k2.free, x) \/ Within(Block(a, n), x)
    <3> HIDE DEF k
    <3> QED
      BY <1>0, <1>5, <2>1, <2>3, TakeJoins DEF k
  <2>6. ChunkBecomes(b, c, k2)
    <3>1. chunks' = [chunks EXCEPT ![b][c] = k2]
      BY <1>0, <1>5
    <3> HIDE DEF k2
    <3> QED
      BY <1>0, <2>4, <3>1, Replaced
  <2>7. /\ place'[t] = At(b, c, a, n) /\ In(place'[t], b, c)
        /\ \A u \in live : place'[u] = place[u]
    BY <1>2, <1>5, <2>1
  <2>8. ASSUME NEW x \in 0 .. m - 1
        PROVE  \/ Covered(k2.free, x)
               \/ \E u \in live' : In(place'[u], b, c) /\ Within(place'[u], x)
    <3>1. \/ Covered(k.free, x)
          \/ \E u \in live : In(place[u], b, c) /\ Within(place[u], x)
      BY <2>2 DEF Whole
    <3>2. CASE Covered(k.free, x)
      <4>1. x \in Nat
        BY <2>2
      <4> HIDE DEF k, k2, a
      <4> QED
        BY <1>1, <1>3, <2>1, <2>5, <2>7, <3>2, <4>1
    <3>3. ASSUME NEW u \in live, In(place[u], b, c), Within(place[u], x)
          PROVE  \E v \in live' : In(place'[v], b, c) /\ Within(place'[v], x)
      BY <1>1, <2>7, <3>3
    <3> QED
      BY <3>1, <3>2, <3>3
  <2>9. ASSUME NEW u \in live', In(place'[u], b, c) PROVE End(place'[u]) <= m
    <3>1. CASE u = t
      <4> HIDE DEF k, k2, a
      <4> QED
        BY <1>3, <2>1, <2>5, <2>7, <3>1
    <3>2. CASE u # t
      BY <1>1, <2>2, <2>7, <2>9, <3>2 DEF Whole
    <3> QED
      BY <3>1, <3>2
  <2>10. /\ \A u \in live' : (u \in live /\ place'[u] = place[u]) \/ In(place'[u], b, c)
         /\ \A u \in live : (u \in live' /\ place'[u] = place[u]) \/ In(place[u], b, c)
         /\ \A u \in live' : place'[u].size > 0
    <3> HIDE DEF k, k2, a
    <3>1. place'[t].size > 0
      BY <1>0, <1>3, <2>1, <2>7
    <3>2. \A u \in live' : u = t \/ u \in live
      BY <1>1
    <3>3. \A u \in live : u \in live' /\ place'[u] = place[u] /\ place[u].size > 0
      BY <1>1, <2>7 DEF OrderInv
    <3> QED
      BY <2>7, <3>1, <3>2, <3>3
  <2> HIDE DEF k2, k, a
  <2> QED
    BY <1>4, <2>2, <2>5, <2>6, <2>8, <2>9, <2>10, OrderStep
<1>6. ASSUME NewChunk(b, n).free[1].size >= n,
             chunks' = [chunks EXCEPT ![b] = Append(@, TakeFrom(NewChunk(b, n), 1, n))],
             place' = [place EXCEPT ![t] = At(b, Len(chunks[b]) + 1, 0, n)]
      PROVE  OrderInv'
  <2> DEFINE k == NewChunk(b, n)
             k2 == TakeFrom(k, 1, n)
             c == Len(chunks[b]) + 1
             m == k.free[1].size
  <2>1. /\ k \in ChunkType /\ FreeOK(k.free) /\ Len(k.free) = 1
        /\ k.free[1].offset = 0 /\ m \in Nat /\ 1 \in 1 .. Len(k.free)
    <3> DEFINE h == IF Len(chunks[b]) = MaxChunks - 1 THEN Huge ELSE Larger(n, MaxChunkSize)
    <3>1. h \in Nat
      BY <1>0, AllocAssumption DEF Larger
    <3>2. Block(0, h) \in BlockType /\ Block(0, h).offset = 0 /\ Block(0, h).size = h
      BY <3>1, BlockProps
    <3>3. k = [free |-> <<Block(0, h)>>, max |-> 0]
      BY DEF NewChunk
    <3> HIDE DEF h, k
    <3> QED
      BY <3>1, <3>2, <3>3 DEF ChunkType, FreeOK
  <2>2. m >= n /\ m > 0
    <3>1. m >= n
      BY <1>6
    <3> HIDE DEF m
    <3> QED
      BY <1>0, <2>1, <3>1
  <2>3. Ordered(k.free) /\ Below(k.free, m) /\ \A x \in 0 .. m - 1 : Covered(k.free, x)
    <3> HIDE DEF k
    <3>1. End(k.free[1]) = m
      BY <2>1 DEF End
    <3>2. \A x \in 0 .. m - 1 : Within(k.free[1], x)
      BY <2>1, <3>1 DEF Within
    <3> QED
      BY <2>1, <2>2, <3>1, <3>2 DEF Ordered, Below, Covered
  <2>4. k2 \in ChunkType
    <3> HIDE DEF k
    <3> QED
      BY <1>0, <2>1, <2>2, TakenOK
  <2>5. /\ Ordered(k2.free) /\ Below(k2.free, m) /\ End(Block(0, n)) <= m
        /\ \A x \in Nat : Covered(k.free, x) => Covered(k2.free, x) \/ Within(Block(0, n), x)
    <3> HIDE DEF k
    <3> QED
      BY <1>0, <2>1, <2>2, <2>3, TakeJoins
  <2>6. ChunkBecomes(b, c, k2)
    <3>1. chunks' = [chunks EXCEPT ![b] = Append(@, k2)]
      BY <1>6
    <3> HIDE DEF k2
    <3> QED
      BY <1>0, <2>4, <3>1, Added
  <2>7. /\ place'[t] = At(b, c, 0, n) /\ In(place'[t], b, c)
        /\ \A u \in live : place'[u] = place[u]
    BY <1>2, <1>6
  <2>8. \A u \in live : ~In(place[u], b, c)
    <3>1. \A u \in live : place[u].chunk \in 1 .. Len(chunks[place[u].buffer])
      BY DEF AllocInv
    <3> QED
      BY <1>0, <3>1 DEF In
  <2>9. /\ End(place'[t]) <= m /\ place'[t].size > 0
        /\ \A x \in Nat : Within(Block(0, n), x) => Within(place'[t], x)
    <3> HIDE DEF k, k2, m, c
    <3> QED
      BY <1>0, <1>3, <2>5, <2>7
  <2> HIDE DEF k2, k, m, c
  <2>10. ASSUME NEW x \in 0 .. m - 1
         PROVE  \/ Covered(k2.free, x)
                \/ \E u \in live' : In(place'[u], b, c) /\ Within(place'[u], x)
    <3>1. x \in Nat /\ Covered(k.free, x)
      BY <2>1, <2>3
    <3> QED
      BY <1>1, <2>5, <2>7, <2>9, <3>1
  <2>11. \A u \in live' : In(place'[u], b, c) => End(place'[u]) <= m
    BY <1>1, <2>7, <2>8, <2>9
  <2>12. /\ \A u \in live' : (u \in live /\ place'[u] = place[u]) \/ In(place'[u], b, c)
         /\ \A u \in live : (u \in live' /\ place'[u] = place[u]) \/ In(place[u], b, c)
         /\ \A u \in live' : place'[u].size > 0
    BY <1>1, <2>7, <2>9 DEF OrderInv
  <2> QED
    BY <1>4, <2>1, <2>2, <2>5, <2>6, <2>10, <2>11, <2>12, OrderStep
<1>7. \/ \E c \in 1 .. Len(chunks[b]) : \E i \in 1 .. Len(chunks[b][c].free) :
            /\ chunks[b][c].free[i].size >= n
            /\ chunks' = [chunks EXCEPT ![b][c] = TakeFrom(@, i, n)]
            /\ place' = [place EXCEPT ![t] = At(b, c, chunks[b][c].free[i].offset, n)]
      \/ /\ NewChunk(b, n).free[1].size >= n
         /\ chunks' = [chunks EXCEPT ![b] = Append(@, TakeFrom(NewChunk(b, n), 1, n))]
         /\ place' = [place EXCEPT ![t] = At(b, Len(chunks[b]) + 1, 0, n)]
  BY DEF Allocate, BestInner, BestLast, InnerFit, LastFit, n
<1> QED
  BY <1>5, <1>6, <1>7

LEMMA ReleaseOrders ==
  ASSUME AllocInv, OrderInv, NEW t \in Tensors, Release(t)
  PROVE  OrderInv'
<1> DEFINE b == place[t].buffer
           c == place[t].chunk
           p == place[t]
<1>1. t \in live /\ live' = live \ {t} /\ place' = place /\ FreeBytes(p)
  BY DEF Release
<1>2. /\ b \in Buffers /\ c \in 1 .. Len(chunks[b]) /\ Piece(p) /\ p.size > 0 /\ In(p, b, c)
      /\ Misses(chunks[b][c].free, p) /\ Ordered(chunks[b][c].free)
  BY <1>1, Given DEF OrderInv, In
<1>3. PICK free2 :
        /\ free2 \in Seq(BlockType) /\ Joins(chunks[b][c].free, p, free2)
        /\ chunks' = [chunks EXCEPT ![b][c].free = free2]
  BY <1>1, <1>2, FreeBytesJoins
<1>4. PICK k \in ChunkType : k.free = free2 /\ ChunkBecomes(b, c, k)
  BY <1>2, <1>3, FreeChanged DEF AllocInv
<1>5. PICK m \in Nat : m > 0 /\ Whole(b, c, m)
  BY <1>2 DEF OrderInv
<1> HIDE DEF b, c, p
<1>6. Ordered(k.free) /\ Below(k.free, m)
  <2>1. End(p) <= m /\ Below(chunks[b][c].free, m)
    BY <1>1, <1>2, <1>5 DEF Whole, p
  <2> QED
    BY <1>3, <1>4, <1>5, <2>1 DEF Joins
<1>7. ASSUME NEW x \in 0 .. m - 1
      PROVE  \/ Covered(k.free, x)
             \/ \E u \in live' : In(place'[u], b, c) /\ Within(place'[u], x)
  <2>1. x \in Nat
    BY <1>5
  <2>2. \/ Covered(chunks[b][c].free, x)
        \/ \E u \in live : In(place[u], b, c) /\ Within(place[u], x)
    BY <1>5 DEF Whole
  <2>3. CASE Covered(chunks[b][c].free, x) \/ Within(p, x)
    BY <1>3, <1>4, <2>1, <2>3 DEF Joins
  <2>4. ASSUME NEW u \in live, In(place[u], b, c), Within(place[u], x), u # t
        PROVE  \E v \in live' : In(place'[v], b, c) /\ Within(place'[v], x)
    BY <1>1, <2>4
  <2> QED
    BY <2>2, <2>3, <2>4 DEF p
<1>8. \A u \in live' : In(place'[u], b, c) => End(place'[u]) <= m
  BY <1>1, <1>5 DEF Whole
<1>9. /\ \A u \in live' : (u \in live /\ place'[u] = place[u]) \/ In(place'[u], b, c)
      /\ \A u \in live : (u \in live' /\ place'[u] = place[u]) \/ In(place[u], b, c)
      /\ \A u \in live' : place'[u].size > 0
  BY <1>1, <1>2 DEF OrderInv, p
<1>10. IsFiniteSet(live')
  BY <1>1, FS_RemoveElement DEF OrderInv
<1> QED
  BY <1>2, <1>4, <1>5, <1>6, <1>7, <1>8, <1>9, <1>10, OrderStep

LEMMA TakeOverOrders ==
  ASSUME AllocInv, OrderInv, NEW t \in Tensors, NEW p \in Tensors, NEW size \in Nat, size > 0,
         TakeOver(t, p, size)
  PROVE  OrderInv'
<1> DEFINE n == Aligned(size)
           here == place[p]
           b == here.buffer
           c == here.chunk
           front == At(b, c, here.offset, n)
           rest == At(b, c, here.offset + n, here.size - n)
<1>1. /\ n \in Nat /\ n > 0 /\ p \in live /\ t \notin live /\ n <= here.size
      /\ live' = (live \ {p}) \cup {t}
  BY AlignedNat DEF TakeOver
<1>2. /\ b \in Buffers /\ c \in 1 .. Len(chunks[b]) /\ chunks[b][c] \in ChunkType
      /\ FreeOK(chunks[b][c].free) /\ Piece(here) /\ Misses(chunks[b][c].free, here)
      /\ Ordered(chunks[b][c].free) /\ In(here, b, c)
  BY <1>1, Given DEF OrderInv, In
<1>3. /\ place'[t] = front
      /\ \A u \in live : place'[u] = place[u]
  BY <1>1 DEF TakeOver, AllocInv
<1>4. /\ In(front, b, c) /\ front.size = n /\ Piece(rest) /\ rest.size = here.size - n
      /\ rest.buffer = b /\ rest.chunk = c
      /\ End(front) <= End(here) /\ End(rest) = End(here)
      /\ \A q : Piece(q) /\ Apart(here, q) => Apart(rest, q)
      /\ \A x \in Nat : Within(here, x) => Within(front, x) \/ Within(rest, x)
      /\ n = here.size => \A x \in Nat : Within(here, x) => Within(front, x)
  <2>1. here.offset \in Nat /\ here.size \in Nat
    BY <1>2 DEF Piece
  <2> HIDE DEF n, here, b, c
  <2> QED
    BY <1>1, <2>1 DEF At, Piece, In, End, Apart, Within
<1>5. Misses(chunks[b][c].free, rest)
  <2>1. \A i \in 1 .. Len(chunks[b][c].free) : Piece(chunks[b][c].free[i])
    BY <1>2, FreePiece DEF FreeOK
  <2> HIDE DEF here, b, c, front, rest
  <2>2. \A i \in 1 .. Len(chunks[b][c].free) : Apart(here, chunks[b][c].free[i])
    BY <1>2, <2>1, ApartSym DEF Misses
  <2> QED
    BY <1>4, <2>1, <2>2, ApartSym DEF Misses
<1>6. PICK m \in Nat : m > 0 /\ Whole(b, c, m)
  BY <1>2 DEF OrderInv
<1>7. End(here) \in Nat /\ End(here) <= m /\ Below(chunks[b][c].free, m)
  <2>1. End(here) \in Nat
    BY <1>2 DEF Piece, End
  <2>2. End(here) <= m
    <3>1. p \in live /\ In(place[p], b, c)
      BY <1>1, <1>2
    <3>2. \A u \in live : In(place[u], b, c) => End(place[u]) <= m
      BY <1>6 DEF Whole
    <3> QED
      BY <3>1, <3>2
  <2>3. Below(chunks[b][c].free, m)
    BY <1>6 DEF Whole
  <2> QED
    BY <2>1, <2>2, <2>3
<1>8. PICK k \in ChunkType :
        /\ ChunkBecomes(b, c, k) /\ Ordered(k.free) /\ Below(k.free, m)
        /\ \A x \in Nat : Covered(chunks[b][c].free, x) => Covered(k.free, x)
        /\ \A x \in Nat : Within(here, x) => Within(front, x) \/ Covered(k.free, x)
  <2>1. CASE n < here.size
    <3>1. FreeBytes(rest) /\ rest.size > 0
      <4>1. FreeBytes(rest) /\ here.size \in Nat
        BY <1>2, <2>1 DEF TakeOver, Piece
      <4> HIDE DEF here, b, c, rest, n
      <4> QED
        BY <1>1, <1>4, <2>1, <4>1
    <3>2. PICK free2 :
            /\ free2 \in Seq(BlockType) /\ Joins(chunks[b][c].free, rest, free2)
            /\ chunks' = [chunks EXCEPT ![b][c].free = free2]
      <4>1. /\ rest.buffer \in Buffers /\ rest.chunk \in 1 .. Len(chunks[rest.buffer])
            /\ Misses(chunks[rest.buffer][rest.chunk].free, rest)
            /\ Ordered(chunks[rest.buffer][rest.chunk].free)
        <5> HIDE DEF here, b, c, rest
        <5> QED
          BY <1>2, <1>4, <1>5
      <4>2. PICK free2 :
              /\ free2 \in Seq(BlockType) /\ Joins(chunks[rest.buffer][rest.chunk].free, rest, free2)
              /\ chunks' = [chunks EXCEPT ![rest.buffer][rest.chunk].free = free2]
        <5> HIDE DEF here, b, c, rest
        <5> QED
          BY <1>4, <3>1, <4>1, FreeBytesJoins
      <4> HIDE DEF here, b, c, rest
      <4> QED
        BY <1>4, <4>2
    <3>3. PICK k \in ChunkType : k.free = free2 /\ ChunkBecomes(b, c, k)
      BY <1>2, <3>2, FreeChanged DEF AllocInv
    <3> HIDE DEF here, b, c, rest, front
    <3>4. End(rest) <= m
      BY <1>4, <1>7
    <3>5. Ordered(k.free) /\ Below(k.free, m)
      BY <1>7, <3>2, <3>3, <3>4 DEF Joins
    <3>6. \A x \in Nat : Covered(chunks[b][c].free, x) \/ Within(rest, x) => Covered(k.free, x)
      BY <3>2, <3>3 DEF Joins
    <3> QED
      BY <1>4, <3>3, <3>5, <3>6
  <2>2. CASE ~(n < here.size)
    <3>1. chunks' = chunks
      BY <2>2 DEF TakeOver
    <3>2. ChunkBecomes(b, c, chunks[b][c])
      BY <1>2, <3>1 DEF ChunkBecomes, AllocInv
    <3>3. n = here.size
      <4>1. here.size \in Nat
        BY <1>2 DEF Piece
      <4> HIDE DEF n, here
      <4> QED
        BY <1>1, <2>2, <4>1
    <3> HIDE DEF here, b, c, rest, front, n
    <3> QED
      BY <1>2, <1>4, <1>7, <3>2, <3>3
  <2> QED
    BY <2>1, <2>2
<1>9. p # t /\ p \in live /\ place[p] = here
  BY <1>1
<1> HIDE DEF here, b, c, front, rest, n
<1>10. ASSUME NEW x \in 0 .. m - 1
       PROVE  \/ Covered(k.free, x)
              \/ \E u \in live' : In(place'[u], b, c) /\ Within(place'[u], x)
  <2>1. x \in Nat
    BY <1>6
  <2>2. \/ Covered(chunks[b][c].free, x)
        \/ \E u \in live : In(place[u], b, c) /\ Within(place[u], x)
    BY <1>6 DEF Whole
  <2>3. CASE Covered(chunks[b][c].free, x) \/ Within(here, x)
    BY <1>1, <1>3, <1>4, <1>8, <2>1, <2>3
  <2>4. ASSUME NEW u \in live, In(place[u], b, c), Within(place[u], x), u # p
        PROVE  \E v \in live' : In(place'[v], b, c) /\ Within(place'[v], x)
    BY <1>1, <1>3, <2>4
  <2> QED
    BY <1>9, <2>2, <2>3, <2>4
<1>11. ASSUME NEW u \in live', In(place'[u], b, c) PROVE End(place'[u]) <= m
  <2>1. CASE u = t
    <3>1. End(front) \in Int
      <4>1. Piece(here) /\ n \in Nat
        BY <1>1, <1>2
      <4> QED
        BY <4>1 DEF front, At, End, Piece
    <3> QED
      BY <1>3, <1>4, <1>7, <2>1, <3>1
  <2>2. CASE u # t
    BY <1>1, <1>3, <1>6, <1>11, <2>2 DEF Whole
  <2> QED
    BY <2>1, <2>2
<1>12. /\ \A u \in live' : (u \in live /\ place'[u] = place[u]) \/ In(place'[u], b, c)
       /\ \A u \in live : (u \in live' /\ place'[u] = place[u]) \/ In(place[u], b, c)
       /\ \A u \in live' : place'[u].size > 0
  BY <1>1, <1>2, <1>3, <1>4, <1>9 DEF OrderInv
<1>13. IsFiniteSet(live')
  <2>1. IsFiniteSet(live \ {p})
    BY FS_RemoveElement DEF OrderInv
  <2> QED
    BY <1>1, <2>1, FS_AddElement
<1> QED
  BY <1>2, <1>6, <1>8, <1>10, <1>11, <1>12, <1>13, OrderStep

LEMMA OrderInvKept ==
  ASSUME 0 \notin Sizes, AllocInv, OrderInv, [AllocNext]_allocVars PROVE OrderInv'
<1>0. \A size \in Sizes : size \in Nat /\ size > 0
  BY AllocAssumption
<1>1. ASSUME NEW t \in Tensors, NEW b \in Buffers, NEW size \in Sizes, Allocate(t, b, size)
      PROVE  OrderInv'
  BY <1>0, <1>1, AllocateOrders
<1>2. ASSUME NEW t \in Tensors, Release(t) PROVE OrderInv'
  BY <1>2, ReleaseOrders
<1>3. ASSUME NEW t \in Tensors, NEW p \in Tensors, NEW size \in Sizes, TakeOver(t, p, size)
      PROVE  OrderInv'
  BY <1>0, <1>3, TakeOverOrders
<1>4. CASE Reset
  BY <1>4, FS_EmptySet DEF Reset, OrderInv
<1>5. CASE UNCHANGED allocVars
  BY <1>5 DEF allocVars, OrderInv, Whole
<1> QED
  BY <1>1, <1>2, <1>3, <1>4, <1>5 DEF AllocNext

\* While every tensor has some bytes, the array of free blocks is sorted, no two of its blocks
\* touch, and a chunk that no tensor is in is one block: for any client, any sizes, alignment and
\* number of tensors, whatever order memory is given back in.
THEOREM FreeBlocksCompact == ASSUME 0 \notin Sizes PROVE AllocSpec => []BlocksSound
<1>1. AllocInit => AllocInv /\ OrderInv
  BY AllocInvInit, FS_EmptySet DEF AllocInit, OrderInv
<1>2. AllocInv /\ OrderInv /\ [AllocNext]_allocVars => AllocInv' /\ OrderInv'
  BY StepKeeps, OrderInvKept
<1>3. AllocInv /\ OrderInv => BlocksSound
  BY AllocInvImplies, OrderInvImplies DEF BlocksSound
<1> QED
  BY <1>1, <1>2, <1>3, PTL DEF AllocSpec

(***************************************************************************)
(* The graph allocator as a client.                                         *)
(***************************************************************************)
GraphInv ==
  /\ family \in Families /\ graph \in family
  /\ live \subseteq Tensors

LEMMA GraphFits == ASSUME GraphInv PROVE graph.size \in [Tensors -> Sizes]
BY GraphAssumption DEF GraphInv, GraphOK

LEMMA AllocateNodeImplements ==
  ASSUME GraphInv, NEW t \in Tensors, NEW b \in Buffers, AllocateNode(t, b)
  PROVE  [AllocNext]_allocVars
<1>1. graph.size[t] \in Sizes
  BY GraphFits
<1>2. ASSUME NEW j \in DOMAIN graph.srcs[t], FirstReusable(t, j),
             TakeOver(t, graph.srcs[t][j], graph.size[t])
      PROVE  AllocNext
  <2>1. graph.srcs[t][j] \in Tensors
    BY <1>2 DEF FirstReusable, Reusable, GraphInv
  <2> QED
    BY <1>1, <1>2, <2>1 DEF AllocNext
<1>3. ASSUME Allocate(t, b, graph.size[t]) PROVE AllocNext
  BY <1>1, <1>3 DEF AllocNext
<1> QED
  BY <1>2, <1>3 DEF AllocateNode

LEMMA FreeNodeImplements ==
  ASSUME GraphInv, NEW t, FreeNode(t) PROVE [AllocNext]_allocVars
BY DEF FreeNode, AllocNext, GraphInv

LEMMA DropParentImplements ==
  ASSUME GraphInv, NEW t \in Tensors, DropParent(t) PROVE [AllocNext]_allocVars
<1>1. FreeNode(graph.root[t]) \/ UNCHANGED allocVars
  BY DEF DropParent
<1> QED
  BY <1>1, FreeNodeImplements

LEMMA StepImplements ==
  ASSUME GraphInv, [Next]_gvars PROVE [AllocNext]_allocVars
<1>1. ASSUME NEW g \in family, AllocGraph(g) PROVE [AllocNext]_allocVars
  BY <1>1 DEF AllocGraph, BeginPlan, PlaceGraph, AllocNext
<1>2. ASSUME NEW g \in family, Reserve(g) PROVE [AllocNext]_allocVars
  BY <1>2 DEF Reserve, BeginPlan, AllocNext
<1>3. CASE Step
  <2>1. ASSUME NEW t \in Tensors, NEW b \in Buffers, AllocateNode(t, b) PROVE [AllocNext]_allocVars
    BY <2>1, AllocateNodeImplements
  <2>2. ASSUME NEW t \in Tensors, DropParent(t) PROVE [AllocNext]_allocVars
    BY <2>2, DropParentImplements
  <2> QED
    BY <1>3, <2>1, <2>2 DEF Step
<1>4. CASE Commit
  BY <1>4 DEF Commit
<1>5. CASE Place
  BY <1>5 DEF Place, PlaceGraph
<1>6. CASE UNCHANGED gvars
  BY <1>6 DEF gvars, allocVars
<1> QED
  BY <1>1, <1>2, <1>3, <1>4, <1>5, <1>6 DEF Next

LEMMA GraphInvKept ==
  ASSUME GraphInv, [Next]_gvars PROVE GraphInv'
<1>1. family' = family /\ graph' \in family
  BY DEF GraphInv, Next, gvars, planVars, AllocGraph, BeginPlan, PlaceGraph, Reserve, Step, Commit, Place
<1>2. live' \subseteq Tensors
  BY StepImplements DEF GraphInv, AllocNext, allocVars, Allocate, Release, TakeOver, Reset
<1> QED
  BY <1>1, <1>2 DEF GraphInv

\* The graph allocator implements the allocator of DynAlloc, and with it what its clients can
\* rely on: whatever graphs are reserved, planned and placed one after the other, no two
\* tensors that have memory share a byte and none of it is free.
THEOREM GraphAllocExclusive == Spec => AllocSpec /\ [](LiveApart /\ FreeIsFree)
<1>1. Init => GraphInv /\ AllocInit
  BY DEF Init, GraphInv, AllocInit
<1>2. GraphInv /\ [Next]_gvars => GraphInv' /\ [AllocNext]_allocVars
  BY GraphInvKept, StepImplements
<1>3. Spec => AllocSpec
  BY <1>1, <1>2, PTL DEF Spec, AllocSpec
<1> QED
  BY <1>3, MemoryExclusive, PTL

\* So they are for the graph allocator, whatever graphs it plans.
THEOREM GraphBlocksCompact == ASSUME 0 \notin Sizes PROVE Spec => []BlocksSound
BY GraphAllocExclusive, FreeBlocksCompact, PTL

(***************************************************************************)
(* Sequences that are put together.                                         *)
(***************************************************************************)
\* A set of naturals that holds 0 and the successor of each of its members is Nat.
LEMMA SetInduction ==
  ASSUME NEW T \in SUBSET Nat, 0 \in T, \A n \in T : n + 1 \in T
  PROVE  T = Nat
<1> SUFFICES ASSUME Nat \ T # {} PROVE FALSE
  OBVIOUS
<1>1. PICK x \in Nat \ T : \A y \in Nat \ T : ~(<<y, x>> \in OpToRel(<, Nat))
  BY NatLessThanWellFounded, WFMin
<1>0. x \in Nat /\ x # 0
  OBVIOUS
<1>2. x - 1 \in Nat /\ x - 1 < x /\ (x - 1) + 1 = x
  BY <1>0
<1>3. x - 1 \notin T
  BY <1>1, <1>2
<1>4. <<x - 1, x>> \in OpToRel(<, Nat)
  BY <1>1, <1>2 DEF OpToRel
<1> QED
  BY <1>1, <1>2, <1>3, <1>4

\* parts[i] is the first i sequences in one.
Parts(S, ss, m, parts) ==
  /\ parts \in [1 .. m -> Seq(S)]
  /\ \A i \in 1 .. m : parts[i] = IF i = 1 THEN ss[i] ELSE parts[i - 1] \o ss[i]

LEMMA PartsExist ==
  ASSUME NEW S, NEW ss \in Seq(Seq(S))
  PROVE  \E parts : Parts(S, ss, Len(ss), parts)
<1> DEFINE T == {n \in Nat : n <= Len(ss) => \E parts : Parts(S, ss, n, parts)}
<1>0. Len(ss) \in Nat /\ \A i \in 1 .. Len(ss) : ss[i] \in Seq(S)
  OBVIOUS
<1>1. 0 \in T
  <2>1. PICK none : none = [i \in 1 .. 0 |-> <<>>]
    OBVIOUS
  <2>2. none \in [1 .. 0 -> Seq(S)] /\ \A i \in 1 .. 0 : FALSE
    BY <2>1
  <2>3. Parts(S, ss, 0, none)
    BY <2>2 DEF Parts
  <2> QED
    BY <2>3
<1>2. ASSUME NEW n \in T PROVE n + 1 \in T
  <2>0. n \in Nat
    OBVIOUS
  <2> SUFFICES ASSUME n + 1 <= Len(ss) PROVE \E parts : Parts(S, ss, n + 1, parts)
    OBVIOUS
  <2>1. PICK parts : Parts(S, ss, n, parts)
    BY <1>0, <2>0
  <2> DEFINE last == IF n + 1 = 1 THEN ss[n + 1] ELSE parts[n] \o ss[n + 1]
             more == [i \in 1 .. n + 1 |-> IF i = n + 1 THEN last ELSE parts[i]]
  <2>2. n + 1 \in 1 .. Len(ss) /\ ss[n + 1] \in Seq(S)
    BY <1>0, <2>0
  <2>3. last \in Seq(S)
    <3>1. CASE n = 0
      BY <2>2, <3>1
    <3>2. CASE n # 0
      <4>1. n \in 1 .. n /\ n + 1 # 1
        BY <2>0, <3>2
      <4>2. parts[n] \in Seq(S)
        BY <2>1, <4>1 DEF Parts
      <4> QED
        BY <2>2, <4>1, <4>2, ConcatProperties
    <3> QED
      BY <3>1, <3>2
  <2> HIDE DEF last
  <2>4. more \in [1 .. n + 1 -> Seq(S)]
    <3>1. ASSUME NEW i \in 1 .. n + 1 PROVE more[i] \in Seq(S)
      <4>1. CASE i = n + 1
        BY <2>3, <4>1
      <4>2. CASE i # n + 1
        <5>1. i \in 1 .. n
          BY <2>0, <4>2
        <5> QED
          BY <2>1, <4>2, <5>1 DEF Parts
      <4> QED
        BY <4>1, <4>2
    <3> QED
      BY <3>1
  <2>5. ASSUME NEW i \in 1 .. n + 1
        PROVE  more[i] = IF i = 1 THEN ss[i] ELSE more[i - 1] \o ss[i]
    <3>1. CASE i = n + 1
      <4>1. more[i] = last
        BY <3>1
      <4>2. CASE n = 0
        BY <3>1, <4>1, <4>2 DEF last
      <4>3. CASE n # 0
        <5>1. i # 1 /\ i - 1 = n /\ n \in 1 .. n + 1 /\ n # n + 1 /\ n + 1 # 1
          BY <2>0, <3>1, <4>3
        <5>2. more[i - 1] = parts[n]
          BY <5>1
        <5>3. last = parts[n] \o ss[i]
          BY <3>1, <5>1 DEF last
        <5> HIDE DEF more
        <5> QED
          BY <4>1, <5>1, <5>2, <5>3
      <4> QED
        BY <4>2, <4>3
    <3>2. CASE i # n + 1
      <4>1. i \in 1 .. n /\ (i # 1 => i - 1 \in 1 .. n /\ i - 1 \in 1 .. n + 1 /\ i - 1 # n + 1)
        BY <2>0, <3>2
      <4>2. more[i] = parts[i] /\ (i # 1 => more[i - 1] = parts[i - 1])
        BY <3>2, <4>1
      <4>3. parts[i] = IF i = 1 THEN ss[i] ELSE parts[i - 1] \o ss[i]
        BY <2>1, <4>1 DEF Parts
      <4> HIDE DEF more
      <4> QED
        BY <4>2, <4>3
    <3> QED
      BY <3>1, <3>2
  <2> HIDE DEF more
  <2>6. Parts(S, ss, n + 1, more)
    BY <2>4, <2>5 DEF Parts
  <2> QED
    BY <2>6
<1>3. T \in SUBSET Nat
  OBVIOUS
<1> HIDE DEF T
<1>4. T = Nat
  BY <1>1, <1>2, <1>3, SetInduction
<1> QED
  BY <1>0, <1>4 DEF T

\* So FlattenSeq is the last of them.
LEMMA FlattenLast ==
  ASSUME NEW S, NEW ss \in Seq(Seq(S)), Len(ss) # 0
  PROVE  \E parts : Parts(S, ss, Len(ss), parts) /\ FlattenSeq(ss) = parts[Len(ss)]
<1> DEFINE Def(f) == [i \in 1 .. Len(ss) |-> IF i = 1 THEN ss[i] ELSE f[i - 1] \o ss[i]]
           flatten == CHOOSE f : f = Def(f)
<1>0. Len(ss) \in Nat /\ \A i \in 1 .. Len(ss) : ss[i] \in Seq(S)
  OBVIOUS
<1>1. FlattenSeq(ss) = flatten[Len(ss)]
  BY DEF FlattenSeq
<1>2. PICK parts : Parts(S, ss, Len(ss), parts)
  BY PartsExist
<1>3. parts = Def(parts)
  BY <1>2 DEF Parts
<1>4. flatten = Def(flatten)
  <2> HIDE DEF Def
  <2> QED
    BY <1>3
<1> HIDE DEF flatten
<1>5. \A i \in 1 .. Len(ss) : flatten[i] = IF i = 1 THEN ss[i] ELSE flatten[i - 1] \o ss[i]
  BY <1>4
<1>6. flatten = [i \in 1 .. Len(ss) |-> flatten[i]]
  BY <1>4
<1> DEFINE T == {n \in Nat : n + 1 <= Len(ss) => flatten[n + 1] \in Seq(S)}
<1>7. 0 \in T
  BY <1>0, <1>5
<1>8. ASSUME NEW n \in T PROVE n + 1 \in T
  <2> SUFFICES ASSUME n + 1 + 1 <= Len(ss) PROVE flatten[n + 1 + 1] \in Seq(S)
    OBVIOUS
  <2>1. n + 1 + 1 \in 1 .. Len(ss) /\ n + 1 + 1 # 1 /\ (n + 1 + 1) - 1 = n + 1 /\ n + 1 <= Len(ss)
    BY <1>0
  <2>2. flatten[n + 1] \in Seq(S) /\ ss[n + 1 + 1] \in Seq(S)
    BY <1>0, <2>1
  <2>3. flatten[n + 1 + 1] = flatten[n + 1] \o ss[n + 1 + 1]
    BY <1>5, <2>1
  <2> QED
    BY <2>2, <2>3, ConcatProperties
<1>9. T \in SUBSET Nat
  OBVIOUS
<1>10. \A i \in 1 .. Len(ss) : flatten[i] \in Seq(S)
  <2> SUFFICES ASSUME NEW i \in 1 .. Len(ss) PROVE flatten[i] \in Seq(S)
    OBVIOUS
  <2>1. i - 1 \in Nat /\ (i - 1) + 1 = i
    BY <1>0
  <2>2. i - 1 \in T
    <3> HIDE DEF T
    <3> QED
      BY <1>7, <1>8, <1>9, <2>1, SetInduction
  <2> QED
    BY <2>1, <2>2
<1>11. Parts(S, ss, Len(ss), flatten)
  BY <1>5, <1>6, <1>10 DEF Parts
<1> QED
  BY <1>1, <1>11

\* p holds what the first m sequences hold.
Covers(p, ss, m) ==
  /\ \A k \in 1 .. Len(p) : \E i \in 1 .. m : \E j \in 1 .. Len(ss[i]) : p[k] = ss[i][j]
  /\ \A i \in 1 .. m : \A j \in 1 .. Len(ss[i]) : \E k \in 1 .. Len(p) : p[k] = ss[i][j]

LEMMA CoversMore ==
  ASSUME NEW S, NEW ss, NEW m \in Nat, NEW p \in Seq(S), ss[m + 1] \in Seq(S), Covers(p, ss, m)
  PROVE  Covers(p \o ss[m + 1], ss, m + 1)
<1>1. PICK q, new : q = ss[m + 1] /\ new = p \o q
  OBVIOUS
<1>2. /\ new \in Seq(S) /\ Len(new) = Len(p) + Len(q) /\ Len(p) \in Nat /\ Len(q) \in Nat
      /\ \A k \in 1 .. Len(p) + Len(q) : new[k] = IF k <= Len(p) THEN p[k] ELSE q[k - Len(p)]
  BY <1>1, ConcatProperties
<1>3. ASSUME NEW k \in 1 .. Len(new)
      PROVE  \E i \in 1 .. m + 1 : \E j \in 1 .. Len(ss[i]) : new[k] = ss[i][j]
  <2>1. CASE k <= Len(p)
    <3>1. k \in 1 .. Len(p) /\ new[k] = p[k]
      BY <1>2, <2>1
    <3>2. PICK i \in 1 .. m : \E j \in 1 .. Len(ss[i]) : p[k] = ss[i][j]
      BY <3>1 DEF Covers
    <3>3. i \in 1 .. m + 1
      OBVIOUS
    <3> QED
      BY <3>1, <3>2, <3>3
  <2>2. CASE ~(k <= Len(p))
    <3>1. k - Len(p) \in 1 .. Len(q) /\ new[k] = q[k - Len(p)]
      BY <1>2, <2>2
    <3>2. m + 1 \in 1 .. m + 1
      OBVIOUS
    <3> QED
      BY <1>1, <3>1, <3>2
  <2> QED
    BY <2>1, <2>2
<1>4. ASSUME NEW i \in 1 .. m + 1, NEW j \in 1 .. Len(ss[i])
      PROVE  \E k \in 1 .. Len(new) : new[k] = ss[i][j]
  <2>1. CASE i \in 1 .. m
    <3>1. PICK k \in 1 .. Len(p) : p[k] = ss[i][j]
      BY <2>1 DEF Covers
    <3>2. k \in 1 .. Len(new) /\ new[k] = p[k]
      BY <1>2
    <3> QED
      BY <3>1, <3>2
  <2>2. CASE i = m + 1
    <3>1. Len(p) + j \in 1 .. Len(new) /\ new[Len(p) + j] = q[j]
      BY <1>1, <1>2, <2>2
    <3> QED
      BY <1>1, <2>2, <3>1
  <2> QED
    BY <2>1, <2>2
<1> QED
  BY <1>1, <1>3, <1>4 DEF Covers

\* FlattenSeq is a sequence of what the sequences hold, and of all of it.
LEMMA FlattenIs ==
  ASSUME NEW S, NEW ss \in Seq(Seq(S))
  PROVE  FlattenSeq(ss) \in Seq(S) /\ Covers(FlattenSeq(ss), ss, Len(ss))
<1>0. Len(ss) \in Nat /\ \A i \in 1 .. Len(ss) : ss[i] \in Seq(S)
  OBVIOUS
<1>1. CASE Len(ss) = 0
  <2>1. FlattenSeq(ss) = ss /\ ss = <<>>
    BY <1>1, EmptySeq DEF FlattenSeq
  <2>2. <<>> \in Seq(S) /\ Len(<<>>) = 0 /\ 1 .. 0 = {}
    BY EmptySeq
  <2> QED
    BY <2>1, <2>2 DEF Covers
<1>2. CASE Len(ss) # 0
  <2>1. PICK parts : Parts(S, ss, Len(ss), parts) /\ FlattenSeq(ss) = parts[Len(ss)]
    BY <1>2, FlattenLast
  <2> DEFINE T == {n \in Nat : n + 1 <= Len(ss) => Covers(parts[n + 1], ss, n + 1)}
  <2>2. 0 \in T
    <3>1. 1 \in 1 .. Len(ss)
      BY <1>0, <1>2
    <3>2. parts[1] = ss[1]
      BY <2>1, <3>1 DEF Parts
    <3>3. Covers(ss[1], ss, 1)
      BY DEF Covers
    <3> QED
      BY <3>2, <3>3
  <2>3. ASSUME NEW n \in T PROVE n + 1 \in T
    <3> SUFFICES ASSUME n + 1 + 1 <= Len(ss) PROVE Covers(parts[n + 1 + 1], ss, n + 1 + 1)
      OBVIOUS
    <3>1. /\ n + 1 + 1 \in 1 .. Len(ss) /\ n + 1 \in 1 .. Len(ss) /\ n + 1 + 1 # 1
          /\ (n + 1 + 1) - 1 = n + 1 /\ n + 1 \in Nat
      BY <1>0
    <3>2. Covers(parts[n + 1], ss, n + 1)
      BY <3>1
    <3>3. parts[n + 1 + 1] = parts[n + 1] \o ss[n + 1 + 1] /\ parts[n + 1] \in Seq(S)
      BY <2>1, <3>1 DEF Parts
    <3>4. PICK m : m = n + 1
      OBVIOUS
    <3> QED
      BY <1>0, <3>1, <3>2, <3>3, <3>4, CoversMore
  <2>4. T \in SUBSET Nat
    OBVIOUS
  <2>5. Len(ss) - 1 \in Nat /\ (Len(ss) - 1) + 1 = Len(ss)
    BY <1>0, <1>2
  <2>6. Len(ss) - 1 \in T
    <3> HIDE DEF T
    <3> QED
      BY <2>2, <2>3, <2>4, <2>5, SetInduction
  <2>7. Covers(parts[Len(ss)], ss, Len(ss))
    BY <2>5, <2>6
  <2>8. parts[Len(ss)] \in Seq(S)
    <3>1. Len(ss) \in 1 .. Len(ss)
      BY <1>0, <1>2
    <3> QED
      BY <2>1, <3>1 DEF Parts
  <2> QED
    BY <2>1, <2>7, <2>8
<1> QED
  BY <1>1, <1>2

(***************************************************************************)
(* Chunks grow while a graph is planned.                                    *)
(***************************************************************************)
Grow ==
  \A b \in Buffers : \A c \in 1 .. Len(chunks[b]) :
    c \in 1 .. Len(chunks'[b]) /\ chunks[b][c].max <= chunks'[b][c].max

LEMMA ChunkGrows ==
  ASSUME chunks \in [Buffers -> Seq(ChunkType)], NEW b \in Buffers, NEW c \in 1 .. Len(chunks[b]),
         NEW k, chunks' = [chunks EXCEPT ![b][c] = k], chunks[b][c].max <= k.max
  PROVE  Grow
<1> SUFFICES ASSUME NEW d \in Buffers, NEW e \in 1 .. Len(chunks[d])
             PROVE  e \in 1 .. Len(chunks'[d]) /\ chunks[d][e].max <= chunks'[d][e].max
  BY DEF Grow
<1>1. chunks[d] \in Seq(ChunkType) /\ chunks[d][e] \in ChunkType
  OBVIOUS
<1>2. chunks[d][e].max \in Nat
  BY <1>1 DEF ChunkType
<1>3. CASE d # b
  BY <1>2, <1>3
<1>4. CASE d = b
  <2>1. PICK s : s = chunks[b] /\ s \in Seq(ChunkType) /\ chunks'[b] = [s EXCEPT ![c] = k]
    BY <1>1, <1>4
  <2>2. Len(chunks'[b]) = Len(s) /\ chunks'[b][e] = IF e = c THEN k ELSE s[e]
    <3>1. c \in 1 .. Len(s) /\ e \in 1 .. Len(s) /\ DOMAIN s = 1 .. Len(s)
      BY <1>4, <2>1
    <3>2. Len([s EXCEPT ![c] = k]) = Len(s)
      BY <2>1, <3>1
    <3> QED
      BY <2>1, <3>1, <3>2
  <2> QED
    BY <1>2, <1>4, <2>1, <2>2
<1> QED
  BY <1>3, <1>4

LEMMA FreeBytesGrows ==
  ASSUME AllocInv, NEW p, p.buffer \in Buffers, p.chunk \in 1 .. Len(chunks[p.buffer]), FreeBytes(p)
  PROVE  Grow
<1>1. PICK free2 : chunks' = [chunks EXCEPT ![p.buffer][p.chunk].free = free2]
  BY DEF FreeBytes
<1>2. PICK b, c : b = p.buffer /\ c = p.chunk
  OBVIOUS
<1>3. PICK k : k = [chunks[b][c] EXCEPT !.free = free2]
  OBVIOUS
<1>4. chunks' = [chunks EXCEPT ![b][c] = k]
  BY <1>1, <1>2, <1>3
<1>5. chunks[b][c] \in ChunkType
  BY <1>2 DEF AllocInv
<1>6. k.max = chunks[b][c].max /\ chunks[b][c].max <= k.max
  BY <1>3, <1>5 DEF ChunkType
<1> QED
  BY <1>2, <1>4, <1>6, ChunkGrows DEF AllocInv

LEMMA ReleaseGrows ==
  ASSUME AllocInv, NEW t, Release(t)
  PROVE  Grow
BY FreeBytesGrows DEF Release, AllocInv

LEMMA TakeOverGrows ==
  ASSUME AllocInv, NEW t, NEW p, NEW size, TakeOver(t, p, size)
  PROVE  Grow
<1> DEFINE n == Aligned(size)
           rest == At(place[p].buffer, place[p].chunk, place[p].offset + n, place[p].size - n)
<1>1. p \in live
  BY DEF TakeOver
<1>2. CASE FreeBytes(rest)
  <2>1. rest.buffer = place[p].buffer /\ rest.chunk = place[p].chunk
    BY DEF At
  <2> HIDE DEF rest
  <2> QED
    BY <1>1, <1>2, <2>1, FreeBytesGrows DEF AllocInv
<1>3. CASE UNCHANGED chunks
  <2>1. ASSUME NEW b \in Buffers, NEW c \in 1 .. Len(chunks[b]) PROVE chunks[b][c].max \in Nat
    <3>1. chunks[b][c] \in ChunkType
      BY DEF AllocInv
    <3> QED
      BY <3>1 DEF ChunkType
  <2> QED
    BY <1>3, <2>1 DEF Grow
<1> QED
  BY <1>2, <1>3 DEF TakeOver

LEMMA AllocateGrows ==
  ASSUME AllocInv, NEW t, NEW b \in Buffers, NEW size \in Nat, Allocate(t, b, size)
  PROVE  Grow
<1> DEFINE n == Aligned(size)
<1>0. n \in Nat /\ chunks \in [Buffers -> Seq(ChunkType)] /\ Len(chunks[b]) \in Nat
  BY AlignedNat DEF AllocInv
<1> HIDE DEF n
<1>1. ASSUME NEW c \in 1 .. Len(chunks[b]), NEW i \in 1 .. Len(chunks[b][c].free),
             chunks' = [chunks EXCEPT ![b][c] = TakeFrom(@, i, n)]
      PROVE  Grow
  <2>1. PICK k : k = TakeFrom(chunks[b][c], i, n)
    OBVIOUS
  <2>2. chunks' = [chunks EXCEPT ![b][c] = k]
    BY <1>1, <2>1
  <2>3. chunks[b][c] \in ChunkType
    BY <1>0
  <2>4. chunks[b][c].max \in Nat /\ chunks[b][c].free[i].offset \in Nat
    BY <2>3, FreePiece DEF ChunkType
  <2>5. chunks[b][c].max <= k.max
    BY <1>0, <2>1, <2>4 DEF TakeFrom, Larger
  <2> QED
    BY <1>0, <2>2, <2>5, ChunkGrows
<1>2. ASSUME NEW k, chunks' = [chunks EXCEPT ![b] = Append(@, k)]
      PROVE  Grow
  <2> SUFFICES ASSUME NEW d \in Buffers, NEW e \in 1 .. Len(chunks[d])
               PROVE  e \in 1 .. Len(chunks'[d]) /\ chunks[d][e].max <= chunks'[d][e].max
    BY DEF Grow
  <2>1. chunks[d] \in Seq(ChunkType) /\ chunks[d][e] \in ChunkType
    BY <1>0
  <2>2. chunks[d][e].max \in Nat
    BY <2>1 DEF ChunkType
  <2>3. CASE d # b
    BY <1>0, <1>2, <2>2, <2>3
  <2>4. CASE d = b
    <3>1. PICK s : s = chunks[b] /\ chunks'[b] = Append(s, k)
      BY <1>0, <1>2
    <3>2. Len(Append(s, k)) = Len(s) + 1 /\ Append(s, k)[e] = s[e]
      BY <2>1, <2>4, <3>1
    <3> QED
      BY <2>2, <2>4, <3>1, <3>2
  <2> QED
    BY <2>3, <2>4
<1> QED
  BY <1>1, <1>2 DEF Allocate, n

(***************************************************************************)
(* The calls of a graph.                                                    *)
(***************************************************************************)
Calls == [do : {"allocate", "drop"}, tensor : Tensors, buffer : Buffers]
ToAllocate(cs, t) == \E k \in 1 .. Len(cs) : cs[k].do = "allocate" /\ cs[k].tensor = t

\* The tensors of a graph, and those that get memory.
Mentioned(g, t) ==
  \/ \E i \in 1 .. Len(g.leafs) : t = g.leafs[i]
  \/ \E i \in 1 .. Len(g.nodes) :
       \/ t = g.nodes[i]
       \/ \E j \in 1 .. Len(g.srcs[g.nodes[i]]) : t = g.srcs[g.nodes[i]][j]
Planned(g, t) == t \notin g.external /\ ~IsView(g, t)

LEMMA GraphIs ==
  ASSUME NEW F \in Families, NEW g \in F
  PROVE  /\ g.leafs \in Seq(Tensors) /\ g.nodes \in Seq(Tensors) /\ g.srcs \in [Tensors -> Seq(Tensors)]
         /\ g.size \in [Tensors -> Sizes] /\ g.buffer \in [Tensors -> Buffers]
         /\ Sizes \subseteq Nat
BY GraphAssumption, AllocAssumption DEF GraphOK

\* A function on 1 .. n is a sequence.
LEMMA ListOf ==
  ASSUME NEW S, NEW n \in Nat, NEW f \in [1 .. n -> S]
  PROVE  f \in Seq(S) /\ Len(f) = n
OBVIOUS

\* Two sequences in one.
LEMMA Joined ==
  ASSUME NEW S, NEW p \in Seq(S), NEW q \in Seq(S), NEW r, r = p \o q
  PROVE  /\ r \in Seq(S) /\ Len(r) = Len(p) + Len(q) /\ Len(p) \in Nat /\ Len(q) \in Nat
         /\ \A k \in 1 .. Len(p) : r[k] = p[k]
         /\ \A k \in 1 .. Len(q) : r[Len(p) + k] = q[k]
BY ConcatProperties

LEMMA InputCallsAre ==
  ASSUME NEW F \in Families, NEW g \in F, NEW n \in Tensors
  PROVE  InputCalls(g, n) \in Seq(Calls)
<1> DEFINE these == <<n>> \o g.srcs[n]
           one(k) == IF these[k] \in g.input THEN <<AllocCall(these[k], g.buffer[n])>> ELSE <<>>
           all == [k \in DOMAIN these |-> one(k)]
<1>1. <<n>> \in Seq(Tensors) /\ g.srcs[n] \in Seq(Tensors) /\ g.buffer[n] \in Buffers
  BY GraphIs
<1>2. these \in Seq(Tensors)
  BY <1>1, ConcatProperties
<1> HIDE DEF these
<1>3. ASSUME NEW k \in DOMAIN these PROVE one(k) \in Seq(Calls)
  <2>1. these[k] \in Tensors
    BY <1>2
  <2>2. AllocCall(these[k], g.buffer[n]) \in Calls
    BY <1>1, <2>1 DEF AllocCall, Calls
  <2> QED
    BY <2>2
<1>4. DOMAIN these = 1 .. Len(these) /\ Len(these) \in Nat
  BY <1>2
<1>5. all \in Seq(Seq(Calls))
  <2> HIDE DEF one
  <2>1. all \in [1 .. Len(these) -> Seq(Calls)]
    BY <1>3, <1>4
  <2> HIDE DEF all
  <2> QED
    BY <1>4, <2>1, ListOf
<1>6. InputCalls(g, n) = FlattenSeq(all)
  BY DEF InputCalls, these
<1> HIDE DEF all
<1> QED
  BY <1>5, <1>6, FlattenIs

LEMMA NodeCallsAre ==
  ASSUME NEW F \in Families, NEW g \in F, NEW n \in Tensors
  PROVE  /\ NodeCalls(g, n) \in Seq(Calls) /\ ToAllocate(NodeCalls(g, n), n)
         /\ \A j \in 1 .. Len(g.srcs[n]) : ToAllocate(NodeCalls(g, n), g.srcs[n][j])
<1> DEFINE ss == g.srcs[n]
           as == [j \in DOMAIN ss |-> AllocCall(ss[j], g.buffer[n])]
           self == <<AllocCall(n, g.buffer[n])>>
           ds == [j \in DOMAIN ss |-> DropCall(g, ss[j])]
<1>1. ss \in Seq(Tensors) /\ g.buffer \in [Tensors -> Buffers]
  BY GraphIs
<1> HIDE DEF ss
<1>2. DOMAIN ss = 1 .. Len(ss) /\ Len(ss) \in Nat /\ \A j \in 1 .. Len(ss) : ss[j] \in Tensors
  BY <1>1
<1>3. as \in Seq(Calls) /\ Len(as) = Len(ss) /\ \A j \in 1 .. Len(ss) : as[j] = AllocCall(ss[j], g.buffer[n])
  <2>1. as \in [1 .. Len(ss) -> Calls]
    BY <1>1, <1>2 DEF AllocCall, Calls
  <2>2. \A j \in 1 .. Len(ss) : as[j] = AllocCall(ss[j], g.buffer[n])
    BY <1>2
  <2> HIDE DEF as
  <2> QED
    BY <1>2, <2>1, <2>2, ListOf
<1>4. ds \in Seq(Calls)
  <2>1. ds \in [1 .. Len(ss) -> Calls]
    BY <1>1, <1>2 DEF DropCall, Calls
  <2> HIDE DEF ds
  <2> QED
    BY <1>2, <2>1, ListOf
<1>5. self \in Seq(Calls) /\ Len(self) = 1 /\ self[1] = AllocCall(n, g.buffer[n])
  <2>1. AllocCall(n, g.buffer[n]) \in Calls
    BY <1>1 DEF AllocCall, Calls
  <2> QED
    BY <2>1
<1>6. NodeCalls(g, n) = (as \o self) \o ds
  BY DEF NodeCalls, ss
<1> HIDE DEF as, self, ds
<1>7. PICK front, whole : front = as \o self /\ whole = front \o ds
  OBVIOUS
<1>8. /\ front \in Seq(Calls) /\ Len(front) = Len(ss) + 1
      /\ \A j \in 1 .. Len(ss) : front[j] = as[j]
      /\ front[Len(ss) + 1] = self[1]
  <2>0. PICK p, q : p = as /\ q = self
    OBVIOUS
  <2>3. p \in Seq(Calls) /\ q \in Seq(Calls) /\ front = p \o q
    BY <1>3, <1>5, <1>7, <2>0
  <2>4. /\ front \in Seq(Calls) /\ Len(front) = Len(p) + Len(q)
        /\ \A k \in 1 .. Len(p) : front[k] = p[k]
        /\ \A k \in 1 .. Len(q) : front[Len(p) + k] = q[k]
    BY <2>3, Joined
  <2>1. /\ front \in Seq(Calls) /\ Len(front) = Len(as) + Len(self)
        /\ \A k \in 1 .. Len(as) : front[k] = as[k]
        /\ \A k \in 1 .. Len(self) : front[Len(as) + k] = self[k]
    BY <2>0, <2>4
  <2>2. 1 \in 1 .. Len(self)
    BY <1>5
  <2> QED
    BY <1>2, <1>3, <1>5, <2>1, <2>2
<1>9. /\ whole \in Seq(Calls) /\ Len(whole) >= Len(ss) + 1
      /\ \A j \in 1 .. Len(ss) + 1 : whole[j] = front[j]
  <2>0. front \in Seq(Calls) /\ ds \in Seq(Calls) /\ whole = front \o ds
    BY <1>4, <1>7, <1>8
  <2>1. /\ whole \in Seq(Calls) /\ Len(whole) = Len(front) + Len(ds) /\ Len(ds) \in Nat
        /\ \A k \in 1 .. Len(front) : whole[k] = front[k]
    BY ONLY <2>0, Joined
  <2> QED
    BY <1>2, <1>8, <2>1
<1>10. Len(whole) \in Nat
  BY <1>9
<1>11. ToAllocate(whole, n)
  <2>1. Len(ss) + 1 \in 1 .. Len(whole) /\ Len(ss) + 1 \in 1 .. Len(ss) + 1
    BY <1>2, <1>9, <1>10
  <2>2. whole[Len(ss) + 1] = AllocCall(n, g.buffer[n])
    BY <1>5, <1>8, <1>9, <2>1
  <2> QED
    BY <2>1, <2>2 DEF ToAllocate, AllocCall
<1>12. ASSUME NEW j \in 1 .. Len(ss) PROVE ToAllocate(whole, ss[j])
  <2>1. j \in 1 .. Len(whole) /\ j \in 1 .. Len(ss) + 1
    BY <1>2, <1>9, <1>10
  <2>2. whole[j] = AllocCall(ss[j], g.buffer[n])
    BY <1>3, <1>8, <1>9, <2>1
  <2> QED
    BY <2>1, <2>2 DEF ToAllocate, AllocCall
<1> QED
  BY <1>6, <1>7, <1>9, <1>11, <1>12 DEF ss

\* Every tensor that a graph mentions is allocated by one of its calls, or has memory.
LEMMA CallsAre ==
  ASSUME NEW F \in Families, NEW g \in F
  PROVE  CallsOf(g) \in Seq(Calls) /\ \A t : Mentioned(g, t) => ToAllocate(CallsOf(g), t)
<1> DEFINE ls == [i \in DOMAIN g.leafs |-> AllocCall(g.leafs[i], g.buffer[g.leafs[i]])]
           ins == [i \in DOMAIN g.nodes |-> InputCalls(g, g.nodes[i])]
           ns == [i \in DOMAIN g.nodes |-> NodeCalls(g, g.nodes[i])]
           a == FlattenSeq(ins)
           b == FlattenSeq(ns)
<1>1. /\ g.leafs \in Seq(Tensors) /\ g.nodes \in Seq(Tensors) /\ g.buffer \in [Tensors -> Buffers]
      /\ DOMAIN g.leafs = 1 .. Len(g.leafs) /\ Len(g.leafs) \in Nat
      /\ DOMAIN g.nodes = 1 .. Len(g.nodes) /\ Len(g.nodes) \in Nat
      /\ \A i \in 1 .. Len(g.leafs) : g.leafs[i] \in Tensors
      /\ \A i \in 1 .. Len(g.nodes) : g.nodes[i] \in Tensors
  BY GraphIs
<1>2. /\ ls \in Seq(Calls) /\ Len(ls) = Len(g.leafs)
      /\ \A i \in 1 .. Len(g.leafs) : ls[i] = AllocCall(g.leafs[i], g.buffer[g.leafs[i]])
  <2>1. ls \in [1 .. Len(g.leafs) -> Calls]
    BY <1>1 DEF AllocCall, Calls
  <2>2. \A i \in 1 .. Len(g.leafs) : ls[i] = AllocCall(g.leafs[i], g.buffer[g.leafs[i]])
    BY <1>1
  <2> HIDE DEF ls
  <2> QED
    BY <1>1, <2>1, <2>2, ListOf
<1>3. ins \in Seq(Seq(Calls))
  <2>1. ins \in [1 .. Len(g.nodes) -> Seq(Calls)]
    BY <1>1, InputCallsAre
  <2> HIDE DEF ins
  <2> QED
    BY <1>1, <2>1, ListOf
<1>4. ns \in Seq(Seq(Calls)) /\ Len(ns) = Len(g.nodes)
      /\ \A i \in 1 .. Len(g.nodes) : ns[i] = NodeCalls(g, g.nodes[i])
  <2>1. ns \in [1 .. Len(g.nodes) -> Seq(Calls)]
    BY <1>1, NodeCallsAre
  <2>2. \A i \in 1 .. Len(g.nodes) : ns[i] = NodeCalls(g, g.nodes[i])
    BY <1>1
  <2> HIDE DEF ns
  <2> QED
    BY <1>1, <2>1, <2>2, ListOf
<1> HIDE DEF ls, ins, ns
<1>5. a \in Seq(Calls) /\ b \in Seq(Calls) /\ Covers(b, ns, Len(g.nodes))
  BY <1>3, <1>4, FlattenIs
<1> HIDE DEF a, b
<1>6. CallsOf(g) = (ls \o a) \o b
  BY DEF CallsOf, ls, ins, ns, a, b
<1>7. PICK front, whole : front = ls \o a /\ whole = front \o b
  OBVIOUS
<1>8. /\ front \in Seq(Calls) /\ Len(front) >= Len(ls) /\ Len(front) \in Nat
      /\ \A k \in 1 .. Len(ls) : front[k] = ls[k]
  BY <1>1, <1>2, <1>5, <1>7, Joined
<1>9. /\ whole \in Seq(Calls) /\ Len(whole) = Len(front) + Len(b) /\ Len(b) \in Nat
      /\ \A k \in 1 .. Len(front) : whole[k] = front[k]
      /\ \A k \in 1 .. Len(b) : whole[Len(front) + k] = b[k]
  BY <1>5, <1>7, <1>8, Joined
<1>10. ASSUME NEW t, Mentioned(g, t) PROVE ToAllocate(whole, t)
  <2>1. ASSUME NEW i \in 1 .. Len(g.leafs), t = g.leafs[i] PROVE ToAllocate(whole, t)
    <3>1. i \in 1 .. Len(whole) /\ i \in 1 .. Len(front) /\ i \in 1 .. Len(ls)
      BY <1>1, <1>2, <1>8, <1>9
    <3>2. whole[i] = AllocCall(g.leafs[i], g.buffer[g.leafs[i]])
      BY <1>2, <1>8, <1>9, <3>1
    <3> QED
      BY <2>1, <3>1, <3>2 DEF ToAllocate, AllocCall
  <2>2. ASSUME NEW i \in 1 .. Len(g.nodes), ToAllocate(NodeCalls(g, g.nodes[i]), t)
        PROVE  ToAllocate(whole, t)
    <3>1. PICK j \in 1 .. Len(ns[i]) : ns[i][j].do = "allocate" /\ ns[i][j].tensor = t
      BY <1>4, <2>2 DEF ToAllocate
    <3>2. PICK k \in 1 .. Len(b) : b[k] = ns[i][j]
      BY <1>5 DEF Covers
    <3>3. Len(front) + k \in 1 .. Len(whole) /\ whole[Len(front) + k] = b[k]
      BY <1>8, <1>9
    <3> QED
      BY <3>1, <3>2, <3>3 DEF ToAllocate
  <2>3. \A i \in 1 .. Len(g.nodes) :
          /\ ToAllocate(NodeCalls(g, g.nodes[i]), g.nodes[i])
          /\ \A j \in 1 .. Len(g.srcs[g.nodes[i]]) :
               ToAllocate(NodeCalls(g, g.nodes[i]), g.srcs[g.nodes[i]][j])
    BY <1>1, NodeCallsAre
  <2> QED
    BY <1>10, <2>1, <2>2, <2>3 DEF Mentioned
<1> QED
  BY <1>6, <1>7, <1>9, <1>10

(***************************************************************************)
(* While a graph is planned.                                                *)
(***************************************************************************)
PlaceType == [buffer : Buffers, chunk : Nat, offset : Nat, size : Nat]

\* Tensor t lies within what will be reserved.
Settled(t) ==
  /\ place[t] \in PlaceType
  /\ place[t].chunk \in 1 .. Len(chunks[place[t].buffer])
  /\ place[t].offset + graph.size[t] <= chunks[place[t].buffer][place[t].chunk].max

LiveLarge == \A t \in live : place[t] \in PlaceType /\ place[t].size >= graph.size[t]

\* What has no memory yet will be given some by a call that is left.
PlanningInv ==
  Planning =>
    /\ calls \in Seq(Calls)
    /\ LiveLarge
    /\ \A t \in Tensors : Mentioned(graph, t) /\ Planned(graph, t) => ToAllocate(calls, t) \/ Settled(t)

LEMMA ChunkMax ==
  ASSUME AllocInv, NEW b \in Buffers, NEW c \in 1 .. Len(chunks[b])
  PROVE  chunks[b][c].max \in Nat
<1>1. chunks[b][c] \in ChunkType
  BY DEF AllocInv
<1> QED
  BY <1>1 DEF ChunkType

AllSettled == \A t \in live : Settled(t)

LEMMA LiveSettled == GraphInv /\ AllocInv /\ LiveLarge => AllSettled
<1> SUFFICES ASSUME GraphInv, AllocInv, LiveLarge, NEW t \in live PROVE Settled(t)
  BY DEF AllSettled
<1>1. /\ place[t] \in PlaceType /\ place[t].size >= graph.size[t]
      /\ place[t].offset \in Nat /\ place[t].size \in Nat /\ place[t].buffer \in Buffers
  BY DEF LiveLarge, PlaceType
<1>2. graph.size[t] \in Nat
  BY GraphFits, AllocAssumption DEF GraphInv
<1>3. place[t].chunk \in 1 .. Len(chunks[place[t].buffer])
  BY DEF AllocInv
<1>4. place[t].offset + place[t].size <= chunks[place[t].buffer][place[t].chunk].max
  BY DEF AllocInv, Reserved, End
<1>5. chunks[place[t].buffer][place[t].chunk].max \in Nat
  BY <1>1, <1>3, ChunkMax
<1>6. place[t].offset + graph.size[t] <= place[t].offset + place[t].size
  BY <1>1, <1>2
<1>7. place[t].offset + graph.size[t] <= chunks[place[t].buffer][place[t].chunk].max
  BY <1>1, <1>2, <1>4, <1>5, <1>6
<1> QED
  BY <1>1, <1>3, <1>7 DEF Settled

LEMMA LiveSettledNext == GraphInv' /\ AllocInv' /\ LiveLarge' => AllSettled'
BY LiveSettled, PTL

LEMMA SettledStays ==
  ASSUME GraphInv, AllocInv, AllocInv', Grow, graph' = graph, NEW t \in Tensors, Settled(t), place'[t] = place[t]
  PROVE  Settled(t)'
<1>1. PICK b, c : b = place[t].buffer /\ c = place[t].chunk
  OBVIOUS
<1>2. b \in Buffers /\ c \in 1 .. Len(chunks[b]) /\ place[t].offset \in Nat
  BY <1>1 DEF Settled, PlaceType
<1>3. c \in 1 .. Len(chunks'[b]) /\ chunks[b][c].max <= chunks'[b][c].max
  BY <1>2 DEF Grow
<1>4. chunks[b][c].max \in Nat
  BY <1>2, ChunkMax
<1>5. chunks'[b][c].max \in Nat
  <2>1. chunks'[b][c] \in ChunkType
    BY <1>2, <1>3 DEF AllocInv
  <2> QED
    BY <2>1 DEF ChunkType
<1>6. graph.size[t] \in Nat
  BY GraphFits, AllocAssumption
<1>7. place[t].offset + graph.size[t] <= chunks'[b][c].max
  <2>1. place[t].offset + graph.size[t] <= chunks[b][c].max
    BY <1>1 DEF Settled
  <2> QED
    BY <1>2, <1>3, <1>4, <1>5, <1>6, <2>1
<1> QED
  BY <1>1, <1>3, <1>7 DEF Settled

LEMMA AllocateNodeSettles ==
  ASSUME GraphInv, AllocInv, AllocInv', LiveLarge, graph' = graph,
         NEW t \in Tensors, NEW b \in Buffers, AllocateNode(t, b)
  PROVE  /\ Grow /\ LiveLarge'
         /\ \A u \in Tensors : u # t \/ ~Planned(graph, u) => place'[u] = place[u]
         /\ Planned(graph, t) => t \in live'
<1>0. /\ graph.size[t] \in Nat /\ Aligned(graph.size[t]) \in Nat
      /\ Aligned(graph.size[t]) >= graph.size[t]
      /\ place = [u \in Tensors |-> place[u]] /\ live \subseteq Tensors
  BY GraphFits, AllocAssumption, AlignedNat DEF AllocInv
<1>1. CASE t \in live \cup graph.external \/ IsView(graph, t)
  <2>1. UNCHANGED allocVars
    BY <1>1 DEF AllocateNode
  <2>2. Grow
    BY <2>1, ChunkMax DEF Grow, allocVars
  <2> QED
    BY <1>1, <2>1, <2>2 DEF allocVars, LiveLarge, Planned
<1>2. CASE ~(t \in live \cup graph.external \/ IsView(graph, t))
  <2>1. ASSUME NEW p, TakeOver(t, p, graph.size[t])
        PROVE  /\ Grow /\ place' = [place EXCEPT ![t] = place'[t]] /\ place'[t] \in PlaceType
               /\ place'[t].size = Aligned(graph.size[t]) /\ live' \subseteq live \cup {t} /\ t \in live'
    <3>1. Grow
      BY <2>1, TakeOverGrows
    <3>2. place'[t] = At(place[p].buffer, place[p].chunk, place[p].offset, Aligned(graph.size[t]))
      BY <1>0, <2>1 DEF TakeOver
    <3>3. place[p] \in PlaceType
      BY <2>1 DEF TakeOver, LiveLarge
    <3>4. place'[t] \in PlaceType /\ place'[t].size = Aligned(graph.size[t])
      BY <1>0, <3>2, <3>3 DEF At, PlaceType
    <3>5. place' = [place EXCEPT ![t] = place'[t]]
      BY <1>0, <2>1 DEF TakeOver
    <3> QED
      BY <2>1, <3>1, <3>4, <3>5 DEF TakeOver
  <2>2. ASSUME Allocate(t, b, graph.size[t])
        PROVE  /\ Grow /\ place' = [place EXCEPT ![t] = place'[t]] /\ place'[t] \in PlaceType
               /\ place'[t].size = Aligned(graph.size[t]) /\ live' \subseteq live \cup {t} /\ t \in live'
    <3>1. Grow
      BY <1>0, <2>2, AllocateGrows
    <3>2. /\ t \in live' /\ live' = live \cup {t}
          /\ \E c, o : place' = [place EXCEPT ![t] = At(b, c, o, Aligned(graph.size[t]))]
      BY <2>2 DEF Allocate
    <3>3. PICK c, o : place' = [place EXCEPT ![t] = At(b, c, o, Aligned(graph.size[t]))]
      BY <3>2
    <3>4. place'[t] = At(b, c, o, Aligned(graph.size[t]))
      BY <1>0, <3>3
    <3>5. c \in Nat /\ o \in Nat
      <4>1. place'[t].buffer = b /\ place'[t].chunk = c /\ place'[t].offset = o
        BY <3>4 DEF At
      <4>2. Piece(place'[t]) /\ place'[t].chunk \in 1 .. Len(chunks'[b]) /\ chunks'[b] \in Seq(ChunkType)
        BY <3>2, <4>1 DEF AllocInv
      <4> QED
        BY <4>1, <4>2 DEF Piece
    <3>6. place'[t] \in PlaceType /\ place'[t].size = Aligned(graph.size[t])
      BY <1>0, <3>4, <3>5 DEF At, PlaceType
    <3> QED
      BY <3>1, <3>2, <3>3, <3>4, <3>6
  <2>3. /\ Grow /\ place' = [place EXCEPT ![t] = place'[t]] /\ place'[t] \in PlaceType
        /\ place'[t].size = Aligned(graph.size[t]) /\ live' \subseteq live \cup {t} /\ t \in live'
    BY <1>2, <2>1, <2>2 DEF AllocateNode
  <2>4. \A u \in Tensors : u # t => place'[u] = place[u]
    BY <1>0, <2>3
  <2>5. LiveLarge'
    BY <1>0, <2>3, <2>4 DEF LiveLarge
  <2>6. Planned(graph, t)
    BY <1>2 DEF Planned
  <2> QED
    BY <2>3, <2>4, <2>5, <2>6
<1> QED
  BY <1>1, <1>2

\* The first call, or one that is left after it.
LEMMA HeadOrTail ==
  ASSUME NEW cs \in Seq(Calls), cs # <<>>
  PROVE  /\ Head(cs) \in Calls /\ Tail(cs) \in Seq(Calls)
         /\ \A u : ToAllocate(cs, u) =>
              ToAllocate(Tail(cs), u) \/ (Head(cs).do = "allocate" /\ Head(cs).tensor = u)
<1>1. /\ Head(cs) \in Calls /\ Tail(cs) \in Seq(Calls) /\ Head(cs) = cs[1]
      /\ Len(cs) \in Nat /\ Len(Tail(cs)) = Len(cs) - 1
      /\ \A k \in 1 .. Len(Tail(cs)) : Tail(cs)[k] = cs[k + 1]
  BY HeadTailProperties
<1>2. ASSUME NEW u, ToAllocate(cs, u), ~(Head(cs).do = "allocate" /\ Head(cs).tensor = u)
      PROVE  ToAllocate(Tail(cs), u)
  <2>1. PICK k \in 1 .. Len(cs) : cs[k].do = "allocate" /\ cs[k].tensor = u
    BY <1>2 DEF ToAllocate
  <2>2. k # 1
    BY <1>1, <1>2, <2>1
  <2>3. k - 1 \in 1 .. Len(Tail(cs)) /\ Tail(cs)[k - 1] = cs[k]
    BY <1>1, <2>2
  <2> QED
    BY <2>1, <2>3 DEF ToAllocate
<1> QED
  BY <1>1, <1>2

LEMMA ReleaseSettles ==
  ASSUME GraphInv, AllocInv, LiveLarge, graph' = graph, NEW t, DropParent(t)
  PROVE  Grow /\ LiveLarge' /\ place' = place
<1>1. CASE UNCHANGED allocVars
  <2>1. Grow
    BY <1>1, ChunkMax DEF Grow, allocVars
  <2> QED
    BY <1>1, <2>1 DEF allocVars, LiveLarge
<1>2. ASSUME NEW r, Release(r) PROVE Grow /\ LiveLarge' /\ place' = place
  <2>1. Grow
    BY <1>2, ReleaseGrows
  <2> QED
    BY <1>2, <2>1 DEF Release, LiveLarge
<1> QED
  BY <1>1, <1>2 DEF DropParent, FreeNode

LEMMA PlanningStep ==
  ASSUME GraphInv, AllocInv, AllocInv', PlanningInv, Step
  PROVE  PlanningInv'
<1>1. /\ Planning /\ calls \in Seq(Calls) /\ calls # <<>> /\ calls' = Tail(calls) /\ graph' = graph
      /\ LiveLarge
      /\ \A t \in Tensors : Mentioned(graph, t) /\ Planned(graph, t) => ToAllocate(calls, t) \/ Settled(t)
  BY DEF Step, PlanningInv
<1>2. /\ calls' \in Seq(Calls)
      /\ \A u : ToAllocate(calls, u) =>
           ToAllocate(calls', u) \/ (Head(calls).do = "allocate" /\ Head(calls).tensor = u)
  BY <1>1, HeadOrTail
<1>3. ASSUME NEW t \in Tensors, NEW b \in Buffers, Head(calls) = AllocCall(t, b), AllocateNode(t, b)
      PROVE  PlanningInv'
  <2>1. /\ Grow /\ LiveLarge'
        /\ \A u \in Tensors : u # t \/ ~Planned(graph, u) => place'[u] = place[u]
        /\ Planned(graph, t) => t \in live'
    BY <1>1, <1>3, AllocateNodeSettles
  <2>2. \A u : ToAllocate(calls, u) => ToAllocate(calls', u) \/ u = t
    BY <1>2, <1>3 DEF AllocCall
  <2>3. GraphInv'
    BY <1>1, GraphInvKept DEF Next
  <2>4. ASSUME NEW u \in Tensors, Mentioned(graph, u), Planned(graph, u)
        PROVE  ToAllocate(calls', u) \/ Settled(u)'
    <3>1. CASE u = t
      <4>1. t \in live'
        BY <2>1, <2>4, <3>1
      <4>2. Settled(t)'
        BY <2>1, <2>3, <4>1, LiveSettledNext DEF AllSettled
      <4> QED
        BY <3>1, <4>2
    <3>2. CASE u # t /\ ToAllocate(calls, u)
      BY <2>2, <3>2
    <3>3. CASE u # t /\ Settled(u)
      <4>1. place'[u] = place[u]
        BY <2>1, <3>3
      <4> QED
        BY <1>1, <2>1, <3>3, <4>1, SettledStays
    <3> QED
      BY <1>1, <2>4, <3>1, <3>2, <3>3
  <2> QED
    BY <1>1, <1>2, <2>1, <2>4 DEF PlanningInv
<1>4. ASSUME NEW t \in Tensors, Head(calls) = DropCall(graph, t), DropParent(t)
      PROVE  PlanningInv'
  <2>1. Grow /\ LiveLarge' /\ place' = place
    BY <1>1, <1>4, ReleaseSettles
  <2>2. \A u : ToAllocate(calls, u) => ToAllocate(calls', u)
    <3>1. Head(calls).do # "allocate"
      BY <1>4 DEF DropCall
    <3> QED
      BY <1>2, <3>1
  <2>3. ASSUME NEW u \in Tensors, Mentioned(graph, u), Planned(graph, u)
        PROVE  ToAllocate(calls', u) \/ Settled(u)'
    BY <1>1, <2>1, <2>2, <2>3, SettledStays
  <2> QED
    BY <1>1, <1>2, <2>1, <2>3 DEF PlanningInv
<1> QED
  BY <1>3, <1>4 DEF Step

LEMMA PlanningBegins ==
  ASSUME NEW F \in Families, NEW g \in F, BeginPlan(g), graph' = g
  PROVE  PlanningInv'
<1>1. calls' = CallsOf(g) /\ live' = {}
  BY DEF BeginPlan, Reset
<1>2. calls' \in Seq(Calls) /\ \A t \in Tensors : Mentioned(graph', t) => ToAllocate(calls', t)
  BY <1>1, CallsAre
<1>3. LiveLarge'
  BY <1>1 DEF LiveLarge
<1> QED
  BY <1>2, <1>3 DEF PlanningInv

(***************************************************************************)
(* The plan that is kept, and the graphs that are placed by it.             *)
(***************************************************************************)
\* What is planned at a lies within a buffer.
Inside(a) ==
  /\ a.at \in PlaceType /\ a.max \in Nat /\ buffers[a.at.buffer].there
  /\ a.at.chunk \in DOMAIN buffers[a.at.buffer].sizes
  /\ buffers[a.at.buffer].sizes[a.at.chunk] \in Nat
  /\ a.at.offset + a.max <= buffers[a.at.buffer].sizes[a.at.chunk]

\* a is what is remembered of tensor t of graph h.
Entry(a, h, t) ==
  /\ a.own <=> Planned(h, t)
  /\ a.own => a.max = h.size[t] /\ Inside(a)

PlannedFrom(h) ==
  /\ Len(plan.leafs) = Len(h.leafs) /\ Len(plan.nodes) = Len(h.nodes)
  /\ \A i \in 1 .. Len(h.leafs) : Entry(plan.leafs[i].dst, h, h.leafs[i])
  /\ \A i \in 1 .. Len(h.nodes) :
       /\ Entry(plan.nodes[i].dst, h, h.nodes[i])
       /\ DOMAIN plan.nodes[i].src = 1 .. Len(h.srcs[h.nodes[i]])
       /\ \A j \in 1 .. Len(h.srcs[h.nodes[i]]) : Entry(plan.nodes[i].src[j], h, h.srcs[h.nodes[i]][j])
NoPlan == plan.leafs = <<>> /\ plan.nodes = <<>>

\* Tensor t of graph g fits where tensor u of graph h was planned.
FitsIn(g, t, h, u) == Planned(g, t) => Planned(h, u) /\ g.size[t] <= h.size[u]

\* The leafs of a graph fit when its nodes and their sources do.
LeafsFollow(F) ==
  \A g, h \in F :
    /\ Len(g.nodes) = Len(h.nodes) /\ Len(g.leafs) = Len(h.leafs)
    /\ \A i \in 1 .. Len(g.nodes) :
         /\ FitsIn(g, g.nodes[i], h, h.nodes[i])
         /\ \A j \in 1 .. Len(g.srcs[g.nodes[i]]) :
              Planned(g, g.srcs[g.nodes[i]][j]) =>
                /\ j <= Len(h.srcs[h.nodes[i]])
                /\ FitsIn(g, g.srcs[g.nodes[i]][j], h, h.srcs[h.nodes[i]][j])
    => \A i \in 1 .. Len(g.leafs) : FitsIn(g, g.leafs[i], h, h.leafs[i])

\* No backend is out of memory, no tensor is empty, and it is enough to count the leafs.
Foreseen == family \notin Failing /\ 0 \notin Sizes /\ LeafsFollow(family)

PlanInv == Foreseen => NoPlan \/ \E h \in family : PlannedFrom(h)

\* The buffers that exist, or not.
BufferInv == buffers \in [Buffers -> [there : BOOLEAN, sizes : Seq(Nat)]]

LEMMA BuffersKept ==
  ASSUME GraphInv, AllocInv, BufferInv, [Next]_gvars
  PROVE  BufferInv'
<1>1. ASSUME NEW b \in Buffers PROVE Grown(b) \in [there : BOOLEAN, sizes : Seq(Nat)]
  <2>1. chunks[b] \in Seq(ChunkType)
    BY DEF AllocInv
  <2>2. DOMAIN chunks[b] = 1 .. Len(chunks[b]) /\ Len(chunks[b]) \in Nat
    BY <2>1
  <2>3. NewSizes(b) \in [1 .. Len(chunks[b]) -> Nat]
    BY <2>2, ChunkMax DEF NewSizes
  <2>4. NewSizes(b) \in Seq(Nat)
    BY <2>2, <2>3, ListOf
  <2> QED
    BY <2>4 DEF Grown, BufferInv
<1>2. Missing \in [there : BOOLEAN, sizes : Seq(Nat)]
  BY EmptySeq DEF Missing
<1>3. CASE Commit
  <2>1. CASE buffers' = [b \in Buffers |-> Grown(b)]
    BY <1>1, <2>1 DEF BufferInv
  <2>2. ASSUME NEW failed \in Buffers,
               buffers' = [b \in Buffers |->
                 IF b < failed THEN Grown(b) ELSE IF b = failed THEN Missing ELSE buffers[b]]
        PROVE  BufferInv'
    <3>1. \A b \in Buffers : buffers[b] \in [there : BOOLEAN, sizes : Seq(Nat)]
      BY DEF BufferInv
    <3> QED
      BY <1>1, <1>2, <2>2, <3>1 DEF BufferInv
  <2> QED
    BY <1>3, <2>1, <2>2 DEF Commit
<1>4. CASE buffers' = buffers
  BY <1>4 DEF BufferInv
<1> QED
  BY <1>3, <1>4 DEF Next, gvars, galloc, AllocGraph, PlaceGraph, Reserve, Step, Place

LEMMA EntryMade ==
  ASSUME GraphInv, AllocInv, PlanningInv, BufferInv, Planning, calls = <<>>, 0 \notin Sizes,
         buffers' = [b \in Buffers |-> Grown(b)], NEW t \in Tensors, Mentioned(graph, t)
  PROVE  \A a, h : a = AllocOf(graph, t) /\ h = graph => Entry(a, h, t)'
<1> SUFFICES ASSUME NEW a, NEW h, a = AllocOf(graph, t), h = graph PROVE Entry(a, h, t)'
  OBVIOUS
<1>1. CASE ~Planned(h, t)
  <2>1. a = NoAlloc
    BY <1>1 DEF Planned, AllocOf
  <2>2. a.own = FALSE
    BY <2>1 DEF NoAlloc
  <2> QED
    BY <1>1, <2>2 DEF Entry
<1>2. CASE Planned(h, t)
  <2>1. a.own = TRUE /\ a.at = place[t] /\ a.max = h.size[t]
    BY <1>2 DEF Planned, AllocOf
  <2>2. Settled(t)
    BY <1>2, EmptySeq DEF PlanningInv, ToAllocate
  <2>3. h.size[t] \in Nat /\ h.size[t] # 0
    BY GraphFits, AllocAssumption
  <2>4. PICK b, c, o, m : b = place[t].buffer /\ c = place[t].chunk /\ o = place[t].offset
                          /\ m = chunks[b][c].max
    OBVIOUS
  <2>5. /\ b \in Buffers /\ c \in 1 .. Len(chunks[b]) /\ o \in Nat /\ m \in Nat
        /\ o + h.size[t] <= m /\ place[t] \in PlaceType
    BY <2>2, <2>4, ChunkMax DEF Settled, PlaceType
  <2>6. buffers'[b] = Grown(b) /\ chunks[b] \in Seq(ChunkType) /\ buffers[b].sizes \in Seq(Nat)
    BY <2>5 DEF AllocInv, BufferInv
  <2>7. DOMAIN chunks[b] = 1 .. Len(chunks[b])
    BY <2>6
  <2>8. /\ buffers'[b].there /\ c \in DOMAIN buffers'[b].sizes /\ buffers'[b].sizes[c] \in Nat
        /\ m <= buffers'[b].sizes[c]
    <3>1. CASE Outgrown(b)
      <4>1. buffers'[b].there /\ buffers'[b].sizes = NewSizes(b)
        BY <2>6, <3>1 DEF Grown
      <4> QED
        BY <2>4, <2>5, <2>7, <4>1 DEF NewSizes
    <3>2. CASE ~Outgrown(b)
      <4>1. buffers'[b].there /\ ~(m > ChunkSize(b, c)) /\ buffers'[b] = buffers[b]
        BY <2>4, <2>5, <2>6, <2>7, <3>2 DEF Grown, Outgrown
      <4>2. m > 0
        BY <2>3, <2>5
      <4>3. c \in DOMAIN buffers[b].sizes
        BY <4>1, <4>2 DEF ChunkSize
      <4>4. ChunkSize(b, c) = buffers[b].sizes[c] /\ buffers[b].sizes[c] \in Nat
        BY <2>6, <4>3 DEF ChunkSize
      <4> QED
        BY <2>5, <4>1, <4>3, <4>4
    <3> QED
      BY <3>1, <3>2
  <2>9. a.at \in PlaceType /\ a.at.buffer = b /\ a.at.chunk = c /\ a.at.offset = o
    BY <2>1, <2>4, <2>5
  <2>10. o + a.max <= buffers'[b].sizes[c] /\ a.max \in Nat
    BY <2>1, <2>3, <2>5, <2>8
  <2>11. Inside(a)'
    BY <2>8, <2>9, <2>10 DEF Inside
  <2> QED
    BY <1>2, <2>1, <2>11 DEF Entry
<1> QED
  BY <1>1, <1>2

LEMMA CommitPlans ==
  ASSUME GraphInv, AllocInv, PlanningInv, BufferInv, Commit, Foreseen
  PROVE  \A h : h = graph => PlannedFrom(h)'
<1> SUFFICES ASSUME NEW h, h = graph PROVE PlannedFrom(h)'
  OBVIOUS
<1>1. /\ plan' = PlanOf(h) /\ Planning /\ calls = <<>>
      /\ buffers' = [b \in Buffers |-> Grown(b)] /\ 0 \notin Sizes
  BY DEF Commit, Foreseen
<1>2. \A t \in Tensors : \A a : Mentioned(h, t) /\ a = AllocOf(h, t) => Entry(a, h, t)'
  BY <1>1, EntryMade
<1>3. /\ h.leafs \in Seq(Tensors) /\ h.nodes \in Seq(Tensors)
      /\ \A i \in 1 .. Len(h.leafs) : h.leafs[i] \in Tensors
      /\ \A i \in 1 .. Len(h.nodes) :
           /\ h.nodes[i] \in Tensors
           /\ h.srcs[h.nodes[i]] \in Seq(Tensors)
           /\ \A j \in 1 .. Len(h.srcs[h.nodes[i]]) : h.srcs[h.nodes[i]][j] \in Tensors
  BY GraphIs DEF GraphInv
<1>4. /\ plan'.leafs = [i \in 1 .. Len(h.leafs) |->
                          [dst |-> AllocOf(h, h.leafs[i]), buffer |-> h.buffer[h.leafs[i]]]]
      /\ plan'.nodes = [i \in 1 .. Len(h.nodes) |->
                LET n == h.nodes[i]
                IN [dst |-> AllocOf(h, n), buffer |-> h.buffer[n],
                    src |-> [j \in DOMAIN h.srcs[n] |-> AllocOf(h, h.srcs[n][j])]]]
  BY <1>1, <1>3 DEF PlanOf
<1>5. Len(plan'.leafs) = Len(h.leafs) /\ Len(plan'.nodes) = Len(h.nodes)
  BY <1>3, <1>4
<1>6. ASSUME NEW i \in 1 .. Len(h.leafs) PROVE Entry(plan.leafs[i].dst, h, h.leafs[i])'
  <2>1. PICK a, t : a = plan'.leafs[i].dst /\ t = h.leafs[i]
    OBVIOUS
  <2>2. a = AllocOf(h, t) /\ t \in Tensors /\ Mentioned(h, t)
    BY <1>3, <1>4, <2>1 DEF Mentioned
  <2>3. Entry(a, h, t)'
    BY <1>2, <2>2
  <2> QED
    BY <2>1, <2>3 DEF Entry, Inside
<1>7. ASSUME NEW i \in 1 .. Len(h.nodes)
      PROVE  /\ Entry(plan.nodes[i].dst, h, h.nodes[i])'
             /\ DOMAIN plan'.nodes[i].src = 1 .. Len(h.srcs[h.nodes[i]])
             /\ \A j \in 1 .. Len(h.srcs[h.nodes[i]]) :
                  Entry(plan.nodes[i].src[j], h, h.srcs[h.nodes[i]][j])'
  <2>1. PICK n, p : n = h.nodes[i] /\ p = plan'.nodes[i]
    OBVIOUS
  <2>2. n \in Tensors /\ Mentioned(h, n) /\ DOMAIN h.srcs[n] = 1 .. Len(h.srcs[n])
    BY <1>3, <2>1 DEF Mentioned
  <2>3. /\ p.dst = AllocOf(h, n)
        /\ p.src = [j \in 1 .. Len(h.srcs[n]) |-> AllocOf(h, h.srcs[n][j])]
    <3>1. p = [dst |-> AllocOf(h, n), buffer |-> h.buffer[n],
               src |-> [j \in DOMAIN h.srcs[n] |-> AllocOf(h, h.srcs[n][j])]]
      BY <1>4, <2>1
    <3> QED
      BY <2>2, <3>1
  <2>4. Entry(plan.nodes[i].dst, h, h.nodes[i])'
    <3>1. PICK a : a = p.dst
      OBVIOUS
    <3>2. Entry(a, h, n)'
      BY <1>2, <2>2, <2>3, <3>1
    <3> QED
      BY <2>1, <3>1, <3>2 DEF Entry, Inside
  <2>5. ASSUME NEW j \in 1 .. Len(h.srcs[h.nodes[i]])
        PROVE  Entry(plan.nodes[i].src[j], h, h.srcs[h.nodes[i]][j])'
    <3>1. PICK a, t : a = p.src[j] /\ t = h.srcs[n][j]
      OBVIOUS
    <3>2. a = AllocOf(h, t) /\ t \in Tensors /\ Mentioned(h, t)
      BY <1>3, <2>1, <2>3, <3>1 DEF Mentioned
    <3>3. Entry(a, h, t)'
      BY <1>2, <3>2
    <3> QED
      BY <2>1, <3>1, <3>3 DEF Entry, Inside
  <2> QED
    BY <2>1, <2>3, <2>4, <2>5
<1> QED
  BY <1>3, <1>5, <1>6, <1>7 DEF PlannedFrom

\* The pairs of tensor and plan that a graph's walk meets.
MentionsOf(g) ==
  {<<g.leafs[i], plan.leafs[i].dst>> : i \in 1 .. Len(g.leafs)}
    \cup {<<g.nodes[i], plan.nodes[i].dst>> : i \in 1 .. Len(g.nodes)}
    \cup UNION {{<<g.srcs[g.nodes[i]][j], SrcAlloc(i, j)>> : j \in 1 .. Len(g.srcs[g.nodes[i]])} :
                 i \in 1 .. Len(g.nodes)}

LEMMA MentionsAre ==
  ASSUME NEW F \in Families, NEW g \in F
  PROVE  Mentions(g) \in Seq(MentionsOf(g))
<1> DEFINE S == MentionsOf(g)
           ls == [i \in DOMAIN g.leafs |-> <<g.leafs[i], plan.leafs[i].dst>>]
           some(i) == [j \in DOMAIN g.srcs[g.nodes[i]] |-> <<g.srcs[g.nodes[i]][j], SrcAlloc(i, j)>>]
           ns == [i \in DOMAIN g.nodes |-> Append(some(i), <<g.nodes[i], plan.nodes[i].dst>>)]
<1>1. /\ DOMAIN g.leafs = 1 .. Len(g.leafs) /\ Len(g.leafs) \in Nat
      /\ DOMAIN g.nodes = 1 .. Len(g.nodes) /\ Len(g.nodes) \in Nat
      /\ \A i \in 1 .. Len(g.nodes) :
           /\ DOMAIN g.srcs[g.nodes[i]] = 1 .. Len(g.srcs[g.nodes[i]])
           /\ Len(g.srcs[g.nodes[i]]) \in Nat
  <2>1. g.leafs \in Seq(Tensors) /\ g.nodes \in Seq(Tensors) /\ g.srcs \in [Tensors -> Seq(Tensors)]
    BY GraphIs
  <2>2. \A i \in 1 .. Len(g.nodes) : g.srcs[g.nodes[i]] \in Seq(Tensors)
    BY <2>1
  <2> QED
    BY <2>1, <2>2
<1>2. ls \in Seq(S)
  <2>1. ls \in [1 .. Len(g.leafs) -> S]
    BY <1>1 DEF MentionsOf
  <2> HIDE DEF ls, S
  <2> QED
    BY <1>1, <2>1, ListOf
<1>3. ASSUME NEW i \in 1 .. Len(g.nodes)
      PROVE  Append(some(i), <<g.nodes[i], plan.nodes[i].dst>>) \in Seq(S)
  <2>1. some(i) \in [1 .. Len(g.srcs[g.nodes[i]]) -> S]
    <3>1. \A j \in 1 .. Len(g.srcs[g.nodes[i]]) : <<g.srcs[g.nodes[i]][j], SrcAlloc(i, j)>> \in S
      BY DEF MentionsOf
    <3> HIDE DEF S
    <3> QED
      BY <1>1, <3>1
  <2>2. <<g.nodes[i], plan.nodes[i].dst>> \in S
    BY DEF MentionsOf
  <2> HIDE DEF S, some
  <2>3. some(i) \in Seq(S)
    BY <1>1, <2>1, ListOf
  <2> QED
    BY <2>2, <2>3, AppendProperties
<1>4. ns \in Seq(Seq(S))
  <2>1. ns \in [1 .. Len(g.nodes) -> Seq(S)]
    <3> HIDE DEF S, some
    <3> QED
      BY <1>1, <1>3
  <2> HIDE DEF ns, S
  <2> QED
    BY <1>1, <2>1, ListOf
<1>5. Mentions(g) = ls \o FlattenSeq(ns)
  BY DEF Mentions
<1> HIDE DEF ls, ns, S
<1>6. FlattenSeq(ns) \in Seq(S)
  BY <1>4, FlattenIs
<1>7. PICK p : p = FlattenSeq(ns)
  OBVIOUS
<1>8. ls \o p \in Seq(S)
  BY <1>2, <1>6, <1>7, ConcatProperties
<1> QED
  BY <1>5, <1>7, <1>8 DEF S

\* A set of naturals has a first member.
LEMMA First ==
  ASSUME NEW T \in SUBSET Nat, T # {}
  PROVE  \E x \in T : \A y \in 0 .. x - 1 : y \notin T
<1>1. PICK x \in T : \A y \in T : ~(<<y, x>> \in OpToRel(<, Nat))
  BY NatLessThanWellFounded, WFMin
<1>2. ASSUME NEW y \in 0 .. x - 1 PROVE y \notin T
  <2>1. <<y, x>> \in OpToRel(<, Nat)
    BY <1>2 DEF OpToRel
  <2> QED
    BY <1>1, <2>1
<1> QED
  BY <1>1, <1>2

\* Where a tensor is placed is what the plan says of one of its mentions.
LEMMA PlacedAsMentioned ==
  ASSUME NEW F \in Families, NEW g \in F, NEW t \in DOMAIN PlacementOf(g)
  PROVE  Planned(g, t) /\ <<t, PlacementOf(g)[t]>> \in MentionsOf(g)
<1> DEFINE ms == Mentions(g)
           Is(k) == ms[k][1] = t /\ \A l \in 1 .. k - 1 : ms[l][1] # t
           k == CHOOSE k \in DOMAIN ms : Is(k)
<1>1. ms \in Seq(MentionsOf(g)) /\ DOMAIN ms = 1 .. Len(ms) /\ Len(ms) \in Nat
  BY MentionsAre
<1>2. /\ t \notin g.external /\ ~IsView(g, t) /\ PlacementOf(g)[t] = ms[k][2]
      /\ \E l \in DOMAIN ms : ms[l][1] = t
  BY DEF PlacementOf
<1> HIDE DEF ms
<1>3. \E l \in DOMAIN ms : Is(l)
  <2> DEFINE T == {l \in 1 .. Len(ms) : ms[l][1] = t}
  <2>1. T \in SUBSET Nat /\ T # {}
    BY <1>1, <1>2
  <2>2. PICK x \in T : \A y \in 0 .. x - 1 : y \notin T
    BY <2>1, First
  <2> QED
    BY <1>1, <2>2
<1>4. k \in DOMAIN ms /\ ms[k][1] = t
  <2>1. k \in DOMAIN ms /\ Is(k)
    <3> HIDE DEF Is
    <3> QED
      BY <1>3
  <2> QED
    BY <2>1
<1> HIDE DEF k
<1>5. ms[k] \in MentionsOf(g)
  BY <1>1, <1>4
<1>6. ms[k] = <<ms[k][1], ms[k][2]>>
  BY <1>5 DEF MentionsOf
<1> QED
  BY <1>2, <1>4, <1>5, <1>6 DEF Planned

\* A graph that needs no new plan fits the one there is.
LEMMA MentionFits ==
  ASSUME GraphInv, Foreseen, PlanInv, NEW g \in family, ~NeedsRealloc(g),
         NEW t, NEW a, <<t, a>> \in MentionsOf(g), Planned(g, t)
  PROVE  a.own /\ g.size[t] <= a.max /\ Inside(a)
<1>1. /\ Len(plan.nodes) = Len(g.nodes) /\ Len(plan.leafs) = Len(g.leafs)
      /\ \A i \in 1 .. Len(g.nodes) :
           /\ Fits(g, g.nodes[i], plan.nodes[i].dst)
           /\ \A j \in 1 .. Len(g.srcs[g.nodes[i]]) : Fits(g, g.srcs[g.nodes[i]][j], SrcAlloc(i, j))
      /\ \A i \in 1 .. Len(g.nodes) : g.nodes[i] \in Tensors
  <2>1. g.nodes \in Seq(Tensors) /\ g.srcs \in [Tensors -> Seq(Tensors)]
    BY GraphIs DEF GraphInv
  <2>2. /\ DOMAIN g.nodes = 1 .. Len(g.nodes)
        /\ \A i \in 1 .. Len(g.nodes) :
             g.nodes[i] \in Tensors /\ DOMAIN g.srcs[g.nodes[i]] = 1 .. Len(g.srcs[g.nodes[i]])
    BY <2>1
  <2> QED
    BY <2>2 DEF NeedsRealloc
<1>2. ASSUME NEW b, NEW u, Planned(g, u), Fits(g, u, b) PROVE b.own /\ g.size[u] <= b.max
  BY <1>2 DEF Planned, Fits
<1>3. CASE NoPlan
  <2>1. Len(plan.nodes) = 0 /\ Len(plan.leafs) = 0
    BY <1>3, EmptySeq DEF NoPlan
  <2>2. 1 .. Len(g.nodes) = {} /\ 1 .. Len(g.leafs) = {}
    BY <1>1, <2>1
  <2> QED
    BY <2>2 DEF MentionsOf
<1>4. ASSUME NEW h \in family, PlannedFrom(h) PROVE a.own /\ g.size[t] <= a.max /\ Inside(a)
  <2>1. /\ Len(g.nodes) = Len(h.nodes) /\ Len(g.leafs) = Len(h.leafs)
        /\ \A i \in 1 .. Len(g.leafs) : Entry(plan.leafs[i].dst, h, h.leafs[i])
        /\ \A i \in 1 .. Len(g.nodes) :
             /\ Entry(plan.nodes[i].dst, h, h.nodes[i])
             /\ DOMAIN plan.nodes[i].src = 1 .. Len(h.srcs[h.nodes[i]])
             /\ \A j \in 1 .. Len(h.srcs[h.nodes[i]]) :
                  Entry(plan.nodes[i].src[j], h, h.srcs[h.nodes[i]][j])
    BY <1>1, <1>4 DEF PlannedFrom
  <2>2. ASSUME NEW i \in 1 .. Len(g.nodes), NEW j \in 1 .. Len(g.srcs[g.nodes[i]]),
               Planned(g, g.srcs[g.nodes[i]][j])
        PROVE  /\ j \in 1 .. Len(h.srcs[h.nodes[i]]) /\ SrcAlloc(i, j) = plan.nodes[i].src[j]
               /\ SrcAlloc(i, j).own
    <3>1. SrcAlloc(i, j).own
      BY <1>1, <1>2, <2>2
    <3>2. SrcAlloc(i, j) # NoAlloc
      BY <3>1 DEF NoAlloc
    <3> QED
      BY <2>1, <3>1, <3>2 DEF SrcAlloc
  <2>3. ASSUME NEW i \in 1 .. Len(g.nodes)
        PROVE  /\ FitsIn(g, g.nodes[i], h, h.nodes[i])
               /\ \A j \in 1 .. Len(g.srcs[g.nodes[i]]) :
                    Planned(g, g.srcs[g.nodes[i]][j]) =>
                      /\ j <= Len(h.srcs[h.nodes[i]])
                      /\ FitsIn(g, g.srcs[g.nodes[i]][j], h, h.srcs[h.nodes[i]][j])
    <3>1. FitsIn(g, g.nodes[i], h, h.nodes[i])
      BY <1>1, <1>2, <2>1 DEF FitsIn, Entry
    <3>2. ASSUME NEW j \in 1 .. Len(g.srcs[g.nodes[i]]), Planned(g, g.srcs[g.nodes[i]][j])
          PROVE  /\ j <= Len(h.srcs[h.nodes[i]])
                 /\ FitsIn(g, g.srcs[g.nodes[i]][j], h, h.srcs[h.nodes[i]][j])
      <4>1. /\ j \in 1 .. Len(h.srcs[h.nodes[i]]) /\ SrcAlloc(i, j) = plan.nodes[i].src[j]
            /\ SrcAlloc(i, j).own
        BY <2>2, <3>2
      <4>2. g.size[g.srcs[g.nodes[i]][j]] <= SrcAlloc(i, j).max
        BY <1>1, <1>2, <3>2
      <4>3. Entry(SrcAlloc(i, j), h, h.srcs[h.nodes[i]][j])
        BY <2>1, <4>1
      <4> QED
        <5>1. /\ Planned(h, h.srcs[h.nodes[i]][j])
              /\ SrcAlloc(i, j).max = h.size[h.srcs[h.nodes[i]][j]]
          BY <4>1, <4>3 DEF Entry
        <5>2. FitsIn(g, g.srcs[g.nodes[i]][j], h, h.srcs[h.nodes[i]][j])
          BY <4>2, <5>1 DEF FitsIn
        <5> QED
          BY <4>1, <5>2
    <3> QED
      BY <3>1, <3>2
  <2>4. \A i \in 1 .. Len(g.leafs) : FitsIn(g, g.leafs[i], h, h.leafs[i])
    BY <2>1, <2>3 DEF Foreseen, LeafsFollow
  <2>5. ASSUME NEW i \in 1 .. Len(g.leafs), t = g.leafs[i], a = plan.leafs[i].dst
        PROVE  a.own /\ g.size[t] <= a.max /\ Inside(a)
    <3>1. Planned(h, h.leafs[i]) /\ g.size[t] <= h.size[h.leafs[i]]
      BY <2>4, <2>5 DEF FitsIn
    <3>2. Entry(a, h, h.leafs[i])
      BY <2>1, <2>5
    <3> QED
      BY <3>1, <3>2 DEF Entry
  <2>6. ASSUME NEW i \in 1 .. Len(g.nodes), t = g.nodes[i], a = plan.nodes[i].dst
        PROVE  a.own /\ g.size[t] <= a.max /\ Inside(a)
    <3>1. a.own /\ g.size[t] <= a.max
      BY <1>1, <1>2, <2>6
    <3>2. Entry(a, h, h.nodes[i])
      BY <2>1, <2>6
    <3> QED
      BY <3>1, <3>2 DEF Entry
  <2>7. ASSUME NEW i \in 1 .. Len(g.nodes), NEW j \in 1 .. Len(g.srcs[g.nodes[i]]),
               t = g.srcs[g.nodes[i]][j], a = SrcAlloc(i, j)
        PROVE  a.own /\ g.size[t] <= a.max /\ Inside(a)
    <3>1. a.own /\ g.size[t] <= a.max
      BY <1>1, <1>2, <2>7
    <3>2. j \in 1 .. Len(h.srcs[h.nodes[i]]) /\ a = plan.nodes[i].src[j]
      BY <2>2, <2>7
    <3>3. Entry(a, h, h.srcs[h.nodes[i]][j])
      BY <2>1, <3>2
    <3> QED
      BY <3>1, <3>3 DEF Entry
  <2> QED
    BY <2>5, <2>6, <2>7 DEF MentionsOf
<1> QED
  BY <1>3, <1>4 DEF PlanInv

LEMMA GraphPlaced ==
  ASSUME GraphInv, BufferInv, Foreseen, PlanInv, NEW g \in family, ~NeedsRealloc(g), PlaceGraph(g)
  PROVE  InsideBuffers'
<1>1. placed' = PlacementOf(g) /\ graph' = g /\ buffers' = buffers
  BY DEF PlaceGraph
<1> SUFFICES ASSUME NEW t \in DOMAIN placed'
             PROVE  /\ placed'[t].own /\ buffers[placed'[t].at.buffer].there
                    /\ placed'[t].at.chunk \in DOMAIN buffers[placed'[t].at.buffer].sizes
                    /\ End(MemoryOf(t))' <= ChunkSize(placed'[t].at.buffer, placed'[t].at.chunk)
  BY <1>1 DEF InsideBuffers, ChunkSize
<1>2. PICK a : a = placed'[t]
  OBVIOUS
<1>3. Planned(g, t) /\ <<t, a>> \in MentionsOf(g)
  BY <1>1, <1>2, PlacedAsMentioned DEF GraphInv
<1>4. a.own /\ g.size[t] <= a.max /\ Inside(a)
  BY <1>3, MentionFits
<1>5. /\ a.at \in PlaceType /\ a.at.offset \in Nat /\ a.max \in Nat
      /\ a.at.chunk \in DOMAIN buffers[a.at.buffer].sizes
      /\ buffers[a.at.buffer].sizes[a.at.chunk] \in Nat
      /\ a.at.offset + a.max <= buffers[a.at.buffer].sizes[a.at.chunk]
  BY <1>4 DEF Inside, PlaceType
<1>6. MemoryOf(t)' = [a.at EXCEPT !.size = g.size[t]]
  BY <1>1, <1>2 DEF MemoryOf
<1>7. [a.at EXCEPT !.size = g.size[t]].offset = a.at.offset
      /\ [a.at EXCEPT !.size = g.size[t]].size = g.size[t]
  BY <1>5 DEF PlaceType
<1>8. End(MemoryOf(t))' = a.at.offset + g.size[t]
  BY <1>6, <1>7 DEF End
<1>9. t \in Tensors
  <2>1. g.leafs \in Seq(Tensors) /\ g.nodes \in Seq(Tensors) /\ g.srcs \in [Tensors -> Seq(Tensors)]
    BY GraphIs DEF GraphInv
  <2>2. /\ \A i \in 1 .. Len(g.leafs) : g.leafs[i] \in Tensors
        /\ \A i \in 1 .. Len(g.nodes) :
             /\ g.nodes[i] \in Tensors
             /\ g.srcs[g.nodes[i]] \in Seq(Tensors)
             /\ \A j \in 1 .. Len(g.srcs[g.nodes[i]]) : g.srcs[g.nodes[i]][j] \in Tensors
    BY <2>1
  <2> QED
    BY <1>3, <2>2 DEF MentionsOf
<1>10. g.size[t] \in Nat
  BY <1>9, GraphIs DEF GraphInv
<1>11. a.at.offset + g.size[t] <= buffers[a.at.buffer].sizes[a.at.chunk]
  BY <1>4, <1>5, <1>10
<1> QED
  BY <1>2, <1>4, <1>5, <1>8, <1>11 DEF Inside, ChunkSize

(***************************************************************************)
(* The invariant.                                                           *)
(***************************************************************************)
BufInv == GraphInv /\ AllocInv /\ BufferInv /\ PlanningInv /\ PlanInv /\ (Foreseen => InsideBuffers)

LEMMA BufInvInit == Init => BufInv
<1> SUFFICES ASSUME Init PROVE BufInv
  OBVIOUS
<1>1. GraphInv /\ AllocInv
  BY AllocInvInit DEF Init, GraphInv, AllocInit
<1>2. BufferInv
  BY EmptySeq DEF Init, BufferInv, Missing
<1>3. PlanningInv /\ PlanInv /\ InsideBuffers
  BY DEF Init, PlanningInv, Planning, PlanInv, NoPlan, InsideBuffers
<1> QED
  BY <1>1, <1>2, <1>3 DEF BufInv

LEMMA BufInvKept ==
  ASSUME BufInv, [Next]_gvars PROVE BufInv'
<1>1. GraphInv /\ AllocInv /\ BufferInv /\ PlanningInv /\ PlanInv /\ (Foreseen => InsideBuffers)
  BY DEF BufInv
<1>2. GraphInv' /\ AllocInv' /\ BufferInv'
  BY <1>1, GraphInvKept, StepImplements, StepKeeps, BuffersKept
<1>3. family' = family /\ (Foreseen' <=> Foreseen)
  BY DEF Foreseen, Next, gvars, planVars, AllocGraph, BeginPlan, PlaceGraph, Reserve, Step, Commit, Place
<1>4. ASSUME plan' = plan, buffers' = buffers PROVE PlanInv'
  <2>1. ASSUME NEW h, PlannedFrom(h) PROVE PlannedFrom(h)'
    <3>1. \A a : Inside(a)' <=> Inside(a)
      BY <1>4 DEF Inside
    <3>2. \A a, t : Entry(a, h, t)' <=> Entry(a, h, t)
      BY <3>1 DEF Entry
    <3>3. ASSUME NEW i \in 1 .. Len(h.leafs) PROVE Entry(plan.leafs[i].dst, h, h.leafs[i])'
      <4>1. PICK a : a = plan.leafs[i].dst
        OBVIOUS
      <4>2. Entry(a, h, h.leafs[i])
        BY <2>1, <4>1 DEF PlannedFrom
      <4>3. a = plan'.leafs[i].dst
        BY <1>4, <4>1
      <4>4. Entry(a, h, h.leafs[i])'
        BY <3>2, <4>2
      <4> QED
        BY <4>3, <4>4 DEF Entry, Inside
    <3> QED
      BY <1>4, <2>1, <3>3, <3>2 DEF PlannedFrom
  <2>2. NoPlan => NoPlan'
    BY <1>4 DEF NoPlan
  <2> QED
    BY <1>1, <1>3, <2>1, <2>2 DEF PlanInv
<1>5. ASSUME NEW g \in family, PlaceGraph(g), ~NeedsRealloc(g) PROVE BufInv'
  <2>1. PlanInv'
    BY <1>4, <1>5 DEF PlaceGraph
  <2>2. PlanningInv'
    BY <1>5 DEF PlaceGraph, PlanningInv, Planning
  <2>3. Foreseen => InsideBuffers'
    BY <1>1, <1>5, GraphPlaced
  <2> QED
    BY <1>2, <1>3, <2>1, <2>2, <2>3 DEF BufInv
<1>6. ASSUME NEW g \in family, BeginPlan(g), graph' = g, phase' \in {"allocating", "reserving"},
             plan' = plan, buffers' = buffers
      PROVE  BufInv'
  <2>1. PlanningInv'
    BY <1>1, <1>6, PlanningBegins DEF GraphInv
  <2>2. InsideBuffers'
    BY <1>6 DEF InsideBuffers
  <2> QED
    BY <1>2, <1>4, <1>6, <2>1, <2>2 DEF BufInv
<1>7. ASSUME NEW g \in family, AllocGraph(g) PROVE BufInv'
  <2>1. CASE BackendIdsChanged(g) \/ NeedsRealloc(g)
    BY <1>6, <1>7, <2>1 DEF AllocGraph, galloc
  <2>2. CASE ~(BackendIdsChanged(g) \/ NeedsRealloc(g))
    BY <1>5, <1>7, <2>2 DEF AllocGraph
  <2> QED
    BY <2>1, <2>2
<1>8. ASSUME NEW g \in family, Reserve(g) PROVE BufInv'
  BY <1>6, <1>8 DEF Reserve
<1>9. CASE Step
  <2>1. PlanningInv'
    BY <1>1, <1>2, <1>9, PlanningStep
  <2>2. InsideBuffers'
    BY <1>9 DEF Step, Planning, InsideBuffers
  <2>3. PlanInv'
    BY <1>4, <1>9 DEF Step, galloc
  <2> QED
    BY <1>2, <2>1, <2>2, <2>3 DEF BufInv
<1>10. CASE Commit
  <2>1. phase' \in {"idle", "reserved"} /\ graph' = graph
    BY <1>10 DEF Commit
  <2>2. PlanningInv' /\ InsideBuffers'
    BY <2>1 DEF PlanningInv, Planning, InsideBuffers
  <2>3. ASSUME Foreseen PROVE PlanInv'
    <3>1. PICK h : h = graph
      OBVIOUS
    <3>2. PlannedFrom(h)' /\ h \in family'
      BY <1>1, <1>2, <1>10, <2>1, <2>3, <3>1, CommitPlans DEF GraphInv
    <3> QED
      BY <3>2 DEF PlanInv
  <2>4. PlanInv'
    BY <1>3, <2>3 DEF PlanInv
  <2> QED
    BY <1>2, <2>2, <2>4 DEF BufInv
<1>11. CASE Place
  BY <1>1, <1>5, <1>11 DEF Place, GraphInv
<1>12. CASE UNCHANGED gvars
  <2>1. PlanningInv'
    <3>1. ASSUME NEW t PROVE Settled(t) => Settled(t)'
      BY <1>12 DEF gvars, allocVars, planVars, Settled
    <3> QED
      BY <1>1, <1>12, <3>1 DEF gvars, allocVars, planVars, PlanningInv, Planning, LiveLarge
  <2>2. Foreseen => InsideBuffers'
    BY <1>1, <1>12 DEF gvars, allocVars, planVars, galloc, InsideBuffers, MemoryOf, ChunkSize
  <2>3. PlanInv'
    BY <1>4, <1>12 DEF gvars, galloc
  <2> QED
    BY <1>2, <1>3, <2>1, <2>2, <2>3 DEF BufInv
<1> QED
  BY <1>7, <1>8, <1>9, <1>10, <1>11, <1>12 DEF Next

\* Every tensor that is placed lies within a chunk that exists, also when the plan and the
\* buffers were made for another graph of the family (InsideBuffers): as long as no backend is
\* out of memory, no tensor is empty, and the leafs, which are only counted, fit when the nodes
\* and what they read do.
THEOREM GraphsFitBuffers == Spec => [](Foreseen => InsideBuffers)
<1>1. BufInv => (Foreseen => InsideBuffers)
  BY DEF BufInv
<1> QED
  BY <1>1, BufInvInit, BufInvKept, PTL DEF Spec
==============================================================================
