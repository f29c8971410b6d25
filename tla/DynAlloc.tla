-------------------------------- MODULE DynAlloc --------------------------------
(***************************************************************************)
(* ggml_dyn_tallocr (ggml/src/ggml-alloc.c): the allocator that plans where *)
(* the tensors of a graph will be.  A buffer is a list of chunks, each with *)
(* the array of its free blocks and the largest end a tensor has had, which *)
(* is the size that will be reserved.                                       *)
(*                                                                          *)
(* Here a client allocates, gives back and hands over tensors in any order; *)
(* GraphAlloc is the client of the code.                                    *)
(***************************************************************************)
EXTENDS Integers, Sequences, FiniteSets

CONSTANTS
  Buffers, Tensors,
  Sizes,         \* bytes that are asked for
  Alignment,     \* of the buffer type
  MaxChunkSize,  \* max_chunk_size
  MaxChunks,     \* GGML_VBUFFER_MAX_CHUNKS
  Huge           \* SIZE_MAX/2

ASSUME AllocAssumption ==
  /\ Sizes \subseteq Nat
  /\ Alignment \in Nat \ {0} /\ MaxChunkSize \in Nat /\ MaxChunks \in Nat \ {0} /\ Huge \in Nat

VARIABLES
  chunks,  \* per buffer: chunks, n_chunks
  live,    \* the tensors that have memory
  place    \* per tensor, the memory it has, or had: buffer, chunk, offset and aligned size

allocVars == <<chunks, live, place>>

Larger(a, b) == IF a > b THEN a ELSE b

\* aligned_offset(NULL, n, alignment)
Aligned(n) == n + ((Alignment - (n % Alignment)) % Alignment)

Block(offset, size) == [offset |-> offset, size |-> size]
End(b) == b.offset + b.size
Nowhere == [buffer |-> CHOOSE b \in Buffers : TRUE, chunk |-> 0, offset |-> 0, size |-> 0]

AllocInit ==
  /\ chunks = [b \in Buffers |-> <<>>]
  /\ live = {}
  /\ place = [t \in Tensors |-> Nowhere]

(***************************************************************************)
(* The array of free blocks.                                                *)
(***************************************************************************)

\* ggml_dyn_tallocr_remove_block: the blocks behind move up.
RemoveBlock(free, i) == [k \in 1 .. Len(free) - 1 |-> IF k < i THEN free[k] ELSE free[k + 1]]

\* Mutant of InsertPos: the block goes to the end.
InsertPosLast(free, offset, pos) == pos = Len(free) + 1

\* Where insert_block puts a block: before the first one that is not in front of it.
InsertPos(free, offset, pos) ==
  /\ \A k \in 1 .. pos - 1 : free[k].offset < offset
  /\ pos <= Len(free) => free[pos].offset >= offset

\* The blocks behind it move down.
InsertBlock(free, pos, block) ==
  [k \in 1 .. Len(free) + 1 |->
     IF k < pos THEN free[k] ELSE IF k = pos THEN block ELSE free[k - 1]]

\* Blocks i and i + 1 become one.
MergeNext(free, i) ==
  RemoveBlock([free EXCEPT ![i] = Block(@.offset, @.size + free[i + 1].size)], i + 1)

\* free_bytes behind block i, in front of block i, or at neither.
ExtendBack(free, i, size) ==
  LET grown == [free EXCEPT ![i] = Block(@.offset, @.size + size)]
  IN IF i < Len(free) /\ End(grown[i]) = grown[i + 1].offset THEN MergeNext(grown, i) ELSE grown

ExtendFront(free, i, p) ==
  LET grown == [free EXCEPT ![i] = Block(p.offset, @.size + p.size)]
  IN IF i > 1 /\ End(grown[i - 1]) = p.offset THEN MergeNext(grown, i - 1) ELSE grown

Touches(b, p) == End(b) = p.offset \/ End(p) = b.offset

\* ggml_dyn_tallocr_free_bytes: the first block that touches the memory p grows by it, and
\* perhaps by its neighbour; without one there is a new block.
FreeBytes(p) ==
  LET free == chunks[p.buffer][p.chunk].free
      Becomes(free2) == chunks' = [chunks EXCEPT ![p.buffer][p.chunk].free = free2]
  IN \/ \E i \in 1 .. Len(free) :
          /\ \A k \in 1 .. i - 1 : ~Touches(free[k], p)
          /\ \/ End(free[i]) = p.offset /\ Becomes(ExtendBack(free, i, p.size))
             \/ /\ End(free[i]) # p.offset /\ End(p) = free[i].offset
                /\ Becomes(ExtendFront(free, i, p))
     \/ /\ \A i \in 1 .. Len(free) : ~Touches(free[i], p)
        /\ \E pos \in 1 .. Len(free) + 1 :
             InsertPos(free, p.offset, pos) /\ Becomes(InsertBlock(free, pos, Block(p.offset, p.size)))

(***************************************************************************)
(* ggml_dyn_tallocr_alloc.                                                  *)
(***************************************************************************)

\* Block i of a chunk of buffer b is large enough and not the chunk's last one.
InnerFit(b, c, i, size) ==
  /\ c \in 1 .. Len(chunks[b]) /\ i \in 1 .. Len(chunks[b][c].free) - 1
  /\ chunks[b][c].free[i].size >= size
HasInnerFit(b, c, size) == \E i \in 1 .. Len(chunks[b][c].free) : InnerFit(b, c, i, size)

\* The smallest such block, the last of equals, of the last chunk that has one.
BestInner(b, c, i, size) ==
  /\ InnerFit(b, c, i, size)
  /\ \A d \in c + 1 .. Len(chunks[b]) : ~HasInnerFit(b, d, size)
  /\ \A k \in 1 .. Len(chunks[b][c].free) :
       InnerFit(b, c, k, size) =>
         LET here == chunks[b][c].free[i].size
             there == chunks[b][c].free[k].size
         IN here < there \/ (here = there /\ k <= i)

LastFit(b, c, i, size) ==
  /\ c \in 1 .. Len(chunks[b]) /\ i = Len(chunks[b][c].free) /\ i > 0
  /\ chunks[b][c].free[i].size >= size

\* How far the reserved size reaches beyond the tensor's end, or falls short of it.
Reuse(b, c, size) ==
  chunks[b][c].max - chunks[b][c].free[Len(chunks[b][c].free)].offset - size
Better(r, s) == IF r >= 0 THEN s < 0 \/ r < s ELSE s < 0 /\ r > s

\* Otherwise the last block of the chunk whose reserved size suits best, the first of equals.
BestLast(b, c, i, size) ==
  /\ \A d \in 1 .. Len(chunks[b]) : ~HasInnerFit(b, d, size)
  /\ LastFit(b, c, i, size)
  /\ \A d \in 1 .. Len(chunks[b]) :
       LastFit(b, d, Len(chunks[b][d].free), size) =>
         IF d < c THEN Better(Reuse(b, c, size), Reuse(b, d, size))
         ELSE ~Better(Reuse(b, d, size), Reuse(b, c, size))

NoFit(b, size) ==
  \A c \in 1 .. Len(chunks[b]) :
    \A i \in 1 .. Len(chunks[b][c].free) : chunks[b][c].free[i].size < size

\* Mutant of NewChunk: the last chunk is like the others.
NewChunkAlike(b, size) == [free |-> <<Block(0, Larger(size, MaxChunkSize))>>, max |-> 0]

\* ggml_dyn_tallocr_new_chunk
NewChunk(b, size) ==
  [free |-> <<Block(0, IF Len(chunks[b]) = MaxChunks - 1 THEN Huge ELSE Larger(size, MaxChunkSize))>>,
   max |-> 0]

\* Mutant of TakeFrom: the block keeps what the tensor takes.
TakeFromKept(chunk, i, size) ==
  [free |-> [chunk.free EXCEPT ![i] = Block(@.offset, @.size - size)],
   max |-> Larger(chunk.max, chunk.free[i].offset + size)]

\* The front of block i, which goes when nothing is left of it.
TakeFrom(chunk, i, size) ==
  [free |-> IF chunk.free[i].size = size THEN RemoveBlock(chunk.free, i)
            ELSE [chunk.free EXCEPT ![i] = Block(@.offset + size, @.size - size)],
   max |-> Larger(chunk.max, chunk.free[i].offset + size)]

At(b, c, offset, size) == [buffer |-> b, chunk |-> c, offset |-> offset, size |-> size]

\* Tensor t gets size bytes of buffer b: from a block, or from a new chunk.
Allocate(t, b, size) ==
  /\ t \notin live
  /\ live' = live \cup {t}
  /\ LET n == Aligned(size)
     IN \/ \E c \in 1 .. Len(chunks[b]) : \E i \in 1 .. Len(chunks[b][c].free) :
             /\ BestInner(b, c, i, n) \/ BestLast(b, c, i, n)
             /\ chunks' = [chunks EXCEPT ![b][c] = TakeFrom(@, i, n)]
             /\ place' = [place EXCEPT ![t] = At(b, c, chunks[b][c].free[i].offset, n)]
        \/ /\ NoFit(b, n) /\ Len(chunks[b]) < MaxChunks
           /\ NewChunk(b, n).free[1].size >= n
           /\ chunks' = [chunks EXCEPT ![b] = Append(@, TakeFrom(NewChunk(b, n), 1, n))]
           /\ place' = [place EXCEPT ![t] = At(b, Len(chunks[b]) + 1, 0, n)]

\* ggml_gallocr_free_node
Release(t) ==
  /\ t \in live
  /\ live' = live \ {t}
  /\ FreeBytes(place[t])
  /\ UNCHANGED place

\* A tensor of size bytes takes over the memory of p, which is given up; what is left behind
\* it is freed (ggml_gallocr_free_extra_space).
TakeOver(t, p, size) ==
  LET n == Aligned(size)
      here == place[p]
  IN /\ p \in live /\ t \notin live /\ n <= here.size
     /\ live' = (live \ {p}) \cup {t}
     /\ place' = [place EXCEPT ![t] = At(here.buffer, here.chunk, here.offset, n)]
     /\ IF n < here.size
        THEN FreeBytes(At(here.buffer, here.chunk, here.offset + n, here.size - n))
        ELSE UNCHANGED chunks

\* ggml_dyn_tallocr_reset, for the next graph.
Reset ==
  /\ chunks' = [b \in Buffers |-> <<>>]
  /\ live' = {}
  /\ UNCHANGED place

AllocNext ==
  \/ \E t \in Tensors, b \in Buffers, size \in Sizes : Allocate(t, b, size)
  \/ \E t \in Tensors : Release(t)
  \/ \E t, p \in Tensors, size \in Sizes : TakeOver(t, p, size)
  \/ Reset

AllocSpec == AllocInit /\ [][AllocNext]_allocVars

(***************************************************************************)
(* Properties.                                                              *)
(***************************************************************************)
BlockType == [offset : Nat, size : Nat]

\* Two pieces of memory have no byte in common.
Apart(p, q) == p.size = 0 \/ q.size = 0 \/ End(p) <= q.offset \/ End(q) <= p.offset
SameChunk(t, u) == place[t].buffer = place[u].buffer /\ place[t].chunk = place[u].chunk

\* No two tensors that have memory share a byte, whatever was given back, handed over and
\* merged before.
LiveApart == \A t, u \in live : t # u /\ SameChunk(t, u) => Apart(place[t], place[u])

\* No byte is free while a tensor has it, and none is free twice.
FreeOf(t) == chunks[place[t].buffer][place[t].chunk].free
FreeIsFree ==
  /\ \A t \in live : \A i \in 1 .. Len(FreeOf(t)) : Apart(place[t], FreeOf(t)[i])
  /\ \A b \in Buffers : \A c \in 1 .. Len(chunks[b]) : \A i, j \in 1 .. Len(chunks[b][c].free) :
       i # j => Apart(chunks[b][c].free[i], chunks[b][c].free[j])

\* The size that will be reserved for a chunk reaches to the end of every tensor in it.
Reserved == \A t \in live : End(place[t]) <= chunks[place[t].buffer][place[t].chunk].max

\* "keep the array sorted by address": the blocks are in order and no two of them touch.  So there
\* are no more of them than tensors in the chunk, and one; and once nothing has memory the chunk
\* is one block again.  Tensors without bytes spoil it, so that it holds while every tensor has
\* some.
Compact ==
  \A b \in Buffers : \A c \in 1 .. Len(chunks[b]) :
    LET free == chunks[b][c].free
        here == {t \in live : place[t].buffer = b /\ place[t].chunk = c}
    IN /\ \A i \in 1 .. Len(free) - 1 : End(free[i]) < free[i + 1].offset
       /\ Len(free) <= Cardinality(here) + 1
       /\ here = {} => Len(free) = 1

\* The free blocks are what nobody has, and as few as can be: the fixed array that keeps them
\* does not fill up with pieces.
BlocksSound == FreeIsFree /\ Compact
==============================================================================
