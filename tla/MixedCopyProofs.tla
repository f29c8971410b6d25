--------------------------- MODULE MixedCopyProofs ---------------------------
(***************************************************************************)
(* Proofs about MixedCopy, for tensors, chunks and rings of every size: its *)
(* type invariant, that the two threads never use one slot's memory at the  *)
(* same time, and that the destination always holds exactly the bytes of    *)
(* the chunks written so far - all of them once both threads have ended.    *)
(***************************************************************************)
EXTENDS MixedCopy, TLAPS

(***************************************************************************)
(* Arithmetic of the chunks.                                                *)
(***************************************************************************)

\* Every chunk of the count begins inside of the tensor.
LEMMA ChunkBegins ==
  \A n, c, k \in Nat : n > 0 /\ c > 0 /\ k < ChunkCount(n, c) => k * c < n
  BY DEF ChunkCount

\* The chunks of the count cover the tensor.
LEMMA ChunksCover ==
  \A n, c \in Nat : n > 0 /\ c > 0 => ChunkCount(n, c) * c >= n
  BY DEF ChunkCount

\* There is at least one chunk, and the count is a number.
LEMMA ChunkCountPositive ==
  \A n, c \in Nat : n > 0 /\ c > 0 => ChunkCount(n, c) \in Nat \ {0}
  BY DEF ChunkCount

\* A remainder is an index of the ring.
LEMMA RemainderInRing == \A k, n \in Nat : n > 0 => k % n \in 0 .. n - 1
  OBVIOUS

\* The chunk after k begins where k would end if it were full.
LEMMA NextChunk == \A k, c \in Nat : (k + 1) * c = k * c + c
  OBVIOUS

\* Two chunks that begin at the same byte are one.
LEMMA ChunkOfOffset == \A k, m, c \in Nat : c > 0 /\ k * c = m * c => k = m
<1> SUFFICES ASSUME NEW k \in Nat, NEW m \in Nat, NEW c \in Nat, c > 0, k * c = m * c
             PROVE  k = m
  OBVIOUS
<1>1. (k - m) * c = 0
  OBVIOUS
<1> QED
  BY <1>1

(***************************************************************************)
(* The inductive invariant.                                                 *)
(***************************************************************************)

\* The chunks that have been handed over and not yet been given back.
Filled == IF producer = "notify" THEN made + 1 ELSE made
Emptied == IF consumer = "notify" THEN taken + 1 ELSE taken
Live == Emptied .. Filled - 1

Chunk(k) == [from |-> k * chunkSize, len |-> ChunkLen(k)]

\* Slot s is described as chunk k; its memory holds chunk k.
Described(s, k) == offset[s] = k * chunkSize /\ size[s] = ChunkLen(k)
Holds(s, k) == Described(s, k) /\ stage[s] = Chunk(k)

\* The producer works on an empty slot, the consumer on a full one.
ThreadsOK ==
  /\ producer # "claim" => made < NChunks
  /\ consumer # "claim" => taken < NChunks
  /\ producer \in {"get", "getting", "publish"} =>
       ~full[SlotOf(made)] /\ Described(SlotOf(made), made)
  /\ producer = "publish" => Holds(SlotOf(made), made)
  /\ consumer \in {"setting", "release"} => full[SlotOf(taken)]

\* The full slots are those of the live chunks, and each holds its chunk.
RingOK ==
  /\ Emptied <= Filled
  /\ \A k \in Live : full[SlotOf(k)] /\ Holds(SlotOf(k), k)
  /\ \A s \in Ring : full[s] => \E k \in Live : SlotOf(k) = s

DestinationOK == \A b \in Bytes : dst[b] = IF b < Written * chunkSize THEN b ELSE Unwritten

IInv == TypeOK /\ ThreadsOK /\ RingOK /\ DestinationOK

\* What every step keeps of the call's sizes.
LEMMA SizesAreNumbers ==
  ASSUME TypeOK
  PROVE  /\ nbytes \in Nat \ {0} /\ chunkSize \in Nat \ {0} /\ nSlots \in Nat \ {0}
         /\ chunkSize <= nbytes
         /\ NChunks \in Nat \ {0}
         /\ made \in Nat /\ taken \in Nat
         /\ \A k \in Nat : SlotOf(k) \in Ring
<1>1. nbytes \in Nat \ {0} /\ chunkSize \in Nat \ {0} /\ chunkSize <= nbytes
  BY SizesAssumption DEF TypeOK
<1>2. NChunks \in Nat \ {0}
  BY <1>1, ChunkCountPositive DEF NChunks
<1>3. nSlots \in Nat \ {0} /\ made \in Nat /\ taken \in Nat
  BY <1>2 DEF TypeOK
<1>4. \A k \in Nat : SlotOf(k) \in Ring
  BY <1>3, RemainderInRing DEF SlotOf, Ring
<1> QED
  BY <1>1, <1>2, <1>3, <1>4

\* A chunk of the tensor lies inside of it.
LEMMA ChunkInside ==
  ASSUME TypeOK, NEW k \in Nat, k < NChunks
  PROVE  /\ k * chunkSize \in 0 .. nbytes - 1
         /\ ChunkLen(k) \in 1 .. chunkSize
         /\ k * chunkSize + ChunkLen(k) <= nbytes
<1>1. nbytes \in Nat \ {0} /\ chunkSize \in Nat \ {0}
  BY SizesAreNumbers
<1>2. k * chunkSize < nbytes
  BY <1>1, ChunkBegins DEF NChunks
<1>3. k * chunkSize \in Nat
  BY <1>1
<1> DEFINE off == k * chunkSize
<1> HIDE DEF off
<1>4. off \in Nat /\ off < nbytes
  BY <1>2, <1>3 DEF off
<1>5. Lesser(chunkSize, nbytes - off) \in 1 .. chunkSize
      /\ off + Lesser(chunkSize, nbytes - off) <= nbytes
  BY <1>1, <1>4 DEF Lesser
<1>6. ChunkLen(k) = Lesser(chunkSize, nbytes - off)
  BY DEF ChunkLen, off
<1>7. off \in 0 .. nbytes - 1 /\ ChunkLen(k) \in 1 .. chunkSize /\ off + ChunkLen(k) <= nbytes
  BY <1>1, <1>4, <1>5, <1>6
<1> QED
  BY <1>7 DEF off

\* The sizes of a call do not change while it runs.
LEMMA SizesStay ==
  ASSUME UNCHANGED question
  PROVE  /\ NChunks' = NChunks /\ Ring' = Ring /\ Bytes' = Bytes
         /\ nbytes' = nbytes /\ chunkSize' = chunkSize /\ nSlots' = nSlots
         /\ \A k : SlotOf(k)' = SlotOf(k) /\ ChunkLen(k)' = ChunkLen(k) /\ Chunk(k)' = Chunk(k)
  BY DEF question, NChunks, Ring, Bytes, SlotOf, ChunkLen, Chunk

\* Claim: the producer describes an empty slot; no live chunk is in it.
LEMMA ClaimKeeps == IInv /\ Claim => IInv'
<1> SUFFICES ASSUME IInv, Claim PROVE IInv'
  OBVIOUS
<1> USE DEF IInv
<1> DEFINE s == SlotOf(made)
<1>0. nbytes \in Nat /\ chunkSize \in Nat
  BY SizesAreNumbers
<1>1. UNCHANGED question
  BY DEF Claim
<1>2. s \in Ring /\ made \in Nat /\ made < NChunks /\ ~full[s]
  BY SizesAreNumbers DEF Claim
<1>3. /\ made * chunkSize \in 0 .. nbytes - 1
      /\ ChunkLen(made) \in 1 .. chunkSize
      /\ made * chunkSize + ChunkLen(made) <= nbytes
  BY <1>2, ChunkInside
<1> DEFINE off == made * chunkSize
           len == ChunkLen(made)
<1>4. /\ offset' = [offset EXCEPT ![s] = off]
      /\ size' = [size EXCEPT ![s] = len]
      /\ UNCHANGED <<full, stage, dst, made, taken, consumer>>
      /\ producer' = "get"
  BY DEF Claim, question, consumerVars
<1>5. offset \in [Ring -> 0 .. nbytes] /\ size \in [Ring -> 0 .. chunkSize]
  BY DEF TypeOK
<1>6. off \in 0 .. nbytes - 1 /\ len \in 1 .. chunkSize /\ off + len <= nbytes
  BY <1>3
<1> HIDE DEF s, off, len
<1>7. TypeOK'
  <2>1. offset' \in [Ring -> 0 .. nbytes] /\ size' \in [Ring -> 0 .. chunkSize]
    <3>1. off \in 0 .. nbytes /\ len \in 0 .. chunkSize
      BY <1>0, <1>6
    <3> QED
      BY <3>1, <1>4, <1>5
  <2>2. \A r \in Ring : offset'[r] + size'[r] <= nbytes
    BY <1>4, <1>5, <1>6 DEF TypeOK
  <2> QED
    BY <2>1, <2>2, <1>1, <1>4, SizesStay DEF TypeOK
<1>8. ThreadsOK'
  <2>1. offset'[s] = off /\ size'[s] = len
    BY <1>2, <1>4, <1>5
  <2>2. SlotOf(made)' = s /\ (made * chunkSize)' = off /\ ChunkLen(made)' = len
    BY <1>1, <1>4, SizesStay DEF s, off, len, SlotOf, ChunkLen, question
  <2>3. ~full'[s] /\ Described(SlotOf(made), made)'
    BY <2>1, <2>2, <1>2, <1>4 DEF Described
  <2>4. consumer \in {"setting", "release"} => full'[SlotOf(taken)']
    BY <1>1, <1>4 DEF ThreadsOK, SlotOf, question
  <2> QED
    BY <2>2, <2>3, <2>4, <1>1, <1>2, <1>4, SizesStay DEF ThreadsOK
<1>9. RingOK'
  <2>1. Filled' = Filled /\ Emptied' = Emptied
    BY <1>4 DEF Filled, Emptied, Claim
  <2>2. \A k \in Live : full[SlotOf(k)] /\ Holds(SlotOf(k), k)
    BY DEF RingOK
  <2>3. \A k \in Live : offset'[SlotOf(k)] = offset[SlotOf(k)] /\ size'[SlotOf(k)] = size[SlotOf(k)]
    BY <2>2, <1>2, <1>4, <1>5
  <2> QED
    BY <2>1, <2>2, <2>3, <1>1, <1>4, SizesStay DEF RingOK, Live, Holds, Described
<1>10. DestinationOK'
  BY <1>1, <1>4, SizesStay DEF DestinationOK, Written
<1> QED
  BY <1>7, <1>8, <1>9, <1>10

\* Waiting and waking up change nothing that is shared.
LEMMA WaitKeeps ==
  IInv /\ (ProducerBlocks \/ ConsumerBlocks \/ ProducerWakes \/ ConsumerWakes) => IInv'
<1> SUFFICES ASSUME IInv, ProducerBlocks \/ ConsumerBlocks \/ ProducerWakes \/ ConsumerWakes
             PROVE  IInv'
  OBVIOUS
<1> USE DEF IInv
<1>1. /\ UNCHANGED <<question, slotVars, stage, dst, made, taken>>
      /\ producer' = producer \/ (producer \in {"claim", "waiting"} /\ producer' \in {"claim", "waiting"})
      /\ consumer' = consumer \/ (consumer \in {"claim", "waiting"} /\ consumer' \in {"claim", "waiting"})
      /\ producer' = "waiting" => made < NChunks
      /\ consumer' = "waiting" => taken < NChunks
  BY DEF ProducerBlocks, ConsumerBlocks, ProducerWakes, ConsumerWakes, producerVars, consumerVars,
         ThreadsOK
<1>2. TypeOK'
  BY <1>1, SizesStay DEF TypeOK, slotVars
<1>3. ThreadsOK'
  BY <1>1, SizesStay DEF ThreadsOK, slotVars, Described, Holds, SlotOf, ChunkLen, Chunk, question
<1>4. RingOK'
  <2>1. Filled' = Filled /\ Emptied' = Emptied
    BY <1>1 DEF Filled, Emptied
  <2> QED
    BY <2>1, <1>1, SizesStay DEF RingOK, Live, Holds, Described, slotVars
<1>5. DestinationOK'
  BY <1>1, SizesStay DEF DestinationOK, Written
<1> QED
  BY <1>2, <1>3, <1>4, <1>5

\* GetBegins, GetEnds: the producer writes the memory of its slot, which is empty,
\* so no live chunk is touched.
LEMMA GetKeeps == IInv /\ (GetBegins \/ GetEnds) => IInv'
<1> SUFFICES ASSUME IInv, GetBegins \/ GetEnds PROVE IInv'
  OBVIOUS
<1> USE DEF IInv
<1> DEFINE s == SlotOf(made)
<1>0. nbytes \in Nat \ {0} /\ chunkSize \in Nat \ {0} /\ s \in Ring /\ made \in Nat
  BY SizesAreNumbers
<1>1. /\ UNCHANGED <<question, full, offset, size, dst, made, taken, consumer>>
      /\ producer \in {"get", "getting"}
      /\ producer' \in {"getting", "publish"}
  BY DEF GetBegins, GetEnds, slotVars, consumerVars
<1>2. made < NChunks /\ ~full[s] /\ Described(s, made)
  BY <1>1 DEF ThreadsOK
<1>3. \E c \in [from : -1 .. nbytes - 1, len : 0 .. chunkSize] :
        /\ c.from + c.len <= nbytes
        /\ stage' = [stage EXCEPT ![s] = c]
        /\ producer' = "publish" => c = Chunk(made)
  <2>1. CASE GetBegins
    <3>1. NoChunk \in [from : -1 .. nbytes - 1, len : 0 .. chunkSize]
          /\ NoChunk.from + NoChunk.len <= nbytes
      BY <1>0 DEF NoChunk
    <3> QED
      BY <2>1, <3>1 DEF GetBegins
  <2>2. CASE GetEnds
    <3>1. /\ made * chunkSize \in 0 .. nbytes - 1
          /\ ChunkLen(made) \in 1 .. chunkSize
          /\ made * chunkSize + ChunkLen(made) <= nbytes
      BY <1>0, <1>2, ChunkInside
    <3> DEFINE off == made * chunkSize
               len == ChunkLen(made)
    <3>2. Chunk(made) = [from |-> off, len |-> len]
      BY DEF Chunk
    <3>3. stage' = [stage EXCEPT ![s] = Chunk(made)]
      BY <2>2 DEF GetEnds, Chunk
    <3> HIDE DEF off, len
    <3>4. off \in -1 .. nbytes - 1 /\ len \in 0 .. chunkSize /\ off + len <= nbytes
      BY <3>1, <1>0 DEF off, len
    <3>5. /\ Chunk(made) \in [from : -1 .. nbytes - 1, len : 0 .. chunkSize]
          /\ Chunk(made).from + Chunk(made).len <= nbytes
      BY <3>2, <3>4
    <3> QED
      BY <3>3, <3>5
  <2> QED
    BY <2>1, <2>2
<1>4. stage \in [Ring -> [from : -1 .. nbytes - 1, len : 0 .. chunkSize]]
      /\ \A r \in Ring : stage[r].from + stage[r].len <= nbytes
  BY DEF TypeOK
<1> HIDE DEF s
<1>5. TypeOK'
  <2>1. stage' \in [Ring -> [from : -1 .. nbytes - 1, len : 0 .. chunkSize]]
        /\ \A r \in Ring : stage'[r].from + stage'[r].len <= nbytes
    BY <1>0, <1>3, <1>4
  <2> QED
    BY <2>1, <1>1, SizesStay DEF TypeOK
<1>6. ThreadsOK'
  <2>1. SlotOf(made)' = s /\ (made * chunkSize)' = made * chunkSize /\ ChunkLen(made)' = ChunkLen(made)
        /\ Chunk(made)' = Chunk(made)
    BY <1>1, SizesStay DEF s, SlotOf, ChunkLen, Chunk, question
  <2>2. ~full'[s] /\ Described(SlotOf(made), made)'
    BY <2>1, <1>1, <1>2 DEF Described
  <2>3. producer' = "publish" => Holds(SlotOf(made), made)'
    BY <2>1, <2>2, <1>0, <1>3, <1>4 DEF Holds
  <2>4. consumer \in {"setting", "release"} => full'[SlotOf(taken)']
    BY <1>1 DEF ThreadsOK, SlotOf, question
  <2> QED
    BY <2>1, <2>2, <2>3, <2>4, <1>1, <1>2, SizesStay DEF ThreadsOK
<1>7. RingOK'
  <2>1. Filled' = Filled /\ Emptied' = Emptied
    BY <1>1 DEF Filled, Emptied
  <2>2. \A k \in Live : full[SlotOf(k)] /\ Holds(SlotOf(k), k)
    BY DEF RingOK
  <2>3. \A r : r # s => stage'[r] = stage[r]
    BY <1>3, <1>4
  <2>4. \A k \in Live : stage'[SlotOf(k)] = stage[SlotOf(k)]
    BY <2>2, <2>3, <1>2
  <2> QED
    BY <2>1, <2>2, <2>4, <1>1, SizesStay DEF RingOK, Live, Holds, Described
<1>8. DestinationOK'
  BY <1>1, SizesStay DEF DestinationOK, Written
<1> QED
  BY <1>5, <1>6, <1>7, <1>8

\* Publish: the slot of the producer's chunk becomes full; the chunk becomes live with
\* the next step (Filled counts it from here on).
LEMMA PublishKeeps == IInv /\ Publish => IInv'
<1> SUFFICES ASSUME IInv, Publish PROVE IInv'
  OBVIOUS
<1> USE DEF IInv
<1> DEFINE s == SlotOf(made)
<1>0. s \in Ring /\ made \in Nat /\ taken \in Nat /\ \A k \in Nat : SlotOf(k) \in Ring
  BY SizesAreNumbers
<1>1. /\ UNCHANGED <<question, offset, size, stage, dst, made, taken, consumer>>
      /\ full' = [full EXCEPT ![s] = TRUE]
      /\ producer = "publish" /\ producer' = "notify"
  BY DEF Publish, consumerVars
<1>2. made < NChunks /\ ~full[s] /\ Holds(s, made)
  BY <1>1 DEF ThreadsOK
<1>3. full \in [Ring -> BOOLEAN]
  BY DEF TypeOK
<1>4. \A r \in Ring : full[r] => full'[r]
  BY <1>1, <1>3
<1>5. TypeOK'
  <2>1. full' \in [Ring -> BOOLEAN]
    BY <1>1, <1>3
  <2> QED
    BY <2>1, <1>1, SizesStay DEF TypeOK
<1>6. ThreadsOK'
  <2>1. consumer \in {"setting", "release"} => full'[SlotOf(taken)']
    BY <1>0, <1>1, <1>4, SizesStay DEF ThreadsOK
  <2> QED
    BY <2>1, <1>1, <1>2, SizesStay DEF ThreadsOK
<1>7. RingOK'
  <2>1. Filled = made /\ Filled' = made + 1 /\ Emptied' = Emptied /\ Emptied \in Nat
    BY <1>0, <1>1 DEF Filled, Emptied
  <2>2. Live' = Live \cup {made} /\ Emptied' <= Filled' /\ Live \subseteq Nat
    BY <2>1, <1>0 DEF RingOK, Live
  <2>3. full'[s]
    BY <1>0, <1>1, <1>3
  <2>4. \A k \in Live' : full'[SlotOf(k)] /\ Holds(SlotOf(k), k)
    BY <2>2, <2>3, <1>0, <1>2, <1>4 DEF RingOK
  <2>5. \A r \in Ring : full'[r] => \E k \in Live' : SlotOf(k) = r
    BY <2>2, <1>1, <1>3 DEF RingOK
  <2>6. \A k \in Live' : Holds(SlotOf(k), k)'
    BY <2>4, <1>1, SizesStay DEF Holds, Described
  <2> QED
    BY <2>2, <2>4, <2>5, <2>6, <1>1, SizesStay DEF RingOK
<1>8. DestinationOK'
  BY <1>1, SizesStay DEF DestinationOK, Written
<1> QED
  BY <1>5, <1>6, <1>7, <1>8

\* NotifyFull, NotifyEmpty: a thread goes on to its next chunk and wakes the other one;
\* the live chunks stay the same.
LEMMA NotifyKeeps == IInv /\ (NotifyFull \/ NotifyEmpty) => IInv'
<1> SUFFICES ASSUME IInv, NotifyFull \/ NotifyEmpty PROVE IInv'
  OBVIOUS
<1> USE DEF IInv
<1>0. made \in Nat /\ taken \in Nat /\ NChunks \in Nat
  BY SizesAreNumbers
<1>1. UNCHANGED <<question, slotVars, stage, dst>>
  BY DEF NotifyFull, NotifyEmpty
<1>2. CASE NotifyFull
  <2>1. /\ producer = "notify" /\ producer' = "claim" /\ made' = made + 1 /\ taken' = taken
        /\ consumer' = IF consumer = "waiting" THEN "claim" ELSE consumer
    BY <1>2 DEF NotifyFull
  <2>2. made < NChunks
    BY <2>1 DEF ThreadsOK
  <2>3. TypeOK'
    BY <1>0, <1>1, <2>1, <2>2, SizesStay DEF TypeOK, slotVars
  <2>4. ThreadsOK'
    BY <1>1, <2>1, SizesStay DEF ThreadsOK, slotVars, SlotOf, question
  <2>5. Filled' = Filled /\ Emptied' = Emptied /\ Written' = Written
    BY <2>1 DEF Filled, Emptied, Written
  <2>6. RingOK'
    BY <2>5, <1>1, SizesStay DEF RingOK, Live, Holds, Described, slotVars
  <2>7. DestinationOK'
    BY <2>5, <1>1, SizesStay DEF DestinationOK
  <2> QED
    BY <2>3, <2>4, <2>6, <2>7
<1>3. CASE NotifyEmpty
  <2>1. /\ consumer = "notify" /\ consumer' = "claim" /\ taken' = taken + 1 /\ made' = made
        /\ producer' = IF producer = "waiting" THEN "claim" ELSE producer
    BY <1>3 DEF NotifyEmpty
  <2>2. taken < NChunks
    BY <2>1 DEF ThreadsOK
  <2>3. TypeOK'
    BY <1>0, <1>1, <2>1, <2>2, SizesStay DEF TypeOK, slotVars
  <2>4. ThreadsOK'
    BY <1>1, <2>1, SizesStay DEF ThreadsOK, slotVars, SlotOf, question, Holds, Described
  <2>5. Filled' = Filled /\ Emptied' = Emptied /\ Written' = Written
    BY <2>1 DEF Filled, Emptied, Written
  <2>6. RingOK'
    BY <2>5, <1>1, SizesStay DEF RingOK, Live, Holds, Described, slotVars
  <2>7. DestinationOK'
    BY <2>5, <1>1, SizesStay DEF DestinationOK
  <2> QED
    BY <2>3, <2>4, <2>6, <2>7
<1> QED
  BY <1>2, <1>3

\* The slot the consumer works on holds the consumer's chunk.
LEMMA ConsumerSlot ==
  ASSUME IInv, consumer \notin {"notify"}, taken < NChunks, full[SlotOf(taken)]
  PROVE  taken \in Live /\ Holds(SlotOf(taken), taken)
<1>0. made \in Nat /\ taken \in Nat /\ \A k \in Nat : SlotOf(k) \in Ring
  BY SizesAreNumbers DEF IInv
<1>1. PICK k \in Live : SlotOf(k) = SlotOf(taken)
  BY <1>0 DEF IInv, RingOK
<1>2. Emptied = taken /\ Filled \in Nat
  BY <1>0 DEF Emptied, Filled
<1>3. taken \in Live
  BY <1>0, <1>1, <1>2 DEF Live
<1> QED
  BY <1>3 DEF IInv, RingOK

\* TakeSlot changes the consumer's place only.
LEMMA TakeSlotKeeps == IInv /\ TakeSlot => IInv'
<1> SUFFICES ASSUME IInv, TakeSlot PROVE IInv'
  OBVIOUS
<1> USE DEF IInv
<1>1. /\ UNCHANGED <<question, full, offset, size, stage, dst, made, producer, taken>>
      /\ consumer = "claim" /\ consumer' = "setting"
      /\ taken < NChunks /\ full[SlotOf(taken)]
  BY DEF TakeSlot, slotVars, producerVars
<1>2. TypeOK'
  BY <1>1, SizesStay DEF TypeOK
<1>3. ThreadsOK'
  BY <1>1, SizesStay DEF ThreadsOK, Holds, Described, SlotOf, question
<1>4. Filled' = Filled /\ Emptied' = Emptied /\ Written' = Written
  BY <1>1 DEF Filled, Emptied, Written
<1>5. RingOK'
  BY <1>1, <1>4, SizesStay DEF RingOK, Live, Holds, Described
<1>6. DestinationOK'
  BY <1>1, <1>4, SizesStay DEF DestinationOK
<1> QED
  BY <1>2, <1>3, <1>5, <1>6

\* SetEnds writes the consumer's chunk where it belongs.
LEMMA SetEndsKeeps == IInv /\ SetEnds => IInv'
<1> SUFFICES ASSUME IInv, SetEnds PROVE IInv'
  OBVIOUS
<1> USE DEF IInv
<1> DEFINE s == SlotOf(taken)
           off == taken * chunkSize
           len == ChunkLen(taken)
<1>0. /\ nbytes \in Nat /\ chunkSize \in Nat \ {0} /\ made \in Nat /\ taken \in Nat
      /\ off \in Nat
  BY SizesAreNumbers
<1>1. /\ UNCHANGED <<question, full, offset, size, stage, made, producer, taken>>
      /\ consumer = "setting" /\ consumer' = "release"
      /\ dst' = [b \in Bytes |->
           IF b \in Target(s)
           THEN IF b - offset[s] < stage[s].len THEN stage[s].from + b - offset[s] ELSE Unwritten
           ELSE dst[b]]
  BY DEF SetEnds, slotVars, producerVars
<1>2. taken < NChunks /\ Holds(s, taken)
  BY <1>1, ConsumerSlot DEF ThreadsOK
<1>3. off \in 0 .. nbytes - 1 /\ len \in 1 .. chunkSize /\ off + len <= nbytes
  BY <1>0, <1>2, ChunkInside
<1>4. offset[s] = off /\ size[s] = len /\ stage[s].from = off /\ stage[s].len = len
  BY <1>2 DEF Holds, Described, Chunk
<1>5. (taken + 1) * chunkSize = off + chunkSize
  BY <1>0, NextChunk
<1>6. len = Lesser(chunkSize, nbytes - off)
  BY DEF ChunkLen
<1> HIDE DEF s, off, len
<1>7. dst' = [b \in Bytes |-> IF b \in off .. off + len - 1 THEN b ELSE dst[b]]
  <2>1. Target(s) = off .. off + len - 1
    BY <1>4 DEF Target
  <2>2. Bytes \subseteq Int
    BY <1>0 DEF Bytes
  <2>3. \A b \in Bytes : b \in off .. off + len - 1 =>
          b - offset[s] < stage[s].len /\ stage[s].from + b - offset[s] = b
    BY <1>0, <1>3, <1>4, <2>2
  <2> QED
    BY <1>1, <2>1, <2>3
<1>8. Written = taken /\ Written' = taken + 1
  BY <1>1 DEF Written
<1>9. \A b \in Bytes : dst[b] = IF b < off THEN b ELSE Unwritten
  BY <1>8 DEF DestinationOK, off
<1>10. DestinationOK'
  <2> SUFFICES ASSUME NEW b \in Bytes
               PROVE  dst'[b] = IF b < off + chunkSize THEN b ELSE Unwritten
    BY <1>1, <1>5, <1>8, SizesStay DEF DestinationOK, Unwritten
  <2>1. b \in 0 .. nbytes - 1
    BY DEF Bytes
  <2>2. b < off + chunkSize <=> b < off \/ b \in off .. off + len - 1
    BY <1>0, <1>3, <1>6, <2>1 DEF Lesser
  <2> QED
    BY <1>7, <1>9, <2>2
<1>11. TypeOK'
  <2>1. dst' \in [Bytes -> {Unwritten} \cup Bytes]
    BY <1>7 DEF TypeOK
  <2> QED
    BY <2>1, <1>1, SizesStay DEF TypeOK
<1>12. ThreadsOK'
  BY <1>1, <1>2, SizesStay DEF ThreadsOK, Holds, Described, SlotOf, question
<1>13. RingOK'
  <2>1. Filled' = Filled /\ Emptied' = Emptied
    BY <1>1 DEF Filled, Emptied
  <2> QED
    BY <2>1, <1>1, SizesStay DEF RingOK, Live, Holds, Described
<1> QED
  BY <1>10, <1>11, <1>12, <1>13

\* Release: the consumer's chunk is live no more; the others are in other slots, since
\* each slot is described as one chunk.
LEMMA ReleaseKeeps == IInv /\ Release => IInv'
<1> SUFFICES ASSUME IInv, Release PROVE IInv'
  OBVIOUS
<1> USE DEF IInv
<1> DEFINE s == SlotOf(taken)
<1>0. /\ chunkSize \in Nat \ {0} /\ made \in Nat /\ taken \in Nat
      /\ \A k \in Nat : SlotOf(k) \in Ring
  BY SizesAreNumbers
<1>1. /\ UNCHANGED <<question, offset, size, stage, dst, made, producer, taken>>
      /\ consumer = "release" /\ consumer' = "notify"
      /\ full' = [full EXCEPT ![s] = FALSE]
  BY DEF Release, producerVars
<1>2. taken < NChunks /\ full[s] /\ taken \in Live /\ Holds(s, taken)
  BY <1>1, ConsumerSlot DEF ThreadsOK
<1>3. full \in [Ring -> BOOLEAN]
  BY DEF TypeOK
<1>4. TypeOK'
  <2>1. full' \in [Ring -> BOOLEAN]
    BY <1>1, <1>3
  <2> QED
    BY <2>1, <1>1, SizesStay DEF TypeOK
<1>5. ThreadsOK'
  <2>1. \A r \in Ring : full'[r] => full[r]
    BY <1>1, <1>3
  <2>2. producer \in {"get", "getting", "publish"} =>
          ~full'[SlotOf(made)] /\ Described(SlotOf(made), made)
    BY <2>1, <1>0 DEF ThreadsOK
  <2> QED
    BY <2>2, <1>1, <1>2, SizesStay DEF ThreadsOK, Holds, Described
<1>6. Filled' = Filled /\ Emptied = taken /\ Emptied' = taken + 1 /\ Written' = Written /\ Filled \in Nat
  BY <1>0, <1>1 DEF Filled, Emptied, Written
<1>7. RingOK'
  <2>1. Live' = Live \ {taken} /\ Emptied' <= Filled'
    BY <1>0, <1>2, <1>6 DEF Live, RingOK
  <2>2. Live \subseteq Nat
    BY <1>0, <1>6 DEF Live
  <2>3. ASSUME NEW k \in Live' PROVE SlotOf(k) # s
    <3>1. k \in Nat /\ k # taken /\ Holds(SlotOf(k), k)
      BY <2>1, <2>2 DEF RingOK
    <3>2. k * chunkSize # taken * chunkSize
      BY <3>1, <1>0, ChunkOfOffset
    <3> QED
      BY <3>1, <3>2, <1>2 DEF Holds, Described
  <2>4. \A k \in Live' : full'[SlotOf(k)] /\ Holds(SlotOf(k), k)
    BY <2>1, <2>2, <2>3, <1>0, <1>1, <1>3 DEF RingOK
  <2>5. \A r \in Ring : full'[r] => \E k \in Live' : SlotOf(k) = r
    BY <2>1, <1>1, <1>3 DEF RingOK
  <2>6. \A k \in Live' : Holds(SlotOf(k), k)'
    BY <2>4, <1>1, SizesStay DEF Holds, Described
  <2> QED
    BY <2>1, <2>4, <2>5, <2>6, <1>1, SizesStay DEF RingOK
<1>8. DestinationOK'
  BY <1>1, <1>6, SizesStay DEF DestinationOK
<1> QED
  BY <1>4, <1>5, <1>7, <1>8

\* A call begins with an empty ring and an unwritten destination.
LEMMA InitEstablishes == Init => IInv
<1> SUFFICES ASSUME Init PROVE IInv
  OBVIOUS
<1>1. PICK c \in ChunkSizes, n \in Buffers :
        /\ chunkSize = Lesser(c, nbytes)
        /\ nSlots = Lesser(n, ChunkCount(nbytes, Lesser(c, nbytes)))
  BY DEF Init
<1>2. nbytes \in Nat \ {0} /\ c \in Nat \ {0} /\ n \in Nat \ {0} /\ nbytes \in Sizes
  BY SizesAssumption DEF Init
<1>3. chunkSize \in 1 .. nbytes
  BY <1>1, <1>2 DEF Lesser
<1>4. NChunks \in Nat \ {0}
  BY <1>2, <1>3, ChunkCountPositive DEF NChunks
<1>5. nSlots \in 1 .. NChunks
  BY <1>1, <1>2, <1>4 DEF Lesser, NChunks
<1>6. /\ full = [s \in Ring |-> FALSE] /\ offset = [s \in Ring |-> 0] /\ size = [s \in Ring |-> 0]
      /\ stage = [s \in Ring |-> NoChunk] /\ dst = [b \in Bytes |-> Unwritten]
      /\ made = 0 /\ producer = "claim" /\ taken = 0 /\ consumer = "claim"
  BY DEF Init
<1>7. TypeOK
  <2>1. NoChunk \in [from : -1 .. nbytes - 1, len : 0 .. chunkSize]
        /\ NoChunk.from + NoChunk.len <= nbytes
    BY <1>2, <1>3 DEF NoChunk
  <2>2. 0 \in 0 .. nbytes /\ 0 \in 0 .. chunkSize /\ 0 \in 0 .. NChunks /\ 0 + 0 <= nbytes
    BY <1>2, <1>3, <1>4
  <2> QED
    BY <2>1, <2>2, <1>2, <1>3, <1>5, <1>6 DEF TypeOK
<1>8. ThreadsOK
  BY <1>6 DEF ThreadsOK
<1>9. RingOK
  <2>1. Filled = 0 /\ Emptied = 0 /\ Live = {}
    BY <1>6 DEF Filled, Emptied, Live
  <2> QED
    BY <2>1, <1>6 DEF RingOK
<1>10. DestinationOK
  <2>1. Written * chunkSize = 0 /\ Bytes = 0 .. nbytes - 1
    BY <1>3, <1>6 DEF Written, Bytes
  <2> QED
    BY <2>1, <1>2, <1>6 DEF DestinationOK
<1> QED
  BY <1>7, <1>8, <1>9, <1>10 DEF IInv

\* Every step keeps the inductive invariant.
LEMMA NextKeeps == IInv /\ [Next]_vars => IInv'
<1> SUFFICES ASSUME IInv, [Next]_vars PROVE IInv'
  OBVIOUS
<1>1. CASE UNCHANGED vars
  <2>1. /\ UNCHANGED <<question, full, offset, size, stage, dst, made, producer, taken, consumer>>
    BY <1>1 DEF vars, slotVars, producerVars, consumerVars
  <2>2. Filled' = Filled /\ Emptied' = Emptied /\ Written' = Written
    BY <2>1 DEF Filled, Emptied, Written
  <2>3. TypeOK'
    BY <2>1, SizesStay DEF IInv, TypeOK
  <2>4. ThreadsOK'
    BY <2>1, SizesStay DEF IInv, ThreadsOK, Holds, Described, SlotOf, ChunkLen, Chunk, question
  <2>5. RingOK'
    BY <2>1, <2>2, SizesStay DEF IInv, RingOK, Live, Holds, Described
  <2>6. DestinationOK'
    BY <2>1, <2>2, SizesStay DEF IInv, DestinationOK
  <2> QED
    BY <2>3, <2>4, <2>5, <2>6 DEF IInv
<1>2. CASE Producer
  BY <1>2, WaitKeeps, ClaimKeeps, GetKeeps, PublishKeeps, NotifyKeeps DEF Producer
<1>3. CASE Consumer
  BY <1>3, WaitKeeps, TakeSlotKeeps, SetEndsKeeps, ReleaseKeeps, NotifyKeeps DEF Consumer
<1>4. CASE ProducerWakes \/ ConsumerWakes
  BY <1>4, WaitKeeps
<1>5. CASE Return
  BY <1>5, <1>1 DEF Return
<1> QED
  BY <1>1, <1>2, <1>3, <1>4, <1>5 DEF Next

(***************************************************************************)
(* Theorems.                                                                *)
(***************************************************************************)

\* The inductive invariant holds in every reachable state.
THEOREM Invariance == Spec => []IInv
  BY InitEstablishes, NextKeeps, PTL DEF Spec

\* Type correctness: sizes, slots and counters keep their ranges, and no slot ever
\* refers to bytes beyond the tensor's end.
THEOREM TypeCorrect == Spec => []TypeOK
<1>1. IInv => TypeOK
  BY DEF IInv
<1> QED
  BY <1>1, Invariance, PTL

\* For every size of tensor, chunk and ring: the producer and the consumer, which use
\* the slots' memory without the mutex, never use that of one slot at the same time.
THEOREM SlotsExclusive == Spec => []NoSlotRace
<1>1. IInv => NoSlotRace
  BY DEF IInv, ThreadsOK, NoSlotRace
<1> QED
  BY <1>1, Invariance, PTL

\* For every size of tensor, chunk and ring: the destination always holds exactly the
\* bytes of the chunks written so far, and all bytes once both threads have ended.
THEOREM CopyCorrect == Spec => []Copied
<1>1. IInv => Copied
  <2> SUFFICES ASSUME IInv PROVE Copied
    OBVIOUS
  <2> USE DEF IInv
  <2>0. nbytes \in Nat \ {0} /\ chunkSize \in Nat \ {0} /\ NChunks \in Nat
    BY SizesAreNumbers
  <2>1. ASSUME Joined PROVE \A b \in Bytes : dst[b] = b
    <3>1. Written = NChunks
      BY <2>1, <2>0 DEF Joined, Written, ThreadsOK
    <3>2. NChunks * chunkSize >= nbytes
      BY <2>0, ChunksCover DEF NChunks
    <3> DEFINE end == NChunks * chunkSize
    <3>3. end \in Nat /\ end >= nbytes /\ \A b \in Bytes : dst[b] = IF b < end THEN b ELSE Unwritten
      BY <2>0, <3>1, <3>2 DEF DestinationOK
    <3> HIDE DEF end
    <3> QED
      BY <2>0, <3>3 DEF Bytes
  <2> QED
    BY <2>1 DEF Copied, DestinationOK
<1> QED
  BY <1>1, Invariance, PTL
==============================================================================
