------------------------------ MODULE MixedCopy ------------------------------
(***************************************************************************)
(* ggml_backend_tensor_copy_mixed_vendor (ggml/src/ggml-backend.cpp): a     *)
(* tensor goes from one vendor's device to another's through a ring of      *)
(* pinned host slots, filled by a producer thread and emptied by a consumer *)
(* thread, which hand the slots over under a mutex and wait on two          *)
(* condition variables.                                                     *)
(*                                                                          *)
(* A critical section of the mutex is one step: everything it touches is    *)
(* touched under that mutex only.  cv.wait releases the mutex and blocks in *)
(* the same step; a waiting thread goes on when it is notified or           *)
(* spuriously, and tests its predicate again.  The copies between device    *)
(* and slot run outside of the mutex and take time: a step begins them and  *)
(* another one ends them.                                                   *)
(***************************************************************************)
EXTENDS Integers

CONSTANTS
  Sizes,      \* nbytes of the tensors that are copied
  ChunkSizes, \* GGML_MIXED_VENDOR_COPY_CHUNK_BYTES
  Buffers     \* GGML_MIXED_VENDOR_COPY_BUFFERS, clamped to 1 .. 16

ASSUME SizesAssumption ==
  /\ Sizes \subseteq Nat \ {0}
  /\ ChunkSizes \subseteq Nat \ {0}
  /\ Buffers \subseteq Nat \ {0}

VARIABLES
  nbytes, chunkSize, nSlots, \* the call's sizes, fixed once computed
  full, offset, size,        \* copy_slot, per slot: guarded by the mutex
  stage,                     \* per slot, the source bytes in its host memory
  dst,                       \* per byte of the destination, the source byte it holds
  made, producer,            \* the producer's chunk and where it is
  taken, consumer            \* the consumer's chunk and where it is

question == <<nbytes, chunkSize, nSlots>>
slotVars == <<full, offset, size>>
producerVars == <<made, producer>>
consumerVars == <<taken, consumer>>
vars == <<question, slotVars, stage, dst, producerVars, consumerVars>>

Lesser(a, b) == IF a < b THEN a ELSE b

\* Mutant of ChunkCount: the division rounds down.
ChunkCountFloor(n, c) == n \div c

ChunkCount(n, c) == (n + c - 1) \div c

NChunks == ChunkCount(nbytes, chunkSize)
Ring == 0 .. nSlots - 1
Bytes == 0 .. nbytes - 1
SlotOf(chunk) == chunk % nSlots

ChunkLen(chunk) == Lesser(chunkSize, nbytes - chunk * chunkSize)

\* A slot whose memory holds no whole chunk, and a byte nobody copied.
NoChunk == [from |-> -1, len |-> 0]
Unwritten == -1

Init ==
  /\ nbytes \in Sizes
  /\ \E c \in ChunkSizes, n \in Buffers :
       /\ chunkSize = Lesser(c, nbytes)
       /\ nSlots = Lesser(n, ChunkCount(nbytes, Lesser(c, nbytes)))
  /\ full = [s \in Ring |-> FALSE]
  /\ offset = [s \in Ring |-> 0]
  /\ size = [s \in Ring |-> 0]
  /\ stage = [s \in Ring |-> NoChunk]
  /\ dst = [b \in Bytes |-> Unwritten]
  /\ made = 0 /\ producer = "claim"
  /\ taken = 0 /\ consumer = "claim"

(***************************************************************************)
(* The producer.                                                            *)
(***************************************************************************)

\* cv_empty.wait found its slot full.
ProducerBlocks ==
  /\ producer = "claim" /\ made < NChunks
  /\ full[SlotOf(made)]
  /\ producer' = "waiting"
  /\ UNCHANGED <<question, slotVars, stage, dst, made, consumerVars>>

\* Mutant of Claim: the slot is not waited for.
ClaimFull ==
  /\ producer = "claim" /\ made < NChunks
  /\ offset' = [offset EXCEPT ![SlotOf(made)] = made * chunkSize]
  /\ size' = [size EXCEPT ![SlotOf(made)] = ChunkLen(made)]
  /\ producer' = "get"
  /\ UNCHANGED <<question, full, stage, dst, made, consumerVars>>

\* The slot is empty: its offset and size are set.
Claim ==
  /\ producer = "claim" /\ made < NChunks
  /\ ~full[SlotOf(made)]
  /\ offset' = [offset EXCEPT ![SlotOf(made)] = made * chunkSize]
  /\ size' = [size EXCEPT ![SlotOf(made)] = ChunkLen(made)]
  /\ producer' = "get"
  /\ UNCHANGED <<question, full, stage, dst, made, consumerVars>>

\* get_tensor_sync begins to overwrite the slot's memory...
GetBegins ==
  /\ producer = "get"
  /\ stage' = [stage EXCEPT ![SlotOf(made)] = NoChunk]
  /\ producer' = "getting"
  /\ UNCHANGED <<question, slotVars, dst, made, consumerVars>>

\* ...and has the chunk there.
GetEnds ==
  /\ producer = "getting"
  /\ stage' = [stage EXCEPT ![SlotOf(made)] =
                 [from |-> made * chunkSize, len |-> ChunkLen(made)]]
  /\ producer' = "publish"
  /\ UNCHANGED <<question, slotVars, dst, made, consumerVars>>

Publish ==
  /\ producer = "publish"
  /\ full' = [full EXCEPT ![SlotOf(made)] = TRUE]
  /\ producer' = "notify"
  /\ UNCHANGED <<question, offset, size, stage, dst, made, consumerVars>>

\* Mutant of NotifyFull: nobody is woken.
NotifyFullLost ==
  /\ producer = "notify"
  /\ made' = made + 1
  /\ producer' = "claim"
  /\ UNCHANGED <<question, slotVars, stage, dst, consumerVars>>

\* cv_full.notify_one, the next chunk.
NotifyFull ==
  /\ producer = "notify"
  /\ consumer' = IF consumer = "waiting" THEN "claim" ELSE consumer
  /\ made' = made + 1
  /\ producer' = "claim"
  /\ UNCHANGED <<question, slotVars, stage, dst, taken>>

(***************************************************************************)
(* The consumer.                                                            *)
(***************************************************************************)

\* cv_full.wait found its slot empty.
ConsumerBlocks ==
  /\ consumer = "claim" /\ taken < NChunks
  /\ ~full[SlotOf(taken)]
  /\ consumer' = "waiting"
  /\ UNCHANGED <<question, slotVars, stage, dst, producerVars, taken>>

\* The slot is full; offset and size are read here, and no longer change.
TakeSlot ==
  /\ consumer = "claim" /\ taken < NChunks
  /\ full[SlotOf(taken)]
  /\ consumer' = "setting"
  /\ UNCHANGED <<question, slotVars, stage, dst, producerVars, taken>>

\* Where the chunk in slot s goes: byte b of the destination.
Target(s) == offset[s] .. offset[s] + size[s] - 1

\* set_tensor_sync is done: the chunk is whatever the slot's memory held.
SetEnds ==
  /\ consumer = "setting"
  /\ LET s == SlotOf(taken)
     IN dst' = [b \in Bytes |->
          IF b \in Target(s)
          THEN IF b - offset[s] < stage[s].len THEN stage[s].from + b - offset[s] ELSE Unwritten
          ELSE dst[b]]
  /\ consumer' = "release"
  /\ UNCHANGED <<question, slotVars, stage, producerVars, taken>>

Release ==
  /\ consumer = "release"
  /\ full' = [full EXCEPT ![SlotOf(taken)] = FALSE]
  /\ consumer' = "notify"
  /\ UNCHANGED <<question, offset, size, stage, dst, producerVars, taken>>

\* cv_empty.notify_one, the next chunk.
NotifyEmpty ==
  /\ consumer = "notify"
  /\ producer' = IF producer = "waiting" THEN "claim" ELSE producer
  /\ taken' = taken + 1
  /\ consumer' = "claim"
  /\ UNCHANGED <<question, slotVars, stage, dst, made>>

\* The threads themselves; a thread that waits may also wake up for no reason.
Producer == ProducerBlocks \/ Claim \/ GetBegins \/ GetEnds \/ Publish \/ NotifyFull
Consumer == ConsumerBlocks \/ TakeSlot \/ SetEnds \/ Release \/ NotifyEmpty

ProducerWakes ==
  /\ producer = "waiting"
  /\ producer' = "claim"
  /\ UNCHANGED <<question, slotVars, stage, dst, made, consumerVars>>

ConsumerWakes ==
  /\ consumer = "waiting"
  /\ consumer' = "claim"
  /\ UNCHANGED <<question, slotVars, stage, dst, producerVars, taken>>

\* Both threads have been joined.
Joined == made = NChunks /\ taken = NChunks
Return == Joined /\ UNCHANGED vars

Next == Producer \/ Consumer \/ ProducerWakes \/ ConsumerWakes \/ Return

\* Both threads run; nothing promises a spurious wakeup.
Spec == Init /\ [][Next]_vars /\ WF_vars(Producer) /\ WF_vars(Consumer)

(***************************************************************************)
(* Properties.                                                              *)
(***************************************************************************)

\* Type invariant; no slot ever holds, or is to hold, bytes beyond the tensor's end.
TypeOK ==
  /\ nbytes \in Sizes /\ chunkSize \in 1 .. nbytes /\ nSlots \in 1 .. NChunks
  /\ full \in [Ring -> BOOLEAN]
  /\ offset \in [Ring -> 0 .. nbytes] /\ size \in [Ring -> 0 .. chunkSize]
  /\ stage \in [Ring -> [from : -1 .. nbytes - 1, len : 0 .. chunkSize]]
  /\ \A s \in Ring : stage[s].from + stage[s].len <= nbytes /\ offset[s] + size[s] <= nbytes
  /\ dst \in [Bytes -> {Unwritten} \cup Bytes]
  /\ made \in 0 .. NChunks /\ taken \in 0 .. NChunks
  /\ producer \in {"claim", "waiting", "get", "getting", "publish", "notify"}
  /\ consumer \in {"claim", "waiting", "setting", "release", "notify"}

\* The two threads never use the memory of one slot at the same time, although both
\* do so without the mutex.
NoSlotRace ==
  producer \in {"get", "getting", "publish"} /\ consumer \in {"setting", "release"} =>
    SlotOf(made) # SlotOf(taken)

\* At any moment the destination holds exactly the bytes of the chunks the consumer
\* has written, each at its place: nothing is lost, repeated or taken from a slot that
\* was filled for another chunk.  When both threads are joined that is everything.
Written == IF consumer \in {"release", "notify"} THEN taken + 1 ELSE taken
Copied ==
  /\ \A b \in Bytes : dst[b] = IF b < Written * chunkSize THEN b ELSE Unwritten
  /\ Joined => \A b \in Bytes : dst[b] = b

\* Both threads end, without spurious wakeups: no notification is lost.
CopyEnds == <>Joined
==============================================================================
