------------------------------- MODULE KVSlots -------------------------------
(***************************************************************************)
(* The shape of the cache (sequences, streams, cells) and which cells the   *)
(* slot search of llama_kv_cache::find_slot yields for one row of tokens.   *)
(***************************************************************************)
EXTENDS KVCells

CONSTANTS
  NSeqMax,  \* sequences are 0 .. NSeqMax-1
  Unified,  \* kv_unified: one stream for all sequences, or one each
  Size,     \* cells per stream
  NSwa      \* sliding window (0: none), SWA type "standard"

ASSUME ShapeAssumption ==
  /\ NSeqMax \in Nat \ {0}
  /\ Unified \in BOOLEAN
  /\ Size \in Nat \ {0}
  /\ NSwa \in Nat

Seqs == 0 .. NSeqMax - 1
NStream == IF Unified THEN 1 ELSE NSeqMax
Streams == 0 .. NStream - 1
Idxs == 0 .. Size - 1
SeqToStream(s) == IF Unified THEN 0 ELSE s

\* is_masked_swa for a cell at position p and a next token at position q.
MaskedSwa(p, q) == NSwa > 0 /\ q - p >= NSwa

\* Mutant of Usable: a masked cell is given up one token early.
UsableEarly(row, i) ==
  \/ IsEmpty(row[i])
  \/ \E s \in Seqs : row[i].seqs = {s} /\ MaskedSwa(row[i].pos, SeqPosMax(row, s) + 2)

\* can_use in find_slot.
Usable(row, i) ==
  \/ IsEmpty(row[i])
  \/ \E s \in Seqs : row[i].seqs = {s} /\ MaskedSwa(row[i].pos, SeqPosMax(row, s) + 1)

\* Where the search starts: from the beginning when that part is hardly used.
SearchStart(row, h, n) == IF h > Used(row) + 2 * n THEN 0 ELSE h

\* Mutant of IsSlot: the search does not wrap around.
IsSlotNoWrap(row, h, n, slot) ==
  /\ \A j \in 1 .. n : Usable(row, slot[j]) /\ slot[j] >= SearchStart(row, h, n)
  /\ \A j, k \in 1 .. n : j < k => slot[j] < slot[k]
  /\ \A i \in Idxs : Usable(row, i) /\ i >= SearchStart(row, h, n) /\ i <= slot[n] =>
                       \E j \in 1 .. n : slot[j] = i

\* The slot find_slot(cont = false) finds: the first n usable cells met when the
\* ring is walked once from the start.  Module FindSlot models the loop itself and
\* is checked against this.
IsSlot(row, h, n, slot) ==
  LET rank(i) == (i - SearchStart(row, h, n)) % Size
  IN /\ \A j \in 1 .. n : Usable(row, slot[j])
     /\ \A j, k \in 1 .. n : j < k => rank(slot[j]) < rank(slot[k])
     /\ \A i \in Idxs : Usable(row, i) /\ rank(i) <= rank(slot[n]) =>
                          \E j \in 1 .. n : slot[j] = i
SlotsOf(row, h, n) == {slot \in [1 .. n -> Idxs] : IsSlot(row, h, n, slot)}
==============================================================================
