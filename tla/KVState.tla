------------------------------- MODULE KVState -------------------------------
(***************************************************************************)
(* Saving and restoring the cache: llama_kv_cache::state_write and          *)
(* state_read, for one sequence (llama_state_seq_get/set_data) or for the   *)
(* whole cache (seq_id = -1).  Calls happen between decode calls.           *)
(***************************************************************************)
EXTENDS KVRefinesMemory, SequencesExt

CONSTANTS
  Saves,        \* what the client saves: sequences, or -1 for the whole cache
  SavePending,  \* the client also saves and restores while updates are pending
  Truncated     \* a blob may end early

VARIABLES
  saved,    \* the blob: what was saved (-1: everything) and each stream's cells
  savedMem  \* history: what the saved sequences meant to the client

stateVars == <<vars, saved, savedMem>>

NothingSaved == [of |-> -2, rows |-> <<>>]

InitS == Init /\ saved = NothingSaved /\ savedMem = <<>>

Quiet == scInfo = <<>> /\ ~HasShift
MayCall == phase = "idle" /\ (SavePending \/ Quiet)

\* The cells of a stream that are written, in index order; positions include a
\* pending shift, the K content does not.
SavedRow(st, q) ==
  LET live == {i \in Idxs : ~IsEmpty(cells[st][i]) /\ (q = -1 \/ q \in cells[st][i].seqs)}
      order == SetToSortSeq(live, <)
  IN [k \in DOMAIN order |->
       [pos  |-> cells[st][order[k]].pos,
        seqs |-> IF q = -1 THEN cells[st][order[k]].seqs ELSE {q},
        kv   |-> data[st][order[k]]]]

StateWrite(q) ==
  /\ MayCall
  /\ saved' = [of |-> q, rows |-> [st \in Streams |-> SavedRow(st, q)]]
  /\ savedMem' = [s \in Seqs |-> IF q \in {-1, s} THEN SeqContent[s] ELSE {}]
  /\ UNCHANGED vars

\* Streams with cell_count = 0 are skipped.
SavedStreams == {st \in Streams : saved.rows[st] # <<>>}

\* The cells that were saved, in the first stream that holds any.
SavedCells == saved.rows[CHOOSE st \in SavedStreams : TRUE]

\* state_read_meta for one sequence d.  First d loses what it held...
RemovedFirst(d) ==
  LET st == SeqToStream(d)
      row == RemovedRow(cells[st], {d}, -1, -1)
  IN [row |-> row, head |-> HeadAfter(cells[st], row, head[st]), slot |-> <<>>]

\* ...then the saved cells are placed like an ubatch, if there is room.
PlacedAfter(d, m) ==
  LET toks == [k \in DOMAIN SavedCells |->
                 [pos |-> SavedCells[k].pos, seqs |-> {d}, tok |-> SavedCells[k].kv.tok]]
      slots == SlotsOf(m.row, m.head, Len(toks))
      slot == CHOOSE sl \in slots : TRUE
  IN IF slots = {} THEN m
     ELSE [row |-> AppliedRow(m.row, toks, slot), head |-> slot[Len(toks)] + 1, slot |-> slot]

\* Mutant of MetaRead: the destination sequence is not removed first.
MetaReadOver(d) ==
  PlacedAfter(d, [row |-> cells[SeqToStream(d)], head |-> head[SeqToStream(d)], slot |-> <<>>])

MetaRead(d) == PlacedAfter(d, RemovedFirst(d))

\* state_read_data, as far as the cells W: only the primary buffers are loaded.
Loaded(d, slot, W) ==
  [data EXCEPT ![SeqToStream(d)] = [i \in Idxs |->
     IF i \in W THEN SavedCells[CHOOSE k \in DOMAIN slot : slot[k] = i].kv ELSE @[i]]]

StateReadSeq(d) ==
  /\ MayCall
  /\ saved.of \in Seqs
  /\ IF SavedStreams = {} THEN UNCHANGED <<memVars, data>>
     ELSE LET m == MetaRead(d)
          IN /\ SetRow(SeqToStream(d), m.row, m.head)
             /\ data' = Loaded(d, m.slot, SlotCells(m.slot))
  /\ UNCHANGED <<scInfo, shadow, callVars, saved, savedMem>>

\* The whole cache: state_read_meta calls clear(true) for every stream it reads,
\* and clear() clears all of them.
StateReadAll ==
  /\ MayCall
  /\ saved.of = -1
  /\ IF SavedStreams = {} THEN UNCHANGED <<memVars, bufVars>>
     ELSE LET last == Greatest(SavedStreams)
              cs == saved.rows[last]
          IN /\ cells' = [NoCells EXCEPT ![last] = [i \in Idxs |->
                  IF i < Len(cs) THEN TokenCell(cs[i + 1].pos, cs[i + 1].seqs) ELSE EmptyCell]]
             /\ head' = NoHeads
             /\ data' = [NoBufs EXCEPT ![last] = [i \in Idxs |->
                  IF i < Len(cs) THEN cs[i + 1].kv ELSE NoData]]
             /\ shadow' = NoBufs
  /\ UNCHANGED <<scInfo, callVars, saved, savedMem>>

\* Mutant of StateReadRejected: the placed cells stay when the data does not fit.
StateReadRejectedKept ==
  /\ MayCall
  /\ saved.of \in Seqs /\ SavedStreams # {}
  /\ \E d \in Seqs :
       LET m == MetaRead(d)
       IN SetRow(SeqToStream(d), m.row, m.head) /\ UNCHANGED bufVars
  /\ UNCHANGED <<scInfo, callVars, saved, savedMem>>

\* A blob whose data does not fit (other layers or types) is found out after its
\* cells were placed, some layers loaded or none; the cells are removed again and
\* the call throws.
StateReadRejected ==
  /\ MayCall
  /\ saved.of \in {-1} \cup Seqs /\ SavedStreams # {}
  /\ \/ /\ saved.of = -1
        /\ cells' = NoCells /\ head' = NoHeads
        /\ data' = NoBufs /\ shadow' = NoBufs
     \/ \E d \in Seqs :
          LET m == MetaRead(d)
              row == RemovedRow(m.row, {d}, -1, -1)
          IN /\ saved.of # -1
             /\ SetRow(SeqToStream(d), row, HeadAfter(m.row, row, m.head))
             /\ \E W \in {{}, SlotCells(m.slot)} : data' = Loaded(d, m.slot, W)
             /\ UNCHANGED shadow
  /\ UNCHANGED <<scInfo, callVars, saved, savedMem>>

\* A blob that ends early (a state file that was not written to its end): the read
\* throws out of state_read, past the code that removes the cells again.
StateReadTruncated ==
  /\ Truncated
  /\ MayCall
  /\ saved.of \in {-1} \cup Seqs /\ SavedStreams # {}
  /\ \/ \E st \in SavedStreams : \E n \in 0 .. Len(saved.rows[st]) :
          /\ saved.of = -1
          /\ cells' = [NoCells EXCEPT ![st] = [i \in Idxs |->
               IF i < n THEN TokenCell(saved.rows[st][i + 1].pos, saved.rows[st][i + 1].seqs)
                        ELSE EmptyCell]]
          /\ head' = NoHeads
          /\ data' = NoBufs /\ shadow' = NoBufs
     \/ \E d \in Seqs : \E m \in {RemovedFirst(d), MetaRead(d)} :
          /\ saved.of # -1
          /\ SetRow(SeqToStream(d), m.row, m.head)
          /\ \E W \in {{}, SlotCells(m.slot)} : data' = Loaded(d, m.slot, W)
          /\ UNCHANGED shadow
  /\ UNCHANGED <<scInfo, callVars, saved, savedMem>>

NextS ==
  \/ Next /\ UNCHANGED <<saved, savedMem>>
  \/ \E q \in Saves : StateWrite(q)
  \/ \E d \in Seqs : StateReadSeq(d)
  \/ StateReadAll
  \/ StateReadRejected
  \/ StateReadTruncated

SpecS == InitS /\ [][NextS]_stateVars /\ WF_stateVars(Decode /\ UNCHANGED <<saved, savedMem>>)

\* "Copy the sequence data ... into the specified sequence" (llama.h:880): a restored
\* sequence means what the saved one meant, or nothing when there is no room (or the
\* blob was empty and the call changed nothing), and no other sequence changes; restoring
\* the whole cache brings back every sequence that was saved.
RestoredAsSaved ==
  [][/\ \A d \in Seqs : StateReadSeq(d) /\ SavedStreams # {} =>
          /\ SeqContent'[d] \in {savedMem[saved.of], {}}
          /\ SeqContent'[d] = {} => Len(saved.rows[CHOOSE st \in SavedStreams : TRUE]) >
                                      Size - Used(RemovedRow(cells[SeqToStream(d)], {d}, -1, -1))
          /\ \A s \in Seqs \ {d} : SeqContent'[s] = SeqContent[s]
     /\ StateReadAll /\ SavedStreams # {} => SeqContent' = savedMem]_stateVars

\* A blob that is rejected leaves no part of itself behind: what is left of each
\* sequence is what it had, or nothing.
RejectedLeavesNothing ==
  [][StateReadRejected => \A s \in Seqs : SeqContent'[s] \in {SeqContent[s], {}}]_stateVars
==============================================================================
