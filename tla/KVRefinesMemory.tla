--------------------------- MODULE KVRefinesMemory ---------------------------
(***************************************************************************)
(* KVCache implements SeqMemory: what the cells and buffers mean to the     *)
(* client once the queued stream copies and the pending K-shift are made.    *)
(***************************************************************************)
EXTENDS KVCache

CONSTANT MaxAppend

\* The buffers `buf` after the stream copies q.
CopiesMade(buf, q) ==
  LET after[n \in 0 .. Len(q)] ==
        IF n = 0 THEN buf ELSE [after[n - 1] EXCEPT ![q[n][2]] = after[n - 1][q[n][1]]]
  IN after[Len(q)]

\* The buffers after the stream copies that are still to be made.
Settled == CopiesMade(data, copies \o scInfo)

\* Cells that prepare() holds only for its search, or that a graph still has to
\* write: not yet the client's.
Hidden(st) ==
  CASE phase \in {"prepare", "restore"} ->
         UNION {SlotCells(plan[k].slots[st]) :
                  k \in {m \in 1 .. Len(plan) : st \in DOMAIN batch[m] /\
                                               (phase = "restore" => m <= iCur)}}
    [] phase = "compute" ->
         IF st \in DOMAIN batch[iCur] THEN SlotCells(plan[iCur].slots[st]) ELSE {}
    [] OTHER -> {}

\* The token a cell stands for; a K that is rotated to another position than the
\* cell's, pending shift included, stands for none.
Meaning(c, d) ==
  [pos |-> c.pos, tok |-> IF d.rot + c.shift = c.pos THEN d.tok ELSE "garbled"]

SeqContent ==
  [s \in Seqs |->
    LET st == SeqToStream(s)
    IN {Meaning(cells[st][i], Settled[st][i]) :
          i \in {k \in Idxs : s \in cells[st][k].seqs /\ k \notin Hidden(st)}}]

Memory == INSTANCE SeqMemory WITH mem <- SeqContent, Lossy <- "shift" \in Failures

\* Every step of the cache is one of the operations the API documents, or changes
\* nothing the client can see; a failed or refused ubatch leaves no trace.  Only a
\* K-shift that fails can spoil what stands at a position (a K it rotated is rotated
\* again by the next one), and no position is lost even then.
ImplementsMemory == Memory!Spec /\ [][~UpdateShiftFails => Memory!Use]_SeqContent

\* And the other way round: an operation has its whole documented effect, on every
\* sequence it is documented to have it, and a computed ubatch adds its tokens.
OperationsComplete ==
  [][/\ \A s \in Seqs, r \in Ranges :
          /\ SeqRm(s, r[1], r[2]) => Memory!Rm({s}, r)
          /\ \A d \in Deltas : SeqAdd(s, r[1], r[2], d) => Memory!Add(s, r, d)
          /\ \A d \in Seqs : SeqCpShared(s, d, r[1], r[2]) \/ SeqCpStream(s, d, r[1], r[2])
                               => Memory!Cp(s, d, r)
          /\ \A d \in Divisors : SeqDiv(s, r[1], r[2], d) => Memory!Div(s, r, d)
     /\ \A s \in Seqs : SeqKeep(s) => Memory!Keep(s)
     /\ \A wipe \in BOOLEAN : Clear(wipe) => Memory!Clear
     /\ \A r \in Ranges : SeqRmAny(r[1], r[2]) => Memory!Rm(Seqs, r)
     /\ Compute => Memory!Append(
          [s \in Seqs |-> Cardinality({t \in Tokens(batch) :
             t[1] = iCur /\ s \in batch[t[1]][t[2]][t[3]].seqs})],
          batch[iCur][CHOOSE st \in DOMAIN batch[iCur] : TRUE][1].tok)]_vars
==============================================================================
