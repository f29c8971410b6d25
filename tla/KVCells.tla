------------------------------- MODULE KVCells -------------------------------
(***************************************************************************)
(* llama_kv_cells (src/llama-kv-cells.h) as src/llama-kv-cache.cpp uses it. *)
(* The header itself is not part of this repository; each operator below    *)
(* says what the calls in llama-kv-cache.cpp rely on.                       *)
(*                                                                          *)
(* A cell is a record: its position (-1 when it is empty), the K-shift that *)
(* was accumulated since the last update (position = rotated position +     *)
(* shift, see seq_cp), and the set of sequences that own it.  A "row" is    *)
(* one stream's cells, a function from cell indices to cells.               *)
(***************************************************************************)
EXTENDS Integers, FiniteSets

EmptyCell == [pos |-> -1, shift |-> 0, seqs |-> {}]

IsEmpty(c) == c.pos = -1

\* pos_in: p0 < 0 means from the start, p1 < 0 means to the end.
PosIn(pos, p0, p1) ==
  /\ pos >= 0
  /\ pos >= p0
  /\ (p1 < 0 \/ pos < p1)

\* seq_rm on one cell, for every sequence in S: a cell nobody owns is freed.
DropSeqs(c, S) ==
  IF c.seqs \subseteq S THEN EmptyCell ELSE [c EXCEPT !.seqs = @ \ S]

\* seq_keep on one cell.
KeepOnly(c, s) ==
  IF s \in c.seqs THEN [c EXCEPT !.seqs = {s}] ELSE EmptyCell

\* pos_add: the cell is freed when its position falls below zero.
ShiftPos(c, d) ==
  IF c.pos + d < 0 THEN EmptyCell
  ELSE [pos |-> c.pos + d, shift |-> c.shift + d, seqs |-> c.seqs]

\* pos_div.
DivPos(c, d) ==
  [pos |-> c.pos \div d, shift |-> c.shift + (c.pos \div d) - c.pos, seqs |-> c.seqs]

\* pos_set followed by seq_add for every sequence of the token.
TokenCell(pos, S) == [pos |-> pos, shift |-> 0, seqs |-> S]

\* The positions a sequence holds in a row, and their extremes (-1 if none).
SeqPositions(row, s) ==
  {row[i].pos : i \in {j \in DOMAIN row : s \in row[j].seqs}}

Least(S) == CHOOSE x \in S : \A y \in S : x <= y
Greatest(S) == CHOOSE x \in S : \A y \in S : x >= y

SeqPosMin(row, s) ==
  IF SeqPositions(row, s) = {} THEN -1 ELSE Least(SeqPositions(row, s))
SeqPosMax(row, s) ==
  IF SeqPositions(row, s) = {} THEN -1 ELSE Greatest(SeqPositions(row, s))

\* get_used.
Used(row) == Cardinality({i \in DOMAIN row : ~IsEmpty(row[i])})

\* The cells that were occupied in `old` and are empty in `new`.
Freed(old, new) ==
  {i \in DOMAIN old : ~IsEmpty(old[i]) /\ IsEmpty(new[i])}
==============================================================================
