------------------------------ MODULE SeqMemory ------------------------------
(***************************************************************************)
(* What the memory promises its client (include/llama.h:737-802): for every *)
(* sequence, which token sits at which position.  Cells, streams, search    *)
(* heads, pending copies and shifts do not appear here.                      *)
(***************************************************************************)
EXTENDS KVCells

CONSTANTS
  Seqs, Toks, Ranges, Deltas, Divisors, MaxAppend,
  Lossy  \* what stands at the positions can get lost

VARIABLE mem  \* per sequence, a set of [pos, tok] entries

Entry(p, t) == [pos |-> p, tok |-> t]

In(e, r) == PosIn(e.pos, r[1], r[2])

Next0(s) == IF mem[s] = {} THEN 0 ELSE Greatest({e.pos : e \in mem[s]}) + 1

Init == mem = [s \in Seqs |-> {}]

\* Removes all tokens that belong to the sequences S and have positions in [p0, p1).
Rm(S, r) ==
  mem' = [s \in Seqs |-> IF s \in S THEN {e \in mem[s] : ~In(e, r)} ELSE mem[s]]

\* Copies the tokens of s to d; what d held stays or is replaced.
Cp(s, d, r) ==
  \E kept \in {{}, mem[d]} :
    mem' = [mem EXCEPT ![d] = kept \cup {e \in mem[s] : In(e, r)}]

\* Removes all tokens that do not belong to s.
Keep(s) == mem' = [t \in Seqs |-> IF t = s THEN mem[s] ELSE {}]

\* Adds delta to the tokens of s in the range; they disappear below zero.
Add(s, r, d) ==
  mem' = [mem EXCEPT ![s] =
    {e \in @ : ~In(e, r)} \cup
    {Entry(e.pos + d, e.tok) : e \in {f \in @ : In(f, r) /\ f.pos + d >= 0}}]

\* Divides the positions of the tokens of s in the range.
Div(s, r, d) ==
  mem' = [mem EXCEPT ![s] =
    {e \in @ : ~In(e, r)} \cup {Entry(e.pos \div d, e.tok) : e \in {f \in @ : In(f, r)}}]

Clear == mem' = [s \in Seqs |-> {}]

\* One ubatch: each sequence grows by the next positions, and by nothing else.
Append(n, t) ==
  mem' = [s \in Seqs |-> mem[s] \cup {Entry(p, t) : p \in Next0(s) .. Next0(s) + n[s] - 1}]

\* A failed update: every sequence keeps its positions, whatever stands there now.
Spoil ==
  /\ DOMAIN mem' = Seqs
  /\ \A s \in Seqs : {e.pos : e \in mem'[s]} = {e.pos : e \in mem[s]}

\* The documented operations.
Use ==
  \/ \E S \in {Seqs} \cup {{s} : s \in Seqs}, r \in Ranges : Rm(S, r)
  \/ \E s, d \in Seqs, r \in Ranges : s # d /\ Cp(s, d, r)
  \/ \E s \in Seqs : Keep(s)
  \/ \E s \in Seqs, r \in Ranges, d \in Deltas : Add(s, r, d)
  \/ \E s \in Seqs, r \in Ranges, d \in Divisors : Div(s, r, d)
  \/ Clear
  \/ \E n \in [Seqs -> 0 .. MaxAppend], t \in Toks : Append(n, t)

Next == Use \/ (Lossy /\ Spoil)

Spec == Init /\ [][Next]_mem
==============================================================================
