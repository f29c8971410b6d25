------------------------------ MODULE FindSlot -------------------------------
(***************************************************************************)
(* The loop of llama_kv_cache::find_slot for one row of n tokens, run on    *)
(* every content of a small stream, every head and both values of cont.     *)
(***************************************************************************)
EXTENDS KVSlots, Sequences

CONSTANT MaxCellPos  \* bound: positions in the stream that is searched

VARIABLES row, head, n, cont,     \* the question
          headCur, nTested, i, res, \* the loop's variables
          pc
vars == <<row, head, n, cont, headCur, nTested, i, res, pc>>
question == <<row, head, n, cont>>

RowCells == {EmptyCell} \cup {TokenCell(p, {s}) : p \in 0 .. MaxCellPos, s \in Seqs}

Init ==
  /\ row \in [Idxs -> RowCells]
  /\ head \in 0 .. Size
  /\ n \in 1 .. Size + 1
  /\ cont \in BOOLEAN
  /\ headCur = SearchStart(row, head, n)
  /\ nTested = 0 /\ i = 0 /\ res = <<>>
  /\ pc = "enter"

\* n_test: the whole slot, or one cell at a time.
NTest == IF cont THEN n ELSE 1

Enter ==
  /\ pc = "enter"
  /\ pc' = IF n > Size THEN "failed" ELSE "loop"
  /\ UNCHANGED <<question, headCur, nTested, i, res>>

\* The cells left before the end are too few: count them and start over.
Wrap ==
  /\ pc = "loop" /\ headCur + NTest > Size
  /\ nTested' = nTested + (Size - headCur)
  /\ headCur' = 0
  /\ UNCHANGED <<question, i, res, pc>>

StartWindow ==
  /\ pc = "loop" /\ headCur + NTest <= Size
  /\ i' = 0
  /\ pc' = "window"
  /\ UNCHANGED <<question, headCur, nTested, res>>

\* Mutant of TestCell: the head moves on before its cell is taken.
TestCellNext ==
  /\ pc = "window" /\ i < NTest
  /\ headCur' = headCur + 1
  /\ nTested' = nTested + 1
  /\ IF Usable(row, headCur)
     THEN res' = Append(res, (headCur + 1) % Size) /\ i' = i + 1
     ELSE res' = res /\ i' = IF cont THEN NTest ELSE i + 1
  /\ UNCHANGED <<question, pc>>

\* Mutant of TestCell: tested cells are not counted.
TestCellUncounted ==
  /\ pc = "window" /\ i < NTest
  /\ headCur' = headCur + 1
  /\ IF Usable(row, headCur)
     THEN res' = Append(res, headCur) /\ i' = i + 1
     ELSE res' = res /\ i' = IF cont THEN NTest ELSE i + 1
  /\ UNCHANGED <<question, nTested, pc>>

\* One cell of the window; a contiguous search gives the window up on a used one.
TestCell ==
  /\ pc = "window" /\ i < NTest
  /\ headCur' = headCur + 1
  /\ nTested' = nTested + 1
  /\ IF Usable(row, headCur)
     THEN res' = Append(res, headCur) /\ i' = i + 1
     ELSE res' = res /\ i' = IF cont THEN NTest ELSE i + 1
  /\ UNCHANGED <<question, pc>>

EndWindow ==
  /\ pc = "window" /\ i = NTest
  /\ res' = IF Len(res) < n /\ cont THEN <<>> ELSE res
  /\ pc' = CASE Len(res) = n -> "found"
             [] Len(res) < n /\ nTested >= Size -> "failed"
             [] OTHER -> "loop"
  /\ UNCHANGED <<question, headCur, nTested, i>>

Loop == Wrap \/ StartWindow \/ TestCell \/ EndWindow

Done == pc \in {"found", "failed"} /\ UNCHANGED vars

Next == Enter \/ Loop \/ Done

Spec == Init /\ [][Next]_vars /\ WF_vars(Enter \/ Loop)

\* Windows of n usable cells in a row, not across the end of the stream.
Windows == {k \in 0 .. Size - n : \A j \in 0 .. n - 1 : Usable(row, k + j)}

\* The search for single cells answers exactly the declarative SlotsOf that the rest of the
\* cache model uses; the contiguous one answers a window.  It fails only when there is none:
\* the wrap-around and the count of tested cells leave no cell, and no window across the
\* starting head, out.
FoundIsSlot ==
  /\ pc = "found" => IF cont THEN \E k \in Windows : res = [j \in 1 .. n |-> k + j - 1]
                     ELSE SlotsOf(row, head, n) = {res}
  /\ pc = "failed" => IF cont THEN Windows = {} ELSE SlotsOf(row, head, n) = {}

\* The search ends.
SearchEnds == <>(pc \in {"found", "failed"})
==============================================================================
