------------------------------- MODULE KVCache -------------------------------
(***************************************************************************)
(* llama_kv_cache (src/llama-kv-cache.cpp) as llama_context::decode drives  *)
(* it (src/llama-context.cpp): the cells of every stream, the search heads, *)
(* the queue of pending stream copies, the content of the K/V buffers and   *)
(* of their prompt shadow, and one decode call in progress.                 *)
(*                                                                          *)
(* The context is used by one thread at a time, so client operations happen *)
(* between decode calls; a decode call is a sequence of steps because each  *)
(* of them (a stream copy, the K-shift, one ubatch planned, one ubatch      *)
(* undone, one ubatch placed, one ubatch computed) can fail or leave the    *)
(* cache half-way.                                                          *)
(***************************************************************************)
EXTENDS KVSlots, Sequences

CONSTANTS
  HasShadow,   \* a K/V shadow is mirrored on the prompt device
  Toks,        \* what a token can be, as far as the K/V content tells
  MaxPos,      \* bound: positions stay below MaxPos
  MaxCopies,   \* bound: stream copies queued between two decode calls
  Batches,     \* batches the client submits, as split into ubatches
  Ranges,      \* [p0, p1) arguments the client passes
  Deltas,      \* shifts the client passes to seq_add
  Divisors,    \* divisors the client passes to seq_div
  ClientOps,   \* memory operations the client uses
  SharedShift, \* the client also shifts cells that several sequences share
  Failures     \* which of "shift", "reserve", "compute" may fail

\* A batch is a sequence of ubatches; an ubatch maps the streams it touches to
\* equally long rows of tokens; a token here is its set of sequences.
\* balloc.split_simple fills the one stream of a unified cache, split_equal
\* gives each sequence of a non-unified cache the row of its own stream.
IsUbatch(u) ==
  /\ DOMAIN u \in (SUBSET Streams) \ {{}}
  /\ \A st \in DOMAIN u : u[st] \in Seq((SUBSET Seqs) \ {{}}) \ {<<>>}
  /\ \A st, sv \in DOMAIN u : Len(u[st]) = Len(u[sv])
  /\ Unified \/ \A st \in DOMAIN u : \A j \in 1 .. Len(u[st]) : u[st][j] = {st}

ASSUME ConstAssumption ==
  /\ HasShadow \in BOOLEAN
  /\ MaxPos \in Nat /\ MaxCopies \in Nat
  /\ \A b \in Batches : /\ Len(b) \in Nat \ {0}
                        /\ \A k \in 1 .. Len(b) : IsUbatch(b[k])
  /\ Ranges \subseteq Int \X Int
  /\ Deltas \subseteq Int
  /\ Divisors \subseteq Nat \ {0}
  /\ SharedShift \in BOOLEAN

VARIABLES
  cells,   \* v_cells: per stream, per index, a cell
  head,    \* v_heads: per stream, where the next search starts
  scInfo,  \* sc_info: queued <<source, destination>> stream copies
  data,    \* content of the K/V buffers, per stream and cell
  shadow,  \* content of k_shadow/v_shadow
  phase,   \* where the decode call is ("idle": no call in progress)
  batch,   \* the ubatches of the call, with positions
  plan,    \* prepare()'s slots and, beside each, the state it saved
  copies,  \* stream copies this call still has to perform
  doShift, \* this call's memory update applies the K-shift
  retried, \* did_optimize
  iCur     \* ubatch being planned, undone or processed

memVars == <<cells, head>>
bufVars == <<data, shadow>>
callVars == <<phase, batch, plan, copies, doShift, retried, iCur>>
vars == <<cells, head, scInfo, data, shadow, callVars>>

NoData == [tok |-> "none", rot |-> -1]
NoBufs == [st \in Streams |-> [i \in Idxs |-> NoData]]
NoCells == [st \in Streams |-> [i \in Idxs |-> EmptyCell]]
NoHeads == [st \in Streams |-> 0]

Init ==
  /\ cells = NoCells
  /\ head = NoHeads
  /\ scInfo = <<>>
  /\ data = NoBufs
  /\ shadow = NoBufs
  /\ phase = "idle" /\ batch = <<>> /\ plan = <<>>
  /\ copies = <<>> /\ doShift = FALSE /\ retried = FALSE /\ iCur = 0

(***************************************************************************)
(* Memory operations of the client (the llama_memory API), between calls.   *)
(***************************************************************************)
Client(op) ==
  /\ phase = "idle"
  /\ op \in ClientOps
  /\ UNCHANGED callVars

\* A freed cell below the head pulls the head back to it.
HeadAfter(old, new, h) ==
  IF Freed(old, new) # {} /\ Least(Freed(old, new)) < h
  THEN Least(Freed(old, new)) ELSE h

\* One stream's cells become `row`.
SetRow(st, row, h) ==
  /\ cells' = [cells EXCEPT ![st] = row]
  /\ head' = [head EXCEPT ![st] = h]

\* Mutant of RemovedRow: the loop over the cells misses the first one.
RemovedRowSkipsFirst(row, S, p0, p1) ==
  [i \in Idxs |-> IF i > 0 /\ PosIn(row[i].pos, p0, p1) THEN DropSeqs(row[i], S) ELSE row[i]]

\* seq_rm on one stream, for every sequence in S.
RemovedRow(row, S, p0, p1) ==
  [i \in Idxs |-> IF PosIn(row[i].pos, p0, p1) THEN DropSeqs(row[i], S) ELSE row[i]]

SeqRm(s, p0, p1) ==
  LET st == SeqToStream(s)
      row == RemovedRow(cells[st], {s}, p0, p1)
  IN /\ Client("seq_rm")
     /\ SetRow(st, row, HeadAfter(cells[st], row, head[st]))
     /\ UNCHANGED <<scInfo, bufVars>>

\* seq_id = -1: every sequence of every stream.
SeqRmAny(p0, p1) ==
  LET rows == [st \in Streams |-> RemovedRow(cells[st], Seqs, p0, p1)]
  IN /\ Client("seq_rm_any")
     /\ cells' = rows
     /\ head' = [st \in Streams |-> HeadAfter(cells[st], rows[st], head[st])]
     /\ UNCHANGED <<scInfo, bufVars>>

\* Within a stream a copy only adds an owner to the cells.
SharedRow(row, s, d, p0, p1) ==
  [i \in Idxs |-> IF PosIn(row[i].pos, p0, p1) /\ s \in row[i].seqs
                  THEN [row[i] EXCEPT !.seqs = @ \cup {d}] ELSE row[i]]

SeqCpShared(s, d, p0, p1) ==
  LET st == SeqToStream(s)
  IN /\ Client("seq_cp")
     /\ s # d
     /\ SeqToStream(d) = st
     /\ cells' = [cells EXCEPT ![st] = SharedRow(@, s, d, p0, p1)]
     /\ UNCHANGED <<head, scInfo, bufVars>>

\* is_full: the ranges a copy between streams accepts.
IsFullRange(p0, p1) ==
  /\ ~(p0 > 0 /\ p0 + 1 < Size)
  /\ ~(p1 > 0 /\ p1 + 1 < Size)

\* Mutant of SeqCpStream: the copied cells forget the pending shift.
SeqCpStreamUnshifted(s, d, p0, p1) ==
  LET src == SeqToStream(s)
      dst == SeqToStream(d)
  IN /\ Client("seq_cp")
     /\ src # dst
     /\ IsFullRange(p0, p1)
     /\ Len(scInfo) < MaxCopies
     /\ scInfo' = Append(scInfo, <<src, dst>>)
     /\ SetRow(dst,
               [i \in Idxs |-> IF s \in cells[src][i].seqs
                               THEN TokenCell(cells[src][i].pos, {d})
                               ELSE EmptyCell],
               head[src])
     /\ UNCHANGED bufVars

\* Between streams the cells are replaced now, the buffer copy is queued.  A cell
\* keeps its pending shift: its K still is rotated to pos - shift.
SeqCpStream(s, d, p0, p1) ==
  LET src == SeqToStream(s)
      dst == SeqToStream(d)
  IN /\ Client("seq_cp")
     /\ src # dst
     /\ IsFullRange(p0, p1)
     /\ Len(scInfo) < MaxCopies
     /\ scInfo' = Append(scInfo, <<src, dst>>)
     /\ SetRow(dst,
               [i \in Idxs |-> IF s \in cells[src][i].seqs
                               THEN [cells[src][i] EXCEPT !.seqs = {d}]
                               ELSE EmptyCell],
               head[src])
     /\ UNCHANGED bufVars

\* seq_keep looks at the stream of its sequence only.
KeptCells(s) ==
  [cells EXCEPT ![SeqToStream(s)] = [i \in Idxs |-> KeepOnly(@[i], s)]]

SeqKeep(s) ==
  LET st == SeqToStream(s)
  IN /\ Client("seq_keep")
     /\ cells' = KeptCells(s)
     /\ head' = [head EXCEPT ![st] = HeadAfter(cells[st], KeptCells(s)[st], @)]
     /\ UNCHANGED <<scInfo, bufVars>>

\* The cells seq_add and seq_div touch.
Touched(s, p0, p1) ==
  {i \in Idxs : /\ PosIn(cells[SeqToStream(s)][i].pos, p0, p1)
                /\ s \in cells[SeqToStream(s)][i].seqs}

\* The early return on an empty range.
EmptyRange(p0, p1) == p1 >= 0 /\ (p0 = p1 \/ (p0 < 0 /\ p1 = 0))

\* What the client promises unless SharedShift, and the MaxPos bound.
MayMove(s, p0, p1, d) ==
  \A i \in Touched(s, p0, p1) :
    /\ SharedShift \/ cells[SeqToStream(s)][i].seqs = {s}
    /\ cells[SeqToStream(s)][i].pos + d < MaxPos

\* The head restarts at the first freed cell, or at the beginning.
SeqAdd(s, p0, p1, d) ==
  LET st == SeqToStream(s)
      row == [i \in Idxs |-> IF i \in Touched(s, p0, p1)
                             THEN ShiftPos(cells[st][i], d) ELSE cells[st][i]]
      freed == Freed(cells[st], row)
  IN /\ Client("seq_add")
     /\ d # 0 /\ ~EmptyRange(p0, p1)
     /\ MayMove(s, p0, p1, d)
     /\ SetRow(st, row, IF freed # {} THEN Least(freed) ELSE 0)
     /\ UNCHANGED <<scInfo, bufVars>>

SeqDiv(s, p0, p1, d) ==
  LET st == SeqToStream(s)
  IN /\ Client("seq_div")
     /\ d # 1 /\ ~EmptyRange(p0, p1)
     /\ MayMove(s, p0, p1, 0)
     /\ cells' = [cells EXCEPT ![st] = [i \in Idxs |->
          IF i \in Touched(s, p0, p1) THEN DivPos(@[i], d) ELSE @[i]]]
     /\ UNCHANGED <<head, scInfo, bufVars>>

\* clear(data): the queue of stream copies is left alone.
Clear(wipe) ==
  /\ Client("clear")
  /\ cells' = NoCells
  /\ head' = NoHeads
  /\ IF wipe THEN data' = NoBufs /\ shadow' = NoBufs ELSE UNCHANGED bufVars
  /\ UNCHANGED scInfo

(***************************************************************************)
(* One decode call: the pending updates, then prepare(), then the ubatches. *)
(***************************************************************************)

\* Where the batch puts token j of row st of ubatch k in sequence q: positions
\* continue each sequence (the batch allocator refuses any others).
Earlier(b, k, st, j, q) ==
  {t \in UNION {{u} \X (1 .. Len(b[u][st])) : u \in {v \in 1 .. k : st \in DOMAIN b[v]}} :
     (t[1] < k \/ t[2] < j) /\ q \in b[t[1]][st][t[2]]}
BatchPos(b, k, st, j, q) ==
  SeqPosMax(cells[st], q) + 1 + Cardinality(Earlier(b, k, st, j, q))

Tokens(b) ==
  UNION {UNION {{<<k, st, j>> : j \in 1 .. Len(b[k][st])} : st \in DOMAIN b[k]} :
           k \in 1 .. Len(b)}

\* The sequences that share a token agree on its position; MaxPos bounds it.
Accepted(b) ==
  \A t \in Tokens(b) : \A q, r \in b[t[1]][t[2]][t[3]] :
    /\ BatchPos(b, t[1], t[2], t[3], q) = BatchPos(b, t[1], t[2], t[3], r)
    /\ BatchPos(b, t[1], t[2], t[3], q) \in 0 .. MaxPos - 1

Positioned(b, tok) ==
  [k \in 1 .. Len(b) |-> [st \in DOMAIN b[k] |-> [j \in 1 .. Len(b[k][st]) |->
     [pos  |-> BatchPos(b, k, st, j, CHOOSE q \in b[k][st][j] : TRUE),
      seqs |-> b[k][st][j],
      tok  |-> tok]]]]

\* Mutant of HasShift: only the first stream is asked.
HasShiftFirst == \E i \in Idxs : cells[0][i].shift # 0

HasShift == \E st \in Streams : \E i \in Idxs : cells[st][i].shift # 0

\* The call starts: memory_update(false) takes the queue and the shift flag.
DecodeBegin(b, tok) ==
  /\ phase = "idle"
  /\ Accepted(b)
  /\ phase' = "update"
  /\ batch' = Positioned(b, tok)
  /\ copies' = scInfo
  /\ scInfo' = <<>>
  /\ doShift' = HasShift
  /\ retried' = FALSE
  /\ iCur' = 0
  /\ UNCHANGED <<memVars, bufVars, plan>>

\* update(): one queued copy; it moves the primary buffers only.
UpdateCopy ==
  /\ phase = "update" /\ copies # <<>>
  /\ data' = [data EXCEPT ![Head(copies)[2]] = data[Head(copies)[1]]]
  /\ copies' = Tail(copies)
  /\ UNCHANGED <<memVars, scInfo, shadow, phase, batch, plan, doShift, retried, iCur>>

\* Cells whose K is rotated by what their cell says, the K-shift's work.
Turned(W) ==
  [st \in Streams |-> [i \in Idxs |->
     IF <<st, i>> \in W THEN [data[st][i] EXCEPT !.rot = @ + cells[st][i].shift]
     ELSE data[st][i]]]

\* Mutant of UpdateShift: reset_shift is missing.
UpdateShiftNoReset ==
  /\ phase = "update" /\ copies = <<>> /\ doShift
  /\ data' = Turned(Streams \X Idxs)
  /\ phase' = "prepare"
  /\ iCur' = 1
  /\ UNCHANGED <<memVars, scInfo, shadow, batch, plan, copies, doShift, retried>>

\* update(): the K-shift graph rotates the primary K of every cell.
UpdateShift ==
  /\ phase = "update" /\ copies = <<>> /\ doShift
  /\ data' = Turned(Streams \X Idxs)
  /\ cells' = [st \in Streams |-> [i \in Idxs |-> [cells[st][i] EXCEPT !.shift = 0]]]
  /\ phase' = "prepare"
  /\ iCur' = 1
  /\ UNCHANGED <<head, scInfo, shadow, batch, plan, copies, doShift, retried>>

\* The cells whose K a failing K-shift can have rotated already.  As a bound, it does not do so
\* to a K that another one that failed has turned too far.
Rotatable ==
  {c \in Streams \X Idxs :
     /\ cells[c[1]][c[2]].shift # 0
     /\ data[c[1]][c[2]].rot + cells[c[1]][c[2]].shift = cells[c[1]][c[2]].pos}

\* update() returns early and the call goes on.  The shift stays pending for every
\* cell, but a graph that failed or was aborted half-way has rotated some K in place
\* (`data` stands for any one of the layers); none when its allocation failed.
UpdateShiftFails ==
  /\ "shift" \in Failures
  /\ phase = "update" /\ copies = <<>> /\ doShift
  /\ \E W \in SUBSET Rotatable : data' = Turned(W)
  /\ phase' = "prepare"
  /\ iCur' = 1
  /\ UNCHANGED <<memVars, scInfo, shadow, batch, plan, copies, doShift, retried>>

UpdateNothing ==
  /\ phase = "update" /\ copies = <<>> /\ ~doShift
  /\ phase' = "prepare"
  /\ iCur' = 1
  /\ UNCHANGED <<memVars, scInfo, bufVars, batch, plan, copies, doShift, retried>>

FoundSlot(u) == \A st \in DOMAIN u : SlotsOf(cells[st], head[st], Len(u[st])) # {}
FindSlot(u) ==
  [st \in DOMAIN u |-> CHOOSE slot \in SlotsOf(cells[st], head[st], Len(u[st])) : TRUE]

SlotCells(slot) == {slot[j] : j \in DOMAIN slot}

\* apply_ubatch.  Placed: the tokens over whatever the slot held.
Placed(row, toks, slot) ==
  [i \in Idxs |-> IF i \in SlotCells(slot)
                  THEN LET t == toks[CHOOSE j \in DOMAIN slot : slot[j] = i]
                       IN TokenCell(t.pos, t.seqs)
                  ELSE row[i]]

\* seq_pos_max_rm: the largest position of s the slot overwrites, -1 if none.
Overwritten(row, slot, s) ==
  Greatest({-1} \cup {row[i].pos : i \in {k \in SlotCells(slot) : s \in row[k].seqs}})

\* Mutant of AppliedRow: no purge.
AppliedRowUnpurged(row, toks, slot) == Placed(row, toks, slot)

\* The purge: a sequence that lost a position loses every smaller one too.
AppliedRow(row, toks, slot) ==
  LET new == Placed(row, toks, slot)
  IN [i \in Idxs |-> DropSeqs(new[i], {s \in Seqs : Overwritten(row, slot, s) >= new[i].pos})]

\* Mutant of ApplyUbatch: the head is moved one cell too far.
ApplyUbatchPastEnd(u, slots) ==
  /\ cells' = [st \in Streams |-> IF st \in DOMAIN u
                                  THEN AppliedRow(cells[st], u[st], slots[st])
                                  ELSE cells[st]]
  /\ head' = [st \in Streams |-> IF st \in DOMAIN u
                                 THEN slots[st][Len(u[st])] + 2
                                 ELSE head[st]]

ApplyUbatch(u, slots) ==
  /\ cells' = [st \in Streams |-> IF st \in DOMAIN u
                                  THEN AppliedRow(cells[st], u[st], slots[st])
                                  ELSE cells[st]]
  /\ head' = [st \in Streams |-> IF st \in DOMAIN u
                                 THEN slots[st][Len(u[st])] + 1
                                 ELSE head[st]]

\* Mutant of PrepareUbatch: the ubatch is planned but not placed.
PrepareUbatchUnplaced ==
  /\ phase = "prepare" /\ iCur <= Len(batch)
  /\ FoundSlot(batch[iCur])
  /\ LET u == batch[iCur]
         slots == FindSlot(u)
     IN plan' = Append(plan,
             [slots |-> slots,
              heads |-> head,
              old |-> [st \in DOMAIN u |-> [j \in DOMAIN slots[st] |->
                         [cells[st][slots[st][j]] EXCEPT !.shift = 0]]]])
  /\ iCur' = iCur + 1
  /\ UNCHANGED <<memVars, scInfo, bufVars, phase, batch, copies, doShift, retried>>

\* prepare(): plan the next ubatch, remember what it covers, place it.
PrepareUbatch ==
  /\ phase = "prepare" /\ iCur <= Len(batch)
  /\ FoundSlot(batch[iCur])
  /\ LET u == batch[iCur]
         slots == FindSlot(u)
     IN /\ plan' = Append(plan,
             [slots |-> slots,
              heads |-> head,
              old |-> [st \in DOMAIN u |-> [j \in DOMAIN slots[st] |->
                         [cells[st][slots[st][j]] EXCEPT !.shift = 0]]]])
        /\ ApplyUbatch(u, slots)
  /\ iCur' = iCur + 1
  /\ UNCHANGED <<scInfo, bufVars, phase, batch, copies, doShift, retried>>

PrepareEnds ==
  /\ phase = "prepare"
  /\ iCur <= Len(batch) => ~FoundSlot(batch[iCur])
  /\ phase' = "restore"
  /\ iCur' = Len(plan)
  /\ UNCHANGED <<memVars, scInfo, bufVars, batch, plan, copies, doShift, retried>>

\* v_heads_old is a copy of v_heads, but it is read by the row's number in the
\* ubatch, not by its stream.
RowNumber(u, st) == Cardinality({sv \in DOMAIN u : sv < st})

\* prepare(): take one planned ubatch back, the last one first.
RestoreUbatch ==
  /\ phase = "restore" /\ iCur > 0
  /\ LET u == batch[iCur]
         p == plan[iCur]
     IN /\ cells' = [st \in Streams |-> IF st \notin DOMAIN u THEN cells[st] ELSE
             [i \in Idxs |-> IF i \in SlotCells(p.slots[st])
                THEN p.old[st][CHOOSE j \in DOMAIN p.slots[st] : p.slots[st][j] = i]
                ELSE cells[st][i]]]
        /\ head' = [st \in Streams |-> IF st \in DOMAIN u
                                       THEN p.heads[RowNumber(u, st)] ELSE head[st]]
  /\ iCur' = iCur - 1
  /\ UNCHANGED <<scInfo, bufVars, phase, batch, plan, copies, doShift, retried>>

\* The call returns.
Return ==
  /\ phase' = "idle"
  /\ batch' = <<>> /\ plan' = <<>> /\ copies' = <<>>
  /\ doShift' = FALSE /\ retried' = FALSE /\ iCur' = 0

Restored == phase = "restore" /\ iCur = 0
Planned == Len(plan) = Len(batch)

\* Mutant of RetryPrepare: did_optimize is not looked at.
RetryPrepareAlways ==
  /\ Restored /\ ~Planned
  /\ HasShift
  /\ phase' = "update"
  /\ plan' = <<>>
  /\ retried' = TRUE
  /\ doShift' = TRUE
  /\ UNCHANGED <<memVars, scInfo, bufVars, batch, copies, iCur>>

\* FAILED_PREPARE: memory_update(true) once more, if there is anything to update.
RetryPrepare ==
  /\ Restored /\ ~Planned
  /\ ~retried /\ HasShift
  /\ phase' = "update"
  /\ plan' = <<>>
  /\ retried' = TRUE
  /\ doShift' = TRUE
  /\ UNCHANGED <<memVars, scInfo, bufVars, batch, copies, iCur>>

\* decode returns 1.
RefuseBatch ==
  /\ Restored /\ ~Planned
  /\ retried \/ ~HasShift
  /\ Return
  /\ UNCHANGED <<memVars, scInfo, bufVars>>

\* output_reserve fails: decode returns -2.
ReserveFails ==
  /\ "reserve" \in Failures
  /\ Restored /\ Planned
  /\ Return
  /\ UNCHANGED <<memVars, scInfo, bufVars>>

StartUbatches ==
  /\ Restored /\ Planned
  /\ phase' = "apply"
  /\ iCur' = 1
  /\ UNCHANGED <<memVars, scInfo, bufVars, batch, plan, copies, doShift, retried>>

\* process_ubatch: mctx->apply() places the ubatch before its graph runs.
Apply ==
  /\ phase = "apply"
  /\ ApplyUbatch(batch[iCur], plan[iCur].slots)
  /\ phase' = "compute"
  /\ UNCHANGED <<scInfo, bufVars, batch, plan, copies, doShift, retried, iCur>>

\* What the graph's cpy_k/cpy_v leave in `buf` when they reach the cells W.
Written(buf, u, slots, W) ==
  [st \in Streams |-> [i \in Idxs |->
     IF st \in DOMAIN u /\ <<st, i>> \in W
     THEN LET t == u[st][CHOOSE j \in DOMAIN slots[st] : slots[st][j] = i]
          IN [tok |-> t.tok, rot |-> t.pos]
     ELSE buf[st][i]]]

CurrentCells ==
  UNION {{<<st, i>> : i \in SlotCells(plan[iCur].slots[st])} : st \in DOMAIN batch[iCur]}

\* Mutant of Compute: only prompt ubatches are mirrored into the shadow.
ComputePromptShadow ==
  /\ phase = "compute"
  /\ data' = Written(data, batch[iCur], plan[iCur].slots, CurrentCells)
  /\ shadow' = IF HasShadow /\ Cardinality(CurrentCells) > 1
               THEN Written(shadow, batch[iCur], plan[iCur].slots, CurrentCells)
               ELSE shadow
  /\ IF iCur < Len(batch)
     THEN /\ phase' = "apply"
          /\ iCur' = iCur + 1
          /\ UNCHANGED <<batch, plan, copies, doShift, retried>>
     ELSE Return
  /\ UNCHANGED <<memVars, scInfo>>

\* The graph succeeded; next() moves on or the call returns 0.
Compute ==
  /\ phase = "compute"
  /\ data' = Written(data, batch[iCur], plan[iCur].slots, CurrentCells)
  /\ shadow' = IF HasShadow
               THEN Written(shadow, batch[iCur], plan[iCur].slots, CurrentCells)
               ELSE shadow
  /\ IF iCur < Len(batch)
     THEN /\ phase' = "apply"
          /\ iCur' = iCur + 1
          /\ UNCHANGED <<batch, plan, copies, doShift, retried>>
     ELSE Return
  /\ UNCHANGED <<memVars, scInfo>>

\* The rollback looks at the first sequence id of each token only (clients list the
\* sequences of a token in increasing order).
FirstSeq(t) == Least(t.seqs)

RolledBack(row, toks) ==
  [i \in Idxs |-> DropSeqs(row[i],
     {s \in Seqs : \E j \in 1 .. Len(toks) : FirstSeq(toks[j]) = s /\ toks[j].pos <= row[i].pos})]

\* Allocation, compute or abort: the graph may have reached some cells; decode
\* removes the ubatch from the memory and returns 2, -2 or -3.
ComputeFails ==
  /\ "compute" \in Failures
  /\ phase = "compute"
  /\ \E W \in SUBSET CurrentCells :
       /\ data' = Written(data, batch[iCur], plan[iCur].slots, W)
       /\ shadow' = IF HasShadow
                    THEN Written(shadow, batch[iCur], plan[iCur].slots, W)
                    ELSE shadow
  /\ LET u == batch[iCur]
         rows == [st \in Streams |-> IF st \in DOMAIN u
                                     THEN RolledBack(cells[st], u[st]) ELSE cells[st]]
     IN /\ cells' = rows
        /\ head' = [st \in Streams |-> HeadAfter(cells[st], rows[st], head[st])]
  /\ Return
  /\ UNCHANGED scInfo

Operate ==
  \/ \E s \in Seqs, r \in Ranges : SeqRm(s, r[1], r[2])
  \/ \E r \in Ranges : SeqRmAny(r[1], r[2])
  \/ \E s, d \in Seqs, r \in Ranges : SeqCpShared(s, d, r[1], r[2])
  \/ \E s, d \in Seqs, r \in Ranges : SeqCpStream(s, d, r[1], r[2])
  \/ \E s \in Seqs : SeqKeep(s)
  \/ \E s \in Seqs, r \in Ranges, d \in Deltas : SeqAdd(s, r[1], r[2], d)
  \/ \E s \in Seqs, r \in Ranges, d \in Divisors : SeqDiv(s, r[1], r[2], d)
  \/ \E wipe \in BOOLEAN : Clear(wipe)

Update == UpdateCopy \/ UpdateShift \/ UpdateShiftFails \/ UpdateNothing
Prepare == PrepareUbatch \/ PrepareEnds \/ RestoreUbatch
Outcome == RetryPrepare \/ RefuseBatch \/ ReserveFails \/ StartUbatches
Process == Apply \/ Compute \/ ComputeFails

\* What the decoding thread does by itself once a call is in progress.
Decode == Update \/ Prepare \/ Outcome \/ Process

Next ==
  \/ Operate
  \/ \E b \in Batches, tok \in Toks : DecodeBegin(b, tok)
  \/ Decode

\* The thread inside llama_decode keeps running; a client is never obliged to call.
Spec == Init /\ [][Next]_vars /\ WF_vars(Decode)

(***************************************************************************)
(* Properties.                                                              *)
(***************************************************************************)
Content == [tok : Toks \cup {"none"}, rot : Int]
Cell == [pos : {-1} \cup 0 .. MaxPos - 1, shift : Int, seqs : SUBSET Seqs]
Token == [pos : 0 .. MaxPos - 1, seqs : (SUBSET Seqs) \ {{}}, tok : Toks]
Slots == UNION {[1 .. n -> Idxs] : n \in Nat \ {0}}
Phases == {"idle", "update", "prepare", "restore", "apply", "compute"}

\* A cell is empty and nobody's, or it holds a position of sequences that live in
\* its own stream.
CellOK(st, c) ==
  /\ c \in Cell
  /\ IsEmpty(c) <=> c.seqs = {}
  /\ IsEmpty(c) => c.shift = 0
  /\ \A s \in c.seqs : SeqToStream(s) = st

\* Type invariant; a head never points beyond the end of its stream, which the
\* unsigned arithmetic of find_slot's wrap-around relies on.
TypeOK ==
  /\ cells \in [Streams -> [Idxs -> Cell]]
  /\ \A st \in Streams : \A i \in Idxs : CellOK(st, cells[st][i])
  /\ head \in [Streams -> 0 .. Size]
  /\ scInfo \in Seq(Streams \X Streams)
  /\ copies \in Seq(Streams \X Streams)
  /\ data \in [Streams -> [Idxs -> Content]]
  /\ shadow \in [Streams -> [Idxs -> Content]]
  /\ phase \in Phases
  /\ doShift \in BOOLEAN /\ retried \in BOOLEAN
  /\ iCur \in Nat /\ Len(plan) <= Len(batch)

\* Non-SWA: from the moment prepare() has found the slots until their ubatch is
\* placed, no planned cell holds a token, so apply_ubatch overwrites nothing
\* ("for non-SWA cache, this would be always empty", llama-kv-cache.cpp:1293).
PlannedSlotsFree ==
  NSwa = 0 /\ phase \in {"apply", "compute"} =>
    \A k \in 1 .. Len(plan) : k > iCur \/ (k = iCur /\ phase = "apply") =>
      \A st \in DOMAIN batch[k] : \A j \in 1 .. Len(batch[k][st]) :
        IsEmpty(cells[st][plan[k].slots[st][j]])

\* A batch is refused (decode returns 1) only when some stream really has fewer
\* free cells than the batch has tokens for it: fragmentation, the position of the
\* head and the split into ubatches never refuse a batch.
TokensFor(st) ==
  Cardinality({t \in Tokens(batch) : t[2] = st})
RefusedOnlyWhenFull ==
  [][RefuseBatch /\ NSwa = 0 =>
       \E st \in Streams : TokensFor(st) + Used(cells[st]) > Size]_vars

\* When a graph runs, every cell its sequences own (its own ubatch apart, which the
\* graph itself writes) holds a K that is rotated to the position the mask uses:
\* no copy or shift is still to be made.
AttendedKeysRotated ==
  phase = "compute" =>
    \A st \in DOMAIN batch[iCur] : \A i \in Idxs :
      IsEmpty(cells[st][i]) \/ <<st, i>> \in CurrentCells \/ data[st][i].rot = cells[st][i].pos

\* Prompt graphs read the shadow instead of the primary buffers: when one runs, the
\* two agree on every cell it can attend to ("shadow KV mirror", llama-kv-cache.cpp:542).
ShadowMirrors ==
  HasShadow /\ phase = "compute" =>
    \A st \in DOMAIN batch[iCur] : \A i \in Idxs :
      IsEmpty(cells[st][i]) \/ <<st, i>> \in CurrentCells \/ shadow[st][i] = data[st][i]

\* The invariant apply_ubatch preserves (llama-kv-cache.cpp:1336) and llama.h:791
\* promises: all positions between a sequence's smallest and largest are there,
\* for the client and for a graph that runs.
Contiguous ==
  phase \in {"idle", "compute"} =>
    \A s \in Seqs :
      LET row == cells[SeqToStream(s)]
      IN SeqPosMin(row, s) .. SeqPosMax(row, s) \subseteq {-1} \cup SeqPositions(row, s)

\* When a graph runs, each of its tokens finds in the cache every position it
\* attends to: all up to its own, or its window.  A sliding-window cache so reuses
\* only cells no token can attend to any more, whatever batches failed or were
\* refused before.  (For a client that removes whole sequences; suffixes too, but with a
\* window of at most 2: a longer one of an earlier position may have been given up.)
WindowPresent ==
  phase = "compute" =>
    \A st \in DOMAIN batch[iCur] : \A j \in 1 .. Len(batch[iCur][st]) :
      LET t == batch[iCur][st][j]
      IN \A s \in t.seqs : \A p \in 0 .. t.pos :
           (NSwa > 0 => t.pos - p < NSwa) => p \in SeqPositions(cells[st], s)

\* llama_decode returns: the retry after a refused batch does not repeat for ever.
DecodeReturns == phase # "idle" ~> phase = "idle"
==============================================================================
