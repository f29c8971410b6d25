----------------------------- MODULE ServerSlots -----------------------------
(***************************************************************************)
(* The slots of the server (tools/server/server-context.cpp): requests are   *)
(* queued by HTTP threads and processed by one loop, which gives each task a *)
(* slot, batches the tokens of all slots, decodes the batch piece by piece,  *)
(* samples, and answers.  A slot keeps its prompt from one request to the    *)
(* next and reuses what the memory of its sequence holds of it: the common   *)
(* prefix, chunks moved to a new position, checkpoints of a sliding window,  *)
(* prompts saved in a cache or a file.                                       *)
(*                                                                           *)
(* The memory of a sequence is a function from positions to what was         *)
(* computed there: a token, its LoRA adapter, and whether it saw what it     *)
(* should.  Layers with a sliding window have a memory of their own, of      *)
(* which only some last positions may be left.  A slot's operations change   *)
(* one record, srv, as the handlers do: several in a row in one step.        *)
(***************************************************************************)
EXTENDS Integers, SequencesExt

CONSTANTS Setups, Eos, MaxRequests

VARIABLES
  setup,     \* parameters of the server and the requests clients may make
  requests,  \* the requests made so far, in order
  srv,       \* slots, memory, queues and answers
  loop       \* where update_slots() is

vars == <<setup, requests, srv, loop>>

Slots == 0 .. setup.slots - 1
None == <<0, 0>>
Base == "base"

\* A task is the j-th child of a request, or its parent when j is 0.
Ids == UNION {{<<r, j>> : j \in 0 .. requests[r].children} : r \in DOMAIN requests}
Task(id) == requests[id[1]]
Computed == {"completion", "embedding"}
IsChild(id) == id[2] > 0
IsParent(id) == id[2] = 0 /\ Task(id).children > 0

NewSlot ==
  [state |-> "idle", id |-> None, tokens |-> <<>>, lora |-> Base, ckpts |-> <<>>,
   iBatch |-> -1, sampled |-> Eos, decoded |-> 0, draft |-> <<>>, iDraft |-> <<>>]
AtRest == [pc |-> "tasks", cur |-> 0, batch |-> <<>>, batched |-> -1, i |-> 0, n |-> 0]

Init ==
  /\ setup \in Setups
  /\ requests = <<>>
  /\ srv = [slots |-> [s \in Slots |-> NewSlot],
            mem |-> [s \in Slots |-> <<>>], win |-> [s \in Slots |-> <<>>],
            queue |-> <<>>, deferred |-> <<>>, lru |-> Reverse([s \in 1 .. setup.slots |-> s - 1]),
            cache |-> {}, file |-> <<>>, answers |-> <<>>, gone |-> {}, misread |-> {}, forced |-> FALSE, empty |-> 0]
  /\ loop = AtRest

Processing(w, s) == w.slots[s].state # "idle"
InState(w, states) == {s \in Slots : w.slots[s].state \in states}
InOrder(S) == SelectSeq([k \in 1 .. setup.slots |-> k - 1], LAMBDA s : s \in S)

(***************************************************************************)
(* The memory of a sequence.                                                *)
(***************************************************************************)
\* What the memory holds of a prompt that was computed in whole.
Content(tokens, lora) == [p \in 0 .. Len(tokens) - 1 |-> <<tokens[p + 1], lora, TRUE>>]
Part(f, from, to) == Restrict(f, {p \in DOMAIN f : from <= p /\ p < to})
Without(f, from, to) == Restrict(f, {p \in DOMAIN f : p < from \/ p >= to})
Moved(f, from, to, d) ==
  LET in == {p \in DOMAIN f : from <= p /\ p < to}
  IN [p \in (DOMAIN f \ in) \cup {q + d : q \in in} |-> IF p - d \in in THEN f[p - d] ELSE f[p]]

\* common_context_seq_rm, common_context_seq_cp, common_context_seq_add
SeqRm(w, s, from, to) ==
  [w EXCEPT !.mem[s] = Without(@, from, to), !.win[s] = Without(@, from, to)]
SeqCp(w, s, other) == [w EXCEPT !.mem[other] = w.mem[s], !.win[other] = w.win[s]]
SeqAdd(w, s, from, to, d) ==
  [w EXCEPT !.mem[s] = Moved(@, from, to, d), !.win[s] = Moved(@, from, to, d)]

\* Beyond every position.
End == 1000

\* llama_memory_seq_pos_min, llama_memory_seq_pos_max: of the layers with a window, if any.
Layers(w, s) == IF setup.swa > 0 THEN w.win[s] ELSE w.mem[s]
PosMin(w, s) == IF Layers(w, s) = <<>> THEN -1 ELSE Min(DOMAIN Layers(w, s))
PosMax(w, s) == IF Layers(w, s) = <<>> THEN -1 ELSE Max(DOMAIN Layers(w, s))

\* What attends to what when position p is computed.
Seen(w, s, p) ==
  [mem |-> Part(w.mem[s], 0, p + 1),
   win |-> IF setup.swa = 0 THEN <<>> ELSE Part(w.win[s], p - setup.swa + 1, p + 1)]
SeenOf(tokens, lora) ==
  LET n == Len(tokens)
      all == Content(tokens, lora)
  IN [mem |-> all, win |-> IF setup.swa = 0 THEN <<>> ELSE Part(all, n - setup.swa, n)]

(***************************************************************************)
(* Slots: what a handler does to one.                                       *)
(***************************************************************************)
Answer(w, id, what) == [w EXCEPT !.answers[id] = Append(@, what)]
SendError(w, s) == Answer(w, w.slots[s].id, "error")
SendFinal(w, s) == Answer(w, w.slots[s].id, "final")

\* server_slot::prompt_clear: the checkpoints stay.
PromptClear(w, s) == [SeqRm(w, s, 0, End) EXCEPT !.slots[s].tokens = <<>>]

\* server_queue::pop_deferred_task: one task, one that asked for this slot before others.
PopDeferred(w, s) ==
  LET asks(t) == t.type \in Computed /\ t.slot = s
      mine == {k \in DOMAIN w.deferred : asks(Task(w.deferred[k].id))}
      k == IF mine # {} THEN Min(mine) ELSE 1
  IN IF w.deferred = <<>> THEN w
     ELSE [w EXCEPT !.queue = <<w.deferred[k]>> \o @, !.deferred = RemoveAt(@, k)]

\* server_slot::release
Freed(w, s) ==
  LET idle == [w EXCEPT !.slots[s].state = "idle", !.lru = Append(Remove(@, s), s)]
      kept == IF IsChild(w.slots[s].id) THEN PromptClear(idle, s) ELSE idle
  IN [kept EXCEPT !.slots[s].id = None, !.slots[s].draft = <<>>, !.slots[s].iDraft = <<>>]

\* Mutant of Release: nobody who waits is told.
ReleaseSilently(w, s) == IF Processing(w, s) THEN Freed(w, s) ELSE w

Release(w, s) == IF Processing(w, s) THEN PopDeferred(Freed(w, s), s) ELSE w

Refuse(w, s) == Release(SendError(w, s), s)

\* server_slot::prompt_save, server_slot::prompt_load: the cache takes a copy of the prompt and
\* of the sequence, and gives one back that has more in common with the new prompt.
CommonPrefix(a, b) == Len(LongestCommonPrefix({a, b}))
PromptSave(w, s) ==
  [w EXCEPT !.cache = @ \cup {[tokens |-> w.slots[s].tokens, ckpts |-> w.slots[s].ckpts,
                              mem |-> w.mem[s], win |-> w.win[s]]}]
Load(w, s, e) ==
  [w EXCEPT !.slots[s].tokens = e.tokens, !.slots[s].ckpts = e.ckpts,
            !.mem[s] = e.mem, !.win[s] = e.win, !.cache = @ \ {e}]
PromptLoads(w, s, tokens) ==
  LET better == {e \in w.cache : CommonPrefix(e.tokens, tokens) > CommonPrefix(w.slots[s].tokens, tokens)}
  IN (IF better = {} THEN {w} ELSE {Load(w, s, e) : e \in better})
       \cup (IF "load" \in setup.faults THEN {PromptClear(w, s)} ELSE {})

\* server_context_impl::slot_save_and_clear
SaveAndClear(w, s) ==
  IF w.slots[s].tokens = <<>> THEN w ELSE PromptClear(PromptSave(w, s), s)

(***************************************************************************)
(* A task gets a slot.                                                      *)
(***************************************************************************)
Idle(w) == {s \in Slots : ~Processing(w, s)}

\* server_context_impl::get_available_slot: the idle slot with the most similar prompt, else
\* the one that has been idle longest.
Similar(w, t) ==
  LET shared(s) == CommonPrefix(w.slots[s].tokens, t.tokens)
      some == {s \in Idle(w) : w.slots[s].tokens # <<>> /\ 10 * shared(s) > Len(t.tokens)}
      best == {s \in some : \A r \in some : shared(r) <= shared(s)}
  IN IF setup.similarity /\ t.tokens # <<>> /\ best # {} THEN {Min(best)} ELSE {}
LeastRecent(w) == SelectSeq(w.lru, LAMBDA s : s \in Idle(w))[1]
UpdateCache(w, s, t) ==
  /\ setup.promptCache /\ t.type = "completion"
  /\ s \in Similar(w, t) => 2 * CommonPrefix(w.slots[s].tokens, t.tokens) < Len(w.slots[s].tokens)
Updated(w, s, t) ==
  IF ~UpdateCache(w, s, t) THEN {w}
  ELSE PromptLoads(IF w.slots[s].tokens = <<>> THEN w ELSE PromptSave(w, s), s, t.tokens)
AvailableSlot(w, t) ==
  IF Similar(w, t) # {} THEN Min(Similar(w, t)) ELSE LeastRecent(w)

\* server_context_impl::launch_slot_with_task: another adapter forgets the prompt, though not
\* the memory, which is cleared when the prompt is begun.
Relabeled(w, s, lora) ==
  IF lora = Base THEN [w EXCEPT !.slots[s].lora = Base]
  ELSE IF lora = w.slots[s].lora THEN w
  ELSE [w EXCEPT !.slots[s].lora = lora, !.slots[s].tokens = <<>>]
LaunchFails(id) == Task(id).bad = id[2]
Launch(w, s, id) ==
  LET labeled == Relabeled(w, s, Task(id).lora)
  IN IF LaunchFails(id) THEN Answer(labeled, id, "error")
     ELSE [labeled EXCEPT !.empty = 0, !.slots[s].id = id,
                          !.slots[s].state = IF IsChild(id) THEN "wait_other" ELSE "started"]

\* server_context_impl::launch_slots_with_parent_task: children first; when one cannot be
\* launched those that were are released, without an answer of their own.
ReleaseAllOf(w, r) ==
  FoldLeft(LAMBDA acc, s : IF acc.slots[s].id[1] = r THEN Release(acc, s) ELSE acc, w, InOrder(Slots))
LaunchAll(w, s, id, children) ==
  LET r == id[1]
      order == [j \in DOMAIN children |-> <<children[j], <<r, j>>>>] \o <<<<s, id>>>>
      step(acc, x) ==
        IF ~acc.ok THEN acc
        ELSE IF LaunchFails(x[2]) THEN [ok |-> FALSE, w |-> ReleaseAllOf(Launch(acc.w, x[1], x[2]), r)]
        ELSE [ok |-> TRUE, w |-> Launch(acc.w, x[1], x[2])]
  IN FoldLeft(step, [ok |-> TRUE, w |-> w], order)

\* With --cache-idle-slots the prompts of all idle slots are saved when a task was launched.
SavedIdle(w) ==
  IF ~setup.cacheIdle THEN w ELSE FoldLeft(SaveAndClear, w, InOrder(Idle(w)))

Defer(w, q) == [w EXCEPT !.deferred = Append(@, q)]
FreeSlots(w, n, s) == LET free == InOrder(Idle(w) \ {s}) IN SubSeq(free, 1, Min({n, Len(free)}))

\* server_context_impl::process_single_task, for a task that computes: it waits when there is
\* no slot, its slot is busy, or there are too few for its children.
Scheduled(w, q) ==
  LET t == Task(q.id)
      Chosen(u, s) ==
        LET children == FreeSlots(u, t.children, s)
            all == LaunchAll(u, s, q.id, children)
        IN IF Processing(u, s) \/ Len(children) < t.children THEN Defer(u, q)
           ELSE IF all.ok THEN SavedIdle(all.w) ELSE all.w
  IN IF t.slot >= 0 THEN {Chosen(w, t.slot % setup.slots)}
     ELSE IF Idle(w) = {} THEN {Defer(w, q)}
     ELSE {Chosen(u, AvailableSlot(w, t)) : u \in Updated(w, AvailableSlot(w, t), t)}

\* A task that acts on an idle slot: its prompt is saved to a file, restored from one, erased.
\* A file that is rejected leaves the slot without a prompt, whatever its memory holds.
Acted(w, q) ==
  LET t == Task(q.id)
      s == t.slot % setup.slots
      restored == [w EXCEPT !.slots[s].tokens = w.file.tokens, !.mem[s] = w.file.mem, !.win[s] = w.file.win]
      rejected == [w EXCEPT !.slots[s].tokens = <<>>]
  IN IF Processing(w, s) THEN {Defer(w, q)}
     ELSE CASE t.type = "save" ->
                 {Answer([w EXCEPT !.file = [tokens |-> w.slots[s].tokens, mem |-> w.mem[s], win |-> w.win[s]]],
                         q.id, "final")}
            [] t.type = "restore" ->
                 (IF w.file = <<>> THEN {} ELSE {Answer(restored, q.id, "final")})
                   \cup (IF w.file = <<>> \/ "restore" \in setup.faults THEN {Answer(rejected, q.id, "error")} ELSE {})
            [] t.type = "erase" -> {Answer(PromptClear(w, s), q.id, "final")}

Canceled(w, id) ==
  LET on == {s \in Slots : w.slots[s].id = id} IN IF on = {} THEN w ELSE Release(w, Min(on))

ProcessTask ==
  LET q == Head(srv.queue)
      w == [srv EXCEPT !.queue = Tail(@)]
  IN /\ loop.pc = "tasks" /\ srv.queue # <<>>
     /\ srv' \in IF q.kind = "cancel" THEN {Canceled(w, q.id)}
                 ELSE IF Task(q.id).type \in Computed THEN Scheduled(w, q) ELSE Acted(w, q)
     /\ UNCHANGED <<setup, requests, loop>>

(***************************************************************************)
(* update_slots(): shift, fill the batch, decode it.                        *)
(***************************************************************************)
UpdateBegins ==
  /\ loop.pc = "tasks" /\ srv.queue = <<>> /\ Idle(srv) # Slots
  /\ loop' = [AtRest EXCEPT !.pc = "shift"]
  /\ UNCHANGED <<setup, requests, srv>>

\* A context that is about to be full loses part of what follows its first n_keep tokens (one
\* more with a BOS token): as much as the request says, without a look at how much there is,
\* or half.
NeedsShift(w, s) ==
  w.slots[s].state = "generating" /\ Len(w.slots[s].tokens) + 1 >= setup.ctx
Keep(t) == Min({setup.ctx - 4, (IF t.keep < 0 THEN Len(t.tokens) ELSE t.keep) + (IF setup.bos THEN 1 ELSE 0)})
\* Mutant of Discarded: the prompt keeps its length.
DiscardedUncut(tokens, keep, discard) ==
  [k \in DOMAIN tokens |->
     tokens[IF k > keep /\ k + discard <= Len(tokens) THEN k + discard ELSE k]]

Discarded(tokens, keep, discard) ==
  [k \in 1 .. Len(tokens) - discard |-> tokens[IF k > keep THEN k + discard ELSE k]]
Shifted(w, s) ==
  LET tokens == w.slots[s].tokens
      id == w.slots[s].id
      keep == Keep(Task(id))
      discard == IF Task(id).discard # 0 THEN Task(id).discard ELSE (Len(tokens) - keep) \div 2
      moved == SeqAdd(SeqRm(w, s, keep, keep + discard), s, keep + discard, Len(tokens), -discard)
  IN IF ~setup.shift \/ IsParent(id) \/ IsChild(id) THEN Refuse(w, s)
     ELSE [moved EXCEPT !.slots[s].tokens = Discarded(tokens, keep, discard)]
ShiftContexts ==
  /\ loop.pc = "shift"
  /\ srv' = FoldLeft(LAMBDA acc, s : IF NeedsShift(acc, s) THEN Shifted(acc, s) ELSE acc, srv, InOrder(Slots))
  /\ loop' = [loop EXCEPT !.pc = "generate"]
  /\ UNCHANGED <<setup, requests>>

\* Mutant of CanBatch: slots with different adapters share a batch.
CanBatchAny(w, s, r) == Task(w.slots[s].id).type = Task(w.slots[r].id).type

\* server_slot::can_batch_with
CanBatch(w, s, r) ==
  Task(w.slots[s].id).type = Task(w.slots[r].id).type /\ w.slots[s].lora = w.slots[r].lora

\* server_slot::update_batch: the sampled token, and what was drafted to follow it.
Entry(s, pos, tok, out) == [slot |-> s, pos |-> pos, tok |-> tok, out |-> out]
DraftMax(w, s) ==
  LET n == setup.ctx - Len(w.slots[s].tokens) - 2
      rest == Task(w.slots[s].id).predict - w.slots[s].decoded
  IN Max({0, Min({setup.drafts, n} \cup (IF rest > 0 THEN {rest - 1} ELSE {}))})
UpdateBatch(acc, s, draft) ==
  LET n == Len(acc.w.slots[s].tokens)
      at == Len(acc.batch)
      toks == <<acc.w.slots[s].sampled>> \o draft
  IN [batch |-> acc.batch \o [k \in DOMAIN toks |-> Entry(s, n + k - 1, toks[k], TRUE)],
      w |-> [acc.w EXCEPT !.slots[s].tokens = @ \o toks,
                          !.slots[s].draft = draft,
                          !.slots[s].iBatch = IF draft = <<>> THEN at ELSE @,
                          !.slots[s].iDraft = IF draft = <<>> THEN @ ELSE [k \in DOMAIN toks |-> at + k - 1]]]

Generate ==
  LET all == InState(srv, {"generating"})
      first == Min(all)
      batched == {s \in all : CanBatch(srv, first, s)}
  IN /\ loop.pc = "generate"
     /\ IF all = {} THEN /\ loop' = [loop EXCEPT !.pc = "prompt"]
                         /\ UNCHANGED srv
        ELSE \E drafts \in [batched -> UNION {[1 .. n -> setup.samples] : n \in 0 .. setup.drafts}] :
               /\ \A s \in batched : Len(drafts[s]) <= DraftMax(srv, s)
               /\ LET filled == FoldLeft(LAMBDA acc, s : UpdateBatch(acc, s, drafts[s]),
                                         [w |-> srv, batch |-> <<>>], InOrder(batched))
                  IN /\ srv' = filled.w
                     /\ loop' = [loop EXCEPT !.pc = "prompt", !.batch = filled.batch, !.batched = first,
                                             !.cur = IF setup.cont THEN 0 ELSE setup.slots]
     /\ UNCHANGED <<setup, requests>>

\* Chunks of the cached prompt that the new one has elsewhere are moved there with the memory:
\* c runs over the cached tokens, p over the new prompt.
Matches(a, c, b, p) == CommonPrefix(SubSeq(a, c + 1, Len(a)), SubSeq(b, p + 1, Len(b)))
ReuseChunk(acc, s, tokens) ==
  LET cached == acc.w.slots[s].tokens
      n == Matches(cached, acc.c, tokens, acc.p)
      moved == SeqAdd(SeqRm(acc.w, s, acc.p, acc.c), s, acc.c, acc.c + n, acc.p - acc.c)
      copied == [k \in DOMAIN cached |->
                   IF acc.p < k /\ k <= acc.p + n THEN cached[k - acc.p + acc.c] ELSE cached[k]]
  IN IF acc.c >= Len(cached) \/ acc.p >= Len(tokens) THEN acc
     ELSE IF n < setup.reuse THEN [acc EXCEPT !.c = @ + 1]
     ELSE [w |-> [moved EXCEPT !.slots[s].tokens = copied], c |-> acc.c + n, p |-> acc.p + n]
ReuseChunks(w, s, tokens) ==
  LET n == CommonPrefix(w.slots[s].tokens, tokens)
      start == [w |-> w, c |-> n, p |-> n]
  IN IF setup.reuse = 0 THEN start
     ELSE FoldLeft(LAMBDA acc, k : ReuseChunk(acc, s, tokens), start, w.slots[s].tokens)

\* When the window at position past is not in memory any more, the latest checkpoint that has
\* it is loaded, and the prompt goes on from there; without one it begins anew.
Useful(ckpt, least) == ckpt.min < least \/ ckpt.min = 0
Least(next) == Max({0, next - setup.swa - 1})
FromCheckpoint(w, s, past) ==
  LET ckpts == w.slots[s].ckpts
      useful == {k \in DOMAIN ckpts : Useful(ckpts[k], Least(past))}
      ckpt == ckpts[Max(useful)]
      next == Min({past, Max({ckpt.min + 1, ckpt.max})})
  IN IF past = 0 \/ PosMin(w, s) < Least(past) THEN [w |-> w, past |-> past, next |-> past]
     ELSE IF useful = {} THEN [w |-> w, past |-> 0, next |-> 0]
     ELSE [w |-> [w EXCEPT !.win[s] = ckpt.win], past |-> Min({next, ckpt.n}), next |-> next]

\* How much of the slot's prompt can stay: the new one's common prefix, what could be reused,
\* from a window that is there, and never all of it, "need to evaluate at least 1 token".
Reused(w, s) ==
  LET t == Task(w.slots[s].id)
      chunks == ReuseChunks(w, s, t.tokens)
      whole == IF t.type # "completion" THEN [w |-> w, past |-> 0, next |-> -1]
               ELSE IF t.cache THEN FromCheckpoint(chunks.w, s, chunks.p)
               ELSE [w |-> w, past |-> 0, next |-> 0]
      valid == IF whole.next = -1 THEN whole.w
               ELSE [whole.w EXCEPT !.slots[s].ckpts = SelectSeq(@, LAMBDA ckpt : ckpt.max <= whole.next)]
      past == IF whole.past = Len(t.tokens) /\ whole.past > 0 THEN whole.past - 1 ELSE whole.past
  IN [valid EXCEPT !.slots[s].tokens = SubSeq(@, 1, past)]

TooLong(t) ==
  IF t.type = "embedding" THEN Len(t.tokens) > setup.ubatch \/ Len(t.tokens) > setup.ctx
  ELSE Len(t.tokens) >= setup.ctx

\* A prompt is begun: an empty one is answered, one that is too long refused.
Began(w, s) ==
  LET t == Task(w.slots[s].id)
      begun == [w EXCEPT !.slots[s].state = "prompt"]
  IN IF w.slots[s].state # "started" THEN w
     ELSE IF t.tokens = <<>> THEN Release(SendFinal(w, s), s)
     ELSE IF TooLong(t) THEN Refuse(w, s)
     ELSE Reused(begun, s)

\* "pos_min == -1, but n_past > 0 - should not happen": the server aborts.
Lost(w, s) ==
  LET t == Task(w.slots[s].id)
      chunks == ReuseChunks(w, s, t.tokens)
  IN /\ w.slots[s].state = "started" /\ t.type = "completion" /\ t.cache /\ t.tokens # <<>> /\ ~TooLong(t)
     /\ chunks.p > 0 /\ PosMin(chunks.w, s) = -1

\* How many tokens are added: up to the end of the prompt or of the batch, or to a place
\* before the end where a checkpoint is to be made.
Checkpoints(w, s) == setup.ckpts > 0 /\ setup.swa > 0 /\ Task(w.slots[s].id).type = "completion"
Added(w, s, room) ==
  LET n == Len(Task(w.slots[s].id).tokens)
      past == Len(w.slots[s].tokens)
      lasts == {Min({setup.batch, offset}) : offset \in {setup.ckptEnd + setup.ubatch, setup.ckptEnd}}
      breaks == IF Checkpoints(w, s) THEN {n - last - past : last \in lasts} ELSE {}
  IN Min({n - past, Max({0, room})} \cup {k \in breaks : k > 0})

\* server_context_impl::create_checkpoint: of what is in memory before the batch is decoded.
CreateCheckpoint(w, s, added) ==
  LET ckpt == [n |-> Len(w.slots[s].tokens) - added, min |-> PosMin(w, s), max |-> PosMax(w, s), win |-> w.win[s]]
      ckpts == w.slots[s].ckpts
      kept == SubSeq(ckpts, Max({1, Len(ckpts) - setup.ckpts + 2}), Len(ckpts))
  IN [w EXCEPT !.slots[s].ckpts = Append(kept, ckpt)]
WantsCheckpoint(w, s, added, inBatch) ==
  LET n == Len(w.slots[s].tokens)
      total == Len(Task(w.slots[s].id).tokens)
      ckpts == w.slots[s].ckpts
      last == IF ckpts = <<>> THEN 0 ELSE Last(ckpts).n
  IN /\ Checkpoints(w, s)
     /\ n = total \/ total < n + setup.ubatch \/ (setup.every > 0 /\ n - inBatch - last >= setup.every)
     /\ PosMin(w, s) >= 0 /\ n >= setup.ckptMin
     /\ ckpts # <<>> => n - added > last + setup.ckptMin

\* The tokens of a prompt that go into this batch.  What the slot no longer counts on is
\* removed from the memory first.
Filled(w, s, batch) ==
  LET id == w.slots[s].id
      t == Task(id)
      past == Len(w.slots[s].tokens)
      added == Added(w, s, setup.batch - Len(batch))
      done == past + added = Len(t.tokens)
      entries == [k \in 1 .. added |->
                    Entry(s, past + k - 1, t.tokens[past + k], t.type = "embedding" \/ (done /\ k = added))]
      grown == [SeqRm(w, s, past, End) EXCEPT !.slots[s].tokens = SubSeq(t.tokens, 1, past + added)]
      ready == IF ~done THEN grown
               ELSE [grown EXCEPT !.slots[s].state = "done_prompt", !.slots[s].decoded = 0,
                                  !.slots[s].iBatch = Len(batch) + added - 1]
  IN [batch |-> batch \o entries,
      w |-> IF WantsCheckpoint(ready, s, added, Len(batch) + added) THEN CreateCheckpoint(ready, s, added) ELSE ready]

\* The prompts of the slots in turn, until the batch is full.  A task that has to be computed
\* at once waits for a batch that has room for it.
CanFill(s) ==
  /\ srv.slots[s].state \in {"started", "prompt"}
  /\ loop.batched >= 0 => CanBatch(srv, loop.batched, s)
Waits(w, s) ==
  LET t == Task(w.slots[s].id)
  IN t.type = "embedding" /\ Len(loop.batch) + Len(t.tokens) > setup.batch
Passed(batch) == IF Len(batch) >= setup.batch THEN setup.slots ELSE loop.cur + 1
FillPrompt ==
  LET s == loop.cur
      w == Began(srv, s)
      filled == Filled(w, s, loop.batch)
  IN /\ loop.pc = "prompt" /\ s \in Slots /\ CanFill(s)
     /\ IF Lost(srv, s) THEN srv' = srv /\ loop' = [loop EXCEPT !.pc = "aborted"]
        ELSE IF ~Processing(w, s) \/ Waits(w, s)
        THEN srv' = w /\ loop' = [loop EXCEPT !.cur = @ + 1]
        ELSE /\ srv' = filled.w
             /\ loop' = [loop EXCEPT !.batch = filled.batch, !.cur = Passed(filled.batch),
                                     !.batched = IF @ < 0 THEN s ELSE @]
     /\ UNCHANGED <<setup, requests>>
SkipSlot ==
  LET s == loop.cur
      passes == srv.slots[s].state = "generating" /\ CanBatch(srv, loop.batched, s)
  IN /\ loop.pc = "prompt" /\ s \in Slots /\ ~CanFill(s)
     /\ loop' = [loop EXCEPT !.cur = IF passes THEN Passed(loop.batch) ELSE @ + 1]
     /\ UNCHANGED <<setup, requests, srv>>

\* Nothing to decode, four times in a row, ends the server.
DecodeBegins ==
  /\ loop.pc = "prompt" /\ loop.cur \notin Slots
  /\ srv' = [srv EXCEPT !.empty = IF loop.batch = <<>> THEN @ + 1 ELSE 0]
  /\ loop' = IF loop.batch # <<>> THEN [loop EXCEPT !.pc = "decode", !.n = setup.batch]
             ELSE IF srv'.empty > 3 THEN [AtRest EXCEPT !.pc = "aborted"] ELSE AtRest
  /\ UNCHANGED <<setup, requests>>

(***************************************************************************)
(* The batch is decoded, in pieces of at most n_batch tokens.               *)
(***************************************************************************)
Piece == SubSeq(loop.batch, loop.i + 1, loop.i + Min({loop.n, Len(loop.batch) - loop.i}))
OfSlot(piece, s) == SelectSeq(piece, LAMBDA e : e.slot = s)

\* llama_decode refuses positions that do not follow those in memory (-1), and finds no room
\* when the cells are used up (1).
Follows(s) ==
  LET mine == OfSlot(Piece, s)
  IN mine # <<>> /\ PosMax(srv, s) >= 0 => mine[1].pos = PosMax(srv, s) + 1
Used(w) == FoldFunction(LAMBDA f, n : n + Cardinality(DOMAIN f), 0, w.mem)
HasRoom ==
  IF setup.unified THEN Used(srv) + Len(Piece) <= setup.cells
  ELSE \A s \in Slots : Cardinality(DOMAIN srv.mem[s]) + Len(OfSlot(Piece, s)) <= setup.ctx

\* The sequences hold the piece, computed with the adapter of the slot the batch began with; of a window, positions that the last ubatch cannot see any
\* more may be gone.
Written(w, e) ==
  LET s == e.slot
      entry(right) == e.pos :> <<e.tok, w.slots[loop.batched].lora, right>>
      With(right) ==
        [w EXCEPT !.mem[s] = entry(right) @@ @, !.win[s] = IF setup.swa > 0 THEN entry(right) @@ @ ELSE @]
      right == Seen(With(TRUE), s, e.pos) = SeenOf(SubSeq(w.slots[s].tokens, 1, e.pos + 1), w.slots[s].lora)
  IN With(right)
LastUbatch(s) ==
  LET k == Max({j \in DOMAIN Piece : Piece[j].slot = s})
      first == k - ((k - 1) % setup.ubatch)
  IN Min({Piece[j].pos : j \in {j \in first .. k : Piece[j].slot = s}})
Pruned(w) ==
  [w EXCEPT !.win = [s \in Slots |-> IF OfSlot(Piece, s) = <<>> THEN w.win[s]
                                     ELSE Part(w.win[s], LastUbatch(s) - setup.swa + 1, End)]]
Decoded == FoldLeft(Written, srv, Piece)
\* What the output of a token depends on, by its place in the whole batch.
Rows(w) == [k \in loop.i .. loop.i + Len(Piece) - 1 |-> Seen(w, loop.batch[k + 1].slot, loop.batch[k + 1].pos)]

\* server_slot::copy_state_to: children begin with the prompt of their parent.
CopyState(w, s, child) ==
  LET copied == SeqCp(SeqRm(w, child, 0, End), s, child)
      from == w.slots[s]
  IN [copied EXCEPT !.slots[child].state = "done_prompt", !.slots[child].tokens = from.tokens,
                    !.slots[child].ckpts = from.ckpts, !.slots[child].decoded = from.decoded,
                    !.slots[child].iBatch = from.iBatch]
Children(w, s) == {c \in InState(w, {"wait_other"}) : w.slots[c].id[1] = w.slots[s].id[1]}
ActivateChildren(w, s) ==
  IF w.slots[s].state = "done_prompt" /\ IsParent(w.slots[s].id)
  THEN FoldLeft(LAMBDA acc, c : CopyState(acc, s, c), w, InOrder(Children(w, s)))
  ELSE w

\* server_context_impl::process_token: generation goes on unless the context is full, the
\* budget is spent, or the text ends here.
GoesOn(w, s, tok) ==
  LET t == Task(w.slots[s].id)
  IN /\ setup.shift \/ Len(w.slots[s].tokens) + 1 < setup.ctx
     /\ w.slots[s].decoded < t.predict
     /\ tok # Eos
ProcessToken(w, s, tok) ==
  LET counted == [w EXCEPT !.slots[s].sampled = tok, !.slots[s].decoded = @ + 1]
  IN IF GoesOn(counted, s, tok) THEN counted ELSE Release(SendFinal(counted, s), s)

Misread(w, s, right) == IF right THEN w ELSE [w EXCEPT !.misread = @ \cup {w.slots[s].id}]
\* An embedding is made of all tokens of its prompt, computed at once; a token is sampled from
\* the last one of the slot's prompt.
Embedded(w, s) ==
  LET whole == Len(OfSlot(Piece, s)) = Len(w.slots[s].tokens)
      right == whole /\ w.mem[s] = Content(w.slots[s].tokens, w.slots[s].lora)
  IN [Release(SendFinal(Misread(w, s, right), s), s) EXCEPT !.slots[s].iBatch = -1]
Sampled(w, s, rows, tok) ==
  LET right == rows[w.slots[s].iBatch] = SeenOf(w.slots[s].tokens, w.slots[s].lora)
      read == [Misread(w, s, right) EXCEPT !.slots[s].iBatch = -1, !.slots[s].state = "generating"]
  IN ProcessToken(read, s, tok)
Evaluated(w, s, rows, tok) ==
  LET slot == w.slots[s]
  IN IF slot.iBatch \notin DOMAIN rows THEN w
     ELSE IF slot.state = "done_prompt" /\ Task(slot.id).type = "embedding" THEN Embedded(w, s)
     ELSE IF slot.state \in {"done_prompt", "generating"} /\ slot.draft = <<>> THEN Sampled(w, s, rows, tok)
     ELSE w

\* The drafted tokens that agree with what is sampled are kept, with one more that was
\* sampled; the rest leaves prompt and memory.
Verified(w, s, rows, tok, n) ==
  LET slot == w.slots[s]
      before == SubSeq(slot.tokens, 1, Len(slot.tokens) - Len(slot.draft))
      ids == SubSeq(slot.draft, 1, n) \o <<tok>>
      kept == before \o SubSeq(slot.draft, 1, n)
      right == \A k \in 0 .. n :
                 /\ slot.iDraft[k + 1] \in DOMAIN rows
                 /\ rows[slot.iDraft[k + 1]] = SeenOf(SubSeq(kept, 1, Len(before) + k), slot.lora)
      cut == [SeqRm(Misread(w, s, right), s, Len(kept), End) EXCEPT
                !.slots[s].tokens = kept, !.slots[s].draft = <<>>, !.slots[s].iDraft = <<>>]
  IN FoldLeft(LAMBDA acc, id : IF acc.slots[s].id = slot.id THEN ProcessToken(acc, s, id) ELSE acc, cut, ids)
Accepted(w, s, rows, tok, n) ==
  IF w.slots[s].state = "generating" /\ w.slots[s].draft # <<>>
  THEN Verified(w, s, rows, tok, Min({n, Len(w.slots[s].draft)})) ELSE w

\* A piece was decoded: children are activated, then every slot whose output is in it goes on.
Decode ==
  /\ loop.pc = "decode" /\ loop.i < Len(loop.batch)
  /\ HasRoom /\ \A s \in Slots : Follows(s)
  /\ \E pruned \in IF setup.swa > 0 THEN BOOLEAN ELSE {FALSE} :
     \E toks \in [Slots -> setup.samples \cup {Eos}], ns \in [Slots -> 0 .. setup.drafts] :
       LET rows == Rows(Decoded)
           order == InOrder(Slots)
           held == IF pruned THEN Pruned(Decoded) ELSE Decoded
           active == FoldLeft(ActivateChildren, held, order)
           sampled == FoldLeft(LAMBDA acc, s : Evaluated(acc, s, rows, toks[s]), active, order)
       IN srv' = FoldLeft(LAMBDA acc, s : Accepted(acc, s, rows, toks[s], ns[s]), sampled, order)
  /\ loop' = [loop EXCEPT !.i = @ + Len(Piece), !.n = setup.batch]
  /\ UNCHANGED <<setup, requests>>

\* Mutant of Purgeable: the condition on the unified cache is the wrong way round.
PurgeableSplit(w) == {s \in Idle(w) : ~setup.unified /\ w.slots[s].tokens # <<>>}

\* server_context_impl::try_clear_idle_slots
Purgeable(w) == {s \in Idle(w) : setup.unified /\ w.slots[s].tokens # <<>>}

\* No room: an idle slot gives up its prompt, or the next try is with half as many tokens.
Retry ==
  /\ loop.pc = "decode" /\ loop.i < Len(loop.batch)
  /\ \A s \in Slots : Follows(s)
  /\ ~HasRoom /\ loop.n > 1
  /\ IF Purgeable(srv) # {}
     THEN srv' = PromptClear(srv, Min(Purgeable(srv))) /\ UNCHANGED loop
     ELSE loop' = [loop EXCEPT !.n = @ \div 2] /\ UNCHANGED srv
  /\ UNCHANGED <<setup, requests>>

\* Mutant of Fail: the slots are not released.
FailKeeps(w, s) == IF Processing(w, s) THEN PromptClear(SendError(w, s), s) ELSE w

\* No room for a single token, an invalid batch, or a computation that failed: every task that
\* is being processed ends with an error, and its memory is cleared.
Fail(w, s) == IF Processing(w, s) THEN PromptClear(Refuse(w, s), s) ELSE w

DecodeFails ==
  LET exceeded == ~HasRoom /\ loop.n = 1
      invalid == \E s \in Slots : ~Follows(s)
  IN /\ loop.pc = "decode" /\ loop.i < Len(loop.batch)
     /\ invalid \/ exceeded \/ "compute" \in setup.faults
     /\ srv' = [FoldLeft(Fail, srv, InOrder(Slots)) EXCEPT
                  !.forced = @ \/ (exceeded /\ ~invalid /\ \E s \in Idle(srv) : srv.mem[s] # <<>>)]
     /\ loop' = AtRest
     /\ UNCHANGED <<setup, requests>>

UpdateEnds ==
  /\ loop.pc = "decode" /\ loop.i >= Len(loop.batch)
  /\ loop' = AtRest
  /\ UNCHANGED <<setup, requests, srv>>

Loop ==
  \/ ProcessTask \/ UpdateBegins \/ ShiftContexts \/ Generate \/ FillPrompt \/ SkipSlot
  \/ DecodeBegins \/ Decode \/ Retry \/ DecodeFails \/ UpdateEnds

(***************************************************************************)
(* The clients.  The queue is read between two updates only, so that what    *)
(* they do during one is the same as doing it after or before.               *)
(***************************************************************************)
Finished(id) == srv.answers[id] # <<>>
Family(r) == [k \in 1 .. requests[r].children + 1 |-> <<r, k - 1>>]
Settled(r) ==
  r \in DOMAIN requests /\ (r \in srv.gone \/ \A id \in ToSet(Family(r)) : Finished(id))
Failed(r) == \E id \in ToSet(Family(r)) : srv.answers[id] = <<"error">>

\* server_routes::handle_completions_impl and the other routes: a task, with its children in it.
Post ==
  /\ loop.pc = "tasks" /\ Len(requests) < setup.requests
  /\ setup.patient => \A r \in DOMAIN requests : Settled(r)
  /\ \E t \in setup.templates :
       LET r == Len(requests) + 1
       IN /\ requests' = Append(requests, t)
          /\ srv' = [srv EXCEPT !.queue = Append(@, [kind |-> "task", id |-> <<r, 0>>]),
                                !.answers = [id \in {<<r, j>> : j \in 0 .. t.children} |-> <<>>] @@ @]
  /\ UNCHANGED <<setup, loop>>

\* The reader of a request's answers stops, as it does after an error: what waits is removed,
\* and every task is canceled.
Stop(r) ==
  LET others(q) == q.id[1] # r
      cancels == [k \in DOMAIN Family(r) |-> [kind |-> "cancel", id |-> Family(r)[k]]]
  IN /\ srv' = [srv EXCEPT !.gone = @ \cup {r}, !.deferred = SelectSeq(@, others),
                           !.queue = Reverse(cancels) \o SelectSeq(@, others)]
     /\ UNCHANGED <<setup, requests, loop>>
StopsAfterError ==
  loop.pc = "tasks" /\ \E r \in DOMAIN requests : ~Settled(r) /\ Failed(r) /\ Stop(r)
GivesUp ==
  /\ loop.pc = "tasks" /\ "cancel" \in setup.faults
  /\ \E r \in DOMAIN requests : ~Settled(r) /\ Stop(r)

\* Nothing to do until a client asks again.
AllIdle ==
  /\ loop.pc = "tasks" /\ srv.queue = <<>> /\ Idle(srv) = Slots
  /\ UNCHANGED vars

Next == Loop \/ Post \/ StopsAfterError \/ GivesUp \/ AllIdle

\* The loop is a thread of its own, which is weakly fair: when there always is something to do,
\* it does something.  A client reads its answers.
Working == loop.pc # "aborted" /\ ~(loop.pc = "tasks" /\ srv.queue = <<>> /\ Idle(srv) = Slots)
Fairness == (<>[]Working => []<><<Loop>>_vars) /\ WF_vars(StopsAfterError)
Spec == Init /\ [][Next]_vars /\ Fairness

(***************************************************************************)
(* Properties.                                                              *)
(***************************************************************************)
AtTasks == loop.pc = "tasks"

\* What the memory of a slot's sequence holds is what the slot says it holds: its tokens at their
\* positions, computed under its adapter, in the layers with a window too as far as they go; and
\* nothing beyond while the slot generates.
Held(s) ==
  LET slot == srv.slots[s]
      n == Len(slot.tokens)
      content == Content(slot.tokens, slot.lora)
      win == Part(srv.win[s], 0, n)
  IN /\ Part(srv.mem[s], 0, n) = content
     /\ win = Restrict(content, DOMAIN win)
     /\ slot.state = "generating" => DOMAIN srv.mem[s] = 0 .. n - 1

\* A batch that is decoded goes on where the memory of each sequence ends; other positions would
\* end every task that is being processed ("Invalid input batch.").  The exception is a request
\* that discards more than follows the tokens it keeps, which stay in memory but not in the prompt.
Overdiscards(id) == Task(id).discard > setup.ctx - 1 - Keep(Task(id))
GoesOnFromMemory(s) ==
  loop.pc = "decode" /\ loop.i < Len(loop.batch) => Follows(s) \/ Overdiscards(srv.slots[s].id)

\* After reuse, shifts, drafts, saves, retries and failures a slot and the memory of its sequence
\* agree: between two updates in what they hold, and within one in where it goes on.
CacheHeld ==
  \A s \in Slots :
    /\ AtTasks /\ srv.slots[s].state # "wait_other" => Held(s)
    /\ GoesOnFromMemory(s)

\* What is sampled or returned for a task was computed from exactly the task's own tokens and
\* nothing else, whatever the slot held before and whichever way the settings let the batch be
\* cut (not inside a draft or an embedding).
SampledFromOwnContext == srv.misread = {}

\* A task gets one answer, and none while a slot still works on it.
AnsweredOnce ==
  /\ \A id \in DOMAIN srv.answers : Len(srv.answers[id]) <= 1
  /\ \A s \in Slots : Processing(srv, s) => srv.answers[srv.slots[s].id] = <<>>

\* "Context size has been exceeded" is said only when no idle slot could have given up its
\* part of the memory.
ExceededOnlyWhenFull == ~srv.forced

\* Every request is answered in whole, or ends with an error: nobody waits for ever, behind a
\* slot that is never released, for a parent that is gone, or on a server that aborted.
RequestsEnd == \A r \in 1 .. MaxRequests : r \in DOMAIN requests ~> Settled(r)
=============================================================================
