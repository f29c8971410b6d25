---------------------------- MODULE MCServerSlots ----------------------------
(* Instances of ServerSlots: one or two slots and a few requests each.       *)
EXTENDS ServerSlots

Request(type, tokens) ==
  [type |-> type, tokens |-> tokens, lora |-> Base, cache |-> TRUE, predict |-> 2, keep |-> 0, discard |-> 0,
   slot |-> -1, children |-> 0, bad |-> -1]
Completion(tokens) == Request("completion", tokens)
Embedding(tokens) == Request("embedding", tokens)
Action(type, s) == [Request(type, <<>>) EXCEPT !.slot = s]

Plain ==
  [slots |-> 2, ctx |-> 8, batch |-> 4, ubatch |-> 4, swa |-> 0, unified |-> FALSE, cells |-> 100,
   shift |-> FALSE, bos |-> FALSE, reuse |-> 0, promptCache |-> FALSE, cacheIdle |-> FALSE, similarity |-> TRUE,
   cont |-> TRUE, drafts |-> 0, ckpts |-> 0, ckptMin |-> 1, ckptEnd |-> 1, every |-> 0,
   samples |-> {"a"}, faults |-> {}, requests |-> 3, patient |-> FALSE, templates |-> {}]

A == <<"a", "b">>
B == <<"a", "c", "a">>
C == <<"c">>
Long == <<"a", "b", "c", "a", "b">>

\* More requests than slots, one of them for a slot of its own, an empty prompt, one that is
\* too long, and prompts of which a part is in the memory.
Waiting ==
  {[Plain EXCEPT !.cont = cont, !.ctx = 5,
     !.templates = {Completion(A), [Completion(B) EXCEPT !.slot = 0, !.predict = 3],
                    Completion(<<>>), Completion(Long)}] : cont \in BOOLEAN}

\* Computations that fail.
Failing ==
  [Plain EXCEPT !.faults = {"compute"}, !.templates = {Completion(A), [Completion(B) EXCEPT !.cache = FALSE]}]

\* Clients that give up.
Leaving ==
  [Plain EXCEPT !.faults = {"cancel"}, !.requests = 2, !.templates = {Completion(A), [Completion(C) EXCEPT !.slot = 1]}]

\* Several completions of one prompt, of which one cannot be launched, or that are given up.
Sharing ==
  [Plain EXCEPT !.batch = 2,
     !.templates = {[Completion(B) EXCEPT !.children = 1], Completion(C)}]
SharingBadly ==
  [Plain EXCEPT !.batch = 2, !.faults = {"cancel"}, !.requests = 2,
     !.templates = {[Completion(B) EXCEPT !.children = 1, !.bad = bad] : bad \in {-1, 0, 1}}]

\* A cache that all slots share and that gets full.
Full ==
  [Plain EXCEPT !.unified = TRUE, !.cells = 5, !.similarity = FALSE,
     !.templates = {Completion(A), Completion(B), [Completion(C) EXCEPT !.predict = 4]}]

\* A sliding window of which only the end may be in memory, with checkpoints.
Windows ==
  {[Plain EXCEPT !.slots = 1, !.swa = swa, !.patient = TRUE, !.ubatch = 2, !.batch = batch, !.ckpts = 2, !.ctx = 10, !.every = every,
     !.templates = {Completion(Long), Completion(<<"a", "b", "c", "c">>), Completion(B)}] :
     swa \in {1, 2}, batch \in {2, 4}, every \in {0, 2}}

\* Chunks of a prompt that return at other positions, and contexts that are shifted.
Chunks ==
  [Plain EXCEPT !.slots = 1, !.reuse = 2, !.patient = TRUE, !.shift = TRUE, !.ctx = 7, !.samples = {"a", "b"},
     !.templates = {Completion(Long), [Completion(<<"c", "a", "b">>) EXCEPT !.predict = 6, !.keep = 1],
                    Completion(<<"b", "c", "a">>)}]

\* Contexts that are shifted by as much as a request says, past a BOS token or not: less than
\* what follows the kept tokens, all of it, or more than there is.
Discards ==
  {[Plain EXCEPT !.slots = 1, !.reuse = 2, !.patient = TRUE, !.shift = TRUE, !.ctx = 7, !.bos = bos,
      !.samples = {"a", "b"}, !.requests = 2,
      !.templates = {Completion(Long)} \cup
         {[Completion(<<"c", "a", "b">>) EXCEPT !.predict = 6, !.keep = 1, !.discard = d] : d \in 1 .. 6}] :
     bos \in BOOLEAN}
   \cup
  {[Plain EXCEPT !.shift = TRUE, !.ctx = 7, !.bos = TRUE, !.requests = 2,
      !.templates = {[Completion(A) EXCEPT !.predict = 8, !.keep = -1, !.discard = d] : d \in {0, 2, 5}}]}

\* Prompts that move between slots and a cache.
Cached ==
  {[Plain EXCEPT !.promptCache = TRUE, !.cacheIdle = idle, !.faults = {"load"},
     !.templates = {Completion(A), Completion(B), [Completion(C) EXCEPT !.predict = 1]}] : idle \in BOOLEAN}

\* Prompts saved to a file, restored and erased.
Files ==
  [Plain EXCEPT !.faults = {"restore"}, !.patient = TRUE, !.requests = 4,
     !.templates = {Completion(A), [Completion(B) EXCEPT !.slot = 0], Action("save", 0), Action("restore", 0), Action("erase", 0)}]

\* Adapters.
Adapters ==
  [Plain EXCEPT !.templates = {[Completion(A) EXCEPT !.lora = "x"], [Completion(A) EXCEPT !.lora = "y"],
                               [Completion(B) EXCEPT !.lora = "x"]}]

\* Drafts.
Drafts ==
  {[Plain EXCEPT !.slots = 1, !.drafts = 2, !.ctx = 7, !.samples = {"a", "b"}, !.requests = 2, !.patient = TRUE,
      !.templates = {[Completion(A) EXCEPT !.predict = 4], Completion(C)}],
   [Plain EXCEPT !.drafts = 1, !.requests = 2,
      !.templates = {[Completion(A) EXCEPT !.predict = 3], Completion(C)}]}

\* Embeddings, which are computed at once.
Embeddings ==
  [Plain EXCEPT !.ubatch = 3, !.templates = {Embedding(A), Embedding(B), Completion(A), Embedding(Long)}]

MCSetups ==
  Waiting \cup {Failing, Leaving, Sharing, SharingBadly, Full, Chunks, Files, Adapters, Embeddings}
    \cup Discards \cup Drafts \cup Windows \cup Cached
=============================================================================
