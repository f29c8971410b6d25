------------------------------ MODULE GraphReuse ------------------------------
(***************************************************************************)
(* When the graph of an earlier ubatch is run again for a new one           *)
(* (llm_graph_result::can_reuse): the parameters of both are compared, and   *)
(* every input compares its tensors with what it would be given now.  What  *)
(* a graph computes - everything that building it reads and no input brings  *)
(* anew - is stated apart, as `Computes`, from the builders of the graph.    *)
(*                                                                          *)
(* A ubatch is a sequence of tokens, each the sequence of its sequence ids.  *)
(***************************************************************************)
EXTENDS Integers, Sequences, FiniteSets, SequencesExt, FiniteSetsExt

\* The streams of the cache that a ubatch is in: one stream for all, or one for every sequence.
SeqsOf(toks) == UNION {Range(toks[j]) : j \in DOMAIN toks}
StreamsOf(toks, unified) == IF unified THEN {0} ELSE SeqsOf(toks)

\* get_n_kv: the cells in use, padded "so that the graph remains constant across batches and
\* can be reused", in the fullest stream.
PaddedTo(n, pad) == pad * ((n + pad - 1) \div pad)
KvOf(used, streams, pad, size) ==
  Max({Min({size, Max({pad, PaddedTo(used[s], pad)})}) : s \in streams})

(***************************************************************************)
(* graph_params.  ctx is what the client has set in the context, and mem     *)
(* what the memory says of the ubatch: kv cells, of which prev were in use    *)
(* before it, in these streams, and whether prompts read the cache in two     *)
(* parts (a shadow of it, and LLAMA_MINIMAX_FATTN_KV_SPLIT_EXACT).            *)
(***************************************************************************)
Params(gtype, toks, isOut, nOut, input, ctx, samplers, mem) ==
  [gtype |-> gtype, input |-> input, toks |-> toks, isOut |-> isOut, nOut |-> nOut,
   equal |-> ~mem.unified, kv |-> mem.kv, ctx |-> ctx, samplers |-> samplers,
   pooled |-> mem.pooled, prev |-> mem.prev, split |-> mem.split]

NTokens(p) == Len(p.toks)
NSeqs(p) == IF p.equal THEN Cardinality(SeqsOf(p.toks)) ELSE NTokens(p)
NStreams(p) == IF p.equal THEN Cardinality(SeqsOf(p.toks)) ELSE 1
FirstSeqs(p) == [j \in DOMAIN p.toks |-> p.toks[j][1]]

\* Mutant of AllowReuse: which tokens are outputs is not compared, only how many.
AllowReuseByCount(old, new) ==
  /\ old.equal = new.equal /\ NTokens(old) = NTokens(new) /\ NSeqs(old) = NSeqs(new)
  /\ Cardinality(SeqsOf(old.toks)) = Cardinality(SeqsOf(new.toks))
  /\ old.input = new.input
  /\ old.equal => SeqsOf(old.toks) = SeqsOf(new.toks)
  /\ old.nOut = new.nOut /\ old.samplers = new.samplers
  /\ old.ctx.embeddings = new.ctx.embeddings /\ old.ctx.causal = new.ctx.causal
  /\ old.gtype = new.gtype /\ old.ctx.lorasAt = new.ctx.lorasAt

\* llm_graph_params::allow_reuse.  Adapters are compared by address, and the control vector's
\* address never changes.
AllowReuse(old, new) ==
  /\ old.equal = new.equal /\ NTokens(old) = NTokens(new) /\ NSeqs(old) = NSeqs(new)
  /\ Cardinality(SeqsOf(old.toks)) = Cardinality(SeqsOf(new.toks))
  /\ old.input = new.input
  /\ old.equal => SeqsOf(old.toks) = SeqsOf(new.toks)
  /\ old.nOut = new.nOut /\ old.samplers = new.samplers
  /\ old.samplers # {} => old.isOut = new.isOut /\ FirstSeqs(old) = FirstSeqs(new)
  /\ old.ctx.embeddings = new.ctx.embeddings /\ old.ctx.causal = new.ctx.causal
  /\ old.gtype = new.gtype /\ old.ctx.lorasAt = new.ctx.lorasAt

\* The inputs' can_reuse.  The mask has the shape [kv, tokens / streams, 1, streams]; pooling
\* and a graph without a cache have inputs that never agree.
MaskShape(p) == <<p.kv, NTokens(p) \div NStreams(p), NStreams(p)>>
InputsReusable(old, new) ==
  /\ old.gtype # "encoder" /\ ~old.pooled
  /\ NTokens(old) = NTokens(new) /\ old.nOut = new.nOut /\ old.samplers = new.samplers
  /\ MaskShape(old) = MaskShape(new)

CanReuse(old, new) == AllowReuse(old, new) /\ InputsReusable(old, new)

(***************************************************************************)
(* What a graph computes.                                                   *)
(***************************************************************************)
\* build_sampling: the row of logits that the sampler of s works on - outputs are counted, the
\* last one of a sequence stays - or the first one if s has no output.
OutputsOfSeq(p, s) == {j \in DOMAIN p.toks : p.isOut[j] /\ p.toks[j][1] = s}
SamplerRow(p, s) ==
  IF OutputsOfSeq(p, s) = {} THEN 0
  ELSE Cardinality({j \in 1 .. Max(OutputsOfSeq(p, s)) - 1 : p.isOut[j]})
Active(p) == {s \in p.samplers : OutputsOfSeq(p, s) # {}}

\* build_attn, with use_shadow_split_exact: where a prompt's attention divides the cells into a
\* prefix, read from the shadow, and a tail; 0 if it does not.
SplitAt(p) == IF p.split /\ NTokens(p) > 1 /\ p.prev \in 1 .. p.kv - 1 THEN p.prev ELSE 0

\* The tensors' shapes, the views of the cache, the experts and adapters in use, the mask, and
\* the samplers with their rows.
Computes(p) ==
  [gtype |-> p.gtype, input |-> p.input, tokens |-> NTokens(p), outputs |-> p.nOut,
   cache |-> <<p.kv, SplitAt(p), IF p.equal THEN SeqsOf(p.toks) ELSE {}>>,
   experts |-> p.ctx.warmup, causal |-> p.ctx.causal, adapters |-> <<p.ctx.loras, p.ctx.cvec>>,
   pooled |-> IF p.pooled THEN SeqsOf(p.toks) ELSE {},
   rows |-> [s \in p.samplers |-> SamplerRow(p, s)], active |-> Active(p)]
================================================================================
