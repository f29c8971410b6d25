-------------------------------- MODULE Outputs --------------------------------
(***************************************************************************)
(* The output buffers of llama_context (src/llama-context.cpp): one buffer  *)
(* that output_reserve divides into views - logits, embeddings, hidden      *)
(* states before the norm, what the backend samplers chose - into which the *)
(* backends copy rows on their own while decode goes on.  Rows arrive in    *)
(* the order of the ubatches; output_ids and a list of swaps, applied when  *)
(* something is read, give them the order of the user's batch.              *)
(*                                                                          *)
(* What is computed for an ubatch is a graph, built for it or kept from an  *)
(* earlier one (GraphReuse).                                                *)
(*                                                                          *)
(* A row is one unit of the buffer, and its content the call, the view and  *)
(* the token it was computed for.  Tokens of a batch count from 0, as rows  *)
(* do.                                                                      *)
(***************************************************************************)
EXTENDS GraphReuse

CONSTANTS
  Setups,   \* contexts and the batches their clients use
  Seqs,     \* sequence ids
  NBatch,   \* n_batch
  Pad,      \* n_pad_cur of get_n_kv
  Cells     \* cells of a stream of the KV cache

\* seqs: each token's sequences, the first of which is its seq_id[i][0]; out: the tokens
\* with logits[i] # 0; ubatches: the order in which the batch splitter hands them out; input:
\* whether the batch holds tokens or embeddings.
BatchOK(b) ==
  /\ b.seqs \in Seq(Seq(Seqs) \ {<<>>}) /\ Len(b.seqs) \in 1 .. NBatch
  /\ b.out \subseteq 0 .. Len(b.seqs) - 1
  /\ b.ubatches \in Seq(Seq(0 .. Len(b.seqs) - 1) \ {<<>>})
  /\ LET order == FlattenSeq(b.ubatches)
     IN Range(order) = 0 .. Len(b.seqs) - 1 /\ Len(order) = Len(b.seqs)

\* A context: which embeddings it keeps, for which sequences the client attaches samplers,
\* what else it sets, what may fail, whether the client goes on before it has read what it got,
\* whether the cache has one stream, whether prompts read it in two parts, which schedulers
\* prompts have besides the main one, and, as a bound, how many calls it makes.
Failures == {"refuse", "reserve", "compute", "alloc", "encode"}
Knobs == {"embeddings", "causal", "warmup", "loras", "cvec", "shift", "clear"}
ASSUME SetupsAssumption ==
  /\ NBatch \in Nat \ {0} /\ IsFiniteSet(Seqs) /\ 0 \in Seqs
  /\ Pad \in Nat \ {0} /\ Cells \in Nat \ {0}
  /\ \A s \in Setups :
       /\ s.embd \in {"none", "tokens", "pooled"} /\ s.preNorm \in {"none", "masked", "unmasked"}
       /\ s.samplers \subseteq Seqs /\ s.fails \subseteq Failures
       /\ s.eager \in BOOLEAN /\ s.calls \in Nat
       /\ s.knobs \subseteq Knobs /\ s.unified \in BOOLEAN /\ s.split \in BOOLEAN
       /\ s.scheds \subseteq {"prompt", "wave"}
       /\ \A b \in s.batches : BatchOK(b) /\ (s.embd # "none" => b.out = 0 .. Len(b.seqs) - 1)
       /\ \A b \in s.encodes : BatchOK(b) /\ b.ubatches = <<[j \in DOMAIN b.seqs |-> j - 1]>>

VARIABLES
  setup,            \* fixed
  buf, gen,         \* buf_output, and how often it was allocated
  views, counts,    \* logits, embd, embd_pre_norm and the views of sampling; probs_count
  ids, nOutputs,    \* output_ids, n_outputs
  swaps, embdSeq,   \* output_swaps, embd_seq
  samplers,         \* sampling.samplers
  reserveDue,       \* sched_need_reserve
  ctx,              \* cparams' embeddings, causal_attn and warmup; the adapters
  used, shiftDue,   \* used_max_p1 of the cache's streams; a K-shift is pending
  results,          \* gf_res_prev, phase_prompt_res and gf_res_wave
  copies,           \* copies the backends have not made yet, in order
  call,             \* the call in progress: batch, ubatch it is at, rows and tokens before it
  calls, last       \* calls so far, and whose outputs there are

buffers == <<buf, gen, views, counts>>
rows == <<ids, nOutputs, swaps>>
memory == <<used, shiftDue>>
graphs == <<ctx, memory, results>>
vars == <<setup, buffers, rows, embdSeq, samplers, reserveDue, graphs, copies, call, calls, last>>

Kinds == <<"logits", "embd", "pre_norm", "probs", "sampled">>
KindSet == Range(Kinds)
Zero == <<0, "zero", 0>>
NoToken == <<0, "no_token", 0>>  \* LLAMA_TOKEN_NULL
Freed == <<0, "freed", 0>>
NoView == [at |-> -1, rows |-> 0]
NoCall == [how |-> "none", batch |-> <<>>, k |-> 0, rows |-> 0, tokens |-> 0]
Idle == call = NoCall

Streams == IF setup.unified THEN {0} ELSE Seqs
Slots == {"main", "prompt", "wave"}
NoResult == [params |-> <<>>, placed |-> FALSE]

\* The embeddings kept at the moment: set_embeddings says whether, the model's pooling which.
Embd == IF ~ctx.embeddings THEN "none" ELSE IF setup.embd = "pooled" THEN "pooled" ELSE "tokens"

(***************************************************************************)
(* output_reserve.                                                          *)
(***************************************************************************)
NSeqMax == Cardinality(Seqs)
RowsMax(n) == IF n > NSeqMax THEN n ELSE NSeqMax

\* How many rows each view gets for n outputs: "unmasked: pre-norm row exists for every token
\* in the batch".
RowsOf(kind, n) ==
  CASE kind = "logits" -> RowsMax(n)
    [] kind = "embd" -> IF Embd = "none" THEN 0 ELSE RowsMax(n)
    [] kind = "pre_norm" ->
         IF setup.preNorm = "none" THEN 0 ELSE IF setup.preNorm = "masked" THEN RowsMax(n) ELSE NBatch
    [] OTHER -> IF samplers = {} THEN 0 ELSE RowsMax(n)

Base(i, n) == MapThenSumSet(LAMBDA j : RowsOf(Kinds[j], n), 1 .. i - 1)

Layout(n) ==
  [kind \in KindSet |->
     IF RowsOf(kind, n) = 0 THEN NoView
     ELSE [at |-> Base(CHOOSE i \in DOMAIN Kinds : Kinds[i] = kind, n), rows |-> RowsOf(kind, n)]]
SizeFor(n) == MapThenSumSet(LAMBDA j : RowsOf(Kinds[j], n), DOMAIN Kinds)
Grows(n) == SizeFor(n) > Cardinality(DOMAIN buf)

NoCounts(n) == [r \in 0 .. RowsOf("probs", n) - 1 |-> 0]

\* Mutant of Dropped: the buffer is replaced while copies into it are under way.
DroppedNever(n, queue) == queue

\* A larger buffer is allocated when the backends have finished with the old one.
Dropped(n, queue) == IF Grows(n) THEN <<>> ELSE queue

\* m is the buffer and queue the copies under way when output_reserve is called.
OutputReserve(n, m, queue) ==
  /\ IF Grows(n)
     THEN gen' = gen + 1 /\ buf' = [a \in 0 .. SizeFor(n) - 1 |->
                                      IF samplers # {} /\ a >= Base(5, n) THEN NoToken ELSE Zero]
     ELSE gen' = gen /\ buf' = [a \in DOMAIN m |->
                                  IF samplers # {} /\ a \in Base(5, n) .. SizeFor(n) - 1 THEN NoToken
                                  ELSE m[a]]
  /\ copies' = Dropped(n, queue)
  /\ views' = Layout(n) /\ counts' = NoCounts(n)

\* The old buffer is gone; the views of the samplers still point into it.
OutputReserveFails(n) ==
  /\ Grows(n)
  /\ gen' = gen + 1 /\ buf' = <<>> /\ copies' = <<>>
  /\ views' = [kind \in KindSet |-> IF kind \in {"probs", "sampled"} THEN views[kind] ELSE NoView]

\* A scheduler for prompts is reserved with the graph of an ubatch as large as can be, for a full
\* cache: its result keeps that graph, which has no memory.  (n_ubatch is n_batch.)
ReservedToks == [j \in 1 .. NSeqMax * (NBatch \div NSeqMax) |-> <<(j - 1) % NSeqMax>>]
ReservedParams ==
  Params("decoder", ReservedToks, [j \in DOMAIN ReservedToks |-> j <= NSeqMax], NBatch, "token",
         ctx, samplers,
         [unified |-> FALSE, pooled |-> Embd = "pooled", kv |-> Cells, prev |-> 0, split |-> setup.split])
ReservedResults ==
  [r \in Slots |->
     IF r \in setup.scheds THEN [params |-> ReservedParams, placed |-> FALSE] ELSE NoResult]

InitialSetup(s) ==
  /\ setup = s
  /\ samplers \in {{}, s.samplers}
  /\ ctx = [embeddings |-> s.embd # "none", causal |-> TRUE, warmup |-> FALSE,
            loras |-> 0, lorasAt |-> 0, cvec |-> 0]
  /\ used = [t \in Streams |-> 0]
  /\ buf = [a \in 0 .. SizeFor(NSeqMax) - 1 |-> Zero]
  /\ views = Layout(NSeqMax) /\ counts = NoCounts(NSeqMax)

\* The constructor reserves rows for one output of every sequence.
Init ==
  /\ \E s \in Setups : InitialSetup(s)
  /\ gen = 1
  /\ ids = [i \in 0 .. NBatch - 1 |-> -1] /\ nOutputs = 0 /\ swaps = <<>>
  /\ embdSeq = [s \in Seqs |-> Zero]
  /\ reserveDue = FALSE /\ shiftDue = FALSE
  /\ results = ReservedResults
  /\ copies = <<>>
  /\ call = NoCall /\ calls = 0
  /\ last = [call |-> 0, how |-> "none", batch |-> <<>>, ok |-> TRUE, samplers |-> {}, embd |-> Embd]

(***************************************************************************)
(* Copies of the backends (ggml_backend_tensor_get_async).                  *)
(***************************************************************************)
Landed(m, queue) ==
  FoldLeft(LAMBDA acc, c : [a \in DOMAIN acc |-> IF a = c.at THEN c.val ELSE acc[a]], m, queue)
Copies(kind, row, vals) ==
  [j \in DOMAIN vals |-> [gen |-> gen, at |-> views[kind].at + row + j - 1, val |-> vals[j]]]
Content(kind, toks) == [j \in DOMAIN toks |-> <<calls, kind, toks[j]>>]

Perform ==
  /\ copies # <<>>
  /\ buf' = Landed(buf, <<Head(copies)>>)
  /\ copies' = Tail(copies)
  /\ UNCHANGED <<setup, gen, views, counts, rows, embdSeq, samplers, reserveDue, graphs, call, calls, last>>

(***************************************************************************)
(* decode.                                                                  *)
(***************************************************************************)

\* Mutant of NoIds: the rows of the call before are not forgotten.
NoIdsKept == ids

\* "set all ids as invalid (negative)"
NoIds == [i \in DOMAIN ids |-> -1]

\* Mutant of NoPooled: "this clear of the buffer can easily be forgotten".
NoPooledKept == embdSeq

NoPooled == [s \in Seqs |-> Zero]

\* A client that is not eager reads a batch whose rows are out of order before it goes on,
\* and what its samplers chose.
MayCall == Idle /\ (setup.eager \/ (swaps = <<>> /\ (samplers # {} => copies = <<>>)))

\* "backend sampling requires at most one output token per sequence"
OutputsOf(b, s) == {i \in b.out : s \in Range(b.seqs[i + 1])}
SamplersAllow(b) == samplers # {} => \A s \in Seqs : Cardinality(OutputsOf(b, s)) <= 1

\* What else decode demands of a batch: with embeddings "all tokens are output", and
\* "non-causal attention requires n_ubatch >= n_tokens".
BatchAllowed(b) ==
  /\ SamplersAllow(b)
  /\ ctx.embeddings => b.out = 0 .. Len(b.seqs) - 1
  /\ ctx.causal \/ Len(b.ubatches) = 1

\* The tokens of each stream among toks, and whether they fit into the cache.
InStream(toks, s) ==
  Cardinality({j \in DOMAIN toks : s \in StreamsOf(<<toks[j]>>, setup.unified)})
Fits(b) == \A s \in Streams : used[s] + InStream(b.seqs, s) <= Cells

\* sched_reserve and, in decode, memory_update: schedulers are made anew or reserved again, for
\* which the host waits for the backends, and the graphs that were placed by them are forgotten.
SchedReserved(due) ==
  /\ reserveDue' = FALSE
  /\ results' = IF reserveDue THEN ReservedResults
                ELSE IF due THEN [results EXCEPT !["main"] = NoResult] ELSE results
Before(due) == IF reserveDue \/ due THEN <<Landed(buf, copies), <<>>>> ELSE <<buf, copies>>

\* The batch gets no room in the memory: what was cleared before stays so.
DecodeRefused(b) ==
  /\ MayCall /\ BatchAllowed(b) /\ "refuse" \in setup.fails
  /\ embdSeq' = NoPooled /\ swaps' = <<>>
  /\ buf' = Before(shiftDue)[1] /\ copies' = Before(shiftDue)[2]
  /\ SchedReserved(shiftDue) /\ shiftDue' = FALSE
  /\ UNCHANGED <<setup, gen, views, counts, ids, nOutputs, samplers, ctx, used, call, calls, last>>

Begun(how, b, ok) ==
  last' = [call |-> calls', how |-> how, batch |-> b, ok |-> ok, samplers |-> samplers, embd |-> Embd]

DecodeBegins(b) ==
  /\ MayCall /\ BatchAllowed(b) /\ Fits(b) /\ calls < setup.calls
  /\ embdSeq' = NoPooled /\ swaps' = <<>>
  /\ SchedReserved(shiftDue) /\ shiftDue' = FALSE
  /\ calls' = calls + 1
  /\ Begun("decode", b, FALSE)
  /\ \/ /\ OutputReserve(Cardinality(b.out), Before(shiftDue)[1], Before(shiftDue)[2])
        /\ ids' = NoIds /\ nOutputs' = 0
        /\ call' = [NoCall EXCEPT !.how = "decode", !.batch = b, !.k = 1]
     \/ /\ "reserve" \in setup.fails
        /\ OutputReserveFails(Cardinality(b.out))
        /\ UNCHANGED <<counts, ids, nOutputs, call>>
  /\ UNCHANGED <<setup, samplers, ctx, used>>

B == call.batch
Ubatch == B.ubatches[call.k]
Outs == SelectSeq(Ubatch, LAMBDA i : i \in B.out)
InUbatch == call.how = "decode" /\ call.k <= Len(B.ubatches)
FirstSeq(b, i) == b.seqs[i + 1][1]

\* process_ubatch_with_sched: the scheduler of the ubatch, and the parameters of its graph, for
\* which the memory has taken in the ubatch's tokens.
Sched ==
  IF Len(Ubatch) = 1 THEN "main"
  ELSE IF "wave" \in setup.scheds /\ call.k % 2 = 0 THEN "wave"
  ELSE IF "prompt" \in setup.scheds THEN "prompt" ELSE "main"

UbatchToks == [j \in DOMAIN Ubatch |-> B.seqs[Ubatch[j] + 1]]
Applied == [s \in Streams |-> used[s] + InStream(UbatchToks, s)]
UbatchParams ==
  Params("decoder", UbatchToks, [j \in DOMAIN Ubatch |-> Ubatch[j] \in B.out], Len(Outs), B.input,
         ctx, samplers,
         [unified |-> setup.unified, pooled |-> Embd = "pooled", split |-> setup.split,
          prev |-> KvOf(used, StreamsOf(UbatchToks, setup.unified), Pad, Cells),
          kv |-> KvOf(Applied, StreamsOf(UbatchToks, setup.unified), Pad, Cells)])

Reuses == results[Sched] # NoResult /\ CanReuse(results[Sched].params, UbatchParams)
Prepared == IF Reuses THEN results[Sched] ELSE [params |-> UbatchParams, placed |-> TRUE]
Graph == Prepared.params

\* needs_raw_logits
NeedsRawLogits(outs) ==
  \E j \in DOMAIN outs : \E s \in Range(B.seqs[outs[j] + 1]) : s \notin samplers

\* Mutant of SeqToRow: the rows of earlier ubatches are not counted.
SeqToRowLocal(s) ==
  LET own == {j \in DOMAIN Outs : FirstSeq(B, Outs[j]) = s}
  IN IF own = {} THEN -1 ELSE Max(own) - 1

\* build_seq_to_output_row: the last output of the sequence in this ubatch.
SeqToRow(s) ==
  LET own == {j \in DOMAIN Outs : FirstSeq(B, Outs[j]) = s}
  IN IF own = {} THEN -1 ELSE call.rows + Max(own) - 1

\* The samplers in the graph that have a row here, and the token whose logits they are given:
\* the rows were fixed when the graph was built.
Sampled == {s \in Graph.samplers : SeqToRow(s) >= 0}
SampledToken(s) == LET r == SamplerRow(Graph, s) + 1 IN IF r \in DOMAIN Outs THEN Outs[r] ELSE -1

LogitsCopied ==
  IF views["logits"] # NoView /\ Outs # <<>> /\ NeedsRawLogits(Outs)
  THEN Copies("logits", call.rows, Content("logits", Outs)) ELSE <<>>

EmbdCopied ==
  IF Embd = "tokens" /\ views["embd"] # NoView /\ Outs # <<>>
  THEN Copies("embd", call.rows, Content("embd", Outs)) ELSE <<>>

PreNormCopied ==
  LET masked == setup.preNorm = "masked"
      toks == IF masked THEN Outs ELSE Ubatch
  IN IF views["pre_norm"] # NoView /\ setup.embd # "pooled"
     THEN Copies("pre_norm", IF masked THEN call.rows ELSE call.tokens, Content("pre_norm", toks))
     ELSE <<>>

SampledCopied ==
  LET of(s, kind) == Copies(kind, SeqToRow(s), Content(kind, <<SampledToken(s)>>))
  IN FlattenSeq([j \in 1 .. Cardinality(Sampled) |->
       LET s == SetToSeq(Sampled)[j] IN of(s, "sampled") \o of(s, "probs")])

\* An ubatch is computed and its rows are on their way.
ComputeUbatch ==
  /\ InUbatch
  /\ nOutputs' = Len(Outs)
  /\ results' = [results EXCEPT ![Sched] = Prepared]
  /\ used' = Applied
  /\ copies' = copies \o LogitsCopied \o EmbdCopied \o PreNormCopied \o SampledCopied
  /\ counts' = [r \in DOMAIN counts |-> IF \E s \in Sampled : SeqToRow(s) = r THEN 1 ELSE counts[r]]
  /\ embdSeq' = [s \in Seqs |->
       IF Embd = "pooled" /\ Range(Ubatch) \cap B.out # {} /\ \E i \in Range(Ubatch) : s \in Range(B.seqs[i + 1])
       THEN <<calls, "pooled", call.k>> ELSE embdSeq[s]]
  /\ call' = [call EXCEPT !.k = @ + 1, !.rows = @ + Len(Outs), !.tokens = @ + Len(Ubatch)]
  /\ UNCHANGED <<setup, buf, gen, views, ids, swaps, samplers, reserveDue, ctx, shiftDue, calls, last>>

\* The ubatch fails or is aborted, or its graph finds no room; decode takes its tokens out of the
\* memory again - one of several sequences may stay for the others - and returns.
UbatchFails(result) ==
  /\ InUbatch
  /\ nOutputs' = Len(Outs)
  /\ results' = [results EXCEPT ![Sched] = result]
  /\ \E kept \in {{}, {j \in DOMAIN Ubatch : Len(UbatchToks[j]) > 1}} :
       used' = [s \in Streams |-> used[s] + InStream(SubSeq(UbatchToks, 1, Max(kept \cup {0})), s)]
  /\ call' = NoCall
  /\ UNCHANGED <<setup, buffers, ids, swaps, embdSeq, samplers, reserveDue, ctx, shiftDue, copies,
                 calls, last>>
ComputeFails == "compute" \in setup.fails /\ UbatchFails(Prepared)
AllocFails ==
  InUbatch /\ "alloc" \in setup.fails /\ ~Reuses /\ UbatchFails([Prepared EXCEPT !.placed = FALSE])

OutIds == SelectSeq(FlattenSeq(B.ubatches), LAMBDA i : i \in B.out)

Swapped(f, i, j) == [f EXCEPT ![i] = f[j], ![j] = f[i]]

\* "selection sort, to minimize swaps"
SelectionSort(out) ==
  LET n == Len(out)
      sort[i \in 0 .. n] ==
        IF i = 0 THEN [out |-> out, swaps |-> <<>>]
        ELSE LET before == sort[i - 1]
                 least == CHOOSE j \in i .. n : \A k \in i .. n : before.out[j] <= before.out[k]
             IN IF least = i THEN before
                ELSE [out |-> Swapped(before.out, i, least),
                      swaps |-> Append(before.swaps, <<i - 1, least - 1>>)]
  IN sort[n]

\* The rows get the order of the batch: the swaps are remembered.
Finish ==
  /\ call.how = "decode" /\ call.k > Len(B.ubatches)
  /\ LET sorted == SelectionSort(OutIds)
     IN /\ nOutputs' = Cardinality(B.out)
        /\ ids' = [i \in DOMAIN ids |->
             IF i \in B.out THEN (CHOOSE j \in DOMAIN sorted.out : sorted.out[j] = i) - 1 ELSE ids[i]]
        /\ swaps' = sorted.swaps
  /\ call' = NoCall
  /\ last' = [last EXCEPT !.ok = TRUE]
  /\ UNCHANGED <<setup, buffers, embdSeq, samplers, reserveDue, graphs, copies, calls>>

(***************************************************************************)
(* encode: every token is an output, and all are computed at once.          *)
(***************************************************************************)
EncodeBegins(b) ==
  /\ MayCall /\ calls < setup.calls
  /\ embdSeq' = NoPooled
  /\ SchedReserved(FALSE)
  /\ calls' = calls + 1
  /\ Begun("encode", b, FALSE)
  /\ \/ /\ OutputReserve(Len(b.seqs), Before(FALSE)[1], Before(FALSE)[2])
        /\ ids' = [i \in DOMAIN ids |-> IF i < Len(b.seqs) THEN i ELSE -1]
        /\ nOutputs' = Len(b.seqs)
        /\ call' = [NoCall EXCEPT !.how = "encode", !.batch = b, !.k = 1]
     \/ /\ "reserve" \in setup.fails
        /\ OutputReserveFails(Len(b.seqs))
        /\ UNCHANGED <<counts, ids, nOutputs, call>>
  /\ UNCHANGED <<setup, swaps, samplers, ctx, memory>>

\* "always use non-causal attention for encoder graphs", which have no cache.
EncoderGraph ==
  [placed |-> TRUE,
   params |-> Params("encoder", B.seqs, [j \in DOMAIN B.seqs |-> TRUE], Len(B.seqs), B.input,
                     [ctx EXCEPT !.causal = FALSE], samplers,
                     [unified |-> TRUE, pooled |-> Embd = "pooled", kv |-> 0, prev |-> 0, split |-> FALSE])]

\* The encoder's graph has embeddings and no logits.
EncodeComputes ==
  /\ call.how = "encode"
  /\ results' = [results EXCEPT !["main"] = EncoderGraph]
  /\ copies' = copies
       \o (IF Embd = "tokens" THEN Copies("embd", 0, Content("embd", Ubatch)) ELSE <<>>)
       \o (IF setup.preNorm # "none" /\ setup.embd # "pooled"
           THEN Copies("pre_norm", 0, Content("pre_norm", Ubatch)) ELSE <<>>)
  /\ embdSeq' = [s \in Seqs |->
       IF Embd = "pooled" /\ \E i \in Range(Ubatch) : s \in Range(B.seqs[i + 1])
       THEN <<calls, "pooled", 1>> ELSE embdSeq[s]]
  /\ call' = NoCall
  /\ last' = [last EXCEPT !.ok = TRUE]
  /\ UNCHANGED <<setup, buffers, rows, samplers, reserveDue, ctx, memory, calls>>

EncodeFails ==
  /\ call.how = "encode" /\ "encode" \in setup.fails
  /\ results' = [results EXCEPT !["main"] = EncoderGraph]
  /\ call' = NoCall
  /\ UNCHANGED <<setup, buffers, rows, embdSeq, samplers, reserveDue, ctx, memory, copies, calls, last>>

(***************************************************************************)
(* What the client sees: every getter of llama.h waits for the backends and  *)
(* puts the rows in order first.                                            *)
(***************************************************************************)
SwapAt(v, s) ==
  LET i == v.at + s[1]
      j == v.at + s[2]
  IN [a \in DOMAIN buf |-> IF a = i THEN j ELSE IF a = j THEN i ELSE a]
SwapRows(m, s) ==
  FoldLeft(LAMBDA acc, kind :
             IF views[kind] = NoView \/ (kind \in {"probs", "sampled"} /\ samplers = {}) THEN acc
             ELSE [a \in DOMAIN acc |-> acc[SwapAt(views[kind], s)[a]]],
           m, Kinds)

\* output_reorder
Reordered ==
  <<FoldLeft(SwapRows, Landed(buf, copies), swaps),
    FoldLeft(LAMBDA c, s : IF samplers = {} THEN c ELSE Swapped(c, s[1], s[2]), counts, swaps)>>

Read ==
  /\ Idle
  /\ buf' = Reordered[1] /\ counts' = Reordered[2]
  /\ copies' = <<>> /\ swaps' = <<>>
  /\ UNCHANGED <<setup, gen, views, ids, nOutputs, embdSeq, samplers, reserveDue, graphs, call, calls, last>>

\* set_sampler, attaching or detaching.
SetSampler(s) ==
  /\ MayCall
  /\ samplers' = IF s \in samplers THEN samplers \ {s} ELSE samplers \cup {s}
  /\ reserveDue' = TRUE
  /\ UNCHANGED <<setup, buffers, rows, embdSeq, graphs, copies, call, calls, last>>

\* set_embeddings, set_causal_attn and set_warmup, which "are usually with small batches, so no
\* need to reserve".
SetContext(knob) ==
  /\ MayCall /\ knob \in setup.knobs
  /\ \/ knob = "embeddings" /\ ctx' = [ctx EXCEPT !.embeddings = ~@]
     \/ knob = "causal" /\ ctx' = [ctx EXCEPT !.causal = ~@]
     \/ knob = "warmup" /\ ctx' = [ctx EXCEPT !.warmup = ~@]
  /\ reserveDue' = (reserveDue \/ knob = "causal")
  /\ UNCHANGED <<setup, buffers, rows, embdSeq, samplers, memory, results, copies, call, calls, last>>

\* set_adapters_lora, whose new set is allocated before the old one is freed and so may be where
\* an earlier one was; set_adapter_cvec.
SetAdapters(knob) ==
  /\ MayCall /\ knob \in setup.knobs
  /\ \/ /\ knob = "loras"
        /\ \E l \in 0 .. 2 \ {ctx.loras} : ctx' = [ctx EXCEPT !.loras = l, !.lorasAt = 1 - @]
     \/ knob = "cvec" /\ ctx' = [ctx EXCEPT !.cvec = 1 - @]
  /\ reserveDue' = TRUE
  /\ UNCHANGED <<setup, buffers, rows, embdSeq, samplers, memory, results, copies, call, calls, last>>

\* The memory between two calls: a shift of positions, or everything removed.
SetMemory(knob) ==
  /\ MayCall /\ knob \in setup.knobs
  /\ \/ knob = "shift" /\ shiftDue' = TRUE /\ used' = used
     \/ knob = "clear" /\ shiftDue' = FALSE /\ used' = [s \in Streams |-> 0]
  /\ UNCHANGED <<setup, buffers, rows, embdSeq, samplers, reserveDue, ctx, results, copies, call,
                 calls, last>>

\* output_resolve_row; -1 for the ids it throws at.
ResolveRow(i) ==
  LET j == IF i < 0 THEN nOutputs + i ELSE IF i \in DOMAIN ids THEN ids[i] ELSE -1
  IN IF j >= nOutputs THEN -1 ELSE j

\* get_..._ith.
Get(kind, i) ==
  LET v == views[kind]
      j == IF kind = "pre_norm" /\ setup.preNorm = "unmasked" THEN IF i < v.rows THEN i ELSE -1
           ELSE ResolveRow(i)
  IN IF v = NoView \/ j < 0 \/ (kind = "probs" /\ Reordered[2][j] = 0) THEN Zero
     ELSE IF v.at + j \in DOMAIN buf THEN Reordered[1][v.at + j] ELSE Freed

Client ==
  \/ \E b \in setup.batches : DecodeRefused(b) \/ DecodeBegins(b)
  \/ \E b \in setup.encodes : EncodeBegins(b)
  \/ Read
  \/ \E s \in setup.samplers : SetSampler(s)
  \/ \E knob \in Knobs : SetContext(knob) \/ SetAdapters(knob) \/ SetMemory(knob)
Host == ComputeUbatch \/ ComputeFails \/ AllocFails \/ Finish \/ EncodeComputes \/ EncodeFails
Next == Client \/ Host \/ Perform

Spec == Init /\ [][Next]_vars

(***************************************************************************)
(* Properties.                                                              *)
(***************************************************************************)
\* Copies that are under way go into the buffer that is there, each into a row of its own of
\* the view it belongs to: a relocated buffer, or one with other views, is never written by a
\* late copy where that would be seen.
CopiesFit ==
  \A j \in DOMAIN copies :
    LET c == copies[j]
        v == views[c.val[2]]
    IN /\ c.gen = gen /\ c.at \in DOMAIN buf
       /\ c.val[1] = calls =>
            /\ v.at <= c.at /\ c.at < v.at + v.rows
            /\ \A k \in 1 .. j - 1 : copies[k].val[1] = calls => copies[k].at # c.at

Done(how) == Idle /\ last.ok /\ last.how = how
Own(kind, i) == <<last.call, kind, i>>
Tokens == 0 .. Len(last.batch.seqs) - 1
HasRaw(i) == \E s \in Range(last.batch.seqs[i + 1]) : s \notin last.samplers
HasSampler(i) == FirstSeq(last.batch, i) \in last.samplers

\* What a getter returns for token i after a decode is what was computed for token i of that
\* batch, in whatever order the ubatches ran and the copies arrived: logits where a sequence of
\* the token has no sampler of its own, else what the sampler chose, and embeddings and hidden
\* states where the context keeps them.
DecodedRows ==
  Done("decode") =>
    /\ \A i \in last.batch.out :
         /\ HasRaw(i) => Get("logits", i) = Own("logits", i)
         /\ HasSampler(i) => Get("sampled", i) = Own("sampled", i) /\ Get("probs", i) = Own("probs", i)
         /\ ~HasSampler(i) => Get("sampled", i) \in {Zero, NoToken} /\ Get("probs", i) = Zero
         /\ last.embd = "tokens" => Get("embd", i) = Own("embd", i)
         /\ setup.preNorm = "masked" => Get("pre_norm", i) = Own("pre_norm", i)
    /\ setup.preNorm = "unmasked" => \A i \in Tokens : Get("pre_norm", i) = Own("pre_norm", i)

\* The logits are "stored contiguously in the order they have appeared in the batch", and
\* "negative indices can be used to access logits in reverse order".
LogitsInOrder ==
  Done("decode") =>
    LET order == SetToSortSeq(last.batch.out, <)
        n == Len(order)
    IN \A r \in 1 .. n :
         HasRaw(order[r]) =>
           /\ Reordered[1][views["logits"].at + r - 1] = Own("logits", order[r])
           /\ Get("logits", r - 1 - n) = Own("logits", order[r])

\* The encoder's rows are in the order of the batch, whatever was decoded before.
EncodedRows ==
  Done("encode") =>
    \A i \in Tokens :
      /\ last.embd = "tokens" => Get("embd", i) = Own("embd", i)
      /\ setup.preNorm # "none" => Get("pre_norm", i) = Own("pre_norm", i)

\* The row that a getter returns is the row of the token it was asked for.
RowsOfTheirTokens == DecodedRows /\ LogitsInOrder /\ EncodedRows

\* "returns NULL for invalid ids": for tokens that were no outputs, and after a decode that
\* failed half-way, nothing is returned, least of all a row of another token or another call.
\* (An encode that fails leaves its ids and count behind: llama_context::encode, 1968.)
NothingElseReadable ==
  Idle /\ last.how = "decode" =>
    \A i \in 0 .. NBatch - 1 : \A kind \in KindSet \ {"pre_norm"} :
      ~last.ok \/ i \notin last.batch.out => Get(kind, i) \in {Zero, NoToken}

\* A sequence's pooled embedding is that of its last ubatch in the call whose outputs there
\* are, and none is left from an earlier call.
UbatchesOf(s) ==
  {k \in DOMAIN last.batch.ubatches :
     \E i \in Range(last.batch.ubatches[k]) : s \in Range(last.batch.seqs[i + 1])}
PooledOfLastUbatch ==
  \A s \in Seqs :
    /\ embdSeq[s] # Zero => embdSeq[s][1] = calls
    /\ Idle /\ last.ok /\ last.how # "none" /\ last.embd = "pooled" /\ embdSeq # [r \in Seqs |-> Zero] =>
         embdSeq[s] = IF UbatchesOf(s) = {} THEN Zero ELSE <<last.call, "pooled", Max(UbatchesOf(s))>>

\* The graph that is run for an ubatch, built for it or kept from an earlier one, computes what
\* a graph built for this very ubatch would: "in order to correctly reuse a graph, it's full
\* topology has to be uniquely determined by these parameters" (llama-context.cpp:1769).
ReusedAsBuilt ==
  InUbatch => Prepared.placed /\ Computes(Graph) = Computes(UbatchParams)
================================================================================
