---------------------------- MODULE OutputsProofs ----------------------------
(***************************************************************************)
(* Proofs about Outputs: a graph that is run again computes what a new one  *)
(* would.                                                                   *)
(***************************************************************************)
EXTENDS Outputs, SequenceTheorems, TLAPS

(***************************************************************************)
(* The parameters of two graphs.                                            *)
(***************************************************************************)
\* What allow_reuse does not look at: something else has to keep it from differing.
SameElse(old, new) ==
  /\ old.ctx.warmup = new.ctx.warmup
  /\ old.ctx.loras = new.ctx.loras /\ old.ctx.cvec = new.ctx.cvec
  /\ old.pooled = new.pooled
  /\ ~old.split /\ ~new.split

IsUbatch(p) == p.toks \in Seq(Seq(Seqs))

\* A sampler works on the same row of two ubatches with the same outputs of the same sequences.
LEMMA SamplerRows ==
  ASSUME NEW old, NEW new, IsUbatch(old), IsUbatch(new),
         NTokens(old) = NTokens(new), old.isOut = new.isOut, FirstSeqs(old) = FirstSeqs(new),
         NEW s
  PROVE  /\ OutputsOfSeq(old, s) = OutputsOfSeq(new, s)
         /\ SamplerRow(old, s) = SamplerRow(new, s)
<1>1. DOMAIN old.toks = DOMAIN new.toks
  BY DEF NTokens, IsUbatch
<1>2. \A j \in DOMAIN old.toks : old.toks[j][1] = new.toks[j][1]
  BY <1>1 DEF FirstSeqs
<1>3. OutputsOfSeq(old, s) = OutputsOfSeq(new, s)
  BY <1>1, <1>2 DEF OutputsOfSeq
<1> QED
  BY <1>3 DEF SamplerRow

\* A graph that can_reuse accepts computes what one built for the new parameters would, if
\* nothing else that building it reads has changed.
LEMMA AcceptedComputesSame ==
  ASSUME NEW old, NEW new, IsUbatch(old), IsUbatch(new), CanReuse(old, new), SameElse(old, new)
  PROVE  Computes(old) = Computes(new)
<1> USE DEF CanReuse, AllowReuse
<1>1. old.samplers = new.samplers /\ old.nOut = new.nOut /\ NTokens(old) = NTokens(new)
  OBVIOUS
<1>2. [s \in old.samplers |-> SamplerRow(old, s)] = [s \in new.samplers |-> SamplerRow(new, s)]
  <2>1. CASE old.samplers = {}
    BY <1>1, <2>1
  <2>2. CASE old.samplers # {}
    <3>1. \A s : SamplerRow(old, s) = SamplerRow(new, s)
      BY <1>1, <2>2, SamplerRows
    <3> QED
      BY <1>1, <3>1
  <2> QED
    BY <2>1, <2>2
<1>3. Active(old) = Active(new)
  <2>1. CASE old.samplers = {}
    BY <1>1, <2>1 DEF Active
  <2>2. CASE old.samplers # {}
    <3>1. \A s : OutputsOfSeq(old, s) = OutputsOfSeq(new, s)
      BY <1>1, <2>2, SamplerRows
    <3> QED
      BY <1>1, <3>1 DEF Active
  <2> QED
    BY <2>1, <2>2
<1>4. <<old.kv, SplitAt(old), IF old.equal THEN SeqsOf(old.toks) ELSE {}>>
        = <<new.kv, SplitAt(new), IF new.equal THEN SeqsOf(new.toks) ELSE {}>>
  <2>1. old.kv = new.kv
    BY DEF InputsReusable, MaskShape
  <2>2. SplitAt(old) = 0 /\ SplitAt(new) = 0
    BY DEF SameElse, SplitAt
  <2> QED
    BY <2>1, <2>2
<1>5. (IF old.pooled THEN SeqsOf(old.toks) ELSE {}) = (IF new.pooled THEN SeqsOf(new.toks) ELSE {})
  BY DEF SameElse, InputsReusable
<1>6. <<old.ctx.loras, old.ctx.cvec>> = <<new.ctx.loras, new.ctx.cvec>>
  BY DEF SameElse
<1>7. old.gtype = new.gtype /\ old.input = new.input /\ old.ctx.causal = new.ctx.causal
  OBVIOUS
<1>8. old.ctx.warmup = new.ctx.warmup
  BY DEF SameElse
<1> HIDE DEF CanReuse, AllowReuse
<1> QED
  BY <1>1, <1>2, <1>3, <1>4, <1>5, <1>6, <1>7, <1>8 DEF Computes

(***************************************************************************)
(* The call in progress.                                                    *)
(***************************************************************************)
CallOK ==
  \/ call = NoCall
  \/ /\ call.how = "decode" /\ call.batch \in setup.batches
     /\ call.k \in 1 .. Len(call.batch.ubatches) + 1
  \/ /\ call.how = "encode" /\ call.batch \in setup.encodes /\ call.k = 1

CtxType ==
  [embeddings : BOOLEAN, causal : BOOLEAN, warmup : BOOLEAN, loras : Int, lorasAt : Int, cvec : Int]

CallInv ==
  /\ setup \in Setups
  /\ DOMAIN call = {"how", "batch", "k", "rows", "tokens"}
  /\ CallOK
  /\ ~Idle => ~reserveDue
  /\ ctx \in CtxType
  /\ DOMAIN results = Slots

LEMMA BatchesOK ==
  ASSUME CallInv, ~Idle
  PROVE  BatchOK(B)
BY SetupsAssumption DEF CallInv, CallOK, Idle, B

LEMMA CallInvInit == Init => CallInv
<1> SUFFICES ASSUME Init PROVE CallInv
  OBVIOUS
<1>1. PICK s \in Setups : InitialSetup(s)
  BY DEF Init
<1>2. ctx \in CtxType
  BY <1>1 DEF InitialSetup, CtxType
<1>3. DOMAIN results = Slots
  BY DEF Init, ReservedResults
<1> QED
  BY <1>1, <1>2, <1>3 DEF Init, InitialSetup, CallInv, CallOK, NoCall, Idle

LEMMA CallInvStep == CallInv /\ [Next]_vars => CallInv'
<1> SUFFICES ASSUME CallInv, [Next]_vars PROVE CallInv'
  OBVIOUS
<1> USE DEF CallInv, CallOK, Idle, graphs, memory, buffers, rows
<1>1. ASSUME NEW b \in setup.batches, DecodeRefused(b) PROVE CallInv'
  BY <1>1 DEF DecodeRefused, SchedReserved, ReservedResults, MayCall
<1>2. ASSUME NEW b \in setup.batches, DecodeBegins(b) PROVE CallInv'
  <2>1. \/ call' = [how |-> "decode", batch |-> b, k |-> 1, rows |-> 0, tokens |-> 0]
        \/ UNCHANGED call
    BY <1>2 DEF DecodeBegins, NoCall
  <2>2. setup' = setup /\ ctx' = ctx /\ reserveDue' = FALSE /\ DOMAIN results' = Slots
    BY <1>2 DEF DecodeBegins, SchedReserved, ReservedResults
  <2>3. BatchOK(b)
    BY SetupsAssumption
  <2> QED
    BY <1>2, <2>1, <2>2, <2>3 DEF NoCall, BatchOK
<1>3. ASSUME NEW b \in setup.encodes, EncodeBegins(b) PROVE CallInv'
  <2>1. \/ call' = [how |-> "encode", batch |-> b, k |-> 1, rows |-> 0, tokens |-> 0]
        \/ UNCHANGED call
    BY <1>3 DEF EncodeBegins, NoCall
  <2>2. setup' = setup /\ ctx' = ctx /\ reserveDue' = FALSE /\ DOMAIN results' = Slots
    BY <1>3 DEF EncodeBegins, SchedReserved, ReservedResults
  <2> QED
    BY <1>3, <2>1, <2>2 DEF NoCall
<1>4. CASE Read
  BY <1>4 DEF Read
<1>5. ASSUME NEW s \in setup.samplers, SetSampler(s) PROVE CallInv'
  BY <1>5 DEF SetSampler, MayCall
<1>6. ASSUME NEW knob \in Knobs, SetContext(knob) PROVE CallInv'
  BY <1>6 DEF SetContext, MayCall, CtxType
<1>7. ASSUME NEW knob \in Knobs, SetAdapters(knob) PROVE CallInv'
  <2>1. \/ \E l \in 0 .. 2 : ctx' = [ctx EXCEPT !.loras = l, !.lorasAt = 1 - @]
        \/ ctx' = [ctx EXCEPT !.cvec = 1 - @]
    BY <1>7 DEF SetAdapters
  <2>2. ASSUME NEW l \in 0 .. 2, ctx' = [ctx EXCEPT !.loras = l, !.lorasAt = 1 - @]
        PROVE  ctx' \in CtxType
    <3>1. ctx' = [embeddings |-> ctx.embeddings, causal |-> ctx.causal, warmup |-> ctx.warmup,
                  loras |-> l, lorasAt |-> 1 - ctx.lorasAt, cvec |-> ctx.cvec]
      BY <2>2 DEF CtxType
    <3> QED
      BY <3>1 DEF CtxType
  <2>3. ASSUME ctx' = [ctx EXCEPT !.cvec = 1 - @] PROVE ctx' \in CtxType
    BY <2>3 DEF CtxType
  <2> QED
    BY <1>7, <2>1, <2>2, <2>3 DEF SetAdapters, MayCall
<1>8. ASSUME NEW knob \in Knobs, SetMemory(knob) PROVE CallInv'
  BY <1>8 DEF SetMemory
<1>9. CASE ComputeUbatch
  <2>1. call.how = "decode" /\ call.k <= Len(B.ubatches) /\ call # NoCall
    BY <1>9 DEF ComputeUbatch, InUbatch, NoCall
  <2>2. /\ call'.how = "decode" /\ call'.batch = call.batch /\ call'.k = call.k + 1
        /\ DOMAIN call' = DOMAIN call
    BY <1>9, <2>1 DEF ComputeUbatch
  <2>3. call'.k \in 1 .. Len(call.batch.ubatches) + 1
    <3>1. call.k \in 1 .. Len(call.batch.ubatches) + 1
      BY <2>1
    <3>2. call.batch.ubatches \in Seq(Seq(0 .. Len(call.batch.seqs) - 1) \ {<<>>})
      BY <2>1, BatchesOK DEF BatchOK, B
    <3>3. Len(call.batch.ubatches) \in Nat
      BY <3>2
    <3> HIDE DEF CallInv, CallOK
    <3> QED
      BY <2>1, <2>2, <3>1, <3>3 DEF B
  <2>4. UNCHANGED <<setup, reserveDue, ctx>> /\ DOMAIN results' = Slots
    BY <1>9 DEF ComputeUbatch
  <2> QED
    BY <2>1, <2>2, <2>3, <2>4
<1>10. CASE ComputeFails \/ AllocFails
  <2>1. UNCHANGED <<setup, reserveDue, ctx>> /\ DOMAIN results' = Slots /\ call' = NoCall
    BY <1>10 DEF ComputeFails, AllocFails, UbatchFails
  <2> QED
    BY <2>1 DEF NoCall
<1>11. CASE Finish
  BY <1>11 DEF Finish, NoCall
<1>12. CASE EncodeComputes
  BY <1>12 DEF EncodeComputes, NoCall
<1>13. CASE EncodeFails
  BY <1>13 DEF EncodeFails, NoCall
<1>14. CASE Perform
  BY <1>14 DEF Perform
<1>15. CASE UNCHANGED vars
  BY <1>15 DEF vars
<1> HIDE DEF CallInv, CallOK, Idle, graphs, memory, buffers, rows
<1> QED
  BY <1>1, <1>2, <1>3, <1>4, <1>5, <1>6, <1>7, <1>8, <1>9, <1>10, <1>11, <1>12, <1>13, <1>14, <1>15
     DEF Next, Client, Host

(***************************************************************************)
(* Graphs that are kept.                                                    *)
(***************************************************************************)
\* What a kept graph has in common with the context.  Adapters may have changed once everything
\* is to be reserved again.
Kept(r) ==
  /\ r.placed /\ IsUbatch(r.params) /\ ~r.params.split
  /\ r.params.ctx.warmup = ctx.warmup
  /\ ~reserveDue => r.params.ctx.loras = ctx.loras /\ r.params.ctx.cvec = ctx.cvec
  /\ r.params.pooled = (r.params.ctx.embeddings /\ setup.embd = "pooled")

ReuseInv == \A x \in Slots : results[x] = NoResult \/ Kept(results[x])

\* Contexts that are not warmed up, whose graphs always find room, whose prompts read the cache
\* in one part, and that have one scheduler: what happens in others is in the README.
Steady(s) ==
  "warmup" \notin s.knobs /\ "alloc" \notin s.fails /\ ~s.split /\ s.scheds = {}

\* What keeps the reuse sound while nothing is kept anew.
LEMMA KeptStays ==
  ASSUME CallInv, ReuseInv, UNCHANGED <<setup, ctx>>, reserveDue => reserveDue',
         NEW x \in Slots, results'[x] = results[x]
  PROVE  results'[x] = NoResult \/ Kept(results[x])'
BY DEF ReuseInv, Kept

\* The parameters of the ubatch describe an ubatch, and of a context as it is.
LEMMA UbatchParamsOK ==
  ASSUME CallInv, InUbatch
  PROVE  /\ IsUbatch(UbatchParams)
         /\ UbatchParams.ctx = ctx
         /\ UbatchParams.pooled = (ctx.embeddings /\ setup.embd = "pooled")
         /\ UbatchParams.split = setup.split
<1>1. ~Idle
  BY DEF InUbatch, Idle, NoCall
<1>2. BatchOK(B)
  BY <1>1, BatchesOK
<1>3. Ubatch \in Seq(0 .. Len(B.seqs) - 1)
  <2>1. call.k \in 1 .. Len(B.ubatches)
    BY <1>1 DEF CallInv, CallOK, InUbatch, B, Idle
  <2>2. B.ubatches \in Seq(Seq(0 .. Len(B.seqs) - 1) \ {<<>>})
    BY <1>2 DEF BatchOK
  <2>3. B.ubatches[call.k] \in Seq(0 .. Len(B.seqs) - 1) \ {<<>>}
    BY <2>1, <2>2
  <2> QED
    BY <2>3 DEF Ubatch
<1>4. UbatchToks \in Seq(Seq(Seqs))
  <2>1. ASSUME NEW j \in DOMAIN Ubatch PROVE B.seqs[Ubatch[j] + 1] \in Seq(Seqs)
    <3>1. Ubatch[j] + 1 \in 1 .. Len(B.seqs)
      BY <1>2, <1>3 DEF BatchOK
    <3>2. B.seqs \in Seq(Seq(Seqs))
      BY <1>2 DEF BatchOK
    <3> QED
      BY <3>1, <3>2
  <2>2. DOMAIN Ubatch = 1 .. Len(Ubatch) /\ Len(Ubatch) \in Nat
    BY <1>3
  <2>3. UbatchToks \in [1 .. Len(Ubatch) -> Seq(Seqs)]
    BY <2>1, <2>2 DEF UbatchToks
  <2> QED
    BY <2>2, <2>3, SeqDef
<1>5. (Embd = "pooled") = (ctx.embeddings /\ setup.embd = "pooled")
  BY DEF Embd, CallInv, CtxType
<1> QED
  BY <1>4, <1>5 DEF UbatchParams, Params, IsUbatch

LEMMA PreparedKept ==
  ASSUME CallInv, ReuseInv, InUbatch, Steady(setup)
  PROVE  Kept(Prepared)
<1>1. ASSUME Reuses PROVE Kept(Prepared)
  BY <1>1 DEF Reuses, Prepared, ReuseInv, Sched, Slots
<1>2. ASSUME ~Reuses PROVE Kept(Prepared)
  BY <1>2, UbatchParamsOK DEF Prepared, Kept, Steady
<1> QED
  BY <1>1, <1>2

LEMMA EncoderGraphKept ==
  ASSUME CallInv, call.how = "encode"
  PROVE  Kept(EncoderGraph)
<1>1. ~Idle
  BY DEF Idle, NoCall
<1>2. BatchOK(B)
  BY <1>1, BatchesOK
<1>3. B.seqs \in Seq(Seq(Seqs))
  BY <1>2 DEF BatchOK
<1>4. (Embd = "pooled") = (ctx.embeddings /\ setup.embd = "pooled")
  BY DEF Embd, CallInv, CtxType
<1>5. /\ [ctx EXCEPT !.causal = FALSE].embeddings = ctx.embeddings
      /\ [ctx EXCEPT !.causal = FALSE].warmup = ctx.warmup
      /\ [ctx EXCEPT !.causal = FALSE].loras = ctx.loras
      /\ [ctx EXCEPT !.causal = FALSE].cvec = ctx.cvec
  BY DEF CallInv, CtxType
<1> QED
  BY <1>3, <1>4, <1>5 DEF EncoderGraph, Params, Kept, IsUbatch

LEMMA ReuseInvInit == (\A s \in Setups : Steady(s)) /\ Init => ReuseInv
<1> SUFFICES ASSUME \A s \in Setups : Steady(s), Init PROVE ReuseInv
  OBVIOUS
<1>1. PICK s \in Setups : InitialSetup(s)
  BY DEF Init
<1>2. setup.scheds = {}
  BY <1>1 DEF InitialSetup, Steady
<1> QED
  BY <1>2 DEF Init, ReservedResults, ReuseInv

LEMMA ReuseInvStep ==
  ASSUME CallInv, ReuseInv, \A s \in Setups : Steady(s), [Next]_vars
  PROVE  ReuseInv'
<1> USE DEF graphs, memory, buffers, rows
<1>0. Steady(setup)
  BY DEF CallInv
<1>1. ASSUME NEW due, SchedReserved(due), UNCHANGED <<setup, ctx>> PROVE ReuseInv'
  <2>1. CASE reserveDue
    BY <1>0, <1>1, <2>1 DEF SchedReserved, ReservedResults, Steady, ReuseInv
  <2>2. CASE ~reserveDue
    <3>1. \A x \in Slots : results'[x] = NoResult \/ results'[x] = results[x]
      BY <1>1, <2>2 DEF SchedReserved, CallInv
    <3> QED
      BY <1>1, <2>2, <3>1, KeptStays DEF ReuseInv
  <2> QED
    BY <2>1, <2>2
<1>2. ASSUME UNCHANGED <<setup, ctx, results>>, reserveDue => reserveDue' PROVE ReuseInv'
  BY <1>2, KeptStays DEF ReuseInv
<1>3. ASSUME UNCHANGED <<setup, ctx, reserveDue>>, NEW x \in Slots, NEW r, Kept(r),
             results' = [results EXCEPT ![x] = r]
      PROVE  ReuseInv'
  BY <1>3 DEF ReuseInv, Kept, CallInv
<1>4. ASSUME NEW b, DecodeRefused(b) \/ DecodeBegins(b) PROVE ReuseInv'
  <2>1. SchedReserved(shiftDue) /\ UNCHANGED <<setup, ctx>>
    BY <1>4 DEF DecodeRefused, DecodeBegins
  <2> QED
    BY <1>1, <2>1
<1>5. ASSUME NEW b, EncodeBegins(b) PROVE ReuseInv'
  BY <1>1, <1>5 DEF EncodeBegins
<1>6. CASE Read \/ Finish \/ Perform
  BY <1>2, <1>6 DEF Read, Finish, Perform
<1>7. ASSUME NEW s, SetSampler(s) PROVE ReuseInv'
  BY <1>2, <1>7 DEF SetSampler
<1>8. ASSUME NEW knob, SetContext(knob) PROVE ReuseInv'
  <2>1. knob # "warmup"
    BY <1>0, <1>8 DEF SetContext, Steady
  <2>2. /\ ctx'.warmup = ctx.warmup /\ ctx'.loras = ctx.loras /\ ctx'.cvec = ctx.cvec
        /\ UNCHANGED <<setup, results>> /\ (reserveDue => reserveDue')
    BY <1>8, <2>1 DEF SetContext, CallInv, CtxType
  <2> QED
    BY <2>2 DEF ReuseInv, Kept
<1>9. ASSUME NEW knob, SetAdapters(knob) PROVE ReuseInv'
  <2>1. \/ \E l : ctx' = [ctx EXCEPT !.loras = l, !.lorasAt = 1 - @]
        \/ ctx' = [ctx EXCEPT !.cvec = 1 - @]
    BY <1>9 DEF SetAdapters
  <2>2. ctx'.warmup = ctx.warmup
    BY <2>1 DEF CallInv, CtxType
  <2>3. reserveDue' /\ UNCHANGED <<setup, results>>
    BY <1>9 DEF SetAdapters
  <2> QED
    BY <2>2, <2>3 DEF ReuseInv, Kept
<1>10. ASSUME NEW knob, SetMemory(knob) PROVE ReuseInv'
  BY <1>2, <1>10 DEF SetMemory
<1>11. CASE ComputeUbatch
  <2>1. InUbatch /\ results' = [results EXCEPT ![Sched] = Prepared]
    BY <1>11 DEF ComputeUbatch
  <2> QED
    BY <1>0, <1>3, <1>11, <2>1, PreparedKept DEF ComputeUbatch, Sched, Slots
<1>12. CASE ComputeFails
  <2>1. InUbatch /\ results' = [results EXCEPT ![Sched] = Prepared]
    BY <1>12 DEF ComputeFails, UbatchFails
  <2> QED
    BY <1>0, <1>3, <1>12, <2>1, PreparedKept DEF ComputeFails, UbatchFails, Sched, Slots
<1>13. ~AllocFails
  BY <1>0 DEF AllocFails, Steady
<1>14. CASE EncodeComputes \/ EncodeFails
  <2>1. call.how = "encode" /\ results' = [results EXCEPT !["main"] = EncoderGraph]
    BY <1>14 DEF EncodeComputes, EncodeFails
  <2> QED
    BY <1>3, <1>14, <2>1, EncoderGraphKept DEF EncodeComputes, EncodeFails, Slots
<1>15. CASE UNCHANGED vars
  BY <1>2, <1>15 DEF vars
<1> QED
  BY <1>4, <1>5, <1>6, <1>7, <1>8, <1>9, <1>10, <1>11, <1>12, <1>13, <1>14, <1>15
     DEF Next, Client, Host

\* The graph that is run for an ubatch computes what one built for that ubatch would, whatever
\* batches came before, whichever of them failed, and whatever adapters, attention, samplers,
\* embeddings and memory the client changed in between (llm_graph_result::can_reuse).
THEOREM ReuseSound ==
  ASSUME \A s \in Setups : Steady(s)
  PROVE  Spec => []ReusedAsBuilt
<1>1. Init => CallInv /\ ReuseInv
  BY CallInvInit, ReuseInvInit
<1>2. CallInv /\ ReuseInv /\ [Next]_vars => CallInv' /\ ReuseInv'
  BY CallInvStep, ReuseInvStep
<1>3. CallInv /\ ReuseInv => ReusedAsBuilt
  <2> SUFFICES ASSUME CallInv, ReuseInv, InUbatch
               PROVE  Prepared.placed /\ Computes(Graph) = Computes(UbatchParams)
    BY DEF ReusedAsBuilt
  <2>1. Kept(Prepared)
    BY PreparedKept DEF CallInv
  <2>2. CASE Reuses
    <3>1. ~reserveDue
      BY DEF CallInv, InUbatch, Idle, NoCall
    <3>2. CanReuse(Graph, UbatchParams)
      BY <2>2 DEF Reuses, Graph, Prepared
    <3>3. Graph.ctx.embeddings = UbatchParams.ctx.embeddings
      BY <3>2 DEF CanReuse, AllowReuse
    <3>4. SameElse(Graph, UbatchParams)
      BY <2>1, <3>1, <3>3, UbatchParamsOK DEF SameElse, Kept, Graph, CallInv, Steady
    <3>5. IsUbatch(Graph)
      BY <2>1 DEF Kept, Graph
    <3> QED
      BY <2>1, <3>2, <3>4, <3>5, UbatchParamsOK, AcceptedComputesSame DEF Kept
  <2>3. CASE ~Reuses
    BY <2>3 DEF Prepared, Graph
  <2> QED
    BY <2>2, <2>3
<1> QED
  BY <1>1, <1>2, <1>3, PTL DEF Spec

(***************************************************************************)
(* The call in progress is the last one.                                    *)
(***************************************************************************)
LastInv ==
  /\ DOMAIN last = {"call", "how", "batch", "ok", "samplers", "embd"}
  /\ last.how # "none" => last.call = calls
  /\ ~Idle => /\ last.how = call.how /\ last.batch = call.batch /\ ~last.ok /\ last.embd = Embd
              /\ call.how = "decode" /\ ctx.embeddings => B.out = 0 .. Len(B.seqs) - 1

LEMMA LastInvInit == Init => LastInv
BY DEF Init, LastInv, Idle

LEMMA LastInvStep == CallInv /\ LastInv /\ [Next]_vars => LastInv'
<1> SUFFICES ASSUME CallInv, LastInv, [Next]_vars PROVE LastInv'
  OBVIOUS
<1> USE DEF graphs, memory, buffers, rows
<1>1. ASSUME UNCHANGED <<setup, call, calls, last, ctx>> PROVE LastInv'
  BY <1>1 DEF LastInv, Idle, Embd, B
<1>2. ASSUME call' = NoCall, UNCHANGED <<calls, last>> PROVE LastInv'
  BY <1>2 DEF LastInv, Idle
<1>3. ASSUME call' = NoCall, last' = [last EXCEPT !.ok = TRUE], UNCHANGED calls PROVE LastInv'
  BY <1>3 DEF LastInv, Idle
<1>4. ASSUME Idle, UNCHANGED <<call, calls, last>> PROVE LastInv'
  BY <1>4 DEF LastInv, Idle
<1>5. ASSUME NEW b, NEW how \in {"decode", "encode"}, Begun(how, b, FALSE), UNCHANGED <<setup, ctx>>,
             how = "decode" /\ ctx.embeddings => b.out = 0 .. Len(b.seqs) - 1,
             \/ call' = NoCall
             \/ call' = [NoCall EXCEPT !.how = how, !.batch = b, !.k = 1]
      PROVE  LastInv'
  <2>1. /\ DOMAIN last' = {"call", "how", "batch", "ok", "samplers", "embd"}
        /\ last'.call = calls' /\ last'.how = how /\ last'.batch = b /\ last'.ok = FALSE
        /\ last'.embd = Embd
    BY <1>5 DEF Begun
  <2>2. Embd' = Embd
    BY <1>5 DEF Embd
  <2>3. CASE call' = NoCall
    BY <2>1, <2>3 DEF LastInv, Idle
  <2>4. CASE call' = [NoCall EXCEPT !.how = how, !.batch = b, !.k = 1]
    <3>1. call'.how = how /\ call'.batch = b
      BY <2>4 DEF NoCall
    <3> QED
      BY <1>5, <2>1, <2>2, <3>1 DEF LastInv, B
  <2> QED
    BY <1>5, <2>3, <2>4
<1>6. ASSUME NEW b, DecodeRefused(b) PROVE LastInv'
  BY <1>1, <1>6 DEF DecodeRefused
<1>7. ASSUME NEW b, DecodeBegins(b) PROVE LastInv'
  <2>1. call = NoCall /\ (ctx.embeddings => b.out = 0 .. Len(b.seqs) - 1)
    BY <1>7 DEF DecodeBegins, MayCall, Idle, BatchAllowed
  <2> QED
    BY <1>5, <1>7, <2>1 DEF DecodeBegins
<1>8. ASSUME NEW b, EncodeBegins(b) PROVE LastInv'
  <2>1. call = NoCall
    BY <1>8 DEF EncodeBegins, MayCall, Idle
  <2> QED
    BY <1>5, <1>8, <2>1 DEF EncodeBegins
<1>9. ASSUME NEW s, SetSampler(s) PROVE LastInv'
  BY <1>4, <1>9 DEF SetSampler, MayCall
<1>10. ASSUME NEW knob, SetContext(knob) \/ SetAdapters(knob) \/ SetMemory(knob) PROVE LastInv'
  BY <1>4, <1>10 DEF SetContext, SetAdapters, SetMemory, MayCall
<1>11. CASE Read \/ Perform
  BY <1>1, <1>11 DEF Read, Perform
<1>12. CASE ComputeUbatch
  <2>1. call.how = "decode" /\ ~Idle
    BY <1>12 DEF ComputeUbatch, InUbatch, Idle, NoCall
  <2>2. call'.how = call.how /\ call'.batch = call.batch
    BY <1>12, <2>1 DEF ComputeUbatch, CallInv
  <2>3. UNCHANGED <<setup, ctx, last, calls>>
    BY <1>12 DEF ComputeUbatch
  <2> QED
    BY <2>1, <2>2, <2>3 DEF LastInv, Embd, B
<1>13. CASE ComputeFails \/ AllocFails
  BY <1>2, <1>13 DEF ComputeFails, AllocFails, UbatchFails
<1>14. CASE EncodeFails
  BY <1>2, <1>14 DEF EncodeFails
<1>15. CASE Finish \/ EncodeComputes
  BY <1>3, <1>15 DEF Finish, EncodeComputes
<1>16. CASE UNCHANGED vars
  BY <1>1, <1>16 DEF vars
<1> QED
  BY <1>6, <1>7, <1>8, <1>9, <1>10, <1>11, <1>12, <1>13, <1>14, <1>15, <1>16
     DEF Next, Client, Host

(***************************************************************************)
(* What can be read after a decode.                                         *)
(***************************************************************************)
NoIdOutside(out) == \A i \in 0 .. NBatch - 1 : i \notin out => ids[i] = -1
NoViews == \A kind \in KindSet : views[kind] = NoView

ReadInv ==
  /\ DOMAIN ids = 0 .. NBatch - 1
  /\ samplers \subseteq setup.samplers
  /\ setup.samplers = {} => views["probs"] = NoView /\ views["sampled"] = NoView
  /\ call.how = "decode" => NoIdOutside({})
  /\ Idle /\ last.how = "decode" => \/ NoIdOutside(IF last.ok THEN last.batch.out ELSE {})
                                    \/ ~last.ok /\ NoViews

\* The samplers' views outlive a buffer that could not be allocated again, and ids of the call
\* before still name rows of it: a context meets only one of the two.
BufferOrSamplers(s) == "reserve" \notin s.fails \/ s.samplers = {}

LEMMA FiveKinds == KindSet = {"logits", "embd", "pre_norm", "probs", "sampled"}
BY DEF KindSet, Kinds, Range

LEMMA NoSamplerViews ==
  ASSUME samplers = {}, NEW n
  PROVE  Layout(n)["probs"] = NoView /\ Layout(n)["sampled"] = NoView
<1>1. RowsOf("probs", n) = 0 /\ RowsOf("sampled", n) = 0
  BY DEF RowsOf
<1> QED
  BY <1>1, FiveKinds DEF Layout

LEMMA ReadInvInit == Init => ReadInv
<1> SUFFICES ASSUME Init PROVE ReadInv
  OBVIOUS
<1>1. PICK s \in Setups : InitialSetup(s)
  BY DEF Init
<1>2. setup = s /\ samplers \subseteq setup.samplers
  BY <1>1 DEF InitialSetup
<1>3. setup.samplers = {} => views["probs"] = NoView /\ views["sampled"] = NoView
  BY <1>1, <1>2, NoSamplerViews DEF InitialSetup
<1> QED
  BY <1>2, <1>3 DEF Init, ReadInv, NoCall, Idle

LEMMA ReadInvStep ==
  ASSUME CallInv, LastInv, ReadInv, BufferOrSamplers(setup), [Next]_vars
  PROVE  ReadInv'
<1> USE DEF graphs, memory, buffers, rows
<1>1. ASSUME UNCHANGED <<setup, call, last, views, ids, samplers>> PROVE ReadInv'
  BY <1>1 DEF ReadInv, Idle, NoIdOutside, NoViews
<1>2. ASSUME NEW n, NEW m, NEW q, OutputReserve(n, m, q), UNCHANGED <<setup, samplers>>
      PROVE  (setup.samplers = {} => views["probs"] = NoView /\ views["sampled"] = NoView)'
  <2>1. views' = Layout(n)
    BY <1>2 DEF OutputReserve
  <2> QED
    BY <1>2, <2>1, NoSamplerViews DEF ReadInv
<1>3. ASSUME NEW n, OutputReserveFails(n), "reserve" \in setup.fails, UNCHANGED <<setup, samplers>>
      PROVE  /\ (setup.samplers = {} => views["probs"] = NoView /\ views["sampled"] = NoView)'
             /\ NoViews'
  <2>1. views["probs"] = NoView /\ views["sampled"] = NoView
    BY <1>3 DEF BufferOrSamplers, ReadInv
  <2>2. \A kind \in KindSet : views'[kind] = NoView
    BY <1>3, <2>1 DEF OutputReserveFails
  <2> QED
    BY <2>2, FiveKinds DEF NoViews, KindSet
<1>4. ASSUME NEW b, DecodeBegins(b) PROVE ReadInv'
  <2>1. last'.how = "decode" /\ last'.ok = FALSE /\ UNCHANGED <<setup, samplers>>
    BY <1>4 DEF DecodeBegins, Begun
  <2>2. ASSUME NEW m, NEW q, OutputReserve(Cardinality(b.out), m, q), ids' = NoIds PROVE ReadInv'
    <3>1. DOMAIN ids' = 0 .. NBatch - 1 /\ \A i \in 0 .. NBatch - 1 : ids'[i] = -1
      BY <2>2 DEF NoIds, ReadInv
    <3> QED
      BY <1>2, <2>1, <2>2, <3>1 DEF ReadInv, NoIdOutside
  <2>3. ASSUME "reserve" \in setup.fails, OutputReserveFails(Cardinality(b.out)), UNCHANGED <<ids, call>>
        PROVE  ReadInv'
    <3>1. Idle
      BY <1>4 DEF DecodeBegins, MayCall
    <3> QED
      BY <1>3, <2>1, <2>3, <3>1 DEF ReadInv, Idle, NoCall
  <2> QED
    BY <1>4, <2>2, <2>3 DEF DecodeBegins
<1>5. ASSUME NEW b, EncodeBegins(b) PROVE ReadInv'
  <2>1. last'.how = "encode" /\ UNCHANGED <<setup, samplers>>
    BY <1>5 DEF EncodeBegins, Begun
  <2>2. call'.how # "decode"
    <3>1. call' = NoCall \/ call' = [NoCall EXCEPT !.how = "encode", !.batch = b, !.k = 1]
      BY <1>5 DEF EncodeBegins, MayCall, Idle
    <3>2. call' = NoCall => call'.how = "none"
      BY DEF NoCall
    <3>3. call' = [NoCall EXCEPT !.how = "encode", !.batch = b, !.k = 1] => call'.how = "encode"
      BY DEF NoCall
    <3> QED
      BY <3>1, <3>2, <3>3
  <2>3. DOMAIN ids' = 0 .. NBatch - 1
    BY <1>5 DEF EncodeBegins, ReadInv
  <2>4. (setup.samplers = {} => views["probs"] = NoView /\ views["sampled"] = NoView)'
    BY <1>2, <1>3, <1>5, <2>1 DEF EncodeBegins
  <2> QED
    BY <2>1, <2>3, <2>4, <2>2 DEF ReadInv
<1>6. ASSUME NEW b, DecodeRefused(b) PROVE ReadInv'
  BY <1>1, <1>6 DEF DecodeRefused
<1>7. ASSUME NEW s \in setup.samplers, SetSampler(s) PROVE ReadInv'
  BY <1>7 DEF SetSampler, ReadInv, Idle, NoIdOutside, NoViews
<1>8. ASSUME NEW knob, SetContext(knob) \/ SetAdapters(knob) \/ SetMemory(knob) PROVE ReadInv'
  BY <1>1, <1>8 DEF SetContext, SetAdapters, SetMemory
<1>9. CASE Read \/ Perform
  BY <1>1, <1>9 DEF Read, Perform
<1>10. CASE ComputeUbatch
  <2>1. call.how = "decode" /\ ~Idle /\ call'.how = "decode"
    BY <1>10 DEF ComputeUbatch, InUbatch, Idle, NoCall, CallInv
  <2>2. ~Idle'
    BY <2>1 DEF Idle, NoCall
  <2> QED
    BY <1>10, <2>1, <2>2 DEF ComputeUbatch, ReadInv, NoIdOutside
<1>11. CASE ComputeFails \/ AllocFails
  <2>1. call.how = "decode" /\ ~Idle /\ call' = NoCall /\ UNCHANGED <<setup, samplers, views, ids, last>>
    BY <1>11 DEF ComputeFails, AllocFails, UbatchFails, InUbatch, Idle, NoCall
  <2>2. ~last.ok
    BY <2>1 DEF LastInv
  <2> QED
    BY <2>1, <2>2 DEF ReadInv, NoIdOutside, NoCall
<1>12. CASE EncodeComputes \/ EncodeFails
  <2>1. /\ call.how = "encode" /\ call' = NoCall /\ UNCHANGED <<setup, samplers, views, ids>>
    BY <1>12 DEF EncodeComputes, EncodeFails
  <2>2. ~Idle
    BY <2>1 DEF Idle, NoCall
  <2>3. last' = last \/ last' = [last EXCEPT !.ok = TRUE]
    BY <1>12 DEF EncodeComputes, EncodeFails
  <2>4. last'.how = "encode"
    BY <2>1, <2>3, <2>2 DEF LastInv
  <2> QED
    BY <2>1, <2>4 DEF ReadInv, NoCall
<1>13. CASE Finish
  <2>1. /\ call.how = "decode" /\ ~Idle /\ call' = NoCall /\ UNCHANGED <<setup, samplers, views>>
        /\ last' = [last EXCEPT !.ok = TRUE]
    BY <1>13 DEF Finish, Idle, NoCall
  <2>2. last'.ok /\ last'.batch = B
    BY <2>1 DEF LastInv, B
  <2>3. DOMAIN ids' = DOMAIN ids /\ \A i \in DOMAIN ids : i \notin B.out => ids'[i] = ids[i]
    BY <1>13 DEF Finish
  <2> QED
    BY <2>1, <2>2, <2>3 DEF ReadInv, NoIdOutside, NoCall
<1>14. CASE UNCHANGED vars
  BY <1>1, <1>14 DEF vars
<1> QED
  BY <1>4, <1>5, <1>6, <1>7, <1>8, <1>9, <1>10, <1>11, <1>12, <1>13, <1>14
     DEF Next, Client, Host

\* After a decode a getter returns nothing for a token that was no output, and nothing at all if
\* the decode failed: "returns NULL for invalid ids", whatever was decoded, encoded or set before.
THEOREM OnlyOutputsReadable ==
  ASSUME \A s \in Setups : BufferOrSamplers(s)
  PROVE  Spec => []NothingElseReadable
<1>1. Init => CallInv /\ LastInv /\ ReadInv
  BY CallInvInit, LastInvInit, ReadInvInit
<1>2. CallInv /\ LastInv /\ ReadInv /\ [Next]_vars => (CallInv /\ LastInv /\ ReadInv)'
  <2>1. CallInv => BufferOrSamplers(setup)
    BY DEF CallInv
  <2> QED
    BY <2>1, CallInvStep, LastInvStep, ReadInvStep
<1>3. CallInv /\ LastInv /\ ReadInv => NothingElseReadable
  <2> SUFFICES ASSUME ReadInv, Idle, last.how = "decode",
                      NEW i \in 0 .. NBatch - 1, NEW kind \in KindSet \ {"pre_norm"},
                      ~last.ok \/ i \notin last.batch.out
               PROVE  Get(kind, i) = Zero
    BY DEF NothingElseReadable
  <2>1. CASE NoViews
    BY <2>1 DEF NoViews, Get
  <2>2. CASE NoIdOutside(IF last.ok THEN last.batch.out ELSE {})
    <3>1. ids[i] = -1 /\ i \in DOMAIN ids /\ ~(i < 0)
      BY <2>2, SetupsAssumption DEF NoIdOutside, ReadInv
    <3>2. ResolveRow(i) = -1
      BY <3>1 DEF ResolveRow
    <3>3. ResolveRow(i) < 0
      BY <3>2
    <3> QED
      BY <3>3 DEF Get
  <2> QED
    BY <2>1, <2>2 DEF ReadInv
<1> QED
  BY <1>1, <1>2, <1>3, PTL DEF Spec

(***************************************************************************)
(* Pooled embeddings.                                                       *)
(***************************************************************************)
\* What the first ubatches of the call, those before the k-th, leave for sequence s.
PooledBefore(s, k) == {j \in UbatchesOf(s) : j < k}
PooledOf(ks) == IF ks = {} THEN Zero ELSE <<calls, "pooled", Max(ks)>>

PooledInv ==
  /\ \A s \in Seqs : embdSeq[s] # Zero => embdSeq[s][1] = calls
  /\ ~Idle /\ Embd = "pooled" => \A s \in Seqs : embdSeq[s] = PooledOf(PooledBefore(s, call.k))
  /\ Idle /\ last.ok /\ last.how # "none" /\ last.embd = "pooled" =>
       embdSeq = NoPooled \/ \A s \in Seqs : embdSeq[s] = PooledOf(UbatchesOf(s))

\* Once the k-th ubatch is added, a sequence it holds a token of has that ubatch as its last one.
LEMMA PooledAdds ==
  ASSUME NEW s, NEW k \in Nat, UbatchesOf(s) \subseteq Nat
  PROVE  PooledOf(PooledBefore(s, k + 1))
           = IF k \in UbatchesOf(s) THEN <<calls, "pooled", k>> ELSE PooledOf(PooledBefore(s, k))
<1>1. CASE k \in UbatchesOf(s)
  <2>1. k \in PooledBefore(s, k + 1) /\ \A j \in PooledBefore(s, k + 1) : j \in Nat /\ k >= j
    BY <1>1 DEF PooledBefore
  <2>2. Max(PooledBefore(s, k + 1)) = k
    BY <2>1 DEF Max
  <2> QED
    BY <1>1, <2>1, <2>2 DEF PooledOf
<1>2. CASE k \notin UbatchesOf(s)
  <2>1. PooledBefore(s, k + 1) = PooledBefore(s, k)
    BY <1>2 DEF PooledBefore
  <2> QED
    BY <1>2, <2>1
<1> QED
  BY <1>1, <1>2

\* The ubatches of the call in progress, which hold tokens of its batch.
LEMMA CallUbatches ==
  ASSUME CallInv, LastInv, ~Idle
  PROVE  /\ last.batch = B
         /\ B.ubatches \in Seq(Seq(0 .. Len(B.seqs) - 1) \ {<<>>})
         /\ \A s : UbatchesOf(s) \subseteq 1 .. Len(B.ubatches)
<1>1. last.batch = B
  BY DEF LastInv, B
<1>2. B.ubatches \in Seq(Seq(0 .. Len(B.seqs) - 1) \ {<<>>})
  BY BatchesOK DEF BatchOK
<1> QED
  BY <1>1, <1>2 DEF UbatchesOf

LEMMA PooledInvInit == Init => PooledInv
BY DEF Init, PooledInv, Idle

LEMMA PooledInvStep == CallInv /\ LastInv /\ PooledInv /\ [Next]_vars => PooledInv'
<1> SUFFICES ASSUME CallInv, LastInv, PooledInv, [Next]_vars PROVE PooledInv'
  OBVIOUS
<1> USE DEF graphs, memory, buffers, rows
<1>1. ASSUME UNCHANGED <<setup, call, calls, last, ctx, embdSeq>> PROVE PooledInv'
  BY <1>1 DEF PooledInv, Idle, Embd, PooledOf, PooledBefore, UbatchesOf, NoPooled
<1>2. ASSUME Idle, UNCHANGED <<call, calls, last>>, embdSeq' = embdSeq \/ embdSeq' = NoPooled
      PROVE  PooledInv'
  BY <1>2 DEF PooledInv, Idle, PooledOf, UbatchesOf, NoPooled
<1>3. ASSUME ~Idle, call' = NoCall, UNCHANGED <<calls, last, embdSeq>> PROVE PooledInv'
  BY <1>3 DEF PooledInv, Idle, LastInv
<1>4. ASSUME NEW how, NEW b, embdSeq' = NoPooled, last'.ok = FALSE,
             \/ call' = NoCall
             \/ call' = [NoCall EXCEPT !.how = how, !.batch = b, !.k = 1] /\ last'.batch = b /\ BatchOK(b)
      PROVE  PooledInv'
  <2>1. \A s \in Seqs : embdSeq'[s] = Zero
    BY <1>4 DEF NoPooled
  <2>2. CASE call' = NoCall
    BY <1>4, <2>1, <2>2 DEF PooledInv, Idle
  <2>3. CASE /\ call' = [NoCall EXCEPT !.how = how, !.batch = b, !.k = 1] /\ last'.batch = b
             /\ BatchOK(b)
    <3>1. call'.k = 1
      BY <2>3 DEF NoCall
    <3>2. \A s : UbatchesOf(s)' \subseteq Nat \ {0}
      <4>1. \A s : UbatchesOf(s)' \subseteq DOMAIN b.ubatches
        BY <2>3 DEF UbatchesOf
      <4>2. b.ubatches \in Seq(Seq(0 .. Len(b.seqs) - 1) \ {<<>>})
        BY <2>3 DEF BatchOK
      <4> QED
        BY <4>1, <4>2
    <3>3. \A s : PooledBefore(s, call.k)' = {}
      BY <3>1, <3>2 DEF PooledBefore
    <3>4. \A s : PooledOf(PooledBefore(s, call.k))' = Zero
      BY <3>3 DEF PooledOf
    <3> QED
      BY <1>4, <2>1, <3>4 DEF PooledInv
  <2> QED
    BY <1>4, <2>2, <2>3
<1>5. ASSUME NEW b, DecodeRefused(b) PROVE PooledInv'
  BY <1>2, <1>5 DEF DecodeRefused, MayCall
<1>6. ASSUME NEW b \in setup.batches, DecodeBegins(b) PROVE PooledInv'
  <2>1. call = NoCall /\ embdSeq' = NoPooled /\ last'.ok = FALSE /\ last'.batch = b /\ BatchOK(b)
    BY <1>6, SetupsAssumption DEF DecodeBegins, MayCall, Idle, Begun, CallInv
  <2> QED
    BY <1>4, <1>6, <2>1 DEF DecodeBegins
<1>7. ASSUME NEW b \in setup.encodes, EncodeBegins(b) PROVE PooledInv'
  <2>1. call = NoCall /\ embdSeq' = NoPooled /\ last'.ok = FALSE /\ last'.batch = b /\ BatchOK(b)
    BY <1>7, SetupsAssumption DEF EncodeBegins, MayCall, Idle, Begun, CallInv
  <2> QED
    BY <1>4, <1>7, <2>1 DEF EncodeBegins
<1>8. ASSUME NEW s, SetSampler(s) PROVE PooledInv'
  BY <1>2, <1>8 DEF SetSampler, MayCall
<1>9. ASSUME NEW knob, SetContext(knob) \/ SetAdapters(knob) \/ SetMemory(knob) PROVE PooledInv'
  BY <1>2, <1>9 DEF SetContext, SetAdapters, SetMemory, MayCall
<1>10. CASE Read \/ Perform
  BY <1>1, <1>10 DEF Read, Perform
<1>11. CASE ComputeUbatch
  <2>1. /\ call.how = "decode" /\ call.k \in 1 .. Len(B.ubatches) /\ call.k \in Nat /\ ~Idle
        /\ call'.k = call.k + 1 /\ UNCHANGED <<setup, ctx, calls, last>>
    BY <1>11 DEF ComputeUbatch, InUbatch, Idle, NoCall, CallInv, CallOK, B
  <2>2. ~Idle'
    BY <1>11, <2>1 DEF ComputeUbatch, Idle, NoCall, CallInv
  <2>3. Embd' = Embd /\ \A s : UbatchesOf(s)' = UbatchesOf(s)
    BY <2>1 DEF Embd, UbatchesOf
  <2>4. Ubatch \in Seq(0 .. Len(B.seqs) - 1) \ {<<>>}
    BY <2>1, CallUbatches DEF Ubatch
  <2>5. ASSUME Embd = "pooled" PROVE Range(Ubatch) \cap B.out # {}
    <3>1. B.out = 0 .. Len(B.seqs) - 1
      BY <2>1, <2>5 DEF LastInv, Embd, CallInv, CtxType
    <3>2. 1 \in DOMAIN Ubatch /\ Ubatch[1] \in 0 .. Len(B.seqs) - 1
      BY <2>4
    <3> QED
      BY <3>1, <3>2 DEF Range
  <2>6. ASSUME NEW s \in Seqs, Embd = "pooled"
        PROVE  embdSeq'[s] = PooledOf(PooledBefore(s, call.k + 1))
    <3>1. call.k \in UbatchesOf(s) <=> \E i \in Range(Ubatch) : s \in Range(B.seqs[i + 1])
      <4>1. call.k \in DOMAIN B.ubatches /\ last.batch = B
        BY <2>1, CallUbatches
      <4> QED
        BY <4>1 DEF UbatchesOf, Ubatch
    <3>2. embdSeq'[s] = IF call.k \in UbatchesOf(s) THEN <<calls, "pooled", call.k>> ELSE embdSeq[s]
      BY <1>11, <2>5, <2>6, <3>1 DEF ComputeUbatch
    <3>3. embdSeq[s] = PooledOf(PooledBefore(s, call.k))
      BY <2>1, <2>6 DEF PooledInv
    <3>4. UbatchesOf(s) \subseteq Nat
      BY <2>1, CallUbatches
    <3> QED
      BY <2>1, <3>2, <3>3, <3>4, PooledAdds
  <2>7. ASSUME NEW s \in Seqs PROVE embdSeq'[s] # Zero => embdSeq'[s][1] = calls'
    BY <1>11, <2>1 DEF ComputeUbatch, PooledInv
  <2>8. \A s \in Seqs : \A k : PooledOf(PooledBefore(s, k))' = PooledOf(PooledBefore(s, k'))
    BY <2>1, <2>3 DEF PooledOf, PooledBefore
  <2> QED
    BY <2>1, <2>2, <2>3, <2>6, <2>7, <2>8 DEF PooledInv
<1>12. CASE ComputeFails \/ AllocFails
  <2>1. ~Idle /\ call' = NoCall /\ UNCHANGED <<calls, last, embdSeq>>
    BY <1>12 DEF ComputeFails, AllocFails, UbatchFails, InUbatch, Idle, NoCall
  <2> QED
    BY <1>3, <2>1
<1>13. CASE EncodeFails
  <2>1. ~Idle /\ call' = NoCall /\ UNCHANGED <<calls, last, embdSeq>>
    BY <1>13 DEF EncodeFails, Idle, NoCall
  <2> QED
    BY <1>3, <2>1
<1>14. ASSUME ~Idle, call' = NoCall, last' = [last EXCEPT !.ok = TRUE], UNCHANGED calls,
              \A s \in Seqs : embdSeq'[s] # Zero => embdSeq'[s][1] = calls,
              Embd = "pooled" => \A s \in Seqs : embdSeq'[s] = PooledOf(UbatchesOf(s))
       PROVE  PooledInv'
  <2>1. last'.embd = Embd /\ last'.batch = last.batch
    BY <1>14 DEF LastInv
  <2>2. \A s : PooledOf(UbatchesOf(s))' = PooledOf(UbatchesOf(s))
    BY <1>14, <2>1 DEF PooledOf, UbatchesOf
  <2> QED
    BY <1>14, <2>1, <2>2 DEF PooledInv, Idle
<1>15. CASE Finish
  <2>1. /\ ~Idle /\ call.k > Len(B.ubatches) /\ call.k \in Nat /\ call' = NoCall
        /\ last' = [last EXCEPT !.ok = TRUE] /\ UNCHANGED <<calls, embdSeq>>
    BY <1>15 DEF Finish, Idle, NoCall, CallInv, CallOK
  <2>2. \A s : PooledBefore(s, call.k) = UbatchesOf(s)
    BY <2>1, CallUbatches DEF PooledBefore
  <2> QED
    BY <1>14, <2>1, <2>2 DEF PooledInv
<1>16. CASE EncodeComputes
  <2>1. /\ call.how = "encode" /\ call.batch \in setup.encodes /\ call.k = 1 /\ ~Idle /\ call' = NoCall
        /\ last' = [last EXCEPT !.ok = TRUE] /\ UNCHANGED calls
    BY <1>16 DEF EncodeComputes, Idle, NoCall, CallInv, CallOK
  <2>2. Len(B.ubatches) = 1 /\ Ubatch = B.ubatches[1]
    <3>1. B.ubatches = <<[j \in DOMAIN B.seqs |-> j - 1]>>
      BY <2>1, SetupsAssumption DEF CallInv, B
    <3>2. Len(B.ubatches) = 1
      BY <3>1
    <3> QED
      BY <2>1, <3>2 DEF Ubatch
  <2>3. ASSUME NEW s \in Seqs, Embd = "pooled" PROVE embdSeq'[s] = PooledOf(UbatchesOf(s))
    <3>1. UbatchesOf(s) \subseteq Nat \ {0} /\ \A j \in UbatchesOf(s) : j < 2
      BY <2>1, <2>2, CallUbatches
    <3>2. 1 \in UbatchesOf(s) <=> \E i \in Range(Ubatch) : s \in Range(B.seqs[i + 1])
      BY <2>1, <2>2, CallUbatches DEF UbatchesOf
    <3>3. embdSeq[s] = PooledOf(PooledBefore(s, 1))
      BY <2>1, <2>3 DEF PooledInv
    <3>4. PooledOf(PooledBefore(s, 1 + 1))
            = IF 1 \in UbatchesOf(s) THEN <<calls, "pooled", 1>> ELSE PooledOf(PooledBefore(s, 1))
      BY <3>1, PooledAdds
    <3>5. PooledBefore(s, 1 + 1) = UbatchesOf(s)
      BY <3>1 DEF PooledBefore
    <3>6. embdSeq'[s] = IF 1 \in UbatchesOf(s) THEN <<calls, "pooled", 1>> ELSE embdSeq[s]
      BY <1>16, <2>3, <3>2 DEF EncodeComputes
    <3> QED
      BY <3>3, <3>4, <3>5, <3>6
  <2>4. \A s \in Seqs : embdSeq'[s] # Zero => embdSeq'[s][1] = calls
    BY <1>16 DEF EncodeComputes, PooledInv
  <2> QED
    BY <1>14, <2>1, <2>3, <2>4
<1>17. CASE UNCHANGED vars
  BY <1>1, <1>17 DEF vars
<1> QED
  BY <1>5, <1>6, <1>7, <1>8, <1>9, <1>10, <1>11, <1>12, <1>13, <1>15, <1>16, <1>17
     DEF Next, Client, Host

\* A pooled embedding that a client can read is that of the last ubatch of the last call that had
\* a token of its sequence; one of an earlier call is never left behind (decode clears embd_seq
\* before it can fail).
THEOREM PooledIsNew == Spec => []PooledOfLastUbatch
<1>1. Init => CallInv /\ LastInv /\ PooledInv
  BY CallInvInit, LastInvInit, PooledInvInit
<1>2. CallInv /\ LastInv /\ PooledInv /\ [Next]_vars => (CallInv /\ LastInv /\ PooledInv)'
  BY CallInvStep, LastInvStep, PooledInvStep
<1>3. LastInv /\ PooledInv => PooledOfLastUbatch
  BY DEF LastInv, PooledInv, PooledOfLastUbatch, PooledOf, NoPooled
<1> QED
  BY <1>1, <1>2, <1>3, PTL DEF Spec
==============================================================================
