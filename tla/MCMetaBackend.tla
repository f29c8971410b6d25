----------------------------- MODULE MCMetaBackend -----------------------------
(* Instances of MetaBackend: models of MiniMax's kind on two, three and four devices. *)
EXTENDS MetaBackend

Model2 ==
  [devices |-> 2, split |-> <<1, 1>>, splitAttn |-> <<>>, splitKv |-> <<>>, distributed |-> TRUE,
   layers |-> 1, embd |-> 3, heads |-> 2, gqa |-> 2, headDim |-> 2, rot |-> 1, blck |-> 2, cells |-> 4,
   experts |-> 3, used |-> 2, ff |-> 4, ffBlck |-> 2, bias |-> FALSE]

\* Three devices; the third has nothing of the attention, the first nothing of the experts.
Uneven == [Model2 EXCEPT !.devices = 3, !.split = <<0, 3, 1>>, !.splitAttn = <<1, 3, 0>>,
                         !.heads = 4, !.ff = 8, !.used = 3, !.experts = 4]
\* Three devices that all have a slice, in rotated order, with the experts' bias.
Bias == [Model2 EXCEPT !.devices = 3, !.split = <<1, 2, 1>>, !.layers = 2, !.heads = 5, !.ff = 8,
                       !.bias = TRUE]
\* Four devices, one expert, blocks that are larger than a group of heads.
Model4 == [Model2 EXCEPT !.devices = 4, !.split = <<0, 0, 0, 0>>, !.heads = 8, !.ff = 8, !.used = 1, !.blck = 8]

B(uid_, tokens, outputs) ==
  [uid |-> uid_, tokens |-> tokens, outputs |-> outputs, cells |-> 3, warmup |-> FALSE, shift |-> FALSE,
   pooled |-> FALSE]
Warmup == [B(1, 2, 2) EXCEPT !.warmup = TRUE]
Prompt == B(2, 3, 2)
Token == B(3, 1, 1)
Shift == [B(4, 1, 1) EXCEPT !.shift = TRUE]
Pooled == [B(5, 2, 2) EXCEPT !.pooled = TRUE]
Unnamed == B(0, 2, 1)
Both(a, b) == {<<a, b>>, <<b, a>>}

Setting(model, peers, batches) == [model |-> model, peers |-> peers, batches |-> batches]
MCSetups ==
  { Setting(Model2, {}, <<Warmup, Pooled, Unnamed, Shift>>),
    Setting(Uneven, {}, <<Prompt, Warmup>>),
    Setting(Bias, Both(0, 2), <<Token, Shift>>),
    Setting(Model4, Both(0, 2) \cup Both(1, 3), <<Token>>) }
==============================================================================
