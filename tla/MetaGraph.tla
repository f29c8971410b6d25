------------------------------- MODULE MetaGraph -------------------------------
(***************************************************************************)
(* The graph of the last layer of a MiniMax M2 model, as its builder        *)
(* (src/models/minimax-m2.cpp) makes it with the parts it takes from        *)
(* llm_graph_context (src/llama-graph.cpp): tokens, not embeddings; flash   *)
(* attention over one stream of the cache; no adapters.  And the graph that *)
(* shifts its keys (src/llama-kv-cache.cpp).  Tensors have their sources by *)
(* name, and lie in the order in which ggml_build_forward_expand visits     *)
(* them.                                                                    *)
(***************************************************************************)
EXTENDS MetaSplit

\* A tensor: operation, names of its sources, shape and strides.
Strides(ne) == [d \in 1 .. 4 |-> Product(ne, d - 2)]
Tensor(name, op, src, ne) ==
  [name |-> name, op |-> op, src |-> src, ne |-> ne, nb |-> Strides(ne), arg |-> 0, kind |-> "", il |-> 0]
Leaf(name, kind, il, ne) == [Tensor(name, "NONE", <<>>, ne) EXCEPT !.kind = kind, !.il = il]

\* ggml_permute(0, 2, 1, 3): the second and the third axis change places.
Permuted(name, src, t) ==
  [Tensor(name, "PERMUTE", src, <<t.ne[1], t.ne[3], t.ne[2], t.ne[4]>>)
     EXCEPT !.nb = <<t.nb[1], t.nb[3], t.nb[2], t.nb[4]>>, !.arg = <<0, 2, 1, 3>>]

\* A model c has the sizes of its tensors, a batch b its tokens, outputs and the cells it attends
\* to; a warm-up uses all experts (n_expert_used).
EmbdQ(c) == c.headDim * c.gqa * c.heads
EmbdKV(c) == c.headDim * c.heads
Row(n, tokens) == <<n, tokens, 1, 1>>
Heads(c, n, tokens) == <<c.headDim, n, tokens, 1>>
Used(c, b) == IF b.warmup THEN c.experts ELSE c.used

-----------------------------------------------------------------------------
\* load_arch_tensors, the cache, and the inputs of the graph.
Leafs(c, b) ==
  LET il == c.layers - 1 IN
  << Leaf("tok_embd", "", c.layers, Row(c.embd, 7)),
     Leaf("output_norm", "", c.layers, Row(c.embd, 1)),
     Leaf("output", "output", c.layers, Row(c.embd, 7)),
     Leaf("wq", "attn_q", il, Row(c.embd, EmbdQ(c))),
     Leaf("wk", "attn_kv", il, Row(c.embd, EmbdKV(c))),
     Leaf("wv", "attn_kv", il, Row(c.embd, EmbdKV(c))),
     Leaf("wo", "attn_output", il, Row(EmbdQ(c), c.embd)),
     Leaf("attn_norm", "", il, Row(c.embd, 1)),
     Leaf("attn_q_norm", "attn_q_norm", il, Row(EmbdQ(c), 1)),
     Leaf("attn_k_norm", "attn_k_norm", il, Row(EmbdKV(c), 1)),
     Leaf("ffn_norm", "", il, Row(c.embd, 1)),
     Leaf("ffn_gate_inp", "", il, Row(c.embd, c.experts)),
     Leaf("ffn_gate_exps", "ffn_up_gate", il, <<c.embd, c.ff, c.experts, 1>>),
     Leaf("ffn_down_exps", "ffn_down", il, <<c.ff, c.embd, c.experts, 1>>),
     Leaf("ffn_up_exps", "ffn_up_gate", il, <<c.embd, c.ff, c.experts, 1>>),
     Leaf("ffn_exp_probs_b", "", il, Row(c.experts, 1)),
     Leaf("down_exps_b", "ffn_down_exps_bias", il, Row(c.embd, c.experts)),
     Leaf("cache_k", "kv_cache", il, Row(EmbdKV(c), c.cells)),
     Leaf("cache_v", "kv_cache", il, Row(EmbdKV(c), c.cells)),
     Leaf("inp_tokens", "", c.layers, Row(b.tokens, 1)), Leaf("inp_pos", "", c.layers, Row(b.tokens, 1)),
     Leaf("k_shift", "", c.layers, Row(c.cells, 1)), Leaf("inp_cls", "", c.layers, Row(1, 1)),
     Leaf("inp_out_ids", "", c.layers, Row(b.outputs, 1)), Leaf("idxs", "", c.layers, Row(b.tokens, 1)),
     Leaf("kq_mask", "", c.layers, Row(b.cells, b.tokens)) >>

\* build_norm
Norm(x, weight, name, ne) ==
  << Tensor(name \o ".rms", "RMS_NORM", <<x>>, ne), Tensor(name, "MUL", <<name \o ".rms", weight>>, ne) >>

\* build_distributed_rms_norm
DistributedNorm(x, weight, name, ne) ==
  LET sum == Row(1, ne[2])
      n(s) == name \o s
  IN << Tensor(n(".sqr"), "SQR", <<x>>, ne), Tensor(n(".sum"), "SUM_ROWS", <<n(".sqr")>>, sum),
        Tensor(n(".mean"), "SCALE", <<n(".sum")>>, sum), Tensor(n(".denom"), "SQRT", <<n(".mean")>>, sum),
        Tensor(n(".div"), "DIV", <<x, n(".denom")>>, ne), Tensor(name, "MUL", <<n(".div"), weight>>, ne) >>
QKNorm(c, x, weight, name, ne) ==
  IF c.distributed THEN DistributedNorm(x, weight, name, ne) ELSE Norm(x, weight, name, ne)

\* Queries, keys and values by heads.
QKV(c, b) ==
  LET q == Row(EmbdQ(c), b.tokens)
      k == Row(EmbdKV(c), b.tokens)
      heads == Heads(c, c.heads, b.tokens)
      rope(x, n) == << Tensor(x \o "heads", "RESHAPE", <<x \o "normed">>, Heads(c, n, b.tokens)),
                       Tensor(x \o "rope", "ROPE", <<x \o "heads", "inp_pos">>, Heads(c, n, b.tokens)) >>
  IN << Tensor("Q", "MUL_MAT", <<"wq", "cur">>, q) >>
     \o QKNorm(c, "Q", "attn_q_norm", "Qnormed", q) \o rope("Q", c.gqa * c.heads)
     \o << Tensor("V", "MUL_MAT", <<"wv", "cur">>, k), Tensor("Vcur", "RESHAPE", <<"V">>, heads) >>
     \o << Tensor("K", "MUL_MAT", <<"wk", "cur">>, k) >>
     \o QKNorm(c, "K", "attn_k_norm", "Knormed", k) \o rope("K", c.heads)

\* cpy_k, cpy_v
Store(c, b, cache, x) ==
  << Tensor(cache \o ".rows", "VIEW", <<x>>, Row(EmbdKV(c), b.tokens)),
     Tensor(cache \o ".set", "SET_ROWS", <<cache \o ".rows", "idxs", cache>>, Row(EmbdKV(c), c.cells)) >>

\* get_k, get_v: the cells in use, by heads
Load(c, b, cache) ==
  LET view == Tensor(cache \o ".view", "VIEW", <<cache>>, Heads(c, c.heads, b.cells))
  IN << view, Permuted(cache \o ".perm", <<cache \o ".view">>, view) >>

\* build_attn_mha, by flash attention
Mha(c, b) ==
  LET q == Heads(c, c.gqa * c.heads, b.tokens)
      view == Tensor("q.view", "VIEW", <<"Qrope">>, q)
  IN << view, Permuted("q.perm", <<"q.view">>, view) >>
     \o Load(c, b, "cache_k") \o Load(c, b, "cache_v")
     \o << Tensor("fattn", "FLASH_ATTN_EXT", <<"q.perm", "cache_k.perm", "cache_v.perm", "kq_mask">>, q),
           Tensor("kqv_out", "RESHAPE", <<"fattn">>, Row(EmbdQ(c), b.tokens)) >>

\* build_attn
Attn(c, b) ==
  Store(c, b, "cache_k", "Krope") \o Store(c, b, "cache_v", "Vcur") \o Mha(c, b)
  \o << Tensor("attn_out", "MUL_MAT", <<"wo", "kqv_out">>, Row(c.embd, b.tokens)) >>

\* build_moe_ffn: the experts are chosen by the biased probabilities, and weighted by the others.
Router(c, n, k) ==
  LET probs == Row(c.experts, n)
      used == Row(k, n)
      column == <<1, k, n, 1>>
  IN << Tensor("logits", "MUL_MAT", <<"ffn_gate_inp", "ffn_cur">>, probs),
        Tensor("probs", "UNARY", <<"logits">>, probs),
        Tensor("probs.rows", "RESHAPE", <<"probs">>, <<1, c.experts, n, 1>>),
        Tensor("selection", "ADD", <<"probs", "ffn_exp_probs_b">>, probs),
        Tensor("argsort", "ARGSORT", <<"selection">>, probs),
        [Tensor("topk", "VIEW", <<"argsort">>, used) EXCEPT !.nb = Strides(probs)],
        Tensor("weights", "GET_ROWS", <<"probs.rows", "topk">>, column),
        Tensor("weights.2d", "RESHAPE", <<"weights">>, used),
        Tensor("weights.sum", "SUM_ROWS", <<"weights.2d">>, Row(1, n)),
        Tensor("weights.clamped", "CLAMP", <<"weights.sum">>, Row(1, n)),
        Tensor("weights.norm", "DIV", <<"weights.2d", "weights.clamped">>, used),
        Tensor("weights.3d", "RESHAPE", <<"weights.norm">>, column) >>

\* The rows of each expert, and their sum: a warm-up adds up no more of them than other batches.
Number == <<"0", "1", "2", "3">>
Aggregate(c, n, used) ==
  LET rows == Row(c.embd, n)
      all == c.embd * used * n
      view(k) == [Tensor("expert" \o Number[k], "VIEW", <<"weighted">>, rows)
                    EXCEPT !.nb = <<1, c.embd * used, all, all>>, !.arg = k - 1]
      sum(k) == Tensor("sum" \o Number[k], "ADD",
                       <<IF k = 2 THEN "expert0" ELSE "sum" \o Number[k - 1], "expert" \o Number[k]>>, rows)
  IN [k \in 1 .. c.used |-> view(k)]
     \o IF c.used = 1 THEN << Tensor("moe_out", "CONT", <<"expert0">>, rows) >>
        ELSE [k \in 1 .. c.used - 1 |->
                IF k = c.used - 1 THEN [sum(k + 1) EXCEPT !.name = "moe_out"] ELSE sum(k + 1)]
\* Other models than MiniMax have a bias of the experts; c.bias adds it.
Experts(c, n, used) ==
  LET f == <<c.ff, used, n, 1>>
      e == <<c.embd, used, n, 1>>
      bias == IF c.bias THEN << Tensor("biased", "ADD_ID", <<"down", "down_exps_b", "topk">>, e) >> ELSE <<>>
  IN << Tensor("moe_in", "RESHAPE", <<"ffn_cur">>, <<c.embd, 1, n, 1>>),
        Tensor("gate", "MUL_MAT_ID", <<"ffn_gate_exps", "moe_in", "topk">>, f),
        Tensor("up", "MUL_MAT_ID", <<"ffn_up_exps", "moe_in", "topk">>, f),
        Tensor("swiglu", "GLU", <<"gate", "up">>, f),
        Tensor("down", "MUL_MAT_ID", <<"ffn_down_exps", "swiglu", "topk">>, e) >>
     \o bias
     \o << Tensor("weighted", "MUL", <<IF c.bias THEN "biased" ELSE "down", "weights.3d">>, e) >>
     \o Aggregate(c, n, used)

\* build_pooling, of the last token of each sequence
Pooling(c, b) ==
  IF b.pooled THEN << Tensor("result_embd_pooled", "GET_ROWS", <<"result_norm", "inp_cls">>, Row(c.embd, 1)) >>
  ELSE <<>>

\* llama_model_minimax_m2::graph
Nodes(c, b) ==
  LET rows == Row(c.embd, b.tokens)
      outs == Row(c.embd, b.outputs)
  IN << Tensor("inpL", "GET_ROWS", <<"tok_embd", "inp_tokens">>, rows) >>
     \o Norm("inpL", "attn_norm", "cur", rows) \o QKV(c, b) \o Attn(c, b)
     \o << Tensor("attn_rows", "GET_ROWS", <<"attn_out", "inp_out_ids">>, outs),
           Tensor("inpSA", "GET_ROWS", <<"inpL", "inp_out_ids">>, outs),
           Tensor("ffn_inp", "ADD", <<"attn_rows", "inpSA">>, outs) >>
     \o Norm("ffn_inp", "ffn_norm", "ffn_cur", outs)
     \o Router(c, b.outputs, Used(c, b)) \o Experts(c, b.outputs, Used(c, b))
     \o << Tensor("l_out", "ADD", <<"moe_out", "ffn_inp">>, outs) >>
     \o Norm("l_out", "output_norm", "result_norm", outs)
     \o << Tensor("result_output", "MUL_MAT", <<"output", "result_norm">>, Row(7, b.outputs)) >>
     \o Pooling(c, b)

\* build_graph_shift, build_rope_shift: the rotated part of every key, in place
ShiftNodes(c) ==
  LET ne == <<c.rot, c.heads, c.cells, 1>>
  IN << [Tensor("k", "VIEW", <<"cache_k">>, ne)
           EXCEPT !.nb = <<1, c.headDim, EmbdKV(c), EmbdKV(c) * c.cells>>],
        [Tensor("k_shifted", "ROPE", <<"k", "k_shift">>, ne)
           EXCEPT !.nb = <<1, c.headDim, EmbdKV(c), EmbdKV(c) * c.cells>>] >>

\* A graph for a batch, or for a shift: its tensors, leaves first, with the numbers of their
\* sources.
GraphOf(c, b) ==
  LET leafs == Leafs(c, b)
      t == leafs \o IF b.shift THEN ShiftNodes(c) ELSE Nodes(c, b)
      number(name) == CHOOSE v \in DOMAIN t : t[v].name = name
  IN [uid |-> b.uid, leafs |-> Len(leafs),
      t |-> [v \in DOMAIN t |-> [t[v] EXCEPT !.src = [i \in DOMAIN t[v].src |-> number(t[v].src[i])]]]]
==============================================================================
