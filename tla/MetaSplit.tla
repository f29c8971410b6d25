------------------------------- MODULE MetaSplit -------------------------------
(***************************************************************************)
(* How the meta backend (ggml/src/ggml-backend-meta.cpp) divides tensors    *)
(* between its devices.  A tensor is split along one axis, or every device  *)
(* has all of it (mirrored), or every device has a summand of it (partial). *)
(* What holds for weights and caches is said by name                        *)
(* (llama_meta_device_get_split_state, src/llama-model.cpp); for a node of  *)
(* a graph it follows from its operation and its sources.                   *)
(*                                                                          *)
(* Axes count from 0, positions in sequences from 1.  A failed assertion    *)
(* makes the axis Unknown, and so that of everything computed from it.      *)
(***************************************************************************)
EXTENDS Integers, Sequences, FiniteSets, FiniteSetsExt, Functions, SequencesExt

Mirrored == 10
Partial == 11
Unknown == 99
Axes == 0 .. 3
IsSplit(axis) == axis \in Axes

\* A model c has a number of devices and their tensor_split, with that of attention and that
\* of the cache (LLAMA_TENSOR_SPLIT_ATTN, _KV; <<>> when not set), query heads per key head
\* (n_gqa), the width of a head, the block sizes of the types of attn_output and ffn_down,
\* and whether the norms of queries and keys are distributed
\* (GGML_META_MINIMAX_DISTRIBUTED_RMS_NORM).
Devices(c) == 0 .. c.devices - 1

-----------------------------------------------------------------------------
(* The weights *)

Norms == {"attn_q_norm", "attn_k_norm"}
Attention == {"attn_q", "attn_kv", "attn_output", "kv_cache"} \cup Norms

\* The axis each kind of tensor is split along.
TensorAxis(c, kind) ==
  CASE kind \in {"attn_q", "attn_kv", "ffn_up_gate", "output"} -> 1
    [] kind \in {"attn_output", "kv_cache", "ffn_down", "ffn_up_gate_bias"} -> 0
    [] kind \in Norms /\ c.distributed -> 0
    [] kind = "ffn_down_exps_bias" -> Partial
    [] OTHER -> Mirrored

TensorSplit(c, kind) ==
  LET split == IF kind \in Attention /\ c.splitAttn # <<>> THEN c.splitAttn ELSE c.split
  IN IF kind = "kv_cache" /\ c.splitKv # <<>> THEN c.splitKv ELSE split

\* Layers take turns in which device rounding favours; all other tensors count as one more layer.
Rotation(c, il) == il % c.devices

\* ggml_blck_size divides heads unevenly: a slice is whole groups of query heads and whole blocks.
Gcd(a, b) == Max({d \in 1 .. a : a % d = 0 /\ b % d = 0})
Lcm(a, b) == (a * b) \div Gcd(a, b)
GranularityQ(c) == Lcm(c.gqa * c.headDim, c.blck)
\* Mutant of Granularity: keys and values rounded like queries.
GranularityAlike(c, kind) ==
  CASE kind \in Attention -> GranularityQ(c)
    [] kind \in {"ffn_up_gate", "ffn_up_gate_bias", "ffn_down"} -> c.ffBlck
    [] OTHER -> 1
Granularity(c, kind) ==
  CASE kind \in {"attn_q", "attn_q_norm", "attn_output"} -> GranularityQ(c)
    [] kind \in {"attn_kv", "attn_k_norm", "kv_cache"} -> GranularityQ(c) \div c.gqa
    [] kind \in {"ffn_up_gate", "ffn_up_gate_bias", "ffn_down"} -> c.ffBlck
    [] OTHER -> 1

\* Device j of the rotated order ends at the granule below its proportion of ne; the last one
\* takes the rest.
RoundDown(x, g) == x - (x % g)
Boundary(ne, part, all, g) == RoundDown((ne * part) \div all, g)
SplitScan(split, rot, j) == MapThenSumSet(LAMBDA k : split[((k + rot) % Len(split)) + 1], 0 .. j)
High(split, ne, g, rot, j) ==
  LET n == Len(split)
      all == SplitScan(split, rot, n - 1)
  IN CASE j = -1 -> 0
       [] j = n - 1 -> ne
       [] OTHER -> IF all = 0 THEN Boundary(ne, j + 1, n, g)
                   ELSE Boundary(ne, SplitScan(split, rot, j), all, g)
Share(split, ne, g, rot, d) ==
  LET j == (d - rot) % Len(split) IN High(split, ne, g, rot, j) - High(split, ne, g, rot, j - 1)

State(axis, ne) == [axis |-> axis, ne |-> ne]
Zeros(c) == [d \in Devices(c) |-> 0]

\* llama_meta_device_get_split_state
WeightState(c, t) ==
  LET axis == TensorAxis(c, t.kind)
      ne == t.ne[axis + 1]
      g == Granularity(c, t.kind)
  IN IF ~IsSplit(axis) THEN State(axis, Zeros(c))
     ELSE IF ne % g # 0 THEN State(Unknown, Zeros(c))
     ELSE State(axis, [d \in Devices(c) |-> Share(TensorSplit(c, t.kind), ne, g, Rotation(c, t.il), d)])

-----------------------------------------------------------------------------
(* Shapes: ne and nb of a tensor, four dimensions *)

Product(ne, dim) == FoldFunctionOnSet(LAMBDA a, b : a * b, 1, ne, 1 .. dim + 1)
Elements(t) == Product(t.ne, 3)
Dims(t) == Max({0} \cup {d \in Axes : t.ne[d + 1] > 1}) + 1
IsPermuted(t) == \E d \in 1 .. 3 : t.nb[d] > t.nb[d + 1]
IsContiguous(t) == \A d \in Axes : t.ne[d + 1] = 1 \/ t.nb[d + 1] = Product(t.ne, d - 1)
SameStrides(t, s) ==
  \A d \in 1 .. 4 : (t.ne[d] = 1 /\ s.ne[d] = 1) \/ t.nb[d] = s.nb[d]

-----------------------------------------------------------------------------
(* The nodes.  Each handler gives the axis of a node from the states ss of its sources.   *)
(* sync: whether the partial sums of the node itself have been added up.                  *)

split_states_equal(a, b) == a = b

handle_generic(ss) == IF \A i \in DOMAIN ss : split_states_equal(ss[i], ss[1]) THEN ss[1].axis ELSE Unknown

\* Operations that cannot take a tensor in slices.
handle_scalar_only(ss) == IF IsSplit(handle_generic(ss)) THEN Unknown ELSE handle_generic(ss)

handle_per_row(ss) == IF ss[1].axis = 0 THEN Unknown ELSE ss[1].axis

Summed(sync) == IF sync THEN Mirrored ELSE Partial
handle_sum_rows(ss, sync) == IF ss[1].axis = 0 THEN Summed(sync) ELSE handle_per_row(ss)

\* The second source may be spread over the first along the split axis; a third one, of
\* ADD_ID, has the ids.
handle_bin_bcast(src, ss) ==
  LET spread == /\ IsSplit(ss[1].axis) /\ ss[2].axis = Mirrored
                /\ src[2].ne[ss[1].axis + 1] = 1
      add_id == /\ Len(ss) = 3 /\ ss[3].axis = Mirrored
                /\ \/ ss[1].axis = ss[2].axis
                   \/ ss[1].axis = Mirrored /\ ss[2].axis = Partial
  IN CASE spread \/ add_id -> ss[1].axis
       [] ~(spread \/ add_id) /\ Len(ss) = 3 /\ ss[3].axis # Mirrored -> Unknown
       [] OTHER -> handle_generic(ss)

\* The weight is the first source: its rows give rows of the result, its columns summands.
handle_mul_mat(ss, sync) ==
  LET axes == <<ss[1].axis, ss[2].axis>>
  IN CASE axes = <<Mirrored, Mirrored>> -> Mirrored
       [] axes = <<1, Mirrored>> -> 0
       [] axes = <<Mirrored, 1>> -> 1
       [] axes = <<0, 0>> /\ split_states_equal(ss[1], ss[2]) -> Summed(sync)
       [] OTHER -> Unknown

\* The axis at which the blocks that lie together in the source end.
handle_reshape(t, src, ss) ==
  LET axis == ss[1].axis
      edges == {Product(src[1].ne, d) : d \in axis .. 3}
      reached == {d \in Axes : Product(t.ne, d) \in edges \/ Product(t.ne, d) > Product(src[1].ne, axis)}
      dim == Min(reached)
  IN IF ~IsSplit(axis) THEN axis
     ELSE IF axis = Dims(src[1]) - 1 THEN Dims(t) - 1
     ELSE IF Product(t.ne, dim) \in edges THEN dim ELSE dim + 1

handle_view(t, src, ss) ==
  LET axis == ss[1].axis
      s == src[1]
      dims == {d \in 0 .. 2 : t.nb[d + 2] = s.nb[axis + 2]}
  IN IF IsContiguous(t) /\ IsContiguous(s) THEN handle_reshape(t, src, ss)
     ELSE IF SameStrides(t, s) \/ axis \in {Mirrored, Partial} THEN axis
     ELSE IF IsPermuted(t) \/ IsPermuted(s) \/ axis = 3 \/ dims = {} THEN Unknown
     ELSE Min(dims)

handle_permute(t, ss) == IF IsSplit(ss[1].axis) THEN t.arg[ss[1].axis + 1] ELSE ss[1].axis

handle_get_rows(ss) ==
  IF ss[1].axis = 0 /\ ss[2].axis = Mirrored THEN 0 ELSE handle_scalar_only(ss)

handle_set_rows(ss) ==
  IF ss[1].axis # 1 /\ ss[2].axis = Mirrored /\ split_states_equal(ss[1], ss[3])
  THEN ss[1].axis ELSE Unknown

handle_rope(ss) == IF ss[2].axis = Mirrored THEN ss[1].axis ELSE Unknown

\* Queries, keys and values by heads.
handle_flash_attn_ext(ss) == IF \A i \in 1 .. 3 : ss[i].axis = 2 THEN 1 ELSE Unknown

NodeAxis(t, src, ss, sync) ==
  CASE \E i \in DOMAIN ss : ss[i].axis = Unknown -> Unknown
    [] t.op \in {"ADD", "ADD_ID", "MUL", "DIV"} -> handle_bin_bcast(src, ss)
    [] t.op \in {"UNARY", "GLU", "SQR", "SQRT", "SCALE", "CLAMP"} -> handle_generic(ss)
    [] t.op \in {"RMS_NORM", "ARGSORT"} -> handle_per_row(ss)
    [] t.op = "SUM_ROWS" -> handle_sum_rows(ss, sync)
    [] t.op \in {"MUL_MAT", "MUL_MAT_ID"} -> handle_mul_mat(ss, sync)
    [] t.op \in {"RESHAPE", "CONT"} -> handle_reshape(t, src, ss)
    [] t.op = "VIEW" -> handle_view(t, src, ss)
    [] t.op = "PERMUTE" -> handle_permute(t, ss)
    [] t.op = "GET_ROWS" -> handle_get_rows(ss)
    [] t.op = "SET_ROWS" -> handle_set_rows(ss)
    [] t.op = "ROPE" -> handle_rope(ss)
    [] t.op = "FLASH_ATTN_EXT" -> handle_flash_attn_ext(ss)

\* The slices keep the proportions of the first source that is split, and those of all others
\* have to agree.
NodeState(c, t, src, ss, sync) ==
  LET axis == NodeAxis(t, src, ss, sync)
      split == {i \in DOMAIN ss : IsSplit(ss[i].axis)}
      first == Min(split)
      srcNe(i) == src[i].ne[ss[i].axis + 1]
      scaled(d) == ss[first].ne[d] * t.ne[axis + 1]
      ne == [d \in Devices(c) |-> scaled(d) \div srcNe(first)]
  IN IF ~IsSplit(axis) THEN State(axis, Zeros(c))
     ELSE IF \A d \in Devices(c) :
               /\ scaled(d) % srcNe(first) = 0
               /\ \A i \in split : ne[d] * srcNe(i) = ss[i].ne[d] * t.ne[axis + 1]
     THEN State(axis, ne)
     ELSE State(Unknown, Zeros(c))

\* ggml_backend_meta_get_split_state: a graph g is its tensors, sources before users, the
\* leaves first, and g.sync what its sources count as: added up.
Sources(g, v) == [i \in DOMAIN g.t[v].src |-> g.t[g.t[v].src[i]]]
SourceStates(g, v, states) == [i \in DOMAIN g.t[v].src |-> states[g.t[v].src[i]]]
SyncStates(c, g) ==
  LET upto[v \in 0 .. Len(g.t)] ==
        IF v = 0 THEN <<>>
        ELSE LET states == upto[v - 1] IN
             Append(states, IF v <= g.leafs THEN WeightState(c, g.t[v])
                            ELSE NodeState(c, g.t[v], Sources(g, v), SourceStates(g, v, states), TRUE))
  IN upto[Len(g.t)]
SplitStates(c, g) ==
  [v \in DOMAIN g.t |->
     IF v <= g.leafs THEN g.sync[v]
     ELSE NodeState(c, g.t[v], Sources(g, v), SourceStates(g, v, g.sync), FALSE)]
==============================================================================
