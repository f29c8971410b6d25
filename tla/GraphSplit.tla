------------------------------ MODULE GraphSplit ------------------------------
(***************************************************************************)
(* How ggml_backend_sched cuts a graph (ggml_backend_sched_split_graph):    *)
(* four passes give each tensor a backend, the fifth cuts the nodes where   *)
(* the backend changes and lists, for each split, the tensors that have to  *)
(* be copied to it.                                                         *)
(*                                                                          *)
(* A graph g has, by the name of the tensor, g.tensors with records of      *)
(*   src, view      sources in order; the tensor that it is a view of       *)
(*   viewOp         a view, reshape, permute, ...: nothing is computed      *)
(*   buffer         the buffer type it is allocated in, or none             *)
(*   weight, input  usage of that buffer, flag of what the user sets        *)
(*   runs, wants    backends that support the operation; that offload it    *)
(*   given          the backend that the graph's callback gave it, or None  *)
(*   rope, byId     the operation is ROPE, MUL_MAT_ID                       *)
(* and g.nodes in order, g.bufts and g.uses with each backend's buffer type *)
(* and those it can work on, g.host, g.offload (op_offload), g.maxInputs.   *)
(* Backends are numbered in order of priority from 1; the last is the CPU.  *)
(***************************************************************************)
EXTENDS Integers, Sequences, FiniteSets, FiniteSetsExt, SequencesExt

None == 0      \* no backend: -1
Nil == "none"  \* no tensor, no buffer

Backends(g) == 1 .. Len(g.bufts)
CpuOf(g) == Len(g.bufts)
Computed(g) == SelectSeq(g.nodes, LAMBDA t : ~g.tensors[t].viewOp)

\* The backend of highest priority in a set.
Highest(S) == IF S = {} THEN None ELSE Min(S)

BufferOf(g, t) ==
  LET x == g.tensors[t] IN IF x.view = Nil THEN x.buffer ELSE g.tensors[x.view].buffer

\* ggml_backend_sched_backend_from_buffer
FromBuffer(g, t, op) ==
  Highest({b \in Backends(g) : BufferOf(g, t) \in g.uses[b] /\ b \in g.tensors[op].runs})

\* A device may want an operation whose weights are in the memory of the host.
Takers(g, t, weight) ==
  IF g.offload /\ FromBuffer(g, weight, t) = CpuOf(g) /\ BufferOf(g, weight) \in g.host
  THEN (g.tensors[t].runs \cap g.tensors[t].wants) \ {CpuOf(g)} ELSE {}

\* ggml_backend_sched_backend_id_from_cur.  It stops the program for an allocated tensor that
\* no backend can compute where it is; there are none here.
FromCur(g, t) ==
  LET x == g.tensors[t]
      weights == SelectSeq(x.src, LAMBDA s : g.tensors[s].weight)
      first == Head(weights)
  IN IF FromBuffer(g, t, t) # None THEN FromBuffer(g, t, t)
     ELSE IF x.input THEN CpuOf(g)
     ELSE IF x.rope \/ weights = <<>> THEN None
     ELSE IF Takers(g, t, first) # {} THEN Min(Takers(g, t, first))
     ELSE FromBuffer(g, first, t)

\* Pass 1: what is in memory already, and what the callback said.
Placed(g) ==
  [t \in DOMAIN g.tensors |->
    IF g.tensors[t].given # None THEN g.tensors[t].given ELSE FromCur(g, t)]

\* Pass 2: a backend spreads to the nodes next to its own, the devices first.
Expand(g, ids, order, devicesOnly) ==
  LET Visit(acc, t) ==
        IF acc.ids[t] # None
        THEN [acc EXCEPT !.cur = IF devicesOnly /\ acc.ids[t] = CpuOf(g) THEN None ELSE acc.ids[t]]
        ELSE IF acc.cur \in g.tensors[t].runs THEN [acc EXCEPT !.ids[t] = acc.cur]
        ELSE acc
  IN FoldLeft(Visit, [ids |-> ids, cur |-> None], order).ids
Expanded(g, ids) ==
  LET down == Computed(g)
      up == Reverse(down)
      devices == Expand(g, Expand(g, ids, down, TRUE), up, TRUE)
  IN Expand(g, Expand(g, devices, down, FALSE), up, FALSE)

\* ggml_backend_sched_buffer_supported
BufferSupported(g, ids, t, b) ==
  LET at == IF ids[t] = None /\ g.tensors[t].view # Nil THEN ids[g.tensors[t].view] ELSE ids[t]
  IN IF BufferOf(g, t) # Nil THEN BufferOf(g, t) \in g.uses[b]
     ELSE at # None /\ g.bufts[at] \in g.uses[b]

\* Pass 3: the backend that has most of the sources; a higher one with the same memory.
Best(g, ids, t) ==
  LET x == g.tensors[t]
      Known(s) == ids[s] # None \/ (g.tensors[s].view # Nil /\ ids[g.tensors[s].view] # None)
      Has(b) == Cardinality({j \in DOMAIN x.src : Known(x.src[j]) /\ BufferSupported(g, ids, x.src[j], b)})
  IN Highest({b \in x.runs : \A c \in x.runs : Has(c) <= Has(b)})
Upgrade(g, ids, t) ==
  Min({ids[t]} \cup {b \in g.tensors[t].runs :
        /\ b < ids[t] /\ g.bufts[b] = g.bufts[ids[t]]
        /\ \A s \in Range(g.tensors[t].src) : BufferSupported(g, ids, s, b)})
Upgraded(g, ids) ==
  LET Visit(acc, t) ==
        [acc EXCEPT ![t] = IF @ = None THEN Best(g, acc, t) ELSE Upgrade(g, acc, t)]
  IN FoldLeft(Visit, ids, Computed(g))

\* Pass 4: views are where their tensor is, other sources where they are used.
Settled(g, ids) ==
  LET Follow(acc, t, otherwise) ==
        IF acc[t] # None THEN acc
        ELSE [acc EXCEPT ![t] = IF g.tensors[t].view # Nil THEN acc[g.tensors[t].view] ELSE otherwise]
      Visit(acc, t) ==
        LET own == Follow(acc, t, None)
            all == FoldLeft(LAMBDA a, s : Follow(a, s, own[t]), own, g.tensors[t].src)
        IN IF all[t] # None THEN all ELSE [all EXCEPT ![t] = Highest(g.tensors[t].runs)]
  IN FoldLeft(Visit, ids, g.nodes)

Assignment(g) == Settled(g, Upgraded(g, Expanded(g, Placed(g))))

\* Pass 5.  A copy serves every later split of the backend.
CopiedTo(splits, b) == UNION {Range(splits[i].inputs) : i \in {j \in DOMAIN splits : splits[j].on = b}}

Foreign(g, ids, t, b) == ids[t] # b /\ ~BufferSupported(g, ids, t, b)

\* With inputs already, a split takes no weight that has to be copied, so that their memory
\* can be used again, and no input over the limit.
Overfull(g, ids, splits, t) ==
  LET split == Last(splits)
      b == ids[t]
  IN /\ split.inputs # <<>>
     /\ \E s \in Range(g.tensors[t].src) :
          /\ Foreign(g, ids, s, b)
          /\ \/ g.tensors[s].weight
             \/ Len(split.inputs) = g.maxInputs /\ s \notin CopiedTo(splits, b)

Opened(g, ids, splits, t) ==
  IF Last(splits).on # ids[t] \/ Overfull(g, ids, splits, t)
  THEN Append(splits, [on |-> ids[t], nodes |-> <<>>, inputs |-> <<>>]) ELSE splits

AddNode(splits, t) == [splits EXCEPT ![Len(splits)].nodes = Append(@, t)]

AddInputs(g, ids, splits, t) ==
  LET b == ids[t]
      Visit(acc, s) ==
        IF Foreign(g, ids, s, b) /\ s \notin CopiedTo(acc, b)
        THEN [acc EXCEPT ![Len(acc)].inputs = Append(@, s)] ELSE acc
  IN FoldLeft(Visit, splits, g.tensors[t].src)

Cut(g, ids) ==
  LET first == [on |-> ids[Head(Computed(g))], nodes |-> <<>>, inputs |-> <<>>]
      Visit(acc, t) ==
        IF g.tensors[t].viewOp THEN AddNode(acc, t)
        ELSE AddNode(AddInputs(g, ids, Opened(g, ids, acc, t), t), t)
  IN FoldLeft(Visit, <<first>>, g.nodes)

(***************************************************************************)
(* What the pipeline needs to know of a graph that has been cut.            *)
(***************************************************************************)

\* Where a tensor is, and whether a backend can work on it there.
Usable(g, ids, t, b) ==
  (IF BufferOf(g, t) # Nil THEN BufferOf(g, t) ELSE g.bufts[ids[t]]) \in g.uses[b]

Maker(g, splits, t) ==
  LET root == IF g.tensors[t].viewOp THEN g.tensors[t].view ELSE t
      makers == {i \in DOMAIN splits : root \in Range(splits[i].nodes)}
  IN IF makers = {} THEN 0 ELSE Min(makers)

\* The weights that are copied expert by expert: the first node of the split is a MUL_MAT_ID
\* with the copy of weights of the host.
Experts(g, splits, i) ==
  LET x == g.tensors[Head(splits[i].nodes)]
      w == x.src[1]
  IN IF /\ x.byId /\ w \in Range(splits[i].inputs)
        /\ g.tensors[w].weight /\ g.tensors[w].buffer \in g.host
     THEN [weights |-> w, ids |-> x.src[3]] ELSE [weights |-> Nil, ids |-> Nil]

Reads(g, split) ==
  UNION {Range(g.tensors[t].src) : t \in {n \in Range(split.nodes) : ~g.tensors[n].viewOp}}

SplitOf(g, ids, splits, i) ==
  LET reads == Reads(g, splits[i])
      copied == reads \cap CopiedTo(SubSeq(splits, 1, i), splits[i].on)
      direct == {t \in reads \ copied : Maker(g, splits, t) # i}
  IN [on |-> splits[i].on, inputs |-> splits[i].inputs, copied |-> copied, direct |-> direct,
      usable |-> {t \in direct : Usable(g, ids, t, splits[i].on)},
      experts |-> Experts(g, splits, i),
      byId |-> \E t \in Range(splits[i].nodes) : g.tensors[t].byId]

PlanFrom(g, ids, splits) ==
  [splits |-> [i \in DOMAIN splits |-> SplitOf(g, ids, splits, i)],
   home |-> ids,
   maker |-> [t \in DOMAIN g.tensors |-> Maker(g, splits, t)],
   user |-> {t \in DOMAIN g.tensors : g.tensors[t].input}]

SplitPlan(g) ==
  LET ids == Assignment(g) IN PlanFrom(g, ids, Cut(g, ids))
===============================================================================
