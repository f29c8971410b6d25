------------------------------- MODULE GraphAlloc -------------------------------
(***************************************************************************)
(* ggml_gallocr (ggml/src/ggml-alloc.c) and the scheduler's use of it       *)
(* (ggml_backend_sched_alloc_splits, ggml_backend_sched_reserve): a graph is *)
(* walked through once to plan where its tensors will be, so that the memory *)
(* of one that nobody reads any more serves the next; the buffers get the    *)
(* size the plan needs; and later graphs that fit the plan reuse it.         *)
(*                                                                          *)
(* A graph is a record: leafs, nodes: sequences of tensors, nodes in the     *)
(* order of their computation; srcs: per tensor, what it reads; root: per    *)
(* tensor, the tensor it is a view of, or itself; deps: the views without an *)
(* operation by which the scheduler keeps a source until it has been copied; *)
(* inplace: those whose operation may overwrite a source; input, output: the *)
(* flags; external: weights and the cache; size; buffer: of its backend.     *)
(* Two tensors have the same layout when they have the same size.            *)
(***************************************************************************)
EXTENDS DynAlloc, SequencesExt

CONSTANTS
  Families,  \* the sets of graphs that are run one after the other
  Failing    \* those among them for which a backend may be out of memory

GraphOK(g) ==
  /\ g.leafs \in Seq(Tensors) /\ g.nodes \in Seq(Tensors) /\ g.srcs \in [Tensors -> Seq(Tensors)]
  /\ g.root \in [Tensors -> Tensors] /\ \A t \in Tensors : g.root[g.root[t]] = g.root[t]
  /\ g.size \in [Tensors -> Sizes] /\ g.buffer \in [Tensors -> Buffers]

ASSUME GraphAssumption == Failing \subseteq Families /\ \A F \in Families : \A g \in F : GraphOK(g)

VARIABLES
  family,           \* fixed
  graph, phase,     \* the graph that is planned or was placed last
  calls,            \* what is left to do of alloc_graph_impl
  children, views,  \* n_children, n_views
  plan,             \* node_allocs, leaf_allocs, and the buffers the scheduler chose for them
  buffers,          \* per buffer, whether it exists and the sizes of its chunks
  placed            \* where the tensors of the graph are

planVars == <<graph, phase, calls, children, views>>
galloc == <<plan, buffers, placed>>
gvars == <<allocVars, family, planVars, galloc>>

IsView(g, t) == g.root[t] # t
Missing == [there |-> FALSE, sizes |-> <<>>]

Init ==
  /\ AllocInit
  /\ family \in Families
  /\ graph \in family /\ phase = "idle"
  /\ calls = <<>>
  /\ children = [t \in Tensors |-> 0] /\ views = [t \in Tensors |-> 0]
  /\ plan = [leafs |-> <<>>, nodes |-> <<>>]
  /\ buffers = [b \in Buffers |-> Missing]
  /\ placed = <<>>

(***************************************************************************)
(* alloc_graph_impl.                                                        *)
(***************************************************************************)
AllocCall(t, b) == [do |-> "allocate", tensor |-> t, buffer |-> b]
DropCall(g, t) == [do |-> "drop", tensor |-> t, buffer |-> g.buffer[t]]

\* "allocate other graph inputs and leafs first to avoid overwriting them"
InputCalls(g, n) ==
  LET these == <<n>> \o g.srcs[n]
  IN FlattenSeq([k \in DOMAIN these |->
       IF these[k] \in g.input THEN <<AllocCall(these[k], g.buffer[n])>> ELSE <<>>])

\* A node's parents, itself, and what it no longer needs.
NodeCalls(g, n) ==
  [j \in DOMAIN g.srcs[n] |-> AllocCall(g.srcs[n][j], g.buffer[n])]
    \o <<AllocCall(n, g.buffer[n])>>
    \o [j \in DOMAIN g.srcs[n] |-> DropCall(g, g.srcs[n][j])]

CallsOf(g) ==
  [i \in DOMAIN g.leafs |-> AllocCall(g.leafs[i], g.buffer[g.leafs[i]])]
    \o FlattenSeq([i \in DOMAIN g.nodes |-> InputCalls(g, g.nodes[i])])
    \o FlattenSeq([i \in DOMAIN g.nodes |-> NodeCalls(g, g.nodes[i])])

ChildrenOf(g) ==
  [t \in Tensors |->
     Cardinality(UNION {{<<n, j>> : j \in {j \in DOMAIN g.srcs[n] : g.srcs[n][j] = t}} : n \in Range(g.nodes)})]

\* Mutant of ViewsOf: the scheduler's dependencies count as well.
ViewsOfAll(g) ==
  [t \in Tensors |-> Cardinality({n \in Range(g.nodes) : n # t /\ g.root[n] = t})]
ViewsOf(g) ==
  [t \in Tensors |-> Cardinality({n \in Range(g.nodes) \ g.deps : n # t /\ g.root[n] = t})]

Needed(t, nchildren, nviews) == nchildren[t] # 0 \/ nviews[t] # 0

\* A parent whose memory the node may take: nobody else reads it and nothing is a view of it.
\* (A view is never allocated itself: the code's branch for view parents is not reached.)
Reusable(t, p) ==
  /\ t \in graph.inplace
  /\ p \in live \ graph.output
  /\ graph.size[p] = graph.size[t]
  /\ children[p] = 1 /\ views[p] = 0
FirstReusable(t, j) ==
  /\ Reusable(t, graph.srcs[t][j])
  /\ \A i \in 1 .. j - 1 : ~Reusable(t, graph.srcs[t][i])

\* ggml_gallocr_allocate_node
AllocateNode(t, b) ==
  IF t \in live \cup graph.external \/ IsView(graph, t)
  THEN UNCHANGED allocVars
  ELSE \/ \E j \in DOMAIN graph.srcs[t] :
            FirstReusable(t, j) /\ TakeOver(t, graph.srcs[t][j], graph.size[t])
       \/ /\ \A j \in DOMAIN graph.srcs[t] : ~Reusable(t, graph.srcs[t][j])
          /\ Allocate(t, b, graph.size[t])

\* ggml_gallocr_free_node: "graph outputs are never freed".
FreeNode(t) == IF t \in live \ graph.output THEN Release(t) ELSE UNCHANGED allocVars

\* Mutant of DropParent: the children of a viewed tensor do not count.
DropParentOfViews(t) ==
  LET r == graph.root[t]
      fewer == [children EXCEPT ![t] = @ - 1]
      unread == ~Needed(t, fewer, views)
  IN /\ children' = fewer
     /\ views' = IF unread /\ IsView(graph, t) THEN [views EXCEPT ![r] = @ - 1] ELSE views
     /\ IF unread /\ (views'[r] = 0 \/ ~IsView(graph, t))
        THEN FreeNode(r)
        ELSE UNCHANGED allocVars

\* A node no longer needs the parent t: who is not read any more is freed, and the source of
\* a view with its last view.
DropParent(t) ==
  LET r == graph.root[t]
      fewer == [children EXCEPT ![t] = @ - 1]
      unread == ~Needed(t, fewer, views)
  IN /\ children' = fewer
     /\ views' = IF unread /\ IsView(graph, t) THEN [views EXCEPT ![r] = @ - 1] ELSE views
     /\ IF unread /\ ~Needed(r, children', views')
        THEN FreeNode(r)
        ELSE UNCHANGED allocVars

Planning == phase \in {"reserving", "allocating"}
Step ==
  /\ Planning /\ calls # <<>>
  /\ \/ /\ \E t \in Tensors, b \in Buffers : Head(calls) = AllocCall(t, b) /\ AllocateNode(t, b)
        /\ UNCHANGED <<children, views>>
     \/ \E t \in Tensors : Head(calls) = DropCall(graph, t) /\ DropParent(t)
  /\ calls' = Tail(calls)
  /\ UNCHANGED <<family, graph, phase, galloc>>

(***************************************************************************)
(* ggml_gallocr_reserve_n.                                                  *)
(***************************************************************************)
BeginPlan(g) ==
  /\ Reset
  /\ calls' = CallsOf(g)
  /\ children' = ChildrenOf(g) /\ views' = ViewsOf(g)

\* What is remembered of a tensor: nothing of views and of what has memory already.
NoAlloc == [own |-> FALSE, at |-> Nowhere, max |-> 0]
AllocOf(g, t) ==
  IF t \in g.external \/ IsView(g, t) THEN NoAlloc
  ELSE [own |-> TRUE, at |-> place[t], max |-> g.size[t]]
PlanOf(g) ==
  [leafs |-> [i \in DOMAIN g.leafs |->
                [dst |-> AllocOf(g, g.leafs[i]), buffer |-> g.buffer[g.leafs[i]]]],
   nodes |-> [i \in DOMAIN g.nodes |->
                LET n == g.nodes[i]
                IN [dst |-> AllocOf(g, n), buffer |-> g.buffer[n],
                    src |-> [j \in DOMAIN g.srcs[n] |-> AllocOf(g, g.srcs[n][j])]]]]

NewSizes(b) == [c \in DOMAIN chunks[b] |-> chunks[b][c].max]
ChunkSize(b, c) == IF c \in DOMAIN buffers[b].sizes THEN buffers[b].sizes[c] ELSE 0

\* Mutant of Outgrown: only the first chunk is compared.
OutgrownFirst(b) ==
  ~buffers[b].there \/ (chunks[b] # <<>> /\ chunks[b][1].max > ChunkSize(b, 1))

\* The buffer does not exist, or one of its chunks is too small.
Outgrown(b) ==
  ~buffers[b].there \/ \E c \in DOMAIN chunks[b] : chunks[b][c].max > ChunkSize(b, c)

Grown(b) == IF Outgrown(b) THEN [there |-> TRUE, sizes |-> NewSizes(b)] ELSE buffers[b]

\* The plan is kept, and the buffers that are too small are allocated anew, in their order,
\* until a backend is out of memory.  What reserve_n returns is ignored by alloc_splits.
Commit ==
  /\ Planning /\ calls = <<>>
  /\ plan' = PlanOf(graph)
  /\ \/ buffers' = [b \in Buffers |-> Grown(b)]
     \/ /\ family \in Failing
        /\ \E failed \in Buffers :
             /\ Outgrown(failed)
             /\ buffers' = [b \in Buffers |->
                  IF b < failed THEN Grown(b) ELSE IF b = failed THEN Missing ELSE buffers[b]]
  /\ phase' = IF phase = "reserving" THEN "idle" ELSE "reserved"
  /\ UNCHANGED <<allocVars, family, graph, calls, children, views, placed>>

(***************************************************************************)
(* ggml_gallocr_alloc_graph, and the scheduler around it.                   *)
(***************************************************************************)

\* ggml_gallocr_node_needs_realloc says whether the tensor fits what is planned for it.
Fits(g, t, a) == t \in g.external \/ IsView(g, t) \/ (a.own /\ g.size[t] <= a.max)

SrcAlloc(i, j) == IF j \in DOMAIN plan.nodes[i].src THEN plan.nodes[i].src[j] ELSE NoAlloc

\* ggml_gallocr_needs_realloc: the leafs are only counted.
NeedsRealloc(g) ==
  \/ Len(plan.nodes) # Len(g.nodes) \/ Len(plan.leafs) # Len(g.leafs)
  \/ \E i \in DOMAIN g.nodes :
       \/ ~Fits(g, g.nodes[i], plan.nodes[i].dst)
       \/ \E j \in DOMAIN g.srcs[g.nodes[i]] : ~Fits(g, g.srcs[g.nodes[i]][j], SrcAlloc(i, j))

\* The first node or leaf of the plan that stands for tensor t decides where it is: leafs,
\* then each node's sources and the node (ggml_gallocr_init_tensor).
Mentions(g) ==
  [i \in DOMAIN g.leafs |-> <<g.leafs[i], plan.leafs[i].dst>>]
    \o FlattenSeq([i \in DOMAIN g.nodes |->
         LET n == g.nodes[i]
         IN Append([j \in DOMAIN g.srcs[n] |-> <<g.srcs[n][j], SrcAlloc(i, j)>>],
                   <<n, plan.nodes[i].dst>>)])
PlacementOf(g) ==
  LET mentions == Mentions(g)
      first(t) == CHOOSE k \in DOMAIN mentions :
                    mentions[k][1] = t /\ \A l \in 1 .. k - 1 : mentions[l][1] # t
      own == {mentions[k][1] : k \in DOMAIN mentions} \ g.external
  IN [t \in {t \in own : ~IsView(g, t)} |-> mentions[first(t)][2]]

\* Other buffers were chosen for the nodes or the leafs than for the graph before.
Differs(planned, g, ts) == \E i \in DOMAIN ts \cap DOMAIN planned : planned[i].buffer # g.buffer[ts[i]]
BackendIdsChanged(g) == Differs(plan.nodes, g, g.nodes) \/ Differs(plan.leafs, g, g.leafs)

\* ggml_vbuffer_tensor_alloc takes the address of a buffer that may not be there.
PlaceGraph(g) ==
  /\ graph' = g /\ placed' = PlacementOf(g)
  /\ phase' = IF \A t \in DOMAIN placed' : buffers[placed'[t].at.buffer].there
              THEN "placed" ELSE "crashed"
  /\ UNCHANGED <<allocVars, family, calls, children, views, plan, buffers>>

Ready == phase \in {"idle", "placed"}

\* alloc_splits: the graph gets memory by the plan there is, or is planned first.
AllocGraph(g) ==
  /\ Ready
  /\ IF BackendIdsChanged(g) \/ NeedsRealloc(g)
     THEN /\ BeginPlan(g) /\ graph' = g /\ phase' = "allocating"
          /\ UNCHANGED <<family, galloc>>
     ELSE PlaceGraph(g)
Place == phase = "reserved" /\ ~NeedsRealloc(graph) /\ PlaceGraph(graph)

\* ggml_backend_sched_reserve, for the largest graph to come.
Reserve(g) ==
  /\ Ready
  /\ BeginPlan(g) /\ graph' = g /\ phase' = "reserving"
  /\ placed' = <<>>
  /\ UNCHANGED <<family, plan, buffers>>

Next ==
  \/ \E g \in family : AllocGraph(g) \/ Reserve(g)
  \/ Step \/ Commit \/ Place

Spec == Init /\ [][Next]_gvars /\ WF_gvars(Step \/ Commit \/ Place)

(***************************************************************************)
(* Properties.                                                              *)
(***************************************************************************)
\* The memory a tensor has, as far as this graph uses it.
MemoryOf(t) == [placed[t].at EXCEPT !.size = graph.size[t]]
Share(t, u) ==
  /\ placed[t].at.buffer = placed[u].at.buffer /\ placed[t].at.chunk = placed[u].at.chunk
  /\ ~Apart(MemoryOf(t), MemoryOf(u))

\* What the computation of the graph needs of the plan, from the graph alone: a node writes
\* its memory when its turn comes, unless it is a view, and what it reads was written by an
\* earlier node, or before all of them, and by no other since.  A node may write what it
\* reads when it can work in place, on exactly the memory of that source.
Writes(n) == n \in DOMAIN placed /\ n \notin Range(graph.leafs)
WrittenAt(t) == IF t \in Range(graph.nodes) THEN CHOOSE i \in DOMAIN graph.nodes : graph.nodes[i] = t ELSE 0
UntouchedUntil(t, i) ==
  \A k \in WrittenAt(t) + 1 .. i : Writes(graph.nodes[k]) => ~Share(graph.nodes[k], t)
InPlace(n, t) == n \in graph.inplace /\ MemoryOf(n) = MemoryOf(t)

\* Every node reads what its sources hold, whatever memory was given to others in between:
\* inputs and leafs are untouched until their last reader, results and what views show as
\* well, and the outputs of the graph are there when it has been computed.
SourcesIntact ==
  phase = "placed" =>
    /\ \A i \in DOMAIN graph.nodes : \A s \in Range(graph.srcs[graph.nodes[i]]) :
         LET n == graph.nodes[i]
             t == graph.root[s]
         IN t \in DOMAIN placed =>
              /\ UntouchedUntil(t, i - 1)
              /\ Writes(n) /\ Share(n, t) => InPlace(n, t)
    /\ \A t \in graph.output \cap DOMAIN placed : UntouchedUntil(t, Len(graph.nodes))

\* Every tensor lies within a chunk that exists, also when the plan and the buffers were made
\* for a larger graph.
InsideBuffers ==
  phase = "placed" =>
    \A t \in DOMAIN placed :
      /\ placed[t].own /\ buffers[placed[t].at.buffer].there
      /\ placed[t].at.chunk \in DOMAIN buffers[placed[t].at.buffer].sizes
      /\ End(MemoryOf(t)) <= ChunkSize(placed[t].at.buffer, placed[t].at.chunk)

\* When a graph has been walked through, only its outputs and what nobody read have memory:
\* what is read has been given back, also when views or the scheduler kept it for a while.
ReadBy(t) == \E n \in Range(graph.nodes) : t \in Range(graph.srcs[n])
NothingKept ==
  Planning /\ calls = <<>> =>
    \A t \in live :
      \/ t \in graph.output
      \/ ~ReadBy(t)
      \/ \E v \in Range(graph.nodes) \ graph.deps : graph.root[v] = t /\ ~ReadBy(v)

\* Every call of alloc_graph ends with the graph placed, as long as there is memory: its plan
\* fits itself, and there is always a block or a chunk left ("since the last chunk always has
\* virtually endless memory, this should never happen").
Placed == phase = "allocating" ~> phase = "placed" \/ (family \in Failing /\ phase = "crashed")
==============================================================================
