------------------------------ MODULE MetaBackend ------------------------------
(***************************************************************************)
(* The meta backend at work (ggml_backend_meta_graph_compute): one graph is *)
(* cut into subgraphs that every device computes with its own slices, and   *)
(* where a node is only a summand on each device, the summands are added up *)
(* before the next subgraph.  Devices are streams, queues worked off in     *)
(* order while the host goes on; a copy between two of them either waits    *)
(* for both, or, between devices of one vendor, goes to the stream of the   *)
(* source and the destination's waits for it.                               *)
(*                                                                          *)
(* The content of a tensor is abstract: all of it, a slice, a sum of some   *)
(* devices' summands, or nothing that means anything.                       *)
(***************************************************************************)
EXTENDS MetaGraph, Bags, TLC

CONSTANTS
  Setups,     \* models on devices, with the batches that are run
  MaxRounds,  \* bound: graphs that are computed
  MaxFails    \* bound: operations a device refuses

ASSUME BoundsAssumption == MaxRounds \in Nat /\ MaxFails \in Nat

VARIABLES
  setup,                     \* devices, which of them are peers, and the graphs to compute; fixed
  round, fails,              \* graphs begun, operations refused
  uid, maxNodes, maxSubs,    \* uid, max_nnodes, max_subgraphs of the context
  planned,                   \* the graph that was cut last
  mains,                     \* per subgraph, how many nodes cgraph_main has room for; 0 is freed
  cur, todo, ok,             \* the graph being computed, what the host still sends, the last status
  queue, mem, tmp, copied    \* per device: stream, nodes, bufs, copies that left it

context == <<uid, maxNodes, maxSubs, planned, mains>>
host == <<cur, todo, ok>>
streams == <<queue, mem, tmp, copied>>
vars == <<setup, round, fails, context, host, streams>>

NodesOf(G) == G.leafs + 1 .. Len(G.t)

-----------------------------------------------------------------------------
(* Where a graph is cut *)

UseCount(G, v) == Cardinality({<<w, i>> \in NodesOf(G) \X (1 .. 3) :
                                i \in DOMAIN G.t[w].src /\ G.t[w].src[i] = v})

\* skip_unrelated: past the mirrored nodes that do not read node.
SkipUnrelated(G, node, id) ==
  LET related(k) ==
        \/ G.states[k].axis # Mirrored
        \/ \E i \in DOMAIN G.t[k].src : G.t[k].src[i] = node \/ G.states[G.t[k].src[i]].axis # Mirrored
  IN Min({k \in id + 1 .. Len(G.t) : related(k)} \cup {Len(G.t) + 1}) - 1

IsOp(G, k, op) == k <= Len(G.t) /\ G.t[k].op = op

\* A reduction at node may move on to id; ret is the last node that is certain.
At(node, id, ret) == [node |-> node, id |-> id, ret |-> ret]

PastAddId(G, i) ==
  LET id == SkipUnrelated(G, i, i)
      next == G.t[id + 1]
  IN IF IsOp(G, id + 1, "ADD_ID") /\ next.src[1] = i
          /\ G.states[next.src[2]].axis = Partial /\ G.states[next.src[3]].axis = Mirrored
     THEN At(id + 1, id + 1, id + 1)
     ELSE At(i, id, i)

PastMuls(G, at) ==
  LET past[a \in [node : NodesOf(G), id : NodesOf(G), ret : NodesOf(G)]] ==
        LET id == SkipUnrelated(G, a.node, a.id)
            next == G.t[id + 1]
        IN IF IsOp(G, id + 1, "MUL") /\ next.src[1] = a.node /\ G.states[next.src[2]].axis = Mirrored
           THEN past[At(id + 1, id + 1, id + 1)]
           ELSE At(a.node, id, a.ret)
  IN past[at]

\* The views of the used experts' rows, and the additions that join them.
IsExpertView(G, k, node, n) ==
  LET t == G.t[k] IN IsOp(G, k, "VIEW") /\ t.src = <<node>> /\ t.arg = n /\ UseCount(G, k) = 1

PastExperts(G, at) ==
  LET n == UseCount(G, at.node)
      view(k) == at.id + 1 + k
      add(k) == at.id + n + k
  IN IF /\ n = G.t[at.node].ne[2] /\ at.id + 2 * n - 1 <= Len(G.t)
        /\ n >= 2
        /\ \A k \in 0 .. n - 1 : IsExpertView(G, view(k), at.node, k)
        /\ \A k \in 1 .. n - 1 :
             /\ IsOp(G, add(k), "ADD") /\ UseCount(G, add(k)) = 1
             /\ G.t[add(k)].src = <<IF k = 1 THEN view(0) ELSE add(k - 1), view(k)>>
     THEN add(n - 1) ELSE at.ret

\* get_i_delayed
Delayed(G, i) ==
  LET muls == PastMuls(G, PastAddId(G, i))
  IN IF muls.id = Len(G.t) THEN muls.ret ELSE PastExperts(G, muls)

\* The subgraphs: first node, the node they were cut at, last node.
Subgraphs(G) ==
  LET after[i \in 0 .. Len(G.t)] ==
        LET cut == Min({k \in i + 1 .. Len(G.t) : G.states[k].axis = Partial} \cup {Len(G.t)})
            last == Delayed(G, cut)
        IN <<[first |-> i + 1, cut |-> cut, last |-> last]>>
           \o IF last = Len(G.t) THEN <<>> ELSE after[last]
  IN after[G.leafs]

\* The devices that do not compute a node (GGML_TENSOR_FLAG_COMPUTE): those with an empty slice
\* of a source, and those that left out the node at which the reduction was due before.
NoSlice(c, G) ==
  [v \in DOMAIN G.t |-> {d \in Devices(c) : \E i \in DOMAIN G.t[v].src :
     IsSplit(G.sync[G.t[v].src[i]].axis) /\ G.sync[G.t[v].src[i]].ne[d] = 0}]
\* Mutant of LeftOut: a delayed reduction does not look at the node at which it was due.
LeftOutLast(c, G) == NoSlice(c, G)
LeftOut(c, G) ==
  LET off == NoSlice(c, G)
      due(v) == {G.parts[n].cut : n \in {k \in DOMAIN G.parts : G.parts[k].cut < v /\ v <= G.parts[k].last}}
  IN [v \in DOMAIN G.t |-> off[v] \cup UNION {off[i] : i \in due(v)}]

\* A graph, with what is known of it before it is computed.
Synced(c, graphs) == {[sync |-> SyncStates(c, G)] @@ G : G \in graphs}
States(c, graphs) == {[states |-> SplitStates(c, G)] @@ G : G \in graphs}
Parts(graphs) == {[parts |-> Subgraphs(G)] @@ G : G \in graphs}
Plan(c, G) ==
  [uid |-> G.uid, leafs |-> G.leafs, parts |-> G.parts, off |-> LeftOut(c, G),
   op |-> [v \in DOMAIN G.t |-> G.t[v].op], src |-> [v \in DOMAIN G.t |-> G.t[v].src],
   axis |-> [v \in DOMAIN G.t |-> G.states[v].axis],
   unread |-> {v \in NodesOf(G) : UseCount(G, v) = 0}]
Planned(c, b) == CHOOSE p \in {Plan(c, G) : G \in Parts(States(c, Synced(c, {GraphOf(c, b)})))} : TRUE

Prepared(s) ==
  [devices |-> s.model.devices, peers |-> s.peers,
   graphs |-> [g \in DOMAIN s.batches |-> Planned(s.model, s.batches[g])]]
Devs == 0 .. setup.devices - 1
Graphs == DOMAIN setup.graphs
Graph(g) == setup.graphs[g]
Computable(g) == Graph(g).leafs + 1 .. Len(Graph(g).op)

-----------------------------------------------------------------------------
(* What the nodes contain *)

\* Summand <<o, d>> is what device d has of node o; a partial weight is spread over all.
Value(kind) == [kind |-> kind, of |-> EmptyBag, need |-> {}]
All == Value("all")
Slice == Value("slice")
Residue == Value("residue")  \* of something else
Junk == Value("junk")
Summands(of, need) == [kind |-> "sum", of |-> of, need |-> need]

\* A sum is the whole when it has every summand once.
Whole(x) == IF x.kind = "sum" /\ x.of = SetToBag(x.need) THEN All ELSE x

PartsOf(v, devs) == {<<v, d>> : d \in devs}
LeafValue(axis, d, v) ==
  CASE IsSplit(axis) -> Slice
    [] axis = Partial -> Summands(SetToBag({<<v, d>>}), PartsOf(v, Devs))
    [] OTHER -> All

\* Two sums added on one device: of one origin (the rows of several experts), or of two.
Joined(x, y) ==
  CASE x = y -> x
    [] x.need \cap y.need = {} -> Summands(x.of (+) y.of, x.need \cup y.need)
    [] OTHER -> Junk

\* What a device makes of a node from its sources xs.  A sum can be scaled, viewed and added
\* to another one; everything else needs the whole.
Linear(op, xs) ==
  CASE op \in {"VIEW", "RESHAPE", "CONT"} -> xs[1]
    [] op \in {"MUL", "DIV"} /\ xs[2] = All -> xs[1]
    [] op \in {"ADD", "ADD_ID"} /\ xs[1].kind = "sum" /\ xs[2].kind = "sum" -> Joined(xs[1], xs[2])
    [] OTHER -> Junk
Result(G, d, v, xs) ==
  LET kinds == {xs[i].kind : i \in DOMAIN xs}
      axis == G.axis[v]
  IN CASE axis = Partial /\ kinds \subseteq {"slice", "all"} ->
            Summands(SetToBag({<<v, d>>}), PartsOf(v, Devs \ G.off[v]))
       [] IsSplit(axis) /\ kinds \subseteq {"slice", "all"} -> Slice
       [] axis = Mirrored /\ kinds = {"all"} -> All
       [] axis = Mirrored /\ "sum" \in kinds -> Linear(G.op[v], xs)
       [] OTHER -> Junk

\* A subgraph on device d, node after node.
Computed(g, d, part, before) ==
  LET G == Graph(g)
      value(v, m) == IF v <= G.leafs THEN LeafValue(G.axis[v], d, v) ELSE Whole(m[v])
      step(m, v) ==
        IF d \in G.off[v] THEN m
        ELSE [m EXCEPT ![v] = Result(G, d, v, [i \in DOMAIN G.src[v] |-> value(G.src[v][i], m)])]
  IN FoldLeft(step, before, [k \in 1 .. part.last - part.first + 1 |-> part.first + k - 1])

-----------------------------------------------------------------------------
(* What the host sends *)

InOrder(f, a, b) == [k \in 1 .. b - a + 1 |-> f[a + k - 1]]
Instr(op, d, from, buf, i) == [op |-> op, on |-> d, from |-> from, buf |-> buf, sub |-> i]

\* Half of the largest power of two not above the number of devices.
Half == Max({k \in {0, 1, 2, 4, 8} : 2 * k <= setup.devices})
Partner(d, offset) == IF (d \div offset) % 2 = 0 THEN d + offset ELSE d - offset

\* push_data, then the addition that uses it.
Push(i, from, to, buf) == Instr("copy", to, from, buf, i)
Reduce(i, d, buf) == Instr("add", d, d, buf, i)

\* Neighbours at half the devices' distance exchange their sums, then at a quarter, ...
Butterfly(i, buf) ==
  LET from[offset \in 0 .. Half] ==
        IF offset = 0 THEN <<>>
        ELSE LET k == buf + Cardinality({n \in {2, 4, 8} : n * offset <= Half}) IN
             InOrder([d \in Devs |-> Push(i, d, Partner(d, offset), k)], 0, 2 * Half - 1)
             \o InOrder([d \in Devs |-> Reduce(i, d, k)], 0, 2 * Half - 1)
             \o from[offset \div 2]
  IN from[Half]

\* allreduce_fallback of subgraph i: nodes left out become zero, the devices beyond the power
\* of two hand their summand over and get the sum in the end.
AllReduce(g, i) ==
  LET zeros == SetToSortSeq(Graph(g).off[Graph(g).parts[i].last], <)
      excess == [k \in 1 .. setup.devices - 2 * Half |-> 2 * Half + k - 1]
      fold(d) == LET buf == IF d = 2 * Half THEN 0 ELSE 1
                 IN <<Push(i, d, d - 2 * Half, buf), Reduce(i, d - 2 * Half, buf)>>
  IN [k \in DOMAIN zeros |-> Instr("zero", zeros[k], zeros[k], 0, i)]
     \o FlattenSeq([k \in DOMAIN excess |-> fold(excess[k])])
     \o Butterfly(i, IF excess = <<>> THEN 0 ELSE 1)
     \o [k \in DOMAIN excess |-> Instr("back", excess[k], excess[k] - 2 * Half, 0, i)]

\* The last subgraph is not reduced.
Program(g) ==
  LET n == Len(Graph(g).parts) IN
  FlattenSeq([i \in 1 .. n |->
    InOrder([d \in Devs |-> Instr("main", d, d, 0, i)], 0, setup.devices - 1)
    \o IF setup.devices > 1 /\ i < n THEN AllReduce(g, i) ELSE <<>>])

-----------------------------------------------------------------------------
NoTmp == [round |-> 0, sub |-> 0, value |-> Junk]
Init ==
  /\ setup \in {Prepared(s) : s \in Setups}
  /\ round = 0 /\ fails = 0
  /\ uid = 0 /\ maxNodes = 0 /\ maxSubs = 0 /\ planned = 0 /\ mains = <<>>
  /\ cur = 0 /\ todo = <<>> /\ ok = FALSE
  /\ queue = [d \in Devs |-> <<>>]
  /\ mem = [d \in Devs |-> <<>>]
  /\ tmp = [d \in Devs |-> [b \in 0 .. 2 |-> NoTmp]]
  /\ copied = [d \in Devs |-> 0]

Idle == todo = <<>>
Drained == \A d \in Devs : queue[d] = <<>>

\* Mutant of Rebuild: a graph of a subgraph has room for the longest subgraph of the graph it is made for.
RebuildShort(g) ==
  LET G == Graph(g)
      nodes == Len(G.op) - G.leafs
      n == Len(G.parts)
      longest == Max({G.parts[i].last - G.parts[i].first + 1 : i \in 1 .. n})
      raised == nodes > maxNodes
  IN /\ uid' = G.uid /\ planned' = g
     /\ maxNodes' = Max({nodes, maxNodes})
     /\ IF raised \/ n > maxSubs
        THEN /\ maxSubs' = Max({maxSubs, n})
             /\ mains' = [i \in 1 .. maxNodes' |-> IF i <= n THEN longest ELSE 0]
        ELSE UNCHANGED <<maxSubs, mains>>

\* A graph of its own uid, or one without, is cut anew.  The graphs of the subgraphs live in
\* one ggml context that is made anew when it may be too small; only those this graph needs
\* are put into it, and with as many nodes as this graph has.
Rebuild(g) ==
  LET G == Graph(g)
      nodes == Len(G.op) - G.leafs
      n == Len(G.parts)
      raised == nodes > maxNodes
  IN /\ uid' = G.uid /\ planned' = g
     /\ maxNodes' = Max({nodes, maxNodes})
     /\ IF raised \/ n > maxSubs
        THEN /\ maxSubs' = Max({maxSubs, n})
             /\ mains' = [i \in 1 .. maxNodes' |-> IF i <= n THEN nodes ELSE 0]
        ELSE UNCHANGED <<maxSubs, mains>>

\* The devices may still be at work for the graph before, a failed one too.
GraphCompute(g) ==
  /\ Idle /\ round < MaxRounds
  /\ round' = round + 1 /\ cur' = g /\ ok' = FALSE
  /\ IF Graph(g).uid = 0 \/ Graph(g).uid # uid THEN Rebuild(g) ELSE UNCHANGED context
  /\ todo' = Program(planned')
  /\ UNCHANGED <<setup, fails, streams>>

\* The operations of a stream carry the graph they are of.
Sent == [instr |-> Head(todo), round |-> round, graph |-> planned]
Wait(d, n) == [instr |-> Instr("wait", d, Head(todo).from, n, 0), round |-> round, graph |-> planned]
Done == /\ todo' = Tail(todo) /\ ok' = (Tail(todo) = <<>>)
Kept == UNCHANGED <<setup, round, fails, context, cur>>

\* ggml_backend_graph_compute_async of a subgraph, a zeroing or an addition.
Launch ==
  /\ ~Idle /\ Head(todo).op \in {"main", "zero", "add"}
  /\ queue' = [queue EXCEPT ![Head(todo).on] = Append(@, Sent)]
  /\ Done /\ Kept /\ UNCHANGED <<mem, tmp, copied>>
LaunchFails ==
  /\ ~Idle /\ Head(todo).op \in {"main", "zero", "add"} /\ fails < MaxFails
  /\ fails' = fails + 1 /\ todo' = <<>> /\ ok' = FALSE
  /\ UNCHANGED <<setup, round, context, cur, streams>>

Output(g, i) == Graph(g).parts[i].last
Delivered(c, r, g) ==
  LET v == mem[c.from][Output(g, c.sub)]
  IN IF c.op = "back"
     THEN /\ mem' = [mem EXCEPT ![c.on][Output(g, c.sub)] = v]
          /\ UNCHANGED tmp
     ELSE /\ tmp' = [tmp EXCEPT ![c.on][c.buf] = [round |-> r, sub |-> c.sub, value |-> v]]
          /\ UNCHANGED mem

\* ggml_backend_tensor_copy_async: devices of one vendor, or all others.
IsPeerCopy(c) == <<c.from, c.on>> \in setup.peers
CopyBlocking ==
  /\ ~Idle /\ Head(todo).op \in {"copy", "back"} /\ ~IsPeerCopy(Head(todo))
  /\ queue[Head(todo).from] = <<>> /\ queue[Head(todo).on] = <<>>
  /\ Delivered(Head(todo), round, planned)
  /\ Done /\ Kept /\ UNCHANGED <<queue, copied>>
PeerCopies(d) == copied[d] + Cardinality({k \in DOMAIN queue[d] : queue[d][k].instr.op \in {"copy", "back"}})
CopyPeer ==
  /\ ~Idle /\ Head(todo).op \in {"copy", "back"} /\ IsPeerCopy(Head(todo))
  /\ LET c == Head(todo) IN
     queue' = [queue EXCEPT ![c.from] = Append(@, Sent),
                            ![c.on] = Append(@, Wait(c.on, PeerCopies(c.from) + 1))]
  /\ Done /\ Kept /\ UNCHANGED <<mem, tmp, copied>>

\* A device takes the next operation of its stream.  A graph begins on memory that held
\* something else; zero times that is taken to be zero, though it may not be a number.
Added(d, q, v) ==
  LET x == mem[d][v]
      y == tmp[d][q.instr.buf]
  IN IF y.round = q.round /\ y.sub = q.instr.sub /\ x.kind = "sum" /\ y.value.kind = "sum"
     THEN Summands(x.of (+) y.value.of, x.need \cup y.value.need) ELSE Junk
Nothing == Summands(EmptyBag, {})
Device(d) ==
  /\ queue[d] # <<>>
  /\ LET q == Head(queue[d])
         part == Graph(q.graph).parts[q.instr.sub]
         before == IF q.instr.sub = 1 THEN [v \in Computable(q.graph) |-> Residue] ELSE mem[d]
     IN \/ /\ q.instr.op = "main"
           /\ mem' = [mem EXCEPT ![d] = Computed(q.graph, d, part, before)]
           /\ UNCHANGED <<tmp, copied>>
        \/ /\ q.instr.op = "zero"
           /\ mem' = [mem EXCEPT ![d][part.last] = Nothing]
           /\ UNCHANGED <<tmp, copied>>
        \/ /\ q.instr.op = "add"
           /\ mem' = [mem EXCEPT ![d][part.last] = Added(d, q, part.last)]
           /\ UNCHANGED <<tmp, copied>>
        \/ /\ q.instr.op \in {"copy", "back"}
           /\ Delivered(q.instr, q.round, q.graph)
           /\ copied' = [copied EXCEPT ![d] = @ + 1]
        \/ /\ q.instr.op = "wait" /\ copied[q.instr.from] >= q.instr.buf
           /\ UNCHANGED <<mem, tmp, copied>>
  /\ queue' = [queue EXCEPT ![d] = Tail(@)]
  /\ UNCHANGED <<setup, round, fails, context, host>>

-----------------------------------------------------------------------------
(* Every assertion about the slices holds: what meets in an operation is divided alike. *)
SplitsResolve == \A g \in Graphs : Unknown \notin Range(Graph(g).axis)

\* The sum of the parts is the whole: when a graph was computed and the devices are done, none
\* of them has made anything of values that do not belong together, and of what nobody reads
\* any more, the results, each has all, or its slice.
PartsMakeTheWhole ==
  Idle /\ ok /\ Drained =>
    LET G == Graph(cur)
        result(v) == IF G.axis[v] = Mirrored THEN All ELSE Slice
    IN \A d \in Devs :
         /\ DOMAIN mem[d] = Computable(cur)
         /\ \A v \in Computable(cur) :
              /\ Whole(mem[d][v]) # Junk
              /\ v \in G.unread /\ d \notin G.off[v] => Whole(mem[d][v]) = result(v)

\* A subgraph fits into the graph it is put into, whichever graph that was made for, and that
\* graph still exists.
GraphsFit ==
  planned # 0 =>
    LET parts == Graph(planned).parts IN
    \A i \in DOMAIN parts : i \in DOMAIN mains /\ parts[i].last - parts[i].first < mains[i]

Stopped == Idle /\ Drained /\ round = MaxRounds /\ UNCHANGED vars

Next ==
  \/ \E g \in Graphs : GraphCompute(g)
  \/ Launch \/ LaunchFails \/ CopyBlocking \/ CopyPeer
  \/ \E d \in Devs : Device(d)
  \/ Stopped

Spec == Init /\ [][Next]_vars
==============================================================================
