---------------------------- MODULE MCSchedPipeline ----------------------------
(* Instances of SchedPipeline: two devices and the CPU, over graphs that GraphSplit cuts. *)
EXTENDS SchedPipeline

Cutter == INSTANCE GraphSplit

MCDevices == {1, 2}
MCCpu == 3

Tensor0 ==
  [src |-> <<>>, view |-> "none", viewOp |-> FALSE, buffer |-> "none", weight |-> FALSE,
   input |-> FALSE, runs |-> {1, 2, 3}, wants |-> {}, given |-> 0, rope |-> FALSE, byId |-> FALSE]
User == [Tensor0 EXCEPT !.input = TRUE]
Weight(buffer) == [Tensor0 EXCEPT !.buffer = buffer, !.weight = TRUE]
Node(src) == [Tensor0 EXCEPT !.src = src]
Rope(src) == [Node(src) EXCEPT !.rope = TRUE]
ById(src) == [Node(src) EXCEPT !.byId = TRUE, !.wants = {1, 2}]

Weights ==
  [w1 |-> Weight("m1"), w2 |-> Weight("m2"), wc |-> Weight("host"),
   tokens |-> User, pos |-> User]
Graph(tensors, nodes) ==
  [tensors |-> tensors @@ Weights, nodes |-> nodes, bufts |-> <<"m1", "m2", "host">>,
   uses |-> <<{"m1"}, {"m2"}, {"host"}>>, host |-> {"host"}, offload |-> TRUE, maxInputs |-> 30]

\* A model of two devices: the CPU makes the embeddings; a device's first layer begins with
\* the residual stream, so that it comes before the user's positions.
ResidualFirst == Graph(
  [embd |-> Node(<<"wc", "tokens">>),
   k1 |-> Node(<<"w1", "embd">>), r1 |-> Rope(<<"k1", "pos">>),
   k2 |-> Node(<<"w2", "r1">>), r2 |-> Rope(<<"k2", "pos">>)],
  <<"embd", "k1", "r1", "k2", "r2">>)

\* The user's tensor first; the first device gets the last layers as well, and uses the copy
\* it has.
UserFirst == Graph(
  [a |-> Node(<<"w1", "tokens">>), b |-> Node(<<"w2", "tokens">>), c |-> Node(<<"b", "a">>),
   v |-> [Node(<<"c">>) EXCEPT !.view = "c", !.viewOp = TRUE],
   e |-> Node(<<"w1", "v">>), f |-> Node(<<"e", "tokens">>), g |-> Node(<<"f", "a">>)],
  <<"a", "b", "c", "v", "e", "f", "g">>)

\* The output is computed on the CPU.
OutputOnCpu == Graph(
  [a |-> Node(<<"w1", "tokens">>), b |-> Node(<<"w2", "a">>), c |-> Node(<<"b", "tokens">>),
   out |-> [Node(<<"wc", "c">>) EXCEPT !.runs = {3}], p |-> [Node(<<"out", "tokens">>) EXCEPT !.given = 3]],
  <<"a", "b", "c", "out", "p">>)

\* Experts in the memory of the host, computed by the first device; the second one chooses
\* them.  The second use reads the ids where the first one had them copied.
HostExperts == Graph(
  [up |-> Weight("host"), down |-> Weight("host"),
   ids |-> Node(<<"w2", "tokens">>),
   h |-> ById(<<"up", "tokens", "ids">>), y |-> ById(<<"down", "h", "ids">>)],
  <<"ids", "h", "y">>)

\* Experts in the memory of the device, and a generated token's graph that may be captured
\* where a prompt's may not.
DeviceExperts == Graph(
  [x |-> Weight("m1"), ids |-> Node(<<"w1", "tokens">>), h |-> ById(<<"x", "tokens", "ids">>),
   out |-> [Node(<<"wc", "h">>) EXCEPT !.runs = {3}]],
  <<"ids", "h", "out">>)

\* The plan of a graph, as tables that TLC evaluates once.
Table(f) == FoldSet(LAMBDA x, table : (x :> f[x]) @@ table, <<>>, DOMAIN f)
PlanOf(graph) ==
  LET plan == Cutter!SplitPlan(graph)
  IN [plan EXCEPT !.splits = FoldLeft(Append, <<>>, @), !.home = Table(@), !.maker = Table(@)]
Planned(settings) ==
  {[plan |-> PlanOf(c.graph)] @@ [x \in DOMAIN c \ {"graph"} |-> c[x]] : c \in settings}

Default ==
  [graph |-> ResidualFirst, copies |-> 2, mode |-> "default", allSlots |-> TRUE, peers |-> {},
   sourceEvent |-> FALSE, scheds |-> {1}, captures |-> {}, shapes |-> {1}]
OneVendor == {<<1, 2>>, <<2, 1>>}
OnCpu == [Default EXCEPT !.graph = OutputOnCpu]
Users == [Default EXCEPT !.graph = UserFirst]
Rotating == [Users EXCEPT !.copies = 3, !.mode = "rotate"]

MCSetups == Planned(
  {Default, [Default EXCEPT !.sourceEvent = TRUE],
   [Default EXCEPT !.copies = 3, !.peers = OneVendor],
   [OnCpu EXCEPT !.copies = 1, !.peers = OneVendor], [OnCpu EXCEPT !.mode = "unsynced"],
   [Default EXCEPT !.captures = {1}], [OnCpu EXCEPT !.scheds = {1, 2}],
   [Users EXCEPT !.mode = "unsynced", !.peers = OneVendor], Rotating,
   [Default EXCEPT !.graph = HostExperts], [Default EXCEPT !.graph = HostExperts, !.copies = 1],
   [Default EXCEPT !.graph = [ResidualFirst EXCEPT !.maxInputs = 1]],
   [Default EXCEPT !.graph = DeviceExperts, !.copies = 1, !.captures = {1}, !.shapes = {1, 2}],
   [Default EXCEPT !.graph = DeviceExperts, !.captures = {1}, !.shapes = {1, 2}]})

\* The slots share their memory: GGML_SCHED_COPY_SLOTS_ON_ROTATE_ONLY.
MCSharedSlots == Planned({[Default EXCEPT !.allSlots = FALSE]})

\* Devices of one vendor: the copy goes to the stream of the source.
MCPeerResidual == Planned({[Default EXCEPT !.peers = OneVendor]})

\* Captured graphs and rotating slots: the graph of another slot is replayed.
MCRotateCaptured == Planned({[Rotating EXCEPT !.captures = {1, 2}]})
==============================================================================
