------------------------------ MODULE MCGraphAlloc ------------------------------
(* Instances of GraphAlloc: every small graph, and a few for two backends. *)
EXTENDS GraphAlloc

MCTensors == 1 .. 6
MCBuffers == 1 .. 2

(***************************************************************************)
(* Every graph of one leaf and four nodes, on one backend: each node is a    *)
(* view of an earlier tensor, or reads one or two of them, and is as large   *)
(* as the leaf or larger.                                                    *)
(***************************************************************************)
Op(srcs, of, inplace, size) == [srcs |-> srcs, of |-> of, inplace |-> inplace, size |-> size]
OneOrTwo(n) == {<<s>> : s \in 1 .. n - 1} \cup {<<s, t>> : s \in 1 .. n - 1, t \in 1 .. n - 1}
Sorted(n) == {srcs \in OneOrTwo(n) : Len(srcs) = 2 => srcs[1] <= srcs[2]}
OpsAt(n) ==
  {Op(srcs, 0, i, z) : srcs \in Sorted(n), i \in BOOLEAN, z \in 1 .. 2}
  \cup {Op(<<s>>, s, FALSE, 1) : s \in 1 .. n - 1}
FirstOps == {Op(<<1>>, 0, FALSE, 2), Op(<<1>>, 1, FALSE, 1)}
LastOps == {Op(<<t, 4>>, 0, TRUE, 1) : t \in 1 .. 3}
NoOp == Op(<<>>, 0, FALSE, 1)

Ops(a, b, c, d) == <<NoOp, a, b, c, d, NoOp>>
RootOf(ops) ==
  LET root[t \in MCTensors] == IF ops[t].of = 0 THEN t ELSE root[ops[t].of]
  IN root
GraphOf(ops, inputs, outputs, on) ==
  [leafs |-> <<1>>, nodes |-> <<2, 3, 4, 5>>,
   srcs |-> [t \in MCTensors |-> ops[t].srcs],
   root |-> RootOf(ops), deps |-> {},
   inplace |-> {t \in MCTensors : ops[t].inplace},
   input |-> inputs, output |-> outputs, external |-> {},
   size |-> [t \in MCTensors |-> ops[t].size],
   buffer |-> on]
OneBackend == [t \in MCTensors |-> 1]
Small ==
  {GraphOf(Ops(a, b, c, d), {1}, outs \cup {5}, OneBackend) :
     a \in FirstOps, b \in OpsAt(3), c \in OpsAt(4), d \in LastOps, outs \in {{}, {3}}}

(***************************************************************************)
(* Graphs of one topology that follow each other, with larger and smaller    *)
(* tensors.                                                                  *)
(***************************************************************************)
Resized(g) == [g EXCEPT !.size = [t \in MCTensors |-> 3 - g.size[t]]]
Shrunk(g) == [g EXCEPT !.size = [t \in MCTensors |-> 1]]
ThreeOps == {Op(<<s>>, 0, FALSE, z) : s \in {1, 2}, z \in 1 .. 2} \cup {Op(<<1, 2>>, 0, TRUE, 1)}
Resizable ==
  {GraphOf(Ops(Op(<<1>>, 0, FALSE, 2), b, c, Op(<<4, 3>>, 0, FALSE, 2)), {1}, {5}, OneBackend) :
     b \in ThreeOps, c \in ThreeOps}
Sequels == {{g, Resized(g), Shrunk(g)} : g \in Resizable}

(***************************************************************************)
(* Two backends: node 3 keeps the result 2 until it has been copied to 4,    *)
(* which the second backend reads; the first goes on with the leaf.          *)
(***************************************************************************)
TwoOps ==
  <<NoOp, Op(<<1>>, 0, FALSE, 2), Op(<<2>>, 2, FALSE, 2), Op(<<>>, 0, FALSE, 2),
    Op(<<4>>, 0, TRUE, 2), Op(<<1>>, 0, FALSE, 1)>>
TwoBackends ==
  [GraphOf(TwoOps, {1}, {5}, [t \in MCTensors |-> IF t \in {4, 5} THEN 2 ELSE 1])
     EXCEPT !.nodes = <<2, 3, 4, 5, 6>>, !.deps = {3}]
Moved == [TwoBackends EXCEPT !.buffer = [t \in MCTensors |-> IF t \in {4, 5} THEN 1 ELSE 2]]
MCTwoBackends == {{TwoBackends, Moved, Shrunk(TwoBackends)}}

MCFamilies == {{g} : g \in Small} \cup Sequels \cup MCTwoBackends
==============================================================================
