------------------------------ MODULE MCKVCache ------------------------------
(***************************************************************************)
(* Finite instances of KVCache: the batches, ranges and operations the runs *)
(* use.  A batch is written ubatch by ubatch.                                *)
(***************************************************************************)
EXTENDS KVRefinesMemory, TLC

\* Unified cache: one row, stream 0.
Row(toks) == 0 :> toks
T0 == {0}
T1 == {1}
T01 == {0, 1}

\* One token, and a prompt in two ubatches with a token two sequences share.
MCSharedBatches ==
  { << Row(<<T0>>) >>,
    << Row(<<T01>>), Row(<<T0, T1>>) >> }

\* One stream per sequence.
MCStreamBatches ==
  { << (1 :> <<T1>>) >>,
    << (0 :> <<T0>>) @@ (1 :> <<T1>>), (1 :> <<T1>>) >> }

\* Batches of one ubatch.
MCSingleUbatches ==
  { << Row(<<T0>>) >>,
    << Row(<<T1, T1>>) >>,
    << Row(<<T0, T1>>) >> }

MCFullRange == {<<-1, -1>>}
MCRanges == {<<-1, -1>>, <<1, -1>>}
MCSuffixes == {<<-1, -1>>, <<1, -1>>, <<2, -1>>}
MCDeltas == {-1, 1}
MCBack == {-1}
==============================================================================
