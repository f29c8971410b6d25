------------------------------ MODULE MCKVState ------------------------------
(***************************************************************************)
(* Finite instances of KVState; batches and ranges are those of MCKVCache.  *)
(***************************************************************************)
EXTENDS KVState, MCKVCache

\* A token of both sequences, and one of sequence 1.
MCStateBatches == { << Row(<<T01>>) >>, << Row(<<T1>>) >> }

\* Sequence 1, or the whole cache.
MCSaves == {-1, 1}
MCWhole == {-1}
==============================================================================
