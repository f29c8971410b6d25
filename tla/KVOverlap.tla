------------------------------ MODULE KVOverlap ------------------------------
(***************************************************************************)
(* llama_context::decode with LLAMA_PIPELINE_FRONT_OVERLAP(_EXEC): a prompt *)
(* ubatch without outputs runs its front layers on one scheduler and its    *)
(* tail layers on another, two such ubatches per turn of the loop.  Front   *)
(* and tail each prepare their graph with prepare_ubatch_with_sched, which  *)
(* calls mctx->apply().                                                      *)
(***************************************************************************)
EXTENDS KVCache

CONSTANT NUbatch  \* cparams.n_ubatch

VARIABLE turn  \* "single", or which ubatch of an overlapped pair is running

overlapVars == <<vars, turn>>

UbatchTokens(k) == Cardinality({t \in Tokens(batch) : t[1] = k})
TokensUpTo(k) == Cardinality({t \in Tokens(batch) : t[1] <= k})

\* Only the last token of the batch has an output.
Eligible ==
  /\ UbatchTokens(iCur) > 1
  /\ TokensUpTo(iCur) + NUbatch < TokensUpTo(Len(batch))

InitO == Init /\ turn = "single"

\* run_front prepares the ubatch on the front scheduler...
RunFront ==
  /\ phase = "apply"
  /\ \/ turn = "single" /\ Eligible /\ turn' = "first"
     \/ turn = "second" /\ UbatchTokens(iCur) > 1 /\ iCur < Len(batch) /\ turn' = turn
  /\ ApplyUbatch(batch[iCur], plan[iCur].slots)
  /\ phase' = "front"
  /\ UNCHANGED <<scInfo, bufVars, batch, plan, copies, doShift, retried, iCur>>

\* ...and run_tail prepares the same ubatch again on the main scheduler.
RunTail ==
  /\ phase = "front"
  /\ ApplyUbatch(batch[iCur], plan[iCur].slots)
  /\ phase' = "compute"
  /\ UNCHANGED <<scInfo, bufVars, batch, plan, copies, doShift, retried, iCur, turn>>

TailDone ==
  /\ turn # "single"
  /\ Compute
  /\ turn' = IF turn = "first" /\ phase' = "apply" THEN "second" ELSE "single"

\* A second ubatch that is not a plain prompt ubatch ends the call with -3, and so do
\* a cut outside the graph's splits and a failed front or tail graph, none of which
\* removes the ubatch from the memory.
GiveUp ==
  /\ \/ turn = "second" /\ phase = "apply" /\ ~(UbatchTokens(iCur) > 1 /\ iCur < Len(batch))
     \/ /\ "compute" \in Failures
        /\ \/ turn # "single" /\ phase \in {"front", "compute"}
           \/ turn = "single" /\ phase = "apply" /\ Eligible
  /\ Return
  /\ turn' = "single"
  /\ UNCHANGED <<memVars, scInfo, bufVars>>

NextO ==
  \/ RunFront \/ RunTail \/ TailDone \/ GiveUp
  \/ /\ turn = "single" /\ UNCHANGED turn
     /\ \/ Operate
        \/ \E b \in Batches, tok \in Toks : DecodeBegin(b, tok)
        \/ Update \/ Prepare \/ Outcome
        \/ ~Eligible /\ Apply
        \/ Compute \/ ComputeFails

SpecO == InitO /\ [][NextO]_overlapVars
==============================================================================
