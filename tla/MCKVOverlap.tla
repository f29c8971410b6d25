----------------------------- MODULE MCKVOverlap -----------------------------
(***************************************************************************)
(* A prompt of four ubatches of two tokens: the first two are overlapped.   *)
(***************************************************************************)
EXTENDS KVOverlap, TLC

Prompt == 0 :> << {0}, {0} >>
MCPrompts == { << Prompt, Prompt, Prompt, 0 :> << {0} >> >>, << 0 :> << {0} >> >> }
MCFullRange == {<<-1, -1>>}
==============================================================================
