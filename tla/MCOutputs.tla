------------------------------- MODULE MCOutputs -------------------------------
(* Instances of Outputs: three sequences and batches of up to four tokens. *)
EXTENDS Outputs

MCSeqs == 0 .. 2

\* The batch splitter keeps the order of each sequence's tokens.
Keeps(seqs, order) ==
  \A j, k \in DOMAIN order :
    j < k /\ Range(seqs[order[j] + 1]) \cap Range(seqs[order[k] + 1]) # {} => order[j] < order[k]
Orders(seqs) ==
  LET n == Len(seqs)
  IN {o \in [1 .. n -> 0 .. n - 1] : IsInjective(o) /\ Keeps(seqs, o)}
Batch(seqs, out, order, first) ==
  [seqs |-> seqs, out |-> out, input |-> "token",
   ubatches |-> IF first = Len(order) THEN <<order>>
                ELSE <<SubSeq(order, 1, first), SubSeq(order, first + 1, Len(order))>>]
All(seqs) == 0 .. Len(seqs) - 1
BatchesOf(seqs, outs, firsts) ==
  {Batch(seqs, out, order, first) : out \in outs, order \in Orders(seqs), first \in firsts}
InOrder(seqs) == [j \in DOMAIN seqs |-> j - 1]

Interleaved == <<<<0>>, <<1>>, <<0>>, <<1>>>>
Several == <<<<0>>, <<1>>, <<2>>, <<0>>>>
Shared == <<<<0>>, <<0, 1>>, <<2>>>>
Prompt == <<<<0>>, <<0>>, <<0>>>>
Three == <<<<0>>, <<1>>, <<2>>>>
One == <<<<0>>>>

Setup(embd, preNorm, batches, encodes, smpls, fails, n) ==
  [embd |-> embd, preNorm |-> preNorm, batches |-> batches, encodes |-> encodes,
   samplers |-> smpls, fails |-> fails, eager |-> FALSE, calls |-> n,
   knobs |-> {}, unified |-> TRUE, split |-> FALSE, scheds |-> {}]

\* Every order of four tokens in one or two ubatches, with more outputs than were reserved.
Reordering ==
  Setup("none", "masked", BatchesOf(Interleaved, {All(Interleaved), {1, 2, 3}, {0, 3}}, 1 .. 4)
          \cup BatchesOf(Several, {All(Several), {1, 2, 3}, {}}, 2 .. 3), {}, {}, {"compute"}, 1)

\* Calls that follow each other.
Following ==
  Setup("none", "masked", BatchesOf(Several, {All(Several), {2, 3}}, {2}) \cup BatchesOf(One, {{0}}, {1}),
        {}, {}, {"refuse", "reserve", "compute"}, 2)

\* Samplers come and go; a token of two sequences, one of which samples for itself.
Sampling ==
  Setup("none", "none",
        BatchesOf(Shared, {{1, 2}, {2}}, {2}) \cup BatchesOf(Three, {All(Three)}, {1, 2})
          \cup BatchesOf(Prompt, {{2}}, {2}), {}, {0, 2}, {"refuse", "compute"}, 2)

\* Embeddings of tokens and of sequences, hidden states of all tokens, and the encoder.  Graphs
\* that pool are never reused, and so neither warm-up nor a graph without room can leave one
\* behind that is wrong for a later ubatch (as they do elsewhere, see the README).
Embeddings ==
  {Setup("tokens", "masked", BatchesOf(Three, {All(Three)}, {2}), BatchesOf(One, {{0}}, {1}), {},
         {"refuse"}, 2),
   [Setup("pooled", "none", BatchesOf(Interleaved, {All(Interleaved)}, {2}) \cup BatchesOf(One, {{0}}, {1}),
          {Batch(Prompt, All(Prompt), InOrder(Prompt), 3)}, {}, {"refuse", "compute", "alloc", "encode"}, 2)
      EXCEPT !.knobs = {"warmup"}],
   Setup("none", "unmasked", {Batch(Prompt, {2}, InOrder(Prompt), 2), Batch(Three, {1}, InOrder(Three), 1)},
         {Batch(One, {0}, <<0>>, 1)}, {}, {"compute"}, 3)}

\* Ubatches of equal and of other shapes, of tokens or embeddings, while the client shifts and
\* clears the memory and changes adapters and attention.
Pair == <<<<0>>, <<0>>>>
Other == <<<<1>>, <<1>>>>
Graphs ==
  LET b == {Batch(Pair, {1}, InOrder(Pair), 2), Batch(One, {0}, InOrder(One), 1),
            Batch(Other, {0}, InOrder(Other), 2), Batch(Pair, {1}, InOrder(Pair), 1)}
      base == Setup("none", "none", b \cup {[Batch(Pair, {1}, InOrder(Pair), 2) EXCEPT !.input = "embd"]},
                     {}, {}, {"compute"}, 2)
  IN {[base EXCEPT !.knobs = {"causal", "loras", "shift"}],
      [base EXCEPT !.knobs = {"clear", "cvec", "embeddings"},
                    !.batches = {[c EXCEPT !.out = All(c.seqs)] : c \in b}]}

\* One stream for every sequence: an ubatch has as many tokens of one as of another.  Prompts
\* alternate between two schedulers.
EqualSplits(seqs, u1, u2) ==
  [seqs |-> seqs, out |-> {Len(seqs) - 1}, input |-> "token", ubatches |-> <<u1, u2>>]
Split ==
  {[Setup("none", "none",
          {EqualSplits(<<<<0>>, <<0>>, <<1>>, <<1>>>>, <<0, 2>>, <<1, 3>>),
           EqualSplits(<<<<0>>, <<1>>, <<1>>, <<2>>>>, <<0, 1>>, <<2, 3>>),
           EqualSplits(<<<<0>>, <<0>>, <<1>>, <<2>>>>, <<0, 1>>, <<2, 3>>)},
          {}, smpls, {"compute"}, 2)
      EXCEPT !.unified = FALSE, !.scheds = scheds] :
     scheds \in {{}, {"prompt"}, {"prompt", "wave"}}, smpls \in {{}, {1, 2}}}

\* Prompts whose attention reads the cells they found and the new ones apart, with ubatches of
\* exactly one pad: the cells before an ubatch then follow from those after it.
Long == <<<<0>>, <<0>>, <<0>>, <<0>>>>
Parts ==
  [Setup("none", "none", {Batch(Long, {3}, InOrder(Long), 4), Batch(One, {0}, InOrder(One), 1)},
         {}, {}, {"compute"}, 3)
     EXCEPT !.knobs = {"clear"}, !.split = TRUE]

\* The same with ubatches of half a pad: of two that end in the same padded length, only the
\* first began in a shorter one.
MCHalfPads ==
  {[Setup("none", "none", {Batch(Long, {1, 3}, InOrder(Long), 2)}, {}, {}, {}, 2) EXCEPT !.split = TRUE]}

MCSetups == {Reordering, Following, Sampling, Parts} \cup Embeddings \cup Graphs \cup Split
================================================================================
