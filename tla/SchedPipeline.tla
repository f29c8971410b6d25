----------------------------- MODULE SchedPipeline -----------------------------
(***************************************************************************)
(* ggml_backend_sched (ggml/src/ggml-backend.cpp) as llama_context drives   *)
(* it: one host thread sends the splits of graph after graph to backends    *)
(* that work on their own, and does not wait for the results.  A backend is *)
(* a stream, a queue of copies, computations and events in order; the last  *)
(* backend, the CPU, computes while the host waits.                         *)
(*                                                                          *)
(* What a split reads from another backend is first copied into the split's *)
(* backend, into one of n_copies slots, so that several graphs may be under *)
(* way.  An event per backend and slot tells when the slot is free again.   *)
(* A context may have a second scheduler (LLAMA_PIPELINE_WAVE_ALT,          *)
(* LLAMA_MINIMAX_PHASE_PROMPT_SCHED) with memory and events of its own on   *)
(* the same backends.  A CUDA backend may replay the graph that it captured *)
(* when it was sent a split before, with the addresses of that time.        *)
(*                                                                          *)
(* The content of a tensor is the number of the graph it was made for.  The *)
(* splits and what each reads are SplitPlan of GraphSplit.                  *)
(***************************************************************************)
EXTENDS Integers, Sequences, FiniteSets, SequencesExt

CONSTANTS
  Devices,   \* backends with a stream of their own
  Cpu,       \* the last backend
  Setups,    \* graphs and settings that are run
  MaxRounds  \* bound: graphs that are computed

\* A setup has the plan of the graph, n_copies, the schedulers, the pairs of backends with
\* cpy_tensor_async, the backends that capture graphs, the shapes of batches (the second is
\* too large for MUL_MAT_ID to be captured), and the settings.
Modes == {"default", "rotate", "unsynced"}
Nobody == 0
MainSched == 1
NoTensor == "none"
ASSUME SetupsAssumption ==
  /\ Cpu \notin Devices /\ MaxRounds \in Nat
  /\ \A c \in Setups :
       /\ c.copies \in Nat \ {0} /\ c.mode \in Modes
       /\ MainSched \in c.scheds /\ c.scheds \subseteq Nat \ {Nobody}
       /\ c.shapes \subseteq {1, 2}
       /\ c.peers \subseteq Devices \X Devices /\ c.captures \subseteq Devices
       /\ c.allSlots \in BOOLEAN /\ c.sourceEvent \in BOOLEAN

\* What split_graph makes sure of.  A tensor is copied to a backend once, for the first split
\* that needs it, from the backend of the split that made it before; what is not copied was
\* made before on the same backend or is the user's on the CPU; experts are copied to devices.
PlanOK(plan) ==
  LET on(s) == plan.splits[s].on
      inputs(s) == plan.splits[s].inputs
      made(t, s) == plan.maker[t] = 0 \/ plan.maker[t] \in 1 .. s - 1
  IN /\ plan.splits \in Seq(Range(plan.splits)) /\ plan.splits # <<>>
     /\ \A s \in DOMAIN plan.splits :
          LET split == plan.splits[s]
          IN /\ on(s) \in Devices \cup {Cpu} /\ inputs(s) \in Seq(Range(inputs(s)))
             /\ Range(inputs(s)) \subseteq split.copied
             /\ \A t \in split.copied : \E r \in 1 .. s : on(r) = on(s) /\ t \in Range(inputs(r))
             /\ \A r \in DOMAIN plan.splits, i \in DOMAIN inputs(s) : \A j \in DOMAIN inputs(r) :
                  on(r) = on(s) /\ inputs(r)[j] = inputs(s)[i] => r = s /\ j = i
             /\ \A t \in Range(inputs(s)) \ plan.user :
                  made(t, s) /\ (plan.maker[t] # 0 => on(plan.maker[t]) = plan.home[t])
             /\ \A t \in split.direct :
                  /\ t \in split.usable
                  /\ IF t \in plan.user THEN on(s) = Cpu
                     ELSE made(t, s) /\ (plan.maker[t] # 0 => on(plan.maker[t]) = on(s))
             /\ split.experts.weights # NoTensor =>
                  /\ on(s) \in Devices /\ split.experts.weights \notin plan.user
                  /\ split.experts.ids \in (split.copied \cup split.direct) \ {NoTensor, split.experts.weights}
             /\ NoTensor \notin split.copied
ASSUME PlansAssumption == \A c \in Setups : PlanOK(c.plan)

VARIABLES
  setup,            \* fixed
  round,            \* graphs begun
  copies,           \* n_copies, 1 when the pipeline did not fit in memory
  scheds,           \* the schedulers
  at,               \* the host: scheduler, split and input it is at, expert ids it has read
  user,             \* per scheduler and slot, what the user's tensors hold on the CPU
  slots, result,    \* what the copies and the splits' results hold
  queue,            \* per device, the operations of its stream that are still to come
  recorded, passed, \* per event, how often it was put on the stream, and reached
  graphs            \* per split, what the CUDA backend keeps (ggml_cuda_graph)

\* scheds[d] has cur_copy, next_copy, is_alloc; built, cur_copy when the graph was allocated
\* (the slot of the user's tensors), uid of the splits' graphs, shape of the batch, and place,
\* which stands for the addresses of its memory.
host == <<copies, scheds>>
memory == <<user, slots, result>>
streams == <<queue, recorded, passed>>
vars == <<setup, round, host, at, memory, streams, graphs>>

Plan == setup.plan
Splits == Plan.splits
AllCopies == 0 .. setup.copies - 1
Copied == UNION {{<<Splits[s].on, t>> : t \in Range(Splits[s].inputs)} : s \in DOMAIN Splits}
NotRead == [tensor |-> NoTensor, copy |-> FALSE, value |-> 0]
Idle == [sched |-> Nobody, split |-> 0, input |-> 0, ids |-> NotRead]
Garbage == 0

\* events[backend][copy] of a scheduler, NULL without pipelining and on the CPU, and the
\* copy_event of a device (of no scheduler).
Events == (Devices \X setup.scheds \X AllCopies) \cup {<<b, Nobody, 0>> : b \in Devices}
HasEvent(b) == copies > 1 /\ b # Cpu
CopyEvent(b) == <<b, Nobody, 0>>

\* Where slot c of a copy is.  With GGML_SCHED_COPY_SLOTS_ON_ROTATE_ONLY only slot 0 is a
\* leaf of its own; the slot in use gets the address its node had when memory was reserved,
\* with slot 0 in use.
Place(c) == IF setup.allSlots THEN c ELSE 0

NewSched == [cur |-> 0, next |-> 0, alloc |-> FALSE, built |-> 0, uid |-> 0, shape |-> 1, place |-> 0]
NoAddresses == [slot |-> -1, place |-> -1, shape |-> 0]
NoGraph == [uid |-> 0, props |-> NoAddresses, warm |-> FALSE, instance |-> NoAddresses]
SplitsOf == setup.scheds \X DOMAIN Splits

Init ==
  /\ setup \in Setups
  /\ round = 0 /\ copies = setup.copies
  /\ scheds = [d \in setup.scheds |-> NewSched]
  /\ at = Idle
  /\ user = [k \in setup.scheds \X AllCopies |-> Garbage]
  /\ slots = [k \in setup.scheds \X Copied \X AllCopies |-> Garbage]
  /\ result = [k \in SplitsOf |-> Garbage]
  /\ queue = [b \in Devices |-> <<>>]
  /\ recorded = [e \in Events |-> 0] /\ passed = [e \in Events |-> 0]
  /\ graphs = [k \in SplitsOf |-> NoGraph]

(***************************************************************************)
(* The streams.                                                             *)
(***************************************************************************)
\* Addresses: the slot and the place of the memory that an operation uses.
Operation(op, d, s, to) == [op |-> op, sched |-> d, split |-> s, tensor |-> NoTensor, value |-> 0,
                            to |-> to, on |-> CopyEvent(Cpu), count |-> 0]
RecordOp(e) == [Operation("record", Nobody, 0, NoAddresses) EXCEPT !.on = e]

\* Mutant of WaitOp: the wait is for a recording that is still to come.
WaitOpNext(e) == [RecordOp(e) EXCEPT !.op = "wait", !.count = recorded[e] + 1]

\* cudaStreamWaitEvent: for the work the event stood for when the wait was called.
WaitOp(e) == [RecordOp(e) EXCEPT !.op = "wait", !.count = recorded[e]]

Reached(e) == passed[e] = recorded[e]
Drained(b) == b \in Devices => queue[b] = <<>>
AllDrained == \A b \in Devices : Drained(b)

\* What a tensor holds: the result of the split that makes it, and weights suit every graph r.
Holds(d, t, r) == IF Plan.maker[t] = 0 THEN r ELSE result[<<d, Plan.maker[t]>>]
SlotOf(o) == <<o.sched, <<Splits[o.split].on, o.tensor>>, o.to.slot>>

\* Experts that have been copied stay where they are ("set").
Perform(b) ==
  /\ queue[b] # <<>>
  /\ LET o == Head(queue[b])
     IN /\ o.op = "wait" => passed[o.on] >= o.count
        /\ slots' = CASE o.op = "copy" -> [slots EXCEPT ![SlotOf(o)] = Holds(o.sched, o.tensor, o.value)]
                      [] o.op = "set" -> [slots EXCEPT ![SlotOf(o)] = IF o.value > @ THEN o.value ELSE @]
                      [] OTHER -> slots
        /\ result' = IF o.op = "compute" THEN [result EXCEPT ![<<o.sched, o.split>>] = o.value] ELSE result
        /\ passed' = IF o.op = "record" THEN [passed EXCEPT ![o.on] = @ + 1] ELSE passed
  /\ queue' = [queue EXCEPT ![b] = Tail(@)]
  /\ UNCHANGED <<setup, round, host, at, user, recorded, graphs>>

(***************************************************************************)
(* The host between graphs: prepare_ubatch_with_sched.                      *)
(***************************************************************************)

\* set_inputs writes the user's tensors, whose place is the slot the graph was allocated for;
\* a rotation also copies them into the slot of the CPU that is current now.
InputsSet(d, home, rotated) ==
  user' = [k \in DOMAIN user |->
    IF k[1] = d /\ (k[2] = home \/ (rotated /\ k[2] = scheds'[d].cur)) THEN round + 1 ELSE user[k]]

Begin(d) == round' = round + 1 /\ at' = [Idle EXCEPT !.sched = d, !.split = 1, !.input = 1]
Free == at = Idle /\ round < MaxRounds

\* Memory is reserved again: what it held is lost, and it may be elsewhere, which only a graph
\* that was captured tells apart.
Lost(m, d) == [k \in DOMAIN m |-> IF k[1] = d THEN Garbage ELSE m[k]]
MayMove(d) ==
  {scheds[d].place} \cup (IF setup.captures = {} THEN {} ELSE {round + 1})
MemoryLost(d) == slots' = Lost(slots, d) /\ result' = Lost(result, d)

Advanced(d) ==
  [scheds[d] EXCEPT !.cur = scheds[d].next, !.next = (scheds[d].next + 1) % copies]

\* A new graph: reset, alloc_graph with the next slot, set_inputs.  When memory has to be
\* reserved again every backend is waited for.
Rebuild(d) ==
  /\ Free
  /\ \E shape \in setup.shapes, place \in MayMove(d) :
       /\ scheds' = [scheds EXCEPT ![d] =
            [Advanced(d) EXCEPT !.alloc = TRUE, !.built = scheds[d].next, !.uid = round + 1,
                                !.shape = shape, !.place = place]]
       /\ \/ place = scheds[d].place /\ UNCHANGED <<slots, result>>
          \/ AllDrained /\ MemoryLost(d)
  /\ InputsSet(d, scheds[d].next, FALSE)
  /\ Begin(d)
  /\ UNCHANGED <<setup, copies, streams, graphs>>

\* The memory cannot be allocated: the slot has moved on, nothing is computed.
AllocFails(d) ==
  /\ Free /\ AllDrained
  /\ scheds' = [scheds EXCEPT ![d] = [Advanced(d) EXCEPT !.alloc = FALSE]]
  /\ MemoryLost(d)
  /\ UNCHANGED <<setup, round, copies, at, user, streams, graphs>>

\* ggml_backend_sched_next_nonzero_copy
NextNonzero(c) == IF copies <= 1 THEN 0 ELSE IF c % copies # 0 THEN c % copies ELSE 1

\* ggml_backend_sched_advance_copy.  References are replaced, so there are some, when a split
\* has inputs.
Elsewhere(d) ==
  /\ scheds[d].alloc /\ copies > 1
  /\ scheds[d].cur # NextNonzero(scheds[d].next)
CanAdvance(d) == Elsewhere(d) /\ \E s \in DOMAIN Splits : Splits[s].inputs # <<>>
MustRetire(d) == Elsewhere(d) /\ scheds[d].cur = 0

\* Mutant of ReuseWaits: the graph is reused without waiting.
ReuseWaitsNever(d) == TRUE

\* Which backends are waited for before set_inputs.
ReuseWaits(d) ==
  LET parallel == copies > 1
      waits == CASE setup.mode = "unsynced" -> FALSE
                 [] setup.mode = "default" -> TRUE
                 [] OTHER -> MustRetire(d) \/ ~CanAdvance(d)
  IN parallel /\ waits => AllDrained

\* The graph of the previous ubatch is run again on new inputs.
Reuse(d) ==
  /\ Free /\ scheds[d].alloc
  /\ ReuseWaits(d)
  /\ LET rotated == setup.mode = "rotate" /\ copies > 1 /\ CanAdvance(d)
         new == NextNonzero(scheds[d].next)
     IN /\ scheds' = IF rotated THEN [scheds EXCEPT ![d].cur = new, ![d].next = NextNonzero(new + 1)]
                     ELSE scheds
        /\ InputsSet(d, scheds[d].built, rotated)
  /\ Begin(d)
  /\ UNCHANGED <<setup, copies, slots, result, streams, graphs>>

\* llama_context::synchronize, when the user asks for results.
Synchronize ==
  /\ at = Idle /\ AllDrained
  /\ scheds' = [d \in DOMAIN scheds |-> [scheds[d] EXCEPT !.next = IF scheds[d].alloc THEN @ ELSE 0]]
  /\ UNCHANGED <<setup, round, copies, at, memory, streams, graphs>>

\* graph_reserve, after the memory module has computed: the main scheduler is reset, then
\* synchronized, and gets memory for the largest graph.
Reserve ==
  /\ at = Idle /\ AllDrained
  /\ \E place \in MayMove(MainSched) :
       scheds' = [scheds EXCEPT ![MainSched].next = 0, ![MainSched].alloc = FALSE,
                                ![MainSched].place = place]
  /\ MemoryLost(MainSched)
  /\ UNCHANGED <<setup, round, copies, at, user, streams, graphs>>

\* sched_reserve, after a setting has changed: all is waited for, and the schedulers are made
\* anew, without a pipeline from now on when its copies do not fit in memory.  What the CUDA
\* backends keep stays, and new memory may be where the old was.
SchedReserve ==
  /\ at = Idle /\ AllDrained
  /\ copies' \in {copies, 1}
  /\ \E place \in MayMove(MainSched) : scheds' = [d \in DOMAIN scheds |-> [NewSched EXCEPT !.place = place]]
  /\ user' = [k \in DOMAIN user |-> Garbage]
  /\ slots' = [k \in DOMAIN slots |-> Garbage]
  /\ result' = [k \in DOMAIN result |-> Garbage]
  /\ recorded' = [e \in Events |-> IF e[2] = Nobody THEN recorded[e] ELSE 0]
  /\ passed' = [e \in Events |-> IF e[2] = Nobody THEN passed[e] ELSE 0]
  /\ UNCHANGED <<setup, round, at, queue, graphs>>

(***************************************************************************)
(* The host in a graph: compute_splits_range.                               *)
(***************************************************************************)
D == at.sched
Split == Splits[at.split]
B == Split.on
Cur == scheds[D].cur
CopiesInput == at # Idle /\ at.input <= Len(Split.inputs)
Tensor == Split.inputs[at.input]
Current(b, t) == <<D, <<b, t>>, Place(Cur)>>
Here == [slot |-> Place(Cur), place |-> scheds[D].place, shape |-> scheds[D].shape]

\* The event of the split's backend for the current slot.
SlotEvent(b) == <<b, D, Cur>>

\* Mutant of FreeOf: the wait is for the event of the slot that comes next.
FreeOfNext(b) == IF HasEvent(b) THEN Reached(<<b, D, scheds[D].next>>) ELSE Drained(b)

\* event_synchronize, or synchronize when there is no event.
FreeOf(b) == IF HasEvent(b) THEN Reached(SlotEvent(b)) ELSE Drained(b)

\* Weights that are copied expert by expert: the host reads which ones are used, from the
\* original when the copy is still to come, unless it has read that tensor before in this
\* graph (prev_ids_tensor).
OfExperts == Tensor = Split.experts.weights
IdsTensor == Split.experts.ids
IdsLater == \E i \in at.input + 1 .. Len(Split.inputs) : Split.inputs[i] = IdsTensor
IdsCopied == ~IdsLater /\ IdsTensor \in Split.copied
IdsBackend == IF IdsLater THEN Plan.home[IdsTensor] ELSE B
IdsKnown == at.ids.tensor = IdsTensor /\ at.ids.copy = IdsCopied
IdsRead ==
  [tensor |-> IdsTensor, copy |-> IdsCopied,
   value |-> IF IdsKnown THEN at.ids.value
             ELSE IF IdsCopied THEN slots[Current(B, IdsTensor)]
             ELSE IF IdsTensor \in Plan.user THEN user[<<D, scheds[D].built>>] ELSE Holds(D, IdsTensor, round)]
ReadsIds == Drained(Plan.home[Tensor]) /\ (IdsKnown \/ Drained(IdsBackend))

NextInput ==
  at' = [at EXCEPT !.input = @ + 1, !.ids = IF OfExperts THEN IdsRead ELSE @]

\* The user's tensor is copied at once, when the slot is free.
CopyUser ==
  /\ CopiesInput /\ Tensor \in Plan.user
  /\ FreeOf(B)
  /\ slots' = [slots EXCEPT ![Current(B, Tensor)] = user[<<D, scheds[D].built>>]]
  /\ NextInput
  /\ UNCHANGED <<setup, round, host, user, result, streams, graphs>>

\* The split's stream is told to wait for its own event, or waited for when there is none.
WaitForSlot == IF HasEvent(B) THEN <<WaitOp(SlotEvent(B))>> ELSE <<>>
CopiesMade ==
  /\ CopiesInput /\ Tensor \notin Plan.user
  /\ HasEvent(B) \/ Drained(B)
  /\ OfExperts => ReadsIds
CopyOp(op, value) == [Operation(op, D, at.split, Here) EXCEPT !.tensor = Tensor, !.value = value]

\* The experts in use, by the stream of the split.
CopyExperts ==
  /\ CopiesMade /\ OfExperts
  /\ queue' = [queue EXCEPT ![B] = @ \o WaitForSlot \o <<CopyOp("set", IdsRead.value)>>]
  /\ NextInput
  /\ UNCHANGED <<setup, round, host, memory, recorded, passed, graphs>>

From == Plan.home[Tensor]
Peers == <<From, B>> \in setup.peers

\* cpy_tensor_async: the copy goes to the stream of the source, the split's stream waits.
CopyPeer ==
  /\ CopiesMade /\ Peers
  /\ LET e == CopyEvent(From)
         done == [WaitOp(e) EXCEPT !.count = recorded[e] + 1]
         copied == [queue EXCEPT ![From] = @ \o <<CopyOp("copy", round), RecordOp(e)>>]
     IN /\ recorded' = [recorded EXCEPT ![e] = @ + 1]
        /\ queue' = [copied EXCEPT ![B] = @ \o WaitForSlot \o <<done>>]
  /\ NextInput
  /\ UNCHANGED <<setup, round, host, memory, passed, graphs>>

\* Without it the host waits for the source, or only for the event the source recorded, and
\* for the slot, and then copies; between vendors that is the copy of MixedCopy.
SourceWaits ==
  IF setup.sourceEvent /\ HasEvent(From) THEN Reached(SlotEvent(From)) ELSE Drained(From)
CopyBlocking ==
  /\ CopiesMade /\ ~Peers
  /\ SourceWaits /\ FreeOf(B)
  /\ slots' = [slots EXCEPT ![Current(B, Tensor)] = Holds(D, Tensor, round)]
  /\ queue' = IF B = Cpu THEN queue ELSE [queue EXCEPT ![B] = @ \o WaitForSlot]
  /\ NextInput
  /\ UNCHANGED <<setup, round, host, user, result, recorded, passed, graphs>>

(***************************************************************************)
(* The CUDA backend: a split that was sent twice with the same properties   *)
(* is captured, and then replayed for as long as it has not changed.        *)
(***************************************************************************)
Props == IF Split.copied = {} THEN [Here EXCEPT !.slot = 0] ELSE Here
Captures == B \in setup.captures /\ ~(Split.byId /\ scheds[D].shape = 2)

\* update_required, and the warm-up of graph_compute: what is kept now, and the addresses that
\* are used.
Launch ==
  LET g == graphs[<<D, at.split>>]
      same == g.uid = scheds[D].uid
      kept == IF same THEN g ELSE [g EXCEPT !.uid = scheds[D].uid, !.props = Props]
  IN IF ~same /\ g.props # Props THEN [keeps |-> [kept EXCEPT !.warm = FALSE], uses |-> Props]
     ELSE IF ~g.warm \/ g.instance = NoAddresses
     THEN [keeps |-> [kept EXCEPT !.warm = TRUE, !.instance = Props], uses |-> Props]
     ELSE [keeps |-> kept, uses |-> g.instance]

ComputeOp ==
  [Operation("compute", D, at.split, IF Captures THEN Launch.uses ELSE Props)
     EXCEPT !.value = round, !.count = scheds[D].shape]

NextSplit ==
  at' = IF at.split < Len(Splits) THEN [at EXCEPT !.split = @ + 1, !.input = 1] ELSE Idle

\* "record the event of this copy"
Recorded == HasEvent(B) /\ Split.inputs # <<>>

Compute ==
  /\ at # Idle /\ ~CopiesInput
  /\ IF B = Cpu
     THEN /\ result' = [result EXCEPT ![<<D, at.split>>] = round]
          /\ UNCHANGED <<queue, recorded, graphs>>
     ELSE /\ queue' = [queue EXCEPT ![B] = @ \o <<ComputeOp>>
                         \o (IF Recorded THEN <<RecordOp(SlotEvent(B))>> ELSE <<>>)]
          /\ recorded' = IF Recorded THEN [recorded EXCEPT ![SlotEvent(B)] = @ + 1] ELSE recorded
          /\ graphs' = IF Captures THEN [graphs EXCEPT ![<<D, at.split>>] = Launch.keeps] ELSE graphs
          /\ UNCHANGED result
  /\ NextSplit
  /\ UNCHANGED <<setup, round, host, user, slots, passed>>

\* graph_compute_async fails: the rest of the graph is not sent.
ComputeFails ==
  /\ at # Idle /\ ~CopiesInput
  /\ at' = Idle
  /\ UNCHANGED <<setup, round, host, memory, streams, graphs>>

\* The host waits, for a stream or for its user.
Waits == UNCHANGED vars

InGraph == CopyUser \/ CopyExperts \/ CopyPeer \/ CopyBlocking \/ Compute
Client ==
  \/ \E d \in setup.scheds : Rebuild(d) \/ AllocFails(d) \/ Reuse(d)
  \/ Synchronize \/ Reserve \/ SchedReserve
Streams == \E b \in Devices : Perform(b)
Next == Client \/ InGraph \/ ComputeFails \/ Streams \/ Waits

\* The host goes on with a graph it has begun, and the devices with their streams.
Spec == Init /\ [][Next]_vars /\ WF_vars(InGraph) /\ \A b \in Devices : WF_vars(Perform(b))

(***************************************************************************)
(* Properties.                                                              *)
(***************************************************************************)
\* A split reads what belongs to its graph: when a stream reaches a computation, or the CPU
\* computes, all that the split reads in its slot was copied there for this graph, not
\* overwritten by a later one ("wait for the split backend to finish using the input before
\* overwriting it") and not left from an earlier one; experts are those that this graph's
\* tokens chose; what is not copied is where the backend can use it; and a graph that is
\* replayed was captured for this memory and this batch.
Own(d, t, r) == IF t \in Plan.user THEN user[<<d, scheds[d].built>>] = r ELSE Holds(d, t, r) = r
ReadsOwn(d, s, to, r) ==
  /\ to.place = scheds[d].place
  /\ \A t \in Splits[s].copied : slots[<<d, <<Splits[s].on, t>>, to.slot>>] = r
  /\ \A t \in Splits[s].direct : t \in Splits[s].usable /\ Own(d, t, r)
SplitsReadTheirGraph ==
  /\ \A b \in Devices :
       queue[b] # <<>> /\ Head(queue[b]).op = "compute" =>
         LET o == Head(queue[b])
         IN ReadsOwn(o.sched, o.split, o.to, o.value) /\ o.to.shape = o.count
  /\ at # Idle /\ ~CopiesInput /\ B = Cpu => ReadsOwn(D, at.split, Here, round)

\* The host never runs further ahead than the slots reach: of a split that the host copies
\* the user's input for, at most n_copies computations wait on the stream.
Waiting(d, s) ==
  LET sent == queue[Splits[s].on]
  IN Cardinality({i \in DOMAIN sent : sent[i].op = "compute" /\ sent[i].sched = d /\ sent[i].split = s})
HostHeldBack ==
  \A d \in setup.scheds, s \in DOMAIN Splits :
    Splits[s].on # Cpu /\ Range(Splits[s].inputs) \cap Plan.user # {} => Waiting(d, s) <= copies

\* The host gets through every graph and every stream through what it was sent: no wait of the
\* host or of a stream is for something that waits in turn, or that nobody will record.
NothingStuck ==
  /\ at # Idle ~> at = Idle
  /\ \A b \in Devices : []<>(queue[b] = <<>>)
==============================================================================
