# A verification project for the mixed CUDA + ROCm llama.cpp snapshot

This directory models the stateful core of the program under `src/code/source`: TLA+ modules
translated from the C and C++ source, TLC configurations that check them on small instances, and
theorems about the KV cache, its slot search, the mixed-vendor copy, the graph allocator and the
output buffers whose proofs TLAPS checks for every size; the largest of them is that the KV cache
implements the sequence memory that `llama.h` documents. Source paths below are relative to `src/code/source`; `PROJECT.json` maps
every definition to its lines.

Run `tlc -config unified.cfg MCKVCache` (any row of the table in section 3) to check a run, and
`tlapm KVCacheProofs.tla` (or any other module named `...Proofs`) to check proofs; section 5 lists them.

## 1. The system and its parts

The program runs a language model over several GPUs of two vendors. A request enters
`llama_context::decode`, which asks the KV cache for room, builds a compute graph per
micro-batch ("ubatch"), lets the scheduler place and split that graph over the backends, and
runs it; the server drives decode calls for many users.

| part | state | operations | hard behaviour | what makes it correct |
|---|---|---|---|---|
| KV cells (`llama-kv-cells.h`, not in this snapshot) | per cell: position, pending shift, owning sequences | `seq_add`, `seq_rm`, `pos_add`, `pos_div` | a cell has several owners | a cell is empty exactly when nobody owns it |
| KV cache, memory API (`src/llama-kv-cache.cpp` 620-880) | cells and search head per stream, queue of stream copies | `seq_rm/cp/keep/add/div`, `clear` | cells shared after `seq_cp`; buffers follow later | each call does to every sequence what `llama.h` says |
| Slot search (`find_slot`) | head | walk round the ring, contiguous or not | wrap-around in unsigned arithmetic, reuse of masked cells | finds a slot when there is one, and ends |
| prepare / apply (`prepare`, `apply_ubatch`) | planned slots, saved cells and heads | place, undo, place again | the plan is used later on other cells; undo is partial | what was planned is still free; positions stay contiguous |
| update (`update`, `build_graph_shift`) | K/V buffers, pending shifts and copies | stream copies, then the K-shift | the shift may fail; the copy carries a shift | keys a graph reads are rotated to their cell's position |
| prompt shadow (`k_shadow`, `v_shadow`) | second copy of K and V on the prompt device | mirrored writes | every change of the first copy has to reach it | agrees with the primary buffers where a graph reads it |
| state files (`state_write`, `state_read`) | a blob | save/restore a sequence or everything | blobs that end early or do not fit, restores over live data | restored = saved; a rejected blob leaves nothing |
| decode loop (`llama_context::decode`) | one call in progress, ubatch index | retry, reservation, ubatch, rollback | every step can fail, abort or be retried | a failed ubatch leaves no trace; the call returns |
| front overlap (`run_front`, `run_tail`) | tail graph in flight on a second thread | front of k+1 beside tail of k | two graphs of one ubatch each apply it | a token finds all positions it attends to |
| output buffers (`output_reserve`, `output_reorder`) | `output_ids`, swaps, logits | reserve, fill, reorder on first read | lazily undone permutation | row i is the output of token i |
| scheduler (`ggml/src/ggml-backend.cpp`) | splits, input copies, events, `cur_copy` | split, allocate, compute, synchronize, rotate | asynchronous backends, copies reused while still read | a split reads the inputs of its own graph |
| mixed-vendor copy (`ggml-backend.cpp` 719-881) | ring of host slots, two threads | fill, hand over, empty | slot memory used outside the mutex, two condition variables | the destination gets every byte once, and both threads end |
| graph allocator (`ggml/src/ggml-alloc.c`) | free blocks per chunk, hash of tensor allocations | alloc, free, reserve, in-place reuse | merging of blocks, several chunks, view sources | live tensors never overlap |
| meta backend (`ggml-backend-meta.cpp`) | split states, kept subgraphs, reduction buffers | divide, cut, compute, all-reduce | empty and rounded slices, delayed sums, streams | the sum of the parts is the whole |
| CUDA/HIP backend (`ggml-cuda.cu`) | streams, pools, captured graphs | allocate, launch, capture, copy | pools shared by streams, replay of stale graphs | memory is not reused while in use |
| CUDA kernels (`mmq*`, `fattn*`, ...) | tiles in registers | arithmetic | races inside a block, numerics | out of reach here |
| graph construction (`llama-graph.cpp`) | last graph's parameters, per scheduler | build, `can_reuse` | reuse of a graph built for other inputs | a reused graph equals a rebuilt one |
| model loading, placement (`llama-model*.cpp`) | files, tensors, devices | load, assign layers | split files, partial offload | every layer has one device |
| server (`tools/server/server-context.cpp`) | slots, queue, prompt cache, checkpoints | launch, update, release | slot reuse, cancellation, context shift, parents and children | a slot's tokens equal its part of the KV cache |
| arguments (`common/arg.cpp`) | none over time | parse | - | - |
| scripts, docs, artifacts | none | - | - | recorded results |

Interactions: the server calls `llama_decode` and the memory API from one thread; decode calls
the cache (`init_batch` = prepare, `mctx->apply`, `mctx->next`), the graph builder, and the
scheduler; the scheduler calls the allocator and the backends, which run asynchronously and
answer through events. Only front overlap, the mixed-vendor copy and the asynchronous backends are really concurrent;
everything else interleaves failures and client calls with the steps of one thread.

`PROJECT.json` lists these parts as `components` with their status, and under `hazards` what is
hard to test, each at its line, with the property that would catch it.
## 2. The modules

```
KVCells  <-  KVSlots  <-  FindSlot  <-  FindSlotProofs  the search loop by itself
                 ^  ^-  KVSlotsProofs                  lemmas for FindSlotProofs and KVCacheProofs
                 |
              KVCache  <-  KVCacheProofs  <-  KVRefinesProofs
                 ^   ^                                 decode + memory API; its theorems
                 |   KVOverlap  <-  MCKVOverlap        the overlapped decode loop
                 |
          KVRefinesMemory  ->  SeqMemory (INSTANCE)    what llama.h promises
                 ^     ^
        MCKVCache      KVState  <-  MCKVState          saving and restoring

MixedCopy  <-  MixedCopyProofs                         the copy between two vendors

GraphSplit  <-  SchedPipeline  <-  MCSchedPipeline     graphs cut, and under way on several backends
                      ^
                 SchedProofs

DynAlloc  <-  GraphAlloc  <-  MCGraphAlloc             who has which memory
                  ^
           GraphAllocProofs

MetaSplit  <-  MetaGraph  <-  MetaBackend  <-  MCMetaBackend   several devices as one

GraphReuse  <-  Outputs  <-  MCOutputs                 what the client reads of a batch, and
                   ^                                   the graphs that compute it
            OutputsProofs

ServerSlots  <-  MCServerSlots                         requests, slots and their memory
```

SchedPipeline sees the graph allocator at one point (`Rebuild`, `AllocFails`), MixedCopy is the inside
of its step CopyBlocking between two vendors, and ServerSlots sees the KV cache as SeqMemory
describes it: each model stands where the next one needs only its promise. KVRefinesProofs extends
KVRefinesMemory too, as the refinement is what it proves.

**KVCells** is `llama_kv_cells` as the cache uses it. The header is not part of this snapshot
(the map marks it external), so each operator is the effect that the calls in
`llama-kv-cache.cpp` rely on. A cell is `[pos, shift, seqs]`; `pos = -1` is an empty cell.

**KVSlots** fixes the shape (sequences, streams, cells, window), the test `can_use` and, as
`IsSlot`/`SlotsOf`, what the non-contiguous search must answer: the first `n` usable cells met
when the ring is walked once from the start. **FindSlot** is the loop itself
(`head_cur`, `n_tested`, windows, wrap-around, both values of `cont`).

**KVCache** is the cache together with the decode call that drives it.

| variable | code |
|---|---|
| `cells`, `head` | `v_cells`, `v_heads` |
| `scInfo` | `sc_info`, the queued stream copies |
| `data`, `shadow` | the K/V tensors and the prompt shadow: per cell the token that was written and the position its K is rotated to |
| `phase`, `batch`, `iCur` | program counter of `llama_context::decode`, its ubatches, the current one |
| `plan` | the slots `prepare()` found, with the cells and heads it saved beside them |
| `copies`, `doShift`, `retried` | what this call's memory update still has to do; `did_optimize` |

| action | code |
|---|---|
| `SeqRm`, `SeqRmAny`, `SeqCpShared`, `SeqCpStream`, `SeqKeep`, `SeqAdd`, `SeqDiv`, `Clear` | the memory API, each a whole call |
| `DecodeBegin` | the batch is accepted and split; `memory_update(false)` takes the queue and the shift flag |
| `UpdateCopy`, `UpdateShift`, `UpdateShiftFails`, `UpdateNothing` | `update()` step by step; a K-shift that fails may have rotated the keys of any cells it concerns, and leaves the shift pending for all of them |
| `PrepareUbatch`, `PrepareEnds`, `RestoreUbatch` | `prepare()`: plan and place each ubatch, then undo in reverse order |
| `RetryPrepare`, `RefuseBatch`, `ReserveFails`, `StartUbatches` | what decode does with the answer |
| `Apply`, `Compute`, `ComputeFails` | `process_ubatch`; a failure may leave any subset of the ubatch written, then decode's rollback runs |

A decode call is many steps because each of them can fail or leaves the cache half-way; client
operations happen between calls, as the context belongs to one thread. Tokens are members of
`Toks`; a batch is given as the ubatches the splitter makes of it (`split_simple` on a unified
cache, `split_equal` with one row per stream otherwise; the splitter is external).

**SeqMemory** is the promise: per sequence, a set of (position, token) entries and the effect of
each call of `include/llama.h` 737-802 on it. **KVRefinesMemory** defines what the cells and
buffers mean to the client - after the queued copies and the pending shift, without the cells a
call in progress holds only for its search - and instantiates SeqMemory with it
(`ImplementsMemory`). A cell whose K is rotated to some other position means a "garbled" token,
so the refinement also covers the order of copies, shifts and writes.

A K-shift that fails is the one step that is not among the documented operations. Its graph rotates the cache
in place, layer by layer, and when `graph_compute` fails (1074) or is aborted some of it may be done, while the cells keep
their pending shift: the next update rotates those keys again. `UpdateShiftFails` turns the keys of any set of
cells with a pending shift (`Turned`; `data` stands for any one layer), and SeqMemory has a step `Spoil` for
it, enabled where K-shifts may fail (`Lossy`): every sequence keeps its positions, whatever stands there now.
`ImplementsMemory` says that no other step is a `Spoil`. That the keys a graph attends to may be wrong ever after
such a failure is what the code does; AttendedKeysRotated is checked and proved where K-shifts do not fail.

**KVState** adds blobs: `StateWrite`, the restore of one sequence (`StateReadSeq`) or of
everything (`StateReadAll`), a blob that is rejected after its metadata was placed, and one that
ends early. **KVOverlap** replaces the ubatch loop by the overlapped one of
`llama_context::decode` (2446-2554): `RunFront`, `RunTail`, `TailDone`, `GiveUp`.

**MixedCopy** is one call of `ggml_backend_tensor_copy_mixed_vendor`, once its early returns are
past. A critical section is one step, because all it touches is touched under that mutex only;
the copies between device and slot happen outside of it, so a step begins them and another ends
them, and meanwhile the slot holds no chunk. `notify_one` is a step after the unlock, as in the
code, and wakes only a thread that already waits; waiting threads may also wake spuriously.

| variable | code |
|---|---|
| `nbytes`, `chunkSize`, `nSlots` | the call's sizes, clamped as at 764-774 |
| `full`, `offset`, `size` | `copy_slot`, guarded by the mutex |
| `stage` | the slot's host memory: which source bytes it holds |
| `dst` | the destination: which source byte each byte holds |
| `made`, `producer`; `taken`, `consumer` | each thread's `chunk` and its place in the loop |

| action | code |
|---|---|
| `ProducerBlocks`, `Claim` | `cv_empty.wait` and what follows it in the critical section |
| `GetBegins`, `GetEnds` | `get_tensor_sync` or `ggml_backend_tensor_get` |
| `Publish`, `NotifyFull` | `slot.full = true`; `cv_full.notify_one` and the next chunk |
| `ConsumerBlocks`, `TakeSlot` | `cv_full.wait`, reading offset and size |
| `SetEnds`, `Release`, `NotifyEmpty` | the write to the destination, `slot.full = false`, `cv_empty.notify_one` |
| `ProducerWakes`, `ConsumerWakes` | a spurious wakeup |
| `Return` | after both joins |

**GraphSplit** is `ggml_backend_sched_split_graph`, as functions of a graph: the backend that each tensor
gets (`Placed`, `Expanded`, `Upgraded`, `Settled` for the first four passes, with
`ggml_backend_sched_backend_id_from_cur` and `_buffer_supported` under them), and where the fifth
pass cuts (`Cut`): at a change of backend, before a weight that has to be copied when the split
has inputs already, and at the limit of inputs. `SplitPlan` adds what the pipeline has to know: which
copies a split reads, what it reads in place and whether its backend can, and which
weights are copied expert by expert. MCSchedPipeline writes graphs tensor by tensor and has them cut.
SchedPipeline takes any plan that is as `PlanOK` says (`PlansAssumption`): what the fifth pass makes sure of, and all that the
theorems know about plans.

**SchedPipeline** is `ggml_backend_sched` with the part of `llama_context` that drives it. One host
thread sends graph after graph; a device is a stream, a queue of operations that `Perform` takes
from the head at any pace, and the CPU computes while the host waits. Contents are the number of
the graph they were made for, so that "reads what was made for its own graph" can be said of every
computation.

| variable | code |
|---|---|
| `setup` | the plan of the graph, the pairs of backends with `cpy_tensor_async`, the backends that capture, the `GGML_SCHED_*` and `LLAMA_*` switches; fixed |
| `round`, `at` | graphs begun; the scheduler, split and input that `compute_splits_range` is at, and the expert ids it has read (`ids`, `prev_ids_tensor`) |
| `copies` | `n_copies`, which falls to 1 when the pipeline does not fit in memory |
| `scheds` | per scheduler `cur_copy`, `next_copy`, `is_alloc`; the slot the graph was allocated with, the uid of its splits, the shape of its batch, and a number for where its memory is |
| `user`, `slots`, `result` | the user's tensors, the copies of inputs, what splits produced |
| `queue`, `recorded`, `passed` | the streams, and per event how often it was recorded and reached |
| `graphs` | per split, the `ggml_cuda_graph`: uid, properties, `warmup_complete`, and the addresses the instance was captured with |

| action | code |
|---|---|
| `Rebuild`, `AllocFails` | a new graph: `sched_reset`, `alloc_graph` with the next slot, memory perhaps reserved again, `set_inputs` |
| `Reuse` | the same graph again: `advance_copy` or a wait, by mode, then `set_inputs` |
| `Synchronize`, `Reserve`, `SchedReserve` | between graphs: results are read; `graph_reserve`; the schedulers are made anew, perhaps with one slot |
| `CopyUser`, `CopyExperts`, `CopyPeer`, `CopyBlocking` | the four ways to copy a split's input, with the waits before each |
| `Compute`, `ComputeFails` | `graph_compute_async`, with `Launch` for capture and replay, and the event recorded after it |
| `Perform` | a device's stream goes on by one operation |

Which scheduler gets a graph is left open (`Client`): decode alternates (`LLAMA_PIPELINE_WAVE_ALT`) or takes one
for prompts. The content of expert weights is the graph whose tokens chose them; experts copied for an earlier
graph stay, which is why the copy must follow the choice of its own graph. The full copy of experts
(`GGML_SCHED_MOE_FULL_COPY_RATIO`) is left out.

**DynAlloc** is `ggml_dyn_tallocr`: chunks, each with a sorted sequence of free blocks; the search
for the best inner block, for the last block of a chunk, for a new chunk; merging on free. Its
specification `AllocSpec` lets any client allocate, release and hand over tensors of any sizes.
**GraphAlloc** is `ggml_gallocr` and the scheduler's calls of it. The walk of `alloc_graph_impl` is
unrolled into the list `calls` (allocate a tensor, drop a parent), each call one `Step` with the
reference counts as the code keeps them; `Commit` keeps the plan and lets the buffers grow; and
`AllocGraph`, `Place`, `Reserve` are `ggml_backend_sched_alloc_splits` and `_reserve`, with the
reuse of a plan for a graph that fits it. `SourcesIntact` looks at the placed graph alone: it knows
nothing of reference counts or free blocks.

**Outputs** is the output side of `llama_context`: one buffer divided into views, into which the
backends copy rows while decode goes on, and the two maps between rows and tokens; and which graph
computes the rows of an ubatch. **GraphReuse** is that decision by itself: `Params` is what
`graph_params` collects, `CanReuse` what `llm_graph_params::allow_reuse` and the inputs' `can_reuse`
compare, and `Computes`, written from the builders and not from the comparison, everything a graph
takes from its parameters for good: also, with a shadowed cache and `LLAMA_MINIMAX_FATTN_KV_SPLIT_EXACT` (`setup.split`),
where a prompt's attention divides the cells (`SplitAt`), the padded length of the cache before the ubatch.

| variable | code |
|---|---|
| `buf`, `gen`, `views`, `counts` | `buf_output` and how often it was allocated; `logits`, `embd`, `embd_pre_norm` and the samplers' views; `probs_count` |
| `ids`, `nOutputs`, `swaps`, `embdSeq` | `output_ids`, `n_outputs`, `output_swaps`, `embd_seq` |
| `copies` | `ggml_backend_tensor_get_async` calls whose data has not arrived |
| `samplers`, `reserveDue` | `sampling.samplers`, `sched_need_reserve` |
| `ctx` | `cparams.embeddings`, `causal_attn`, `warmup`; the adapters and the control vector |
| `used`, `shiftDue` | `used_max_p1` of the cache's streams; a K-shift is pending |
| `results` | per scheduler (`gf_res_prev`, `phase_prompt_res`, `gf_res_wave`) the parameters of the graph it keeps, and whether that graph has memory |
| `call`, `calls`, `last` | the call in progress, how many there were, and whose outputs there are |

| action | code |
|---|---|
| `DecodeRefused`, `DecodeBegins`, `EncodeBegins` | the checks, the reset, `output_reserve` (which replaces the buffer when it is too small) |
| `ComputeUbatch`, `ComputeFails`, `AllocFails` | one ubatch: its graph is kept or built (`Prepared`), and it sends rows of logits, embeddings, hidden states and sampled tokens; the graph fails to run, or to find memory |
| `Finish` | `output_ids`, and the selection sort that records `output_swaps` |
| `EncodeComputes`, `EncodeFails` | the whole of `encode` after its reservation |
| `Perform` | a copy arrives |
| `Read`, `Get` | `synchronize`, `output_reorder`, then a getter |
| `SetSampler` | `set_sampler` attaches or detaches |
| `SetContext`, `SetAdapters` | `set_embeddings`, `set_causal_attn`, `set_warmup`; `set_adapters_lora`, `set_adapter_cvec` |
| `SetMemory` | the client shifts or clears the memory, as far as graphs depend on it |

A row's content is the call, the view and the token it was computed for, so a stale row, a row of
another token and a row of another view are told apart. What `sched_reserve` and `memory_update` do to
kept graphs is part of the call that makes them (`SchedReserved`); a scheduler for prompts starts with the
parameters of the graph it was reserved with (`ReservedParams`).

**ServerSlots** is `server_context_impl` with `server_slot`: how a request becomes a task, gets a
slot, shares a batch, and is answered. Everything the loop thread changes is one record, as its
handlers run several in a row in one step.

| variable | code |
|---|---|
| `srv.slots` | per slot: state, task, cached prompt, adapter, checkpoints, `i_batch`, sampled token, draft |
| `srv.mem`, `srv.win` | the memory of each sequence, and of the layers with a window: position -> token, adapter, and whether it saw what it should |
| `srv.queue`, `srv.deferred` | `queue_tasks`, `queue_tasks_deferred` |
| `srv.cache`, `srv.file`, `srv.lru` | the prompt cache, the saved slot file, the order of `t_last_used` |
| `srv.answers`, `srv.gone` | what each task's reader was sent, and readers that stopped |
| `loop` | where `update_slots` is: which slot it fills, the batch, which piece it decodes, `n_batch` |
| `srv.misread`, `srv.forced` | history of what the properties ask: outputs computed from anything but the task's own tokens; a batch given up although an idle slot held memory |

| action | code |
|---|---|
| `ProcessTask` | `process_single_task`: choose a slot, launch (children first), defer, cancel, save, restore, erase |
| `UpdateBegins`, `ShiftContexts`, `Generate` | the start of `update_slots`: context shift, then the sampled and drafted tokens of slots that can share a batch |
| `FillPrompt`, `SkipSlot` | one slot's prompt: common prefix, moved chunks, checkpoints, truncation, the tokens that fit |
| `DecodeBegins`, `Decode`, `Retry`, `DecodeFails`, `UpdateEnds` | the loop over pieces of the batch: room, halving, purging idle slots, errors; children take over their parent's state, tokens are sampled, drafts verified |
| `Post`, `StopsAfterError`, `GivesUp` | clients: a request, the reader after an error, a closed connection |
| `AllIdle` | nothing to do until somebody asks |

The queue, the reader of answers, the prompt cache (`server-task`, `server-queue`, not in this snapshot) and
the check of positions in a batch are modelled from their use. The queue is read only between two
updates, so clients act there only. A chunk that is moved, and what is left of a shifted context, count as
having seen what they should: that they did not is the known cost of `--cache-reuse` and
`--context-shift`, not an error. `Shifted` discards what the request's `n_discard` says, or half of what follows the kept
tokens (`Keep`: `n_keep`, one more with a BOS token), and moves memory and tokens each by the code's own steps
(`Discarded` is the loop and the resize at 2309-2315). The code does not compare `n_discard` with what there is. If it is more than follows
the kept tokens, the memory keeps all of those and the prompt loses some: the batch of the same update then asks for
positions that do not follow, `llama_decode` refuses it, and *every* task that is being processed ends with "Invalid input
batch.". `CacheHeld`, which asks of each batch that it goes on where the memory ends, names this exception (`Overdiscards`); between updates it
holds even then, as the memory of all those slots is cleared before the update ends.

**MetaSplit**, **MetaGraph** and **MetaBackend** are the meta backend, which makes several devices
work as one by tensor parallelism. *MetaSplit* says how a tensor is divided: weights and caches by name
(`llama_meta_device_get_split_state`), nodes by operation and sources
(`ggml_backend_meta_get_split_state`, one operator per handler). *MetaGraph* builds what is divided: the
graph of the last layer of MiniMax M2 - distributed norms of queries and keys, attention over
the cache, routed experts, outputs, pooling - in the order in which the code adds the nodes, and the graph of
the K-shift. *MetaBackend* is `ggml_backend_meta_graph_compute`: it cuts such a graph into subgraphs where a
sum is due, with the delay that mixtures of experts allow, and computes it on devices that are streams, with the
AllReduce fallback between subgraphs.

| variable | code |
|---|---|
| `setup` | devices, which of them are of one vendor, and the graphs the client computes; how each is cut and divided depends on nothing else and is worked out in `Init` |
| `uid`, `maxNodes`, `maxSubs`, `planned`, `mains` | `ggml_backend_meta_context`: the graph cut last, and the graphs kept for its subgraphs |
| `cur`, `todo`, `ok` | the call in progress: what it still has to send, and its status |
| `queue`, `copied` | the streams, and the copies that left each of them |
| `mem`, `tmp` | on each device, what its nodes and the buffers of the reduction hold |

| action | code |
|---|---|
| `GraphCompute` | the call begins; it cuts the graph anew unless it has the uid of the last one (`Rebuild`) |
| `Launch`, `LaunchFails` | `ggml_backend_graph_compute_async` of a subgraph, a zeroing or an addition; a device may refuse |
| `CopyBlocking`, `CopyPeer` | `ggml_backend_tensor_copy_async`: after both devices, or on the stream of the source |
| `Device` | a device takes the next operation of its stream |

What a node holds is all of the tensor, a slice, a sum of named summands, or something that means nothing. A sum may be
viewed, scaled and added to another before it is complete, which is what makes a delayed reduction legal;
any other use of it is an error. Two summands of one device, a missing one, one of the graph before
or a buffer that was overwritten are told apart from the whole.

## 3. The runs

All bounds are in the `.cfg` files and the MC modules. `MaxPos` bounds positions, `Rotatable` how often failing K-shifts turn a key, `MaxCopies` the
queue of stream copies, `MaxAppend` the tokens a sequence gains per step of SeqMemory,
`MaxCellPos` the positions in the stream that FindSlot searches, `MaxRounds` the graphs that
SchedPipeline and MetaBackend compute, `MaxFails` the operations a device of MetaBackend refuses, `MaxRequests` (and `setup.requests`) the requests of ServerSlots,
`setup.calls` the calls of Outputs, `MaxChunkSize` and `MaxChunks` the memory of DynAlloc.

| run | checks | shows | instance |
|---|---|---|---|
| `unified` | TypeOK, PlannedSlotsFree, RefusedOnlyWhenFull, ImplementsMemory, OperationsComplete, DecodeReturns | after any history of memory operations and failures cells and heads are well-formed; planned slots are free when used; a batch is refused only when cells really lack; the cache implements the documented memory, shared tokens, failing reservations and K-shifts that fail half-done included, the only steps that spoil a token; each operation has all its documented effect; a call returns | 2 sequences, 3 cells, 2 positions, a batch of two ubatches with a token of both sequences, all operations |
| `streams` | AttendedKeysRotated, ImplementsMemory | with a stream per sequence, queued copies and shifts are made before a graph reads the cells; failed ubatches leave no trace | 2 streams of 2 cells, 2 token values |
| `swa` | Contiguous, WindowPresent, ShadowMirrors | reuse of masked cells and the purge never cost a token its window or leave a gap; the shadow follows | window 2, 4 cells, positions to 4, failing graphs |
| `findslot` | FoundIsSlot, SearchEnds | the loop ends with exactly the slot the other modules assume, and fails only when there is none | every content of 4 cells, every head, every length to 5, both modes |
| `state` | RestoredAsSaved, RejectedLeavesNothing | a blob restores what it saved, whatever happened in between; a rejected one leaves nothing | 2 sequences, 3 cells, blobs of one sequence or everything |
| `mixed_copy` | NoSlotRace, Copied, CopyEnds | the threads never use one slot's memory together, every byte arrives at its place whatever the ring's size, and no notification is lost | tensors of 1, 4, 5 and 7 bytes, chunks of 1 to 3, rings of 1 to 3 |
| `sched` | SplitsReadTheirGraph, HostHeldBack, NothingStuck | a computation reads what was made or copied for its own graph, however far the host and the streams are apart: copies, experts, results, and the memory and batch a captured graph was captured for; the host cannot run ahead further than the slots reach; no wait is for ever | 2 devices and the CPU, five graphs that GraphSplit cuts, 1 to 3 slots, 1 or 2 schedulers, all reuse modes, 3 graphs in a row, with and without peer copies, capture and failures; 420,574 states |
| `alloc` | SourcesIntact, InsideBuffers, NothingKept, LiveApart, BlocksSound, Placed | what a node reads is what was put there, in the placed graph, in-place results, views and reused plans included; all is given back at the end of a plan | every graph of one leaf and four nodes; graphs that grow and shrink; two backends that may run out of memory; chunks of 3 units, 2 chunks |
| `meta` | SplitsResolve, PartsMakeTheWhole, GraphsFit | all that meets in an operation is divided alike; what devices compute and add up is the whole, on every device, whatever was left in their buffers and however their streams advance; kept graphs of subgraphs are never too small | models on 2 to 4 devices, 6 kinds of graph, 2 graphs in a row, one refused operation |
| `outputs` | CopiesFit, RowsOfTheirTokens, NothingElseReadable, PooledOfLastUbatch, ReusedAsBuilt | a getter returns the row of the token it is asked for, or nothing, in whatever order ubatches ran and copies arrived; a graph that is run again computes what a new one would | every order of 4 tokens in 1 to 2 ubatches, up to 3 calls, buffers that grow, failing calls, samplers, embeddings, the encoder, adapters, a memory that fills and shifts, prompts read in two parts, 1 to 3 schedulers; 423,339 states |
| `server` | CacheHeld, SampledFromOwnContext, AnsweredOnce, ExceededOnlyWhenFull, RequestsEnd | a slot's prompt is what the memory of its sequence holds; the batch goes on where the memory ends, unless a request discards more than there is; a token is sampled from its own task's tokens; a task is answered once; a batch is given up only when nothing could be freed; every request ends | 1 to 2 slots, 2 to 4 requests, fourteen kinds of settings; 283,485 states |
| `overlap` | WindowPresent (violated) | section 4 | a prompt of four ubatches |

**Why the bounds are enough.**

- *Cache.* The interesting cases are a full stream, a fragmented one, a head in the middle, a
  wrap, a cell with two owners, a second ubatch that does not fit, a shift or a copy pending when the next
  call begins, a cell leaving the window while the batch is planned. Three or four cells, two
  sequences, two streams and batches of up to two ubatches reach all of them: every action
  fires, and the runs reach 10^5 states and more. The theorems remove the bounds for the
  properties they state.
- *Copy.* One chunk, a short last chunk, a ring shorter than the chunks that wraps more than once, a
  ring of one.
- *Scheduler.* A slot that comes round again while its readers wait (3 graphs with 2 slots), a
  split that reuses an earlier split's copy, a split without inputs, a result read by two splits, a view of another
  split's result, the CPU in the middle and at the end, one input per split, experts of the host for two operations
  in a row with ids from another device, a graph captured, replayed and captured again for another shape
  (three graphs), two schedulers on the same devices. Fourteen settings.
- *Allocator.* Four nodes are the least at which a parent is freed, its memory given to another node, and the
  result handed on in place while a view still reads it; chunks of three units make a chunk overflow
  and fragment; two sizes make exact fits, remainders and merges. MemoryExclusive,
  GraphAllocExclusive, GraphBlocksCompact and GraphsFitBuffers remove the bounds.
- *Meta backend.* Two devices need one exchange, three a fold and a copy back, four two rounds of the butterfly; the
  models have slices that are empty for the attention or for the experts, that rounding makes uneven, blocks
  larger than a group of heads, rotation by layer, one used expert and several, more experts in a warm-up than are
  added up, and a bias of the experts. Two graphs are the least that can find leftovers of one before.
- *Outputs.* Selection sort of four rows has every kind of permutation, cycles of three and four included;
  a second call finds rows, swaps and copies of the first. The cache is padded to 4 of 12 cells (to 256 of the whole in
  the code), so that two calls cross a boundary; ubatches of one shape and of others follow each other, for the same
  and for other sequences, of tokens and of embeddings, with everything the client may set in between. Where prompts
  read the cache in two parts (`Parts`), an ubatch of a prompt fills exactly one pad, as with the usual `n_ubatch`, a multiple of 256:
  the length before it follows from the length after it.
- *Server.* Each of the fourteen kinds of settings is a feature with just enough slots and requests for its
  hard case: `Waiting` (more requests than slots), `Failing`, `Leaving` (clients give up), `Sharing` and `SharingBadly`
  (children, one of which cannot be launched), `Full` (a shared cache that fills up), `Windows` (sliding window and
  checkpoints), `Chunks` (moved chunks, context shift), `Discards` (shifts by 1 to 6 of 6 tokens), `Cached` (prompt cache), `Files` (save, restore, erase),
  `Adapters`, `Drafts`, `Embeddings`. Contexts have 5 to 10 positions and prompts up to 5 tokens; constants of the
  code that make no difference but size are small too: checkpoints at least 1 token apart instead of 64, and 1
  instead of 4 before the end. Where clients are `patient`, the next request follows the last answer: those settings are about what one request leaves
  to the next.

**Fairness.** `WF_vars(Decode)`: once a call is in progress the thread inside `llama_decode` is
running, with no waiting on other threads in this loop; it takes its next step. A client is never
obliged to call. FindSlot assumes the same of its loop, GraphAlloc of planning and placing. MixedCopy assumes that each of its two
threads runs (`WF_vars(Producer)`, `WF_vars(Consumer)`): they are `std::thread`s nobody suspends,
and a thread that waits is not enabled until it is woken. Nothing is assumed of spurious wakeups,
so CopyEnds rests on the notifications alone. SchedPipeline assumes it of the host while it is inside a graph and of each
device's stream, which the driver runs in order. ServerSlots assumes it of the loop thread - written as "when there
is always something to do, it does something", which is weak fairness of `Loop` with its ENABLED spelled
out - and that the reader of a request whose task failed stops reading (`server_response_reader` does so in its
destructor). Nobody has to ask anything, or to give up. Outputs and MetaBackend have no liveness property: MetaBackend's waits are for copies sent before, and deadlock is checked.

**Deadlock.** All runs but `alloc` check for deadlock: `alloc` stops for good in the state that models the
crash after a failed allocation. FindSlot, MixedCopy and SchedPipeline have a stutter at the end or while the host waits (what
SchedPipeline's waits are for is NothingStuck's question). ServerSlots stutters only when there
is nothing to do; an assertion of the server that fails is a deadlock there.

## 4. Disagreements found

The run with a violation, quoted in `PROJECT.json`: *an overlapped ubatch is placed twice*
(`overlap`); the second placement overwrites the first and its purge then removes every earlier
position.

The following are further behaviours TLC showed on the same modules. They have no run of their
own; the passing runs exclude them by the restriction named here, and a constant of the module
reproduces each one.

KV cache and state files:

| behaviour | how to see it | how the passing runs exclude it |
|---|---|---|
| a refused batch loses positions: `prepare()` restores the cells of its slots, but not the other cells that `apply_ubatch` purged (WindowPresent) | a batch of two ubatches in `swa` | `swa` decodes one ubatch per call |
| after a suffix is removed, the next token is at an earlier position, whose window was given up (WindowPresent) | `NSwa = 3` in `swa` | a window of 2 holds one earlier position, which is kept as long as any later one is |
| a failed ubatch stays in other sequences: the rollback collects the minimum position of `seq_id[i][0]` only (ImplementsMemory) | `"compute"` in `unified`'s Failures | graphs fail in `streams` and `swa` |
| the K-shift graph rotates the primary K and not the shadow (ShadowMirrors) | `"seq_add"` in `swa`'s ClientOps | no shifts in `swa` |
| restoring several streams keeps the last: `clear(true)` per stream clears all of them (RestoredAsSaved) | `Unified = FALSE`, `Size = 2`, `Batches <- MCStreamBatches` in `state` | `state` has one stream |
| a failed output reservation on a sliding-window cache leaves the purge of `prepare()` in place and so a gap (Contiguous) | `swa` with `Failures = {"reserve"}` and more ubatches | `swa` lets only graphs fail |
| `seq_add` moves every sequence that shares the cell (ImplementsMemory) | `SharedShift = TRUE` | the client shifts only cells of one sequence |
| `seq_keep` leaves the other streams alone (OperationsComplete) | `seq_keep` in `streams` | not among its ClientOps |
| a copy between streams with a range such as `p0 + 1 >= size` is accepted and copies everything (OperationsComplete) | a range `<<1, -1>>` on 2 cells | `streams` uses the full range |
| after a failed K-shift decode continues with keys that are not rotated, or not all of them, and the next update rotates again those that were (AttendedKeysRotated; ImplementsMemory without `Spoil`) | `"shift"` in `streams`' Failures | shifts do not fail there; `unified` lets them fail and says what remains |
| a sequence saved between `seq_add` and the next decode is restored with the wrong rotation (RestoredAsSaved) | `SavePending = TRUE` | the client saves when nothing is pending |
| a truncated blob leaves cells without content (RejectedLeavesNothing stated of truncation) | `StateReadTruncated` | the property speaks of rejected blobs |
| restoring does not fill the shadow (ShadowMirrors) | `HasShadow = TRUE` in `state` | `state` has no shadow |

Scheduler and allocator:

| behaviour | how to see it | how the passing runs exclude it |
|---|---|---|
| with `GGML_SCHED_COPY_SLOTS_ON_ROTATE_ONLY` the slots share one memory while the events stay per slot, so a later graph overwrites inputs still to be read (SplitsReadTheirGraph) | `Setups <- MCSharedSlots` | `allSlots` is TRUE |
| a copy between two devices of one vendor is put on the *source's* stream; the destination's earlier readers of that slot are waited for only where the host copies the user's input first (2850) (SplitsReadTheirGraph) | `Setups <- MCPeerResidual` | peers with a residual only where there are as many slots as graphs |
| with CUDA graphs, `LLAMA_PIPELINE_ROTATE_COPIES` replays the graph of another slot: `advance_copy` changes the sources of the nodes and keeps the splits' uid, by which `ggml_cuda_graph_update_required` (4547) decides that nothing has changed (SplitsReadTheirGraph) | `Setups <- MCRotateCaptured` | rotating settings capture nothing, as in the builds of `src/scripts/tools/build-minimax-fast.sh`, which turn CUDA graphs off |
| `alloc_splits` ignores what `ggml_gallocr_reserve_n` returns (2611): when a backend is out of memory, the graph is placed on a buffer that is not there | the `Failing` family ends in the phase `"crashed"` | Placed allows it there |
| empty tensors leave free blocks of one offset unsorted | size 0 among `Sizes` | sizes are positive, and FreeBlocksCompact assumes it; MemoryExclusive does not need the order |

Also read, and not separated by a run: the comment at `ggml-backend.cpp:3520` says that generation uses the
same copy every time, as a synchronization resets `next_copy`; it does so only while `is_alloc` is unset, and llama_context
synchronizes with the graph still allocated, so that a new graph takes the next slot (`Synchronize`).
`needs_realloc` compares the number of nodes and the sizes it needs, nothing of the
topology, and no sizes of leafs; the branch for the parents of views (661-672) tests a condition that
its guard excludes; a leaf that is a view would make a view count of -1.

Outputs, each one an extension of a setting in MCOutputs:

| behaviour | how to see it | how the passing run excludes it |
|---|---|---|
| `encode()` does not clear the swaps of an unread decode, so that its rows are permuted when read (RowsOfTheirTokens) | an `eager` client | the client reads before it calls |
| a decode that is refused after it cleared the swaps leaves the rows of the last one out of order | `eager`, `"refuse"` | the same |
| a sampled token of an unread decode arrives after the fill with `LLAMA_TOKEN_NULL` | `eager`, samplers | the same |
| a failing encode leaves `n_outputs` and `output_ids` valid, so that older rows are read as its own (1968) | NothingElseReadable of encodes | the property speaks of decodes |
| unmasked pre-norm rows are stored per token, but swapped like output rows (2692, 2949) | `"unmasked"` with a reordered batch where not all tokens are outputs | its batches are in order |
| rows of embeddings are swapped with `n_embd`, though stored with `n_embd_out` (2943) | read only: the model's rows have one width | - |
| a sampler attached between a reordered decode and its first read meets an assertion (2955) | `SetSampler` while swaps wait | samplers change after reads |
| `get_logits_ith(-1)` after a failed ubatch counts that ubatch's outputs | negative ids after failures | NothingElseReadable asks ids >= 0 |
| an output reservation that fails keeps the samplers' views and the ids of the call before (NothingElseReadable) | `"reserve"` and samplers in one setting | each setting has one of the two, as OnlyOutputsReadable assumes |
| with a shadowed cache and `LLAMA_MINIMAX_FATTN_KV_SPLIT_EXACT`, `build_attn` (`llama-graph.cpp` 3066-3130) cuts the cells at `get_n_kv_prev()`, which neither `allow_reuse` nor `can_reuse_kq_mask` compares, although `llama-context.cpp:1776` says "in order to correctly reuse a graph, it's full topology has to be uniquely determined by these parameters". Ubatches smaller than the padding of 256 meet it: of two with 100 tokens, the first takes the cells in use from 200 to 300 (padded 256 before, 512 after) and cuts at 256; the second, from 300 to 400, is 512 before and after, would not cut at all, and runs the first one's graph. Prefix and tail still cover the same cells, so results differ only where the shadow differs from the cache or the order of the sums matters (ReusedAsBuilt) | `Setups <- MCHalfPads` in `outputs` | with `split`, an ubatch of a prompt fills exactly one pad |
| `set_warmup` changes how many experts a graph uses (`llama-graph.cpp:1212`) and asks for no reservation, and the comparison knows nothing of it, so that a graph of the warm-up is run again after it (ReusedAsBuilt) | knob `"warmup"` in `Graphs` | only the setting that pools, whose graphs are never reused, warms up |
| a graph that found no memory (1855) leaves its parameters in the result, where the builder put them (`llama-graph.cpp:1237`): the next ubatch of that shape reuses a graph without memory (ReusedAsBuilt) | `"alloc"` in `Graphs` | the same setting |
| the graph a prompt scheduler was reserved with (1038-1118) is not forgotten after the reservation, although 3018 says "when the scheduler is reset, we cannot reuse the old graph": an ubatch of that very shape reuses a graph without memory (ReusedAsBuilt) | `scheds = {"prompt"}`, two sequences, `NBatch = 2`, `Cells = 4` and a batch of a token of each | no ubatch of `Split` is as large as the reserved one |

Meta backend, each one a change of a setting in MCMetaBackend where it says so:

| behaviour | how to see it | how the passing run excludes it |
|---|---|---|
| in a group of two vendors - the case that uses the generic AllReduce - two devices of one vendor that exchange in the last step overtake each other: the copy runs on the source's stream and replaces the summand of the reduction before, which the destination has not added yet, although `ggml-backend.cpp:923` says "an async copy would normally happen after all the queued operations on both backends are completed" (PartsMakeTheWhole) | `Bias` with peers `Both(0, 1)` | peers are those of a first step |
| `LLAMA_TENSOR_SPLIT_KV` divides the cache otherwise than the keys that are stored in it, which meets the assertion of SET_ROWS (SplitsResolve) | a `splitKv` other than the attention's | not set |
| without `GGML_META_MINIMAX_DISTRIBUTED_RMS_NORM` the norms of queries and keys meet the assertion of operations by row (583) (SplitsResolve) | `distributed` FALSE | TRUE |
| a device without a slice of the experts drops its share of a bias divided over all, as ADD_ID is left out with the rest (PartsMakeTheWhole counts the summands of the devices that compute) | `bias` in `Uneven` | - |
| the graphs of subgraphs have room for as many nodes as the graph had when they were made, and are made for its subgraphs only; a graph of many nodes and few subgraphs, then one of fewer nodes and more subgraphs, then the first again overflow them (GraphsFit) | read only: the graphs of one model do not differ so | - |
| the zeroing of a node left out is a product with zero, which a NaN survives (2341, a FIXME of the code) | read only | leftovers are taken as numbers |

Server, each one a change of a setting in MCServerSlots:

| behaviour | how to see it | how the passing run excludes it |
|---|---|---|
| `n_discard` beyond what follows the kept tokens makes memory and prompt disagree, and the next batch ends every task that is being processed (2293-2315) (CacheHeld without `Overdiscards`) | `CacheHeld` with `Overdiscards` FALSE | the property names the exception; more than the whole prompt, or less than nothing, would resize it to a size that makes no sense, and is not among the requests |
| a parent whose batch was halved hands its state to the children after the first piece, before its prompt is whole in memory (CacheHeld) | children in `Full`, 3 slots, 8 cells | no children where cells lack |
| a parent that is refused for its length leaves children that wait for ever, and empty batches then abort the server (deadlock) | a long prompt in `Sharing` | prompts that fit |
| `SLOT_RESTORE` keeps the checkpoints of the old prompt, so that a later request loads a window of other tokens (CacheHeld) | `Files` with swa 2, ubatch 1, 2 checkpoints, 5 requests | no window there |
| a request without adapters continues a cache computed with some (CacheHeld) | requests with `Base` in `Adapters` | all requests there have one |
| the prompt cache does not know adapters | `promptCache` in `Adapters` | off |
| a restore that fails leaves memory without tokens, which is never purged (ExceededOnlyWhenFull) | `Files` with a unified cache of 5 cells | cells suffice |
| an embedding whose batch is halved is made of a part of its prompt (SampledFromOwnContext) | two embeddings in `Full`, batch 5, ubatch 3, 4 cells | no embeddings there |
| drafts are verified after the first piece when sampled and drafted tokens exceed `n_batch`, and may exceed what the batch was allocated for (995-1022) (SampledFromOwnContext) | batch 4 and 2 slots in `Drafts` | they fit |
| a slot that is freed wakes one deferred task; if that one only acts on the slot, or is cancelled before it is processed, the others wait for the next task (RequestsEnd) | `Leaving` with 1 slot and 3 requests, or `Files` without patience | patience, or as many slots |

Read only: when one of a parent and its children cannot be launched, only that one is answered; with
`n_batch` 1 a full cache is an error before an idle slot is asked to give up its prompt.
## 5. What is proved

`KVCacheProofs` proves about `KVCache`, for every number of sequences, streams and cells, every
window, every set of batches, ranges, deltas and divisors, and every choice of failures:

- **TypeCorrect** - `Spec => []TypeOK`. Beyond the types: a cell is empty exactly when it has no
  owner, its owners live in its stream, and no search head passes the end of its stream.
- **PlannedStayFree** - `Spec => []PlannedSlotsFree`. Without a sliding window, the slots that
  `prepare()` found for a whole batch are still free when each ubatch is placed, so
  `apply_ubatch` overwrites no token and purges nothing.
- **RefusedNeedsFull** - `Spec => RefusedOnlyWhenFull`. Without a sliding window, a batch is refused
  only when some stream has fewer free cells than the batch has tokens for it.

The assumptions are `ShapeAssumption` (KVSlots: there is at least one sequence and one cell) and
`ConstAssumption` (KVCache: batches are non-empty sequences of well-formed ubatches - equally long
rows per stream, and with a stream per sequence each row holds its own sequence's tokens - ranges
and deltas are integers, divisors positive). TLC evaluates both in every run.

None of these is inductive. `IInv == TypeOK /\ CallOK /\ FreeOK`:

- `CallOK` says what a running call looks like: the shape of each ubatch, that `plan[k]` remembers
  slots, heads and covered cells of ubatch `k`, and where `iCur` stands in each phase. TypeOK needs
  it because `RestoreUbatch` writes remembered cells and heads back.
- `FreeOK` says that the plan's slots are disjoint between ubatches, that the cells they covered
  were empty, and which of them are occupied in which phase: all of them while later ubatches are
  planned, none of the undone ones while undoing, only those placed so far while processing. The
  step that matters is `PrepareUbatchKeeps`: a slot found on cells where the earlier ubatches are
  placed is disjoint from theirs, and since it was free nothing is purged
  (`FreeSlotPurgesNothing`); `RestoreUbatchKeeps` undoes it.

One lemma per action (`SeqRmKeeps`, ..., `ComputeFailsKeeps`) is combined by `NextKeeps`; helper
lemmas state what each cell operation, `HeadAfter`, `AppliedRow` and `Written` preserve.

RefusedNeedsFull adds `RefusalInv`: while a plan that failed is taken back, some stream's `Room` - the cells that are
free or planned - is smaller than its tokens in the batch. It begins when no slot is found for an ubatch. That fewer cells
are free then than it needs is `HasSlot` of `KVSlotsProofs`, the converse of the search; that the cells planned
before are no more than the tokens of the ubatches before is `PlannedAreFew`. Undoing an ubatch turns planned cells into free ones
(`RoomStays`), and at the refusal the room is what is free.

The second half of `KVCacheProofs` is about what the buffers hold:

- **KeysRotated** - `Spec => []AttendedKeysRotated`, if K-shifts do not fail and, where graphs may
  fail, a token has one sequence (`OneOwner`: the rollback of `decode` looks at `seq_id[i][0]` only,
  section 4). Every key that a graph reads is rotated to the position its mask uses.
- **ShadowAgrees** - `Spec => []ShadowMirrors`, for a client that neither shifts nor copies between
  streams (`SteadyClient`: section 4 says what a K-shift does to the shadow). Windows, purges and
  failing graphs are included.

KeysRotated needs `ContentInv` beside IInv. A key fits its cell only after what is still queued and
pending: between calls `KeysInv` says so of the buffers after all queued copies, during the update
after those left, and while a batch is planned of the cells beside the planned ones, whose former
contents `prepare()` put aside; `ShiftInv` says that no shift is pending once the update is over, not even in what
was put aside; `QueueInv` where the queue is. While a graph runs, its own cells hold leftovers:
either still the ubatch's token, or what a rollback leaves of it.

`KVRefinesProofs` proves that the cache implements the memory of `llama.h`:

- **CacheImplementsMemory** - `Spec => ImplementsMemory`: SeqMemory with `SeqContent` for its
  variable. Initial states map to the empty memory, and each step - operations of the client,
  the update, planning and undoing, placing, computing, each failure - is one of the documented
  operations or changes nothing the client can see, except a K-shift that fails: it is a `Spoil`, after which each
  sequence has its positions (`ShiftFailsSpoils`).
- **OperationsAreComplete** - `Spec => OperationsComplete`: an API call has its *whole* documented effect, where the
  refinement alone would also allow it to do nothing.

Both assume `PlainUse`: no sliding window (a window forgets, which SeqMemory does not); the client
shifts only cells of one sequence, uses `seq_keep` on a unified cache only and copies whole
sequences between streams, which are the restrictions of section 4 with the code lines that need them; one sequence per token
where graphs may fail; and `MaxAppend` bounds the tokens a batch has of a sequence, as it is only
the bound of SeqMemory. Runs `unified` and `streams` satisfy PlainUse.

`RefineInv` is IInv with QueueInv, OwnersInv and four more parts:

- `SlotsInv` and `PlacedInv`: planned cells are different from each other, and when a graph runs its cells are
  those of the tokens planned for them, so that what Compute writes is the batch's tokens;
- `CountInv`: the ubatches of a call continue every sequence without a gap, from what it holds when the ubatch's turn comes,
  which SeqMemory demands of `Decode`. Each sequence has a function `next` from ubatches to positions; it is found when
  the call begins (`DecodeBeginCounts`), and the failed ubatches, which are rolled back, leave it alone;
- `AppendInv`: the bound.

The argument has three layers. *Queues*: the copies that are queued are made one after the other
(`CopiesMade` is a recursive function; `CopiesMadeIs`, `FirstCopyMade` and `LastCopyMade` say what it makes).
*Rows*: what an operation on one row of cells does to the entries of each sequence
(`RemovedHeld`, `AddedHeld`, `CopiedHeld`, ...), carried to `SeqContent` by `OneStream`. *Counting*: an ubatch gives each
sequence consecutive positions, as many as it has tokens of it (`RanksCount`, `UptoCounts`, `PositionedContinues`).
Induction over the length of queues and ubatches is `SetInduction` (KVSlotsProofs): a set that holds 0 and the successor of each of its
members is Nat, which takes a set and not a predicate as parameter.

About the positions themselves, which `find_slot` and the masks go by, it proves:

- **NoGapsInCache** - without a window: `Spec => [](Contiguous /\ WindowPresent)` for a PlainUse client that makes no gaps
  itself (`NoGapUse`: it removes suffixes, copies prefixes, neither shifts nor divides). Run `streams` without `seq_add` is such
  a client; the clients of `unified` and `streams` may make gaps, as `llama.h` lets them.
- **SlidingCacheKeepsWindows** - with a window of any length: `Spec => [](Contiguous /\ WindowPresent)` under `WindowUse`.
  The search reuses cells that hold a token, and the purge drops others, but only what no later token attends to.

The first follows from the refinement: `GapInv` says of the *abstract* memory that with an entry it holds one at every smaller
position, `PositionsHeld` that the cells show the entries and, while a graph runs, its own tokens.

The second cannot use the refinement, as SeqMemory does not forget. `WindowUse` says which clients are meant: batches of
one ubatch, no failing output reservation (in both cases the purge of `prepare()` outlives its plan, section 4), one
sequence per token where graphs fail, copies only between streams, and `seq_rm` of whole sequences - or of suffixes
with a window of at most 2, as in run `swa`, all of whose constants satisfy WindowUse. Its invariant is `SlidingInv`: IInv, SlotsInv, OwnersInv, PlacedInv and `WindowInv`,
which names for each sequence the position `n` that its next token takes, and says that the ubatch of the call continues there.
Three views of the cells are each a run of positions `low .. n - 1` with `low = 0` or `low <= n - NSwa + 1` (`HasWindow`):

- before the ubatch is planned, all cells of the sequence;
- while it is planned and taken back, the cells *beneath* the plan (`Beneath`) that the purge of placing it will leave (`Kept`): the restored cells
  hold their tokens again, the purged ones are gone, so the cells as they are need *not* be a run here;
- while its graph runs, those outside the slot (`Outside`); a graph that fails leaves just these.

The step that matters is `SlotKeepsWindow`: a slot takes a cell of the sequence only if its position is masked for a
token at `n` (`MaskedSwa`), so the largest position the slot covers is at most `n - NSwa`, the purge removes the positions up
to it, and the rest still is a run that begins at or before `n - NSwa + 1`. That the purge spares the
tokens just placed is in `ApplyWindows`, that a rollback removes exactly those in `ComputeFailsWindows`.

`FindSlotProofs` proves about `FindSlot`, for every size, content, head and length of a search:

- **SearchFindsSlot** - `Spec => []FoundIsSlot`. The loop answers what `SlotsOf` says, in both
  modes, and fails only when there is no slot.

The lemmas about slots that it shares with the cache are in `KVSlotsProofs`. Its invariant is `SearchInv`: `nTested` is how far round the ring the search has come; a search for single cells has
collected exactly the usable ones it passed, in order (`SingleInv`); a search for a window has left no window behind
(`ContInv`), though after a wrap it may go through the beginning of the ring a second time (`Passed`).

`OutputsProofs` proves about `Outputs`, for every batch, order of ubatches and history of calls:

- **ReuseSound** - `Spec => []ReusedAsBuilt`, for contexts that are `Steady`: not warmed up, with graphs that find
  room, without exact splitting of a shadowed cache, and without schedulers for prompts. The other four cases are the
  disagreements of section 4. The invariant, `CallInv /\ ReuseInv`,
  says of each kept graph that it has memory, divides no cells, and that what `can_reuse` does not compare - adapters by content, experts,
  pooling - is what the context has, unless a reservation is due, which will forget the graph.
- **OnlyOutputsReadable** - `Spec => []NothingElseReadable`, where either no reservation fails or no samplers are
  attached (`BufferOrSamplers`, section 4). `LastInv` says that the call in progress is the last one begun, `ReadInv` which
  ids are valid: none while a decode runs, so that its failure leaves none, and then those of its outputs.
- **PooledIsNew** - `Spec => []PooledOfLastUbatch`. `PooledInv` says what the first `k - 1` ubatches
  of the call have left of each sequence.

`MixedCopyProofs` proves about `MixedCopy`, for every size of tensor, chunk and ring
(`SizesAssumption`: they are positive):

- **TypeCorrect** - counters and sizes keep their ranges; no slot refers to bytes past the end.
- **SlotsExclusive** - `Spec => []NoSlotRace`.
- **CopyCorrect** - `Spec => []Copied`.

`IInv == TypeOK /\ ThreadsOK /\ RingOK /\ DestinationOK`. NoSlotRace alone is not inductive: that
the producer's slot differs from the consumer's follows from ThreadsOK, where the producer works on
an empty slot and the consumer on a full one. That the consumer finds *its* chunk there is RingOK:
the full slots are those of the live chunks (published, not yet released), and each holds its own
chunk; two live chunks cannot share a slot, as a slot has one offset and distinct chunks distinct
ones (`ChunkOfOffset`). DestinationOK then says what has been written, and `ChunksCover` that the
chunks are the whole tensor.

`GraphAllocProofs` proves first about `DynAlloc`, for every number of buffers, every set of sizes, every
alignment and every limit on chunks, and for *any* client of the allocator:

- **MemoryExclusive** - `AllocSpec => [](LiveApart /\ FreeIsFree /\ Reserved)`. No two tensors that are
  in use share a byte, no byte of theirs is free, no byte is free twice, and the size a chunk
  reports reaches to the end of every tensor in it.

The strengthening is `AllocInv`: the free blocks of a chunk and the tensors in it are pieces of memory that are
apart from each other pairwise. It is about the *set* of pieces that the array of free blocks
stands for, not about its order: one lemma per operation on the array (`Removed`, inserting,
cutting a block at its front, joining a piece to the block before it, behind it, or to both) says what it does to the
pieces, and each allocator operation is a few of these. That the array is sorted is not needed for this, and would not
hold with empty tensors. When there are none:

- **FreeBlocksCompact** - `0 \notin Sizes`: `AllocSpec => []BlocksSound`. The array is sorted, no two of its blocks touch,
  there is at most one block more than there are tensors in the chunk, and a chunk without tensors is one block. So the
  assertion `n_free_blocks < MAX_FREE_BLOCKS` (ggml-alloc.c:136) cannot fail while a chunk has fewer than 255 tensors, in
  whatever order their memory is given back.

The strengthening is `OrderInv`: the free blocks are `Ordered` (none is empty, and there is a gap before the next), and they and the
tensors are the `Whole` chunk: every byte up to its end is free or some tensor's. `Joins` is what `free_bytes` does to the
array for both (`BackJoins`, `FrontJoins`, `InsertJoins`; that the first block which touches the memory is the one
that grows is what keeps two blocks from touching afterwards), `TakeJoins` what an allocation does. From it `BehindBlocks`: the byte behind
a block is some tensor's; and `BehindOne`: no tensor is behind two of them; the bound is then the pigeonhole principle.

and then about `GraphAlloc`, for any families of graphs:

- **GraphAllocExclusive** - `Spec => AllocSpec /\ [](LiveApart /\ FreeIsFree)`. Each step of planning,
  placing and reserving a graph is a step of *some* client of the allocator or leaves its memory
  alone, so what MemoryExclusive says holds of it. The invariant it needs (`GraphInv`) only says that
  the graph belongs to the family under way. The assumption is `GraphAssumption`: the graphs are well-formed.
- **GraphBlocksCompact** - `0 \notin Sizes`: `Spec => []BlocksSound`, from FreeBlocksCompact.
- **GraphsFitBuffers** - `Spec => [](Foreseen => InsideBuffers)`. Every tensor that is placed lies within a chunk that
  exists, though the plan and the buffers were made for another graph.

The invariant is `BufInv`. `PlanningInv`: while a graph is walked through, each tensor it mentions will be allocated by a call
that is left, or lies within what will be reserved; the latter stays so when its memory is given back, because
chunks only grow until the plan is complete (`Grow`, a lemma per operation of the allocator). That the calls mention every
tensor (`CallsAre`) is a fact about `FlattenSeq`, proved by induction (`FlattenIs`; the induction is `SetInduction`,
from the well-foundedness of the naturals). `PlanInv`: the plan that is kept was made for one graph of the family, and each of its
entries lies within a buffer. `MentionFits` and `PlacedAsMentioned` then say that a graph for which `NeedsRealloc` is
false is placed by entries that are large enough for its tensors.

`Foreseen` has three conditions. No backend is out of memory: the code goes on with the buffers that it has (see
the hazards). No tensor is empty: a chunk that holds nothing but empty tensors is never made when the buffer exists. And
`LeafsFollow`: if the nodes of a graph and what they read fit where those of another were planned, so do its leafs,
because `ggml_gallocr_needs_realloc` only counts the leafs (ggml-alloc.c:1044). Every family of run `alloc` satisfies
`LeafsFollow`: a leaf is read by some node, at the same place in each graph.

`SchedProofs` proves about `SchedPipeline`, for every plan that `PlanOK` admits, every number of devices, slots and
schedulers, and all settings, except where said:

- **HeldBack** - `Spec => []HostHeldBack`. Of a split on a device that is given the user's input, no more
  computations wait on the stream than there are slots.
- **ReadsOwnGraph** - `Spec => [](CopiedByHost(setup) => SplitsReadTheirGraph)`. Where the host copies between
  devices, every computation finds the inputs, experts, results, placement and batch of its own graph.

HostHeldBack follows from `HeldInv`, which relates each stream to the events of its backend:

- `EventsInv` and `RecordsInv`: the recordings of an event that are still on a stream number what is recorded less what is passed,
  and only the stream of an event's backend records it. It is what lets the host conclude
  something about a stream from an event that it has found reached (`Clear`);
- `SentInv`: a computation of a split with inputs is followed on its stream by the recording of its slot's event,
  unless the host has not come that far yet;
- `ApartInv`: no two computations of such a split wait on the stream that were sent with the same slot, so that
  there are no more of them than slots;
- `FreedInv`: between the copy of the user's input and the computation, the slot's event stays reached. CopyUser
  establishes it, and nothing that the host sends before Compute records that event.

ReadsOwnGraph adds `ReadsInv`. Its heart is to say of a place in memory what it *will* hold when
the stream gets to an operation: `Held` (a slot) and `Made` (a result) take the content of now and the operations
before that one on the stream. `ComputesInv` says with them that each computation on a stream will read what is its own
when its turn comes; `CopiedInv` and `MadeInv` say so of the inputs that the host is done with, and of the splits it
has sent in the graph it is at; `BegunInv` of the user's tensors. `BoundInv` says that nothing is newer than the graphs begun,
and `CapturesInv` that a captured graph of the allocation's uid was captured with the addresses of now. Per action there are two kinds of lemma: the
action leaves what was sent alone (a copy by the host is made when the slot's event is reached, so that no
computation with that slot is left, `Unread`), and it establishes what is claimed of its own copy or computation.

The premise `CopiedByHost` has four parts, and each has a reason in the code:

- no pair of devices has `cpy_tensor_async` (devices of two vendors, which is what this repository is about). A copy between peers is put
  on the stream of the source, which does not wait for the reader of the slot (`MCPeerResidual`, section 4);
- each slot has memory of its own (`MCSharedSlots`);
- where slots rotate, no graph is captured (`MCRotateCaptured`);
- a split without inputs, for which no event is recorded (3122), reads no copies that an earlier split
  of its backend was given, and nobody waits for its event
  (`GGML_SCHED_COPY_WAIT_SOURCE_EVENT` off).

Eleven of the fourteen settings of run `sched` satisfy it. The other three have peers, within the bounds that section 4 gives, and
stay model-checked.

**Only model-checked.** Out of the prover's reach is liveness (DecodeReturns, SearchEnds, CopyEnds, NothingStuck, Placed,
RequestsEnd). The rest are invariants and steps whose proof is not done:

- the state files (KVState), which a theorem would have to relate to the cells they were written from;
- `RowsOfTheirTokens`, `CopiesFit` (outputs): they rest on selection sort, on rows that `SelectSeq` picks and on copies
  that `FoldLeft` applies. Each needs an induction per library operator before the first invariant can be stated.
- GraphAlloc beyond where its tensors are and what is free - SourcesIntact, NothingKept - and the meta backend and the server; SplitsReadTheirGraph outside CopiedByHost.
## 6. What is not modelled, and the plan

The `components` list in `PROJECT.json` gives each part's status. The cells header, the batch
splitter and the memory interface (`llama-kv-cells.h`, `llama-batch`, `llama-memory.h`) are not in
this snapshot; they are modelled from their use. Kernels are floating-point arithmetic over device
threads and stay out of reach; scripts and recorded artifacts have no state.

Parts of modelled components that are left out:

- scheduler: the evaluation callback, the profiler, the full copy of experts above a ratio, ranges of splits (the front
  overlap is KVOverlap, which looks at the cache), the graph of a K-shift as a user of the scheduler, `graph_optimize`;
- CUDA backend: memory pools, concurrent streams inside a graph;
- graph allocator: two buffer ids of one buffer type, `reserve_n_size`;
- KV cache: the recurrent and hybrid memories, `SET_ROWS` index layouts of the transposed V;
- server: `SET_LORA`, multimodal chunks, a draft context of its own, router mode;
- meta backend: the AllReduce of a communicator (NCCL), operations of models with recurrent layers and fused
  query/key/value weights, slices on their way from and to the host, memory of auxiliary nodes, switches for
  diagnosis; graphs of other models than MiniMax M2, adapters, and attention over the shadow;
- outputs: samplers of the backend beyond their output rows.

Order of work from here, most important first:

1. The CUDA backend's pools, and what a captured graph keeps of them.
2. Placement of layers on devices for the split modes other than tensor parallelism.

Theorems next: NothingKept of GraphAlloc; SplitsReadTheirGraph with peers, as far as it holds; for Outputs the lemmas about FoldLeft and SelectSeq that CopiesFit needs.
