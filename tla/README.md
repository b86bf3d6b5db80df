# Vulkore in TLA+

Vulkore (`src/` and `include/vulkore/` of the repository) is a small C++ compute
runtime over Vulkan; `examples/llm` builds a Gemma 3 1B decode loop on it and
`android/` a chat application on the decode loop. This directory holds TLA+
models of the parts whose correctness depends on order, ownership or failure,
the TLC runs that check them and the TLAPS proofs about them. Paths below are
relative to the root of the repository.

## 1. Inventory

| Component | State it keeps | Operations | Talks to |
|---|---|---|---|
| Submission core: `Context` one-shot command buffers and submission, `Fence`, `launch()`, `Batch`, `DescriptorCache` (`src/context.cpp`, `src/sync.cpp`, `src/launch.cpp`) | command pool, descriptor sets and their pools, per `Fence` the VkFence, `submitted_` and the completion hook, per `Batch` the open command buffer and its sets, the cache's map | `begin_one_shot`, `submit`, `one_shot`, `wait_idle`, `launch`, `Batch::add/submit/~Batch`, `Fence::wait/is_signaled/operator=/~Fence`, `DescriptorCache::clear` | the Vulkan driver; called by `Buffer` (staging copies) and by every client |
| Descriptor pools (`src/context.cpp`) | `descriptor_pools_`, `set_pool_` | allocate, free, grow | the core |
| Barriers (`src/launch.cpp`) | the commands of a command buffer | pre-barrier, narrow and wide post-barriers | the GPU's memory model |
| `Buffer` (`src/buffer.cpp`) | VkBuffer, mappability, coherency | `upload`, `download`, move, destroy | VMA; `Context::one_shot` |
| `Program`, `Kernel` (`src/program.cpp`) | reflection, lazily built pipelines | load, parse, `kernel`, `build_pipeline` | the core |
| `Context` construction and device choice | instance, device, queue, pools | constructor, `pick_device`, destructor | the Vulkan loader |
| `DecodeSession` (`examples/llm/decode.cpp`) | `pos_`, the KV cache, the logits on the device | `prefill`, `decode_step`, `reset` | `Batch`, `Buffer` |
| Weight cache `.xpack` (`decode.cpp`) | a file beside the model, a `.tmp` while it is built | load, validate, rebuild, rename | the file system, other processes |
| Pack waves (`decode.cpp`) | wave limits, chunk counter, first error | pack in threads, upload, write | threads |
| JNI `ChatSession` (`android/.../llm_jni.cpp`) | session, `done` | `create`, `prefill`, `step`, `reset`, `destroy` | `DecodeSession` |
| `ChatVM` (`android/.../ChatScreen.kt`) | transcript, `busy`, `ctxUsed`, `stopRequested` | `load`, `send`, `stop`, `newChat`, `onCleared` | main looper and one worker thread |
| Sampling (`decode.cpp`, `kernels/llm_sampling.cl`) | candidates, the sampling parameters | argmax, its three-dispatch tree, harvest, top-k and nucleus draw | `DecodeSession` |
| Dispatch chain and its plan (`decode.cpp`) | scratch buffers sized at construction | `record_token`, `plan_token`, `split_for`, `softmax_parts_for` | kernels, `Batch` |
| Quantised weights (`quant_repack.cpp`, `pack_group`, `kernels/llm_quant.cl`, `llm_matvec.cl`) | packed words and scales | extract, repack, pack; read in the matvec kernels | |
| GGUF reader, tokenizer (`examples/llm/model`) | key-value pairs, tensors; vocabulary and its indices | `open`, `config`; `encode`, `decode` | the model file |
| CLI, benchmarks, harnesses | none of the system's | | |

How they interact. One host thread drives a `Context`; the GPU executes
asynchronously. Vulkan objects are raw handles: a command buffer, and the
descriptor sets it binds, may be given back only after the GPU is done, which the
host learns by a `VkFence`. The `Fence` object carries the handle and a completion
hook that recycles both. `launch()` records one dispatch and submits it;
`Batch` records many, with an optional `DescriptorCache` that keeps sets across
batches; `Buffer` staging copies use `one_shot`, which waits. `DecodeSession`
runs one `Batch` per token and waits for it. The chat application owns one
session from one worker thread; the UI thread sends it work through a
single-thread executor and gets results posted back through the main looper.

What is hard, and what correctness means:

* the core: deferred recycling under every order of wait, poll, move and
  destruction, a Vulkan failure at each call, device loss, partial failure of a
  multi-set dispatch. Correct: nothing in flight is freed, nothing is freed twice,
  nothing leaks, no call hangs.
* pools: growth and reuse. Correct: a set is freed into the pool it came from and
  the number of pools follows the number of live sets.
* barriers and transfers: visibility between host, transfers and dispatches.
  Correct: every read sees the last write in program order.
* `DecodeSession`: exceptions in the middle of a prompt, the boundary at
  `max_seq`, sampling before running. Correct: the sampled logits are those of
  the present conversation's last position; no stale cache entry is attended to.
* `.xpack`: crash between two steps, two processes, a model replaced while it is
  loaded. Correct: a valid cache holds the weights its stamp names.
* pack waves: work distribution and first-error stop. Correct: everything uploaded
  was packed completely.
* `Program`: a request for a kernel that fails half way and is made again; rounding
  of grids and push constants. Correct: only what a failed build made can leak, and
  a recorded dispatch fits its pipeline.
* weights: packer, repacker, dequantiser and five kernels compute the place of the
  same bits independently. Correct: each reads what the other wrote, for every
  shape that is accepted.
* the dispatch chain: kernels, splits and windows are chosen per layer and
  position, buffers once. Correct: every dispatch stays inside its buffers and
  reads only what this conversation put there.
* tokenizer: a merge queue with stale entries, a leading space that is added and
  taken off. Correct: merges are those of a queue without stale entries; text
  comes back.
* GGUF: counts, lengths and an alignment given by the file. Correct: a file is
  refused or read back as it was written.
* sampling: candidates instead of the whole vocabulary. Correct: the same choice.
* chat: the UI thread and the worker race on stop, reset, new messages and
  teardown. Correct: the conversation on screen is the one in the KV cache, every
  turn ends, nothing is called after `destroy`.

## 2. Plan

The order in which the models were written, the most important behaviour first:

1. `Recycling` (abstract) and `Submission`, the core, refining `Recycling`.
2. `TokenContext` (abstract), `DecodeSession` and `Chat`, both against `TokenContext`.
3. `PackCache`: the weight cache with its pack waves, several processes and crashes.
4. `GpuMemory` and `Runtime`, which composes buffers, pools, cache and batches.
5. `Program`, `Tokenizer`, `Plan`, `Gguf`, `Quant`, `Packing` and `Sampling`, each a
   module of operators or of a sequential computation, side by side in `Algorithms`.

Proofs follow the models: one module of theorems per component, first what a step of
several actors could break, then the arithmetic for every size.

## 3. The modules

### Recycling and Submission

`Recycling` is the promise in ten lines: a command buffer goes from free to in use
to pending and comes back only from there or from an error path, never while
pending. `Submission` is the core in detail. Its state is what the C++ objects
hold: the allocated command buffers and sets, for each `Fence` object its handle,
`submitted_` and hook, for each `Batch` its command buffer and sets, the cache's
map; and what Vulkan holds: which command buffers are pending and which handles
are signaled. One action is one call up to the next point at which another thing
can happen: the GPU completing, a call failing, a wait blocking. `host` says
where inside a call the host is, so that a wait in a destructor that runs during
stack unwinding is a wait like any other. Failing Vulkan calls are members of
`Faults`; device loss makes every later call fail. Handles are reused after they
are freed, as drivers do.

### TokenContext and DecodeSession

`TokenContext` is the contract between a session and its callers: a log of tokens
that prompts and samples extend and `reset()` empties, sampled only in an open turn
and only from a distribution conditioned on the whole log. It is what
`llm_jni.cpp` and `ChatScreen.kt` rely on and never say in one place.

`DecodeSession` keeps the KV cache as positions holding tokens and the logits as
what the last pass attended to, layer by layer. This is the point of the
abstraction: a wrong offset of the sliding window, a pass at the wrong position, a
cache entry of an older conversation or of a failed pass all show up as logits of
the wrong positions, although no arithmetic of the network is modelled. `prefill()`
is one action per token, because it can throw between any two of them; a pass that
throws may or may not have reached the device. The client's part is one rule,
`open`: no `step()` after a `prefill()` that failed, or after `null`. `Chat` is
where that rule is discharged. The log of the refinement is the first `pos_`
entries of the cache.

### Chat

`Chat` has the UI thread (taps, and the coroutines the main looper runs) and the
worker thread, with the two FIFO queues between them. Correspondence:

| Code | Model |
|---|---|
| `exec`'s queue, a coroutine body run with `dispatcher` | `work`, the actions `RunLoad`, `RunReset`, `BeginTurn`, `RunClose` |
| `viewModelScope.launch` on the worker, continuations of `withContext` | `Post`, `looper`, the actions of `Looper` |
| `send()`'s body on the worker | `turn`: prefilling, about to read `stopRequested`, about to call `step()` |
| `llm`, the native session | `native`; `log`, `current` (its logits) and `done` |
| `ctxUsed`, `busy`, `loaded`, `messages`, `stopRequested` | the same names |

`viewModelScope.launch` on the UI thread runs its body at once up to the first
suspension (Dispatchers.Main.immediate), so `load()`, `send()` and `newChat()` are
one step each; `load()`'s missing-file branch ends where it began and is no step.
A native call is one step, because nothing else can observe the session in the middle of one
except `position()`, which only the worker calls. Before `onCleared()` the view model's scope is cancelled: coroutines not
yet started and posts not yet run never run, the turn the worker is in goes on to
its end, and the task that closes the session comes after it. Repainting is a
clock reading in the code (33 ms), hence a choice in the model. Text is the sequence of
tokens shown; the estimate `prompt.length / 3 + 256` is a constant `Need` per prompt
that may be too low, as it can be for text of which a character is several tokens.

Two history variables serve properties only: `asked` (words the reply had when
STOP was tapped) and `raced` (a message was sent while a reset was under way).

### PackCache

`load_packed_weights()` in several processes that share a model path and a cache
path, step by step as the file system sees them: `at` is the place in the function,
`fd` the open file, `files` what each inode holds, `cache` and `tmp` the two names.
A rename moves a name; a file stays what it is for whoever has it open. The
environment replaces the model, kills a process, or, with no process running, loses
power, and of a file never synced any part may be left.

| Code | Model |
|---|---|
| `DecodeSession`'s constructor maps the model | `Open`: `map` is the version mapped |
| `source_stamp`, `expected_header` | `Stamp`, `Want` |
| `open_valid_cache` and the fast path | `OpenCache`, `ReadTable`, `ReadEntry` |
| `pack_cache_verify` | `VerifyEntry` |
| the wave loop, its worker threads, the join | `FormWave`, `Take`, `PackChunk`, `PackThrows`, `Join` |
| upload, cache entry, release | `UploadTask`, `WriteFails`, `UploadThrows` |
| the tmp name emptied, its blank header | `OpenTmp`, `NoTmp`, `BlankFails` |
| table, header, `fsync`, `rename` | `WriteTable`, `WriteHeader`, `Fsync`, `Rename`, `FinishFails` |

Bytes are abstracted to where they came from: a chunk is the version of the model it
was packed from, a stamp the version it was taken of, a hash the entry itself
(hashes do not collide). Torn reads of a mapping whose file is overwritten in place
are not modelled: a replaced model is a new file.

### GpuMemory and Runtime

`GpuMemory` is the part of Vulkan's memory model the code relies on, for one
buffer: who wrote last, who can see it, which reads may still be overtaken. Nothing
is visible or ordered unless a barrier, a submission, a flush, an invalidate or a
waited fence made it so. One rule is taken on trust because the code takes it
(`buffer.cpp:187-200`): after a copy whose fence was waited for, the host and later
copies see its result.

`Runtime` is the program between two calls: buffers with recycled handles on every
kind of memory, `launch()`, one open `Batch`, a `DescriptorCache`, descriptor pools
and `set_pool_`. A batch's commands are carried out in order over `GpuMemory`, with
the barriers `record_into` puts between them. The failures and what happens inside
a call are in `Submission`; here the caller keeps the documented contracts: it waits
for work before it maps or destroys a buffer the work uses, and clears the cache before it
records again after destroying a buffer of it. `used` remembers what every dispatch
was asked to work on.

### Program

Both passes of `parse_reflection` over an instruction sequence (`Parses`, `Args`,
`PushSize`, `LocalSize`), `strip_non_semantic`, `build_pipeline` as one action with
the number of creations that succeed as its choice, `record_into`'s checks
(`Accepted`) and what it records, `~ProgramImpl`. `objects` is what exists in the
driver, each object labelled with the attempt that made it.

### Gguf, Quant and Packing

`Gguf` reads a file as the code does, one field after the other with a position that
becomes `Bad`, and has the writer of `model/selftest.cpp` beside it. A file is a
sequence of fields, each as long as its bytes; numbers are integers, not cut to the
width of what they are read into. `Writable` is what the writer is given, `Legal` what
of it is a file in the format, whatever types its keys have, and `Cased` says that
`read_scalar` has a case for every one of them.

`Quant` says of each quantised element which bits of its row it is made of, in the
reference dequantiser, in the repacker and where the kernels of `llm_quant.cl` look.
`Packing` is the int4 format of the decode path: the cell of a weight and of a scale
in three layouts, and the cell the kernel reads. Neither has values: a weight is its
bits' places.

### Tokenizer

`encode` as a merge loop with one action per pop of the queue: `syms` is the linked
list, `work` the set of bigrams, from which the greatest is popped and skipped if a
symbol of it has changed. `decode` skips special tokens and strips the first piece
that is text. A byte is what the code tells apart: the space, first bytes of characters
of two, three and four bytes and later bytes, the bytes of the marker U+2581.

### Plan

The session's configuration after the constructor's fallbacks (`Effective`), the
sizes of its buffers, and the chain of dispatches `record_token` records for a
position, where a dispatch is its grid, the threads its kernel needs, and the
stretches of buffers it writes and reads. `PlannedTotal` is `plan_token`.

### Sampling

Logits are natural numbers and their softmax weights positive ones (the constant `Exp`),
so that sums are exact, and a weight that `exp` rounds to 0 is left out;
a draw is the set of tokens some random number gives.

### Algorithms

The seven modules above side by side: a behaviour starts one of them and runs it to
its end; the stateless ones are asked a question in the initial state.

## 4. The runs

| Run | Question | Bounds, and why they are enough |
|---|---|---|
| `submission` | does any order of calls, completions and failures free something in flight, own it twice, lose it, or run a hook early; does every call return, does the core implement `Recycling`? | two command buffers, two sets, two fences over two handles, one batch, two cache keys: a move between two fences in flight, a batch being recorded while a fence is in flight, dispatches with one and two sets, a cache hit and a miss. No symmetry, as liveness is checked too. Safety and refinement are proved for any number of each |
| `submission_leak` | violation, see below | batches only, `vkQueueSubmit` may fail |
| `submission_drain` | violation, see below | one fence, the drain's wait may fail |
| `decode_session` | are the sampled logits always those of the present conversation? | four positions, a global layer and one with a window of two (it slides twice), prompts of one to three tokens (a prompt that overruns, one that fills the cache exactly), every pass may throw |
| `chat` | what do the UI thread and the worker do to each other? | seven positions, five messages (two turns and a notice), at most two queued tasks beside the turn, a one-token prompt that fits twice and a three-token prompt the estimate gets wrong |
| `pack_cache` | can a load end with weights of something else, a name lead to half a file, memory exceed the cap, a load hang? | two processes with two threads each, so that builders meet in one tmp file and a reader meets a builder; two tensors of two chunks and one, each a wave; two layouts; the model replaced once, two loads in all (a builder and its reader), one fault of any kind |
| `pack_cache_stale` | violation, see below | one process, no fault |
| `runtime` | is every access ordered after and shown what it needs, does every dispatch bind its buffers, is every set somebody's? | two handles that each name two buffers in turn (a handle is reused while the cache still has it), two dispatches a batch (one without a pre-barrier), three sets for pools of two (a second pool), all kinds of memory |
| `algorithms` | do the sequential parts do what they promise? | programs with two kernels, unknown instructions, a missing ordinal and a block over the limit, three builds; 567 texts with overlapping merges of equal score and whole, short and long characters of two, three and four bytes, three vocabularies; twelve session shapes, every position; eight files cut at every byte, with alignments of 16, 32 and 48, two of them illegal and two with a 64-bit integer key, and one aligned to 2048 cut around its last tensor; all four quantised types, three layouts, five splits; all logits of six tokens with three values |
| `algorithms_wide` | violation, see below | the files of `algorithms` |
| `chat_stop`, `chat_new` | violations, see below | the same instance without failures |

What the violations show:

* `submission_leak`: `Batch::submit` empties the batch before it calls
  `Context::submit`. When that throws, `~Batch` has nothing left to release, against
  `launch.hpp:210-211`.
* `submission_drain`: `Fence::destroy` ignores the result of its wait; on a failure
  other than device loss the hook frees a command buffer that still runs, against
  `sync.hpp:38-39`.
* `pack_cache_stale`: the constructor maps the model, `load_packed_weights` stamps the
  path afterwards. A file put in its place in between gives a cache with the new
  stamp and the old weights, which every later load accepts, against
  `decode.cpp:715-721`. `LoadsOwnModel`, checked by `pack_cache`, says that this and two
  builds with different headers in one tmp file are the only ways.
* `chat_stop`: the button says STOP from the moment a message is sent, and
  `stopRequested = false` comes after `prefill()`. A STOP tapped in between is
  erased. Clearing the flag before queueing the turn would keep both `NoStaleStop`
  and this property.
* `chat_new`: `newChat()`, and `send()` with a full context, do not set `busy`. A message
  sent before their continuation has run is accepted, and the continuation then
  changes a transcript it was not meant for. `InSyncUnlessRaced`, checked by `chat`, says
  that this is the only way for screen and cache to disagree, failed prompts,
  stopped and truncated replies included.

* `algorithms_wide`: `gguf.cpp:80-81` says that callers need not care whether the writer
  chose u32 or u64, and `gguf.hpp:93-95` that scalars of any width are widened.
  `read_scalar` has no case for the 64-bit integers (`gguf.cpp:94`): one such key, or an
  array of them that is not empty, and the whole file is refused. `FileReadsBack`, checked by
  `algorithms` and proved, says that this is the only way for a legal and complete file to
  be refused, and asks nothing of a file with such a key.

Every property of a passing run is violated when one definition is replaced by a mutant of
it (`PROJECT.json`, "mutants"): a dropped guard, a missing reset, a boundary off by
one.

## 5. Fairness

`Submission`: the host thread goes on whenever a call can go on (`WF` on
`Progress`), which is the
scheduling of one runnable thread, and the GPU completes what is pending or the device is
lost (`WF` on `GpuComplete`), which Vulkan guarantees for the finite work submitted here. New calls
are under no fairness: a program may stop making them.

`Chat`: weak fairness of the worker and of the main looper, each a thread that
runs what its queue holds. Taps, replies ending and passes failing are under none.
`TurnsEnd` still holds for a model that never emits `<end_of_turn>`, because the KV
cache is finite.

## 6. The proofs

All theorems hold for every value of the constants; the assumptions are the
modules' own (`DispatchAssumption`, `NullAssumption`, `SessionAssumption`,
`ChatAssumption`, `RuntimeAssumption`, `PackAssumption`, `InodeAssumption`,
`ProgramAssumption`, `TokenizerAssumption`, `PlanAssumption`, `ExpAssumption`,
`QuestionAssumption`) except where named here. Induction over data is done by hand: the
library's induction theorems take an operator, which no prover here can instantiate, so
`FiniteFacts` states induction over numbers and finite sets for sets (`EveryNumber`,
`EveryFiniteSet`) and derives greatest elements and ranks from it.

* `SubmissionProofs`. The invariant is `IInv`, nine named parts: each handle has one
  owner, a pending command buffer has a fence or is on its way to one, what a hook
  will free is exactly what its command buffer binds, an open batch's sets are the
  cache's or its own. The safety properties do not survive a step by themselves: that a
  hook may free a set needs to know that no other command buffer binds it. The
  theorems assume `"drain" \notin Faults`, i.e. that a wait without device loss returns
  only after completion; `submission_drain` shows why. `LeaksWhereItThrows` proves the action
  property `LeaksOnlyOnThrow` from `IInv` and `Unopened` (a Batch that was not constructed
  holds nothing to be overwritten): command buffers are lost in `BeginFails`, `EndFails`
  and `UnwindFence`, in no other step. `Refinement` proves `Recycling`.
* `DecodeSessionProofs`. `SamplesWholeContext` is inductive together with two facts:
  every position below `pos_` holds a token, and inside `prefill()` no turn is open. The heart
  is `KvStart`: `seq_len - w`, or 0 up to the window, is the first position of the
  last `w`. `KeepsTheContract` then proves that the session implements `TokenContext`.
* `ChatProofs`. The invariant has four parts: types, `Sessions` (who may rely on the
  session existing), `Queues` (the lock `busy` and the order in both queues) and
  `Stops`. `ClientKeepsContract` adds that the logits are fresh at each `check` and
  `step`.

  `OneBos` needs that the token loop only runs on a conversation that has begun;
  `CounterTrue` needs `Counted`: between turns the last post in the looper's queue
  carries the session's position. `ConversationInSync` proves `InSyncUnlessRaced`. Its
  invariant `InStep` says for each place a turn can be at what part of the transcript
  the cache holds: nothing of the question while it waits, question and reply so
  far while it runs, what the last post will show when it ends, and, between turns,
  everything, unless a reset is still to be shown, when it holds nothing. What a transcript and a
  log say is computed by recursive functions, about which the lemmas `ToldNext`,
  `ToldCut` and `TextOfMore` are inductions over the sequence. `ChatAssumption` has it
  that a user never sees an end or newline token as text, and types none that opens a
  conversation (the tokenizer would take a typed `<bos>` for one).
* `RuntimeProofs`. Two facts about who holds a set: the cache, the open batch and the
  hooks have none in common, and an entry of the cache names the buffers that have its
  handles now, unless one died since `clear()`. `BindsRight` and `SetsOwned` follow.
  `AlwaysCurrent` proves `TransfersCurrent` by an invariant about every buffer: between the
  calls it is at `Rest` (whatever touches it next after a wait or a submission sees its
  contents), inside a batch it is `Running` (a shader sees them, and only a copy could
  still overtake an access), and the two wide barriers lead from one to the other. That
  every dispatch of a batch keeps `Running` is an induction over the batch; that the
  first one has the barrier in front is `FirstWaits`.
  No bound of the run is used: pools, batches and reuses of a handle are unlimited.
* `PackCacheProofs`, for any number of processes, threads, tensors, faults and
  replacements. `Progress` says which file, tensor and chunks go with each place in the
  load: while a wave is packed, a chunk is done, still to be taken, with a thread, or a
  thread has thrown; so after a join without an error the wave is whole. `Names` is about one
  builder at a time: what it has written is what the tmp name leads to, complete and synced
  when it is renamed. `Contents` is about many: every file is `Owned` by one header,
  which all who may still write it share, so whoever reads a file with the header it
  wants reads nothing else, even one another process has not finished. Both need
  `NamesApart`: no file is emptied while somebody reads it. `HeldFits` gives
  `HostBounded`; that `WaveEnd` exists is a lemma. `InodeAssumption`: a new
  file finds a free inode.
* `QuestionProofs`, about the parts that only answer a question. For `Packing` and
  `Quant`, what the run `algorithms` sees on a few shapes, for every shape: kernels
  read the cells that were packed, no two weights or scales share one, threads with
  different column groups never write one word, everything fits the buffers, a split
  kernel sums every block once, and the packer takes the bits the reference
  dequantiser takes. All rests on the uniqueness of quotient and remainder
  (`EuclidUnique`); a count of cells is turned into a one-to-one function by `AsMany`.
  `EveryRepackAgrees`, `EveryPackingAgrees` and `QuantiseLosesHalfAStep` put it together.

  For `Sampling`, `Ordered` says that `Better` is a strict total order, so every finite
  set has a `Champion`. The tree finds the champion since every level hands on the
  champion of what it saw and nothing that was not there (`TreeFindsTheArgmax`). The
  harvest loses nobody: were one of the k best missing, four better ones would share
  its chain, with it five; and conversely a candidate of the harvest that is not one of the k best
  has k better ones in the harvest too (`HarvestKeepsTheBest`). `Mass` is a sum over a set by
  an arbitrary choice of the next summand; `MassAdds` says that the choice does not
  matter, which gives the share of a nucleus (`NucleusSuffices`).
  For `Gguf`, `ReadBack` says that any file a writer wrote, with any keys, tensors and
  alignment, cut anywhere, opens only if it is legal and long enough, that it opens then if
  `read_scalar` has a case for every key, and that what opens is as it was written. `Has`
  says which bytes stand at a place as far as the file goes, `Yields` that a read gives its value and goes on behind it or, if the file ends before, fails;
  `StringRead`, `ScalarRead`, `ArrayRead`, `PairRead` and `TensorRead` are of this form, and
  a read after one that failed fails too. `Laid` puts parts in a row at the sums
  of their lengths, and `EndsAt` is where reads in a row get to (`PairsInARow`,
  `ScalarsInARow` and so on, by induction on the number of items). What the reader stops at, a
  key of a type without a case or a tensor of five dimensions or of part of a block, is a part
  that goes beyond any file (`KeyEnds`, `LegalEnds`). `NextMultiple` and `Multiples` keep the
  tensors aligned (`BlobStands`), `AllThere` makes the comparison with the last tensor's
  end one with all of them, and `OwnConfig` shows that the configuration comes from the
  model's own keys, whatever the others are.
* `AlgorithmProofs`, for every set of SPIR-V modules, launches and limits. `PInv` says
  that a built kernel is `Whole` (its layouts and pipeline are of one build and
  fit what was reflected), that what the `Program` holds exists, each object for the
  kernel it was made for (`HoldsInv`), that every other object is of a build that failed and,
  while the program lives, was tried again (`LostInv`), that a kernel is built
  once, and that the last launch was accepted for a kernel that is still as it was.
  `OnlyFailedBuildsLost` and `EveryLaunchFits` follow, the latter with the arithmetic
  of a grid rounded up to workgroups. `ProgramAssumption` asks of a module what `program.cpp`
  takes from clspv without a look (`SpirV`).

  For `Plan` the chain of a token is taken apart as `record_token` puts it together.
  `Runs` says of a sequence of dispatches that each has its threads, stays within its
  buffers and reads only what is known to be filled when its turn comes, and which
  stretches are filled afterwards; `Then` puts two such sequences one after the other.
  Every block (`Norm`, `Matvec`, `Project`, `Softmax`, `Attend`, `PickToken`) has a
  lemma of this form, whatever kernels it chooses. A layer needs nothing of the layers
  before it but the residual `x`, so the layers run by induction on their number;
  `EveryChainFits` follows. `Counts` does the same for the number of dispatches
  and gives `EveryTokenAsPlanned`. `QInv` is no more than that the last chain is
  `record_token`'s at the position before this one, under a configuration that came
  out of the constructor. `PlanAssumption` bounds `softmax_max_parts` by the model's
  `PartCounts`, and has `ffn` as the longest row of a matvec.

  `EveryFileReadsBack`, `EveryWeightAgrees` and `EveryTokenExact` carry what `QuestionProofs`
  shows into a behaviour, in which a question is asked once and stays. `QuestionAssumption`
  says what is asked: a file that is `Writable`, which leaves out only unknown types and a
  writer that pads to another alignment than its key says, cut within its length;
  rows the tensor has; at least one chain and one part; `top_p` as a fraction up to one.

  `EveryMergeBest` proves the action property `MergesBest` for every vocabulary and text.
  Its invariant `TokenizerInv` says that the symbols left are a doubly linked list
  (`Linked`), that every pair that could be merged is in the queue, and that an entry of
  the queue whose symbols are alive and as long as they were is still a pair of neighbours
  (`Queued`): symbols only grow, so a size that still fits is proof that nothing changed,
  which is what tokenize_fragment's staleness test relies on. `TokenizerAssumption` says
  that texts, vocabularies and spellings are sequences.

  `EveryTextReturns` proves `RoundTrips` on top of it, for texts of any length. The
  invariant `TripInv` follows a plain text through the encoder. Byte `i` of the text, with
  the prefix space in front, is at `Spot(i)` of the normalised one, because every space
  before it takes three bytes (`NormSpelled`). Each symbol starts and ends at a spot, and is
  a token unless no space is in it (`Spelling`): so it is after the split into characters
  (`SplitSpelling`), and so it stays, since only tokens are merged (`MergeSpelling`). A symbol
  is therefore emitted as tokens whose pieces are its bytes of the text (`SymbolGives`), and
  the list gives them in order (`EmissionGives`). decode leaves bos and eos out and takes the
  prefix space off the first piece (`DecodedBefore`, `DecodedAfter`, `DecodedText`). What
  `RoundTrips` asks of text and vocabulary is in `PlainText` and `PlainVocab`; nothing of
  that is assumed of the constants. Its recursive functions are handled by the values they
  take along a rank that falls (`ChainExists`), not by induction over texts.

Only model-checked: the liveness properties (`CallsReturn`, `TurnsEnd`, `Released`),
which need fairness, and `NeverStuck`, which is about `ENABLED`.

## 7. Not modelled, and remarks

What is left out and why is said per component in `PROJECT.json`. In short: Vulkan
bring-up and device choice, a straight line of calls; the numerics of kernels,
softmax and bf16 scales, which are floating point over large arrays; layout of the
screen; command lines, benchmarks and harnesses, which keep no state of the system.
Of modelled parts: byte offsets and sizes of transfers and transfers that throw;
hash collisions, and a model file overwritten in place under a mapping; a rename
not yet on disk when the power goes (it is a crash before the rename); 64-bit sizes
in a GGUF file that wrap around; the choice of a bf16 scale (`QuantiseBounded` is
about the exact block scale).

Met while reading, without a run of its own:

* `launch.hpp:123` lets `DescriptorCache::clear()` be called when nothing is in flight; a
  `Batch` that recorded cached sets and is not yet submitted is not in flight, and would
  be submitted with freed sets. The models read the contract as covering recorded work
  (`CacheIdle`), as nothing else makes sense of it, so no run goes there.
* `decode.hpp:616-618` says that prefill skips the lm_head for every token; the code
  skips it for all but the last (`decode.cpp:1804`), as it must.
* `VulkoreLlm.kt:6-7` and `llm_jni.cpp:3-5` want every method on the owning thread;
  `ChatScreen.kt:117-119` and `:173` call getters on the UI thread. `ReadsAlone` shows
  that the worker never uses the session at that moment.
* The comment at `llm_jni.cpp:129-131` relies on the model having closed its turn with
  `<end_of_turn>`; after STOP or a truncated reply it has not, and the next turn opens
  with a bare newline.
* A prompt that fills the cache exactly is accepted and answered by an empty reply.
* Two processes that build the cache at once share `<model>.xpack.tmp`. With one
  layout each leaves what the other would; with two layouts of equal sizes (a
  `Km4` beside a `ColumnNibble` build) the file renamed can have the header of one over
  the entries and the table of the other, and every check passes.
* The flush in `Buffer::upload_bytes` and the invalidate in `download_bytes` throw with
  the memory still mapped (`buffer.cpp:140`, `:180`); the bounds checks add two 64-bit
  numbers before comparing (`buffer.cpp:128`, `:163`).
* A required workgroup size is used as it was reflected; `group_count` divides by it. That no module
  asks for a zero is the last conjunct of `SpirV`.
* What a failed `build_pipeline` made is overwritten by the next attempt and never
  destroyed, although `program.hpp:62-63` has the Program own it.
  `OnlyFailedBuildsLeak` says that nothing else leaks.
* `tokenizer.hpp:17-18` has `decode(encode(s)) == s` for arbitrary bytes. `RoundTrips`
  needs whole characters, no U+2581, no special token and no byte token's spelling in the
  text, and a vocabulary with the marker and the bytes whose bos and eos are special
  tokens, none of which contains a marker. A U+2581 comes back as a space; a text
  "<0x41>" that merges into the byte token of that spelling would come back as "A".
* The comment at `decode.cpp:296-301` says that a deep token takes 78 dispatches more
  than planned; the next line plans for it. Nothing compares `record_token`'s count
  with the plan. `AsPlanned` names the configurations in which they agree: not with one layer
  (`m.n == 1`), not when a module has some of the parallel kernels only, not with a
  temperature but no `topk4` kernel.
* `--softmax-parts N` with N no power of two lets `softmax_parts_for` return more than
  `softmax_max_parts` (`decode.hpp:291`), beyond the end of `sm_pmax` and `sm_psum` at
  deep positions; hence the premise of `ChainFits`.
* `mv_partial` is sized with `split_for(ffn, cols)` (`decode.cpp:1579-1585`). A shorter row
  is split no further than a longer one, so this is the worst case as long as no row is
  longer than `ffn`; the constructor does not look. Hence the last conjunct of
  `PlanAssumption`.
* `Sampling::top_p` says that candidates are discarded before drawing; `sample_cpu`
  does not look at it.
