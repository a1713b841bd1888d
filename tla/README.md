# Fuel: TLA+ models, model checks and proofs

Fuel (`src/`) is a Rust inference and training stack: a lazy tensor front end, a
graph IR with a planner, a pipelined executor over CPU, CUDA and Vulkan backends,
and on top of it the serving layer that decodes many sessions over one paged
key/value (KV) store. Most of the code computes tensors. This project models the
parts where the order of operations decides whether the answer is right and where
unit tests reach least:

* the **paged KV store and its scheduler**: blocks with reference counts that
  sessions share, copy on write, evict to the host, restore and recycle, while a
  scheduler admits, suspends, batches and drops sessions and any device call may
  fail;
* the **contiguous decode paths**: held and captured plans that several requests
  drive in turn, speculative decoding, the contiguous scheduler;
* the **pipelined executor and the Vulkan queue** below it: a compiler thread, a
  device that reorders what no barrier orders, and a recycler of device buffers;
* the **planning of in-place graphs**: the order, the copies and the evictions;
* **training**: checkpoints and resumption, and the pipeline-parallel schedules.

## 1. The parts and how they interact

```
 host program                                        training script
   |                                                   |
   v                                                   v
 PagedSessionScheduler   SessionScheduler,           TrainingLoop, Checkpoint
   |                     speculative decoding,       pipeline schedules
   |                     a server of requests
   v                       |
 paged decode steps        v
   |                     held / captured decode plans over contiguous caches
   v                       |
 DeviceKvPool              |
   |                       v
   v                     lazy front end -> graph passes -> PipelinedExecutor
 KvBlockPool + index                                         |
                                                             v
                                                     Vulkan recorder, queue,
                                                     buffer recycler
```

| part | state | what is hard | what must hold |
|---|---|---|---|
| `KvBlockPool`, `KvBlockIndex` | free list, counts, block tables, prefixes, hash maps | a block with many owners; handles that outlive what they describe | counts are exact, nothing leaks, prefixes stay whole, the maps are inverse |
| `DeviceKvPool` | block contents, saved bytes | allocator and bytes change in separate steps, each can fail | a session's history is its own |
| paged steps | the step in progress | a batch is one pass over many sessions; an error leaves what was done | no shared block is written, a batch never starves half-way |
| `PagedSessionScheduler` | phases, texts, budgets, suspensions | host calls in any order, positions nobody compares with the text | each session attends to its own text, sessions complete |
| contiguous decoding | caches, a held plan, its capture | one plan, many caches; a cache replaced under a plan; roll back after a rejected draft | no request reads another's rows; speculation changes nothing |
| executor, Vulkan queue | channel, storage cache, batches in flight, recycled buffers | nothing waits; buffers are reused before the device is done with what named them | each command reads its inputs, a realize returns |
| graph passes | a graph under rewriting | in-place nodes and views share storage | kernels read what the graph means |
| training | parameters, checkpoint directories | a crash between two files | a resumed job is the uninterrupted one |

`PROJECT.json` lists every part of the repository, with the reason for each one
that is not modelled (section 8).

## 2. The modules

| module | models | state and actions |
|---|---|---|
| `KvBlockPool` | `KvBlockPool` and `KvBlockIndex` (`fuel-kv-pool`) | one action per public operation that changes state; `free`, `refcount`, `slots`, `filled`, `prefixes`, `cached`, `cached_by_block` are the fields of the same names, `handles` the `Externalized` values callers hold |
| `DeviceKvPool` | `DeviceKvPool` (`fuel-tensor`) | extends the allocator with `cells` (rows of every block) and `saved` (bytes kept with a handle), and the torn variants of each operation |
| `LogicalKv` | nothing in the code: the abstract promise | one private history per session; `Start`, `Feed`, `Fork`, `End` |
| `PagedForward` | `forward_paged_step`, its plan-once sibling, `forward_paged_step_batched` (`fuel-model-llama`) | `BeginStep`, then `StepAppend` / `StepWritable` per session, then `StepWrite`; the error exits of each stage |
| `PagedSessionScheduler` | `PagedSessionScheduler` (`fuel-inference/src/multi_session.rs`) | host calls, and the quantum: prefill pass, collection of the decode-ready sessions, chunks, sampling, completion |
| `KvCacheDecode` | the contiguous cache and the decode paths over it (`fuel-tensor`, `fuel-model-llama`) | `heap`; the rebuilt graph, the held plan, the captured plan and the batched pass as operators from a heap and a cache to outcomes |
| `DecodeClient` | a server of several requests over one held or captured plan | allocate, clear, truncate, replace a layer, call |
| `SpeculativeDecode` | `generate_streaming_spec_with_kv_context` | prefill, draft, verify, accept and roll back, bonus |
| `SessionScheduler` | the contiguous `SessionScheduler` | admission with its reservation, the step's prefill, batched and serial arms, reap |
| `ContiguousDecode` | the three callers above | a behaviour is one of them over its own heap |
| `VulkanQueue` | recorder, submissions, one-shots, fences, recycler (`fuel-vulkan-backend`) | one record `vk`; the backend's calls as operators on it, `Execute` as the device's step |
| `PipelinedExecutor` | `realize_inner_with`, the compiler thread, `execute_work_item` (`fuel-dispatch/src/pipelined.rs`) | an action per stage of a work item, eviction, the ends of a realize, the compiler thread, the device |
| `GraphPlan` | the ordering, planning and copying passes (`fuel-graph`) | operators on a graph, no state |
| `GraphRealize` | building a graph, the passes, the dispatch over shared buffers | push, request, evict, realize, dispatch, return |
| `TrainingJob` | `TrainingLoop`, `Checkpoint`, `Var`, `VarMap`, `Sgd` | step, evaluate, the four writes of a save, crash, resume |
| `PipelineSchedule`, `PipelineRun` | `build_gpipe`, `build_1f1b` (`fuel-parallel`), and callers that run them by time or by order | `Tick`, `StageStep` |
| `MC*` | | symmetry sets, prompts, workloads and constraints for TLC |
| `KvInvariants` | | the invariants of the allocator and what the layers above need of it |
| `KvBlockPoolProofs` | | theorems about `KvBlockPool` |
| `PagedFacts`, `PagedForwardProofs`, `LogicalKvProofs` | | lemmas about the paged store and its refinement |
| `PagedSchedulerProofs`, `PagedTextProofs` | | lemmas about the scheduler: that it drives the store within its specification, and what it keeps for each session |
| `PagedKvTheorems` | | the theorems about the paged store and the scheduler, from the lemmas of the other proof modules |
| `TrainingProofs` | | theorems about `TrainingJob` and `PipelineRun` |

The chain of implementations is

    PagedSessionScheduler  =>  PagedForward  =>  LogicalKv
                                            =>  KvBlockPool

(`ImplementsForward`, `LogicalKvSpec`, and the theorem `ForwardImplementsPool`), so
what is shown of a lower module holds of the ones above it.

### How the code is abstracted

**Paged store and scheduler.**

* *Refused calls.* An operation that returns `Err` before it changes anything is
  the absence of the action. The exceptions are actions: a refused
  `register_prefix` has already spent a handle, a refused shared admission rolls
  back the handle it opened, a refused batch finishes its chunk.
* *Free list.* The code pops a stack and says its order is irrelevant to
  correctness; the model takes any free block.
* *Bytes.* A row stands for the K and V of one token slot in every layer. Keys
  are rotated for their position, so a row is a pair of a value and the position it
  was rotated for; `splice_prefix_shifted` rotates it further, and a row that ends
  at a position it was not rotated for reads as no value.
* *Failures.* A device call can fail after the allocator has changed.
  `EnsureWritableTorn`, `RestoreTorn`, `SplicePrefixShiftedTorn` and `WriteFails`
  are those exits; they leave exactly what the code leaves.
* *Atomicity.* A step borrows the pool mutably, so nothing else runs inside it.
  It is several actions because each stage can fail after the earlier ones. The
  same holds of `add_session_sharing_prefix`, `reap_finished` and the quanta, whose
  progress is the variable `call`.
* *Scheduling.* The policies of the scheduler only choose the order in which
  ready sessions are visited. The model takes any order, which covers all of them.
* *Left out*: statistics, log probabilities, and the held decode plans of the
  paged scheduler, which change what is recompiled and not which pool calls are
  made.

**Contiguous decoding.** A row of a cache is the text it was computed from, and so
are logits; a row that no single text explains is `Garbage`. A sampler is any
function `Pick` from the text to a token, so greedy decoding of any model is
covered; a draft model's proposals are arbitrary. A pass can fail at any call,
bounded by `MaxErrors`. A pass through a held plan or a capture does not compare the
position with the capacity: past the last row it fails where a kernel or the executor
checks the offset and spoils other rows where none does (`Overrun`). A buffer lives as long as a cache, a plan or a capture
holds its `Arc`.

**Executor.** A value is the tag of the node that computed it. A device command
carries the buffers it reads with the tags it must find there, and writes its own
tag, or `Junk` if a read found something else; the device runs commands in any order
a barrier does not forbid. A work item is invented when it is received, among the
nodes a plan could still read, so the plans are all of those that the bounds allow.
Plans of some shapes are not admitted (`Admits`): a one-shot that copies a buffer an
outstanding command writes, or overwrites one it uses, and a slice write into a buffer
that a dispatch behind the same barrier reads or writes. The code does make plans with
one-shots and in-place writes over buffers in use (`scatter_add_f32_bytes`,
`slot_copy_to_new_handle`, an `Op::Copy` before the asynchronous path is armed,
`zero_fill`, slice writes), and nothing in `src/` orders the uses, so what such a plan
reads depends on the driver. The run says nothing about those plans: the properties are
about the others, the ordered ones. With one of `AllShapes` put into `Shapes` the
property fails. Sizes, descriptor pools, timing and the CUDA
arms are left out.

**Graphs.** A node is its operation's kind (`plain`, `view`, `inplace`, `write`, and
`copy`, `move` that the passes insert) and its inputs. One device, no branches,
distinct inputs, at most two outputs; sizes and the memory budget are abstracted to
any choice of a candidate for eviction.

**Training.** A parameter is the sequence of updates it has had, each with its batch,
its gradient and its rate. The job uses plain SGD and `save_named`, every loss
splices every parameter, and a new process has a new optimizer at the configured rate
(`starts` records the steps at which processes began); a crash ends the process between any two writes of a
save; a file is absent, cut short or whole. The pipeline schedules are the arrays
the code builds, and a caller runs them by their times or by their order.

### What is assumed of callers

The code cannot check these; the specifications state them as guards so that they
can be lifted, and section 6 lifts the first and the last of the paged store's.

* A handle is restored only while it still describes its session (`Current`).
* A session that reported an error is not used again, except to be discarded.
* `splice` is used at equal positions only: the keys it shares are already rotated.
* A prefix is shared only with prompts that begin with its text (`Shares`).
* A prefix is registered from a session without errors (`SoundRegister`).
* A server of the contiguous paths makes a one-token call through a held plan only while
  the token fits its cache (`Call`). The speculative loop and the scheduler are not
  assumed to: `NeverRefused` shows it of them.

One assumption is about the device: in the scheduler's passing runs no write-back of
`restore_session` fails. `TornRestoreSpec` lifts it (section 6). `PagedForward` has
that failure in its passing run, where the session is not used afterwards.

## 3. What is checked

Twelve runs, each with one question.

| run | configuration | shows |
|---|---|---|
| `pool` | `KvPool.cfg` | exact counts (`RefcountExact`), no leak (`FreeIffUnreferenced`), whole prefixes (`PrefixWhole`), fills that fit (`FillFitsBlocks`), an index whose maps agree (`IndexInverse`), slots that move only as documented (`SlotMoves`), with any subset of the slots evicted and current handles restored |
| `forward` | `Forward.cfg` | `LogicalKvSpec`: attention reads each session's own history through sharing, eviction, reuse of the blocks, restore and rotation; `SharedReadOnly`; `BatchNeverStarved`: the batch pre-check suffices |
| `scheduler` | `PagedScheduler.cfg` | `KvMatchesText`, `DecodeInStep`, `WithinCap`, `FrontierExclusive`, `SuspensionCurrent`, and `ImplementsForward`: the scheduler implements `PagedForward` |
| `scheduler_completes` | `PagedSchedulerLive.cfg` | `Completes`: every session finishes or is suspended |
| `executor` | `Executor.cfg` | `OrderedPlansReadTheirInputs`, `ResultComplete`, `EvictedBehindItsReaders`, of the ordered plans |
| `executor_returns` | `ExecutorLive.cfg` | `RealizeReturns`: whoever fails, the realize returns and its compiler thread ends |
| `contiguous_decode` | `ContiguousDecode.cfg` | `RequestsIsolated`, `SpeculationLossless`, `CachesAgree`, `SessionsAsAlone`, `StepAdvancesAll`, `ReservationsExact`, `NeverRefused`, and `CallersReturn` |
| `training` | `Training.cfg` | `ResumeExactButFirstRate`: a resumed job has the parameters of an uninterrupted one, and with a scheduler all but the rates of the first updates of its processes; `MetadataVouches`, `OnlyMetadataStopsResume`, `SavedStepsKept`; `InFlightBounded`, `TimesRespectData`, `Drains` of the pipeline schedules |
| `graph_plan` | `GraphRealize.cfg` | `ReadsMeant`, `OutputsMeant`, `DirectConflictsPlanned`: a reader of an in-place target that also needs the result is given a copy and does not end in a cycle, if no other node writes to the target; `CopiesNeeded` |
| `pool_stale_restore` | `KvPoolStaleRestore.cfg` | violation, section 6 |
| `scheduler_torn_restore` | `PagedSchedulerTorn.cfg` | violation, section 6 |
| `scheduler_error_donor` | `PagedSchedulerDonor.cfg` | violation, section 6 |

`SuspensionCurrent` is why the allocator may assume `Current`: it is the same
formula, shown of its one caller. `FrontierExclusive` explains why the scheduler
never needs a copy on write: it shares full blocks only.

Deadlock is not checked: session handles, steps, plans and micro-batches are
bounded, so every instance ends in states where nothing is left to do, as the
program does. What must not get stuck is stated as liveness instead (`Completes`,
`RealizeReturns`, `CallersReturn`, `Drains`).

### Bounds

| bound | stands for | why it is enough |
|---|---|---|
| `MaxSessions` | handles ever minted | two sharers and a prefix owner, or a donor, a sharer and a late arrival |
| `MaxSlots`, `MaxFilled` | length of a table, of a history | two blocks of two tokens: full, partial and boundary fills, and a full block behind which a partial one starts; three blocks for the scheduler, so that a budget crosses two boundaries |
| `Blocks` | pool size | fewer blocks than the sessions together want, so that exhaustion, recycling and refusal happen in every run |
| `MaxHandles` | handles outstanding | two in `pool` and `scheduler`, so that one is outstanding while another is made and restored; one in the other runs |
| `SharingOrEviction` | which of the large instances' behaviours are followed | in `pool`, three sessions share and cache, or fewer of them evict; in `forward`, three share, or two share and evict: the sizes at which each is still exhaustive |
| `MaxBatch` | `max_batch` of `step_batched` | two, with more ready sessions than that |
| `MaxFed` | last position a step fills | keeps the value histories small while shifted prefixes still reach `MaxFilled` |
| `NLayers`, `Requests`, `MaxIds` | layers, requests, allocations of a server | two layers, so that one can be replaced alone; two requests that alternate; three allocations, so that an id is retired and another minted |
| `MaxNews`, `Drafts` | tokens asked for, drafts per round | none, fewer than a round emits, exactly a round, more than one round |
| `Batches`, `TotalBlocks` | `max_batch`, the reservation pool | serial and batched; a pool that two of three admissions fill |
| `MaxErrors` | passes that fail | one: a second failure finds the same states |
| `Buffers`, `BatchLimit`, `EvictSubmitMin` | device buffers, flush and submit thresholds | a batch of three fills, a batch of two is submitted on eviction, and five buffers are enough for four nodes with a temporary |
| `Workloads`, `MaxAhead` | items per behaviour, lead of the compiler thread | three items of any kind or four of those that keep the device busiest, over all realizes of a behaviour |
| `MaxNodes`, `MaxConsts`, `MaxRoots`, `MaxEvictions` | size of a graph, its constants and outputs, rounds of eviction | five nodes: a value, an in-place writer, a view, a reader of each; `Canonical` keeps one of two orders in which independent nodes can be pushed |
| `NVars`, `MaxSteps`, `MaxCrashes`, `MaxFailures`, `MaxEvals` | a training job | two parameters, a save over an earlier one, a crash while resuming from another |
| `MaxStages`, `MaxMicrobatches` | a pipeline | more micro-batches than stages and fewer |

Blocks, hashes and values are interchangeable and declared symmetric where the
configuration gives no single one a role. Runs with liveness use no symmetry.

### Fairness

* `FairSpec` of the paged scheduler: weak fairness of `BeginStepCall` (the host
  keeps calling `step` or `step_batched`, which is what `run_to_completion` does in a
  loop), of the steps inside a quantum, and of the calls that finish an admission or
  a reap (a Rust call returns). None is assumed of admissions, suspensions or
  resumptions, nor that a device call succeeds.
* Executor: weak fairness of the executor, of the compiler thread and of the device,
  which are threads the system schedules and a queue the hardware works off. None of
  starting a realize.
* Contiguous decoding: weak fairness of the loops `run_to_completion` and
  `generate_streaming_spec_with_kv_context`, which run until they return.
* Pipelines: weak fairness of the caller that runs a schedule.

## 4. What is proved

TLC explores the instances of section 3; the theorems below hold for every number of
sessions, blocks, slots, tokens per block, hashes, handles, prompts, budgets,
parameters, steps, stages and micro-batches.

| theorem | module | states |
|---|---|---|
| `TypeCorrect` | `KvBlockPoolProofs` | `TypeOK` |
| `RefcountExactAlways` | `KvBlockPoolProofs` | `RefcountExact`: a count is the number of slots and index entries that name the block |
| `FreeIffUnreferencedAlways` | `KvBlockPoolProofs` | `FreeIffUnreferenced`: no leak, and no block in use is handed out |
| `IndexInverseAlways` | `KvBlockPoolProofs` | `IndexInverse` |
| `PrefixWholeAlways` | `KvBlockPoolProofs` | `PrefixWhole`: a prefix keeps its full blocks until released |
| `FillFitsBlocksAlways` | `KvBlockPoolProofs` | `FillFitsBlocks` |
| `SlotMovesAlways` | `KvBlockPoolProofs` | `SlotMoves`, an action property |
| `ForwardImplementsPool` | `PagedKvTheorems` | the paged steps implement `KvBlockPool`'s `Spec`, so the seven above hold below them |
| `SharedNeverWritten` | `PagedKvTheorems` | `SharedReadOnly`, an action property |
| `BatchAlwaysHasBlocks` | `PagedKvTheorems` | `BatchNeverStarved` |
| `StoresPrivateHistories` | `PagedKvTheorems` | `LogicalKvSpec`: the paged store implements one private history per session |
| `SchedulerImplementsForward` | `PagedKvTheorems` | `ImplementsForward` |
| `SuspensionAlwaysCurrent` | `PagedKvTheorems` | `SuspensionCurrent` |
| `DecodeAlwaysInStep` | `PagedKvTheorems` | `DecodeInStep` |
| `CapAlwaysSuffices` | `PagedKvTheorems` | `WithinCap` |
| `KvAlwaysMatchesText` | `PagedKvTheorems` | `KvMatchesText` |
| `FrontierAlwaysExclusive` | `PagedKvTheorems` | `FrontierExclusive` |
| `ResumesExactlyButFirstRate`, `MetadataAlwaysVouches`, `OnlyMetadataEverStops`, `SavedStepsAlwaysKept` | `TrainingProofs` | the four properties of the training run |
| `GPipeRespectsData` | `TrainingProofs` | `TimesRespectData` |
| `InFlightAlwaysBounded` | `TrainingProofs` | `InFlightBounded` |

Every safety property of the runs `pool`, `forward`, `scheduler` and `training` is a
theorem.

### Assumptions

On constants: the pool's blocks are finitely many and blocks have room for a token;
`Externalized`, `None`, `Blank` and `NoHandle` are not blocks, hashes, sessions, rows
or handles; prompts are not empty and budgets not zero, which `add_session` and
`add_session_sharing_prefix` refuse; a chunk has at least one session
(`max_batch.max(1)`); jobs have a step and a parameter, pipelines a stage and a
micro-batch. The caps `MaxSessions`, `MaxSlots`, `MaxFilled`, `MaxHandles` and `MaxFed`
are any naturals: they bound each behaviour, but no theorem depends on their size.

On behaviours: the callers' rules of section 2, which are guards of the
specifications. The training theorems state theirs as hypotheses: `Named` (saves go
through `save_named`) and `EveryVarSpliced` (every loss splices every parameter), and
`GPipeRespectsData` is about callers that run GPipe by its times (`TimedGPipe`).
Section 6 tells what happens without them.

### The allocator

`RefcountExact` is not inductive: that a popped block was unreferenced needs
`FreeIffUnreferenced`, that needs the types of the tables, and the index's references
are only counted right if its maps are inverse. `Counting` is their conjunction. The
counts are cardinalities of sets of (session, slot) pairs, so its lemmas first show
how such a set changes when one table is replaced, then each operation is an instance
of that. `Ownership` adds that spent handles stay spent, that closed sessions hold
nothing and that no two prefixes share an owner, from which `PrefixWhole` follows.

The layers above use the allocator through a few consequences (`KvInvariants`): `Sound`
(counting; a block on the free list is in no table, a block with one reference in one
slot; a current handle restores in place), `RegistersWhole`, `Countable` and
`AloneCounted`. Their proofs take these as hypotheses, `PagedKvTheorems` discharges them
from the allocator's proofs.

### The paged steps

`StepInv` describes a step in progress: which sessions are still to grow, being grown or
grown, that a grown one has its frontier block to itself, and that errors are reported to
clients only. `DeviceTypeOK` types the rows. `ForwardInv` is both with `PoolInv`.

* `SharedReadOnly`: each operation that writes rows writes blocks that were free, or the
  frontier blocks that `StepInv` shows to be unshared.
* `BatchNeverStarved`: `Owed` is the set of sessions that may still need a block, the one
  being grown included. The pre-check gives `Cardinality(Owed) <= Cardinality(free)`,
  and `BatchInv` shows that every stage pays for what it takes. It is not enough to count
  fresh blocks: breaking a share takes a block and may make another session's copy
  unnecessary, never necessary.
* `LogicalKvSpec`: the refinement maps a session without errors to the values attention
  reads through its table, up to the position whose row the step in progress still
  owes. `HandleInv` says that a missing slot is held by exactly one outstanding handle,
  so what was evicted can be read. Then each action either leaves every history
  (growing a table, breaking a share, evicting, restoring: the rows are elsewhere but
  the same), appends one value to the sessions of the step, forks a prefix, or starts
  or ends sessions. The shifted splice is the one that moves rows to other positions: a
  row is rotated by the distance, which is a multiple of the block size, so block and
  offset of its new position are known.

### The scheduler

`DriverInv` follows the driver loop: who holds which pool session between calls
(`Holding`), which sessions the quantum still visits and where its passes are
(`Visiting`), and how far each text has been fed (`Fed`). With `ForwardInv` it shows that
every call and every stage of a quantum is a step of `PagedForward`, whence all of the
above holds of the scheduler. `SuspensionCurrent` and `DecodeInStep` are consequences.

* `WithinCap` needs `Budgeted`: a table has exactly the blocks its fill needs, the fill
  never exceeds the text, and text and remaining budget together are what the width was
  computed from, except that a session that is not finished has budget left.
* `KvMatchesText` needs `TextInv`, which adds that a prefix being spliced agrees with the
  prompt. The step is taken from the refinement: histories that an abstract step does not
  touch keep their entries, the rows of a step land where the table grew, and a spliced
  prefix reads as its owner does (`Stored`).
* `FrontierExclusive` needs `TailOwn`: of a session's blocks, those that are not entirely
  written are named by no other slot. A count is not enough to carry this through a
  step, so it is stated of table slots: each step leaves a slot, takes a free block for
  it, or makes it join a block that its holder has filled. With `NothingCached` (no
  operation of the paged layers commits to the index) one slot means one reference.

TLC has checked `Budgeted`, `TextInv` and `FrontierInv` on the instance of `scheduler` as
well.

### Training and pipelines

`JobInv`: the parameters are those of an uninterrupted job at the current step, but that
the update behind a step of `starts` may have the configured rate (which is the rate of an
uninterrupted job too if it has no scheduler); whole
metadata in a directory is of that directory's step and stands beside whole weights, and a
save under way is of a step not saved before. `TimedInv` relates what stages that run by
time have done to the arrays of the schedule. `OrderInv` says which prefix of the forwards
and of the backwards a stage that follows the 1F1B order has done, from its position.

### Only model-checked

* Liveness (`Completes`, `RealizeReturns`, `CallersReturn`, `Drains`): fairness and
  `ENABLED` are out of the prover's reach.
* The executor (`OrderedPlansReadTheirInputs`, `ResultComplete`, `EvictedBehindItsReaders`): its device
  runs commands in any order a barrier allows, and an inductive invariant would have to
  describe every partial order of a batch; no proof was attempted.
* Contiguous and speculative decoding: the batched pass is a fold over the caches of the
  batch, and what a fold returns for every batch needs induction over data. The
  properties of the other two callers were not attempted.
* Graph planning: the walk and the plan are recursive operators.
* The violations of section 6 are counterexamples, which TLC gives.

## 5. Mutants

Each checked property has a mutated definition beside the original (`Mutant:` in the
comments): a reference not counted, a free forgotten, a partial block accepted as
full, a copy without its bytes, a pre-check that forgets copies, a suspended session
visited, a prefix fed twice, a plan replayed without a look at its cache, a rejected
draft's row kept, a buffer recycled inside its batch, an ordering edge left out,
a checkpoint whose weights are not waited for, a rate taken one step late. Each breaks its property under the run's own
bounds, which shows that the bounds reach the case.

## 6. Disagreements with the repository's own words

Each of the first three is a run that TLC ends with a counterexample;
`PROJECT.json` quotes the lines.

1. **`restore` with a handle that is no longer current** (`pool_stale_restore`,
   `fuel-kv-pool/src/lib.rs:736`). A still-decoding session is partly evicted, then
   breaks the share of a block the handle lists as left in place. `restore` writes
   the old block back into the slot without counting it, and the fresh block keeps a
   reference no slot holds. The field's doc says the count is the number of slots.
   The scheduler never does this (`SuspensionCurrent`).
2. **A device error inside `restore_session`** (`scheduler_torn_restore`,
   `multi_session.rs:1876`). The handle is taken from the session first; when a
   write-back fails, the session is runnable and its rows are whatever the blocks'
   last users left. The doc says a failure never consumes the captured bytes.
3. **A prefix registered from a session that failed** (`scheduler_error_donor`,
   `multi_session.rs:1968`). A step grows the session before it writes the row. If
   the missing row completes a block, the block counts as full and can be
   registered.

Observations without a run of their own, met while modelling:

*Paged store.*
* `splice` clamps the shared tokens with the comment that a partial last block
  contributes only its filled tokens (`fuel-kv-pool/src/lib.rs:808`). A range that
  does not begin at the end of the target's fill leaves a table whose block count
  exceeds what its fill needs, so a later `append_tokens` takes no block where one
  would be expected. `FillFitsBlocks` still holds; `PagedForward` uses the call at
  equal positions.
* `step_batched` finishes a whole chunk with an error when the pool cannot serve all
  of it, although some of its sessions could have stepped. Its doc calls it
  "Provably equal to `step` per session" (`multi_session.rs:2133`); the same file
  describes the refusal.
* `decode_batch`'s doc says "the model layer's KV mutation is all-or-nothing"
  (`multi_session.rs:2295`). That holds for exhaustion (`BatchNeverStarved`). A device
  error during the pass leaves every session of the batch one token longer; they are
  all finished, so only disagreement 3 can expose it.

*Executor.* `scatter_add_f32_bytes` copies its base with a one-shot before the open
batch is submitted, under a comment that says "Flush any pending compute first so
the copy starts from a clean queue state." (`fuel-vulkan-backend/src/lib.rs:9089`). A
`flush_pending` (line 2094) submits nothing below the batch limit, so a base written in
the same batch is copied before it is computed. This is the shape `one_shot_source`,
which the passing run leaves out; with `Shapes = {"one_shot_source"}` TLC finds a command
that read bytes which are not its input.

*Graphs.* The properties of `graph_plan` are stated with these exceptions, each of
which TLC confirms when it is taken away.
* The optimized route dispatches in the order of the walk, without the ordering edges
  of in-place nodes (`fuel-dispatch/src/pipelined.rs:1697`), under a comment that on a
  branchless graph "the two sequences are identical" (line 1713): the disjunct of
  `ReadsMeant`.
* `optimize_graph` plans before safety copies are inserted
  (`fuel-dispatch/src/optimize.rs:299`), so `x + relu_inplace(x)` panics on that route,
  against the comment at `fuel-tensor/src/lazy.rs:6135`.
* `insert_safety_copies` says that it leaves conflicts through views to the panic
  (`fuel-graph/src/opt.rs:2202`), which is what `DirectConflictsPlanned` allows. It does not
  say so of two writers, which the property's premise excludes: three in-place operations
  on one tensor, or two and another reader, still form a cycle after the copies, against
  "No cycle." (line 2200) and `execution_plan`'s "That panic indicates a bug in the rule
  that emitted the destructive op, not user code." (line 2631). With an unread view
  beside two writers, a second call of the pass copies again. A requested view that is
  also read elsewhere is overwritten.
* The eviction pass can close a cycle beside an in-place node, or when the tensor it
  moves shares its storage with a view; and it panics on a direct conflict, because it
  analyses the order before the copies are made. The property excludes both.
* The peak estimate subtracts a value twice when a node reads it twice, and frees an
  output at its last reader. Sizes are not modelled.

*Training.*
* `Checkpoint::save` into one directory can be cut between the weights and the
  metadata, which then disagree (`checkpoint.rs:7` says training resumes "from exactly
  where it was interrupted"); `save_named` is what the model runs.
* A metadata file cut short makes `load_latest` fail although older whole checkpoints
  exist (`OnlyMetadataStopsResume` states exactly this).
* The optimizer's state and rate are not saved. With a scheduler, the first update of a
  resumed process is at the rate of its `OptimizerConfig`, unless the script sets another,
  against the same line of `checkpoint.rs`; `ResumeExactButFirstRate` allows exactly this.
* A schedule's rate lags one step behind;
  the gradient norm documented as before clipping is computed after it; a parameter a
  loss does not splice keeps the node id of an earlier graph, which may be another node's
  in this one, although such parameters "are silently skipped" (`training_loop.rs:196`).
* Run by its times, the 1F1B schedule does not respect the data flow
  (`pipeline_parallel.rs:5`); run by its order it does, which is `Drains`. Hence
  `TimesRespectData` is stated of GPipe.

*Kernel catalogue* (not modelled): a topology snapshot reads its generation before
its contents, and publishing precedes the bump, so contents can be newer than the
label.

## 7. Running

    tlc -workers 2 -config KvPool.cfg MCKvBlockPool
    tlapm KvBlockPoolProofs.tla

`PROJECT.json` names the module and configuration of each run, maps each definition
to the lines it models, and lists the hazards each property is aimed at. The proof
modules of the paged layers extend `PagedFacts`, and `PagedKvTheorems` extends all but
`TrainingProofs`. Each is proved on its own; the largest takes tlapm about fifteen
minutes. A leaf marked `Zenon` needs no arithmetic and goes to that prover directly;
the leaves left to SMT are the ones about numbers, sequences and records. The mark keeps
a long module provable in one call: tlapm's SMT translation keeps the type variables of
every leaf it has seen, so each further SMT leaf of the same call takes longer.

## 8. What is not modelled, and why

* Kernels, layers, models, quantization, file formats, loaders and the numeric side of
  training: tensor values are out of a model checker's reach and are tested against
  references.
* Hardware probes, cost models, placement and fusion: searches whose result is a
  matter of speed, or graph rewriting whose correctness is equality of tensor values.
* Rejection sampling (`fuel-inference/src/speculative.rs`): a statement about
  distributions.
* The CUDA arms of the executor, captured decoding inside it, and several outputs:
  the Vulkan arm is the one with a queue of its own. The byte caps of the recycler
  count buffers of one size.
* The bindings of an inference context after an error, and the mixture of the held
  and the captured entry on one plan, which no caller uses.
* Admission scheduler, tiers, host prefix cache, distributed cache: sequential maps
  that nothing in the tree connects to a scheduler.
* The kernel catalogue, topology snapshots and the ingestion of compiled kernels are
  concurrent and open to modelling. Their one effect on the modelled parts, a realize
  that stops because the generation changed, is an error of the executor.
