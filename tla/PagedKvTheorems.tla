----------------------------- MODULE PagedKvTheorems -----------------------------
(***************************************************************************)
(* The theorems about the paged KV store and its scheduler: the allocator's *)
(* proofs discharge what the proofs of the layers above it assume of the    *)
(* pool, and the scheduler inherits what is shown of the forward passes.    *)
(***************************************************************************)
EXTENDS KvBlockPoolProofs, PagedForwardProofs, LogicalKvProofs, PagedTextProofs

\* The pool below the forward passes keeps its invariant.
LEMMA ForwardKeepsPool ==
  ASSUME PoolInv, [ForwardNext]_forwardVars
  PROVE  [Next]_vars /\ PoolInv'
<1>1. Sound
  BY DEF PoolInv
<1>2. [Next]_vars
  BY <1>1, ForwardIsPoolStep DEF forwardVars
<1>. QED BY <1>2, PoolInvStep

LEMMA PoolFacts == LogicalInv => PoolInv /\ RegistersWhole
BY RegistersWholeBlocks DEF LogicalInv, ForwardInv, PoolInv, Sound

LEMMA LogicalInvAlways == ForwardSpec => []LogicalInv
<1>1. ForwardInit => LogicalInv
  BY PoolInvInit, LogicalInvInit DEF ForwardInit, DeviceInit
<1>2. LogicalInv /\ [ForwardNext]_forwardVars => LogicalInv'
  BY PoolFacts, ForwardKeepsPool, LogicalInvStep
<1>. QED BY <1>1, <1>2, PTL DEF ForwardSpec

\* The paged forward passes use the allocator as its own specification allows,
\* so everything proved of KvBlockPool holds below them: no counted block is
\* handed out again, prefixes stay whole, and tokens fit their blocks.
THEOREM ForwardImplementsPool == ForwardSpec => Spec
<1>1. ForwardInit => Init /\ PoolInv
  BY PoolInvInit DEF ForwardInit, DeviceInit
<1>2. PoolInv /\ [ForwardNext]_forwardVars => [Next]_vars /\ PoolInv'
  BY ForwardKeepsPool
<1>. QED BY <1>1, <1>2, PTL DEF ForwardSpec, Spec

\* No step of any operation, whatever was shared before, writes into a block
\* that more than one reference names: ensure_writable_block's copy and the
\* blocks a restore or a shifted splice fills were free, and the rows of a step
\* go to blocks their session has to itself.
THEOREM SharedNeverWritten == ForwardSpec => SharedReadOnly
<1>1. LogicalInv /\ [ForwardNext]_forwardVars
        => [\A p \in Blocks : refcount[p] > 1 => cells'[p] = cells[p]]_forwardVars
  BY WritesExclusive DEF LogicalInv, ForwardInv, PoolInv
<1>. QED BY <1>1, LogicalInvAlways, PTL DEF ForwardSpec, SharedReadOnly

\* The batched step's one pre-check suffices for the whole batch, for any number
\* of sessions, blocks and sharers: what the sessions still to grow and the one
\* being grown may need never exceeds the free list.
THEOREM BatchAlwaysHasBlocks == ForwardSpec => []BatchNeverStarved
<1>0. Countable(Sessions) /\ Countable(Blocks)
  BY PoolCountable
<1>1. ForwardInit => BatchInv
  BY <1>0, BatchInit
<1>2. LogicalInv => PoolInv /\ StepInv
  BY DEF LogicalInv, ForwardInv
<1>3. LogicalInv /\ BatchInv /\ [ForwardNext]_forwardVars => BatchInv'
  BY <1>0, <1>2, BatchStep
<1>4. LogicalInv /\ BatchInv => BatchNeverStarved
  BY <1>0, <1>2, BatchHasBlocks
<1>. QED BY <1>1, <1>3, <1>4, LogicalInvAlways, PTL DEF ForwardSpec

\* The paged store implements a store of private histories, for any number of
\* sessions, blocks and offsets and whatever is shared, copied on write, spliced
\* at a shift, evicted, restored or recycled: attention reads through a session's
\* block table the values that session was fed, at their positions, and an error
\* costs only the sessions it is reported to.
THEOREM StoresPrivateHistories == ForwardSpec => LogicalKvSpec
<1>1. LogicalInv /\ ForwardInit => Logical!Init
  BY AbstractInit
<1>2. LogicalInv /\ LogicalInv' /\ [ForwardNext]_forwardVars => [Logical!Next]_(Logical!vars)
  BY PoolFacts, AbstractNext DEF AbstractStep
<1>. QED BY <1>1, <1>2, LogicalInvAlways, PTL DEF ForwardSpec, LogicalKvSpec, Logical!Spec

-----------------------------------------------------------------------------
(* The paged scheduler. *)

LEMMA SchedulerStep ==
  ASSUME LogicalInv, DriverInv, [SchedulerNext]_allVars
  PROVE  [ForwardNext]_forwardVars /\ LogicalInv' /\ DriverInv'
<1>0. Countable(Sessions) /\ PoolInv /\ RegistersWhole /\ ForwardInv
  BY PoolCountable, PoolFacts DEF LogicalInv
<1>1. [ForwardNext]_forwardVars
  BY <1>0, SchedulerIsForward
<1>2. PoolInv'
  BY <1>0, <1>1, ForwardKeepsPool
<1>3. LogicalInv'
  BY <1>0, <1>1, <1>2, LogicalInvStep
<1>4. ForwardInv'
  BY <1>3 DEF LogicalInv
<1>. QED BY <1>0, <1>1, <1>3, <1>4, DriverInvStep

LEMMA SchedulerInvAlways == SchedulerSpec => [](LogicalInv /\ DriverInv)
<1>1. SchedulerInit => LogicalInv /\ DriverInv
  BY PoolInvInit, LogicalInvInit, DriverInvInit DEF SchedulerInit, ForwardInit, DeviceInit
<1>2. LogicalInv /\ DriverInv /\ [SchedulerNext]_allVars => LogicalInv' /\ DriverInv'
  BY SchedulerStep
<1>. QED BY <1>1, <1>2, PTL DEF SchedulerSpec

\* The scheduler drives the pool and the paged steps as their specification
\* allows, for any number of sessions and any sequence of host calls: it feeds no
\* session after an error, restores no stale handle, and splices onto no session
\* that holds blocks. Hence all of the theorems above hold of the scheduler.
THEOREM SchedulerImplementsForward == SchedulerSpec => ImplementsForward
<1>1. SchedulerInit => ForwardInit
  BY DEF SchedulerInit
<1>2. LogicalInv /\ DriverInv /\ [SchedulerNext]_allVars => [ForwardNext]_forwardVars
  BY SchedulerStep
<1>. QED BY <1>1, <1>2, SchedulerInvAlways, PTL DEF SchedulerSpec, ImplementsForward, ForwardSpec

\* Whatever the other sessions did while it was suspended, the handle that
\* restore_session takes still describes its session, and that session has not
\* finished meanwhile.
THEOREM SuspensionAlwaysCurrent == SchedulerSpec => []SuspensionCurrent
<1>1. DriverInv => SuspensionCurrent
  BY SuspensionFromInv
<1>. QED BY <1>1, SchedulerInvAlways, PTL

\* Between steps the pool's fill of a decoding session is one short of its text,
\* and that of a session waiting for prefill is where its shared prefix ends: the
\* token fed next is the one whose position is filled next, under step and
\* step_batched, after splices, suspensions and errors of others.
THEOREM DecodeAlwaysInStep == SchedulerSpec => []DecodeInStep
<1>1. LogicalInv /\ DriverInv => DecodeInStep
  BY InStepFromInv DEF LogicalInv
<1>. QED BY <1>1, SchedulerInvAlways, PTL

\* Every step of the scheduler keeps what each session relies on.
LEMMA SchedulerTextStep ==
  ASSUME LogicalInv, LogicalInv', DriverInv, DriverInv', Budgeted, TextInv, FrontierInv, [SchedulerNext]_allVars
  PROVE  Budgeted' /\ TextInv' /\ FrontierInv'
<1>0. Countable(Sessions) /\ RegistersWhole /\ ForwardInv /\ ForwardInv'
  BY PoolCountable, PoolFacts DEF LogicalInv
<1>1. Budgeted'
  BY <1>0, BudgetedStep
<1>2. [ForwardNext]_forwardVars
  BY SchedulerStep
<1>3. Stored
  BY <1>0, <1>2, AbstractNext, StoredNext
<1>4. TextInv'
  BY <1>0, <1>3, TextStep, TextStutter
<1>5. TailOwn'
  BY <1>0, TailInvStep, TextStutter DEF FrontierInv
<1>6. NothingCached'
  BY <1>2, IndexUnused DEF FrontierInv, NothingCached
<1>. QED BY <1>1, <1>4, <1>5, <1>6 DEF FrontierInv

LEMMA SchedulerTextAlways == SchedulerSpec => [](Budgeted /\ TextInv /\ FrontierInv)
<1>1. SchedulerInit => Budgeted /\ TextInv /\ FrontierInv
  BY TextInit
<1>2. /\ LogicalInv /\ LogicalInv' /\ DriverInv /\ DriverInv' /\ Budgeted /\ TextInv /\ FrontierInv
      /\ [SchedulerNext]_allVars
      => Budgeted' /\ TextInv' /\ FrontierInv'
  BY SchedulerTextStep
<1>. QED BY <1>1, <1>2, SchedulerInvAlways, PTL DEF SchedulerSpec

\* The block-table width fixed when a session is admitted, the blocks of its
\* prompt and token budget, is never exceeded, however the quanta of the sessions
\* interleave, whatever is sampled and wherever its prompt was spliced from.
THEOREM CapAlwaysSuffices == SchedulerSpec => []WithinCap
<1>1. LogicalInv /\ DriverInv /\ Budgeted => WithinCap
  BY CapFromInv DEF LogicalInv
<1>. QED BY <1>1, SchedulerInvAlways, SchedulerTextAlways, PTL

\* What the pool holds of a session without an error is that session's own text,
\* token for token and position for position, whatever was shared with it, copied,
\* suspended and restored: attention never reads another session's tokens.
THEOREM KvAlwaysMatchesText == SchedulerSpec => []KvMatchesText
<1>1. TextInv => KvMatchesText
  BY DEF TextInv
<1>. QED BY <1>1, SchedulerTextAlways, PTL

\* The scheduler registers and splices whole blocks only, so the block that a step
\* is about to write is its session's alone: under the scheduler
\* ensure_writable_block never has to copy.
THEOREM FrontierAlwaysExclusive == SchedulerSpec => []FrontierExclusive
<1>1. LogicalInv /\ DriverInv /\ FrontierInv => FrontierExclusive
  BY AloneCounts, FrontierFromInv DEF LogicalInv, ForwardInv, PoolInv, Sound
<1>. QED BY <1>1, SchedulerInvAlways, SchedulerTextAlways, PTL
=============================================================================
