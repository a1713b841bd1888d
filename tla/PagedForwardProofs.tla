--------------------------- MODULE PagedForwardProofs ---------------------------
(***************************************************************************)
(* The paged steps drive the allocator as its specification allows, keep    *)
(* their invariant, never write into a shared block, and a batch that has   *)
(* begun never runs out of blocks: the steps of those proofs, on top of     *)
(* what the allocator guarantees (Sound, RegistersWhole, Countable).        *)
(***************************************************************************)
EXTENDS PagedFacts

-----------------------------------------------------------------------------
(* Every step is one operation of the allocator, or none. *)

\* Every step of the paged forward passes is one operation of the allocator, or
\* none.
LEMMA ForwardIsPoolStep ==
  ASSUME Sound, ForwardNext
  PROVE  [Next]_vars
<1>1. CASE LifecycleStep
  <2>1. CASE Open
    BY <2>1, Zenon DEF Next, PoolStep, SessionStep
  <2>2. ASSUME NEW s \in Clients, Close(s) PROVE Next
    BY <2>2, PoolTypes, Zenon DEF Close, Next, PoolStep, SessionStep
  <2>3. ASSUME NEW src \in Usable, NEW dst \in Usable, NEW to \in 0 .. MaxSlots, NEW from \in 0 .. to,
               SpliceInPlace(src, dst, from, to)
        PROVE  Next
    BY <2>3, PoolTypes, Zenon DEF SpliceInPlace, Usable, Next, PoolStep, ShareStep
  <2>4. ASSUME NEW s \in Usable, NEW n \in 0 .. MaxSlots, RegisterPrefix(s, n) \/ RegisterPrefixRefused(s, n)
        PROVE  Next
    BY <2>4, PoolTypes, Zenon DEF Usable, Next, PoolStep, PrefixStep
  <2>5. ASSUME NEW x \in prefixes, ReleasePrefix(x) PROVE Next
    BY <2>5, Zenon DEF Next, PoolStep, PrefixStep
  <2>. QED BY <1>1, <2>1, <2>2, <2>3, <2>4, <2>5, Zenon DEF LifecycleStep
<1>2. CASE PrefixUseStep
  <2>1. PICK x \in prefixes, dst \in Usable : SplicePrefixFrom(x, dst) \/ AllocShiftedPrefixSlots(x, dst)
    BY <1>2, Zenon DEF PrefixUseStep, SplicePrefixShifted, SplicePrefixShiftedTorn
  <2>. QED BY <2>1, PoolTypes, Zenon DEF Usable, Next, PoolStep, PrefixStep
<1>3. CASE TierStep
  <2>1. ASSUME NEW s \in Usable, NEW indices \in SUBSET (1 .. Len(slots[s])), EvictDevice(s, indices)
        PROVE  Next
    BY <2>1, PoolTypes, Zenon DEF Usable, EvictDevice, Next, PoolStep, SessionStep
  <2>2. ASSUME NEW h \in handles, Current(h), RestoreDevice(h.session, h) \/ RestoreTorn(h.session, h)
        PROVE  Next
    BY <2>2, Zenon DEF RestoreDevice, RestoreTorn, Next
  <2>3. ASSUME NEW h \in handles, DropDevice(h) PROVE Next
    BY <2>3, Zenon DEF DropDevice, Next, PoolStep
  <2>. QED BY <1>3, <2>1, <2>2, <2>3, Zenon DEF TierStep
<1>4. ASSUME NEW feed, BeginStep(feed) PROVE UNCHANGED vars
  BY <1>4, Zenon DEF BeginStep
<1>5. CASE ForwardStep
  <2>1. ASSUME NEW s \in Sessions, StepAppend(s) PROVE Next
    <3>1. AppendTokens(s, 1)
      BY <2>1, Zenon DEF StepAppend
    <3>2. filled[s] + 1 <= MaxFilled
      BY <3>1, Zenon DEF AppendTokens, Extend
    <3>3. 1 \in 1 .. MaxFilled
      BY <3>2, PoolTypes, BoundsAssumption
    <3>. QED BY <3>1, <3>3, Zenon DEF Next, PoolStep, SessionStep
  <2>2. ASSUME NEW s \in Sessions, NEW i, CowBreak(s, i) PROVE Next
    <3>1. i \in 1 .. MaxSlots
      BY <2>2, PoolTypes, BoundsAssumption DEF CowBreak, Resident
    <3>. QED BY <2>2, <3>1, Zenon DEF Next, PoolStep, ShareStep
  <2>3. ASSUME NEW s \in Sessions, StepWritable(s) \/ WritableTorn(s) PROVE [Next]_vars
    BY <2>2, <2>3, Zenon DEF StepWritable, WritableTorn, EnsureWritableExclusive, EnsureWritableShared,
                      EnsureWritableTorn
  <2>4. CASE StepWrite \/ WriteFails \/ \E s \in Sessions : AppendRefused(s) \/ WritableRefused(s)
    BY <2>4, Zenon DEF StepWrite, WriteFails, AppendRefused, WritableRefused
  <2>. QED BY <1>5, <2>1, <2>3, <2>4, Zenon DEF ForwardStep
<1>. QED BY <1>1, <1>2, <1>3, <1>4, <1>5, Zenon DEF ForwardNext

-----------------------------------------------------------------------------
(* The step in progress. *)

\* While no step is in progress, an operation that reports errors to clients
\* only keeps the invariant.
LEMMA IdleStepInv ==
  ASSUME Sound, StepInv, Idle, UNCHANGED work, failed' \subseteq Clients'
  PROVE  StepInv'
<1>1. Stepping = {} /\ work.grow = {} /\ work.grown = {} /\ work.current = None
  BY StepFacts, Zenon
<1>. QED BY <1>1, Zenon DEF StepInv, Stepping, Idle

LEMMA LifecycleStepInv ==
  ASSUME Sound, Ownership, StepInv, Idle, LifecycleStep \/ PrefixUseStep \/ TierStep
  PROVE  StepInv'
<1>0. /\ failed \subseteq opened /\ failed \cap Owners = {}
      /\ next_session \notin opened
  BY PoolTypes DEF StepInv, Clients, Ownership
<1>1. CASE LifecycleStep
  <2>1. CASE Open /\ CoreOnly
    BY <1>0, <2>1, IdleStepInv, Zenon DEF Open, CoreOnly, Clients, Owners
  <2>2. ASSUME NEW s \in Clients, Close(s) PROVE StepInv'
    BY <1>0, <2>2, IdleStepInv, Zenon DEF Close, Discard, Forget, Clients, Owners
  <2>3. ASSUME NEW src \in Usable, NEW dst \in Usable, NEW to \in 0 .. MaxSlots, NEW from \in 0 .. to,
               SpliceInPlace(src, dst, from, to), CoreOnly
        PROVE  StepInv'
    BY <1>0, <2>3, IdleStepInv, Zenon DEF SpliceInPlace, Splice, CoreOnly, Clients, Owners
  <2>4. ASSUME NEW s \in Usable, NEW n \in 0 .. MaxSlots, CoreOnly,
               RegisterPrefix(s, n) \/ RegisterPrefixRefused(s, n)
        PROVE  StepInv'
    <3>1. failed' \subseteq Clients'
      <4>1. CASE RegisterPrefix(s, n)
        <5>1. /\ opened' = opened \cup {next_session} /\ failed' = failed
              /\ prefixes' = prefixes \cup {[owner |-> next_session, blocks |-> n]}
          BY <2>4, <4>1, Zenon DEF RegisterPrefix, CoreOnly
        <5>2. ASSUME NEW o \in Owners' PROVE o \in Owners \cup {next_session}
          <6>1. PICK x \in prefixes' : o = x.owner
            BY <5>2, Zenon DEF Owners
          <6>2. x \in prefixes \/ x = [owner |-> next_session, blocks |-> n]
            BY <5>1, <6>1, Zenon
          <6>. QED BY <6>1, <6>2 DEF Owners
        <5>. QED BY <1>0, <5>1, <5>2, Zenon DEF Clients
      <4>2. CASE RegisterPrefixRefused(s, n)
        BY <1>0, <2>4, <4>2, Zenon DEF RegisterPrefixRefused, CoreOnly, Clients, Owners
      <4>. QED BY <2>4, <4>1, <4>2, Zenon
    <3>. QED BY <2>4, <3>1, IdleStepInv, Zenon DEF CoreOnly
  <2>5. ASSUME NEW x \in prefixes, ReleasePrefix(x), CoreOnly PROVE StepInv'
    BY <1>0, <2>5, IdleStepInv, Zenon DEF ReleasePrefix, Forget, CoreOnly, Clients, Owners
  <2>. QED BY <1>1, <2>1, <2>2, <2>3, <2>4, <2>5, Zenon DEF LifecycleStep
<1>2. CASE PrefixUseStep
  <2>1. PICK x \in prefixes, dst \in Usable :
          /\ SplicePrefixFrom(x, dst) \/ AllocShiftedPrefixSlots(x, dst)
          /\ UNCHANGED work /\ (UNCHANGED failed \/ failed' = failed \cup {dst})
    BY <1>2, Zenon DEF PrefixUseStep, SplicePrefixShifted, SplicePrefixShiftedTorn, CoreOnly
  <2>2. UNCHANGED <<opened, prefixes>>
    BY <2>1, Zenon DEF SplicePrefixFrom, SplicePrefix, AllocShiftedPrefixSlots
  <2>. QED BY <1>0, <2>1, <2>2, IdleStepInv, Zenon DEF Usable, Clients, Owners
<1>3. CASE TierStep
  <2>1. ASSUME NEW s \in Usable, NEW indices \in SUBSET (1 .. Len(slots[s])), EvictDevice(s, indices),
               UNCHANGED <<work, failed>>
        PROVE  StepInv'
    BY <1>0, <2>1, IdleStepInv, Zenon DEF EvictDevice, EvictBlocks, Clients, Owners
  <2>2. ASSUME NEW h \in handles, h.session \in Usable, Restore(h.session, h), UNCHANGED work,
               UNCHANGED failed \/ failed' = failed \cup {h.session}
        PROVE  StepInv'
    BY <1>0, <2>2, IdleStepInv, Zenon DEF Restore, Usable, Clients, Owners
  <2>3. ASSUME NEW h \in handles, DropDevice(h), UNCHANGED <<work, failed>> PROVE StepInv'
    BY <1>0, <2>3, IdleStepInv, Zenon DEF DropDevice, DropHandle, tableVars, Clients, Owners
  <2>. QED BY <1>3, <2>1, <2>2, <2>3, Zenon DEF TierStep, RestoreDevice, RestoreTorn
<1>. QED BY <1>1, <1>2, <1>3, Zenon

LEMMA BeginStepInv ==
  ASSUME Sound, StepInv, NEW sessions \in Batches, NEW feed \in [sessions -> Values], BeginStep(feed)
  PROVE  StepInv'
<1>1. /\ work' = [NoWork EXCEPT !.grow = sessions, !.feed = feed]
      /\ UNCHANGED <<vars, failed>> /\ sessions # {} /\ sessions \subseteq Usable
  BY Zenon DEF BeginStep, Batches
<1>2. /\ work' = [grow |-> sessions, current |-> None, grown |-> {}, feed |-> feed]
      /\ sessions \subseteq Sessions
  BY <1>1, PoolTypes, Zenon DEF NoWork, Usable
<1>3. /\ work'.grow = sessions /\ work'.current = None /\ work'.grown = {} /\ work'.feed = feed
      /\ Stepping' = sessions
  BY <1>2, Zenon DEF Stepping
<1>4. work' \in [grow : SUBSET Sessions, current : Sessions \cup {None}, grown : SUBSET Sessions,
                 feed : {work'.feed}]
  BY <1>2, Zenon
<1>5. Usable' = Usable /\ Clients' = Clients
  BY <1>1, Zenon DEF Usable, Clients, Owners, vars, tableVars
<1>6. Stepping' = {} => Idle'
  BY <1>1, <1>3, Zenon
<1>7. None \notin sessions
  BY <1>2, StepAssumption, Zenon
<1>. QED BY <1>1, <1>3, <1>4, <1>5, <1>6, <1>7, Zenon DEF StepInv

\* A step that ends, well or in an error, leaves no work behind.
LEMMA EndStepInv ==
  ASSUME work' = NoWork, failed' \subseteq Clients'
  PROVE  StepInv'
<1>. /\ work'.grow = {} /\ work'.grown = {} /\ work'.current = None /\ work'.feed = <<>>
     /\ work' \in [grow : SUBSET Sessions, current : Sessions \cup {None}, grown : SUBSET Sessions,
                   feed : {work'.feed}]
  BY Zenon DEF NoWork
<1>2. Stepping' = {}
  BY DEF Stepping
<1>3. Idle'
  BY Zenon DEF Idle, NoWork
<1>. QED BY <1>2, <1>3, Zenon DEF StepInv

LEMMA StepAppendInv ==
  ASSUME Sound, StepInv, NEW s \in Sessions, StepAppend(s)
  PROVE  StepInv'
<1>. /\ work.current = None /\ s \in work.grow /\ UNCHANGED <<failed, opened, prefixes>>
     /\ work' = [work EXCEPT !.grow = work.grow \ {s}, !.current = s]
     /\ AppendTokens(s, 1)
  BY Zenon DEF StepAppend, AppendTokens
<1>. PICK taken : /\ Range(taken) \subseteq free
                  /\ refcount' = [p \in Blocks |-> IF p \in Range(taken) THEN 1 ELSE refcount[p]]
                  /\ slots' = [slots EXCEPT ![s] = slots[s] \o taken]
                  /\ filled' = [filled EXCEPT ![s] = filled[s] + 1]
  <2>. DEFINE new == Saturating(BlocksFor(filled[s] + 1) - Len(slots[s]))
  <2>. PICK taken \in TakeFree(1 .. new) : Allocate(Range(taken)) /\ Extend(s, taken, 1)
    BY Zenon DEF AppendTokens
  <2>2. Range(taken) \subseteq free
    BY Zenon DEF TakeFree, Injection, Range
  <2>. QED BY <2>2, Zenon DEF Allocate, Extend
<1>. /\ work'.grow = work.grow \ {s} /\ work'.current = s /\ work'.grown = work.grown
     /\ work'.feed = work.feed
     /\ work' \in [grow : SUBSET Sessions, current : Sessions \cup {None}, grown : SUBSET Sessions,
                   feed : {work'.feed}]
  BY Zenon DEF StepInv
<1>. Stepping' = Stepping /\ Usable' = Usable /\ Clients' = Clients
  BY Zenon DEF Stepping, Usable, Clients, Owners
<1>. s \in Stepping /\ s \notin work.grown /\ s # None
  BY StepFacts, Zenon DEF StepInv
<1>6. \A r \in Stepping' \ work'.grow : filled'[r] > 0
  BY PoolTypes, StepFacts DEF StepInv
<1>7. ASSUME NEW r \in work.grown
      PROVE  (Resident(r, BlockAt(filled[r])) /\ refcount[slots[r][BlockAt(filled[r])]] = 1)'
  <2>. r \in Sessions /\ r # s /\ slots'[r] = slots[r] /\ filled'[r] = filled[r]
    BY <1>7, PoolTypes, StepFacts, Zenon
  <2>. Resident(r, BlockAt(filled[r])) /\ refcount[slots[r][BlockAt(filled[r])]] = 1
    BY <1>7, Zenon DEF StepInv
  <2>3. slots[r][BlockAt(filled[r])] \in Blocks /\ slots[r][BlockAt(filled[r])] \notin free
    BY NamedCounted, Zenon
  <2>. QED BY <2>3, Zenon DEF Resident
<1>8. /\ work'.grow \cap work'.grown = {} /\ work'.current \notin work'.grow \cup work'.grown
      /\ Stepping' = work'.grow \cup work'.grown \cup ({work'.current} \ {None})
  BY DEF StepInv
<1>9. failed' \subseteq Clients' /\ Stepping' \subseteq Usable' /\ Stepping' # {}
      /\ \A r \in Stepping' : work'.feed[r] \in Values
  BY Zenon DEF StepInv
<1>. QED BY <1>6, <1>7, <1>8, <1>9, Zenon DEF StepInv

LEMMA StepWritableInv ==
  ASSUME Sound, StepInv, NEW s \in Sessions, StepWritable(s)
  PROVE  StepInv'
<1>. DEFINE i == BlockAt(filled[s])
            Own(r) == Resident(r, BlockAt(filled[r])) /\ refcount[slots[r][BlockAt(filled[r])]] = 1
<1>. /\ work.current = s /\ UNCHANGED <<failed, opened, prefixes, filled>>
     /\ work' = [work EXCEPT !.current = None, !.grown = work.grown \cup {s}]
     /\ EnsureWritableExclusive(s, i) \/ CowBreak(s, i)
  BY Zenon DEF StepWritable, EnsureWritableExclusive, EnsureWritableShared, CowBreak, vars, tableVars
<1>. /\ work'.grow = work.grow /\ work'.current = None /\ work'.grown = work.grown \cup {s}
     /\ work'.feed = work.feed
     /\ work' \in [grow : SUBSET Sessions, current : Sessions \cup {None}, grown : SUBSET Sessions,
                   feed : {work'.feed}]
  BY Zenon DEF StepInv
<1>. Stepping' = Stepping /\ Usable' = Usable /\ Clients' = Clients
  BY Zenon DEF Stepping, Usable, Clients, Owners
<1>. s \in Stepping /\ s \notin work.grown /\ s \notin work.grow /\ s # None /\ filled[s] > 0
  BY StepFacts, Zenon DEF StepInv
<1>. \A r \in work.grown : r \in Sessions /\ Own(r)
  BY StepFacts, Zenon DEF StepInv
<1>6. \A r \in work.grown \cup {s} : Own(r)'
  <2>1. CASE EnsureWritableExclusive(s, i)
    <3>. UNCHANGED <<slots, filled, refcount>> /\ Resident(s, i) /\ refcount[slots[s][i]] <= 1
      BY <2>1, Zenon DEF EnsureWritableExclusive, vars, tableVars
    <3>2. refcount[slots[s][i]] = 1
      BY NamedCounted, PoolTypes
    <3>. QED BY <3>2 DEF Resident
  <2>2. CASE CowBreak(s, i)
    <3>. PICK q \in free : /\ refcount' = [refcount EXCEPT ![q] = 1, ![slots[s][i]] = @ - 1]
                           /\ slots' = [slots EXCEPT ![s][i] = q]
      BY <2>2, Zenon DEF CowBreak
    <3>. Resident(s, i) /\ refcount[slots[s][i]] > 1
      BY <2>2, Zenon DEF CowBreak
    <3>. slots[s][i] \in Blocks /\ slots[s][i] # q /\ i \in 1 .. Len(slots[s]) /\ q \in Blocks
      BY NamedCounted, PoolTypes DEF Resident
    <3>4. Own(s)'
      <4>1. slots'[s] = [slots[s] EXCEPT ![i] = q] /\ slots[s] \in Seq(Slot)
        BY PoolTypes, Zenon
      <4>2. slots'[s][i] = q /\ Len(slots'[s]) = Len(slots[s])
        BY <4>1 DEF Slot
      <4>3. refcount'[q] = 1
        BY PoolTypes, Zenon
      <4>. QED BY <4>2, <4>3, Zenon DEF Resident
    <3>5. ASSUME NEW r \in work.grown PROVE Own(r)'
      <4>. r \in Sessions /\ r # s /\ slots'[r] = slots[r] /\ Own(r)
        BY <3>5, PoolTypes, Zenon
      <4>2. slots[r][BlockAt(filled[r])] \in Blocks /\ slots[r][BlockAt(filled[r])] \notin free
        BY NamedCounted, Zenon
      <4>3. refcount'[slots[r][BlockAt(filled[r])]] = 1
        BY <4>2, PoolTypes
      <4>. QED BY <4>3, Zenon DEF Resident
    <3>. QED BY <3>4, <3>5, Zenon
  <2>. QED BY <2>1, <2>2, Zenon
<1>7. /\ work'.grow \cap work'.grown = {} /\ work'.current \notin work'.grow \cup work'.grown
      /\ Stepping' = work'.grow \cup work'.grown \cup ({work'.current} \ {None})
  BY StepAssumption DEF StepInv
<1>8. failed' \subseteq Clients' /\ Stepping' \subseteq Usable' /\ Stepping' # {}
      /\ \A r \in Stepping' : work'.feed[r] \in Values
  BY Zenon DEF StepInv
<1>9. \A r \in Stepping' \ work'.grow : filled'[r] > 0
  BY Zenon DEF StepInv
<1>. HIDE DEF i
<1>. QED BY <1>6, <1>7, <1>8, <1>9, Zenon DEF StepInv

LEMMA StepInvInit == ForwardInit => StepInv
<1>. SUFFICES ASSUME ForwardInit PROVE StepInv
  BY Zenon
<1>. work = NoWork /\ failed = {}
  BY Zenon DEF ForwardInit
<1>. /\ work.grow = {} /\ work.grown = {} /\ work.current = None /\ work.feed = <<>>
     /\ work \in [grow : SUBSET Sessions, current : Sessions \cup {None}, grown : SUBSET Sessions,
                  feed : {work.feed}]
  BY Zenon DEF NoWork
<1>3. Stepping = {} /\ Idle
  BY DEF Stepping, Idle
<1>. QED BY <1>3, Zenon DEF StepInv

LEMMA StepInvStep ==
  ASSUME Sound, Ownership, StepInv, [ForwardNext]_forwardVars
  PROVE  StepInv'
<1>1. CASE Idle /\ (LifecycleStep \/ PrefixUseStep \/ TierStep)
  BY <1>1, LifecycleStepInv, Zenon
<1>2. ASSUME NEW sessions \in Batches, NEW feed \in [sessions -> Values], BeginStep(feed) PROVE StepInv'
  BY <1>2, BeginStepInv, Zenon
<1>3. ASSUME NEW s \in Sessions, StepAppend(s) PROVE StepInv'
  BY <1>3, StepAppendInv, Zenon
<1>4. ASSUME NEW s \in Sessions, StepWritable(s) PROVE StepInv'
  BY <1>4, StepWritableInv
<1>5. CASE StepWrite
  BY <1>5, EndStepInv, Zenon DEF StepWrite, StepInv, Clients, Owners, vars, tableVars
<1>6. CASE WriteFails \/ \E s \in Sessions : AppendRefused(s) \/ WritableRefused(s) \/ WritableTorn(s)
  <2>1. Abort /\ UNCHANGED <<opened, prefixes>>
    BY <1>6, Zenon DEF WriteFails, AppendRefused, WritableRefused, WritableTorn, EnsureWritableTorn, CowBreak,
                vars, tableVars
  <2>. QED BY <2>1, EndStepInv, Zenon DEF Abort, StepInv, Usable, Clients, Owners
<1>7. CASE UNCHANGED forwardVars
  BY <1>7, Zenon DEF forwardVars, vars, tableVars, StepInv, Clients, Owners, Stepping, Usable, Idle, Resident
<1>. QED BY <1>1, <1>2, <1>3, <1>4, <1>5, <1>6, <1>7, Zenon DEF ForwardNext, ForwardStep

-----------------------------------------------------------------------------
(* The bytes. *)

LEMMA WritersOfCells ==
  ASSUME ForwardNext
  PROVE  UNCHANGED cells \/ Copies \/ StepWrite \/ WriteFails
<1>1. CASE LifecycleStep
  BY <1>1, Zenon DEF LifecycleStep, CoreOnly, Close, deviceVars
<1>2. CASE PrefixUseStep
  BY <1>2, Zenon DEF PrefixUseStep, CoreOnly, SplicePrefixShiftedTorn, deviceVars, Copies
<1>3. CASE TierStep
  BY <1>3, Zenon DEF TierStep, EvictDevice, DropDevice, Copies
<1>4. ASSUME NEW feed, BeginStep(feed) PROVE UNCHANGED cells
  BY <1>4, Zenon DEF BeginStep, deviceVars
<1>5. CASE ForwardStep
  <2>1. ASSUME NEW s \in Sessions, StepWritable(s) PROVE UNCHANGED cells \/ Copies
    BY <2>1, Zenon DEF StepWritable, EnsureWritableExclusive, deviceVars, Copies
  <2>2. ASSUME NEW s \in Sessions, StepAppend(s) \/ AppendRefused(s) \/ WritableRefused(s) \/ WritableTorn(s)
        PROVE  UNCHANGED cells
    BY <2>2, Zenon DEF StepAppend, AppendRefused, WritableRefused, WritableTorn, EnsureWritableTorn, deviceVars
  <2>. QED BY <1>5, <2>1, <2>2, Zenon DEF ForwardStep
<1>. QED BY <1>1, <1>2, <1>3, <1>4, <1>5, Zenon DEF ForwardNext

\* What a step may write: free blocks, and the blocks a grown session has to
\* itself.
LEMMA WritesExclusive ==
  ASSUME Sound, Ownership, DeviceTypeOK, StepInv, ForwardNext
  PROVE  /\ cells' \in [Blocks -> [Offsets -> Row]]
         /\ \A p \in Blocks : refcount[p] > 1 => cells'[p] = cells[p]
<1>. /\ \A p \in free : refcount[p] = 0
     /\ refcount \in [Blocks -> Nat] /\ cells \in [Blocks -> [Offsets -> Row]]
  BY PoolTypes, Zenon DEF Sound, Counting, Memory, FreeIffUnreferenced, DeviceTypeOK
<1>1. CASE UNCHANGED cells
  BY <1>1, Zenon
<1>2. CASE Copies
  BY <1>2, CopiesIntoFree
<1>3. CASE StepWrite \/ WriteFails
  <2>1. PICK done \in SUBSET work.grown : cells' = Rows(done)
    BY <1>3, Zenon DEF StepWrite, WriteFails
  <2>. QED BY <2>1, RowsIntoOwn
<1>. QED BY <1>1, <1>2, <1>3, WritersOfCells, Zenon

\* The saved bytes of the handles that stay are left alone.
LEMMA SavedStep ==
  ASSUME Sound, DeviceTypeOK, StepInv, ForwardNext
  PROVE  /\ DOMAIN saved' = handles'
         /\ \A h \in handles \cap handles' : saved'[h] = saved[h]
         /\ \A h \in handles' : saved'[h] \in [h.gone -> [Offsets -> Row]]
<1>. cells \in [Blocks -> [Offsets -> Row]] /\ DOMAIN saved = handles
     /\ \A h \in handles : saved[h] \in [h.gone -> [Offsets -> Row]]
  BY Zenon DEF DeviceTypeOK
<1>1. ASSUME UNCHANGED <<saved, handles>>
      PROVE  /\ DOMAIN saved' = handles'
             /\ \A h \in handles \cap handles' : saved'[h] = saved[h]
             /\ \A h \in handles' : saved'[h] \in [h.gone -> [Offsets -> Row]]
  BY <1>1, Zenon
<1>2. ASSUME NEW h \in handles, handles' = handles \ {h}, ForgetSaved
      PROVE  /\ DOMAIN saved' = handles'
             /\ \A g \in handles \cap handles' : saved'[g] = saved[g]
             /\ \A g \in handles' : saved'[g] \in [g.gone -> [Offsets -> Row]]
  BY <1>2, Zenon DEF ForgetSaved
<1>3. ASSUME NEW s \in Usable, NEW indices \in SUBSET (1 .. Len(slots[s])), EvictDevice(s, indices)
      PROVE  /\ DOMAIN saved' = handles'
             /\ \A h \in handles \cap handles' : saved'[h] = saved[h]
             /\ \A h \in handles' : saved'[h] \in [h.gone -> [Offsets -> Row]]
  <2>. DEFINE gone == {i \in indices : Detachable(s, i)}
              stay == {i \in indices : Resident(s, i) /\ ~Detachable(s, i)}
              new == [session |-> s, gone |-> gone, stay |-> {<<i, slots[s][i]>> : i \in stay}]
              kept == [i \in ToSave(s, indices) |-> cells[slots[s][i]]]
  <2>. /\ handles' = handles \cup {new}
       /\ saved' = [h \in handles' |-> IF h \in handles THEN saved[h] ELSE kept]
    BY <1>3, Zenon DEF EvictDevice, EvictBlocks
  <2>2. ToSave(s, indices) = gone
    BY Zenon DEF ToSave, Detachable, Usable, Clients
  <2>3. kept \in [gone -> [Offsets -> Row]]
    BY <2>2, Zenon DEF Detachable, Resident
  <2>4. new.gone = gone
    BY Zenon
  <2>. HIDE DEF gone, stay, new, kept
  <2>5. ASSUME NEW h \in handles' PROVE saved'[h] \in [h.gone -> [Offsets -> Row]]
    <3>1. CASE h \in handles
      BY <3>1, Zenon
    <3>2. CASE h \notin handles
      BY <2>3, <2>4, <3>2, Zenon
    <3>. QED BY <3>1, <3>2, Zenon
  <2>. QED BY <2>5, Zenon
<1>4. CASE LifecycleStep
  BY <1>1, <1>4, Zenon DEF LifecycleStep, CoreOnly, Close, deviceVars, Open, Discard, SpliceInPlace, Splice,
                    RegisterPrefix, RegisterPrefixRefused, ReleasePrefix
<1>5. CASE PrefixUseStep
  BY <1>1, <1>5, Zenon DEF PrefixUseStep, CoreOnly, SplicePrefixFrom, SplicePrefix, SplicePrefixShifted,
                    SplicePrefixShiftedTorn, AllocShiftedPrefixSlots, deviceVars
<1>6. CASE TierStep
  <2>1. ASSUME NEW h \in handles,
               RestoreDevice(h.session, h) \/ RestoreTorn(h.session, h) \/ DropDevice(h)
        PROVE  handles' = handles \ {h} /\ ForgetSaved
    BY <2>1, Zenon DEF RestoreDevice, RestoreTorn, DropDevice, DropHandle, Restore
  <2>. QED BY <1>2, <1>3, <1>6, <2>1, Zenon DEF TierStep
<1>7. ASSUME NEW feed, BeginStep(feed) PROVE UNCHANGED <<saved, handles>>
  BY <1>7, Zenon DEF BeginStep, deviceVars, vars
<1>8. CASE ForwardStep
  <2>1. ASSUME NEW s \in Sessions, StepAppend(s) PROVE UNCHANGED <<saved, handles>>
    BY <2>1, Zenon DEF StepAppend, AppendTokens, deviceVars
  <2>2. ASSUME NEW s \in Sessions, StepWritable(s) \/ WritableTorn(s) PROVE UNCHANGED <<saved, handles>>
    BY <2>2, Zenon DEF StepWritable, WritableTorn, EnsureWritableExclusive, EnsureWritableShared, EnsureWritableTorn,
                CowBreak, deviceVars, vars
  <2>3. ASSUME StepWrite \/ WriteFails \/ \E s \in Sessions : AppendRefused(s) \/ WritableRefused(s)
        PROVE  UNCHANGED <<saved, handles>>
    BY <2>3, Zenon DEF StepWrite, WriteFails, AppendRefused, WritableRefused, deviceVars, vars
  <2>. QED BY <1>1, <1>8, <2>1, <2>2, <2>3, Zenon DEF ForwardStep
<1>. QED BY <1>1, <1>4, <1>5, <1>6, <1>7, <1>8, Zenon DEF ForwardNext

-----------------------------------------------------------------------------
(* Where the rows of an evicted slot are. *)

\* A step that leaves the handles alone keeps it when missing slots stay missing
\* and none appears.
LEMMA HandlesKept ==
  ASSUME Sound, Sound', HandleInv, handles' = handles, next_session <= next_session',
         \A s \in opened' : s \in opened \/ s >= next_session,
         \A s \in opened \cap opened' : \A i \in 1 .. Len(slots[s]) :
           slots[s][i] = Externalized => i \in 1 .. Len(slots'[s]) /\ slots'[s][i] = Externalized,
         \A s \in Reliable' : \A i \in 1 .. Len(slots'[s]) : slots'[s][i] = Externalized =>
           s \in Reliable /\ i \in 1 .. Len(slots[s]) /\ slots[s][i] = Externalized
  PROVE  HandleInv'
<1>. /\ next_session \in Nat /\ next_session' \in Nat /\ opened' \subseteq Sessions
     /\ Sessions \subseteq Nat
  <2>1. next_session' \in 0 .. MaxSessions /\ opened' \subseteq Sessions
    BY Zenon DEF Sound, Counting, ClientTypeOK
  <2>. QED BY <2>1, PoolTypes, BoundsAssumption
<1>. \A h \in handles : h.session \in Nat /\ h.session < next_session /\ h.session < next_session'
  <2>1. \A h \in handles : h.session \in Sessions
    BY PoolTypes, Zenon DEF Handle
  <2>2. \A h \in handles : h.session < next_session
    BY Zenon DEF HandleInv
  <2>3. \A n \in Nat : n < next_session => n < next_session'
    OBVIOUS
  <2>. QED BY <2>1, <2>2, <2>3, Zenon
<1>3. \A h \in handles : h.session \in opened' => h.session \in opened
  OBVIOUS
<1>. QED BY <1>3 DEF HandleInv

\* The table of one session changes: slots move between blocks, blocks are added.
LEMMA TableGrows ==
  ASSUME Sound, Sound', HandleInv, UNCHANGED <<handles, opened, next_session>>, failed \subseteq failed',
         NEW s \in Sessions, Len(slots[s]) <= Len(slots'[s]),
         \A j \in 1 .. Len(slots[s]) :
           slots'[s][j] = slots[s][j] \/ (slots[s][j] \in Blocks /\ slots'[s][j] \in Blocks),
         \A j \in 1 .. Len(slots'[s]) : j > Len(slots[s]) => slots'[s][j] \in Blocks,
         \A r \in Sessions \ {s} : slots'[r] = slots[r]
  PROVE  HandleInv'
<1>. /\ opened \subseteq Sessions /\ Externalized \notin Blocks /\ next_session \in Nat
     /\ Len(slots[s]) \in Nat /\ Len(slots'[s]) \in Nat /\ Reliable' \subseteq Reliable
  BY PoolTypes, BlocksAssumption DEF Reliable
<1>2. \A j \in 1 .. Len(slots[s]) : j \in 1 .. Len(slots'[s])
  OBVIOUS
<1>3. \A j \in 1 .. Len(slots'[s]) : slots'[s][j] = Externalized
        => j \in 1 .. Len(slots[s]) /\ slots[s][j] = Externalized
  OBVIOUS
<1>4. \A j \in 1 .. Len(slots[s]) : slots[s][j] = Externalized
        => j \in 1 .. Len(slots'[s]) /\ slots'[s][j] = Externalized
  BY <1>2, Zenon
<1>5. \A r \in opened \cap opened' : \A i \in 1 .. Len(slots[r]) :
        slots[r][i] = Externalized => i \in 1 .. Len(slots'[r]) /\ slots'[r][i] = Externalized
  BY <1>4, Zenon
<1>6. \A r \in Reliable' : \A i \in 1 .. Len(slots'[r]) : slots'[r][i] = Externalized =>
        r \in Reliable /\ i \in 1 .. Len(slots[r]) /\ slots[r][i] = Externalized
  BY <1>3, Zenon DEF Reliable
<1>. QED BY <1>5, <1>6, HandlesKept

LEMMA ShareHandles ==
  ASSUME Sound, Sound', HandleInv, NEW src \in Sessions, NEW dst \in Sessions,
         NEW from \in Nat, NEW to \in Nat, Share(src, dst, from, to),
         UNCHANGED <<opened, next_session, handles, failed>>
  PROVE  HandleInv'
<1>. DEFINE n == to - from
<1>. Len(slots[dst]) \in Nat
  BY PoolTypes, Zenon
<1>. /\ from <= to /\ Len(slots'[dst]) = Len(slots[dst]) + n
     /\ \A j \in 1 .. Len(slots[dst]) : slots'[dst][j] = slots[dst][j]
     /\ \A k \in 1 .. n : slots'[dst][Len(slots[dst]) + k] = slots[src][from + k]
     /\ \A r \in Sessions \ {dst} : slots'[r] = slots[r]
     /\ \A i \in from + 1 .. to : slots[src][i] \in Blocks
  <2>1. from <= to
    BY ShareShape, Zenon
  <2>2. Len(slots'[dst]) = Len(slots[dst]) + n
    BY ShareLength
  <2>3. \A j \in 1 .. Len(slots[dst]) : slots'[dst][j] = slots[dst][j]
    BY ShareShape, Zenon
  <2>4. \A k \in 1 .. n : slots'[dst][Len(slots[dst]) + k] = slots[src][from + k]
    BY ShareEntries, Zenon
  <2>5. \A r \in Sessions \ {dst} : slots'[r] = slots[r]
    BY ShareShape, Zenon
  <2>6. \A i \in from + 1 .. to : slots[src][i] \in Blocks
    BY ShareShape, Zenon
  <2>. QED BY <2>1, <2>2, <2>3, <2>4, <2>5, <2>6, Zenon
<1>. HIDE DEF n
<1>2. ASSUME NEW j \in 1 .. Len(slots'[dst]), j > Len(slots[dst]) PROVE slots'[dst][j] \in Blocks
  <2>. DEFINE k == j - Len(slots[dst])
  <2>. k \in 1 .. n /\ j = Len(slots[dst]) + k
    BY <1>2 DEF n
  <2>. HIDE DEF k
  <2>2. from + k \in from + 1 .. to
    BY DEF n
  <2>. QED BY <2>2, Zenon
<1>3. Len(slots[dst]) <= Len(slots'[dst])
  BY DEF n
<1>. QED BY <1>2, <1>3, TableGrows, Zenon

LEMMA LifecycleHandles ==
  ASSUME RegistersWhole, PoolInv, PoolInv', StepInv, HandleInv, LifecycleStep
  PROVE  HandleInv'
<1>. /\ Sound /\ Sound' /\ Ownership /\ FillFitsBlocks /\ next_session \in Nat
     /\ slots \in [Sessions -> Seq(Slot)] /\ filled \in [Sessions -> Nat] /\ opened \subseteq Sessions
     /\ Externalized \notin Blocks /\ Usable \subseteq Sessions /\ Sessions \subseteq Nat
  BY PoolTypes, BlocksAssumption, StepFacts, Zenon DEF PoolInv
<1>1. CASE Open /\ CoreOnly
  <2>. /\ UNCHANGED <<slots, handles, failed>> /\ next_session' = next_session + 1
       /\ opened' = opened \cup {next_session} /\ next_session \in Sessions
    BY <1>1, BoundsAssumption DEF Open, CoreOnly, MintSession, Sessions
  <2>2. slots[next_session] = <<>>
    BY DEF Ownership
  <2>. QED BY <2>2, HandlesKept DEF Reliable
<1>2. ASSUME NEW s \in Clients, Close(s) PROVE HandleInv'
  <2>. /\ UNCHANGED <<handles, next_session>> /\ opened' = opened \ {s} /\ failed' = failed \ {s}
       /\ slots' = [slots EXCEPT ![s] = <<>>]
    BY <1>2, Zenon DEF Close, Discard, Forget
  <2>2. \A r \in Sessions \ {s} : slots'[r] = slots[r]
    BY Zenon
  <2>. QED BY <2>2, HandlesKept DEF Reliable
<1>3. ASSUME NEW src \in Usable, NEW dst \in Usable, NEW to \in 0 .. MaxSlots, NEW from \in 0 .. to,
             SpliceInPlace(src, dst, from, to), CoreOnly
      PROVE  HandleInv'
  <2>1. Share(src, dst, from, to) /\ UNCHANGED <<opened, next_session, handles, failed>>
    BY <1>3, Zenon DEF SpliceInPlace, Splice, CoreOnly
  <2>2. from \in Nat /\ to \in Nat
    BY BoundsAssumption
  <2>. QED BY <2>1, <2>2, ShareHandles, Zenon
<1>4. ASSUME NEW s \in Usable, NEW n \in 0 .. MaxSlots, RegisterPrefix(s, n), CoreOnly PROVE HandleInv'
  <2>. DEFINE o == next_session
  <2>. /\ n \in Nat /\ UNCHANGED <<handles, failed>> /\ o' = o + 1 /\ opened' = opened \cup {o}
    BY <1>4, BoundsAssumption DEF RegisterPrefix, MintSession, CoreOnly
  <2>. /\ o \in Sessions /\ o \notin opened /\ Len(slots'[o]) = n
       /\ \A i \in 1 .. n : slots'[o][i] \in Blocks
       /\ \A t \in Sessions \ {o} : slots'[t] = slots[t]
    BY <1>4, Zenon DEF RegistersWhole
  <2>3. \A r \in opened \cap opened' : \A i \in 1 .. Len(slots[r]) :
          slots[r][i] = Externalized => i \in 1 .. Len(slots'[r]) /\ slots'[r][i] = Externalized
    BY Zenon
  <2>4. \A r \in Reliable' : \A i \in 1 .. Len(slots'[r]) : slots'[r][i] = Externalized =>
          r \in Reliable /\ i \in 1 .. Len(slots[r]) /\ slots[r][i] = Externalized
    <3>1. \A r \in Reliable' \ {o} : r \in Reliable /\ r \in Sessions
      BY Zenon DEF Reliable
    <3>2. \A i \in 1 .. Len(slots'[o]) : slots'[o][i] # Externalized
      BY Zenon
    <3>. QED BY <3>1, <3>2, Zenon
  <2>5. next_session <= next_session' /\ \A r \in opened' : r \in opened \/ r >= next_session
    OBVIOUS
  <2>. QED BY <2>3, <2>4, <2>5, HandlesKept, Zenon
<1>5. ASSUME NEW s \in Usable, NEW n \in 0 .. MaxSlots, RegisterPrefixRefused(s, n), CoreOnly PROVE HandleInv'
  <2>1. UNCHANGED <<handles, failed, opened, slots>> /\ next_session' = next_session + 1
    BY <1>5, Zenon DEF RegisterPrefixRefused, MintSession, CoreOnly
  <2>. QED BY <2>1, HandlesKept DEF Reliable
<1>6. ASSUME NEW x \in prefixes, ReleasePrefix(x), CoreOnly PROVE HandleInv'
  <2>. /\ UNCHANGED <<handles, next_session, failed>> /\ opened' = opened \ {x.owner}
       /\ slots' = [slots EXCEPT ![x.owner] = <<>>]
    BY <1>6, Zenon DEF ReleasePrefix, Forget, CoreOnly
  <2>2. \A r \in Sessions \ {x.owner} : slots'[r] = slots[r]
    BY Zenon
  <2>. QED BY <2>2, HandlesKept DEF Reliable
<1>. QED BY <1>1, <1>2, <1>3, <1>4, <1>5, <1>6, Zenon DEF LifecycleStep

LEMMA PrefixUseHandles ==
  ASSUME PoolInv, PoolInv', StepInv, HandleInv, PrefixUseStep
  PROVE  HandleInv'
<1>0. Sound /\ Sound' /\ Usable \subseteq Sessions /\ free \subseteq Blocks
  BY PoolTypes, StepFacts, Zenon DEF PoolInv
<1>1. PICK x \in prefixes, dst \in Usable :
        \/ SplicePrefixFrom(x, dst) /\ UNCHANGED failed
        \/ AllocShiftedPrefixSlots(x, dst) /\ failed \subseteq failed'
  BY Zenon DEF PrefixUseStep, SplicePrefixShifted, SplicePrefixShiftedTorn, CoreOnly
<1>2. CASE SplicePrefixFrom(x, dst) /\ UNCHANGED failed
  <2>1. /\ Share(x.owner, dst, 0, x.blocks) /\ UNCHANGED <<opened, next_session, handles, failed>>
    BY <1>2, Zenon DEF SplicePrefixFrom, SplicePrefix
  <2>2. x.owner \in Sessions /\ x.blocks \in Nat /\ 0 \in Nat /\ dst \in Sessions
    BY <1>0, PoolTypes, Zenon
  <2>. QED BY <1>0, <2>1, <2>2, ShareHandles, Zenon
<1>3. CASE AllocShiftedPrefixSlots(x, dst) /\ failed \subseteq failed'
  <2>1. /\ dst \in Sessions /\ x.blocks \in Nat /\ Len(slots[dst]) \in Nat
        /\ Len(slots'[dst]) = Len(slots[dst]) + x.blocks
        /\ \A j \in 1 .. Len(slots[dst]) : slots'[dst][j] = slots[dst][j]
        /\ \A k \in 1 .. x.blocks : slots'[dst][Len(slots[dst]) + k] \in free
        /\ \A r \in Sessions \ {dst} : slots'[r] = slots[r]
        /\ UNCHANGED <<opened, next_session, handles>>
    BY <1>0, <1>3, ShiftedShape, PoolTypes, Zenon
  <2>2. ASSUME NEW j \in 1 .. Len(slots'[dst]), j > Len(slots[dst]) PROVE slots'[dst][j] \in Blocks
    <3>. DEFINE k == j - Len(slots[dst])
    <3>1. k \in 1 .. x.blocks /\ j = Len(slots[dst]) + k
      BY <2>1, <2>2
    <3>. HIDE DEF k
    <3>. QED BY <1>0, <2>1, <3>1, Zenon
  <2>3. Len(slots[dst]) <= Len(slots'[dst])
    BY <2>1
  <2>. QED BY <1>0, <1>3, <2>1, <2>2, <2>3, TableGrows, Zenon
<1>. QED BY <1>1, <1>2, <1>3, Zenon

LEMMA EvictHandles ==
  ASSUME Sound, Ownership, HandleInv, NEW s \in opened, NEW indices, EvictBlocks(s, indices),
         UNCHANGED failed
  PROVE  HandleInv'
<1>. Externalized \notin Blocks /\ opened \subseteq Sessions /\ s \in Sessions
  BY BlocksAssumption, PoolTypes, Zenon
<1>. PICK new \in handles' :
       /\ new.session = s /\ handles' = handles \cup {new}
       /\ \A i \in new.gone : i \in 1 .. Len(slots[s]) /\ slots[s][i] \in Blocks /\ slots'[s][i] = Externalized
       /\ \A i \in 1 .. Len(slots[s]) : i \notin new.gone => slots'[s][i] = slots[s][i]
       /\ Len(slots'[s]) = Len(slots[s])
       /\ \A r \in Sessions \ {s} : slots'[r] = slots[r]
       /\ UNCHANGED <<opened, filled, next_session, prefixes>>
  BY EvictShape
<1>2. s < next_session' /\ \A h \in handles : h.session < next_session'
  <2>1. \A r \in opened : r < next_session
    BY Zenon DEF Ownership
  <2>. QED BY <2>1, Zenon DEF HandleInv
<1>3. ASSUME NEW h \in handles', h.session \in opened', NEW i \in h.gone
      PROVE  i \in 1 .. Len(slots'[h.session]) /\ slots'[h.session][i] = Externalized
  <2>. USE <1>3
  <2>1. CASE h = new
    BY <2>1, Zenon
  <2>2. CASE h \in handles
    <3>1. i \in 1 .. Len(slots[h.session]) /\ slots[h.session][i] = Externalized
      BY <2>2 DEF HandleInv
    <3>2. h.session \in Sessions
      BY Zenon
    <3>. QED BY <3>1, <3>2, Zenon
  <2>. QED BY <2>1, <2>2, Zenon
<1>4. ASSUME NEW h \in handles, h.session = s PROVE h.gone \cap new.gone = {}
  <2>1. \A i \in h.gone : slots[s][i] = Externalized
    BY <1>4 DEF HandleInv
  <2>. QED BY <2>1, Zenon
<1>5. ASSUME NEW g \in handles', NEW h \in handles', g # h, g.session = h.session, g.session \in opened'
      PROVE  g.gone \cap h.gone = {}
  <2>1. CASE g \in handles /\ h \in handles
    BY <1>5, <2>1, Zenon DEF HandleInv
  <2>2. CASE ~(g \in handles /\ h \in handles)
    BY <1>4, <1>5, <2>2, Zenon
  <2>. QED BY <2>1, <2>2, Zenon
<1>6. ASSUME NEW r \in Reliable', NEW i \in 1 .. Len(slots'[r]), slots'[r][i] = Externalized
      PROVE  \E h \in handles' : h.session = r /\ i \in h.gone
  <2>. r \in Reliable /\ r \in Sessions
    BY Zenon DEF Reliable
  <2>2. CASE r = s /\ i \in new.gone
    BY <2>2, Zenon
  <2>3. CASE ~(r = s /\ i \in new.gone)
    <3>1. i \in 1 .. Len(slots[r]) /\ slots[r][i] = Externalized
      BY <1>6, <2>3, Zenon
    <3>2. \E h \in handles : h.session = r /\ i \in h.gone
      BY <3>1, Zenon DEF HandleInv
    <3>. QED BY <3>2, Zenon
  <2>. QED BY <2>2, <2>3, Zenon
<1>7. \A h \in handles' : h.session < next_session'
  BY <1>2, Zenon
<1>. QED BY <1>3, <1>5, <1>6, <1>7, Zenon DEF HandleInv

LEMMA RestoreHandles ==
  ASSUME Sound, HandleInv, NEW h \in handles, Current(h), Restore(h.session, h), failed \subseteq failed'
  PROVE  HandleInv'
<1>. DEFINE s == h.session
<1>. Externalized \notin Blocks /\ opened \subseteq Sessions /\ free \subseteq Blocks
  BY BlocksAssumption, PoolTypes, Zenon
<1>. /\ s \in Sessions /\ s \in opened /\ handles' = handles \ {h}
     /\ \A r \in Sessions \ {s} : slots'[r] = slots[r]
     /\ Len(slots'[s]) = Len(slots[s])
     /\ \A i \in h.gone : i \in 1 .. Len(slots[s]) /\ slots[s][i] = Externalized /\ slots'[s][i] \in free
     /\ \A i \in 1 .. Len(slots[s]) : i \notin h.gone => slots'[s][i] = slots[s][i]
     /\ UNCHANGED <<opened, next_session>>
  BY RestoreShape, Zenon
<1>2. ASSUME NEW g \in handles', g.session \in opened', NEW i \in g.gone
      PROVE  i \in 1 .. Len(slots'[g.session]) /\ slots'[g.session][i] = Externalized
  <2>1. i \in 1 .. Len(slots[g.session]) /\ slots[g.session][i] = Externalized /\ g.session \in Sessions
    BY <1>2 DEF HandleInv
  <2>2. g.session = s => i \notin h.gone
    BY <1>2, Zenon DEF HandleInv
  <2>. QED BY <2>1, <2>2, Zenon
<1>3. ASSUME NEW r \in Reliable', NEW i \in 1 .. Len(slots'[r]), slots'[r][i] = Externalized
      PROVE  \E g \in handles' : g.session = r /\ i \in g.gone
  <2>. r \in Reliable /\ r \in Sessions
    BY Zenon DEF Reliable
  <2>. ~(r = s /\ i \in h.gone)
    BY <1>3, Zenon
  <2>3. i \in 1 .. Len(slots[r]) /\ slots[r][i] = Externalized
    BY <1>3, Zenon
  <2>4. PICK g \in handles : g.session = r /\ i \in g.gone
    BY <2>3, Zenon DEF HandleInv
  <2>. QED BY <2>4, Zenon
<1>4. /\ \A g \in handles' : g.session < next_session'
      /\ \A f, g \in handles' : f # g /\ f.session = g.session /\ f.session \in opened' => f.gone \cap g.gone = {}
  BY Zenon DEF HandleInv
<1>. QED BY <1>2, <1>3, <1>4, Zenon DEF HandleInv

LEMMA DropHandles ==
  ASSUME PoolInv, HandleInv, NEW h \in handles, h.session \notin Usable, DropDevice(h), UNCHANGED failed
  PROVE  HandleInv'
<1>. handles' = handles \ {h} /\ UNCHANGED <<slots, opened, next_session>>
  BY Zenon DEF DropDevice, DropHandle, tableVars
<1>2. ASSUME NEW r \in Reliable, NEW i \in 1 .. Len(slots[r]), slots[r][i] = Externalized
      PROVE  \E g \in handles' : g.session = r /\ i \in g.gone
  <2>. USE <1>2
  <2>1. PICK g \in handles : g.session = r /\ i \in g.gone
    BY Zenon DEF HandleInv
  <2>2. r \notin Owners
    <3>1. SUFFICES ASSUME NEW x \in prefixes, x.owner = r PROVE FALSE
      BY Zenon DEF Owners
    <3>2. Resident(r, i)
      BY <3>1, Zenon DEF PoolInv, Ownership, PrefixWhole
    <3>. QED BY <3>2, BlocksAssumption, Zenon DEF Resident
  <2>3. r \in Usable
    BY <2>2, Zenon DEF Reliable, Usable, Clients
  <2>. QED BY <2>1, <2>3, Zenon
<1>3. Reliable' = Reliable
  BY Zenon DEF Reliable
<1>4. \A r \in Reliable' : \A i \in 1 .. Len(slots'[r]) :
        slots'[r][i] = Externalized => \E g \in handles' : g.session = r /\ i \in g.gone
  BY <1>2, <1>3, Zenon
<1>. QED BY <1>4 DEF HandleInv

LEMMA StepHandles ==
  ASSUME PoolInv, PoolInv', StepInv, HandleInv, ForwardStep
  PROVE  HandleInv'
<1>. Sound /\ Sound' /\ FillFitsBlocks /\ free \subseteq Blocks
  BY PoolTypes, Zenon DEF PoolInv
<1>1. ASSUME UNCHANGED <<slots, handles, opened, next_session>>, failed \subseteq failed' PROVE HandleInv'
  <2>1. next_session \in Nat
    BY PoolTypes, Zenon
  <2>. QED BY <1>1, <2>1, HandlesKept DEF Reliable
<1>2. ASSUME NEW s \in Sessions, NEW i, CowBreak(s, i), failed \subseteq failed' PROVE HandleInv'
  <2>. /\ i \in 1 .. Len(slots[s]) /\ slots[s][i] \in Blocks /\ slots'[s][i] \in Blocks
       /\ Len(slots'[s]) = Len(slots[s])
       /\ \A j \in 1 .. Len(slots[s]) : j # i => slots'[s][j] = slots[s][j]
       /\ \A r \in Sessions \ {s} : slots'[r] = slots[r]
       /\ UNCHANGED <<opened, next_session, handles>>
    BY <1>2, CowBreakShape
  <2>2. Len(slots[s]) <= Len(slots'[s]) /\ \A j \in 1 .. Len(slots'[s]) : ~(j > Len(slots[s]))
    BY PoolTypes
  <2>. QED BY <1>2, <2>2, TableGrows, Zenon
<1>3. ASSUME NEW s \in Sessions, StepAppend(s) PROVE HandleInv'
  <2>. AppendTokens(s, 1) /\ UNCHANGED failed
    BY <1>3, Zenon DEF StepAppend
  <2>. /\ \A r \in Sessions \ {s} : slots'[r] = slots[r]
       /\ \A j \in 1 .. Len(slots[s]) : slots'[s][j] = slots[s][j]
       /\ UNCHANGED <<opened, next_session, handles>> /\ Len(slots[s]) \in Nat
    BY AppendOneShape, PoolTypes, Zenon
  <2>3. CASE slots' = slots
    BY <1>1, <2>3, Zenon
  <2>4. CASE Len(slots'[s]) = Len(slots[s]) + 1 /\ slots'[s][Len(slots[s]) + 1] \in free
    <3>1. /\ Len(slots[s]) <= Len(slots'[s])
          /\ \A j \in 1 .. Len(slots'[s]) : j > Len(slots[s]) => slots'[s][j] \in Blocks
      BY <2>4
    <3>. QED BY <3>1, TableGrows, Zenon
  <2>. QED BY <2>3, <2>4, AppendOneShape, Zenon
<1>4. ASSUME NEW s \in Sessions, StepWritable(s) \/ WritableTorn(s) PROVE HandleInv'
  <2>. failed \subseteq failed'
    BY <1>4, Zenon DEF StepWritable, WritableTorn, Abort
  <2>2. CASE CowBreak(s, BlockAt(filled[s]))
    BY <1>2, <2>2, Zenon
  <2>3. CASE EnsureWritableExclusive(s, BlockAt(filled[s]))
    BY <1>1, <2>3, Zenon DEF EnsureWritableExclusive, vars, tableVars
  <2>. QED BY <1>4, <2>2, <2>3, Zenon DEF StepWritable, WritableTorn, EnsureWritableShared, EnsureWritableTorn
<1>5. ASSUME StepWrite \/ WriteFails \/ \E s \in Sessions : AppendRefused(s) \/ WritableRefused(s)
      PROVE  HandleInv'
  <2>1. UNCHANGED <<slots, handles, opened, next_session>> /\ failed \subseteq failed'
    BY <1>5, Zenon DEF StepWrite, WriteFails, AppendRefused, WritableRefused, Abort, vars, tableVars
  <2>. QED BY <1>1, <2>1, Zenon
<1>. QED BY <1>3, <1>4, <1>5, Zenon DEF ForwardStep

LEMMA HandleInvStep ==
  ASSUME RegistersWhole, PoolInv, PoolInv', StepInv, HandleInv, [ForwardNext]_forwardVars
  PROVE  HandleInv'
<1>. Sound /\ Ownership /\ Usable \subseteq opened
  BY Zenon DEF PoolInv, Usable, Clients
<1>1. CASE TierStep
  <2>1. ASSUME NEW s \in Usable, NEW indices, EvictDevice(s, indices), UNCHANGED failed PROVE HandleInv'
    BY <2>1, EvictHandles, Zenon DEF EvictDevice
  <2>2. ASSUME NEW h \in handles, Current(h), Restore(h.session, h), failed \subseteq failed' PROVE HandleInv'
    BY <2>2, RestoreHandles, Zenon
  <2>. QED BY <1>1, <2>1, <2>2, DropHandles, Zenon DEF TierStep, RestoreDevice, RestoreTorn
<1>2. ASSUME NEW feed, BeginStep(feed) PROVE HandleInv'
  BY <1>2 DEF BeginStep, vars, tableVars, HandleInv, Reliable
<1>3. CASE UNCHANGED forwardVars
  BY <1>3 DEF forwardVars, vars, tableVars, HandleInv, Reliable
<1>. QED BY <1>1, <1>2, <1>3, LifecycleHandles, PrefixUseHandles, StepHandles, Zenon DEF ForwardNext

-----------------------------------------------------------------------------
(* The invariants of the paged forward passes. *)

LEMMA ForwardInvInit ==
  ASSUME ForwardInit, PoolInv
  PROVE  ForwardInv
<1>1. DeviceTypeOK
  BY Zenon DEF ForwardInit, DeviceInit, Init, DeviceTypeOK, Row
<1>. QED BY <1>1, StepInvInit, Zenon DEF ForwardInv

\* What the steps add to the allocator's invariant is kept while the allocator
\* keeps its own.
LEMMA ForwardInvStep ==
  ASSUME ForwardInv, PoolInv', [ForwardNext]_forwardVars
  PROVE  ForwardInv'
<1>. Sound /\ Ownership /\ StepInv /\ DeviceTypeOK /\ PoolInv
  BY Zenon DEF ForwardInv, PoolInv
<1>2. StepInv'
  BY StepInvStep, Zenon
<1>3. DeviceTypeOK'
  <2>1. CASE ForwardNext
    BY <2>1, WritesExclusive, SavedStep, Zenon DEF DeviceTypeOK
  <2>2. CASE UNCHANGED forwardVars
    BY <2>2, Zenon DEF DeviceTypeOK, forwardVars, vars, deviceVars
  <2>. QED BY <2>1, <2>2, Zenon
<1>. QED BY <1>2, <1>3, Zenon DEF ForwardInv

LEMMA LogicalInvInit ==
  ASSUME ForwardInit, PoolInv
  PROVE  LogicalInv
<1>1. handles = {} /\ opened = {}
  BY Zenon DEF ForwardInit, DeviceInit, Init
<1>2. HandleInv
  BY <1>1, Zenon DEF HandleInv, Reliable
<1>. QED BY <1>2, ForwardInvInit, Zenon DEF LogicalInv

LEMMA LogicalInvStep ==
  ASSUME LogicalInv, PoolInv', RegistersWhole, [ForwardNext]_forwardVars
  PROVE  LogicalInv'
<1>. ForwardInv'
  BY ForwardInvStep, Zenon DEF LogicalInv
<1>2. HandleInv'
  BY HandleInvStep, Zenon DEF LogicalInv, ForwardInv
<1>. QED BY <1>2, Zenon DEF LogicalInv

-----------------------------------------------------------------------------
(* A batch that has begun has the blocks it needs. *)

\* The sessions of a batch that still need a block off the free list: a fresh
\* one at a block boundary, or a copy of a shared one.
Owed ==
  {s \in Sessions :
     \/ /\ s \in work.grow
        /\ filled[s] % BlockSize = 0 \/ refcount[slots[s][BlockAt(filled[s] + 1)]] > 1
     \/ /\ s = work.current
        /\ Resident(s, BlockAt(filled[s])) /\ refcount[slots[s][BlockAt(filled[s])]] > 1}

BatchInv ==
  Cardinality(Stepping) > 1 => /\ \A s \in work.grow : FrontierResident(s)
                               /\ Cardinality(Owed) <= Cardinality(free)

\* What the batch owes and the free list are counted.
LEMMA BatchCounts ==
  ASSUME Sound, Countable(Sessions), Countable(Blocks)
  PROVE  /\ Owed \in SUBSET Sessions /\ Cardinality(Owed) \in Nat
         /\ free \in SUBSET Blocks /\ Cardinality(free) \in Nat
         /\ \A q \in free : Cardinality(free \ {q}) = Cardinality(free) - 1
         /\ \A s \in Owed : Cardinality(Owed) >= 1
         /\ free = {} => Cardinality(free) = 0
<1>. Owed \in SUBSET Sessions /\ free \in SUBSET Blocks
  BY PoolTypes, Zenon DEF Owed
<1>2. /\ Cardinality(Owed) \in Nat /\ (Cardinality(Owed) = 0 <=> Owed = {})
      /\ Cardinality(free) \in Nat /\ (Cardinality(free) = 0 <=> free = {})
  BY Zenon DEF Countable
<1>3. \A q \in free : Cardinality(free \ {q}) = Cardinality(free) - 1
  BY Zenon DEF Countable
<1>. QED BY <1>2, <1>3

\* A batch that owes nothing new owes no more; one that is served owes one less.
LEMMA OwedCounts ==
  ASSUME Countable(Sessions), NEW A \in SUBSET Sessions, NEW B \in SUBSET A
  PROVE  /\ Cardinality(B) <= Cardinality(A) /\ Cardinality(B) \in Nat
         /\ \A x \in A : x \notin B => Cardinality(B) <= Cardinality(A) - 1
<1>1. Cardinality(B) <= Cardinality(A) /\ Cardinality(B) \in Nat
  BY Zenon DEF Countable
<1>2. ASSUME NEW x \in A, x \notin B PROVE Cardinality(B) <= Cardinality(A) - 1
  <2>1. A \ {x} \in SUBSET Sessions /\ B \in SUBSET (A \ {x})
    BY <1>2, Zenon
  <2>2. Cardinality(B) <= Cardinality(A \ {x})
    BY <2>1, Zenon DEF Countable
  <2>3. Cardinality(A \ {x}) = Cardinality(A) - 1
    BY Zenon DEF Countable
  <2>. QED BY <2>2, <2>3, Zenon
<1>. QED BY <1>1, <1>2, Zenon

\* A session of the batch whose frontier is not touched owes no more than before.
LEMMA StillOwed ==
  ASSUME Sound, NEW r \in Sessions, FrontierResident(r),
         slots'[r] = slots[r], filled'[r] = filled[r],
         \A p \in Blocks \ free : refcount'[p] <= refcount[p] /\ refcount'[p] \in Nat
  PROVE  /\ (filled[r] % BlockSize = 0 \/ refcount[slots[r][BlockAt(filled[r] + 1)]] > 1)'
              => (filled[r] % BlockSize = 0 \/ refcount[slots[r][BlockAt(filled[r] + 1)]] > 1)
         /\ FrontierResident(r)'
<1>1. CASE filled[r] % BlockSize = 0
  BY <1>1, Zenon DEF FrontierResident
<1>2. CASE Resident(r, BlockAt(filled[r] + 1))
  <2>. slots[r][BlockAt(filled[r] + 1)] \in Blocks \ free
    BY <1>2, NamedCounted, Zenon
  <2>2. refcount[slots[r][BlockAt(filled[r] + 1)]] \in Nat
    BY PoolTypes, Zenon
  <2>. QED BY <1>2, <2>2 DEF FrontierResident, Resident
<1>. QED BY <1>1, <1>2, Zenon DEF FrontierResident

LEMMA BatchAppend ==
  ASSUME Sound, Countable(Sessions), Countable(Blocks),
         FillFitsBlocks, StepInv, BatchInv, NEW s \in Sessions, StepAppend(s)
  PROVE  BatchInv'
<1>. /\ work.current = None /\ s \in work.grow /\ AppendTokens(s, 1)
     /\ work' = [work EXCEPT !.grow = work.grow \ {s}, !.current = s]
  BY Zenon DEF StepAppend
<1>. work'.grow = work.grow \ {s} /\ work'.current = s /\ Stepping' = Stepping /\ work.grow \subseteq Sessions
  BY Zenon DEF StepInv, Stepping
<1>3. SUFFICES ASSUME Cardinality(Stepping) > 1
               PROVE  /\ \A r \in work'.grow : FrontierResident(r)'
                      /\ Cardinality(Owed') <= Cardinality(free')
  BY Zenon DEF BatchInv
<1>. \A r \in work.grow : FrontierResident(r)
  BY <1>3, Zenon DEF BatchInv
<1>5. Cardinality(Owed) <= Cardinality(free)
  BY <1>3, Zenon DEF BatchInv
<1>. /\ \A r \in Sessions \ {s} : slots'[r] = slots[r] /\ filled'[r] = filled[r]
     /\ filled'[s] = filled[s] + 1 /\ filled[s] \in Nat /\ refcount \in [Blocks -> Nat]
  BY AppendOneShape, PoolTypes, Zenon
<1>7. CASE UNCHANGED <<free, refcount>> /\ slots' = slots
  <2>1. \A p \in Blocks \ free : refcount'[p] <= refcount[p] /\ refcount'[p] \in Nat
    BY <1>7
  <2>2. Owed' \in SUBSET Owed
    <3>. SUFFICES ASSUME NEW r \in Sessions, r \in Owed' PROVE r \in Owed
      BY Zenon DEF Owed
    <3>1. CASE r \in work'.grow
      BY <2>1, <3>1, StillOwed, Zenon DEF Owed
    <3>2. CASE r \notin work'.grow
      <4>1. r = s /\ refcount'[slots'[s][BlockAt(filled'[s])]] > 1
        BY <3>2, Zenon DEF Owed
      <4>2. refcount[slots[s][BlockAt(filled[s] + 1)]] > 1
        BY <1>7, <4>1, Zenon
      <4>. QED BY <4>1, <4>2, Zenon DEF Owed
    <3>. QED BY <3>1, <3>2, Zenon
  <2>3. Cardinality(Owed') <= Cardinality(Owed) /\ Cardinality(Owed') \in Nat
    BY <2>2, BatchCounts, OwedCounts, Zenon
  <2>4. \A r \in work'.grow : FrontierResident(r)'
    BY <2>1, StillOwed, Zenon
  <2>. QED BY <1>5, <1>7, <2>3, <2>4, BatchCounts
<1>8. CASE /\ filled[s] % BlockSize = 0 /\ BlockAt(filled[s] + 1) = Len(slots[s]) + 1
           /\ Len(slots'[s]) = Len(slots[s]) + 1
           /\ slots'[s][Len(slots[s]) + 1] \in free
           /\ free' = free \ {slots'[s][Len(slots[s]) + 1]}
           /\ refcount' = [refcount EXCEPT ![slots'[s][Len(slots[s]) + 1]] = 1]
  <2>. USE <1>8
  <2>. DEFINE q == slots'[s][Len(slots[s]) + 1]
  <2>1. q \in free /\ q \in Blocks /\ refcount'[q] = 1
    BY PoolTypes, Zenon
  <2>2. \A p \in Blocks \ free : refcount'[p] <= refcount[p] /\ refcount'[p] \in Nat
    OBVIOUS
  <2>3. s \in Owed
    BY Zenon DEF Owed
  <2>4. Owed' \in SUBSET Owed /\ s \notin Owed'
    <3>. SUFFICES ASSUME NEW r \in Sessions, r \in Owed' PROVE r \in Owed /\ r # s
      BY Zenon DEF Owed
    <3>1. CASE r \in work'.grow
      BY <2>2, <3>1, StillOwed, Zenon DEF Owed
    <3>2. CASE r \notin work'.grow
      <4>1. r = s /\ refcount'[slots'[s][BlockAt(filled'[s])]] > 1
        BY <3>2, Zenon DEF Owed
      <4>2. slots'[s][BlockAt(filled'[s])] = q
        BY Zenon
      <4>. QED BY <2>1, <4>1, <4>2
    <3>. QED BY <3>1, <3>2, Zenon
  <2>5. Cardinality(Owed') <= Cardinality(Owed) - 1 /\ Cardinality(Owed') \in Nat
    BY <2>3, <2>4, BatchCounts, OwedCounts, Zenon
  <2>6. Cardinality(free') = Cardinality(free) - 1
    BY <2>1, BatchCounts, Zenon
  <2>7. \A r \in work'.grow : FrontierResident(r)'
    BY <2>2, StillOwed, Zenon
  <2>. QED BY <1>5, <2>5, <2>6, <2>7, BatchCounts
<1>. QED BY <1>7, <1>8, AppendOneShape, Zenon

LEMMA BatchWritable ==
  ASSUME Sound, Countable(Sessions), Countable(Blocks),
         StepInv, BatchInv, NEW s \in Sessions, StepWritable(s)
  PROVE  BatchInv'
<1>. DEFINE i == BlockAt(filled[s])
<1>. /\ work.current = s
     /\ EnsureWritableExclusive(s, i) \/ CowBreak(s, i)
     /\ work' = [work EXCEPT !.current = None, !.grown = work.grown \cup {s}] /\ UNCHANGED filled
  BY Zenon DEF StepWritable, EnsureWritableExclusive, EnsureWritableShared, CowBreak, vars, tableVars
<1>. /\ work'.grow = work.grow /\ work'.current = None /\ Stepping' = Stepping
     /\ work.grow \subseteq Sessions /\ s \notin work.grow /\ None \notin Sessions
  BY StepAssumption, Zenon DEF StepInv, Stepping
<1>3. SUFFICES ASSUME Cardinality(Stepping) > 1
               PROVE  /\ \A r \in work'.grow : FrontierResident(r)'
                      /\ Cardinality(Owed') <= Cardinality(free')
  BY Zenon DEF BatchInv
<1>. /\ \A r \in work.grow : FrontierResident(r)
     /\ Cardinality(Owed) <= Cardinality(free) /\ refcount \in [Blocks -> Nat]
  BY <1>3, PoolTypes, Zenon DEF BatchInv
<1>5. ASSUME /\ \A r \in Sessions \ {s} : slots'[r] = slots[r]
             /\ \A p \in Blocks \ free : refcount'[p] <= refcount[p] /\ refcount'[p] \in Nat
      PROVE  Owed' \in SUBSET Owed /\ s \notin Owed' /\ \A r \in work'.grow : FrontierResident(r)'
  <2>1. ASSUME NEW r \in Sessions, r \in Owed' PROVE r \in work.grow
    BY <2>1, Zenon DEF Owed
  <2>2. \A r \in work.grow : (r \in Owed' => r \in Owed) /\ FrontierResident(r)'
    BY <1>5, StillOwed, Zenon DEF Owed
  <2>3. Owed' \subseteq Sessions
    BY Zenon DEF Owed
  <2>. QED BY <2>1, <2>2, <2>3, Zenon
<1>6. CASE EnsureWritableExclusive(s, i)
  <2>. UNCHANGED <<slots, refcount, free>>
    BY <1>6, Zenon DEF EnsureWritableExclusive, vars, tableVars
  <2>. Owed' \in SUBSET Owed /\ \A r \in work'.grow : FrontierResident(r)'
    BY <1>5
  <2>3. Cardinality(Owed') <= Cardinality(Owed) /\ Cardinality(Owed') \in Nat
    BY BatchCounts, OwedCounts, Zenon
  <2>. QED BY <2>3, BatchCounts
<1>7. CASE CowBreak(s, i)
  <2>. USE <1>7
  <2>. PICK q \in free : /\ refcount' = [refcount EXCEPT ![q] = 1, ![slots[s][i]] = @ - 1]
                         /\ free' = free \ {q}
    BY Zenon DEF CowBreak
  <2>. Resident(s, i) /\ refcount[slots[s][i]] > 1 /\ slots[s][i] \in Blocks /\ slots[s][i] \notin free
    BY NamedCounted, Zenon DEF CowBreak
  <2>3. \A p \in Blocks \ free : refcount'[p] <= refcount[p] /\ refcount'[p] \in Nat
    <3>1. ASSUME NEW p \in Blocks \ free
          PROVE  refcount'[p] = IF p = slots[s][i] THEN refcount[p] - 1 ELSE refcount[p]
      BY Zenon
    <3>. QED BY <3>1
  <2>4. s \in Owed
    BY Zenon DEF Owed
  <2>. Owed' \in SUBSET Owed /\ s \notin Owed' /\ \A r \in work'.grow : FrontierResident(r)'
    BY <1>5, <2>3, CowBreakShape, Zenon
  <2>6. Cardinality(Owed') <= Cardinality(Owed) - 1 /\ Cardinality(Owed') \in Nat
    BY <2>4, BatchCounts, OwedCounts, Zenon
  <2>7. Cardinality(free') = Cardinality(free) - 1
    BY BatchCounts, Zenon
  <2>. QED BY <2>6, <2>7, BatchCounts
<1>. QED BY <1>6, <1>7, Zenon

LEMMA BatchBegin ==
  ASSUME Sound, NEW sessions \in Batches, NEW feed \in [sessions -> Values], BeginStep(feed)
  PROVE  BatchInv'
<1>. /\ work' = [NoWork EXCEPT !.grow = sessions, !.feed = feed] /\ UNCHANGED vars
     /\ Cardinality(sessions) > 1 => /\ \A s \in sessions : FrontierResident(s)
                                     /\ Needed(sessions) <= Cardinality(free)
  BY Zenon DEF BeginStep
<1>. work'.grow = sessions /\ work'.current = None /\ Stepping' = sessions
  BY Zenon DEF NoWork, Stepping
<1>. UNCHANGED <<free, refcount, slots, filled>> /\ sessions \subseteq Sessions
  BY PoolTypes, Zenon DEF vars, tableVars, Batches, Usable
<1>4. Owed' = {s \in sessions : \/ filled[s] % BlockSize = 0
                                \/ refcount[slots[s][BlockAt(filled[s] + 1)]] > 1}
  BY StepAssumption, Zenon DEF Owed
<1>5. \A s \in sessions : FrontierResident(s) => FrontierResident(s)'
  BY Zenon DEF FrontierResident, Resident
<1>. QED BY <1>4, <1>5, Zenon DEF BatchInv, Needed

LEMMA BatchStep ==
  ASSUME Countable(Sessions), Countable(Blocks), PoolInv, StepInv, BatchInv, [ForwardNext]_forwardVars
  PROVE  BatchInv'
<1>. Sound /\ FillFitsBlocks
  BY Zenon DEF PoolInv
<1>1. ASSUME work' = NoWork PROVE BatchInv'
  <2>1. Stepping' = {}
    BY <1>1 DEF Stepping, NoWork
  <2>2. Cardinality(Stepping') = 0
    BY <2>1, Zenon DEF Countable
  <2>3. ~(Cardinality(Stepping') > 1)
    BY <2>2
  <2>. QED BY <2>3, Zenon DEF BatchInv
<1>2. CASE Idle /\ (LifecycleStep \/ PrefixUseStep \/ TierStep)
  <2>1. UNCHANGED work
    BY <1>2, Zenon DEF LifecycleStep, CoreOnly, Close, PrefixUseStep, TierStep
  <2>. QED BY <1>1, <1>2, <2>1, Zenon DEF Idle
<1>3. ASSUME NEW sessions \in Batches, NEW feed \in [sessions -> Values], BeginStep(feed) PROVE BatchInv'
  BY <1>3, BatchBegin, Zenon
<1>4. ASSUME NEW s \in Sessions, StepAppend(s) \/ StepWritable(s) PROVE BatchInv'
  BY <1>4, BatchAppend, BatchWritable, Zenon
<1>5. CASE StepWrite \/ WriteFails \/ \E s \in Sessions : AppendRefused(s) \/ WritableRefused(s) \/ WritableTorn(s)
  BY <1>1, <1>5, Zenon DEF StepWrite, WriteFails, AppendRefused, WritableRefused, WritableTorn, Abort
<1>6. CASE UNCHANGED forwardVars
  BY <1>6, Zenon DEF forwardVars, vars, tableVars, BatchInv, Owed, Stepping, FrontierResident, Resident
<1>. QED BY <1>2, <1>3, <1>4, <1>5, <1>6, Zenon DEF ForwardNext, ForwardStep

LEMMA BatchHasBlocks ==
  ASSUME Countable(Sessions), Countable(Blocks), PoolInv, StepInv, BatchInv
  PROVE  BatchNeverStarved
<1>. Sound /\ FillFitsBlocks
  BY Zenon DEF PoolInv
<1>1. SUFFICES ASSUME Cardinality(Stepping) > 1
               PROVE  /\ \A s \in work.grow : ~OutOfBlocks(s)
                      /\ \A s \in Sessions : work.current = s => ~NoBlockToCopyTo(s)
  BY Zenon DEF BatchNeverStarved
<1>. Cardinality(Owed) <= Cardinality(free) /\ Cardinality(Owed) \in Nat /\ Cardinality(free) \in Nat
  BY <1>1, BatchCounts, Zenon DEF BatchInv
<1>3. ASSUME NEW s \in Owed PROVE Cardinality(free) >= 1
  <2>1. Cardinality(Owed) >= 1
    BY <1>3, BatchCounts, Zenon
  <2>. QED BY <2>1
<1>4. ASSUME NEW s \in work.grow, OutOfBlocks(s) PROVE FALSE
  <2>. DEFINE len == Len(slots[s])
              need == BlocksFor(filled[s] + 1)
  <2>. s \in Sessions /\ len \in Nat /\ filled[s] \in Nat /\ filled[s] <= len * BlockSize
    BY StepFacts, PoolTypes, Zenon DEF FillFitsBlocks
  <2>. need <= len + 1 /\ need \in Nat /\ (need > len => filled[s] % BlockSize = 0)
    <3>. HIDE DEF len
    <3>. QED BY OneMoreBlock, Zenon
  <2>3. need - len > Cardinality(free)
    BY <1>4, Zenon DEF OutOfBlocks
  <2>. HIDE DEF need, len
  <2>. need > len /\ Cardinality(free) = 0
    BY <2>3
  <2>5. s \in Owed
    BY Zenon DEF Owed
  <2>. QED BY <1>3, <2>5
<1>5. ASSUME NEW s \in Sessions, work.current = s, NoBlockToCopyTo(s) PROVE FALSE
  <2>1. s \in Owed
    BY <1>5, Zenon DEF NoBlockToCopyTo, Owed
  <2>2. Cardinality(free) = 0
    BY <1>5, BatchCounts, Zenon DEF NoBlockToCopyTo
  <2>. QED BY <1>3, <2>1, <2>2
<1>. QED BY <1>4, <1>5, Zenon

\* No batch is under way at the start.
LEMMA BatchInit ==
  ASSUME Countable(Sessions), ForwardInit
  PROVE  BatchInv
<1>1. Stepping = {}
  BY DEF ForwardInit, NoWork, Stepping
<1>2. Cardinality(Stepping) = 0
  BY <1>1, Zenon DEF Countable
<1>. QED BY <1>2 DEF BatchInv

\* Neither the paged steps nor their drivers use the block index.
LEMMA IndexUnused ==
  ASSUME [ForwardNext]_forwardVars
  PROVE  UNCHANGED cached_by_block
<1>1. CASE LifecycleStep
  BY <1>1, Zenon DEF LifecycleStep, Close, Discard, SpliceInPlace, Splice, Open, RegisterPrefix, RegisterPrefixRefused,
              ReleasePrefix, indexVars
<1>2. CASE PrefixUseStep
  BY <1>2, Zenon DEF PrefixUseStep, SplicePrefixFrom, SplicePrefix, SplicePrefixShifted, SplicePrefixShiftedTorn,
              AllocShiftedPrefixSlots, indexVars
<1>3. CASE TierStep
  BY <1>3, Zenon DEF TierStep, EvictDevice, EvictBlocks, RestoreDevice, RestoreTorn, Restore, DropDevice, DropHandle, indexVars
<1>4. ASSUME NEW feed, BeginStep(feed) PROVE UNCHANGED cached_by_block
  BY <1>4, Zenon DEF BeginStep, vars, indexVars
<1>5. CASE ForwardStep
  BY <1>5, Zenon DEF ForwardStep, StepAppend, AppendTokens, StepWritable, EnsureWritableExclusive, EnsureWritableShared,
              EnsureWritableTorn, CowBreak, StepWrite, WriteFails, AppendRefused, WritableRefused, WritableTorn,
              vars, indexVars
<1>6. CASE UNCHANGED forwardVars
  BY <1>6, Zenon DEF forwardVars, vars, indexVars
<1>. QED BY <1>1, <1>2, <1>3, <1>4, <1>5, <1>6, Zenon DEF ForwardNext
=============================================================================
