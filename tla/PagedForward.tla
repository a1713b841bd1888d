------------------------------ MODULE PagedForward ------------------------------
(***************************************************************************)
(* Paged decode steps over the device pool, as the model's forward passes   *)
(* make them (forward_paged_step, its plan-once sibling, and the batched    *)
(* step): grow every session of the step by one token, break a share on the *)
(* block it will write, then write the new rows and attend.                 *)
(*                                                                         *)
(* A step borrows the pool mutably, so no other operation interleaves with  *)
(* it; its stages are separate actions because each can fail and leave what *)
(* the earlier ones did. Clients stop using a session after an error, as    *)
(* the schedulers do, and splice only what lies at the same positions.      *)
(***************************************************************************)
EXTENDS DeviceKvPool

CONSTANTS
  MaxBatch,  \* bound: sessions of one step
  MaxFed     \* bound: the position a step fills

ASSUME StepAssumption == None \notin Sessions

VARIABLES
  work,    \* the step in progress
  failed   \* sessions an operation has reported an error for

forwardVars == <<vars, deviceVars, work, failed>>

NoWork == [grow |-> {}, current |-> None, grown |-> {}, feed |-> <<>>]
Idle == work = NoWork
Stepping == DOMAIN work.feed
Usable == Clients \ failed

\* Mutant: counts only the fresh blocks, not the copies.
NeededBoundary(sessions) ==
  Cardinality({s \in sessions : filled[s] % BlockSize = 0})

\* The batched step's pre-check: a fresh block at a block boundary, a copy for
\* a shared frontier.
Needed(sessions) ==
  Cardinality({s \in sessions : \/ filled[s] % BlockSize = 0
                                \/ refcount[slots[s][BlockAt(filled[s] + 1)]] > 1})

FrontierResident(s) == filled[s] % BlockSize = 0 \/ Resident(s, BlockAt(filled[s] + 1))

WithinBounds(s) == filled[s] < MaxFed /\ BlocksFor(filled[s] + 1) <= MaxSlots

\* feed gives each session of the step its token. One session needs no pre-check.
BeginStep(feed) ==
  LET sessions == DOMAIN feed IN
  /\ Idle
  /\ sessions # {} /\ sessions \subseteq Clients
  /\ \A s \in sessions : WithinBounds(s)
  /\ Cardinality(sessions) > 1 => /\ \A s \in sessions : FrontierResident(s)
                                  /\ Needed(sessions) <= Cardinality(free)
  /\ work' = [NoWork EXCEPT !.grow = sessions, !.feed = feed]
  /\ UNCHANGED <<vars, deviceVars, failed>>

\* Mutant: the pool is advanced twice for one token.
StepAppendTwice(s) ==
  /\ work.current = None
  /\ s \in work.grow
  /\ AppendTokens(s, 2)
  /\ work' = [work EXCEPT !.grow = @ \ {s}, !.current = s]
  /\ UNCHANGED <<deviceVars, failed>>

StepAppend(s) ==
  /\ work.current = None
  /\ s \in work.grow
  /\ AppendTokens(s, 1)
  /\ work' = [work EXCEPT !.grow = @ \ {s}, !.current = s]
  /\ UNCHANGED <<deviceVars, failed>>

StepWritable(s) ==
  /\ work.current = s
  /\ \/ EnsureWritableExclusive(s, BlockAt(filled[s]))
     \/ EnsureWritableShared(s, BlockAt(filled[s]))
  /\ work' = [work EXCEPT !.current = None, !.grown = @ \cup {s}]
  /\ UNCHANGED failed

Grown == work.grow = {} /\ work.current = None /\ work.grown # {}

\* materialize_block_table refuses a table with an externalized slot.
Materialized(sessions) == \A s \in sessions : \A i \in 1 .. Len(slots[s]) : Resident(s, i)

\* The rows of the step's tokens, for the sessions done.
Rows(done) ==
  [p \in Blocks |-> [o \in Offsets |->
     IF \E s \in done : slots[s][BlockAt(filled[s])] = p /\ OffsetAt(filled[s]) = o
     THEN LET s == CHOOSE s \in done : slots[s][BlockAt(filled[s])] = p /\ OffsetAt(filled[s]) = o
          IN <<work.feed[s], filled[s]>>
     ELSE cells[p][o]]]

StepWrite ==
  /\ Grown
  /\ Materialized(work.grown)
  /\ cells' = Rows(work.grown)
  /\ work' = NoWork
  /\ UNCHANGED <<vars, saved, failed>>

-----------------------------------------------------------------------------
(* The error exits of a step. *)

Abort ==
  /\ failed' = failed \cup Stepping
  /\ work' = NoWork

OutOfBlocks(s) == BlocksFor(filled[s] + 1) - Len(slots[s]) > Cardinality(free)

AppendRefused(s) ==
  /\ work.current = None
  /\ s \in work.grow
  /\ OutOfBlocks(s)
  /\ Abort
  /\ UNCHANGED <<vars, deviceVars>>

NoBlockToCopyTo(s) ==
  Resident(s, BlockAt(filled[s])) /\ refcount[slots[s][BlockAt(filled[s])]] > 1 /\ free = {}

WritableRefused(s) ==
  /\ work.current = s
  /\ ~Resident(s, BlockAt(filled[s])) \/ NoBlockToCopyTo(s)
  /\ Abort
  /\ UNCHANGED <<vars, deviceVars>>

WritableTorn(s) ==
  /\ work.current = s
  /\ EnsureWritableTorn(s, BlockAt(filled[s]))
  /\ Abort

\* The table is refused, or the realize fails with only some rows written.
WriteFails ==
  /\ Grown
  /\ \E done \in SUBSET work.grown : cells' = Rows(IF Materialized(work.grown) THEN done ELSE {})
  /\ Abort
  /\ UNCHANGED <<vars, saved>>

-----------------------------------------------------------------------------
(* Operations between steps. *)

CoreOnly == UNCHANGED <<deviceVars, work, failed>>

Close(s) ==
  /\ Discard(s)
  /\ failed' = failed \ {s}
  /\ UNCHANGED <<deviceVars, work>>

\* splice at equal positions: dst's own blocks end where the shared ones begin.
SpliceInPlace(src, dst, from, to) ==
  /\ filled[dst] = from * BlockSize /\ Len(slots[dst]) = from
  /\ Splice(src, dst, from, to)

LifecycleStep ==
  \/ Open /\ CoreOnly
  \/ \E s \in Clients : Close(s)
  \/ \E src, dst \in Usable : \E to \in 0 .. MaxSlots :
       \E from \in 0 .. to : src # dst /\ SpliceInPlace(src, dst, from, to) /\ CoreOnly
  \/ \E s \in Usable : \E n \in 0 .. MaxSlots :
       (RegisterPrefix(s, n) \/ RegisterPrefixRefused(s, n)) /\ CoreOnly
  \/ \E x \in prefixes : ReleasePrefix(x) /\ CoreOnly

PrefixUseStep ==
  \E x \in prefixes : \E dst \in Usable :
    \/ SplicePrefixFrom(x, dst) /\ CoreOnly
    \/ Len(slots[dst]) * BlockSize = filled[dst]
       /\ \/ SplicePrefixShifted(x, dst) /\ UNCHANGED <<work, failed>>
          \/ SplicePrefixShiftedTorn(x, dst) /\ failed' = failed \cup {dst} /\ UNCHANGED work

TierStep ==
  \/ \E s \in Usable : \E indices \in SUBSET (1 .. Len(slots[s])) :
       EvictDevice(s, indices) /\ UNCHANGED <<work, failed>>
  \/ \E h \in handles :
       /\ h.session \in Usable
       /\ Current(h)
       /\ \/ RestoreDevice(h.session, h) /\ UNCHANGED failed
          \/ RestoreTorn(h.session, h) /\ failed' = failed \cup {h.session}
       /\ UNCHANGED work
  \/ \E h \in handles : h.session \notin Usable /\ DropDevice(h) /\ UNCHANGED <<work, failed>>

ForwardStep ==
  \/ \E s \in Sessions : \/ StepAppend(s)
                         \/ StepWritable(s)
                         \/ AppendRefused(s)
                         \/ WritableRefused(s)
                         \/ WritableTorn(s)
  \/ StepWrite
  \/ WriteFails

Batches == {sessions \in SUBSET Usable : Cardinality(sessions) \in 1 .. MaxBatch}

ForwardInit == DeviceInit /\ work = NoWork /\ failed = {}

ForwardNext ==
  \/ Idle /\ (LifecycleStep \/ PrefixUseStep \/ TierStep)
  \/ \E sessions \in Batches : \E feed \in [sessions -> Values] : BeginStep(feed)
  \/ ForwardStep

ForwardSpec == ForwardInit /\ [][ForwardNext]_forwardVars

-----------------------------------------------------------------------------
(* Properties. *)

\* The rows of logical slot i of session s, wherever they are: in a block, or
\* saved with the handle that evicted it.
RowsOf(s, i) ==
  IF Resident(s, i) THEN cells[slots[s][i]]
  ELSE saved[CHOOSE h \in handles : h.session = s /\ i \in h.gone][i]

\* What attention reads at position t: a row rotated for another position, or
\* never written, is no value.
ValueAt(s, t) ==
  LET row == RowsOf(s, BlockAt(t))[OffsetAt(t)]
  IN IF row # Blank /\ row[2] = t THEN row[1] ELSE Blank

\* The positions of s whose row the step in progress does not still owe.
Written(s) == IF s = work.current \/ s \in work.grown THEN filled[s] - 1 ELSE filled[s]

\* The sessions that have had no error, and what attention reads of each.
Reliable == opened \ failed
History(s) == IF s \in failed THEN <<>> ELSE [t \in 1 .. Written(s) |-> ValueAt(s, t)]
Histories == [s \in Sessions |-> History(s)]

Logical == INSTANCE LogicalKv WITH live <- Reliable, kv <- Histories

\* The paged store is a store of private histories: whatever is shared, copied
\* on write, evicted, restored or recycled, attention reads through a session's
\* block table exactly the values that session was fed, at their positions.
LogicalKvSpec == Logical!Spec

\* ensure_writable_block's promise: no step writes into a block that more than
\* one reference names, "otherwise decoding a spliced session silently corrupts
\* its co-sharers".
SharedReadOnly ==
  [][\A p \in Blocks : refcount[p] > 1 => cells'[p] = cells[p]]_forwardVars

\* The batched step's pre-check is enough: once a batch has begun, no append and
\* no copy of any of its sessions runs out of blocks, so exhaustion cannot leave
\* the batch partially advanced.
BatchNeverStarved ==
  Cardinality(Stepping) > 1 =>
    /\ work.current = None => \A s \in work.grow : ~OutOfBlocks(s)
    /\ \A s \in Sessions : work.current = s => ~NoBlockToCopyTo(s)
=============================================================================
