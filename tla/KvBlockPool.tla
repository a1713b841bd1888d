------------------------------- MODULE KvBlockPool -------------------------------
(***************************************************************************)
(* The KV block-pool allocator of fuel-kv-pool: physical blocks with        *)
(* reference counts, one block table per session, reversible eviction,      *)
(* copy-on-write sharing, registered prefixes and the content-addressed     *)
(* index over full blocks.                                                  *)
(*                                                                         *)
(* Every public operation of KvBlockPool that changes state is one action.  *)
(* A refused call (Err) leaves the pool as it was and is the absence of the *)
(* action, except register_prefix, whose refusal still burns a handle.      *)
(* Logical slots are counted from 1 here and from 0 in the code.            *)
(*                                                                         *)
(* The free list is a set: the code pops the last element of a Vec whose    *)
(* "order is irrelevant to correctness", the model takes any free block.    *)
(***************************************************************************)
EXTENDS Integers, Sequences, FiniteSets, Functions

CONSTANTS
  Blocks,        \* physical block ids, 0 .. num_blocks - 1 in the code
  BlockSize,     \* tokens per block
  Hashes,        \* keys a caller may commit a block under
  Externalized,  \* the Slot::Externalized marker
  None,          \* an absent HashMap entry
  MaxSessions,   \* bound: session handles ever minted
  MaxSlots,      \* bound: logical blocks of one session
  MaxFilled,     \* bound: tokens of one session
  MaxHandles     \* bound: eviction handles outstanding at a time

ASSUME BlocksAssumption == IsFiniteSet(Blocks) /\ Externalized \notin Blocks
ASSUME BlockSizeAssumption == BlockSize \in Nat \ {0}
ASSUME HashesAssumption == None \notin Blocks /\ None \notin Hashes
ASSUME BoundsAssumption == /\ MaxSessions \in Nat
                           /\ MaxSlots \in Nat
                           /\ MaxFilled \in Nat
                           /\ MaxHandles \in Nat

VARIABLES
  free,            \* physical blocks on the free list
  refcount,        \* references to each physical block
  opened,          \* sessions with a block table
  slots,           \* each session's logical-to-physical map
  filled,          \* each session's filled_tokens
  next_session,    \* the next handle to mint
  prefixes,        \* registered prefixes, each known by its owner session
  cached,          \* block index: hash to block
  cached_by_block, \* block index: block to hash
  handles          \* Externalized values the clients hold

tableVars == <<opened, slots, filled, next_session>>
indexVars == <<cached, cached_by_block>>
vars == <<free, refcount, tableVars, prefixes, indexVars, handles>>

Sessions == 0 .. MaxSessions - 1

-----------------------------------------------------------------------------
(* Helpers. *)

\* Mutant: rounds down.
BlocksForFloor(tokens) == tokens \div BlockSize

BlocksFor(tokens) == (tokens + BlockSize - 1) \div BlockSize

Saturating(n) == IF n < 0 THEN 0 ELSE n

Least(a, b) == IF a < b THEN a ELSE b

Owners == {x.owner : x \in prefixes}

\* The handles a client can hold: an owner's handle never leaves the pool.
Clients == opened \ Owners

Resident(s, i) == i \in 1 .. Len(slots[s]) /\ slots[s][i] \in Blocks

\* Distinct blocks off the free list, one for each index.
TakeFree(indices) == Injection(indices, free)

\* How often block p occurs in a sequence of blocks.
Occurrences(seq, p) == Cardinality({i \in DOMAIN seq : seq[i] = p})

\* Blocks leave the free list with one reference each.
Allocate(taken) ==
  /\ free' = free \ taken
  /\ refcount' = [p \in Blocks |-> IF p \in taken THEN 1 ELSE refcount[p]]

\* Mutant: blocks are shared without counting the new references.
AddReferencesForgotten(seq) == UNCHANGED refcount

\* Each block gains one reference per occurrence in seq.
AddReferences(seq) ==
  refcount' = [p \in Blocks |-> refcount[p] + Occurrences(seq, p)]

\* Mutant: a count that reaches 0 is not returned to the free list.
DropReferencesLeaking(seq) ==
  /\ refcount' = [p \in Blocks |-> refcount[p] - Occurrences(seq, p)]
  /\ UNCHANGED free

\* The decrement-and-free loop: a count that reaches 0 frees the block.
DropReferences(seq) ==
  /\ refcount' = [p \in Blocks |-> refcount[p] - Occurrences(seq, p)]
  /\ free' = free \cup {p \in Blocks : Occurrences(seq, p) > 0 /\ refcount'[p] = 0}

\* Blocks and tokens appended at the end of a session's table.
Extend(s, seq, tokens) ==
  /\ Len(slots[s]) + Len(seq) <= MaxSlots
  /\ filled[s] + tokens <= MaxFilled
  /\ slots' = [slots EXCEPT ![s] = @ \o seq]
  /\ filled' = [filled EXCEPT ![s] = @ + tokens]

Forget(s) ==
  /\ opened' = opened \ {s}
  /\ slots' = [slots EXCEPT ![s] = <<>>]
  /\ filled' = [filled EXCEPT ![s] = 0]
  /\ UNCHANGED next_session

-----------------------------------------------------------------------------
(* Session lifecycle. *)

Init ==
  /\ free = Blocks
  /\ refcount = [p \in Blocks |-> 0]
  /\ opened = {}
  /\ slots = [s \in Sessions |-> <<>>]
  /\ filled = [s \in Sessions |-> 0]
  /\ next_session = 0
  /\ prefixes = {}
  /\ cached = [h \in Hashes |-> None]
  /\ cached_by_block = [p \in Blocks |-> None]
  /\ handles = {}

MintSession ==
  /\ next_session < MaxSessions
  /\ next_session' = next_session + 1

Open ==
  /\ MintSession
  /\ opened' = opened \cup {next_session}
  /\ UNCHANGED <<free, refcount, slots, filled, prefixes, indexVars, handles>>

AppendTokens(s, tokens) ==
  LET new == Saturating(BlocksFor(filled[s] + tokens) - Len(slots[s])) IN
  /\ s \in Clients
  /\ new <= Cardinality(free)
  /\ \E taken \in TakeFree(1 .. new) : /\ Allocate(Range(taken))
                                  /\ Extend(s, taken, tokens)
  /\ UNCHANGED <<opened, next_session, prefixes, indexVars, handles>>

Discard(s) ==
  /\ s \in Clients
  /\ DropReferences(slots[s])
  /\ Forget(s)
  /\ UNCHANGED <<prefixes, indexVars, handles>>

-----------------------------------------------------------------------------
(* Eviction. *)

\* Mutants: detaches shared blocks; detaches a prefix owner's blocks.
DetachableShared(s, i) == Resident(s, i) /\ s \notin Owners
DetachableOwner(s, i) == Resident(s, i) /\ refcount[slots[s][i]] = 1

\* evict_blocks detaches exactly the exclusive blocks of a session that is not
\* a prefix owner.
Detachable(s, i) == Resident(s, i) /\ refcount[slots[s][i]] = 1 /\ s \notin Owners

\* evict and evict_range are evict_blocks over all slots and over a range.
EvictBlocks(s, indices) ==
  LET gone == {i \in indices : Detachable(s, i)}
      stay == {i \in indices : Resident(s, i) /\ ~Detachable(s, i)}
      lost == {slots[s][i] : i \in gone}
  IN
  /\ s \in opened
  /\ indices \subseteq 1 .. Len(slots[s])
  /\ Cardinality(handles) < MaxHandles
  /\ refcount' = [p \in Blocks |-> IF p \in lost THEN 0 ELSE refcount[p]]
  /\ free' = free \cup lost
  /\ slots' = [slots EXCEPT ![s] =
                 [i \in 1 .. Len(slots[s]) |-> IF i \in gone THEN Externalized ELSE slots[s][i]]]
  /\ handles' = handles \cup
       {[session |-> s, gone |-> gone, stay |-> {<<i, slots[s][i]>> : i \in stay}]}
  /\ UNCHANGED <<opened, filled, next_session, prefixes, indexVars>>

\* place_resident_slot over both loops of restore: a freed slot gets a fresh
\* block, a shared one the block it named at eviction. The table is grown with
\* Externalized slots when a handle reaches past its end.
Placed(s, h, taken) ==
  LET at == h.gone \cup {r[1] : r \in h.stay}
      reach == {Len(slots[s])} \cup at
      end == CHOOSE n \in reach : \A m \in reach : m <= n
  IN [i \in 1 .. end |->
        IF \E r \in h.stay : r[1] = i THEN (CHOOSE r \in h.stay : r[1] = i)[2]
        ELSE IF i \in h.gone THEN taken[i]
        ELSE IF i <= Len(slots[s]) THEN slots[s][i]
        ELSE Externalized]

\* Mutant: also bumps the counts of the blocks that never left.
RestoreRereferencing(s, h) ==
  /\ s \in opened
  /\ h \in handles
  /\ Cardinality(h.gone) <= Cardinality(free)
  /\ \E taken \in TakeFree(h.gone) :
       /\ free' = free \ Range(taken)
       /\ refcount' = [p \in Blocks |-> IF p \in Range(taken) THEN 1
                                       ELSE refcount[p] + Cardinality({r \in h.stay : r[2] = p})]
       /\ slots' = [slots EXCEPT ![s] = Placed(s, h, taken)]
  /\ handles' = handles \ {h}
  /\ UNCHANGED <<opened, filled, next_session, prefixes, indexVars>>

Restore(s, h) ==
  /\ s \in opened
  /\ h \in handles
  /\ Cardinality(h.gone) <= Cardinality(free)
  /\ \E taken \in TakeFree(h.gone) :
       /\ Allocate(Range(taken))
       /\ slots' = [slots EXCEPT ![s] = Placed(s, h, taken)]
  /\ handles' = handles \ {h}
  /\ UNCHANGED <<opened, filled, next_session, prefixes, indexVars>>

\* The client lets a handle go; the code has no other trace of it.
DropHandle(h) ==
  /\ h \in handles
  /\ handles' = handles \ {h}
  /\ UNCHANGED <<free, refcount, tableVars, prefixes, indexVars>>

\* A handle describes its session as it is now: what the handle took is still
\* missing and what it left is still where it was.
Current(h) ==
  /\ h.session \in opened
  /\ \A i \in h.gone : i \in 1 .. Len(slots[h.session]) /\ slots[h.session][i] = Externalized
  /\ \A r \in h.stay : r[1] \in 1 .. Len(slots[h.session]) /\ slots[h.session][r[1]] = r[2]

-----------------------------------------------------------------------------
(* Copy-on-write sharing. *)

\* The blocks of logical slots from + 1 .. to, defined when all are resident.
Collected(src, from, to) == [k \in 1 .. to - from |-> slots[src][from + k]]

SpliceRange(src, from, to) ==
  /\ from \in 0 .. to
  /\ to <= Len(slots[src])
  /\ \A i \in from + 1 .. to : Resident(src, i)

SharedTokens(src, from, to) ==
  Least((to - from) * BlockSize, Saturating(filled[src] - from * BlockSize))

Share(src, dst, from, to) ==
  /\ SpliceRange(src, from, to)
  /\ AddReferences(Collected(src, from, to))
  /\ Extend(dst, Collected(src, from, to), SharedTokens(src, from, to))
  /\ UNCHANGED free

Splice(src, dst, from, to) ==
  /\ src \in Clients
  /\ dst \in Clients
  /\ Share(src, dst, from, to)
  /\ UNCHANGED <<opened, next_session, prefixes, indexVars, handles>>

\* Mutants: the exclusive case is not recognised; the old block keeps its count.
CowBreakAlways(s, i) ==
  /\ s \in Clients
  /\ Resident(s, i)
  /\ \E q \in free :
       /\ free' = free \ {q}
       /\ refcount' = [refcount EXCEPT ![q] = 1, ![slots[s][i]] = @ - 1]
       /\ slots' = [slots EXCEPT ![s][i] = q]
  /\ UNCHANGED <<opened, filled, next_session, prefixes, indexVars, handles>>
CowBreakKeeping(s, i) ==
  /\ s \in Clients
  /\ Resident(s, i)
  /\ refcount[slots[s][i]] > 1
  /\ \E q \in free :
       /\ free' = free \ {q}
       /\ refcount' = [refcount EXCEPT ![q] = 1]
       /\ slots' = [slots EXCEPT ![s][i] = q]
  /\ UNCHANGED <<opened, filled, next_session, prefixes, indexVars, handles>>

\* An exclusive slot is returned as it is; a shared one moves to a fresh block.
CowBreak(s, i) ==
  /\ s \in Clients
  /\ Resident(s, i)
  /\ refcount[slots[s][i]] > 1
  /\ \E q \in free :
       /\ free' = free \ {q}
       /\ refcount' = [refcount EXCEPT ![q] = 1, ![slots[s][i]] = @ - 1]
       /\ slots' = [slots EXCEPT ![s][i] = q]
  /\ UNCHANGED <<opened, filled, next_session, prefixes, indexVars, handles>>

\* Mutant: a partly filled last block is accepted.
FullPrefixPartial(src, n) == n <= Len(slots[src])

\* splice_prefix's preconditions on the donor.
FullPrefix(src, n) ==
  /\ n <= Len(slots[src])
  /\ n * BlockSize <= filled[src]

SplicePrefix(src, dst, n) ==
  /\ src \in opened
  /\ dst \in Clients
  /\ slots[dst] = <<>>
  /\ FullPrefix(src, n)
  /\ Share(src, dst, 0, n)
  /\ UNCHANGED <<opened, next_session, prefixes, indexVars, handles>>

-----------------------------------------------------------------------------
(* Registered prefixes. *)

RegisterPrefix(donor, n) ==
  /\ donor \in Clients
  /\ FullPrefix(donor, n)
  /\ MintSession
  /\ Share(donor, next_session, 0, n)
  /\ opened' = opened \cup {next_session}
  /\ prefixes' = prefixes \cup {[owner |-> next_session, blocks |-> n]}
  /\ UNCHANGED <<indexVars, handles>>

\* The owner opened for a refused registration is discarded; its handle is spent.
RegisterPrefixRefused(donor, n) ==
  /\ donor \in 0 .. next_session - 1
  /\ donor \notin Owners
  /\ ~(donor \in opened /\ FullPrefix(donor, n) /\ SpliceRange(donor, 0, n))
  /\ MintSession
  /\ UNCHANGED <<free, refcount, opened, slots, filled, prefixes, indexVars, handles>>

ReleasePrefix(x) ==
  /\ x \in prefixes
  /\ prefixes' = prefixes \ {x}
  /\ DropReferences(slots[x.owner])
  /\ Forget(x.owner)
  /\ UNCHANGED <<indexVars, handles>>

SplicePrefixFrom(x, dst) ==
  /\ x \in prefixes
  /\ SplicePrefix(x.owner, dst, x.blocks)

\* Fresh copy targets behind a block-aligned dst, one per prefix block.
AllocShiftedPrefixSlots(x, dst) ==
  /\ x \in prefixes
  /\ dst \in Clients
  /\ filled[dst] % BlockSize = 0
  /\ x.blocks * BlockSize <= filled[x.owner]
  /\ x.blocks <= Cardinality(free)
  /\ \E taken \in TakeFree(1 .. x.blocks) : /\ Allocate(Range(taken))
                                            /\ Extend(dst, taken, x.blocks * BlockSize)
  /\ UNCHANGED <<opened, next_session, prefixes, indexVars, handles>>

-----------------------------------------------------------------------------
(* The content-addressed block index. *)

\* Mutant: a block already cached is registered again under another hash.
CommitBlockTwice(s, i, h) ==
  LET p == slots[s][i] IN
  /\ s \in Clients
  /\ Resident(s, i)
  /\ filled[s] >= i * BlockSize
  /\ cached[h] = None
  /\ refcount' = [refcount EXCEPT ![p] = @ + 1]
  /\ cached' = [cached EXCEPT ![h] = p]
  /\ cached_by_block' = [cached_by_block EXCEPT ![p] = h]
  /\ UNCHANGED <<free, tableVars, prefixes, handles>>

\* commit_block's Ok(true); a hash or a block already cached is left alone.
CommitBlock(s, i, h) ==
  LET p == slots[s][i] IN
  /\ s \in Clients
  /\ Resident(s, i)
  /\ filled[s] >= i * BlockSize
  /\ cached[h] = None
  /\ cached_by_block[p] = None
  /\ refcount' = [refcount EXCEPT ![p] = @ + 1]
  /\ cached' = [cached EXCEPT ![h] = p]
  /\ cached_by_block' = [cached_by_block EXCEPT ![p] = h]
  /\ UNCHANGED <<free, tableVars, prefixes, handles>>

\* lookup_chain finds n blocks: the leading hashes are cached, up to a miss.
Hits(hashes, n) ==
  /\ \A k \in 1 .. n : cached[hashes[k]] # None
  /\ n < Len(hashes) => cached[hashes[n + 1]] = None

\* Attach run to the empty session dst.
Attach(dst, run) ==
  /\ Len(run) <= MaxSlots
  /\ Len(run) * BlockSize <= MaxFilled
  /\ AddReferences(run)
  /\ slots' = [slots EXCEPT ![dst] = run]
  /\ filled' = [filled EXCEPT ![dst] = Len(run) * BlockSize]

SpliceCachedChain(dst, hashes) ==
  /\ dst \in Clients
  /\ slots[dst] = <<>>
  /\ \E n \in 0 .. Len(hashes) : Hits(hashes, n) /\ Attach(dst, [k \in 1 .. n |-> cached[hashes[k]]])
  /\ UNCHANGED <<free, opened, next_session, prefixes, indexVars, handles>>

ReleaseCached(h) ==
  /\ cached[h] # None
  /\ DropReferences(<<cached[h]>>)
  /\ cached_by_block' = [cached_by_block EXCEPT ![cached[h]] = None]
  /\ cached' = [cached EXCEPT ![h] = None]
  /\ UNCHANGED <<tableVars, prefixes, handles>>

-----------------------------------------------------------------------------
(* Specifications. *)

Chains == UNION {[1 .. n -> Hashes] : n \in 0 .. MaxSlots}

SessionStep ==
  \/ Open
  \/ \E s \in Sessions : \/ \E n \in 1 .. MaxFilled : AppendTokens(s, n)
                         \/ Discard(s)
                         \/ \E indices \in SUBSET (1 .. Len(slots[s])) : EvictBlocks(s, indices)

ShareStep ==
  \/ \E src, dst \in Sessions : \E to \in 0 .. MaxSlots :
       \/ \E from \in 0 .. to : Splice(src, dst, from, to)
       \/ SplicePrefix(src, dst, to)
  \/ \E s \in Sessions : \E i \in 1 .. MaxSlots : CowBreak(s, i)

PrefixStep ==
  \/ \E s \in Sessions : \E n \in 0 .. MaxSlots : RegisterPrefix(s, n) \/ RegisterPrefixRefused(s, n)
  \/ \E x \in prefixes : \/ ReleasePrefix(x)
                         \/ \E dst \in Sessions : \/ SplicePrefixFrom(x, dst)
                                                  \/ AllocShiftedPrefixSlots(x, dst)

IndexStep ==
  \/ \E s \in Sessions : \E i \in 1 .. MaxSlots : \E h \in Hashes : CommitBlock(s, i, h)
  \/ \E s \in Sessions : \E hashes \in Chains : SpliceCachedChain(s, hashes)
  \/ \E h \in Hashes : ReleaseCached(h)

PoolStep == SessionStep \/ ShareStep \/ PrefixStep \/ IndexStep \/ \E h \in handles : DropHandle(h)

\* Clients restore a handle only while it is current, as PagedSessionScheduler does.
Next == PoolStep \/ \E h \in handles : Current(h) /\ Restore(h.session, h)

\* Clients restore any handle they hold, which the code accepts.
AnyRestoreNext == PoolStep \/ \E h \in handles : Restore(h.session, h)

Spec == Init /\ [][Next]_vars

AnyRestoreSpec == Init /\ [][AnyRestoreNext]_vars

-----------------------------------------------------------------------------
(* Properties. *)

Handle == [session : Sessions,
           gone : SUBSET (1 .. MaxSlots),
           stay : SUBSET ((1 .. MaxSlots) \X Blocks)]

\* Every part of the pool has its type.
TypeOK ==
  /\ free \subseteq Blocks
  /\ refcount \in [Blocks -> Nat]
  /\ opened \subseteq Sessions
  /\ slots \in [Sessions -> Seq(Blocks \cup {Externalized})]
  /\ \A s \in Sessions : Len(slots[s]) <= MaxSlots
  /\ filled \in [Sessions -> Nat]
  /\ next_session \in 0 .. MaxSessions
  /\ prefixes \subseteq [owner : Sessions, blocks : Nat]
  /\ cached \in [Hashes -> Blocks \cup {None}]
  /\ cached_by_block \in [Blocks -> Hashes \cup {None}]
  /\ handles \subseteq Handle

\* The slots, over all sessions, that reference block p.
References(p) ==
  {r \in Sessions \X (1 .. MaxSlots) : r[2] <= Len(slots[r[1]]) /\ slots[r[1]][r[2]] = p}

IndexReferences(p) == IF cached_by_block[p] = None THEN 0 ELSE 1

\* A block's count is the number of session slots that name it, plus the one
\* reference the index holds on a cached block, after any interleaving of
\* append, evict, restore, splice, cow_break, register/release and commit.
RefcountExact ==
  \A p \in Blocks : refcount[p] = Cardinality(References(p)) + IndexReferences(p)

\* No block leaks and none is handed out while referenced: a block is on the
\* free list exactly when its count is 0.
FreeIffUnreferenced ==
  \A p \in Blocks : p \in free <=> refcount[p] = 0

\* A registered prefix stays whole until it is released: its owner is open, has
\* exactly its blocks, all resident and all full. This is what the expect in
\* alloc_shifted_prefix_slots and splice_prefix_from's "already fully-filled by
\* construction" rely on.
PrefixWhole ==
  \A x \in prefixes :
    /\ x.owner \in opened
    /\ Len(slots[x.owner]) = x.blocks
    /\ \A i \in 1 .. x.blocks : Resident(x.owner, i)
    /\ filled[x.owner] = x.blocks * BlockSize

\* The two maps of the block index stay inverse to each other, so that a block
\* is cached under at most one hash and releasing a hash forgets its block.
IndexInverse ==
  /\ \A h \in Hashes : cached[h] # None => cached_by_block[cached[h]] = h
  /\ \A p \in Blocks : cached_by_block[p] # None => cached[cached_by_block[p]] = p

\* A session's tokens always fit in the blocks of its table, however append,
\* splice, shifted allocation and chain splicing are mixed.
FillFitsBlocks ==
  \A s \in Sessions : filled[s] <= Len(slots[s]) * BlockSize

\* What a step may do to a resident slot of a session that stays open: leave it,
\* detach an exclusive block of a session that owns no prefix, or move it off a
\* shared block onto one that was free. Sharers are never disturbed.
SlotMoves ==
  [][\A s \in opened \cap opened' : \A i \in 1 .. Len(slots[s]) :
       slots[s][i] \in Blocks /\ slots'[s][i] # slots[s][i] =>
         IF slots'[s][i] = Externalized
         THEN refcount[slots[s][i]] = 1 /\ s \notin Owners
         ELSE refcount[slots[s][i]] > 1 /\ slots'[s][i] \in free]_vars
=============================================================================
