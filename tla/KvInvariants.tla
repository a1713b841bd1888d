------------------------------ MODULE KvInvariants ------------------------------
(***************************************************************************)
(* The invariants of the block allocator, and what the layers above it      *)
(* (the paged steps, the histories they store, the scheduler) need of them. *)
(* The proofs of those layers take Sound, Countable, RegistersWhole and      *)
(* AloneCounted as hypotheses; the allocator's own proofs establish them.   *)
(***************************************************************************)
EXTENDS KvBlockPool

Slot == Blocks \cup {Externalized}

Tables == {t \in [Sessions -> Seq(Slot)] : \A s \in Sessions : Len(t[s]) <= MaxSlots}

-----------------------------------------------------------------------------
(* The allocator's inductive invariant. *)

\* The block index.
IndexTypeOK ==
  /\ cached \in [Hashes -> Blocks \cup {None}]
  /\ cached_by_block \in [Blocks -> Hashes \cup {None}]

\* The pool's memory: the parts of TypeOK that allocation and sharing change,
\* with exact counts and a free list that matches them.
Memory ==
  /\ free \subseteq Blocks
  /\ refcount \in [Blocks -> Nat]
  /\ slots \in Tables
  /\ filled \in [Sessions -> Nat]
  /\ RefcountExact
  /\ FreeIffUnreferenced

\* The parts of TypeOK that Memory and IndexTypeOK leave out.
ClientTypeOK ==
  /\ opened \subseteq Sessions
  /\ next_session \in 0 .. MaxSessions
  /\ prefixes \subseteq [owner : Sessions, blocks : Nat]
  /\ handles \subseteq Handle

Counting == ClientTypeOK /\ IndexTypeOK /\ IndexInverse /\ Memory

\* Handles below next_session are spent, a closed session holds nothing, and no
\* two prefixes share an owner.
Ownership ==
  /\ \A s \in opened : s < next_session
  /\ \A s \in Sessions \ opened : slots[s] = <<>> /\ filled[s] = 0
  /\ \A x, y \in prefixes : x.owner = y.owner => x = y
  /\ PrefixWhole

-----------------------------------------------------------------------------
(* What follows from it for whoever uses the allocator. *)

\* A block on the free list is in no table, and a block with one reference is in
\* one slot of one table.
Naming ==
  \A s \in Sessions : \A i \in 1 .. Len(slots[s]) :
    /\ slots[s][i] \notin free
    /\ Resident(s, i) /\ refcount[slots[s][i]] = 1 =>
         \A r \in Sessions : \A j \in 1 .. Len(slots[r]) : slots[r][j] = slots[s][i] => r = s /\ j = i

\* A current handle restores into the slots it took, and leaves the others as
\* they are: its stay entries are already in place.
InPlace ==
  \A h \in handles : Current(h) => \A taken \in TakeFree(h.gone) :
    Placed(h.session, h, taken)
      = [i \in 1 .. Len(slots[h.session]) |-> IF i \in h.gone THEN taken[i] ELSE slots[h.session][i]]

Sound == Counting /\ Naming /\ InPlace

PoolInv == Sound /\ Ownership /\ FillFitsBlocks

\* The owner that register_prefix opens holds n full blocks.
RegistersWhole ==
  \A d \in Sessions : \A n \in Nat : RegisterPrefix(d, n) =>
    /\ next_session \in Sessions /\ next_session \notin opened
    /\ Len(slots'[next_session]) = n
    /\ \A i \in 1 .. n : i \in 1 .. Len(slots'[next_session]) /\ slots'[next_session][i] \in Blocks
    /\ filled'[next_session] = n * BlockSize
    /\ \A t \in Sessions \ {next_session} : slots'[t] = slots[t] /\ filled'[t] = filled[t]

\* Subsets of a finite set are counted: only the empty set counts 0, an element
\* fewer is one less, and a subset counts no more.
Countable(S) ==
  \A A \in SUBSET S :
    /\ Cardinality(A) \in Nat
    /\ Cardinality(A) = 0 <=> A = {}
    /\ \A B \in SUBSET A : Cardinality(B) <= Cardinality(A)
    /\ \A x \in A : Cardinality(A \ {x}) = Cardinality(A) - 1 /\ Cardinality({x}) = 1

\* No other slot of any table names the block of slot i of s.
Alone(s, i) == \A r \in Sessions : \A j \in 1 .. Len(slots[r]) : slots[r][j] = slots[s][i] => r = s /\ j = i

\* A block that one slot names and the index does not hold has one reference.
AloneCounted ==
  \A s \in Sessions : \A i \in 1 .. Len(slots[s]) :
    Resident(s, i) /\ cached_by_block[slots[s][i]] = None /\ Alone(s, i) => refcount[slots[s][i]] = 1
=============================================================================
