------------------------------- MODULE PagedFacts -------------------------------
(***************************************************************************)
(* The invariant of the paged forward passes, and the facts that the proofs *)
(* about the steps, the stored histories and the scheduler share: where a   *)
(* position lives, who names a block, and what each operation does to the   *)
(* tables and to the bytes.                                                 *)
(***************************************************************************)
EXTENDS PagedForward, KvInvariants, TLAPS

-----------------------------------------------------------------------------
(* Sequences. *)

LEMMA SeqTyped ==
  ASSUME NEW S, NEW q \in Seq(S)
  PROVE  /\ Len(q) \in Nat /\ DOMAIN q = 1 .. Len(q) /\ \A i \in 1 .. Len(q) : q[i] \in S
         /\ Len(q) = 0 <=> q = <<>>
OBVIOUS

LEMMA SeqSame ==
  ASSUME NEW S, NEW q \in Seq(S), NEW r \in Seq(S), Len(q) = Len(r), \A i \in 1 .. Len(q) : q[i] = r[i]
  PROVE  q = r
OBVIOUS

LEMMA SeqJoined ==
  ASSUME NEW S, NEW q \in Seq(S), NEW r \in Seq(S)
  PROVE  /\ q \o r \in Seq(S) /\ Len(q \o r) = Len(q) + Len(r)
         /\ \A i \in 1 .. Len(q) + Len(r) : (q \o r)[i] = IF i <= Len(q) THEN q[i] ELSE r[i - Len(q)]
OBVIOUS

LEMMA SeqUnit ==
  ASSUME NEW S, NEW q \in Seq(S)
  PROVE  q \o <<>> = q /\ <<>> \o q = q /\ \A e \in S : Append(q, e) = q \o <<e>>
OBVIOUS

LEMMA SeqPart ==
  ASSUME NEW S, NEW q, NEW m \in Int, NEW n \in Int, \A i \in m .. n : q[i] \in S
  PROVE  /\ SubSeq(q, m, n) \in Seq(S)
         /\ Len(SubSeq(q, m, n)) = IF m <= n THEN n - m + 1 ELSE 0
         /\ \A i \in 1 .. n - m + 1 : SubSeq(q, m, n)[i] = q[m + i - 1]
OBVIOUS

-----------------------------------------------------------------------------
(* The tables. *)

LEMMA PoolTypes ==
  ASSUME Sound
  PROVE  /\ slots \in Tables /\ slots \in [Sessions -> Seq(Slot)]
         /\ filled \in [Sessions -> Nat] /\ refcount \in [Blocks -> Nat]
         /\ free \subseteq Blocks /\ opened \subseteq Sessions /\ Clients \subseteq Sessions
         /\ Sessions \subseteq Nat /\ next_session \in Nat
         /\ handles \subseteq Handle
         /\ \A x \in prefixes : x.owner \in Sessions /\ x.blocks \in Nat
         /\ \A s \in Sessions : Len(slots[s]) \in Nat /\ Len(slots[s]) <= MaxSlots
<1>1. /\ slots \in Tables /\ slots \in [Sessions -> Seq(Slot)]
      /\ filled \in [Sessions -> Nat] /\ refcount \in [Blocks -> Nat] /\ free \subseteq Blocks
      /\ \A s \in Sessions : Len(slots[s]) \in Nat /\ Len(slots[s]) <= MaxSlots
  BY SeqTyped DEF Sound, Counting, Memory, Tables
<1>2. /\ opened \subseteq Sessions /\ Clients \subseteq Sessions /\ handles \subseteq Handle
      /\ next_session \in 0 .. MaxSessions
      /\ \A x \in prefixes : x.owner \in Sessions /\ x.blocks \in Nat
  BY DEF Sound, Counting, ClientTypeOK, Clients
<1>3. Sessions \subseteq Nat /\ next_session \in Nat
  BY <1>2, BoundsAssumption DEF Sessions
<1>. QED BY <1>1, <1>2, <1>3

-----------------------------------------------------------------------------
(* Positions and blocks. *)

\* A position is its block and its offset in it.
LEMMA PositionSplit ==
  ASSUME NEW t \in Nat \ {0}
  PROVE  /\ BlockAt(t) \in Nat \ {0} /\ OffsetAt(t) \in Offsets
         /\ t = (BlockAt(t) - 1) * BlockSize + OffsetAt(t)
<1>. DEFINE q == (t - 1) \div BlockSize
            r == (t - 1) % BlockSize
<1>1. BlockSize \in Nat \ {0} /\ t - 1 \in Nat
  BY BlockSizeAssumption
<1>2. q \in Nat /\ r \in 0 .. BlockSize - 1 /\ t - 1 = q * BlockSize + r
  BY <1>1, SMTT(30)
<1>3. BlockAt(t) = q + 1 /\ OffsetAt(t) = r + 1
  BY DEF BlockAt, OffsetAt
<1>. HIDE DEF q, r
<1>4. q * BlockSize \in Nat /\ (q + 1) - 1 = q
  BY <1>1, <1>2
<1>. QED BY <1>1, <1>2, <1>3, <1>4 DEF Offsets

\* Multiples of the block size are ordered as their factors are.
LEMMA BlocksOrdered ==
  ASSUME NEW a \in Int, NEW b \in Int
  PROVE  /\ a * BlockSize \in Int
         /\ a <= b => a * BlockSize <= b * BlockSize
         /\ a < b => a * BlockSize + BlockSize <= b * BlockSize
<1>1. BlockSize \in Nat \ {0}
  BY BlockSizeAssumption
<1>2. a * BlockSize \in Int /\ b * BlockSize \in Int
  BY <1>1
<1>3. ASSUME a <= b PROVE a * BlockSize <= b * BlockSize
  <2>1. (b - a) * BlockSize >= 0
    BY <1>1, <1>3, SMTT(30)
  <2>2. (b - a) * BlockSize = b * BlockSize - a * BlockSize
    BY <1>1
  <2>. QED BY <1>2, <2>1, <2>2
<1>4. ASSUME a < b PROVE a * BlockSize + BlockSize <= b * BlockSize
  <2>1. (b - a - 1) * BlockSize >= 0
    BY <1>1, <1>4, SMTT(30)
  <2>2. (b - a - 1) * BlockSize = b * BlockSize - a * BlockSize - BlockSize
    BY <1>1
  <2>. QED BY <1>1, <1>2, <2>1, <2>2
<1>. QED BY <1>2, <1>3, <1>4

\* The blocks from + 1 .. to hold the positions behind from * BlockSize.
LEMMA BlockRange ==
  ASSUME NEW t \in Nat \ {0}, NEW from \in Nat, NEW to \in Nat
  PROVE  /\ t <= to * BlockSize => BlockAt(t) <= to
         /\ t > from * BlockSize => BlockAt(t) > from
         /\ BlockAt(t) <= to => t <= to * BlockSize
<1>. DEFINE b == BlockAt(t)
            o == OffsetAt(t)
<1>1. b \in Nat \ {0} /\ o \in 1 .. BlockSize /\ t = (b - 1) * BlockSize + o
  BY PositionSplit DEF Offsets
<1>2. BlockSize \in Nat \ {0}
  BY BlockSizeAssumption
<1>. HIDE DEF b, o
<1>3. /\ (b - 1) * BlockSize \in Int /\ to * BlockSize \in Int /\ from * BlockSize \in Int
      /\ to <= b - 1 => to * BlockSize <= (b - 1) * BlockSize
      /\ b - 1 < from => (b - 1) * BlockSize + BlockSize <= from * BlockSize
      /\ b - 1 < to => (b - 1) * BlockSize + BlockSize <= to * BlockSize
  BY <1>1, BlocksOrdered
<1>. QED BY <1>1, <1>2, <1>3 DEF b

\* The block of a position is the number of blocks the tokens up to it take.
LEMMA BlockAtIsBlocksFor ==
  ASSUME NEW t \in Nat \ {0}
  PROVE  BlocksFor(t) = BlockAt(t)
<1>1. BlockSize \in Nat \ {0} /\ t - 1 \in Nat /\ t + BlockSize - 1 = (t - 1) + BlockSize
  BY BlockSizeAssumption
<1>. DEFINE n == t - 1
<1>2. (n + BlockSize) \div BlockSize = n \div BlockSize + 1
  <2>. HIDE DEF n
  <2>1. n \in Nat
    BY <1>1 DEF n
  <2>. QED BY <1>1, <2>1, SMTT(30)
<1>. QED BY <1>1, <1>2 DEF BlocksFor, BlockAt

\* A table that holds its fill grows by at most one block for one more token,
\* and by one only when the fill ends at a block boundary.
LEMMA OneMoreBlock ==
  ASSUME NEW n \in Nat, NEW len \in Nat, n <= len * BlockSize
  PROVE  /\ BlocksFor(n + 1) <= len + 1
         /\ BlocksFor(n + 1) \in Nat
         /\ BlocksFor(n + 1) > len => n % BlockSize = 0 /\ BlockAt(n + 1) = len + 1
<1>1. n + 1 \in Nat \ {0} /\ BlockSize \in Nat \ {0} /\ len + 1 \in Nat
  BY BlockSizeAssumption
<1>2. len * BlockSize + BlockSize <= (len + 1) * BlockSize /\ (len + 1) * BlockSize \in Int /\ len * BlockSize \in Int
  BY <1>1, BlocksOrdered
<1>3. BlocksFor(n + 1) = BlockAt(n + 1) /\ BlockAt(n + 1) \in Nat \ {0}
  BY <1>1, BlockAtIsBlocksFor, PositionSplit
<1>4. BlockAt(n + 1) <= len + 1
  BY <1>1, <1>2, BlockRange
<1>5. ASSUME BlockAt(n + 1) > len PROVE n % BlockSize = 0
  <2>1. BlockAt(n + 1) = len + 1
    BY <1>1, <1>3, <1>4, <1>5
  <2>2. n = (n \div BlockSize) * BlockSize + (n % BlockSize) /\ n % BlockSize \in 0 .. BlockSize - 1
    BY <1>1, SMTT(30)
  <2>3. n \div BlockSize = len
    BY <1>1, <2>1 DEF BlockAt
  <2>. QED BY <1>2, <2>2, <2>3
<1>. QED BY <1>3, <1>4, <1>5

-----------------------------------------------------------------------------
(* Who names a block. *)

\* A block on the free list is in no table.
LEMMA FreeUnnamed ==
  ASSUME Sound, NEW p \in free, NEW s \in Sessions, NEW i \in 1 .. Len(slots[s])
  PROVE  slots[s][i] # p
BY DEF Sound, Naming

\* A block that is named is counted.
LEMMA NamedCounted ==
  ASSUME Sound, NEW s \in Sessions, NEW i, Resident(s, i)
  PROVE  slots[s][i] \in Blocks /\ refcount[slots[s][i]] >= 1 /\ slots[s][i] \notin free
<1>1. slots[s][i] \in Blocks /\ i \in 1 .. Len(slots[s])
  BY DEF Resident
<1>2. slots[s][i] \notin free
  BY <1>1, FreeUnnamed
<1>. QED BY <1>1, <1>2, PoolTypes DEF Sound, Counting, Memory, FreeIffUnreferenced

\* A block with one reference is in one slot of one table.
LEMMA ExclusiveSlot ==
  ASSUME Sound, NEW s \in Sessions, NEW i, Resident(s, i), refcount[slots[s][i]] = 1,
         NEW r \in Sessions, NEW j \in 1 .. Len(slots[r]), slots[r][j] = slots[s][i]
  PROVE  r = s /\ j = i
<1>1. i \in 1 .. Len(slots[s])
  BY DEF Resident
<1>. QED BY <1>1 DEF Sound, Naming

-----------------------------------------------------------------------------
(* The step in progress. *)

\* A step works on usable sessions, each still to grow, being grown or grown; a
\* grown one has its own block to write its row into. Errors are reported to
\* clients, never to a prefix's owner.
StepInv ==
  /\ failed \subseteq Clients
  /\ work \in [grow : SUBSET Sessions, current : Sessions \cup {None}, grown : SUBSET Sessions,
               feed : {work.feed}]
  /\ Stepping = work.grow \cup work.grown \cup ({work.current} \ {None})
  /\ work.grow \cap work.grown = {} /\ work.current \notin work.grow \cup work.grown
  /\ Stepping \subseteq Usable
  /\ \A s \in Stepping : work.feed[s] \in Values
  /\ Stepping = {} => Idle
  /\ \A s \in Stepping \ work.grow : filled[s] > 0
  /\ \A s \in work.grown : /\ Resident(s, BlockAt(filled[s]))
                           /\ refcount[slots[s][BlockAt(filled[s])]] = 1

LEMMA StepFacts ==
  ASSUME Sound, StepInv
  PROVE  /\ Stepping \subseteq Sessions /\ Usable \subseteq Sessions
         /\ None \notin Stepping
         /\ Idle => Stepping = {} /\ work.grow = {} /\ work.grown = {} /\ work.current = None
         /\ \A s \in Sessions : work.current = s => s \in Stepping /\ s \in Usable /\ filled[s] > 0
         /\ \A s \in work.grow : s \in Stepping /\ s \in Usable
         /\ \A s \in work.grown : s \in Stepping /\ s \in Usable /\ filled[s] > 0
<1>1. Usable \subseteq Sessions
  BY PoolTypes DEF Usable
<1>2. Idle => work.grow = {} /\ work.grown = {} /\ work.current = None
  BY DEF Idle, NoWork
<1>. QED BY <1>1, <1>2, StepAssumption DEF StepInv

-----------------------------------------------------------------------------
(* What the allocator's operations do to the tables. *)

\* restore of a current handle puts a fresh block of its own in each slot the
\* handle took, and changes no other slot.
LEMMA RestoreShape ==
  ASSUME Sound, NEW h \in handles, Current(h), Restore(h.session, h)
  PROVE  /\ h.session \in Sessions /\ h.session \in opened /\ handles' = handles \ {h}
         /\ \A r \in Sessions \ {h.session} : slots'[r] = slots[r]
         /\ Len(slots'[h.session]) = Len(slots[h.session])
         /\ \A i \in h.gone : /\ i \in 1 .. Len(slots[h.session]) /\ slots[h.session][i] = Externalized
                              /\ slots'[h.session][i] \in free
         /\ \A i \in 1 .. Len(slots[h.session]) : i \notin h.gone => slots'[h.session][i] = slots[h.session][i]
         /\ \A i, j \in h.gone : slots'[h.session][i] = slots'[h.session][j] => i = j
         /\ UNCHANGED <<opened, filled, next_session, prefixes>>
<1>. DEFINE s == h.session
<1>1. /\ s \in Sessions /\ s \in opened /\ Memory /\ h \in Handle /\ slots \in [Sessions -> Seq(Slot)]
      /\ Len(slots[s]) \in Nat
  BY PoolTypes DEF Current, Sound, Counting
<1>2. \A i \in h.gone : i \in 1 .. Len(slots[s]) /\ slots[s][i] = Externalized
  BY DEF Current
<1>3. PICK taken \in TakeFree(h.gone) : slots' = [slots EXCEPT ![s] = Placed(s, h, taken)]
  BY Zenon DEF Restore
<1>4. Placed(s, h, taken) = [i \in 1 .. Len(slots[s]) |-> IF i \in h.gone THEN taken[i] ELSE slots[s][i]]
  BY <1>1, <1>3 DEF Sound, InPlace
<1>5. slots'[s] = [i \in 1 .. Len(slots[s]) |-> IF i \in h.gone THEN taken[i] ELSE slots[s][i]]
  BY <1>1, <1>3, <1>4
<1>6. /\ \A i \in h.gone : taken[i] \in free
      /\ \A i, j \in h.gone : taken[i] = taken[j] => i = j
  BY <1>3 DEF TakeFree, Injection, IsInjective
<1>7. \A i \in 1 .. Len(slots[s]) : slots'[s][i] = IF i \in h.gone THEN taken[i] ELSE slots[s][i]
  BY <1>5
<1>8. /\ \A i \in h.gone : slots'[s][i] = taken[i]
      /\ \A i \in 1 .. Len(slots[s]) : i \notin h.gone => slots'[s][i] = slots[s][i]
  BY <1>2, <1>7
<1>9. Len(slots'[s]) = Len(slots[s])
  BY <1>1, <1>5
<1>10. \A r \in Sessions \ {s} : slots'[r] = slots[r]
  BY <1>1, <1>3
<1>11. handles' = handles \ {h} /\ UNCHANGED <<opened, filled, next_session, prefixes>>
  BY DEF Restore
<1>. QED BY <1>1, <1>2, <1>6, <1>8, <1>9, <1>10, <1>11

\* cow_break moves one slot to a free block.
LEMMA CowBreakShape ==
  ASSUME Sound, NEW s \in Sessions, NEW i, CowBreak(s, i)
  PROVE  /\ i \in 1 .. Len(slots[s]) /\ slots[s][i] \in Blocks /\ slots'[s][i] \in free
         /\ Len(slots'[s]) = Len(slots[s])
         /\ \A j \in 1 .. Len(slots[s]) : j # i => slots'[s][j] = slots[s][j]
         /\ \A r \in Sessions \ {s} : slots'[r] = slots[r]
         /\ UNCHANGED <<opened, filled, next_session, prefixes, handles>>
<1>1. PICK q \in free : slots' = [slots EXCEPT ![s][i] = q]
  BY Zenon DEF CowBreak
<1>2. /\ i \in 1 .. Len(slots[s]) /\ slots[s][i] \in Blocks
      /\ UNCHANGED <<opened, filled, next_session, prefixes, handles>>
  BY DEF CowBreak, Resident
<1>3. slots'[s] = [slots[s] EXCEPT ![i] = q] /\ slots[s] \in Seq(Slot) /\ q \in Slot
      /\ \A r \in Sessions \ {s} : slots'[r] = slots[r]
  BY <1>1, PoolTypes DEF Slot
<1>4. /\ Len(slots'[s]) = Len(slots[s])
      /\ \A j \in 1 .. Len(slots[s]) : slots'[s][j] = IF j = i THEN q ELSE slots[s][j]
  BY <1>2, <1>3
<1>. QED BY <1>1, <1>2, <1>3, <1>4

\* An extension keeps the slots and puts its blocks behind them.
LEMMA ExtendShape ==
  ASSUME Sound, NEW s \in Sessions, NEW seq \in Seq(Slot), NEW tokens \in Nat, Extend(s, seq, tokens)
  PROVE  /\ Len(slots'[s]) = Len(slots[s]) + Len(seq) /\ Len(seq) \in Nat
         /\ \A j \in 1 .. Len(slots[s]) : slots'[s][j] = slots[s][j]
         /\ \A k \in 1 .. Len(seq) : slots'[s][Len(slots[s]) + k] = seq[k]
         /\ \A r \in Sessions \ {s} : slots'[r] = slots[r] /\ filled'[r] = filled[r]
         /\ filled'[s] = filled[s] + tokens
<1>1. /\ slots' = [slots EXCEPT ![s] = slots[s] \o seq] /\ filled' = [filled EXCEPT ![s] = filled[s] + tokens]
      /\ slots \in [Sessions -> Seq(Slot)] /\ filled \in [Sessions -> Nat]
  BY PoolTypes DEF Extend
<1>2. slots'[s] = slots[s] \o seq /\ filled'[s] = filled[s] + tokens
      /\ \A r \in Sessions \ {s} : slots'[r] = slots[r] /\ filled'[r] = filled[r]
  BY <1>1
<1>3. /\ Len(slots[s] \o seq) = Len(slots[s]) + Len(seq) /\ Len(seq) \in Nat /\ Len(slots[s]) \in Nat
      /\ \A i \in 1 .. Len(slots[s]) + Len(seq) :
           (slots[s] \o seq)[i] = IF i <= Len(slots[s]) THEN slots[s][i] ELSE seq[i - Len(slots[s])]
  BY <1>1, SeqJoined, SeqTyped
<1>4. \A j \in 1 .. Len(slots[s]) : slots'[s][j] = slots[s][j]
  BY <1>2, <1>3
<1>5. ASSUME NEW k \in 1 .. Len(seq) PROVE slots'[s][Len(slots[s]) + k] = seq[k]
  <2>1. Len(slots[s]) + k \in 1 .. Len(slots[s]) + Len(seq) /\ ~(Len(slots[s]) + k <= Len(slots[s]))
        /\ (Len(slots[s]) + k) - Len(slots[s]) = k
    BY <1>3
  <2>. QED BY <1>2, <1>3, <2>1
<1>. QED BY <1>2, <1>3, <1>4, <1>5

\* Blocks taken off the free list are a sequence of slots.
LEMMA TakenSeq ==
  ASSUME Sound, NEW n \in Nat, NEW taken \in TakeFree(1 .. n)
  PROVE  taken \in Seq(Slot) /\ Len(taken) = n
<1>1. taken \in [1 .. n -> free] /\ free \subseteq Slot
  BY PoolTypes DEF TakeFree, Injection, Slot
<1>2. taken \in [1 .. n -> Slot]
  BY <1>1
<1>. QED BY <1>2

\* append_tokens and alloc_shifted_prefix_slots put free blocks behind the table.
LEMMA AllocateShape ==
  ASSUME Sound, NEW s \in Sessions, NEW n \in Nat, NEW tokens \in Nat,
         NEW taken \in TakeFree(1 .. n), Extend(s, taken, tokens)
  PROVE  /\ Len(slots'[s]) = Len(slots[s]) + n
         /\ \A j \in 1 .. Len(slots[s]) : slots'[s][j] = slots[s][j]
         /\ \A k \in 1 .. n : slots'[s][Len(slots[s]) + k] = taken[k] /\ taken[k] \in free
         /\ \A k, l \in 1 .. n : taken[k] = taken[l] => k = l
         /\ \A r \in Sessions \ {s} : slots'[r] = slots[r] /\ filled'[r] = filled[r]
         /\ filled'[s] = filled[s] + tokens
<1>1. taken \in Seq(Slot) /\ Len(taken) = n
  BY TakenSeq
<1>2. /\ \A k \in 1 .. n : taken[k] \in free
      /\ \A k, l \in 1 .. n : taken[k] = taken[l] => k = l
  BY DEF TakeFree, Injection, IsInjective
<1>. QED BY <1>1, <1>2, ExtendShape, ZenonT(40)

LEMMA ShiftedShape ==
  ASSUME Sound, NEW x \in prefixes, NEW dst \in Sessions, AllocShiftedPrefixSlots(x, dst)
  PROVE  /\ Len(slots'[dst]) = Len(slots[dst]) + x.blocks
         /\ \A j \in 1 .. Len(slots[dst]) : slots'[dst][j] = slots[dst][j]
         /\ \A k \in 1 .. x.blocks : slots'[dst][Len(slots[dst]) + k] \in free
         /\ \A k, l \in 1 .. x.blocks :
              slots'[dst][Len(slots[dst]) + k] = slots'[dst][Len(slots[dst]) + l] => k = l
         /\ \A r \in Sessions \ {dst} : slots'[r] = slots[r] /\ filled'[r] = filled[r]
         /\ filled'[dst] = filled[dst] + x.blocks * BlockSize
         /\ UNCHANGED <<opened, next_session, prefixes, handles>>
<1>. DEFINE n == x.blocks
            tokens == x.blocks * BlockSize
<1>1. PICK taken \in TakeFree(1 .. n) : Extend(dst, taken, tokens)
  BY DEF AllocShiftedPrefixSlots
<1>2. n \in Nat /\ tokens \in Nat
  BY PoolTypes, BlockSizeAssumption
<1>3. UNCHANGED <<opened, next_session, prefixes, handles>>
  BY DEF AllocShiftedPrefixSlots
<1>4. /\ Len(slots'[dst]) = Len(slots[dst]) + n
      /\ \A j \in 1 .. Len(slots[dst]) : slots'[dst][j] = slots[dst][j]
      /\ \A k \in 1 .. n : slots'[dst][Len(slots[dst]) + k] = taken[k] /\ taken[k] \in free
      /\ \A k, l \in 1 .. n : taken[k] = taken[l] => k = l
      /\ \A r \in Sessions \ {dst} : slots'[r] = slots[r] /\ filled'[r] = filled[r]
      /\ filled'[dst] = filled[dst] + tokens
  <2>. HIDE DEF n, tokens
  <2>1. Len(slots'[dst]) = Len(slots[dst]) + n /\ filled'[dst] = filled[dst] + tokens
    BY <1>1, <1>2, AllocateShape
  <2>2. \A j \in 1 .. Len(slots[dst]) : slots'[dst][j] = slots[dst][j]
    BY <1>1, <1>2, AllocateShape
  <2>3. \A k \in 1 .. n : slots'[dst][Len(slots[dst]) + k] = taken[k] /\ taken[k] \in free
    BY <1>1, <1>2, AllocateShape
  <2>4. \A k, l \in 1 .. n : taken[k] = taken[l] => k = l
    BY <1>1, <1>2, AllocateShape
  <2>5. \A r \in Sessions \ {dst} : slots'[r] = slots[r] /\ filled'[r] = filled[r]
    BY <1>1, <1>2, AllocateShape
  <2>. QED BY <2>1, <2>2, <2>3, <2>4, <2>5
<1>. QED BY <1>3, <1>4

\* append_tokens for one token takes no block, or the one the boundary needs.
LEMMA AppendOneShape ==
  ASSUME Sound, FillFitsBlocks, NEW s \in Sessions, AppendTokens(s, 1)
  PROVE  /\ \A r \in Sessions \ {s} : slots'[r] = slots[r] /\ filled'[r] = filled[r]
         /\ filled'[s] = filled[s] + 1
         /\ \A j \in 1 .. Len(slots[s]) : slots'[s][j] = slots[s][j]
         /\ UNCHANGED <<opened, next_session, prefixes, handles>>
         /\ \/ UNCHANGED <<free, refcount>> /\ slots' = slots
            \/ /\ filled[s] % BlockSize = 0 /\ BlockAt(filled[s] + 1) = Len(slots[s]) + 1
               /\ Len(slots'[s]) = Len(slots[s]) + 1
               /\ slots'[s][Len(slots[s]) + 1] \in free
               /\ free' = free \ {slots'[s][Len(slots[s]) + 1]}
               /\ refcount' = [refcount EXCEPT ![slots'[s][Len(slots[s]) + 1]] = 1]
<1>. DEFINE len == Len(slots[s])
            need == BlocksFor(filled[s] + 1)
            new == Saturating(need - len)
<1>1. PICK taken \in TakeFree(1 .. new) : Allocate(Range(taken)) /\ Extend(s, taken, 1)
  BY DEF AppendTokens
<1>2. /\ len \in Nat /\ filled[s] \in Nat /\ filled[s] <= len * BlockSize
      /\ refcount \in [Blocks -> Nat] /\ slots \in [Sessions -> Seq(Slot)] /\ Memory
  BY PoolTypes DEF FillFitsBlocks, Sound, Counting
<1>3. /\ need <= len + 1 /\ need \in Nat
      /\ need > len => filled[s] % BlockSize = 0 /\ BlockAt(filled[s] + 1) = len + 1
  <2>. HIDE DEF len
  <2>. QED BY <1>2, OneMoreBlock
<1>4. new \in {0, 1} /\ (new = 1 => need > len)
  <2>. HIDE DEF need, len
  <2>. QED BY <1>2, <1>3 DEF Saturating
<1>5. UNCHANGED <<opened, next_session, prefixes, handles>>
  BY DEF AppendTokens
<1>. HIDE DEF new, need
<1>6. /\ Len(slots'[s]) = len + new
      /\ \A j \in 1 .. len : slots'[s][j] = slots[s][j]
      /\ \A k \in 1 .. new : slots'[s][len + k] = taken[k] /\ taken[k] \in free
      /\ \A r \in Sessions \ {s} : slots'[r] = slots[r] /\ filled'[r] = filled[r]
      /\ filled'[s] = filled[s] + 1
  BY <1>1, <1>4, AllocateShape
<1>7. CASE new = 0
  <2>1. Range(taken) = {} /\ taken = <<>>
    BY <1>1, <1>2, <1>7, TakenSeq DEF Range
  <2>2. UNCHANGED <<free, refcount>>
    BY <1>1, <1>2, <2>1 DEF Allocate
  <2>3. slots' = slots
    <3>1. slots' = [slots EXCEPT ![s] = slots[s] \o <<>>]
      BY <1>1, <2>1 DEF Extend
    <3>2. slots[s] \o <<>> = slots[s]
      BY <1>2, SeqUnit
    <3>. QED BY <1>2, <3>1, <3>2
  <2>. QED BY <1>5, <1>6, <2>2, <2>3
<1>8. CASE new = 1
  <2>1. Range(taken) = {slots'[s][len + 1]}
    <3>1. taken \in Seq(Slot) /\ Len(taken) = 1
      BY <1>1, <1>2, <1>8, TakenSeq, Zenon
    <3>2. Range(taken) = {taken[1]}
      BY <3>1 DEF Range
    <3>. QED BY <1>6, <1>8, <3>2
  <2>2. slots'[s][len + 1] \in free /\ slots'[s][len + 1] \in Blocks
    BY <1>6, <1>8, PoolTypes
  <2>3. /\ free' = free \ {slots'[s][len + 1]}
        /\ refcount' = [p \in Blocks |-> IF p = slots'[s][len + 1] THEN 1 ELSE refcount[p]]
    BY <1>1, <2>1 DEF Allocate
  <2>4. refcount' = [refcount EXCEPT ![slots'[s][len + 1]] = 1]
    BY <1>2, <2>2, <2>3, Zenon
  <2>. QED BY <1>3, <1>4, <1>5, <1>6, <1>8, <2>2, <2>3, <2>4, Zenon
<1>. QED BY <1>4, <1>7, <1>8

\* The tokens that come with shared blocks fill at most those blocks.
LEMMA SharedTokensFit ==
  ASSUME Sound, NEW src \in Sessions, NEW from \in Nat, NEW to \in Nat, from <= to
  PROVE  /\ SharedTokens(src, from, to) \in Nat
         /\ SharedTokens(src, from, to) <= (to - from) * BlockSize
         /\ SharedTokens(src, from, to) > 0 => SharedTokens(src, from, to) <= filled[src] - from * BlockSize
<1>1. (to - from) * BlockSize \in Nat /\ from * BlockSize \in Nat /\ filled[src] \in Nat
  BY BlockSizeAssumption, PoolTypes
<1>. QED BY <1>1 DEF SharedTokens, Least, Saturating

\* What splice, splice_prefix and register_prefix do to the table of dst.
LEMMA ShareShape ==
  ASSUME Sound, NEW src \in Sessions, NEW dst \in Sessions, NEW from \in Nat, NEW to \in Nat,
         Share(src, dst, from, to)
  PROVE  /\ from <= to /\ to <= Len(slots[src])
         /\ \A i \in from + 1 .. to : slots[src][i] \in Blocks /\ Resident(src, i)
         /\ Len(slots'[dst]) = Len(slots[dst]) + (to - from)
         /\ \A j \in 1 .. Len(slots[dst]) : slots'[dst][j] = slots[dst][j]
         /\ \A k \in 1 .. to - from : slots'[dst][Len(slots[dst]) + k] = slots[src][from + k]
         /\ \A r \in Sessions \ {dst} : slots'[r] = slots[r] /\ filled'[r] = filled[r]
         /\ filled'[dst] = filled[dst] + SharedTokens(src, from, to)
<1>. DEFINE seq == Collected(src, from, to)
            tokens == SharedTokens(src, from, to)
            n == to - from
<1>1. from <= to /\ to <= Len(slots[src]) /\ n \in Nat
      /\ \A i \in from + 1 .. to : slots[src][i] \in Blocks /\ Resident(src, i)
  BY DEF Share, SpliceRange, Resident
<1>2. seq \in Seq(Slot) /\ Len(seq) = n /\ \A k \in 1 .. n : seq[k] = slots[src][from + k]
  <2>1. \A k \in 1 .. n : from + k \in from + 1 .. to
    OBVIOUS
  <2>2. seq \in [1 .. n -> Slot] /\ \A k \in 1 .. n : seq[k] = slots[src][from + k]
    BY <1>1, <2>1 DEF Collected, Slot
  <2>. HIDE DEF seq, n
  <2>. QED BY <1>1, <2>2
<1>4. tokens \in Nat
  BY <1>1, SharedTokensFit, Zenon
<1>5. Extend(dst, seq, tokens)
  BY DEF Share
<1>. HIDE DEF seq, tokens, n
<1>6. /\ Len(slots'[dst]) = Len(slots[dst]) + Len(seq)
      /\ \A j \in 1 .. Len(slots[dst]) : slots'[dst][j] = slots[dst][j]
      /\ \A k \in 1 .. Len(seq) : slots'[dst][Len(slots[dst]) + k] = seq[k]
      /\ \A r \in Sessions \ {dst} : slots'[r] = slots[r] /\ filled'[r] = filled[r]
      /\ filled'[dst] = filled[dst] + tokens
  BY <1>2, <1>4, <1>5, ExtendShape, Zenon
<1>. QED BY <1>1, <1>2, <1>4, <1>6, Zenon DEF n, tokens

\* The table Share writes to grows by the number of blocks shared.
LEMMA ShareLength ==
  ASSUME Sound, NEW src \in Sessions, NEW dst \in Sessions, NEW from \in Nat, NEW to \in Nat,
         Share(src, dst, from, to)
  PROVE  Len(slots'[dst]) = Len(slots[dst]) + (to - from)
<1>1. /\ from <= to /\ to <= Len(slots[src])
      /\ \A i \in from + 1 .. to : slots[src][i] \in Blocks /\ Resident(src, i)
      /\ Len(slots'[dst]) = Len(slots[dst]) + (to - from)
      /\ \A j \in 1 .. Len(slots[dst]) : slots'[dst][j] = slots[dst][j]
      /\ \A k \in 1 .. to - from : slots'[dst][Len(slots[dst]) + k] = slots[src][from + k]
      /\ \A r \in Sessions \ {dst} : slots'[r] = slots[r] /\ filled'[r] = filled[r]
      /\ filled'[dst] = filled[dst] + SharedTokens(src, from, to)
  BY ShareShape, Zenon
<1>. QED BY <1>1

\* The new entries are the shared blocks, in the order of the source table.
LEMMA ShareEntries ==
  ASSUME Sound, NEW src \in Sessions, NEW dst \in Sessions, NEW from \in Nat, NEW to \in Nat,
         Share(src, dst, from, to)
  PROVE  \A k \in 1 .. to - from : slots'[dst][Len(slots[dst]) + k] = slots[src][from + k]
<1>1. /\ from <= to /\ to <= Len(slots[src])
      /\ \A i \in from + 1 .. to : slots[src][i] \in Blocks /\ Resident(src, i)
      /\ Len(slots'[dst]) = Len(slots[dst]) + (to - from)
      /\ \A j \in 1 .. Len(slots[dst]) : slots'[dst][j] = slots[dst][j]
      /\ \A k \in 1 .. to - from : slots'[dst][Len(slots[dst]) + k] = slots[src][from + k]
      /\ \A r \in Sessions \ {dst} : slots'[r] = slots[r] /\ filled'[r] = filled[r]
      /\ filled'[dst] = filled[dst] + SharedTokens(src, from, to)
  BY ShareShape, Zenon
<1>. QED BY <1>1

\* evict_blocks detaches the slots it takes and puts their rows in a new handle.
LEMMA EvictShape ==
  ASSUME Sound, NEW s \in Sessions, NEW indices, EvictBlocks(s, indices)
  PROVE  \E new \in handles' :
           /\ new.session = s /\ handles' = handles \cup {new}
           /\ new.gone = {i \in indices : Detachable(s, i)}
           /\ \A i \in new.gone : /\ i \in 1 .. Len(slots[s]) /\ slots[s][i] \in Blocks
                                  /\ slots'[s][i] = Externalized
           /\ \A i \in 1 .. Len(slots[s]) : i \notin new.gone => slots'[s][i] = slots[s][i]
           /\ Len(slots'[s]) = Len(slots[s])
           /\ \A r \in Sessions \ {s} : slots'[r] = slots[r]
           /\ UNCHANGED <<opened, filled, next_session, prefixes>>
<1>. DEFINE gone == {i \in indices : Detachable(s, i)}
            stay == {i \in indices : Resident(s, i) /\ ~Detachable(s, i)}
            new == [session |-> s, gone |-> gone, stay |-> {<<i, slots[s][i]>> : i \in stay}]
<1>1. /\ slots' = [slots EXCEPT ![s] =
                     [i \in 1 .. Len(slots[s]) |-> IF i \in gone THEN Externalized ELSE slots[s][i]]]
      /\ handles' = handles \cup {new}
      /\ UNCHANGED <<opened, filled, next_session, prefixes>>
  BY DEF EvictBlocks
<1>2. new.session = s /\ new.gone = gone /\ new \in handles'
  BY <1>1
<1>3. \A i \in gone : i \in 1 .. Len(slots[s]) /\ slots[s][i] \in Blocks
  BY DEF Detachable, Resident
<1>. HIDE DEF gone, new
<1>4. /\ slots'[s] = [i \in 1 .. Len(slots[s]) |-> IF i \in gone THEN Externalized ELSE slots[s][i]]
      /\ \A r \in Sessions \ {s} : slots'[r] = slots[r] /\ Len(slots[s]) \in Nat
  BY <1>1, PoolTypes
<1>5. /\ \A i \in gone : slots'[s][i] = Externalized
      /\ \A i \in 1 .. Len(slots[s]) : i \notin gone => slots'[s][i] = slots[s][i]
  BY <1>3, <1>4
<1>6. Len(slots'[s]) = Len(slots[s])
  BY <1>4, PoolTypes
<1>. QED BY <1>1, <1>2, <1>3, <1>4, <1>5, <1>6 DEF gone

-----------------------------------------------------------------------------
(* The bytes. *)

Row == (Values \X Nat) \cup {Blank}

\* Every block holds rows, and an eviction handle the rows of exactly the blocks
\* it took.
DeviceTypeOK ==
  /\ cells \in [Blocks -> [Offsets -> Row]]
  /\ DOMAIN saved = handles
  /\ \A h \in handles : saved[h] \in [h.gone -> [Offsets -> Row]]

\* The operations that copy bytes: a broken share, a restore, a shifted splice.
Copies ==
  \/ \E s \in Sessions : EnsureWritableShared(s, BlockAt(filled[s]))
  \/ \E h \in handles : Current(h) /\ (RestoreDevice(h.session, h) \/ RestoreTorn(h.session, h))
  \/ \E x \in prefixes : \E dst \in Usable : SplicePrefixShifted(x, dst)

\* A copy writes only into blocks that were free.
LEMMA CopiesIntoFree ==
  ASSUME Sound, Ownership, DeviceTypeOK, Copies
  PROVE  /\ cells' \in [Blocks -> [Offsets -> Row]]
         /\ \A p \in Blocks \ free : cells'[p] = cells[p]
<1>0. cells \in [Blocks -> [Offsets -> Row]] /\ DOMAIN saved = handles /\ free \subseteq Blocks
      /\ \A h \in handles : saved[h] \in [h.gone -> [Offsets -> Row]]
  BY PoolTypes DEF DeviceTypeOK
<1>1. ASSUME NEW s \in Sessions, EnsureWritableShared(s, BlockAt(filled[s]))
      PROVE  /\ cells' \in [Blocks -> [Offsets -> Row]]
             /\ \A p \in Blocks \ free : cells'[p] = cells[p]
  <2>. DEFINE i == BlockAt(filled[s])
  <2>1. CowBreak(s, i) /\ cells' = [cells EXCEPT ![slots'[s][i]] = cells[slots[s][i]]]
    BY <1>1 DEF EnsureWritableShared
  <2>2. slots'[s][i] \in free /\ slots[s][i] \in Blocks
    BY <2>1, CowBreakShape
  <2>. QED BY <1>0, <2>1, <2>2
<1>2. ASSUME NEW h \in handles, Current(h), RestoreDevice(h.session, h) \/ RestoreTorn(h.session, h)
      PROVE  /\ cells' \in [Blocks -> [Offsets -> Row]]
             /\ \A p \in Blocks \ free : cells'[p] = cells[p]
  <2>. DEFINE s == h.session
  <2>1. Restore(s, h) /\ DOMAIN saved[h] = h.gone
    BY <1>0, <1>2 DEF RestoreDevice, RestoreTorn
  <2>2. PICK done \in SUBSET h.gone : WriteBack(s, h, done)
    BY <1>2, <2>1 DEF RestoreDevice, RestoreTorn
  <2>3. \A i \in h.gone : slots'[s][i] \in free
    BY <1>2, <2>1, RestoreShape
  <2>4. ASSUME NEW p \in Blocks PROVE cells'[p] \in [Offsets -> Row] /\ (p \notin free => cells'[p] = cells[p])
    <3>1. CASE \E i \in done : slots'[s][i] = p
      <4>. DEFINE i == CHOOSE i \in done : slots'[s][i] = p
      <4>1. i \in done /\ slots'[s][i] = p
        BY <3>1
      <4>2. cells'[p] = saved[h][i]
        BY <2>2, <3>1 DEF WriteBack
      <4>. QED BY <1>0, <2>2, <2>3, <4>1, <4>2, Zenon
    <3>2. CASE ~\E i \in done : slots'[s][i] = p
      BY <1>0, <2>2, <3>2 DEF WriteBack
    <3>. QED BY <3>1, <3>2
  <2>5. cells' = [p \in Blocks |-> cells'[p]]
    BY <2>2 DEF WriteBack
  <2>. QED BY <2>4, <2>5
<1>3. ASSUME NEW x \in prefixes, NEW dst \in Usable, SplicePrefixShifted(x, dst)
      PROVE  /\ cells' \in [Blocks -> [Offsets -> Row]]
             /\ \A p \in Blocks \ free : cells'[p] = cells[p]
  <2>. DEFINE end == Len(slots[dst])
              Copied(k) == [o \in Offsets |-> Rotated(cells[slots[x.owner][k]][o], filled[dst])]
  <2>1. AllocShiftedPrefixSlots(x, dst)
    BY <1>3 DEF SplicePrefixShifted
  <2>2. dst \in Sessions /\ x.blocks \in Nat /\ filled[dst] \in Nat /\ x.owner \in Sessions
    BY PoolTypes DEF Usable
  <2>3. \A k \in 1 .. x.blocks : slots'[dst][end + k] \in free
    BY <2>1, <2>2, ShiftedShape
  <2>4. \A k \in 1 .. x.blocks : slots[x.owner][k] \in Blocks
    BY DEF Ownership, PrefixWhole, Resident
  <2>5. \A k \in 1 .. x.blocks : Copied(k) \in [Offsets -> Row]
    <3>. SUFFICES ASSUME NEW k \in 1 .. x.blocks, NEW o \in Offsets
                  PROVE  Rotated(cells[slots[x.owner][k]][o], filled[dst]) \in Row
      OBVIOUS
    <3>1. cells[slots[x.owner][k]][o] \in Row
      BY <1>0, <2>4
    <3>2. CASE cells[slots[x.owner][k]][o] = Blank
      BY <3>2 DEF Rotated, Row
    <3>3. CASE cells[slots[x.owner][k]][o] # Blank
      <4>1. cells[slots[x.owner][k]][o] \in Values \X Nat
        BY <3>1, <3>3 DEF Row
      <4>2. PICK v \in Values, t \in Nat : cells[slots[x.owner][k]][o] = <<v, t>>
        BY <4>1
      <4>3. Rotated(cells[slots[x.owner][k]][o], filled[dst]) = <<v, t + filled[dst]>>
        BY <3>3, <4>2 DEF Rotated
      <4>. QED BY <2>2, <4>3 DEF Row
    <3>. QED BY <3>2, <3>3
  <2>6. cells' = [p \in Blocks |->
                    IF \E k \in 1 .. x.blocks : slots'[dst][end + k] = p
                    THEN Copied(CHOOSE k \in 1 .. x.blocks : slots'[dst][end + k] = p)
                    ELSE cells[p]]
    BY <1>3 DEF SplicePrefixShifted
  <2>. HIDE DEF Copied, end
  <2>7. ASSUME NEW p \in Blocks PROVE cells'[p] \in [Offsets -> Row] /\ (p \notin free => cells'[p] = cells[p])
    <3>1. CASE \E k \in 1 .. x.blocks : slots'[dst][end + k] = p
      <4>. DEFINE k == CHOOSE k \in 1 .. x.blocks : slots'[dst][end + k] = p
      <4>1. k \in 1 .. x.blocks /\ slots'[dst][end + k] = p
        BY <3>1
      <4>2. cells'[p] = Copied(k)
        BY <2>6, <3>1
      <4>. QED BY <2>3, <2>5, <4>1, <4>2, Zenon DEF end
    <3>2. CASE ~\E k \in 1 .. x.blocks : slots'[dst][end + k] = p
      BY <1>0, <2>6, <3>2
    <3>. QED BY <3>1, <3>2
  <2>8. cells' = [p \in Blocks |-> cells'[p]]
    BY <2>6
  <2>. QED BY <2>7, <2>8
<1>. QED BY <1>1, <1>2, <1>3 DEF Copies

\* The rows of a step go only into blocks that a grown session has to itself.
LEMMA RowsIntoOwn ==
  ASSUME Sound, DeviceTypeOK, StepInv, NEW done \in SUBSET work.grown
  PROVE  /\ Rows(done) \in [Blocks -> [Offsets -> Row]]
         /\ \A p \in Blocks : (\A s \in done : slots[s][BlockAt(filled[s])] # p) => Rows(done)[p] = cells[p]
         /\ \A p \in Blocks : refcount[p] # 1 => Rows(done)[p] = cells[p]
<1>. DEFINE At(s, p, o) == slots[s][BlockAt(filled[s])] = p /\ OffsetAt(filled[s]) = o
<1>0. cells \in [Blocks -> [Offsets -> Row]]
  BY DEF DeviceTypeOK
<1>1. \A s \in done : work.feed[s] \in Values /\ filled[s] \in Nat /\ refcount[slots[s][BlockAt(filled[s])]] = 1
  BY StepFacts, PoolTypes DEF StepInv
<1>2. Rows(done) = [p \in Blocks |-> [o \in Offsets |->
         IF \E s \in done : At(s, p, o)
         THEN <<work.feed[CHOOSE s \in done : At(s, p, o)], filled[CHOOSE s \in done : At(s, p, o)]>>
         ELSE cells[p][o]]]
  BY DEF Rows
<1>3. ASSUME NEW p \in Blocks, NEW o \in Offsets
      PROVE  /\ Rows(done)[p][o] \in Row
             /\ (\A s \in done : ~At(s, p, o)) => Rows(done)[p][o] = cells[p][o]
  <2>. HIDE DEF At
  <2>1. CASE \E s \in done : At(s, p, o)
    <3>. DEFINE s == CHOOSE s \in done : At(s, p, o)
    <3>1. s \in done
      BY <2>1
    <3>2. Rows(done)[p][o] = <<work.feed[s], filled[s]>>
      BY <1>2, <2>1
    <3>. HIDE DEF s
    <3>. QED BY <1>1, <2>1, <3>1, <3>2 DEF Row
  <2>2. CASE ~\E s \in done : At(s, p, o)
    BY <1>0, <1>2, <2>2
  <2>. QED BY <2>1, <2>2
<1>4. \A p \in Blocks : Rows(done)[p] = [o \in Offsets |-> Rows(done)[p][o]]
  BY <1>2
<1>5. Rows(done) = [p \in Blocks |-> Rows(done)[p]]
  BY <1>2
<1>6. Rows(done) \in [Blocks -> [Offsets -> Row]]
  BY <1>3, <1>4, <1>5
<1>7. ASSUME NEW p \in Blocks, \A s \in done : slots[s][BlockAt(filled[s])] # p
      PROVE  Rows(done)[p] = cells[p]
  <2>1. \A o \in Offsets : Rows(done)[p][o] = cells[p][o]
    BY <1>3, <1>7
  <2>2. cells[p] \in [Offsets -> Row] /\ Rows(done)[p] \in [Offsets -> Row]
    BY <1>0, <1>6
  <2>. QED BY <2>1, <2>2
<1>. QED BY <1>1, <1>6, <1>7

-----------------------------------------------------------------------------
(* The invariants. *)

ForwardInv == PoolInv /\ StepInv /\ DeviceTypeOK

\* The handles outstanding on an open session took distinct slots that are still
\* missing, and every missing slot of a session without an error is held by one.
HandleInv ==
  /\ \A h \in handles : h.session < next_session
  /\ \A h \in handles : h.session \in opened =>
       \A i \in h.gone : i \in 1 .. Len(slots[h.session]) /\ slots[h.session][i] = Externalized
  /\ \A g, h \in handles : g # h /\ g.session = h.session /\ g.session \in opened => g.gone \cap h.gone = {}
  /\ \A s \in Reliable : \A i \in 1 .. Len(slots[s]) :
       slots[s][i] = Externalized => \E h \in handles : h.session = s /\ i \in h.gone

\* The invariant of the paged steps and of what they store.
LogicalInv == ForwardInv /\ HandleInv

\* Positions stored before a step and after it hold the same values, a step's rows
\* land at the positions it grew, and a spliced prefix reads as its owner's.
StoredKept ==
  \A s \in Reliable \cap Reliable' : Written(s)' = Written(s) =>
    \A t \in 1 .. Written(s) : ValueAt(s, t)' = ValueAt(s, t)
RowsLand ==
  StepWrite => \A s \in Stepping : \A t \in 1 .. filled[s] :
    ValueAt(s, t)' = IF t = filled[s] THEN work.feed[s] ELSE ValueAt(s, t)
PrefixReads ==
  \A x \in prefixes : \A s \in Sessions : SplicePrefixFrom(x, s) /\ CoreOnly /\ Idle /\ s \in Reliable /\ filled[s] = 0 =>
    \A t \in 1 .. filled[x.owner] : ValueAt(s, t)' = ValueAt(x.owner, t)
Stored == StoredKept /\ RowsLand /\ PrefixReads
=============================================================================
