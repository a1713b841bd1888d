---------------------------- MODULE KvBlockPoolProofs ----------------------------
(* Machine-checked proofs about KvBlockPool, for every value of its constants. *)
EXTENDS KvInvariants, TLAPS, FiniteSetTheorems, SequenceTheorems

-----------------------------------------------------------------------------
(* Counting. References are counted table by table: replacing one session's *)
(* table changes a block's count by the difference of its occurrences.      *)

\* The slots of the tables t that name block p: References(p) is Named(slots, p).
Named(t, p) ==
  {r \in Sessions \X (1 .. MaxSlots) : r[2] <= Len(t[r[1]]) /\ t[r[1]][r[2]] = p}

Positions(seq, p) == {i \in DOMAIN seq : seq[i] = p}

\* The slots of session s that name p when its table is seq.
Held(s, seq, p) == {s} \X Positions(seq, p)

LEMMA PositionsFinite ==
  ASSUME NEW seq \in Seq(Slot), NEW p
  PROVE  /\ IsFiniteSet(Positions(seq, p))
         /\ Occurrences(seq, p) = Cardinality(Positions(seq, p))
         /\ Occurrences(seq, p) \in Nat
<1>1. IsFiniteSet(1 .. Len(seq))
  BY FS_Interval
<1>2. Positions(seq, p) \in SUBSET (1 .. Len(seq))
  BY DEF Positions
<1>3. IsFiniteSet(Positions(seq, p))
  BY <1>1, <1>2, FS_Subset, Zenon
<1>4. QED BY <1>3, FS_CardinalityType, Zenon DEF Occurrences, Positions

LEMMA HeldCardinality ==
  ASSUME NEW s, NEW seq \in Seq(Slot), NEW p
  PROVE  /\ IsFiniteSet(Held(s, seq, p))
         /\ Cardinality(Held(s, seq, p)) = Occurrences(seq, p)
<1>1. IsFiniteSet({s}) /\ Cardinality({s}) = 1
  BY FS_Singleton, Zenon
<1>2. /\ IsFiniteSet({s} \X Positions(seq, p))
      /\ Cardinality({s} \X Positions(seq, p)) = 1 * Occurrences(seq, p)
  BY <1>1, PositionsFinite, FS_Product
<1>3. QED BY <1>2, PositionsFinite DEF Held

LEMMA NamedFinite ==
  ASSUME NEW t, NEW p
  PROVE  IsFiniteSet(Named(t, p)) /\ Cardinality(Named(t, p)) \in Nat
<1>1. IsFiniteSet(Sessions) /\ IsFiniteSet(1 .. MaxSlots)
  BY FS_Interval, BoundsAssumption DEF Sessions
<1>2. IsFiniteSet(Sessions \X (1 .. MaxSlots))
  BY <1>1, FS_Product, Zenon
<1>3. Named(t, p) \in SUBSET (Sessions \X (1 .. MaxSlots))
  BY Zenon DEF Named
<1>4. QED BY <1>2, <1>3, FS_Subset, FS_CardinalityType, Zenon

LEMMA ReferencesFinite ==
  ASSUME NEW p
  PROVE  IsFiniteSet(References(p)) /\ Cardinality(References(p)) \in Nat
<1>1. References(p) = Named(slots, p)
  BY Zenon DEF References, Named
<1>2. QED BY <1>1, NamedFinite, Zenon

LEMMA HeldNamed ==
  ASSUME NEW t \in Tables, NEW s \in Sessions, NEW p
  PROVE  /\ Held(s, t[s], p) \subseteq Named(t, p)
         /\ Occurrences(t[s], p) <= Cardinality(Named(t, p))
<1>1. t[s] \in Seq(Slot) /\ Len(t[s]) <= MaxSlots
  BY Zenon DEF Tables
<1>2. ASSUME NEW r \in Held(s, t[s], p) PROVE r \in Named(t, p)
  <2>1. PICK i \in Positions(t[s], p) : r = <<s, i>>
    BY DEF Held
  <2>2. i \in 1 .. Len(t[s]) /\ t[s][i] = p
    BY <1>1, <2>1 DEF Positions
  <2>3. QED BY <1>1, <2>1, <2>2, BoundsAssumption DEF Named
<1>3. Held(s, t[s], p) \in SUBSET Named(t, p)
  BY <1>2, Zenon
<1>4. QED BY <1>1, <1>3, NamedFinite, HeldCardinality, FS_Subset

LEMMA ReplaceTable ==
  ASSUME NEW t \in Tables, NEW s \in Sessions, NEW seq \in Seq(Slot), Len(seq) <= MaxSlots, NEW p
  PROVE  /\ [t EXCEPT ![s] = seq] \in Tables
         /\ Cardinality(Named([t EXCEPT ![s] = seq], p))
              = Cardinality(Named(t, p)) - Occurrences(t[s], p) + Occurrences(seq, p)
<1> DEFINE u == [t EXCEPT ![s] = seq]
           rest == Named(t, p) \ Held(s, t[s], p)
<1>1. u \in Tables
  BY Zenon DEF Tables
<1>2. t[s] \in Seq(Slot) /\ u[s] = seq /\ \A r \in Sessions \ {s} : u[r] = t[r]
  BY Zenon DEF Tables
<1> HIDE DEF u
<1>3. Named(u, p) = rest \cup Held(s, seq, p)
  <2>1. ASSUME NEW r \in Named(u, p) PROVE r \in rest \cup Held(s, seq, p)
    <3>1. r \in Sessions \X (1 .. MaxSlots) /\ r[2] <= Len(u[r[1]]) /\ u[r[1]][r[2]] = p
      BY Zenon DEF Named
    <3>2. CASE r[1] = s
      <4>1. r = <<s, r[2]>> /\ r[2] \in Positions(seq, p)
        BY <3>1, <3>2, <1>2 DEF Positions
      <4>2. QED BY <4>1 DEF Held
    <3>3. CASE r[1] # s
      <4>1. r \in Named(t, p) /\ r \notin Held(s, t[s], p)
        BY <3>1, <3>3, <1>2, Zenon DEF Named, Held
      <4>2. QED BY <4>1, Zenon
    <3>4. QED BY <3>2, <3>3, Zenon
  <2>2. Held(s, seq, p) \subseteq Named(u, p)
    BY <1>1, <1>2, HeldNamed, Zenon
  <2>3. ASSUME NEW r \in rest PROVE r \in Named(u, p)
    <3>1. r \in Sessions \X (1 .. MaxSlots) /\ r[2] <= Len(t[r[1]]) /\ t[r[1]][r[2]] = p
      BY Zenon DEF Named
    <3>2. r[1] # s
      <4>1. SUFFICES ASSUME r[1] = s PROVE FALSE
        BY Zenon
      <4>2. r = <<s, r[2]>> /\ r[2] \in Positions(t[s], p)
        BY <3>1, <4>1, <1>2 DEF Positions
      <4>3. r \in Held(s, t[s], p)
        BY <4>2 DEF Held
      <4>4. QED BY <4>3, Zenon
    <3>3. QED BY <3>1, <3>2, <1>2, Zenon DEF Named
  <2>4. QED BY <2>1, <2>2, <2>3, Zenon
<1>4. rest \cap Held(s, seq, p) = {}
  <2>1. ASSUME NEW r \in rest, r \in Held(s, seq, p) PROVE FALSE
    <3>1. r \in Named(t, p) /\ r \notin Held(s, t[s], p) /\ r[1] = s
      BY <2>1, Zenon DEF Held
    <3>2. r \in Sessions \X (1 .. MaxSlots) /\ r[2] \in Positions(t[s], p)
      BY <3>1, <1>2 DEF Named, Positions
    <3>3. r = <<s, r[2]>>
      BY <3>1, <3>2
    <3>4. QED BY <3>1, <3>2, <3>3, Zenon DEF Held
  <2>2. QED BY <2>1, Zenon
<1>5. /\ IsFiniteSet(rest)
      /\ Cardinality(rest) = Cardinality(Named(t, p)) - Occurrences(t[s], p)
  <2>1. Named(t, p) \cap Held(s, t[s], p) = Held(s, t[s], p)
    BY HeldNamed, Zenon
  <2>2. /\ IsFiniteSet(rest)
        /\ Cardinality(rest) = Cardinality(Named(t, p)) - Cardinality(Named(t, p) \cap Held(s, t[s], p))
    BY NamedFinite, FS_Difference, Zenon
  <2>3. Cardinality(Named(t, p) \cap Held(s, t[s], p)) = Cardinality(Held(s, t[s], p))
    BY <2>1, Zenon
  <2>4. Cardinality(Held(s, t[s], p)) = Occurrences(t[s], p)
    BY <1>2, HeldCardinality, Zenon
  <2> HIDE DEF rest
  <2>5. QED BY <2>2, <2>3, <2>4, Zenon
<1>6. Cardinality(Named(u, p)) = Cardinality(rest) + Cardinality(Held(s, seq, p)) - 0
  BY <1>3, <1>4, <1>5, HeldCardinality, FS_Union, FS_EmptySet
<1>7. QED
  BY <1>1, <1>2, <1>5, <1>6, NamedFinite, HeldCardinality, PositionsFinite DEF u

\* What Occurrences computes on the tables the actions build.
LEMMA OccurrencesEmpty ==
  ASSUME NEW p
  PROVE  Occurrences(<<>>, p) = 0
<1>1. {i \in DOMAIN <<>> : <<>>[i] = p} = {}
  OBVIOUS
<1>2. QED BY <1>1, FS_EmptySet, Zenon DEF Occurrences

LEMMA OccurrencesInjective ==
  ASSUME NEW seq \in Seq(Slot), IsInjective(seq), NEW p
  PROVE  Occurrences(seq, p) = IF p \in Range(seq) THEN 1 ELSE 0
<1>1. CASE p \in Range(seq)
  <2>1. PICK i \in DOMAIN seq : seq[i] = p
    BY <1>1, Zenon DEF Range
  <2>2. Positions(seq, p) = {i}
    BY <2>1, Zenon DEF Positions, IsInjective
  <2>3. QED BY <1>1, <2>2, PositionsFinite, FS_Singleton, Zenon
<1>2. CASE p \notin Range(seq)
  <2>1. Positions(seq, p) = {}
    BY <1>2, Zenon DEF Positions, Range
  <2>2. QED BY <1>2, <2>1, PositionsFinite, FS_EmptySet, Zenon
<1>3. QED BY <1>1, <1>2, Zenon

LEMMA OccurrencesConcat ==
  ASSUME NEW a \in Seq(Slot), NEW b \in Seq(Slot), NEW p
  PROVE  Occurrences(a \o b, p) = Occurrences(a, p) + Occurrences(b, p)
<1> DEFINE moved == {Len(a) + j : j \in Positions(b, p)}
           shift == [j \in Positions(b, p) |-> Len(a) + j]
<1>1. /\ a \o b \in Seq(Slot)
      /\ Len(a \o b) = Len(a) + Len(b)
      /\ \A i \in 1 .. Len(a) + Len(b) : (a \o b)[i] = IF i <= Len(a) THEN a[i] ELSE b[i - Len(a)]
      /\ Len(a) \in Nat /\ Len(b) \in Nat
  BY ConcatProperties, LenProperties, Zenon
<1>2. Positions(b, p) \subseteq 1 .. Len(b)
  BY DEF Positions
<1>3. Positions(a \o b, p) = Positions(a, p) \cup moved
  <2>1. ASSUME NEW i \in Positions(a \o b, p) PROVE i \in Positions(a, p) \cup moved
    <3>1. i \in 1 .. Len(a) + Len(b) /\ (a \o b)[i] = p
      BY <1>1 DEF Positions
    <3>2. CASE i <= Len(a)
      BY <1>1, <3>1, <3>2 DEF Positions
    <3>3. CASE i > Len(a)
      <4>1. i - Len(a) \in Positions(b, p) /\ i = Len(a) + (i - Len(a))
        BY <1>1, <3>1, <3>3 DEF Positions
      <4>2. QED BY <4>1, Zenon
    <3>4. QED BY <1>1, <3>1, <3>2, <3>3
  <2>2. ASSUME NEW i \in Positions(a, p) PROVE i \in Positions(a \o b, p)
    BY <1>1 DEF Positions
  <2>3. ASSUME NEW j \in Positions(b, p) PROVE Len(a) + j \in Positions(a \o b, p)
    BY <1>1 DEF Positions
  <2>4. QED BY <2>1, <2>2, <2>3, Zenon
<1>4. Positions(a, p) \cap moved = {}
  BY <1>1, <1>2 DEF Positions
<1>5. IsFiniteSet(moved) /\ Cardinality(moved) = Cardinality(Positions(b, p))
  <2>1. shift \in Bijection(Positions(b, p), moved)
    BY <1>1, <1>2 DEF Bijection, Injection, Surjection, IsInjective
  <2>2. QED BY <2>1, PositionsFinite, FS_Bijection, Zenon DEF ExistsBijection
<1>6. Cardinality(Positions(a, p) \cup moved)
        = Cardinality(Positions(a, p)) + Cardinality(moved) - Cardinality(Positions(a, p) \cap moved)
  BY <1>5, PositionsFinite, FS_Union, Zenon
<1>7. Cardinality(Positions(a, p) \cap moved) = 0
  BY <1>4, FS_EmptySet, Zenon
<1>8. Cardinality(Positions(a \o b, p)) = Cardinality(Positions(a, p) \cup moved)
  BY <1>3, Zenon
<1>9. /\ Occurrences(a \o b, p) = Cardinality(Positions(a \o b, p))
      /\ Occurrences(a, p) = Cardinality(Positions(a, p))
      /\ Occurrences(b, p) = Cardinality(Positions(b, p))
      /\ Occurrences(a, p) \in Nat /\ Occurrences(b, p) \in Nat
  BY <1>1, PositionsFinite, Zenon
<1> HIDE DEF moved
<1>10. QED BY <1>5, <1>6, <1>7, <1>8, <1>9

\* Two tables that name p in the same places name it equally often.
LEMMA OccurrencesSame ==
  ASSUME NEW a \in Seq(Slot), NEW b \in Seq(Slot), NEW p, Positions(a, p) = Positions(b, p)
  PROVE  Occurrences(a, p) = Occurrences(b, p)
BY PositionsFinite, Zenon

\* One slot changes to y.
LEMMA OccurrencesExcept ==
  ASSUME NEW seq \in Seq(Slot), NEW i \in 1 .. Len(seq), NEW y \in Slot, seq[i] # y, NEW p
  PROVE  /\ [seq EXCEPT ![i] = y] \in Seq(Slot)
         /\ Len([seq EXCEPT ![i] = y]) = Len(seq)
         /\ Occurrences([seq EXCEPT ![i] = y], p)
              = Occurrences(seq, p) + (IF p = y THEN 1 ELSE 0) - (IF p = seq[i] THEN 1 ELSE 0)
<1> DEFINE new == [seq EXCEPT ![i] = y]
<1>1. /\ new \in Seq(Slot) /\ Len(new) = Len(seq)
      /\ \A j \in 1 .. Len(seq) : new[j] = IF j = i THEN y ELSE seq[j]
      /\ DOMAIN new = 1 .. Len(seq) /\ DOMAIN seq = 1 .. Len(seq)
  BY ExceptSeq, LenProperties
<1> HIDE DEF new
<1>2. /\ Occurrences(new, p) = Cardinality(Positions(new, p))
      /\ Occurrences(seq, p) = Cardinality(Positions(seq, p))
      /\ Occurrences(seq, p) \in Nat /\ IsFiniteSet(Positions(seq, p))
  BY <1>1, PositionsFinite, Zenon
<1>3. CASE p = y
  <2>1. Positions(new, p) = Positions(seq, p) \cup {i} /\ i \notin Positions(seq, p)
    BY <1>1, <1>3, Zenon DEF Positions
  <2>2. Cardinality(Positions(new, p)) = Cardinality(Positions(seq, p)) + 1
    BY <1>2, <2>1, FS_AddElement, Zenon
  <2>3. Occurrences(new, p) = Occurrences(seq, p) + 1
    BY <1>2, <2>2, Zenon
  <2>4. QED BY <1>1, <1>2, <1>3, <2>3 DEF new
<1>4. CASE p = seq[i]
  <2>1. Positions(new, p) = Positions(seq, p) \ {i} /\ i \in Positions(seq, p)
    BY <1>1, <1>4 DEF Positions
  <2>2. Cardinality(Positions(new, p)) = Cardinality(Positions(seq, p)) - 1
    BY <1>2, <2>1, FS_RemoveElement, Zenon
  <2>3. Occurrences(new, p) = Occurrences(seq, p) - 1
    BY <1>2, <2>2, Zenon
  <2>4. QED BY <1>1, <1>2, <1>4, <2>3 DEF new
<1>5. CASE p # y /\ p # seq[i]
  <2>1. Positions(new, p) = Positions(seq, p)
    BY <1>1, <1>5, Zenon DEF Positions
  <2>2. Occurrences(new, p) = Occurrences(seq, p)
    BY <1>1, <2>1, OccurrencesSame, Zenon
  <2>3. QED BY <1>1, <1>2, <1>5, <2>2 DEF new
<1>6. QED BY <1>3, <1>4, <1>5, Zenon

-----------------------------------------------------------------------------
(* The block index. *)

\* A step that leaves the index alone keeps its invariant.
LEMMA IndexUnchanged ==
  ASSUME IndexTypeOK, IndexInverse, UNCHANGED indexVars
  PROVE  IndexTypeOK' /\ IndexInverse'
BY Zenon DEF IndexTypeOK, IndexInverse, indexVars

LEMMA CommitBlockIndex ==
  ASSUME IndexTypeOK, IndexInverse,
         NEW s \in Sessions, NEW i \in 1 .. MaxSlots, NEW h \in Hashes, CommitBlock(s, i, h)
  PROVE  IndexTypeOK' /\ IndexInverse'
<1> DEFINE p == slots[s][i]
<1>1. p \in Blocks /\ cached[h] = None /\ cached_by_block[p] = None
  BY Zenon DEF CommitBlock, Resident
<1>2. /\ cached' = [cached EXCEPT ![h] = p]
      /\ cached_by_block' = [cached_by_block EXCEPT ![p] = h]
  BY Zenon DEF CommitBlock
<1> HIDE DEF p
<1>3. QED BY <1>1, <1>2, HashesAssumption, Zenon DEF IndexTypeOK, IndexInverse

LEMMA ReleaseCachedIndex ==
  ASSUME IndexTypeOK, IndexInverse, NEW h \in Hashes, ReleaseCached(h)
  PROVE  IndexTypeOK' /\ IndexInverse'
<1>1. /\ cached[h] # None
      /\ cached' = [cached EXCEPT ![h] = None]
      /\ cached_by_block' = [cached_by_block EXCEPT ![cached[h]] = None]
  BY Zenon DEF ReleaseCached
<1>2. QED BY <1>1, HashesAssumption, Zenon DEF IndexTypeOK, IndexInverse

LEMMA IndexStepPreserves ==
  ASSUME IndexTypeOK, IndexInverse, [Next]_vars
  PROVE  IndexTypeOK' /\ IndexInverse'
<1>1. CASE SessionStep \/ ShareStep \/ PrefixStep
  <2>1. UNCHANGED indexVars
    BY <1>1, Zenon DEF SessionStep, Open, AppendTokens, Discard, EvictBlocks, ShareStep, Splice,
                SplicePrefix, CowBreak, PrefixStep, RegisterPrefix, RegisterPrefixRefused,
                ReleasePrefix, SplicePrefixFrom, AllocShiftedPrefixSlots
  <2>2. QED BY <2>1, IndexUnchanged, Zenon
<1>2. CASE IndexStep
  <2>1. CASE \E s \in Sessions : \E i \in 1 .. MaxSlots : \E h \in Hashes : CommitBlock(s, i, h)
    BY <2>1, CommitBlockIndex, Zenon
  <2>2. CASE \E s \in Sessions : \E hashes \in Chains : SpliceCachedChain(s, hashes)
    BY <2>2, IndexUnchanged, Zenon DEF SpliceCachedChain
  <2>3. CASE \E h \in Hashes : ReleaseCached(h)
    BY <2>3, ReleaseCachedIndex, Zenon
  <2>4. QED BY <1>2, <2>1, <2>2, <2>3, Zenon DEF IndexStep
<1>3. CASE \E h \in handles : DropHandle(h) \/ (Current(h) /\ Restore(h.session, h))
  BY <1>3, IndexUnchanged, Zenon DEF DropHandle, Restore
<1>4. CASE UNCHANGED vars
  BY <1>4, IndexUnchanged, Zenon DEF vars
<1>5. QED BY <1>1, <1>2, <1>3, <1>4, Zenon DEF Next, PoolStep

\* The two maps of the block index are inverse to each other after any sequence
\* of commit_block and release_cached, whatever else the pool does in between.
THEOREM IndexInverseAlways == Spec => []IndexInverse
<1>1. Init => IndexTypeOK /\ IndexInverse
  BY Zenon DEF Init, IndexTypeOK, IndexInverse
<1>2. IndexTypeOK /\ IndexInverse /\ [Next]_vars => (IndexTypeOK /\ IndexInverse)'
  BY IndexStepPreserves, Zenon
<1>3. QED BY <1>1, <1>2, PTL DEF Spec

-----------------------------------------------------------------------------
(* Reference counts and the free list. *)

LEMMA MemoryFacts ==
  ASSUME Memory, IndexTypeOK, NEW s \in Sessions, NEW p \in Blocks
  PROVE  /\ slots[s] \in Seq(Slot) /\ Len(slots[s]) \in Nat /\ Len(slots[s]) <= MaxSlots
         /\ refcount[p] \in Nat
         /\ Occurrences(slots[s], p) \in Nat
         /\ Occurrences(slots[s], p) + IndexReferences(p) <= refcount[p]
         /\ p \in free => refcount[p] = 0 /\ Occurrences(slots[s], p) = 0
<1>1. slots \in Tables /\ slots[s] \in Seq(Slot) /\ Len(slots[s]) <= MaxSlots /\ Len(slots[s]) \in Nat
  BY LenProperties, Zenon DEF Memory, Tables
<1>2. Occurrences(slots[s], p) \in Nat /\ Occurrences(slots[s], p) <= Cardinality(Named(slots, p))
  BY <1>1, PositionsFinite, HeldNamed, Zenon
<1>3. refcount[p] = Cardinality(Named(slots, p)) + IndexReferences(p) /\ refcount[p] \in Nat
  BY Zenon DEF Memory, RefcountExact, References, Named
<1>4. IndexReferences(p) \in Nat /\ Cardinality(Named(slots, p)) \in Nat
  BY NamedFinite, Zenon DEF IndexReferences
<1>5. p \in free => refcount[p] = 0
  BY Zenon DEF Memory, FreeIffUnreferenced
<1>6. QED BY <1>1, <1>2, <1>3, <1>4, <1>5

\* One table is replaced and the counts follow its occurrences.
LEMMA CountTable ==
  ASSUME Memory, NEW s \in Sessions, NEW seq \in Seq(Slot), Len(seq) <= MaxSlots,
         slots' = [slots EXCEPT ![s] = seq], UNCHANGED cached_by_block,
         \A p \in Blocks : refcount'[p] = refcount[p] - Occurrences(slots[s], p) + Occurrences(seq, p)
  PROVE  slots' \in Tables /\ RefcountExact'
<1>1. slots \in Tables
  BY Zenon DEF Memory
<1>2. slots' \in Tables
  BY <1>1, ReplaceTable, Zenon
<1>3. ASSUME NEW p \in Blocks
      PROVE  refcount'[p] = Cardinality(References(p)') + IndexReferences(p)'
  <2>1. Cardinality(Named(slots', p)) = Cardinality(Named(slots, p)) - Occurrences(slots[s], p) + Occurrences(seq, p)
    BY <1>1, ReplaceTable, Zenon
  <2>2. refcount[p] = Cardinality(Named(slots, p)) + IndexReferences(p)
    BY Zenon DEF Memory, RefcountExact, References, Named
  <2>3. References(p)' = Named(slots', p) /\ IndexReferences(p)' = IndexReferences(p)
    BY Zenon DEF References, Named, IndexReferences
  <2>4. /\ Cardinality(Named(slots, p)) \in Nat /\ IndexReferences(p) \in Nat
        /\ Occurrences(slots[s], p) \in Nat /\ Occurrences(seq, p) \in Nat
    BY <1>1, NamedFinite, PositionsFinite, Zenon DEF IndexReferences, Tables
  <2>5. refcount'[p] = refcount[p] - Occurrences(slots[s], p) + Occurrences(seq, p)
    BY Zenon
  <2>6. Cardinality(References(p)') = Cardinality(Named(slots', p))
    BY <2>3, Zenon
  <2>7. QED BY <2>1, <2>2, <2>3, <2>4, <2>5, <2>6
<1>4. QED BY <1>2, <1>3, Zenon DEF RefcountExact

\* append and alloc_shifted_prefix_slots: fresh blocks at the end of a table.
LEMMA AllocateMemory ==
  ASSUME Memory, IndexTypeOK, NEW s \in Sessions, NEW n \in Nat, NEW tokens \in Nat,
         NEW taken \in TakeFree(1 .. n), Allocate(Range(taken)), Extend(s, taken, tokens),
         UNCHANGED cached_by_block
  PROVE  Memory'
<1>1. /\ taken \in [1 .. n -> free] /\ IsInjective(taken)
      /\ Range(taken) \subseteq free /\ free \subseteq Blocks
  BY Zenon DEF TakeFree, Injection, Range, Memory
<1>2. taken \in Seq(Slot) /\ Len(taken) = n
  BY <1>1 DEF Slot
<1>3. /\ slots[s] \o taken \in Seq(Slot)
      /\ Len(slots[s] \o taken) = Len(slots[s]) + Len(taken)
      /\ slots[s] \in Seq(Slot)
  <2>1. slots[s] \in Seq(Slot)
    BY <1>2, Zenon DEF Memory, Tables
  <2>2. QED BY <1>2, <2>1, ConcatProperties, Zenon
<1>4. /\ slots' = [slots EXCEPT ![s] = slots[s] \o taken]
      /\ Len(slots[s] \o taken) <= MaxSlots
      /\ filled' = [filled EXCEPT ![s] = filled[s] + tokens]
  BY <1>3, Zenon DEF Extend, Memory, Tables
<1>5. /\ free' = free \ Range(taken)
      /\ refcount' = [p \in Blocks |-> IF p \in Range(taken) THEN 1 ELSE refcount[p]]
  BY Zenon DEF Allocate
<1>6. ASSUME NEW p \in Blocks
      PROVE  /\ Occurrences(slots[s] \o taken, p)
                  = Occurrences(slots[s], p) + (IF p \in Range(taken) THEN 1 ELSE 0)
             /\ refcount'[p] = refcount[p] - Occurrences(slots[s], p) + Occurrences(slots[s] \o taken, p)
             /\ p \in free' <=> refcount'[p] = 0
  <2>1. Occurrences(slots[s] \o taken, p) = Occurrences(slots[s], p) + Occurrences(taken, p)
    BY <1>2, <1>3, OccurrencesConcat, Zenon
  <2>2. Occurrences(taken, p) = IF p \in Range(taken) THEN 1 ELSE 0
    BY <1>1, <1>2, OccurrencesInjective, Zenon
  <2>3. refcount'[p] = IF p \in Range(taken) THEN 1 ELSE refcount[p]
    BY <1>5, Zenon
  <2>4. p \in free <=> refcount[p] = 0
    BY Zenon DEF Memory, FreeIffUnreferenced
  <2>5. QED BY <1>1, <1>5, <2>1, <2>2, <2>3, <2>4, MemoryFacts
<1>7. slots' \in Tables /\ RefcountExact'
  BY <1>3, <1>4, <1>6, CountTable, Zenon
<1>8. /\ free' \subseteq Blocks /\ refcount' \in [Blocks -> Nat] /\ filled' \in [Sessions -> Nat]
      /\ FreeIffUnreferenced'
  BY <1>1, <1>4, <1>5, <1>6 DEF Memory, FreeIffUnreferenced
<1>9. QED BY <1>7, <1>8, Zenon DEF Memory

\* splice, splice_prefix and register_prefix: counted references to blocks
\* that src holds.
LEMMA ShareMemory ==
  ASSUME Memory, IndexTypeOK, NEW src \in Sessions, NEW dst \in Sessions,
         NEW from \in Nat, NEW to \in Nat, Share(src, dst, from, to),
         UNCHANGED cached_by_block
  PROVE  Memory'
<1> DEFINE seq == Collected(src, from, to)
<1>1. from <= to /\ to <= Len(slots[src]) /\ \A i \in from + 1 .. to : slots[src][i] \in Blocks
  BY DEF Share, SpliceRange, Resident
<1>2. seq \in Seq(Slot) /\ Len(seq) = to - from /\ \A k \in 1 .. Len(seq) : seq[k] \in Blocks
  <2>1. \A k \in 1 .. to - from : from + k \in from + 1 .. to
    OBVIOUS
  <2>2. \A k \in 1 .. to - from : slots[src][from + k] \in Blocks
    BY <1>1, <2>1, Zenon
  <2>3. seq \in [1 .. to - from -> Blocks] /\ to - from \in Nat
    BY <1>1, <2>2 DEF Collected
  <2>4. QED BY <2>3 DEF Slot
<1>3. SharedTokens(src, from, to) \in Nat
  <2>1. (to - from) * BlockSize \in Nat /\ filled[src] - from * BlockSize \in Int
    BY <1>1, BlockSizeAssumption DEF Memory
  <2>2. QED BY <2>1 DEF SharedTokens, Least, Saturating
<1>4. /\ slots[dst] \o seq \in Seq(Slot)
      /\ Len(slots[dst] \o seq) = Len(slots[dst]) + Len(seq)
      /\ slots[dst] \in Seq(Slot)
  <2>1. slots[dst] \in Seq(Slot)
    BY <1>2, Zenon DEF Memory, Tables
  <2>2. QED BY <1>2, <2>1, ConcatProperties, Zenon
<1>5. /\ slots' = [slots EXCEPT ![dst] = slots[dst] \o seq]
      /\ Len(slots[dst] \o seq) <= MaxSlots
      /\ filled' = [filled EXCEPT ![dst] = filled[dst] + SharedTokens(src, from, to)]
      /\ refcount' = [p \in Blocks |-> refcount[p] + Occurrences(seq, p)]
      /\ free' = free
  BY <1>4, Zenon DEF Share, Extend, AddReferences, Memory, Tables
<1>6. ASSUME NEW p \in Blocks
      PROVE  /\ refcount'[p] = refcount[p] - Occurrences(slots[dst], p) + Occurrences(slots[dst] \o seq, p)
             /\ refcount'[p] \in Nat
             /\ p \in free' <=> refcount'[p] = 0
  <2>1. Occurrences(slots[dst] \o seq, p) = Occurrences(slots[dst], p) + Occurrences(seq, p)
    BY <1>2, <1>4, OccurrencesConcat, Zenon
  <2>2. refcount'[p] = refcount[p] + Occurrences(seq, p) /\ Occurrences(seq, p) \in Nat
    BY <1>2, <1>5, PositionsFinite, Zenon
  <2>3. refcount[p] = 0 => Occurrences(seq, p) = 0
    <3>1. SUFFICES ASSUME refcount[p] = 0, Occurrences(seq, p) # 0 PROVE FALSE
      BY Zenon
    <3>2. Positions(seq, p) # {}
      BY <1>2, <3>1, PositionsFinite, FS_EmptySet, Zenon
    <3>3. PICK k \in 1 .. Len(seq) : seq[k] = p
      BY <1>2, <3>2 DEF Positions
    <3>4. from + k \in Positions(slots[src], p)
      BY <1>1, <1>2, <3>3 DEF Positions, Collected, Memory, Tables
    <3>5. Occurrences(slots[src], p) # 0
      BY <3>4, PositionsFinite, FS_EmptySet, Zenon DEF Memory, Tables
    <3>6. Occurrences(slots[src], p) = 0
      BY <3>1, MemoryFacts, Zenon DEF Memory, FreeIffUnreferenced
    <3>7. QED BY <3>5, <3>6, Zenon
  <2>4. p \in free <=> refcount[p] = 0
    BY Zenon DEF Memory, FreeIffUnreferenced
  <2>5. QED BY <1>5, <2>1, <2>2, <2>3, <2>4, MemoryFacts
<1> HIDE DEF seq
<1>7. slots' \in Tables /\ RefcountExact'
  BY <1>4, <1>5, <1>6, CountTable, Zenon
<1>8. /\ free' \subseteq Blocks /\ refcount' \in [Blocks -> Nat] /\ filled' \in [Sessions -> Nat]
      /\ FreeIffUnreferenced'
  BY <1>3, <1>5, <1>6 DEF Memory, FreeIffUnreferenced
<1>9. QED BY <1>7, <1>8, Zenon DEF Memory

\* discard and release_prefix: a table is dropped with its references.
LEMMA DiscardMemory ==
  ASSUME Memory, IndexTypeOK, NEW s \in Sessions, DropReferences(slots[s]), Forget(s),
         UNCHANGED cached_by_block
  PROVE  Memory'
<1>1. /\ slots' = [slots EXCEPT ![s] = <<>>] /\ filled' = [filled EXCEPT ![s] = 0]
      /\ refcount' = [p \in Blocks |-> refcount[p] - Occurrences(slots[s], p)]
      /\ free' = free \cup {p \in Blocks : Occurrences(slots[s], p) > 0 /\ refcount'[p] = 0}
  BY Zenon DEF Forget, DropReferences
<1>2. <<>> \in Seq(Slot) /\ Len(<<>>) <= MaxSlots
  BY EmptySeq, BoundsAssumption
<1>3. ASSUME NEW p \in Blocks
      PROVE  /\ refcount'[p] = refcount[p] - Occurrences(slots[s], p) + Occurrences(<<>>, p)
             /\ refcount'[p] \in Nat
             /\ p \in free' <=> refcount'[p] = 0
  <2>1. refcount'[p] = refcount[p] - Occurrences(slots[s], p) /\ Occurrences(<<>>, p) = 0
    BY <1>1, OccurrencesEmpty, Zenon
  <2>2. p \in free <=> refcount[p] = 0
    BY Zenon DEF Memory, FreeIffUnreferenced
  <2>3. IndexReferences(p) \in Nat
    BY Zenon DEF IndexReferences
  <2>4. p \in free' <=> p \in free \/ (Occurrences(slots[s], p) > 0 /\ refcount'[p] = 0)
    BY <1>1, Zenon
  <2>5. QED BY <2>1, <2>2, <2>3, <2>4, MemoryFacts
<1>4. slots' \in Tables /\ RefcountExact'
  BY <1>1, <1>2, <1>3, CountTable, Zenon
<1>5. /\ free' \subseteq Blocks /\ refcount' \in [Blocks -> Nat] /\ filled' \in [Sessions -> Nat]
      /\ FreeIffUnreferenced'
  BY <1>1, <1>3, Zenon DEF Memory, FreeIffUnreferenced
<1>6. QED BY <1>4, <1>5, Zenon DEF Memory

\* cow_break: one reference moves from a shared block to a free one.
LEMMA CowBreakMemory ==
  ASSUME Memory, IndexTypeOK, NEW s \in Sessions, NEW i \in Nat, CowBreak(s, i)
  PROVE  Memory'
<1> DEFINE x == slots[s][i]
<1>1. PICK q \in free : /\ free' = free \ {q}
                        /\ refcount' = [refcount EXCEPT ![q] = 1, ![x] = @ - 1]
                        /\ slots' = [slots EXCEPT ![s][i] = q]
  BY Zenon DEF CowBreak
<1>2. x \in Blocks /\ i \in 1 .. Len(slots[s]) /\ refcount[x] > 1 /\ UNCHANGED <<filled, cached_by_block>>
  BY Zenon DEF CowBreak, Resident, indexVars
<1>3. q \in Blocks /\ refcount[q] = 0 /\ q # x
  BY <1>2 DEF Memory, FreeIffUnreferenced
<1> DEFINE seq == [slots[s] EXCEPT ![i] = q]
<1>4. slots[s] \in Seq(Slot) /\ Len(slots[s]) <= MaxSlots /\ slots' = [slots EXCEPT ![s] = seq]
  BY <1>1, Zenon DEF Memory, Tables
<1>5. seq \in Seq(Slot) /\ Len(seq) = Len(slots[s])
  BY <1>2, <1>3, <1>4, OccurrencesExcept, Zenon DEF Slot
<1>6. ASSUME NEW p \in Blocks
      PROVE  /\ refcount'[p] = refcount[p] - Occurrences(slots[s], p) + Occurrences(seq, p)
             /\ refcount'[p] \in Nat
             /\ p \in free' <=> refcount'[p] = 0
  <2>1. Occurrences(seq, p) = Occurrences(slots[s], p) + (IF p = q THEN 1 ELSE 0) - (IF p = x THEN 1 ELSE 0)
    BY <1>2, <1>3, <1>4, OccurrencesExcept DEF Slot
  <2>2. refcount'[p] = refcount[p] + (IF p = q THEN 1 ELSE 0) - (IF p = x THEN 1 ELSE 0)
    BY <1>1, <1>2, <1>3, MemoryFacts DEF Memory
  <2>3. p \in free <=> refcount[p] = 0
    BY Zenon DEF Memory, FreeIffUnreferenced
  <2> HIDE DEF seq, x
  <2>4. refcount[x] \in Nat /\ refcount[p] \in Nat /\ Occurrences(slots[s], p) \in Nat
    BY <1>2, MemoryFacts, Zenon
  <2>5. QED BY <1>1, <1>2, <1>3, <2>1, <2>2, <2>3, <2>4
<1> HIDE DEF seq, x
<1>7. slots' \in Tables /\ RefcountExact'
  BY <1>2, <1>4, <1>5, <1>6, CountTable, Zenon
<1>8. /\ free' \subseteq Blocks /\ refcount' \in [Blocks -> Nat] /\ filled' \in [Sessions -> Nat]
      /\ FreeIffUnreferenced'
  BY <1>1, <1>2, <1>6, Zenon DEF Memory, FreeIffUnreferenced
<1>9. QED BY <1>7, <1>8, Zenon DEF Memory

\* evict_blocks: an exclusive block loses its one slot and is freed; a shared
\* one keeps its slot and its count.
LEMMA EvictBlocksMemory ==
  ASSUME Memory, IndexTypeOK, NEW s \in Sessions, NEW indices \in SUBSET (1 .. Len(slots[s])),
         EvictBlocks(s, indices)
  PROVE  Memory'
<1> DEFINE gone == {i \in indices : Detachable(s, i)}
           lost == {slots[s][i] : i \in gone}
           seq == [i \in 1 .. Len(slots[s]) |-> IF i \in gone THEN Externalized ELSE slots[s][i]]
<1>1. /\ refcount' = [p \in Blocks |-> IF p \in lost THEN 0 ELSE refcount[p]]
      /\ free' = free \cup lost
      /\ slots' = [slots EXCEPT ![s] = seq]
      /\ UNCHANGED <<filled, cached_by_block>>
  BY Zenon DEF EvictBlocks, indexVars
<1>2. /\ slots[s] \in Seq(Slot) /\ Len(slots[s]) \in Nat /\ Len(slots[s]) <= MaxSlots
      /\ DOMAIN slots[s] = 1 .. Len(slots[s])
      /\ \A i \in 1 .. Len(slots[s]) : slots[s][i] \in Slot
  BY LenProperties, ElementOfSeq, Zenon DEF Memory, Tables
<1>3. seq \in Seq(Slot) /\ Len(seq) = Len(slots[s]) /\ DOMAIN seq = 1 .. Len(slots[s])
  <2>1. seq \in [1 .. Len(slots[s]) -> Slot]
    BY <1>2, Zenon DEF Slot
  <2>2. QED BY <1>2, <2>1
<1>4. \A i \in gone : slots[s][i] \in Blocks /\ refcount[slots[s][i]] = 1 /\ i \in 1 .. Len(slots[s])
  BY Zenon DEF Detachable, Resident
<1>5. lost \subseteq Blocks
  BY <1>4, Zenon
<1>6. ASSUME NEW p \in Blocks
      PROVE  /\ refcount'[p] = refcount[p] - Occurrences(slots[s], p) + Occurrences(seq, p)
             /\ refcount'[p] \in Nat
             /\ p \in free' <=> refcount'[p] = 0
  <2>1. p \in free <=> refcount[p] = 0
    BY Zenon DEF Memory, FreeIffUnreferenced
  <2>2. p # Externalized
    BY BlocksAssumption, Zenon
  <2>3. CASE p \in lost
    <3>1. PICK i \in gone : slots[s][i] = p
      BY <2>3, Zenon
    <3>2. i \in Positions(slots[s], p) /\ refcount[p] = 1
      BY <1>2, <1>4, <3>1, Zenon DEF Positions
    <3>3. Cardinality(Positions(slots[s], p)) = 1
      <4>1. Cardinality(Positions(slots[s], p)) \in Nat /\ Cardinality(Positions(slots[s], p)) # 0
        BY <1>2, <3>2, PositionsFinite, FS_EmptySet, Zenon
      <4>2. Occurrences(slots[s], p) + IndexReferences(p) <= 1
        BY <3>2, MemoryFacts, Zenon
      <4>3. IndexReferences(p) \in Nat /\ Occurrences(slots[s], p) = Cardinality(Positions(slots[s], p))
        BY <1>2, PositionsFinite, Zenon DEF IndexReferences
      <4>4. QED BY <4>1, <4>2, <4>3
    <3>4. Positions(slots[s], p) = {i}
      BY <1>2, <3>2, <3>3, PositionsFinite, FS_Singleton
    <3>5. Positions(seq, p) = {}
      BY <1>2, <1>3, <2>2, <3>4, Zenon DEF Positions
    <3>6. Occurrences(seq, p) = 0 /\ Occurrences(slots[s], p) = 1
      BY <1>2, <1>3, <3>3, <3>5, PositionsFinite, FS_EmptySet, Zenon
    <3>7. refcount'[p] = 0 /\ p \in free'
      BY <1>1, <2>3, Zenon
    <3>8. QED BY <3>2, <3>6, <3>7
  <2>4. CASE p \notin lost
    <3>1. Positions(seq, p) = Positions(slots[s], p)
      BY <1>2, <1>3, <2>2, <2>4, Zenon DEF Positions
    <3>2. Occurrences(seq, p) = Occurrences(slots[s], p)
      BY <1>2, <1>3, <3>1, OccurrencesSame, Zenon
    <3>3. refcount'[p] = refcount[p] /\ (p \in free' <=> p \in free)
      BY <1>1, <2>4, Zenon
    <3>4. QED BY <2>1, <3>2, <3>3, MemoryFacts
  <2>5. QED BY <2>3, <2>4, Zenon
<1> HIDE DEF seq, lost, gone
<1>7. slots' \in Tables /\ RefcountExact'
  BY <1>1, <1>2, <1>3, <1>6, CountTable, Zenon
<1>8. /\ free' \subseteq Blocks /\ refcount' \in [Blocks -> Nat] /\ filled' \in [Sessions -> Nat]
      /\ FreeIffUnreferenced'
  BY <1>1, <1>5, <1>6, Zenon DEF Memory, FreeIffUnreferenced
<1>9. QED BY <1>7, <1>8, Zenon DEF Memory

\* A current handle restores into the slots it took, and leaves the others as
\* they are: its stay entries are already in place.
LEMMA PlacedCurrent ==
  ASSUME Memory, NEW h \in handles, h \in Handle, Current(h), NEW taken
  PROVE  Placed(h.session, h, taken)
           = [i \in 1 .. Len(slots[h.session]) |-> IF i \in h.gone THEN taken[i] ELSE slots[h.session][i]]
<1> DEFINE s == h.session
           at == h.gone \cup {r[1] : r \in h.stay}
           reach == {Len(slots[s])} \cup at
           end == CHOOSE n \in reach : \A m \in reach : m <= n
<1>1. /\ s \in Sessions /\ Len(slots[s]) \in Nat
      /\ \A i \in h.gone : i \in 1 .. Len(slots[s]) /\ slots[s][i] = Externalized
      /\ \A r \in h.stay : r[1] \in 1 .. Len(slots[s]) /\ slots[s][r[1]] = r[2] /\ r[2] \in Blocks
  BY LenProperties, Zenon DEF Current, Memory, Tables, Handle
<1>2. \A m \in reach : m \in Nat /\ m <= Len(slots[s])
  BY <1>1
<1>3. end = Len(slots[s])
  <2>1. Len(slots[s]) \in reach /\ \A m \in reach : m <= Len(slots[s])
    BY <1>2, Zenon
  <2>2. end \in reach /\ \A m \in reach : m <= end
    BY <2>1, Zenon
  <2>3. end <= Len(slots[s]) /\ Len(slots[s]) <= end /\ end \in Nat
    BY <1>2, <2>1, <2>2, Zenon
  <2>4. QED BY <1>1, <2>3
<1>4. ASSUME NEW i \in 1 .. Len(slots[s]), \E r \in h.stay : r[1] = i
      PROVE  (CHOOSE r \in h.stay : r[1] = i)[2] = slots[s][i] /\ i \notin h.gone
  <2>1. PICK r \in h.stay : r[1] = i /\ (CHOOSE q \in h.stay : q[1] = i) = r
    BY <1>4, Zenon
  <2>2. slots[s][i] = r[2] /\ r[2] \in Blocks
    BY <1>1, <2>1, Zenon
  <2>3. QED BY <1>1, <2>1, <2>2, BlocksAssumption, Zenon
<1>5. Placed(s, h, taken) =
        [i \in 1 .. end |->
           IF \E r \in h.stay : r[1] = i THEN (CHOOSE r \in h.stay : r[1] = i)[2]
           ELSE IF i \in h.gone THEN taken[i]
           ELSE IF i <= Len(slots[s]) THEN slots[s][i]
           ELSE Externalized]
  BY Zenon DEF Placed
<1> HIDE DEF end, s
<1>6. Placed(s, h, taken) = [i \in 1 .. Len(slots[s]) |-> IF i \in h.gone THEN taken[i] ELSE slots[s][i]]
  BY <1>1, <1>3, <1>4, <1>5
<1>7. QED BY <1>6, Zenon DEF s

LEMMA RestoreMemory ==
  ASSUME Memory, IndexTypeOK, NEW h \in handles, h \in Handle, Current(h), Restore(h.session, h)
  PROVE  Memory'
<1> DEFINE s == h.session
<1>1. PICK taken \in TakeFree(h.gone) : /\ Allocate(Range(taken))
                                        /\ slots' = [slots EXCEPT ![s] = Placed(s, h, taken)]
  BY Zenon DEF Restore
<1> DEFINE seq == [i \in 1 .. Len(slots[s]) |-> IF i \in h.gone THEN taken[i] ELSE slots[s][i]]
<1>2. /\ s \in Sessions /\ UNCHANGED <<filled, cached_by_block>>
      /\ slots[s] \in Seq(Slot) /\ Len(slots[s]) \in Nat /\ Len(slots[s]) <= MaxSlots
      /\ DOMAIN slots[s] = 1 .. Len(slots[s])
      /\ \A i \in 1 .. Len(slots[s]) : slots[s][i] \in Slot
      /\ \A i \in h.gone : i \in 1 .. Len(slots[s]) /\ slots[s][i] = Externalized
  BY LenProperties, ElementOfSeq, Zenon DEF Memory, Tables, Restore, indexVars, Handle, Current
<1>3. /\ taken \in [h.gone -> free] /\ IsInjective(taken) /\ DOMAIN taken = h.gone
      /\ Range(taken) \subseteq free /\ free \subseteq Blocks
  BY Zenon DEF TakeFree, Injection, Range, Memory
<1>4. seq \in Seq(Slot) /\ Len(seq) = Len(slots[s]) /\ DOMAIN seq = 1 .. Len(slots[s])
  <2>1. seq \in [1 .. Len(slots[s]) -> Slot]
    BY <1>2, <1>3, Zenon DEF Slot
  <2>2. QED BY <1>2, <2>1, SMTT(30)
<1>5. slots' = [slots EXCEPT ![s] = seq]
  BY <1>1, PlacedCurrent, Zenon
<1>6. /\ free' = free \ Range(taken)
      /\ refcount' = [p \in Blocks |-> IF p \in Range(taken) THEN 1 ELSE refcount[p]]
  BY <1>1, Zenon DEF Allocate
<1>7. ASSUME NEW p \in Blocks
      PROVE  /\ refcount'[p] = refcount[p] - Occurrences(slots[s], p) + Occurrences(seq, p)
             /\ refcount'[p] \in Nat
             /\ p \in free' <=> refcount'[p] = 0
  <2>1. p \in free <=> refcount[p] = 0
    BY Zenon DEF Memory, FreeIffUnreferenced
  <2>2. p # Externalized
    BY BlocksAssumption, Zenon
  <2>3. CASE p \in Range(taken)
    <3>1. PICK i \in h.gone : taken[i] = p
      BY <1>3, <2>3, Zenon DEF Range
    <3>2. refcount[p] = 0 /\ Occurrences(slots[s], p) = 0
      BY <1>2, <1>3, <2>3, MemoryFacts, Zenon
    <3>3. Positions(slots[s], p) = {}
      BY <1>2, <3>2, PositionsFinite, FS_EmptySet, Zenon
    <3>4. Positions(seq, p) = {i}
      BY <1>2, <1>3, <1>4, <3>1, <3>3, SMTT(30) DEF Positions, IsInjective
    <3> HIDE DEF seq
    <3>5. Cardinality({i}) = 1 /\ Occurrences(seq, p) = Cardinality(Positions(seq, p))
      BY <1>4, PositionsFinite, FS_Singleton, Zenon
    <3>6. Occurrences(seq, p) = 1
      BY <3>4, <3>5, Zenon
    <3>7. QED BY <1>6, <2>3, <3>2, <3>6, SMTT(30)
  <2>4. CASE p \notin Range(taken)
    <3>1. Positions(seq, p) = Positions(slots[s], p)
      BY <1>2, <1>3, <1>4, <2>2, <2>4, Zenon DEF Positions, Range
    <3>2. Occurrences(seq, p) = Occurrences(slots[s], p)
      BY <1>2, <1>4, <3>1, OccurrencesSame, Zenon
    <3>3. refcount'[p] = refcount[p] /\ (p \in free' <=> p \in free)
      BY <1>6, <2>4, Zenon
    <3>4. QED BY <1>2, <2>1, <3>2, <3>3, MemoryFacts, SMTT(30)
  <2>5. QED BY <2>3, <2>4, Zenon
<1> HIDE DEF seq, s
<1>8. slots' \in Tables /\ RefcountExact'
  BY <1>2, <1>4, <1>5, <1>7, CountTable, Zenon
<1>9. /\ free' \subseteq Blocks /\ refcount' \in [Blocks -> Nat] /\ filled' \in [Sessions -> Nat]
      /\ FreeIffUnreferenced'
  BY <1>2, <1>3, <1>6, <1>7, Zenon DEF Memory, FreeIffUnreferenced
<1>10. QED BY <1>8, <1>9, Zenon DEF Memory

\* commit_block: the index takes one reference.
LEMMA CommitBlockMemory ==
  ASSUME Memory, IndexTypeOK, NEW s \in Sessions, NEW i \in Nat, NEW h \in Hashes, CommitBlock(s, i, h)
  PROVE  Memory'
<1> DEFINE x == slots[s][i]
<1>1. /\ x \in Blocks /\ cached_by_block[x] = None /\ h # None /\ i \in 1 .. Len(slots[s])
      /\ refcount' = [refcount EXCEPT ![x] = @ + 1]
      /\ cached_by_block' = [cached_by_block EXCEPT ![x] = h]
      /\ UNCHANGED <<free, slots, filled>>
  BY HashesAssumption, Zenon DEF CommitBlock, Resident, tableVars
<1>2. ASSUME NEW p \in Blocks
      PROVE  /\ refcount'[p] = Cardinality(References(p)') + IndexReferences(p)'
             /\ refcount'[p] \in Nat
             /\ p \in free' <=> refcount'[p] = 0
  <2>1. refcount[p] = Cardinality(References(p)) + IndexReferences(p)
    BY Zenon DEF Memory, RefcountExact
  <2>2. References(p)' = References(p)
    BY <1>1, Zenon DEF References
  <2>3. Cardinality(References(p)') = Cardinality(References(p)) /\ Cardinality(References(p)) \in Nat
    BY <2>2, ReferencesFinite, Zenon
  <2>4. IndexReferences(p)' = IF p = x THEN 1 ELSE IndexReferences(p)
    BY <1>1, Zenon DEF IndexReferences, IndexTypeOK
  <2>5. p = x => IndexReferences(p) = 0
    BY <1>1, Zenon DEF IndexReferences
  <2>6. refcount'[p] = IF p = x THEN refcount[p] + 1 ELSE refcount[p]
    BY <1>1, Zenon DEF Memory
  <2>7. p \in free <=> refcount[p] = 0
    BY Zenon DEF Memory, FreeIffUnreferenced
  <2>8. p = x => refcount[p] # 0
    <3>1. x \in Blocks => slots[s] \in Seq(Slot) /\ i \in Positions(slots[s], x)
      BY <1>1 DEF Positions, Memory, Tables
    <3>2. x \in Blocks => Occurrences(slots[s], x) # 0
      BY <3>1, PositionsFinite, FS_EmptySet, Zenon
    <3>3. IndexReferences(x) \in Nat
      BY Zenon DEF IndexReferences
    <3> HIDE DEF x
    <3>4. x \in Blocks => refcount[x] # 0
      BY <3>2, <3>3, MemoryFacts
    <3>5. QED BY <3>4, Zenon
  <2> HIDE DEF x
  <2>9. refcount[p] \in Nat
    BY MemoryFacts, Zenon
  <2>10. free' = free
    BY <1>1, Zenon
  <2>11. QED BY <2>1, <2>3, <2>4, <2>5, <2>6, <2>7, <2>8, <2>9, <2>10
<1> HIDE DEF x
<1>3. /\ free' \subseteq Blocks /\ refcount' \in [Blocks -> Nat]
      /\ slots' \in Tables /\ filled' \in [Sessions -> Nat]
  BY <1>1, <1>2, Zenon DEF Memory
<1>4. QED BY <1>2, <1>3, Zenon DEF Memory, RefcountExact, FreeIffUnreferenced

\* splice_cached_chain: counted references to blocks the index holds.
LEMMA SpliceCachedChainMemory ==
  ASSUME Memory, IndexTypeOK, IndexInverse, NEW s \in Sessions, NEW hashes \in Chains,
         SpliceCachedChain(s, hashes)
  PROVE  Memory'
<1>0. PICK n \in 0 .. Len(hashes) : Hits(hashes, n) /\ Attach(s, [k \in 1 .. n |-> cached[hashes[k]]])
  BY Zenon DEF SpliceCachedChain
<1> DEFINE seq == [k \in 1 .. n |-> cached[hashes[k]]]
<1>1. /\ slots[s] = <<>> /\ Len(seq) <= MaxSlots
      /\ refcount' = [p \in Blocks |-> refcount[p] + Occurrences(seq, p)]
      /\ slots' = [slots EXCEPT ![s] = seq]
      /\ filled' = [filled EXCEPT ![s] = Len(seq) * BlockSize]
      /\ UNCHANGED <<free, cached_by_block>>
  BY <1>0, Zenon DEF SpliceCachedChain, Attach, AddReferences, indexVars
<1>2. hashes \in Seq(Hashes) /\ Len(hashes) \in Nat
  BY BoundsAssumption DEF Chains
<1>3. n \in 0 .. Len(hashes) /\ \A k \in 1 .. n : cached[hashes[k]] # None
  BY <1>0, Zenon DEF Hits
<1>4. /\ seq \in Seq(Slot) /\ Len(seq) = n
      /\ \A k \in 1 .. Len(seq) : seq[k] \in Blocks /\ cached_by_block[seq[k]] # None
  <2>1. ASSUME NEW k \in 1 .. n
        PROVE  cached[hashes[k]] \in Blocks /\ cached_by_block[cached[hashes[k]]] # None
    <3>1. hashes[k] \in Hashes
      BY <1>2, <1>3
    <3>2. QED BY <1>3, <3>1, HashesAssumption DEF IndexTypeOK, IndexInverse
  <2>2. seq \in [1 .. n -> Slot] /\ n \in Nat
    BY <1>3, <2>1 DEF Slot
  <2>3. QED BY <2>1, <2>2
<1>5. ASSUME NEW p \in Blocks
      PROVE  /\ refcount'[p] = refcount[p] - Occurrences(slots[s], p) + Occurrences(seq, p)
             /\ refcount'[p] \in Nat
             /\ p \in free' <=> refcount'[p] = 0
  <2>1. Occurrences(slots[s], p) = 0
    BY <1>1, OccurrencesEmpty, Zenon
  <2>2. Occurrences(seq, p) \in Nat
    BY <1>4, PositionsFinite, Zenon
  <2>3. Occurrences(seq, p) # 0 => refcount[p] # 0
    <3>1. SUFFICES ASSUME Occurrences(seq, p) # 0 PROVE refcount[p] # 0
      BY Zenon
    <3>2. Positions(seq, p) # {}
      BY <1>4, <3>1, PositionsFinite, FS_EmptySet, Zenon
    <3>3. PICK k \in 1 .. Len(seq) : seq[k] = p
      BY <1>4, <3>2, Zenon DEF Positions
    <3>4. IndexReferences(p) = 1
      BY <1>4, <3>3, Zenon DEF IndexReferences
    <3>5. QED BY <3>4, MemoryFacts
  <2>4. p \in free <=> refcount[p] = 0
    BY Zenon DEF Memory, FreeIffUnreferenced
  <2>5. refcount'[p] = refcount[p] + Occurrences(seq, p) /\ free' = free
    BY <1>1, Zenon
  <2>6. QED BY <2>1, <2>2, <2>3, <2>4, <2>5, MemoryFacts, SMTT(30)
<1> HIDE DEF seq
<1>6. slots' \in Tables /\ RefcountExact'
  BY <1>1, <1>4, <1>5, CountTable, Zenon
<1>7. Len(seq) * BlockSize \in Nat
  BY <1>4, BlockSizeAssumption, LenProperties
<1>8. /\ free' \subseteq Blocks /\ refcount' \in [Blocks -> Nat] /\ filled' \in [Sessions -> Nat]
      /\ FreeIffUnreferenced'
  BY <1>1, <1>5, <1>7, Zenon DEF Memory, FreeIffUnreferenced
<1>9. QED BY <1>6, <1>8, Zenon DEF Memory

\* release_cached: the index gives its reference up.
LEMMA ReleaseCachedMemory ==
  ASSUME Memory, IndexTypeOK, IndexInverse, NEW h \in Hashes, ReleaseCached(h)
  PROVE  Memory'
<1> DEFINE x == cached[h]
<1>1. x \in Blocks /\ cached_by_block[x] = h /\ h # None
  BY HashesAssumption, Zenon DEF ReleaseCached, IndexTypeOK, IndexInverse
<1>2. /\ refcount' = [p \in Blocks |-> refcount[p] - Occurrences(<<x>>, p)]
      /\ free' = free \cup {p \in Blocks : Occurrences(<<x>>, p) > 0 /\ refcount'[p] = 0}
      /\ cached_by_block' = [cached_by_block EXCEPT ![x] = None]
      /\ UNCHANGED <<slots, filled>>
  BY Zenon DEF ReleaseCached, DropReferences, tableVars
<1>3. ASSUME NEW p \in Blocks
      PROVE  /\ refcount'[p] = Cardinality(References(p)') + IndexReferences(p)'
             /\ refcount'[p] \in Nat
             /\ p \in free' <=> refcount'[p] = 0
  <2>1. refcount[p] = Cardinality(References(p)) + IndexReferences(p)
    BY Zenon DEF Memory, RefcountExact
  <2>2. References(p)' = References(p)
    BY <1>2, Zenon DEF References
  <2>3. Cardinality(References(p)') = Cardinality(References(p)) /\ Cardinality(References(p)) \in Nat
    BY <2>2, ReferencesFinite, Zenon
  <2>4. IndexReferences(p)' = IF p = x THEN 0 ELSE IndexReferences(p)
    BY <1>1, <1>2, Zenon DEF IndexReferences, IndexTypeOK
  <2>5. p = x => IndexReferences(p) = 1
    BY <1>1, Zenon DEF IndexReferences
  <2>6. Occurrences(<<x>>, p) = IF p = x THEN 1 ELSE 0
    <3>1. <<x>> \in Seq(Slot) /\ IsInjective(<<x>>) /\ Range(<<x>>) = {x}
      BY <1>1 DEF Slot, IsInjective, Range
    <3>2. QED BY <3>1, OccurrencesInjective, Zenon
  <2>7. refcount'[p] = refcount[p] - Occurrences(<<x>>, p)
    BY <1>2, Zenon
  <2>8. p \in free <=> refcount[p] = 0
    BY Zenon DEF Memory, FreeIffUnreferenced
  <2>9. p \in free' <=> p \in free \/ (Occurrences(<<x>>, p) > 0 /\ refcount'[p] = 0)
    BY <1>2, Zenon
  <2> HIDE DEF x
  <2>10. IndexReferences(p) \in Nat
    BY Zenon DEF IndexReferences
  <2>11. QED BY <2>1, <2>3, <2>4, <2>5, <2>6, <2>7, <2>8, <2>9, <2>10, SMTT(30)
<1> HIDE DEF x
<1>4. /\ free' \subseteq Blocks /\ refcount' \in [Blocks -> Nat]
      /\ slots' \in Tables /\ filled' \in [Sessions -> Nat]
  BY <1>2, <1>3, Zenon DEF Memory
<1>5. QED BY <1>3, <1>4, Zenon DEF Memory, RefcountExact, FreeIffUnreferenced

-----------------------------------------------------------------------------
(* The counting invariant is inductive. *)

LEMMA CountingTypes == Counting <=> TypeOK /\ RefcountExact /\ FreeIffUnreferenced /\ IndexInverse
BY Zenon DEF Counting, ClientTypeOK, IndexTypeOK, Memory, TypeOK, Tables, Slot

LEMMA BlocksForType ==
  ASSUME NEW n \in Nat
  PROVE  BlocksFor(n) \in Int
BY BlockSizeAssumption DEF BlocksFor

LEMMA ClientTypeStep ==
  ASSUME Counting, Next
  PROVE  ClientTypeOK'
<1> USE DEF ClientTypeOK
<1>1. ClientTypeOK /\ Memory
  BY Zenon DEF Counting
<1>2. next_session < MaxSessions => next_session \in Sessions
  BY <1>1, BoundsAssumption DEF Sessions
<1>3. CASE SessionStep
  <2>1. CASE Open
    BY <1>1, <1>2, <2>1, BoundsAssumption DEF Open, MintSession
  <2>2. ASSUME NEW s \in Sessions, NEW n \in 1 .. MaxFilled, AppendTokens(s, n) PROVE ClientTypeOK'
    BY <1>1, <2>2, Zenon DEF AppendTokens
  <2>3. ASSUME NEW s \in Sessions, Discard(s) PROVE ClientTypeOK'
    BY <1>1, <2>3, Zenon DEF Discard, Forget
  <2>4. ASSUME NEW s \in Sessions, NEW indices \in SUBSET (1 .. Len(slots[s])), EvictBlocks(s, indices)
        PROVE  ClientTypeOK'
    <3> DEFINE gone == {i \in indices : Detachable(s, i)}
               stay == {<<i, slots[s][i]>> : i \in {j \in indices : Resident(s, j) /\ ~Detachable(s, j)}}
               h == [session |-> s, gone |-> gone, stay |-> stay]
    <3>1. handles' = handles \cup {h} /\ UNCHANGED <<opened, next_session, prefixes>>
      BY <2>4, Zenon DEF EvictBlocks
    <3>2. indices \subseteq 1 .. MaxSlots
      BY <1>1, BoundsAssumption, LenProperties DEF Memory, Tables
    <3>3. gone \in SUBSET (1 .. MaxSlots) /\ stay \in SUBSET ((1 .. MaxSlots) \X Blocks)
      <4>1. \A j \in indices : Resident(s, j) => <<j, slots[s][j]>> \in (1 .. MaxSlots) \X Blocks
        BY <3>2, Zenon DEF Resident
      <4>2. stay \in SUBSET ((1 .. MaxSlots) \X Blocks)
        BY <4>1, Zenon
      <4>3. QED BY <3>2, <4>2, Zenon
    <3>4. h \in Handle
      BY <3>3, Zenon DEF Handle
    <3> HIDE DEF h
    <3>5. QED BY <1>1, <3>1, <3>4, Zenon
  <2>5. QED BY <1>3, <2>1, <2>2, <2>3, <2>4, Zenon DEF SessionStep
<1>4. CASE ShareStep
  BY <1>1, <1>4, Zenon DEF ShareStep, Splice, SplicePrefix, CowBreak
<1>5. CASE PrefixStep
  <2>1. ASSUME NEW s \in Sessions, NEW n \in 0 .. MaxSlots, RegisterPrefix(s, n) PROVE ClientTypeOK'
    BY <1>1, <1>2, <2>1, BoundsAssumption DEF RegisterPrefix, MintSession
  <2>2. ASSUME NEW s \in Sessions, NEW n \in 0 .. MaxSlots, RegisterPrefixRefused(s, n) PROVE ClientTypeOK'
    BY <1>1, <2>2, BoundsAssumption DEF RegisterPrefixRefused, MintSession
  <2>3. ASSUME NEW x \in prefixes, ReleasePrefix(x) PROVE ClientTypeOK'
    BY <1>1, <2>3, Zenon DEF ReleasePrefix, Forget
  <2>4. ASSUME NEW x \in prefixes, NEW s \in Sessions,
               SplicePrefixFrom(x, s) \/ AllocShiftedPrefixSlots(x, s)
        PROVE  ClientTypeOK'
    BY <1>1, <2>4, Zenon DEF SplicePrefixFrom, SplicePrefix, AllocShiftedPrefixSlots
  <2>5. QED BY <1>5, <2>1, <2>2, <2>3, <2>4, Zenon DEF PrefixStep
<1>6. CASE IndexStep
  BY <1>1, <1>6, Zenon DEF IndexStep, CommitBlock, SpliceCachedChain, ReleaseCached, tableVars
<1>7. CASE \E h \in handles : DropHandle(h) \/ (Current(h) /\ Restore(h.session, h))
  BY <1>1, <1>7, Zenon DEF DropHandle, Restore, tableVars
<1>8. QED BY <1>3, <1>4, <1>5, <1>6, <1>7, Zenon DEF Next, PoolStep

LEMMA MemoryUnchanged ==
  ASSUME Memory, UNCHANGED <<free, refcount, slots, filled, cached_by_block>>
  PROVE  Memory'
BY Zenon DEF Memory, RefcountExact, References, IndexReferences, FreeIffUnreferenced

LEMMA MemoryStep ==
  ASSUME Counting, Next
  PROVE  Memory'
<1>1. ClientTypeOK /\ IndexTypeOK /\ IndexInverse /\ Memory
  BY Zenon DEF Counting
<1>2. CASE SessionStep
  <2>1. CASE Open
    BY <1>1, <2>1, MemoryUnchanged, Zenon DEF Open, indexVars
  <2>2. ASSUME NEW s \in Sessions, NEW n \in 1 .. MaxFilled, AppendTokens(s, n) PROVE Memory'
    <3> DEFINE new == Saturating(BlocksFor(filled[s] + n) - Len(slots[s]))
    <3>1. new \in Nat
      <4>1. filled[s] + n \in Nat /\ Len(slots[s]) \in Nat
        BY <1>1, LenProperties DEF Memory, Tables
      <4>2. BlocksFor(filled[s] + n) - Len(slots[s]) \in Int
        BY <4>1, BlocksForType
      <4>3. QED BY <4>2 DEF Saturating
    <3>2. PICK taken \in TakeFree(1 .. new) : Allocate(Range(taken)) /\ Extend(s, taken, n)
      BY <2>2, Zenon DEF AppendTokens
    <3>3. UNCHANGED cached_by_block
      BY <2>2, Zenon DEF AppendTokens, indexVars
    <3> HIDE DEF new
    <3>4. QED BY <1>1, <3>1, <3>2, <3>3, AllocateMemory
  <2>3. ASSUME NEW s \in Sessions, Discard(s) PROVE Memory'
    BY <1>1, <2>3, DiscardMemory, Zenon DEF Discard, indexVars
  <2>4. ASSUME NEW s \in Sessions, NEW indices \in SUBSET (1 .. Len(slots[s])), EvictBlocks(s, indices)
        PROVE  Memory'
    BY <1>1, <2>4, EvictBlocksMemory, Zenon
  <2>5. QED BY <1>2, <2>1, <2>2, <2>3, <2>4, Zenon DEF SessionStep
<1>3. CASE ShareStep
  <2>1. ASSUME NEW src \in Sessions, NEW dst \in Sessions, NEW from \in Nat, NEW to \in Nat,
               Splice(src, dst, from, to)
        PROVE  Memory'
    BY <1>1, <2>1, ShareMemory, Zenon DEF Splice, indexVars
  <2>2. ASSUME NEW src \in Sessions, NEW dst \in Sessions, NEW n \in Nat, SplicePrefix(src, dst, n)
        PROVE  Memory'
    BY <1>1, <2>2, ShareMemory, Zenon DEF SplicePrefix, indexVars
  <2>3. ASSUME NEW s \in Sessions, NEW i \in 1 .. MaxSlots, CowBreak(s, i) PROVE Memory'
    BY <1>1, <2>3, CowBreakMemory
  <2>4. QED BY <1>3, <2>1, <2>2, <2>3 DEF ShareStep
<1>4. CASE PrefixStep
  <2>1. ASSUME NEW s \in Sessions, NEW n \in 0 .. MaxSlots, RegisterPrefix(s, n) PROVE Memory'
    <3>1. next_session \in Sessions
      BY <1>1, <2>1, BoundsAssumption DEF RegisterPrefix, MintSession, Sessions, ClientTypeOK
    <3>2. QED BY <1>1, <2>1, <3>1, ShareMemory DEF RegisterPrefix, indexVars
  <2>2. ASSUME NEW s \in Sessions, NEW n \in 0 .. MaxSlots, RegisterPrefixRefused(s, n) PROVE Memory'
    BY <1>1, <2>2, MemoryUnchanged, Zenon DEF RegisterPrefixRefused, indexVars
  <2>3. ASSUME NEW x \in prefixes, ReleasePrefix(x) PROVE Memory'
    BY <1>1, <2>3, DiscardMemory, Zenon DEF ReleasePrefix, ClientTypeOK, indexVars
  <2>4. ASSUME NEW x \in prefixes, NEW dst \in Sessions, SplicePrefixFrom(x, dst) PROVE Memory'
    BY <1>1, <2>4, ShareMemory, Zenon DEF SplicePrefixFrom, SplicePrefix, ClientTypeOK, indexVars
  <2>5. ASSUME NEW x \in prefixes, NEW dst \in Sessions, AllocShiftedPrefixSlots(x, dst) PROVE Memory'
    <3>1. x.blocks \in Nat /\ x.blocks * BlockSize \in Nat
      BY <1>1, BlockSizeAssumption DEF ClientTypeOK
    <3>2. PICK taken \in TakeFree(1 .. x.blocks) :
            Allocate(Range(taken)) /\ Extend(dst, taken, x.blocks * BlockSize)
      BY <2>5, Zenon DEF AllocShiftedPrefixSlots
    <3>3. UNCHANGED cached_by_block
      BY <2>5, Zenon DEF AllocShiftedPrefixSlots, indexVars
    <3>4. QED BY <1>1, <3>1, <3>2, <3>3, AllocateMemory, Zenon
  <2>6. QED BY <1>4, <2>1, <2>2, <2>3, <2>4, <2>5, Zenon DEF PrefixStep
<1>5. CASE IndexStep
  <2>1. ASSUME NEW s \in Sessions, NEW i \in 1 .. MaxSlots, NEW h \in Hashes, CommitBlock(s, i, h)
        PROVE  Memory'
    BY <1>1, <2>1, CommitBlockMemory
  <2>2. ASSUME NEW s \in Sessions, NEW hashes \in Chains, SpliceCachedChain(s, hashes) PROVE Memory'
    BY <1>1, <2>2, SpliceCachedChainMemory, Zenon
  <2>3. ASSUME NEW h \in Hashes, ReleaseCached(h) PROVE Memory'
    BY <1>1, <2>3, ReleaseCachedMemory, Zenon
  <2>4. QED BY <1>5, <2>1, <2>2, <2>3, Zenon DEF IndexStep
<1>6. ASSUME NEW h \in handles, DropHandle(h) PROVE Memory'
  BY <1>1, <1>6, MemoryUnchanged, Zenon DEF DropHandle, tableVars, indexVars
<1>7. ASSUME NEW h \in handles, Current(h), Restore(h.session, h) PROVE Memory'
  BY <1>1, <1>7, RestoreMemory, Zenon DEF ClientTypeOK
<1>8. QED BY <1>2, <1>3, <1>4, <1>5, <1>6, <1>7, Zenon DEF Next, PoolStep

LEMMA CountingInit == Init => Counting
<1> SUFFICES ASSUME Init PROVE Counting
  BY Zenon
<1>1. slots \in Tables /\ ClientTypeOK /\ IndexTypeOK /\ IndexInverse
  BY BoundsAssumption, EmptySeq DEF Init, Tables, ClientTypeOK, IndexTypeOK, IndexInverse
<1>2. ASSUME NEW p \in Blocks PROVE refcount[p] = Cardinality(References(p)) + IndexReferences(p)
  <2>1. References(p) = {}
    BY DEF Init, References
  <2>2. Cardinality(References(p)) = 0
    BY <2>1, FS_EmptySet, Zenon
  <2>3. QED BY <2>2 DEF Init, IndexReferences
<1>3. QED BY <1>1, <1>2, Zenon DEF Init, Counting, Memory, RefcountExact, FreeIffUnreferenced

LEMMA CountingStep ==
  ASSUME Counting, [Next]_vars
  PROVE  Counting'
<1>1. CASE Next
  BY <1>1, ClientTypeStep, MemoryStep, IndexStepPreserves, Zenon DEF Counting
<1>2. CASE UNCHANGED vars
  <2>1. UNCHANGED <<free, refcount, slots, filled, cached_by_block>>
    BY <1>2, Zenon DEF vars, tableVars, indexVars
  <2>2. ClientTypeOK'
    BY <1>2, Zenon DEF Counting, ClientTypeOK, vars, tableVars
  <2>3. QED BY <1>2, <2>1, <2>2, MemoryUnchanged, IndexStepPreserves, Zenon DEF Counting
<1>3. QED BY <1>1, <1>2, Zenon

LEMMA CountingAlways == Spec => []Counting
BY CountingInit, CountingStep, PTL DEF Spec

\* Every part of the pool has its type; in particular no u32 count underflows
\* in the decrements of discard, cow_break and release_cached.
THEOREM TypeCorrect == Spec => []TypeOK
BY CountingAlways, CountingTypes, PTL

\* A block's count is the number of slots that name it plus the index's
\* reference, after any interleaving of the pool's operations in which clients
\* restore current handles only.
THEOREM RefcountExactAlways == Spec => []RefcountExact
BY CountingAlways, CountingTypes, PTL

\* A block is on the free list exactly when nothing references it: no leak, and
\* no block is handed out while a session or the index still reads it.
THEOREM FreeIffUnreferencedAlways == Spec => []FreeIffUnreferenced
BY CountingAlways, CountingTypes, PTL

-----------------------------------------------------------------------------
(* Registered prefixes stay whole. *)

\* A step that opens and closes no session, registers nothing and changes the
\* table of one open session that owns no prefix.
LEMMA ClientTableStep ==
  ASSUME Counting, Ownership, NEW s \in Clients,
         UNCHANGED <<opened, next_session, prefixes>>,
         \A t \in Sessions \ {s} : slots'[t] = slots[t] /\ filled'[t] = filled[t]
  PROVE  Ownership'
<1>1. s \in opened /\ \A x \in prefixes : x.owner # s /\ x.owner \in Sessions
  BY Zenon DEF Clients, Owners, Counting, ClientTypeOK
<1>2. PrefixWhole'
  BY <1>1, Zenon DEF Ownership, PrefixWhole, Resident
<1>3. QED BY <1>1, <1>2, Zenon DEF Ownership

LEMMA OwnershipUnchanged ==
  ASSUME Ownership, UNCHANGED <<opened, slots, filled, prefixes>>,
         next_session' \in Int, next_session \in Int, next_session <= next_session', opened \subseteq Int
  PROVE  Ownership'
<1>1. PrefixWhole'
  BY Zenon DEF Ownership, PrefixWhole, Resident
<1>2. QED BY <1>1 DEF Ownership

\* evict_blocks leaves an owner's table as it is.
LEMMA EvictOwner ==
  ASSUME Counting, NEW s \in Sessions, s \in Owners, NEW indices, EvictBlocks(s, indices)
  PROVE  slots' = slots
<1>1. slots' = [slots EXCEPT ![s] = [i \in 1 .. Len(slots[s]) |-> slots[s][i]]]
  BY Zenon DEF EvictBlocks, Detachable
<1>2. slots[s] \in Seq(Slot) /\ slots \in [Sessions -> Seq(Slot)]
  BY Zenon DEF Counting, Memory, Tables
<1>3. slots[s] = [i \in 1 .. Len(slots[s]) |-> slots[s][i]]
  BY <1>2, LenProperties, Zenon
<1>4. QED BY <1>1, <1>2, <1>3, Zenon

\* A current handle of an owner took nothing, so restoring it changes nothing.
LEMMA RestoreOwner ==
  ASSUME Counting, Ownership, NEW x \in prefixes, NEW h \in handles, h.session = x.owner,
         Current(h), Restore(h.session, h)
  PROVE  slots' = slots
<1> DEFINE s == x.owner
<1>1. /\ Memory /\ h \in Handle /\ s \in Sessions
      /\ slots[s] \in Seq(Slot) /\ slots \in [Sessions -> Seq(Slot)]
  BY Zenon DEF Counting, ClientTypeOK, Memory, Tables
<1>2. \A i \in h.gone : i \in 1 .. Len(slots[s]) /\ slots[s][i] = Externalized
  BY Zenon DEF Current
<1>3. \A i \in 1 .. Len(slots[s]) : slots[s][i] \in Blocks
  BY Zenon DEF Ownership, PrefixWhole, Resident
<1>4. h.gone = {}
  BY <1>2, <1>3, BlocksAssumption, Zenon
<1>5. PICK taken \in TakeFree(h.gone) : slots' = [slots EXCEPT ![s] = Placed(s, h, taken)]
  BY Zenon DEF Restore
<1>6. Placed(s, h, taken) = [i \in 1 .. Len(slots[s]) |-> IF i \in h.gone THEN taken[i] ELSE slots[s][i]]
  <2>1. Placed(h.session, h, taken)
          = [i \in 1 .. Len(slots[h.session]) |-> IF i \in h.gone THEN taken[i] ELSE slots[h.session][i]]
    BY <1>1, PlacedCurrent, Zenon
  <2>2. QED BY <2>1, Zenon
<1>7. Placed(s, h, taken) = [i \in 1 .. Len(slots[s]) |-> slots[s][i]]
  BY <1>4, <1>6, Zenon
<1>8. slots[s] = [i \in 1 .. Len(slots[s]) |-> slots[s][i]]
  BY <1>1, LenProperties, Zenon
<1>9. QED BY <1>1, <1>5, <1>7, <1>8, Zenon

\* The owner that register_prefix opens holds n full blocks.
LEMMA RegisteredWhole ==
  ASSUME Counting, Ownership, NEW d \in Sessions, NEW n \in Nat, RegisterPrefix(d, n)
  PROVE  /\ next_session \in Sessions /\ next_session \notin opened
         /\ Len(slots'[next_session]) = n
         /\ \A i \in 1 .. n : i \in 1 .. Len(slots'[next_session]) /\ slots'[next_session][i] \in Blocks
         /\ filled'[next_session] = n * BlockSize
         /\ \A t \in Sessions \ {next_session} : slots'[t] = slots[t] /\ filled'[t] = filled[t]
<1> DEFINE seq == Collected(d, 0, n)
           o == next_session
<1>1. /\ o \in Sessions /\ o \notin opened /\ slots[o] = <<>> /\ filled[o] = 0
      /\ slots \in [Sessions -> Seq(Slot)] /\ filled \in [Sessions -> Nat]
  <2>1. o \in Int /\ o \in 0 .. MaxSessions /\ o < MaxSessions
    BY DEF Counting, ClientTypeOK, RegisterPrefix, MintSession
  <2>2. o \in Sessions
    BY <2>1, BoundsAssumption DEF Sessions
  <2>3. o \notin opened
    BY <2>1 DEF Ownership
  <2>4. QED BY <2>2, <2>3, Zenon DEF Ownership, Counting, Memory, Tables
<1>2. /\ n * BlockSize <= filled[d] /\ n <= Len(slots[d])
      /\ \A i \in 1 .. n : slots[d][i] \in Blocks
  BY DEF RegisterPrefix, FullPrefix, Share, SpliceRange, Resident
<1>3. seq \in [1 .. n -> Blocks] /\ seq \in Seq(Slot) /\ Len(seq) = n
  BY <1>2 DEF Collected, Slot
<1>4. SharedTokens(d, 0, n) = n * BlockSize
  <2>1. n * BlockSize \in Nat /\ filled[d] \in Nat
    BY <1>1, BlockSizeAssumption
  <2>2. (n - 0) * BlockSize = n * BlockSize /\ filled[d] - 0 * BlockSize = filled[d]
    BY <2>1, BlockSizeAssumption
  <2>3. QED BY <1>2, <2>1, <2>2 DEF SharedTokens, Least, Saturating
<1>5. /\ slots' = [slots EXCEPT ![o] = slots[o] \o seq]
      /\ filled' = [filled EXCEPT ![o] = filled[o] + SharedTokens(d, 0, n)]
  BY Zenon DEF RegisterPrefix, Share, Extend
<1>6. slots[o] \o seq = seq
  BY <1>1, <1>3, ConcatEmptySeq, Zenon
<1>7. n * BlockSize \in Nat
  BY BlockSizeAssumption
<1>8. slots'[o] = seq /\ filled'[o] = n * BlockSize
  BY <1>1, <1>4, <1>5, <1>6, <1>7
<1> HIDE DEF seq
<1>9. QED BY <1>1, <1>3, <1>5, <1>8, Zenon

LEMMA OwnershipStep ==
  ASSUME Counting, Ownership, Next
  PROVE  Ownership'
<1>1. /\ slots \in [Sessions -> Seq(Slot)] /\ filled \in [Sessions -> Nat]
      /\ opened \subseteq Sessions /\ next_session \in 0 .. MaxSessions
      /\ \A x \in prefixes : x.owner \in Sessions /\ x.blocks \in Nat
      /\ Sessions \subseteq Int
  BY DEF Counting, ClientTypeOK, Memory, Tables, Sessions
<1>2. ASSUME NEW s \in Clients, NEW seq, NEW tokens, Extend(s, seq, tokens),
             UNCHANGED <<opened, next_session, prefixes>>
      PROVE  Ownership'
  BY <1>1, <1>2, ClientTableStep, Zenon DEF Extend
<1>3. CASE SessionStep
  <2>1. CASE Open
    <3>1. next_session \in Int /\ next_session' = next_session + 1 /\ next_session < MaxSessions
      BY <1>1, <2>1 DEF Open, MintSession
    <3>2. opened' = opened \cup {next_session} /\ UNCHANGED <<slots, filled, prefixes>>
      BY <2>1, Zenon DEF Open
    <3>3. PrefixWhole'
      BY <3>2, Zenon DEF Ownership, PrefixWhole, Resident
    <3>4. \A s \in opened' : s < next_session'
      BY <1>1, <3>1, <3>2 DEF Ownership
    <3>5. QED BY <3>2, <3>3, <3>4, Zenon DEF Ownership
  <2>2. ASSUME NEW s \in Sessions, NEW n \in 1 .. MaxFilled, AppendTokens(s, n) PROVE Ownership'
    BY <1>2, <2>2, Zenon DEF AppendTokens
  <2>3. ASSUME NEW s \in Sessions, Discard(s) PROVE Ownership'
    <3>1. /\ opened' = opened \ {s} /\ UNCHANGED <<next_session, prefixes>>
          /\ slots' = [slots EXCEPT ![s] = <<>>] /\ filled' = [filled EXCEPT ![s] = 0]
          /\ \A x \in prefixes : x.owner # s
      BY <2>3, Zenon DEF Discard, Forget, Clients, Owners
    <3>2. PrefixWhole'
      BY <1>1, <3>1, Zenon DEF Ownership, PrefixWhole, Resident
    <3>3. QED BY <1>1, <3>1, <3>2, Zenon DEF Ownership
  <2>4. ASSUME NEW s \in Sessions, NEW indices \in SUBSET (1 .. Len(slots[s])), EvictBlocks(s, indices)
        PROVE  Ownership'
    <3>1. s \in opened /\ UNCHANGED <<opened, filled, next_session, prefixes>>
      BY <2>4, Zenon DEF EvictBlocks
    <3>2. CASE s \in Owners
      <4>1. slots' = slots
        BY <2>4, <3>2, EvictOwner, Zenon
      <4>2. QED BY <1>1, <3>1, <4>1, OwnershipUnchanged
    <3>3. CASE s \notin Owners
      <4>1. s \in Clients
        BY <3>1, <3>3, Zenon DEF Clients
      <4>2. \A t \in Sessions \ {s} : slots'[t] = slots[t]
        BY <1>1, <2>4, Zenon DEF EvictBlocks
      <4>3. QED BY <3>1, <4>1, <4>2, ClientTableStep, Zenon
    <3>4. QED BY <3>2, <3>3, Zenon
  <2>5. QED BY <1>3, <2>1, <2>2, <2>3, <2>4, Zenon DEF SessionStep
<1>4. CASE ShareStep
  <2>1. ASSUME NEW src \in Sessions, NEW dst \in Sessions, NEW from, NEW to, Splice(src, dst, from, to)
        PROVE  Ownership'
    BY <1>2, <2>1, Zenon DEF Splice, Share
  <2>2. ASSUME NEW src \in Sessions, NEW dst \in Sessions, NEW n, SplicePrefix(src, dst, n)
        PROVE  Ownership'
    BY <1>2, <2>2, Zenon DEF SplicePrefix, Share
  <2>3. ASSUME NEW s \in Sessions, NEW i \in 1 .. MaxSlots, CowBreak(s, i) PROVE Ownership'
    <3>1. s \in Clients /\ UNCHANGED <<opened, filled, next_session, prefixes>>
      BY <2>3, Zenon DEF CowBreak
    <3>2. \A t \in Sessions \ {s} : slots'[t] = slots[t]
      BY <1>1, <2>3, Zenon DEF CowBreak
    <3>3. QED BY <3>1, <3>2, ClientTableStep, Zenon
  <2>4. QED BY <1>4, <2>1, <2>2, <2>3, Zenon DEF ShareStep
<1>5. CASE PrefixStep
  <2>1. ASSUME NEW d \in Sessions, NEW n \in 0 .. MaxSlots, RegisterPrefix(d, n) PROVE Ownership'
    <3> DEFINE o == next_session
               z == [owner |-> o, blocks |-> n]
    <3>1. /\ o \in Sessions /\ o \notin opened
          /\ Len(slots'[o]) = n
          /\ \A i \in 1 .. n : i \in 1 .. Len(slots'[o]) /\ slots'[o][i] \in Blocks
          /\ filled'[o] = n * BlockSize
          /\ \A t \in Sessions \ {o} : slots'[t] = slots[t] /\ filled'[t] = filled[t]
      BY <2>1, RegisteredWhole
    <3>2. next_session' = o + 1 /\ opened' = opened \cup {o} /\ prefixes' = prefixes \cup {z}
      BY <2>1, Zenon DEF RegisterPrefix, MintSession
    <3>3. \A x \in prefixes : x.owner \in opened /\ x.owner # o
      BY <3>1, Zenon DEF Ownership, PrefixWhole
    <3>4. PrefixWhole'
      <4>1. SUFFICES ASSUME NEW x \in prefixes'
                     PROVE  /\ x.owner \in opened' /\ Len(slots'[x.owner]) = x.blocks
                            /\ \A i \in 1 .. x.blocks :
                                 i \in 1 .. Len(slots'[x.owner]) /\ slots'[x.owner][i] \in Blocks
                            /\ filled'[x.owner] = x.blocks * BlockSize
        BY Zenon DEF PrefixWhole, Resident
      <4>2. CASE x \in prefixes
        <5>1. slots'[x.owner] = slots[x.owner] /\ filled'[x.owner] = filled[x.owner]
          BY <1>1, <3>1, <3>3, <4>2, Zenon
        <5>2. QED BY <3>2, <4>2, <5>1, Zenon DEF Ownership, PrefixWhole, Resident
      <4>3. CASE x = z
        BY <3>1, <3>2, <4>3, Zenon
      <4>4. QED BY <3>2, <4>2, <4>3, Zenon
    <3>5. \A s \in opened' : s < next_session'
      BY <1>1, <3>2 DEF Ownership
    <3>6. \A x, y \in prefixes' : x.owner = y.owner => x = y
      BY <3>2, <3>3 DEF Ownership
    <3>7. \A s \in Sessions \ opened' : slots'[s] = <<>> /\ filled'[s] = 0
      BY <3>1, <3>2, Zenon DEF Ownership
    <3>8. QED BY <3>4, <3>5, <3>6, <3>7, Zenon DEF Ownership
  <2>2. ASSUME NEW d \in Sessions, NEW n \in 0 .. MaxSlots, RegisterPrefixRefused(d, n) PROVE Ownership'
    <3>1. next_session' = next_session + 1 /\ UNCHANGED <<opened, slots, filled, prefixes>>
      BY <2>2, Zenon DEF RegisterPrefixRefused, MintSession
    <3>2. QED BY <1>1, <3>1, OwnershipUnchanged
  <2>3. ASSUME NEW x \in prefixes, ReleasePrefix(x) PROVE Ownership'
    <3>1. /\ opened' = opened \ {x.owner} /\ prefixes' = prefixes \ {x} /\ UNCHANGED next_session
          /\ slots' = [slots EXCEPT ![x.owner] = <<>>] /\ filled' = [filled EXCEPT ![x.owner] = 0]
      BY <2>3, Zenon DEF ReleasePrefix, Forget
    <3>2. \A y \in prefixes' : y \in prefixes /\ y.owner # x.owner
      BY <3>1, Zenon DEF Ownership
    <3>3. PrefixWhole'
      BY <1>1, <3>1, <3>2, Zenon DEF Ownership, PrefixWhole, Resident
    <3>4. QED BY <1>1, <3>1, <3>3, Zenon DEF Ownership
  <2>4. ASSUME NEW x \in prefixes, NEW dst \in Sessions, SplicePrefixFrom(x, dst) PROVE Ownership'
    BY <1>2, <2>4, Zenon DEF SplicePrefixFrom, SplicePrefix, Share
  <2>5. ASSUME NEW x \in prefixes, NEW dst \in Sessions, AllocShiftedPrefixSlots(x, dst) PROVE Ownership'
    BY <1>2, <2>5, Zenon DEF AllocShiftedPrefixSlots
  <2>6. QED BY <1>5, <2>1, <2>2, <2>3, <2>4, <2>5, Zenon DEF PrefixStep
<1>6. CASE IndexStep
  <2>1. ASSUME NEW s \in Sessions, NEW i \in 1 .. MaxSlots, NEW h \in Hashes, CommitBlock(s, i, h)
        PROVE  Ownership'
    BY <1>1, <2>1, OwnershipUnchanged DEF CommitBlock, tableVars
  <2>2. ASSUME NEW s \in Sessions, NEW hashes \in Chains, SpliceCachedChain(s, hashes) PROVE Ownership'
    <3>1. s \in Clients /\ UNCHANGED <<opened, next_session, prefixes>>
      BY <2>2, Zenon DEF SpliceCachedChain
    <3>2. \A t \in Sessions \ {s} : slots'[t] = slots[t] /\ filled'[t] = filled[t]
      BY <1>1, <2>2, Zenon DEF SpliceCachedChain, Attach
    <3>3. QED BY <3>1, <3>2, ClientTableStep, Zenon
  <2>3. ASSUME NEW h \in Hashes, ReleaseCached(h) PROVE Ownership'
    BY <1>1, <2>3, OwnershipUnchanged DEF ReleaseCached, tableVars
  <2>4. QED BY <1>6, <2>1, <2>2, <2>3, Zenon DEF IndexStep
<1>7. ASSUME NEW h \in handles, DropHandle(h) PROVE Ownership'
  BY <1>1, <1>7, OwnershipUnchanged DEF DropHandle, tableVars
<1>8. ASSUME NEW h \in handles, Current(h), Restore(h.session, h) PROVE Ownership'
  <2>1. h.session \in opened /\ UNCHANGED <<opened, filled, next_session, prefixes>>
    BY <1>8, Zenon DEF Restore
  <2>2. CASE h.session \in Owners
    <3>1. slots' = slots
      BY <1>8, <2>2, RestoreOwner, Zenon DEF Owners
    <3>2. QED BY <1>1, <2>1, <3>1, OwnershipUnchanged
  <2>3. CASE h.session \notin Owners
    <3>1. h.session \in Clients
      BY <2>1, <2>3, Zenon DEF Clients
    <3>2. \A t \in Sessions \ {h.session} : slots'[t] = slots[t]
      BY <1>1, <1>8, Zenon DEF Restore
    <3>3. QED BY <2>1, <3>1, <3>2, ClientTableStep, Zenon
  <2>4. QED BY <2>2, <2>3, Zenon
<1>9. QED BY <1>3, <1>4, <1>5, <1>6, <1>7, <1>8, Zenon DEF Next, PoolStep

LEMMA OwnershipAlways == Spec => []Ownership
<1>1. Init => Ownership
  BY Zenon DEF Init, Ownership, PrefixWhole
<1>2. Counting /\ Ownership /\ [Next]_vars => Ownership'
  <2>1. ASSUME Counting, Ownership, UNCHANGED vars PROVE Ownership'
    <3>1. UNCHANGED <<opened, slots, filled, prefixes, next_session>>
      BY <2>1, Zenon DEF vars, tableVars
    <3>2. next_session \in Int /\ opened \subseteq Int
      BY <2>1 DEF Counting, ClientTypeOK, Sessions
    <3>3. QED BY <2>1, <3>1, <3>2, OwnershipUnchanged
  <2>2. QED BY <2>1, OwnershipStep, Zenon
<1>3. QED BY <1>1, <1>2, CountingAlways, PTL DEF Spec

\* A registered prefix stays whole until release_prefix: donors and sharers may
\* be appended to, evicted, restored, copy-broken or discarded in any order.
THEOREM PrefixWholeAlways == Spec => []PrefixWhole
<1>1. Ownership => PrefixWhole
  BY Zenon DEF Ownership
<1>2. QED BY <1>1, OwnershipAlways, PTL

-----------------------------------------------------------------------------
(* Tokens fit the blocks of their table. *)

LEMMA BlocksForCovers ==
  ASSUME NEW n \in Nat
  PROVE  BlocksFor(n) \in Nat /\ n <= BlocksFor(n) * BlockSize
<1> DEFINE a == n + BlockSize - 1
           q == a \div BlockSize
<1>1. a \in Nat /\ BlockSize \in Nat \ {0}
  BY BlockSizeAssumption
<1>2. q \in Nat /\ a < q * BlockSize + BlockSize
  BY <1>1, SMTT(30)
<1>3. q * BlockSize \in Nat
  BY <1>1, <1>2
<1>4. QED BY <1>1, <1>2, <1>3 DEF BlocksFor

\* Two runs of blocks hold together what each of them holds.
LEMMA FillsAdd ==
  ASSUME NEW a \in Nat, NEW b \in Nat, NEW m \in Nat, NEW n \in Nat, NEW size \in Nat,
         a <= m * size, b <= n * size
  PROVE  a + b <= (m + n) * size
OBVIOUS

\* Growing a table by seq and its fill by at most seq's capacity keeps the fit.
LEMMA ExtendFits ==
  ASSUME Memory, FillFitsBlocks, NEW s \in Sessions, NEW seq \in Seq(Slot), NEW tokens \in Nat,
         Extend(s, seq, tokens),
         filled[s] + tokens <= (Len(slots[s]) + Len(seq)) * BlockSize
  PROVE  FillFitsBlocks'
<1>1. slots \in [Sessions -> Seq(Slot)] /\ filled \in [Sessions -> Nat]
  BY Zenon DEF Memory, Tables
<1>2. Len(slots[s] \o seq) = Len(slots[s]) + Len(seq)
  BY <1>1, ConcatProperties, Zenon
<1>3. slots'[s] = slots[s] \o seq /\ filled'[s] = filled[s] + tokens
  BY <1>1, Zenon DEF Extend
<1>4. \A t \in Sessions \ {s} : slots'[t] = slots[t] /\ filled'[t] = filled[t]
  BY <1>1, Zenon DEF Extend
<1>5. QED BY <1>2, <1>3, <1>4, Zenon DEF FillFitsBlocks

LEMMA ShareFits ==
  ASSUME Memory, FillFitsBlocks, NEW src \in Sessions, NEW dst \in Sessions,
         NEW from \in Nat, NEW to \in Nat, Share(src, dst, from, to)
  PROVE  FillFitsBlocks'
<1> DEFINE k == to - from
           seq == Collected(src, from, to)
           tokens == SharedTokens(src, from, to)
<1>1. k \in Nat /\ \A i \in from + 1 .. to : slots[src][i] \in Slot
  BY DEF Share, SpliceRange, Resident, Slot
<1>2. seq \in Seq(Slot) /\ Len(seq) = k
  <2>1. \A j \in 1 .. k : from + j \in from + 1 .. to
    BY <1>1
  <2>2. seq \in [1 .. k -> Slot]
    BY <1>1, <2>1, Zenon DEF Collected
  <2>3. QED BY <1>1, <2>2
<1>3. k * BlockSize \in Nat /\ filled[src] - from * BlockSize \in Int
  BY <1>1, BlockSizeAssumption DEF Memory
<1>4. tokens \in Nat /\ tokens <= k * BlockSize
  BY <1>3 DEF SharedTokens, Least, Saturating
<1>5. filled[dst] \in Nat /\ Len(slots[dst]) \in Nat /\ filled[dst] <= Len(slots[dst]) * BlockSize
  BY LenProperties, Zenon DEF Memory, Tables, FillFitsBlocks
<1>6. Extend(dst, seq, tokens)
  BY Zenon DEF Share
<1> HIDE DEF k, seq, tokens
<1>7. filled[dst] + tokens <= (Len(slots[dst]) + k) * BlockSize
  BY <1>1, <1>4, <1>5, FillsAdd, BlockSizeAssumption, Zenon
<1>8. QED BY <1>2, <1>4, <1>6, <1>7, ExtendFits, Zenon

LEMMA SaturatingCovers ==
  ASSUME NEW a \in Nat, NEW b \in Nat
  PROVE  Saturating(a - b) \in Nat /\ a <= b + Saturating(a - b)
BY DEF Saturating

LEMMA TakenTable ==
  ASSUME Memory, NEW n \in Nat, NEW taken \in TakeFree(1 .. n)
  PROVE  taken \in Seq(Slot) /\ Len(taken) = n
<1>1. taken \in [1 .. n -> free] /\ free \subseteq Slot
  BY Zenon DEF TakeFree, Injection, Slot, Memory
<1>2. taken \in [1 .. n -> Slot]
  BY <1>1, Zenon
<1>3. QED BY <1>2

LEMMA AppendFits ==
  ASSUME Memory, FillFitsBlocks, NEW s \in Sessions, NEW n \in Nat, AppendTokens(s, n)
  PROVE  FillFitsBlocks'
<1> DEFINE need == BlocksFor(filled[s] + n)
           new == Saturating(need - Len(slots[s]))
<1>1. filled[s] + n \in Nat /\ Len(slots[s]) \in Nat /\ free \subseteq Blocks
  BY LenProperties DEF Memory, Tables
<1>2. filled[s] + n <= need * BlockSize
  BY <1>1, BlocksForCovers, Zenon
<1>3. need \in Nat
  BY <1>1, BlocksForCovers, Zenon
<1>4. PICK taken \in TakeFree(1 .. new) : Extend(s, taken, n)
  BY Zenon DEF AppendTokens
<1> HIDE DEF need
<1>5. new \in Nat /\ need <= Len(slots[s]) + new
  BY <1>1, <1>3, SaturatingCovers, Zenon
<1> HIDE DEF new
<1>6. need * BlockSize <= (Len(slots[s]) + new) * BlockSize
  BY <1>3, <1>1, <1>5, BlockSizeAssumption
<1>7. taken \in Seq(Slot) /\ Len(taken) = new
  BY <1>5, TakenTable, Zenon
<1>8. filled[s] + n <= (Len(slots[s]) + Len(taken)) * BlockSize
  <2>1. need * BlockSize \in Int /\ (Len(slots[s]) + new) * BlockSize \in Int
    BY <1>3, <1>1, <1>5, BlockSizeAssumption
  <2>2. QED BY <1>1, <1>2, <1>6, <1>7, <2>1
<1>9. QED BY <1>4, <1>7, <1>8, ExtendFits, Zenon

LEMMA AllocShiftedFits ==
  ASSUME Memory, FillFitsBlocks, NEW x \in prefixes, x.blocks \in Nat, NEW s \in Sessions,
         AllocShiftedPrefixSlots(x, s)
  PROVE  FillFitsBlocks'
<1>1. PICK taken \in TakeFree(1 .. x.blocks) : Extend(s, taken, x.blocks * BlockSize)
  BY Zenon DEF AllocShiftedPrefixSlots
<1>2. taken \in Seq(Slot) /\ Len(taken) = x.blocks
  BY TakenTable, Zenon
<1>3. filled[s] \in Nat /\ Len(slots[s]) \in Nat /\ filled[s] <= Len(slots[s]) * BlockSize
  BY LenProperties, Zenon DEF Memory, Tables, FillFitsBlocks
<1>4. x.blocks * BlockSize \in Nat
  BY BlockSizeAssumption
<1>5. filled[s] + x.blocks * BlockSize <= (Len(slots[s]) + x.blocks) * BlockSize
  BY <1>3, <1>4, BlockSizeAssumption
<1>6. QED BY <1>1, <1>2, <1>4, <1>5, ExtendFits, Zenon

\* A step that keeps every table's length and fill, or empties a table.
LEMMA LengthsKept ==
  ASSUME FillFitsBlocks, filled \in [Sessions -> Nat],
         \A s \in Sessions : \/ Len(slots'[s]) = Len(slots[s]) /\ filled'[s] = filled[s]
                             \/ slots'[s] = <<>> /\ filled'[s] = 0
  PROVE  FillFitsBlocks'
BY BlockSizeAssumption DEF FillFitsBlocks

LEMMA FillFitsStep ==
  ASSUME Counting, Ownership, FillFitsBlocks, Next
  PROVE  FillFitsBlocks'
<1>1. /\ Memory /\ slots \in [Sessions -> Seq(Slot)] /\ filled \in [Sessions -> Nat]
      /\ \A x \in prefixes : x.owner \in Sessions /\ x.blocks \in Nat
      /\ \A h \in handles : h \in Handle
  BY Zenon DEF Counting, ClientTypeOK, Memory, Tables
<1>2. CASE SessionStep
  <2>1. ASSUME NEW s \in Sessions, NEW n \in 1 .. MaxFilled, AppendTokens(s, n) PROVE FillFitsBlocks'
    BY <1>1, <2>1, AppendFits
  <2>2. ASSUME NEW s \in Sessions, NEW indices, EvictBlocks(s, indices) PROVE FillFitsBlocks'
    <3>1. Len(slots[s]) \in Nat
      BY <1>1, LenProperties, Zenon
    <3>2. Len(slots'[s]) = Len(slots[s]) /\ filled' = filled /\ \A t \in Sessions \ {s} : slots'[t] = slots[t]
      BY <1>1, <2>2, <3>1 DEF EvictBlocks
    <3>3. QED BY <1>1, <3>2, LengthsKept, Zenon
  <2>3. CASE Open \/ \E s \in Sessions : Discard(s)
    BY <1>1, <2>3, LengthsKept, Zenon DEF Open, Discard, Forget
  <2>4. QED BY <1>2, <2>1, <2>2, <2>3, Zenon DEF SessionStep
<1>3. CASE ShareStep
  <2>1. ASSUME NEW src \in Sessions, NEW dst \in Sessions, NEW from \in Nat, NEW to \in Nat,
               Splice(src, dst, from, to)
        PROVE  FillFitsBlocks'
    BY <1>1, <2>1, ShareFits, Zenon DEF Splice
  <2>2. ASSUME NEW src \in Sessions, NEW dst \in Sessions, NEW n \in Nat, SplicePrefix(src, dst, n)
        PROVE  FillFitsBlocks'
    BY <1>1, <2>2, ShareFits, Zenon DEF SplicePrefix
  <2>3. ASSUME NEW s \in Sessions, NEW i \in 1 .. MaxSlots, CowBreak(s, i) PROVE FillFitsBlocks'
    <3>1. PICK q \in free : slots' = [slots EXCEPT ![s][i] = q]
      BY <2>3, Zenon DEF CowBreak
    <3>2. i \in 1 .. Len(slots[s]) /\ q \in Slot /\ filled' = filled
      BY <1>1, <2>3, <3>1, Zenon DEF CowBreak, Resident, Memory, Slot
    <3>3. Len([slots[s] EXCEPT ![i] = q]) = Len(slots[s])
      BY <1>1, <3>2, ExceptSeq
    <3>4. slots'[s] = [slots[s] EXCEPT ![i] = q] /\ \A t \in Sessions \ {s} : slots'[t] = slots[t]
      BY <1>1, <3>1, Zenon
    <3>5. Len(slots'[s]) = Len(slots[s])
      BY <3>3, <3>4, Zenon
    <3>6. QED BY <1>1, <3>2, <3>4, <3>5, LengthsKept, Zenon
  <2>4. QED BY <1>3, <2>1, <2>2, <2>3 DEF ShareStep
<1>4. CASE PrefixStep
  <2>1. ASSUME NEW s \in Sessions, NEW n \in 0 .. MaxSlots, RegisterPrefix(s, n) PROVE FillFitsBlocks'
    <3>1. next_session \in Sessions
      BY <2>1, RegisteredWhole
    <3>2. QED BY <1>1, <2>1, <3>1, ShareFits DEF RegisterPrefix
  <2>2. CASE \/ \E s \in Sessions : \E n \in 0 .. MaxSlots : RegisterPrefixRefused(s, n)
             \/ \E x \in prefixes : ReleasePrefix(x)
    BY <1>1, <2>2, LengthsKept, Zenon DEF RegisterPrefixRefused, ReleasePrefix, Forget
  <2>3. ASSUME NEW x \in prefixes, NEW dst \in Sessions, SplicePrefixFrom(x, dst) PROVE FillFitsBlocks'
    BY <1>1, <2>3, ShareFits, Zenon DEF SplicePrefixFrom, SplicePrefix
  <2>4. ASSUME NEW x \in prefixes, NEW dst \in Sessions, AllocShiftedPrefixSlots(x, dst) PROVE FillFitsBlocks'
    BY <1>1, <2>4, AllocShiftedFits, Zenon
  <2>5. QED BY <1>4, <2>1, <2>2, <2>3, <2>4, Zenon DEF PrefixStep
<1>5. CASE IndexStep
  <2>1. ASSUME NEW s \in Sessions, NEW hashes \in Chains, SpliceCachedChain(s, hashes) PROVE FillFitsBlocks'
    <3>1. PICK n \in 0 .. Len(hashes) : Attach(s, [k \in 1 .. n |-> cached[hashes[k]]])
      BY <2>1, Zenon DEF SpliceCachedChain
    <3> DEFINE run == [k \in 1 .. n |-> cached[hashes[k]]]
    <3>2. slots' = [slots EXCEPT ![s] = run] /\ filled' = [filled EXCEPT ![s] = Len(run) * BlockSize]
      BY <3>1, Zenon DEF Attach
    <3>3. Len(run) = n /\ n \in Nat
      BY BoundsAssumption DEF Chains
    <3> HIDE DEF run
    <3>4. Len(run) * BlockSize \in Nat
      BY <3>3, BlockSizeAssumption
    <3>5. QED BY <1>1, <3>2, <3>3, <3>4 DEF FillFitsBlocks
  <2>2. CASE \/ \E s \in Sessions : \E i \in 1 .. MaxSlots : \E h \in Hashes : CommitBlock(s, i, h)
             \/ \E h \in Hashes : ReleaseCached(h)
    BY <1>1, <2>2, LengthsKept, Zenon DEF CommitBlock, ReleaseCached, tableVars
  <2>3. QED BY <1>5, <2>1, <2>2, Zenon DEF IndexStep
<1>6. ASSUME NEW h \in handles, DropHandle(h) PROVE FillFitsBlocks'
  BY <1>1, <1>6, LengthsKept, Zenon DEF DropHandle, tableVars
<1>7. ASSUME NEW h \in handles, Current(h), Restore(h.session, h) PROVE FillFitsBlocks'
  <2> DEFINE s == h.session
  <2>1. PICK taken : slots' = [slots EXCEPT ![s] = Placed(s, h, taken)] /\ filled' = filled
    BY <1>7, Zenon DEF Restore
  <2>2. s \in Sessions /\ Len(slots[s]) \in Nat
    BY <1>1, LenProperties, Zenon DEF Handle
  <2>3. Placed(s, h, taken) = [i \in 1 .. Len(slots[s]) |-> IF i \in h.gone THEN taken[i] ELSE slots[s][i]]
    BY <1>1, <1>7, PlacedCurrent, Zenon
  <2>4. Len(Placed(s, h, taken)) = Len(slots[s])
    BY <2>2, <2>3
  <2> HIDE DEF s
  <2>5. Len(slots'[s]) = Len(slots[s]) /\ \A t \in Sessions \ {s} : slots'[t] = slots[t]
    BY <1>1, <2>1, <2>2, <2>4, Zenon
  <2>6. QED BY <1>1, <2>1, <2>5, LengthsKept, Zenon
<1>8. QED BY <1>2, <1>3, <1>4, <1>5, <1>6, <1>7, Zenon DEF Next, PoolStep

\* A session never counts more tokens than its blocks hold, so the block that
\* holds its last token always exists in its table.
THEOREM FillFitsBlocksAlways == Spec => []FillFitsBlocks
<1>1. Init => FillFitsBlocks
  BY BlockSizeAssumption DEF Init, FillFitsBlocks
<1>2. Counting /\ Ownership /\ FillFitsBlocks /\ [Next]_vars => FillFitsBlocks'
  <2>1. ASSUME FillFitsBlocks, UNCHANGED vars PROVE FillFitsBlocks'
    BY <2>1, Zenon DEF FillFitsBlocks, vars, tableVars
  <2>2. QED BY <2>1, FillFitsStep, Zenon
<1>3. QED BY <1>1, <1>2, CountingAlways, OwnershipAlways, PTL DEF Spec

-----------------------------------------------------------------------------
(* What a step may do to a resident slot. *)

\* The step that SlotMoves allows.
SlotMove ==
  \A s \in opened \cap opened' : \A i \in 1 .. Len(slots[s]) :
    slots[s][i] \in Blocks /\ slots'[s][i] # slots[s][i] =>
      IF slots'[s][i] = Externalized
      THEN refcount[slots[s][i]] = 1 /\ s \notin Owners
      ELSE refcount[slots[s][i]] > 1 /\ slots'[s][i] \in free

LEMMA ExtendMoves ==
  ASSUME Memory, opened \subseteq Sessions, NEW s \in Sessions, NEW seq \in Seq(Slot), NEW tokens,
         Extend(s, seq, tokens)
  PROVE  SlotMove
<1>1. slots \in [Sessions -> Seq(Slot)] /\ slots[s] \in Seq(Slot)
  BY Zenon DEF Memory, Tables
<1>2. slots'[s] = slots[s] \o seq /\ \A t \in Sessions \ {s} : slots'[t] = slots[t]
  BY <1>1, Zenon DEF Extend
<1>3. \A i \in 1 .. Len(slots[s]) : slots'[s][i] = slots[s][i]
  <2>1. Len(slots[s]) \in Nat /\ Len(seq) \in Nat
    BY <1>1, LenProperties, Zenon
  <2>2. \A i \in 1 .. Len(slots[s]) + Len(seq) :
          (slots[s] \o seq)[i] = IF i <= Len(slots[s]) THEN slots[s][i] ELSE seq[i - Len(slots[s])]
    BY <1>1, ConcatProperties, Zenon
  <2>3. QED BY <1>2, <2>1, <2>2
<1>4. QED BY <1>2, <1>3, Zenon DEF SlotMove

LEMMA ShareMoves ==
  ASSUME Memory, opened \subseteq Sessions, NEW src \in Sessions, NEW dst \in Sessions,
         NEW from \in Nat, NEW to \in Nat, Share(src, dst, from, to)
  PROVE  SlotMove
<1>1. to - from \in Nat /\ \A i \in from + 1 .. to : slots[src][i] \in Slot
  BY DEF Share, SpliceRange, Resident, Slot
<1>2. \A j \in 1 .. to - from : from + j \in from + 1 .. to
  BY <1>1
<1>3. Collected(src, from, to) \in [1 .. to - from -> Slot]
  BY <1>1, <1>2, Zenon DEF Collected
<1>4. Collected(src, from, to) \in Seq(Slot)
  BY <1>1, <1>3
<1>5. QED BY <1>4, ExtendMoves, Zenon DEF Share

LEMMA SlotMoveStep ==
  ASSUME Counting, Ownership, Next
  PROVE  SlotMove
<1>1. /\ Memory /\ slots \in [Sessions -> Seq(Slot)] /\ opened \subseteq Sessions /\ free \subseteq Blocks
      /\ \A x \in prefixes : x.owner \in Sessions /\ x.blocks \in Nat
      /\ \A h \in handles : h \in Handle
  BY Zenon DEF Counting, ClientTypeOK, Memory, Tables
<1>2. ASSUME NEW s \in Sessions, opened' = opened \ {s}, slots' = [slots EXCEPT ![s] = <<>>] PROVE SlotMove
  BY <1>1, <1>2, Zenon DEF SlotMove
<1>3. ASSUME UNCHANGED slots PROVE SlotMove
  BY <1>3, Zenon DEF SlotMove
<1>4. CASE SessionStep
  <2>1. ASSUME NEW s \in Sessions, NEW n \in 1 .. MaxFilled, AppendTokens(s, n) PROVE SlotMove
    <3> DEFINE new == Saturating(BlocksFor(filled[s] + n) - Len(slots[s]))
    <3>1. filled[s] + n \in Nat /\ Len(slots[s]) \in Nat
      BY <1>1, LenProperties DEF Memory
    <3>2. new \in Nat
      BY <3>1, BlocksForCovers, SaturatingCovers, Zenon
    <3>3. PICK taken \in TakeFree(1 .. new) : Extend(s, taken, n)
      BY <2>1, Zenon DEF AppendTokens
    <3> HIDE DEF new
    <3>4. QED BY <1>1, <3>2, <3>3, TakenTable, ExtendMoves, Zenon
  <2>2. ASSUME NEW s \in Sessions, NEW indices, EvictBlocks(s, indices) PROVE SlotMove
    <3>1. \A i \in 1 .. Len(slots[s]) : slots'[s][i] # slots[s][i] =>
             slots'[s][i] = Externalized /\ Detachable(s, i)
      BY <1>1, <2>2, Zenon DEF EvictBlocks
    <3>2. \A t \in Sessions \ {s} : slots'[t] = slots[t]
      BY <1>1, <2>2, Zenon DEF EvictBlocks
    <3>3. QED BY <1>1, <3>1, <3>2, Zenon DEF SlotMove, Detachable
  <2>3. ASSUME NEW s \in Sessions, Discard(s) PROVE SlotMove
    BY <1>2, <2>3, Zenon DEF Discard, Forget
  <2>4. CASE Open
    BY <1>3, <2>4, Zenon DEF Open
  <2>5. QED BY <1>4, <2>1, <2>2, <2>3, <2>4, Zenon DEF SessionStep
<1>5. CASE ShareStep
  <2>1. ASSUME NEW src \in Sessions, NEW dst \in Sessions, NEW from \in Nat, NEW to \in Nat,
               Splice(src, dst, from, to)
        PROVE  SlotMove
    BY <1>1, <2>1, ShareMoves, Zenon DEF Splice
  <2>2. ASSUME NEW src \in Sessions, NEW dst \in Sessions, NEW n \in Nat, SplicePrefix(src, dst, n)
        PROVE  SlotMove
    BY <1>1, <2>2, ShareMoves, Zenon DEF SplicePrefix
  <2>3. ASSUME NEW s \in Sessions, NEW i \in 1 .. MaxSlots, CowBreak(s, i) PROVE SlotMove
    <3>1. PICK q \in free : slots' = [slots EXCEPT ![s][i] = q]
      BY <2>3, Zenon DEF CowBreak
    <3>2. refcount[slots[s][i]] > 1 /\ q # Externalized
      BY <1>1, <2>3, BlocksAssumption, Zenon DEF CowBreak
    <3>3. /\ \A t \in Sessions \ {s} : slots'[t] = slots[t]
          /\ slots'[s] = [slots[s] EXCEPT ![i] = q]
      BY <1>1, <3>1, Zenon
    <3>4. \A j \in 1 .. Len(slots[s]) : slots'[s][j] = IF j = i THEN q ELSE slots[s][j]
      BY <1>1, <3>3
    <3>5. QED BY <1>1, <3>2, <3>3, <3>4, Zenon DEF SlotMove
  <2>4. QED BY <1>5, <2>1, <2>2, <2>3 DEF ShareStep
<1>6. CASE PrefixStep
  <2>1. ASSUME NEW s \in Sessions, NEW n \in 0 .. MaxSlots, RegisterPrefix(s, n) PROVE SlotMove
    <3>1. next_session \in Sessions
      BY <2>1, RegisteredWhole
    <3>2. QED BY <1>1, <2>1, <3>1, ShareMoves DEF RegisterPrefix
  <2>2. ASSUME NEW s \in Sessions, NEW n \in 0 .. MaxSlots, RegisterPrefixRefused(s, n) PROVE SlotMove
    BY <1>3, <2>2, Zenon DEF RegisterPrefixRefused
  <2>3. ASSUME NEW x \in prefixes, ReleasePrefix(x) PROVE SlotMove
    BY <1>1, <1>2, <2>3, Zenon DEF ReleasePrefix, Forget
  <2>4. ASSUME NEW x \in prefixes, NEW dst \in Sessions, SplicePrefixFrom(x, dst) PROVE SlotMove
    BY <1>1, <2>4, ShareMoves, Zenon DEF SplicePrefixFrom, SplicePrefix
  <2>5. ASSUME NEW x \in prefixes, NEW dst \in Sessions, AllocShiftedPrefixSlots(x, dst) PROVE SlotMove
    <3>1. PICK taken \in TakeFree(1 .. x.blocks) : Extend(dst, taken, x.blocks * BlockSize)
      BY <2>5, Zenon DEF AllocShiftedPrefixSlots
    <3>2. QED BY <1>1, <3>1, TakenTable, ExtendMoves, Zenon
  <2>6. QED BY <1>6, <2>1, <2>2, <2>3, <2>4, <2>5, Zenon DEF PrefixStep
<1>7. CASE IndexStep
  <2>1. ASSUME NEW s \in Sessions, NEW hashes \in Chains, SpliceCachedChain(s, hashes) PROVE SlotMove
    <3>1. Len(slots[s]) = 0
      BY <2>1 DEF SpliceCachedChain
    <3>2. \A t \in Sessions \ {s} : slots'[t] = slots[t]
      BY <1>1, <2>1, Zenon DEF SpliceCachedChain, Attach
    <3>3. QED BY <1>1, <3>1, <3>2 DEF SlotMove
  <2>2. CASE \/ \E s \in Sessions : \E i \in 1 .. MaxSlots : \E h \in Hashes : CommitBlock(s, i, h)
             \/ \E h \in Hashes : ReleaseCached(h)
    BY <1>3, <2>2, Zenon DEF CommitBlock, ReleaseCached, tableVars
  <2>3. QED BY <1>7, <2>1, <2>2, Zenon DEF IndexStep
<1>8. ASSUME NEW h \in handles, DropHandle(h) PROVE SlotMove
  BY <1>3, <1>8, Zenon DEF DropHandle, tableVars
<1>9. ASSUME NEW h \in handles, Current(h), Restore(h.session, h) PROVE SlotMove
  <2> DEFINE s == h.session
  <2>1. PICK taken : slots' = [slots EXCEPT ![s] = Placed(s, h, taken)]
    BY <1>9, Zenon DEF Restore
  <2>2. s \in Sessions /\ \A i \in h.gone : slots[s][i] = Externalized
    BY <1>1, <1>9, Zenon DEF Handle, Current
  <2>3. Placed(s, h, taken) = [i \in 1 .. Len(slots[s]) |-> IF i \in h.gone THEN taken[i] ELSE slots[s][i]]
    BY <1>1, <1>9, PlacedCurrent, Zenon
  <2> HIDE DEF s
  <2>4. \A i \in 1 .. Len(slots[s]) : slots'[s][i] = IF i \in h.gone THEN taken[i] ELSE slots[s][i]
    BY <1>1, <2>1, <2>2, <2>3, Zenon
  <2>5. \A t \in Sessions \ {s} : slots'[t] = slots[t]
    BY <1>1, <2>1, Zenon
  <2>6. QED BY <1>1, <2>2, <2>4, <2>5, BlocksAssumption, Zenon DEF SlotMove
<1>10. QED BY <1>4, <1>5, <1>6, <1>7, <1>8, <1>9, Zenon DEF Next, PoolStep

\* No step of one session pulls a block from under another: a resident slot
\* leaves its block only by evicting it while exclusive and not part of a
\* registered prefix, or by a copy-on-write move onto a block that was free.
THEOREM SlotMovesAlways == Spec => SlotMoves
<1>1. Counting /\ Ownership /\ [Next]_vars => [SlotMove]_vars
  BY SlotMoveStep, Zenon
<1>2. SlotMoves <=> [][SlotMove]_vars
  BY Zenon DEF SlotMoves, SlotMove
<1>3. QED BY <1>1, <1>2, CountingAlways, OwnershipAlways, PTL DEF Spec

-----------------------------------------------------------------------------
(* What the layers above the allocator need of it. *)

\* A block on the free list is in no table, and a block with one reference is in
\* one slot of one table: the counts are exact.
LEMMA NamingFromCounts ==
  ASSUME Counting
  PROVE  Naming
<1>0. Memory /\ IndexTypeOK /\ slots \in Tables
  BY Zenon DEF Counting, Memory
<1>. SUFFICES ASSUME NEW s \in Sessions, NEW i \in 1 .. Len(slots[s])
     PROVE  /\ slots[s][i] \notin free
            /\ Resident(s, i) /\ refcount[slots[s][i]] = 1 =>
                 \A r \in Sessions : \A j \in 1 .. Len(slots[r]) : slots[r][j] = slots[s][i] => r = s /\ j = i
  BY Zenon DEF Naming
<1>1. slots[s][i] \notin free
  <2>1. SUFFICES ASSUME NEW p \in free, slots[s][i] = p PROVE FALSE
    BY Zenon
  <2>2. p \in Blocks /\ slots[s] \in Seq(Slot)
    BY <1>0, MemoryFacts, Zenon DEF Memory, Tables
  <2>3. Occurrences(slots[s], p) = 0
    BY <1>0, <2>2, MemoryFacts, Zenon
  <2>4. Positions(slots[s], p) = {}
    BY <2>2, <2>3, PositionsFinite, FS_EmptySet, Zenon
  <2>. QED BY <2>1, <2>2, <2>4 DEF Positions
<1>2. ASSUME Resident(s, i), refcount[slots[s][i]] = 1,
             NEW r \in Sessions, NEW j \in 1 .. Len(slots[r]), slots[r][j] = slots[s][i]
      PROVE  r = s /\ j = i
  <2>. DEFINE p == slots[s][i]
              a == <<s, i>>
              b == <<r, j>>
  <2>1. p \in Blocks /\ i \in 1 .. Len(slots[s])
    BY <1>2, Zenon DEF Resident
  <2>2. i \in 1 .. MaxSlots /\ j \in 1 .. MaxSlots
    BY <1>0, <1>2, <2>1, MemoryFacts, BoundsAssumption
  <2>3. a \in References(p) /\ b \in References(p)
    BY <1>2, <2>1, <2>2 DEF References
  <2>4. IsFiniteSet(References(p)) /\ Cardinality(References(p)) <= 1 /\ Cardinality(References(p)) \in Nat
    <3>1. refcount[p] = Cardinality(References(p)) + IndexReferences(p)
      BY <2>1, Zenon DEF Counting, Memory, RefcountExact
    <3>2. IndexReferences(p) \in Nat /\ Cardinality(References(p)) \in Nat /\ IsFiniteSet(References(p))
      BY ReferencesFinite, Zenon DEF IndexReferences
    <3>. QED BY <1>2, <3>1, <3>2
  <2>5. a = b
    <3>1. SUFFICES ASSUME a # b PROVE FALSE
      BY Zenon
    <3>. HIDE DEF a, b
    <3>2. IsFiniteSet({a}) /\ Cardinality({a}) = 1
      BY FS_Singleton, Zenon
    <3>3. IsFiniteSet({a} \cup {b}) /\ Cardinality({a} \cup {b}) = 2
      <4>1. b \notin {a}
        BY <3>1, Zenon
      <4>2. IsFiniteSet({a} \cup {b}) /\ Cardinality({a} \cup {b}) = Cardinality({a}) + 1
        BY <3>2, <4>1, FS_AddElement, Zenon
      <4>3. 1 + 1 = 2
        OBVIOUS
      <4>. QED BY <3>2, <4>2, <4>3, Zenon
    <3>4. {a} \cup {b} \in SUBSET References(p)
      BY <2>3, Zenon
    <3>5. Cardinality({a} \cup {b}) <= Cardinality(References(p))
      BY <2>4, <3>4, FS_Subset, Zenon
    <3>6. 2 <= Cardinality(References(p))
      BY <3>3, <3>5, Zenon
    <3>7. \A n \in Nat : ~(n <= 1 /\ 2 <= n)
      OBVIOUS
    <3>. QED BY <2>4, <3>6, <3>7, Zenon
  <2>. QED BY <2>5, Zenon
<1>. QED BY <1>1, <1>2, Zenon

LEMMA CountingIsSound == Counting => Sound
<1>. SUFFICES ASSUME Counting PROVE InPlace
  BY NamingFromCounts, Zenon DEF Sound
<1>1. Memory /\ handles \subseteq Handle
  BY Zenon DEF Counting, ClientTypeOK
<1>. QED BY <1>1, PlacedCurrent, Zenon DEF InPlace

LEMMA RegistersWholeBlocks ==
  ASSUME Counting, Ownership
  PROVE  RegistersWhole
BY RegisteredWhole, Zenon DEF RegistersWhole

\* The cardinalities of the subsets of a finite set.
LEMMA FiniteCountable ==
  ASSUME NEW S, IsFiniteSet(S)
  PROVE  Countable(S)
<1>. SUFFICES ASSUME NEW A \in SUBSET S
     PROVE  /\ Cardinality(A) \in Nat
            /\ Cardinality(A) = 0 <=> A = {}
            /\ \A B \in SUBSET A : Cardinality(B) <= Cardinality(A)
            /\ \A x \in A : Cardinality(A \ {x}) = Cardinality(A) - 1 /\ Cardinality({x}) = 1
  BY Zenon DEF Countable
<1>1. IsFiniteSet(A)
  BY FS_Subset, Zenon
<1>2. Cardinality(A) \in Nat
  BY <1>1, FS_CardinalityType, Zenon
<1>3. Cardinality(A) = 0 <=> A = {}
  BY <1>1, FS_EmptySet, Zenon
<1>4. \A B \in SUBSET A : Cardinality(B) <= Cardinality(A)
  BY <1>1, FS_Subset, Zenon
<1>5. \A x \in A : Cardinality(A \ {x}) = Cardinality(A) - 1
  BY <1>1, FS_RemoveElement, Zenon
<1>6. \A x \in A : Cardinality({x}) = 1
  BY FS_Singleton, Zenon
<1>. QED BY <1>2, <1>3, <1>4, <1>5, <1>6, Zenon

LEMMA PoolCountable == Countable(Sessions) /\ Countable(Blocks)
<1>1. IsFiniteSet(Sessions)
  BY FS_Interval, BoundsAssumption DEF Sessions
<1>. QED BY <1>1, FiniteCountable, BlocksAssumption, Zenon

LEMMA PoolInvInit == Init => PoolInv
<1>. SUFFICES ASSUME Init PROVE PoolInv
  OBVIOUS
<1>1. Sound
  BY CountingInit, CountingIsSound, Zenon
<1>2. Ownership
  BY Zenon DEF Init, Ownership, PrefixWhole
<1>3. FillFitsBlocks
  BY BlockSizeAssumption DEF Init, FillFitsBlocks
<1>. QED BY <1>1, <1>2, <1>3, Zenon DEF PoolInv

LEMMA PoolInvStep ==
  ASSUME PoolInv, [Next]_vars
  PROVE  PoolInv'
<1>0. Counting /\ Ownership /\ FillFitsBlocks
  BY Zenon DEF PoolInv, Sound
<1>1. Counting'
  BY <1>0, CountingStep, Zenon
<1>2. Sound'
  <2>1. Counting' => Sound'
    BY CountingIsSound, PTL
  <2>. QED BY <1>1, <2>1, Zenon
<1>3. CASE Next
  BY <1>0, <1>2, <1>3, OwnershipStep, FillFitsStep, Zenon DEF PoolInv
<1>4. CASE UNCHANGED vars
  <2>1. UNCHANGED <<opened, slots, filled, prefixes, next_session>>
    BY <1>4, Zenon DEF vars, tableVars
  <2>2. Ownership' /\ FillFitsBlocks'
    BY <1>0, <2>1, Zenon DEF Ownership, PrefixWhole, Resident, FillFitsBlocks
  <2>. QED BY <1>2, <2>2, Zenon DEF PoolInv
<1>. QED BY <1>3, <1>4

\* One slot names the block and the index does not: its count is 1.
LEMMA AloneCounts ==
  ASSUME Counting
  PROVE  AloneCounted
<1>0. slots \in Tables /\ RefcountExact
  BY Zenon DEF Counting, Memory
<1>1. SUFFICES ASSUME NEW s \in Sessions, NEW i \in 1 .. Len(slots[s]), Resident(s, i),
                      cached_by_block[slots[s][i]] = None, Alone(s, i)
               PROVE  refcount[slots[s][i]] = 1
  BY Zenon DEF AloneCounted
<1>2. PICK p : p = slots[s][i]
  BY Zenon
<1>3. p \in Blocks /\ refcount[p] = Cardinality(References(p)) + 0
  BY <1>0, <1>1, <1>2, Zenon DEF RefcountExact, IndexReferences, Resident
<1>4. i \in 1 .. MaxSlots /\ \A r \in Sessions : slots[r] \in Seq(Slot)
  BY <1>0, <1>1, BoundsAssumption DEF Tables
<1>5. References(p) = {<<s, i>>}
  <2>1. <<s, i>> \in References(p)
    BY <1>1, <1>2, <1>4 DEF References
  <2>2. ASSUME NEW r \in References(p) PROVE r = <<s, i>>
    <3>1. r \in Sessions \X (1 .. MaxSlots) /\ r[2] <= Len(slots[r[1]]) /\ slots[r[1]][r[2]] = p
      BY <2>2, Zenon DEF References
    <3>2. r[1] \in Sessions /\ r[2] \in 1 .. Len(slots[r[1]]) /\ r = <<r[1], r[2]>>
      BY <1>4, <3>1
    <3>. QED BY <1>1, <1>2, <3>1, <3>2, Zenon DEF Alone
  <2>. QED BY <2>1, <2>2, Zenon
<1>6. Cardinality(References(p)) = 1
  BY <1>5, FS_Singleton, Zenon
<1>. QED BY <1>2, <1>3, <1>6
=============================================================================
