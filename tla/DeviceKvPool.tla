------------------------------ MODULE DeviceKvPool ------------------------------
(***************************************************************************)
(* The device-backed KV pool of fuel-tensor: the block allocator plus the   *)
(* bytes of its physical blocks. A block is BlockSize rows, one per token   *)
(* slot; a row stands for the K and V of that slot in every layer.          *)
(*                                                                         *)
(* Keys are rotated for the position of their token, so a row is a value    *)
(* with the position it was rotated for. Rows and positions are counted     *)
(* from 1.                                                                  *)
(***************************************************************************)
EXTENDS KvBlockPool

CONSTANTS
  Values,  \* what the model computes for one token
  Blank    \* a row of the zero-filled pool

ASSUME ValuesAssumption == Blank \notin Values \X Nat

VARIABLES
  cells,  \* the rows of each physical block
  saved   \* the blocks saved with each eviction handle, by logical slot

deviceVars == <<cells, saved>>

Offsets == 1 .. BlockSize

\* Where the token at position t of a session lives.
BlockAt(t) == ((t - 1) \div BlockSize) + 1
OffsetAt(t) == ((t - 1) % BlockSize) + 1

DeviceInit ==
  /\ Init
  /\ cells = [p \in Blocks |-> [o \in Offsets |-> Blank]]
  /\ saved = [h \in {} |-> <<>>]

\* Mutants: hands out the shared block itself; does not copy its bytes.
EnsureWritableSharedInPlace(s, i) ==
  /\ Resident(s, i)
  /\ refcount[slots[s][i]] > 1
  /\ UNCHANGED <<vars, deviceVars>>

EnsureWritableSharedUncopied(s, i) == CowBreak(s, i) /\ UNCHANGED deviceVars

\* ensure_writable_block on a shared block: break the share, copy the bytes.
EnsureWritableShared(s, i) ==
  /\ CowBreak(s, i)
  /\ cells' = [cells EXCEPT ![slots'[s][i]] = cells[slots[s][i]]]
  /\ UNCHANGED saved

\* ensure_writable_block on an exclusive block.
EnsureWritableExclusive(s, i) ==
  /\ Resident(s, i)
  /\ refcount[slots[s][i]] <= 1
  /\ UNCHANGED <<vars, deviceVars>>

\* The copy fails after the share was broken: the fresh block keeps its old rows.
EnsureWritableTorn(s, i) == CowBreak(s, i) /\ UNCHANGED deviceVars

\* The blocks whose bytes evict_blocks reads back before the core detaches any.
ToSave(s, indices) == {i \in indices : Resident(s, i) /\ refcount[slots[s][i]] = 1}

\* Mutant: the bytes are read back after the blocks were returned.
EvictDeviceEmpty(s, indices) ==
  /\ EvictBlocks(s, indices)
  /\ saved' = [h \in handles' |-> IF h \in handles THEN saved[h]
                                  ELSE [i \in ToSave(s, indices) |-> [o \in Offsets |-> Blank]]]
  /\ UNCHANGED cells

EvictDevice(s, indices) ==
  /\ EvictBlocks(s, indices)
  /\ saved' = [h \in handles' |-> IF h \in handles THEN saved[h]
                                  ELSE [i \in ToSave(s, indices) |-> cells[slots[s][i]]]]
  /\ UNCHANGED cells

\* The saved blocks of h at the logical slots done, written where s holds them now.
WriteBack(s, h, done) ==
  cells' = [p \in Blocks |-> IF \E i \in done : slots'[s][i] = p
                             THEN saved[h][CHOOSE i \in done : slots'[s][i] = p]
                             ELSE cells[p]]

ForgetSaved == saved' = [h \in handles' |-> saved[h]]

RestoreDevice(s, h) ==
  /\ Restore(s, h)
  /\ WriteBack(s, h, DOMAIN saved[h])
  /\ ForgetSaved

\* A write-back fails part-way: the core has restored the session and the handle
\* is consumed, and the remaining blocks keep what their last user left there.
RestoreTorn(s, h) ==
  /\ Restore(s, h)
  /\ \E done \in SUBSET DOMAIN saved[h] : done # DOMAIN saved[h] /\ WriteBack(s, h, done)
  /\ ForgetSaved

DropDevice(h) ==
  /\ DropHandle(h)
  /\ ForgetSaved
  /\ UNCHANGED cells

\* Mutant: the keys are copied without the rotation.
RotatedNot(row, m) == row

\* The K of a row rotated by m positions, its V copied.
Rotated(row, m) == IF row = Blank THEN Blank ELSE <<row[1], row[2] + m>>

SplicePrefixShifted(x, dst) ==
  LET end == Len(slots[dst]) IN
  /\ AllocShiftedPrefixSlots(x, dst)
  /\ cells' = [p \in Blocks |->
       IF \E k \in 1 .. x.blocks : slots'[dst][end + k] = p
       THEN LET k == CHOOSE k \in 1 .. x.blocks : slots'[dst][end + k] = p
            IN [o \in Offsets |-> Rotated(cells[slots[x.owner][k]][o], filled[dst])]
       ELSE cells[p]]
  /\ UNCHANGED saved

\* A copy fails part-way: dst has grown by blocks it has not been given rows for.
SplicePrefixShiftedTorn(x, dst) ==
  /\ x.blocks > 0
  /\ AllocShiftedPrefixSlots(x, dst)
  /\ UNCHANGED deviceVars
=============================================================================
