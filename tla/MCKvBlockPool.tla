----------------------------- MODULE MCKvBlockPool -----------------------------
(* Model-checking instance of KvBlockPool: blocks and hashes are symmetric. *)
EXTENDS KvBlockPool, TLC

Symmetry == Permutations(Blocks) \cup Permutations(Hashes)

NothingEvicted ==
  handles = {} /\ \A s \in Sessions : \A i \in DOMAIN slots[s] : Resident(s, i)

NothingCached == \A h \in Hashes : cached[h] = None

\* Action constraint: two sessions share and cache, or evict one prefix from an
\* empty content index; one session evicts twice; a third one only shares.
SharingOrEviction ==
  \/ NothingEvicted' /\ (NothingCached' \/ next_session' <= 2)
  \/ NothingCached' /\ Cardinality(handles') + next_session' <= 3
=============================================================================
