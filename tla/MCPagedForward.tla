----------------------------- MODULE MCPagedForward -----------------------------
(* PagedForward on small instances. *)
EXTENDS PagedForward, TLC

VARIABLE tiered  \* history: a block has been evicted

Symmetry == Permutations(Blocks) \cup Permutations(Values)

MCInit == ForwardInit /\ tiered = FALSE

MCNext == ForwardNext /\ tiered' = (tiered \/ handles' # {})

MCSpec == MCInit /\ [][MCNext]_<<forwardVars, tiered>>

\* Action constraint: three sessions share, or two share and evict.
SharingOrEviction == tiered' => next_session' <= 2
=============================================================================
