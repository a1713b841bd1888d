-------------------------- MODULE MCPagedSessionScheduler --------------------------
(* PagedSessionScheduler on small instances. *)
EXTENDS PagedSessionScheduler, TLC

CONSTANTS v1, v2

ShortPrompts == {<<v1>>, <<v1, v2>>}
LongPrompts == {<<v1>>, <<v1, v2, v2>>}

Symmetry == Permutations(Blocks)
=============================================================================
