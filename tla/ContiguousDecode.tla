---------------------------- MODULE ContiguousDecode ----------------------------
(* The three callers of the contiguous decode paths: a server that drives one    *)
(* held plan with the caches of several requests, speculative decoding, and the  *)
(* session scheduler. A behaviour is one of them over its own heap.              *)
EXTENDS DecodeClient, SpeculativeDecode, SessionScheduler

vars == <<heap, client, spec, sched>>

Init ==
    \/ ClientInit /\ spec = None /\ sched = None
    \/ SpeculativeInit /\ client = None /\ sched = None
    \/ SchedulerInit /\ client = None /\ spec = None

Next ==
    \/ ClientNext /\ UNCHANGED <<spec, sched>>
    \/ SpeculativeNext /\ UNCHANGED <<client, sched>>
    \/ SchedulerNext /\ UNCHANGED <<client, spec>>

\* Both loops are a thread that runs until it returns; a server is called or not.
Fairness == WF_<<heap, spec>>(SpeculativeNext) /\ WF_<<heap, sched>>(Run)

Spec == Init /\ [][Next]_vars /\ Fairness

--------------------------------------------------------------------------------
(* Properties. *)

\* No pass of a speculative call or of a scheduled session is ever refused, and none
\* that a held plan makes unchecked goes past the last row: the capacity each asks
\* for at the start is enough for everything it goes on to write, and the batched arm
\* is only given caches it takes (max_seq_len, batch_uniform).
NeverRefused ==
    /\ spec # None => spec.at # "refused"
    /\ \A s \in Sessions : s.error # Refusal /\ s.cache.len <= s.cache.cap

\* A speculative call returns, and run_to_completion gets every session finished,
\* whatever is admitted meanwhile and whichever passes fail.
CallersReturn ==
    []<>(/\ spec # None => spec.at \in {"returned", "error"}
         /\ \A s \in Sessions : Finished(s))
================================================================================
