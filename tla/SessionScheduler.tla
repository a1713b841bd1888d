---------------------------- MODULE SessionScheduler ----------------------------
(* The contiguous multi-session scheduler: every session has a KV cache and a    *)
(* held plan of its own, and reserves at admission the pool blocks its whole     *)
(* text can need. step() prefills the new sessions, then advances every          *)
(* decoding one, up to max_batch of them in one batched pass. It is split into   *)
(* one action for each session it visits; nothing else runs in between.          *)
(*                                                                               *)
(* A session is [id, cache, plan, tokens, prompt, remaining, phase, error]. The  *)
(* step is at "idle", "prefill" or "decode", todo holds the indices it has still *)
(* to visit, and before is the sessions it began with.                           *)
EXTENDS KvCacheDecode

CONSTANTS
    Admissions,   \* <<prompt, max_new>> pairs add_session is called with
    Batches,      \* max_batch of the policy; RoundRobin is 0
    TotalBlocks,  \* num_blocks of the KvBudget
    BlockSize,    \* block_size of the KvBudget
    MaxSessions   \* bound: sessions admitted in a behaviour

VARIABLE sched    \* the scheduler and its step, or None

SchedulerInit ==
    /\ heap = [bufs |-> <<>>, ids |-> 0]
    /\ \E n \in Batches :
         sched = [max_batch |-> n, sessions |-> <<>>, free |-> TotalBlocks, kv_handles |-> {},
                  next_id |-> 0, at |-> "idle", todo |-> <<>>, before |-> <<>>, errors |-> 0]

Finished(s) == s.phase = "Finished"

\* The rows of a finished session are forgotten: nothing reads them any more.
Store(hp, s) ==
    LET live == {i \in DOMAIN s.sessions : ~Finished(s.sessions[i])}
    IN  /\ sched' = s
        /\ heap' = Dropped(hp, UNION {ArcsOf(s.sessions[i].cache)
                                        \cup ArcsOf(s.sessions[i].plan) : i \in live})

kv_blocks_required(prompt_len, max_new) == (prompt_len + max_new + BlockSize - 1) \div BlockSize

add_session ==
    /\ sched.at = "idle" /\ sched.next_id < MaxSessions
    /\ \E ask \in Admissions :
         LET prompt == ask[1]  max_new == ask[2]
             needed == kv_blocks_required(Len(prompt), max_new)
             new    == with_capacity(heap, Len(prompt) + max_new, CHOOSE d \in Devices : TRUE)
         IN  /\ needed <= sched.free
             /\ Store(new.heap, [sched EXCEPT
                  !.sessions = Append(@,
                     [id |-> sched.next_id, cache |-> new.cache, plan |-> None, tokens |-> prompt,
                      prompt |-> Len(prompt), remaining |-> max_new, phase |-> "Prefill",
                      error |-> None]),
                  !.free = @ - needed,
                  !.kv_handles = @ \cup {[id |-> sched.next_id, blocks |-> needed]},
                  !.next_id = @ + 1])

\* Mutant: a reaped session keeps its reservation.
reap_finished_Keeps ==
    /\ sched.at = "idle" /\ \E i \in DOMAIN sched.sessions : Finished(sched.sessions[i])
    /\ Store(heap, [sched EXCEPT !.sessions = SelectSeq(@, LAMBDA s : ~Finished(s))])

reap_finished ==
    /\ sched.at = "idle" /\ \E i \in DOMAIN sched.sessions : Finished(sched.sessions[i])
    /\ LET gone     == {s.id : s \in {x \in Range(sched.sessions) : Finished(x)}}
           released == {h \in sched.kv_handles : h.id \in gone}
       IN  Store(heap, [sched EXCEPT
               !.sessions = SelectSeq(@, LAMBDA s : ~Finished(s)),
               !.free = @ + MapThenSumSet(LAMBDA h : h.blocks, released),
               !.kv_handles = @ \ released])

--------------------------------------------------------------------------------
(* One step. *)

sample_and_append(s, next) ==
    [s EXCEPT !.tokens = Append(@, next), !.remaining = @ - 1,
              !.phase = IF next = Eos \/ s.remaining = 1 THEN "Finished" ELSE "Decode"]

record_error(s, e) == [s EXCEPT !.phase = "Finished", !.error = e]

\* The session behind a pass with these logits: sampled, or finished by an error.
finalize_advance(s, logits) ==
    IF logits \in Err THEN {record_error(s, logits)}
    ELSE {sample_and_append(s, next) : next \in Picks(logits)} \cup {record_error(s, Failed)}

\* The sessions at idxs become those of to, and the step goes on with rest.
Advance(hp, idxs, to, at, rest) ==
    LET failed == IF \E n \in DOMAIN to : to[n].error = Failed THEN 1 ELSE 0
    IN  /\ sched.errors + failed <= MaxErrors
        /\ Store(hp, [sched EXCEPT
               !.sessions = [i \in DOMAIN @ |->
                   IF i \in Range(idxs) THEN to[CHOOSE n \in DOMAIN idxs : idxs[n] = i] ELSE @[i]],
               !.errors = @ + failed, !.at = at, !.todo = rest])

\* forward_and_store on the first session to visit, and finalize_advance.
VisitFirst(toks) ==
    LET s == sched.sessions[Head(sched.todo)]
    IN  \E a \in forward_with_kv_context_persistent(heap, s.cache, s.plan, toks) :
        \E to \in finalize_advance([s EXCEPT !.cache = a.out.cache, !.plan = a.plan],
                                   a.out.logits) :
            Advance(a.out.heap, <<Head(sched.todo)>>, <<to>>, sched.at, Tail(sched.todo))

\* The sessions of a batch behind its pass.
BatchFinalized(batch, o) ==
    LET advanced(n) == [sched.sessions[batch[n]] EXCEPT !.cache = o.caches[n]]
        finals(n)   == IF o.logits \in Err THEN {record_error(advanced(n), o.logits)}
                       ELSE finalize_advance(advanced(n), o.logits[n])
    IN  {to \in [DOMAIN batch -> UNION {finals(n) : n \in DOMAIN batch}] :
            \A n \in DOMAIN batch : to[n] \in finals(n)}

Indices(phase) ==
    SelectSeq([i \in DOMAIN sched.sessions |-> i], LAMBDA i : sched.sessions[i].phase = phase)

\* Mutant: done as soon as any session is.
is_all_finished_Any == \E i \in DOMAIN sched.sessions : Finished(sched.sessions[i])

is_all_finished == \A i \in DOMAIN sched.sessions : Finished(sched.sessions[i])

step ==
    /\ sched.at = "idle" /\ ~is_all_finished
    /\ sched' = [sched EXCEPT !.at = "prefill", !.todo = Indices("Prefill"),
                              !.before = sched.sessions]
    /\ UNCHANGED heap

PrefillOne ==
    /\ sched.at = "prefill" /\ sched.todo # <<>>
    /\ VisitFirst(sched.sessions[Head(sched.todo)].tokens)

\* Mutant: a batch the gate declined is skipped.
left_to_serial_Skips(batch, rest, consumed_by_batch) == rest

left_to_serial(batch, rest, consumed_by_batch) ==
    IF consumed_by_batch THEN rest ELSE batch \o rest

advance_batched ==
    /\ sched.at = "prefill" /\ sched.todo = <<>>
    /\ LET ready == Indices("Decode")
           batch == SubSeq(ready, 1, Min({sched.max_batch, Len(ready)}))
           rest  == SubSeq(ready, Len(batch) + 1, Len(ready))
           cs    == [n \in DOMAIN batch |-> sched.sessions[batch[n]].cache]
           last  == [n \in DOMAIN batch |-> Last(sched.sessions[batch[n]].tokens)]
       IN  IF batch_uniform(cs)
           THEN \E o \in build_batched_decode_logits(heap, cs, last) :
                \E to \in BatchFinalized(batch, o) :
                    Advance(CopiedOut(heap, cs, last, o.copied), batch, to, "decode",
                            left_to_serial(batch, rest, TRUE))
           ELSE Advance(heap, <<>>, <<>>, "decode", left_to_serial(batch, rest, FALSE))

serial_advance_one ==
    /\ sched.at = "decode" /\ sched.todo # <<>>
    /\ VisitFirst(<<Last(sched.sessions[Head(sched.todo)].tokens)>>)

StepReturns ==
    /\ sched.at = "decode" /\ sched.todo = <<>>
    /\ sched' = [sched EXCEPT !.at = "idle", !.before = <<>>]
    /\ UNCHANGED heap

\* What run_to_completion keeps doing; admitting and reaping are the host's.
Run == sched # None
         /\ (step \/ PrefillOne \/ advance_batched \/ serial_advance_one \/ StepReturns)

SchedulerNext == Run \/ (sched # None /\ (add_session \/ reap_finished))

--------------------------------------------------------------------------------
(* Properties. *)

Sessions == IF sched = None THEN {} ELSE Range(sched.sessions)

\* Whatever mix of prefills, batched and serial passes a session went through and
\* whoever it shared them with, its text is the one it would have generated alone,
\* and while it decodes its cache holds that text up to the token not yet
\* forwarded (forward_and_store, build_batched_decode_logits, sample_and_append).
SessionsAsAlone ==
    \A s \in Sessions :
        /\ Generated(s.tokens, s.prompt)
        /\ s.phase = "Decode" => /\ s.cache.len = Len(s.tokens) - 1
                                 /\ HoldsText(s.cache, s.tokens)
        /\ Finished(s) /\ s.error = None => s.remaining = 0 \/ Last(s.tokens) = Eos

\* When a step returns, every session that could advance has advanced by one token
\* (and one more if the step also prefilled it) or is finished, and no finished one
\* was touched: nobody is skipped or visited twice on the way from the batched to
\* the serial arm (consumed_by_batch).
StepAdvancesAll ==
    sched # None /\ sched.at = "decode" /\ sched.todo = <<>> =>
        \A i \in DOMAIN sched.before :
            LET b == sched.before[i]  s == sched.sessions[i]
            IN  IF Finished(b) THEN s = b
                ELSE \/ Finished(s)
                     \/ Len(s.tokens) = Len(b.tokens) + (IF b.phase = "Prefill" THEN 2 ELSE 1)

\* Every session holds exactly one reservation, which covers its whole cache, and
\* every other block is free: admission never drifts from the memory in use
\* (add_session, reap_finished).
ReservationsExact ==
    sched # None =>
        /\ sched.free + MapThenSumSet(LAMBDA h : h.blocks, sched.kv_handles) = TotalBlocks
        /\ {h.id : h \in sched.kv_handles} = {s.id : s \in Sessions}
        /\ \A s \in Sessions : \E h \in sched.kv_handles :
               h.id = s.id /\ h.blocks * BlockSize >= s.cache.cap
================================================================================
