--------------------------- MODULE SpeculativeDecode ---------------------------
(* generate_streaming_spec_with_kv_context: a draft model proposes k tokens, the   *)
(* target verifies them in one pass, both caches are rolled back to the committed  *)
(* prefix and advanced by the bonus token. The draft model is any model: its       *)
(* proposals are arbitrary. A pass that fails ends the call with Err.              *)
EXTENDS KvCacheDecode

CONSTANTS
    SpecPrompts,  \* prompts of a call
    MaxNews,      \* max_new_tokens of a call
    Drafts        \* k of a call

VARIABLE spec     \* the locals of one call and where it is, or None

\* Mutant: no room for the drafts that are not accepted yet.
max_seq_len_Committed(prompt, max_new, k) == Len(prompt) + max_new

max_seq_len(prompt, max_new, k) == Len(prompt) + max_new + k

SpeculativeInit ==
    \E strategy \in {"Greedy", "Temperature"}, prompt \in SpecPrompts,
       max_new \in MaxNews, k \in Drafts, dev \in Devices :
        LET t == with_capacity([bufs |-> <<>>, ids |-> 0],
                               max_seq_len(prompt, max_new, k), dev)
            d == with_capacity(t.heap, max_seq_len(prompt, max_new, k), dev)
        IN  /\ heap = d.heap
            /\ spec = [strategy |-> strategy, k |-> k, max_new |-> max_new,
                       prompt |-> Len(prompt), tokens |-> prompt, emitted |-> 0,
                       target |-> t.cache, draft |-> d.cache, target_last |-> None,
                       drafts |-> <<>>, verify |-> <<>>, at |-> "prefill"]

\* A pass that does not fail on its own.
Passed(hp, c, toks) ==
    IF Fits(c, toks) THEN Advanced(hp, c.arcs, Attended(hp, c.arcs, c.len), c, toks)
    ELSE Refused(hp, c)

\* The caches are locals of the call: when it ends nothing reads them.
Fails(at) == UNCHANGED heap /\ spec' = [spec EXCEPT !.at = at]

\* Both caches take the tokens; target_last_logits are the target's.
BothPass(toks) ==
    \/ Fails("error")
    \/ \E t \in {Passed(heap, spec.target, toks)} :
       \E d \in {Passed(t.heap, spec.draft, toks)} :
         IF Refusal \in {t.logits, d.logits} THEN Fails("refused")
         ELSE /\ heap' = d.heap
              /\ spec' = [spec EXCEPT !.target = t.cache, !.draft = d.cache,
                     !.target_last = t.logits,
                     !.at = IF spec.emitted < spec.max_new THEN "draft" ELSE "returned"]

Prefill == spec.at = "prefill" /\ BothPass(spec.tokens)

\* One turn of the draft loop.
DraftOne ==
    /\ spec.at = "draft" /\ Len(spec.drafts) < spec.k
    /\ \/ Fails("error")
       \/ \E token \in Tokens : \E d \in {Passed(heap, spec.draft, <<token>>)} :
            IF d.logits = Refusal THEN Fails("refused")
            ELSE /\ heap' = d.heap
                 /\ spec' = [spec EXCEPT !.draft = d.cache, !.drafts = Append(@, token)]

\* forward_with_kv_context_all_positions: one row for each draft.
Verify ==
    /\ spec.at = "draft" /\ Len(spec.drafts) = spec.k
    /\ \/ Fails("error")
       \/ \E t \in {Passed(heap, spec.target, spec.drafts)} :
            IF t.logits = Refusal THEN Fails("refused")
            ELSE /\ heap' = t.heap
                 /\ spec' = [spec EXCEPT !.target = t.cache, !.at = "accept",
                      !.verify = [i \in 1 .. spec.k |->
                         Continued(Attended(heap, spec.target.arcs, spec.target.len),
                                   spec.drafts, i)]]

\* Mutant: the rejected draft's row is kept.
rollback_KeepsRejected(c, k, accepted) ==
    truncate_to(c, c.len - k + (IF accepted < k THEN accepted + 1 ELSE accepted))

rollback(c, k, accepted) == truncate_to(c, c.len - k + accepted)

\* Mutant: the bonus is always taken from the row behind the last draft.
Verdict_LastRow(accepted, bonus, rows) ==
    /\ \A i \in 1 .. accepted : spec.drafts[i] \in Picks(rows[i])
    /\ accepted < spec.k => spec.drafts[accepted + 1] \notin Picks(rows[accepted + 1])
    /\ bonus \in Picks(rows[spec.k + 1])

\* The greedy accept loop, from the row before each draft and the one behind the
\* last: how many drafts it accepts, and the bonus token.
Verdict(accepted, bonus, rows) ==
    /\ \A i \in 1 .. accepted : spec.drafts[i] \in Picks(rows[i])
    /\ bonus \in Picks(rows[accepted + 1])
    /\ accepted < spec.k => bonus # spec.drafts[accepted + 1]

\* The positions of out at which the emit loop returns.
Stops(out) == {i \in DOMAIN out : out[i] = Eos \/ spec.emitted + i >= spec.max_new}

\* Sampling may accept any number of drafts and replace the next by any token.
Accept ==
    /\ spec.at = "accept"
    /\ \E accepted \in 0 .. spec.k, bonus \in Tokens :
         LET out  == SubSeq(spec.drafts, 1, accepted) \o <<bonus>>
             emit == IF Stops(out) = {} THEN out ELSE SubSeq(out, 1, Min(Stops(out)))
         IN  /\ spec.strategy = "Greedy" =>
                   Verdict(accepted, bonus, <<spec.target_last>> \o spec.verify)
             /\ spec' = [spec EXCEPT
                   !.target = rollback(@, spec.k, accepted),
                   !.draft = rollback(@, spec.k, accepted),
                   !.tokens = @ \o emit, !.emitted = @ + Len(emit),
                   !.drafts = <<>>, !.verify = <<>>,
                   !.at = IF Stops(out) = {} THEN "bonus" ELSE "returned"]
    /\ UNCHANGED heap

Bonus == spec.at = "bonus" /\ BothPass(<<Last(spec.tokens)>>)

SpeculativeNext == spec # None /\ (Prefill \/ DraftOne \/ Verify \/ Accept \/ Bonus)

--------------------------------------------------------------------------------
(* Properties. *)

\* Under Greedy, whatever the draft model proposes, the text emitted so far is
\* token for token the one the target alone would have generated, and the call
\* returns exactly when that one ends, at Eos or at max_new_tokens (the accept
\* loop, the rollback and the emit loop of generate_streaming_spec_with_kv_context).
SpeculationLossless ==
    spec # None =>
        /\ spec.strategy = "Greedy" => Generated(spec.tokens, spec.prompt)
        /\ Len(spec.tokens) = spec.prompt + spec.emitted /\ spec.emitted <= spec.max_new
        /\ LET ended == \/ spec.emitted = spec.max_new
                        \/ spec.emitted > 0 /\ Last(spec.tokens) = Eos
           IN  (spec.at = "returned" => ended) /\ (spec.at = "bonus" => ~ended)

\* Whenever a round of drafting begins both caches hold the committed text and
\* nothing else, whatever was drafted, rejected and rolled back before
\* (committed_base, draft_committed_base).
CachesAgree ==
    spec # None /\ spec.at = "draft" /\ spec.drafts = <<>> =>
        \A c \in {spec.target, spec.draft} :
            c.len = Len(spec.tokens) /\ HoldsText(c, spec.tokens)
================================================================================
