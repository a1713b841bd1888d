----------------------------- MODULE KvCacheDecode -----------------------------
(* The contiguous KV cache of one generation and the decode paths over it: the  *)
(* graph rebuilt for every call (D1), the plan built at the first one-token     *)
(* call and held (D2), the CUDA capture of that plan, and the batched step of   *)
(* several caches.                                                              *)
(*                                                                              *)
(* A buffer holds one row per position. A row is the text it was computed from, *)
(* Garbage if that is not one text; so are logits. One buffer stands for the K  *)
(* and the V of a layer. A cache is [arcs, len, cap, id, on]: the buffer of each *)
(* layer, cached_len, max_seq_len, alloc_id and device_location.                *)
(* A plan is [arcs, baked, cap, id, on]: the buffers it is welded to            *)
(* (base_cache), the device each was on when its copies and placements were     *)
(* planned, and the key it is judged by. A capture is [arcs, baked].            *)
EXTENDS Integers, Sequences, FiniteSets, SequencesExt

CONSTANTS
    NLayers,   \* layers of the model
    Devices,   \* devices a cache can be allocated on
    Garbage,   \* what no single text explains
    None,      \* Option::None
    Tokens,    \* the vocabulary
    Pick(_),   \* the token a sampler takes from the logits of a text
    Eos,       \* the end-of-sequence token
    Failed,    \* Err: the realize failed
    Refusal,   \* Err: the call was refused before it realized anything
    MaxErrors  \* bound: realizes and samplings of a behaviour that fail

VARIABLE heap  \* [bufs, ids]: buffers ever allocated, allocation ids ever minted

Layers == 1 .. NLayers

Err == {Failed, Refusal}

\* A buffer lives as long as something holds its Arc.
ArcsOf(x) == IF x = None THEN {} ELSE Range(x.arcs)

Dropped(hp, held) ==
    [hp EXCEPT !.bufs = [b \in DOMAIN @ |-> IF b \in held THEN @[b] ELSE None]]

--------------------------------------------------------------------------------
(* KvCache. *)

Buffer(cap, dev) == [on |-> dev, rows |-> [p \in 1 .. cap |-> Garbage]]

with_capacity(hp, cap, dev) ==
    [heap  |-> [bufs |-> hp.bufs \o [l \in Layers |-> Buffer(cap, dev)],
                ids  |-> hp.ids + 1],
     cache |-> [arcs |-> [l \in Layers |-> Len(hp.bufs) + l], len |-> 0, cap |-> cap,
                id |-> hp.ids + 1, on |-> dev]]

\* Mutant: the caller's storage keeps the identity of the one it replaces.
set_layer_SameId(hp, c, l, buf) ==
    [heap  |-> [hp EXCEPT !.bufs = Append(@, buf)],
     cache |-> [c EXCEPT !.arcs[l] = Len(hp.bufs) + 1, !.on = None]]

set_layer(hp, c, l, buf) ==
    [heap  |-> [bufs |-> Append(hp.bufs, buf), ids |-> hp.ids + 1],
     cache |-> [c EXCEPT !.arcs[l] = Len(hp.bufs) + 1, !.id = hp.ids + 1, !.on = None]]

clear(hp, c) ==
    [heap  |-> [hp EXCEPT !.ids = @ + 1],
     cache |-> [c EXCEPT !.arcs = [l \in Layers |-> None], !.len = 0,
                         !.id = hp.ids + 1, !.on = None]]

truncate_to(c, n) == [c EXCEPT !.len = IF n < @ THEN n ELSE @]

--------------------------------------------------------------------------------
(* One forward pass. *)

\* The text the first n rows of the buffers spell, layer for layer.
Attended(hp, arcs, n) ==
    LET text == IF n = 0 THEN <<>> ELSE hp.bufs[arcs[1]].rows[n]
    IN  IF text # Garbage
           /\ \A l \in Layers, p \in 1 .. n :
                  hp.bufs[arcs[l]].rows[p] = SubSeq(text, 1, p)
        THEN text ELSE Garbage

Continued(text, toks, n) == IF text = Garbage THEN Garbage ELSE text \o SubSeq(toks, 1, n)

Fits(c, toks) == c.len + Len(toks) <= c.cap

\* The heap with the rows of toks written behind position n of the given buffers.
Written(hp, bufs, n, text, toks) ==
    [hp EXCEPT !.bufs =
        [b \in DOMAIN @ |->
            IF b \notin bufs THEN @[b]
            ELSE [@[b] EXCEPT !.rows =
                    [p \in DOMAIN @ |-> IF p \in n + 1 .. n + Len(toks)
                                        THEN Continued(text, toks, p - n) ELSE @[p]]]]]

Refused(hp, c) == [heap |-> hp, cache |-> c, logits |-> Refusal]

Advanced(hp, arcs, text, c, toks) ==
    [heap   |-> Written(hp, Range(arcs), c.len, text, toks),
     cache  |-> [c EXCEPT !.len = @ + Len(toks)],
     logits |-> Continued(text, toks, Len(toks))]

\* A pass over the buffers arcs that sees text in the first c.len positions: it
\* advances, or an error leaves the rows of any of the layers written;
\* cached_len moves last.
Realized(hp, arcs, text, c, toks) ==
    {Advanced(hp, arcs, text, c, toks)}
      \cup {[heap |-> Written(hp, {arcs[l] : l \in ls}, c.len, text, toks),
             cache |-> c, logits |-> Failed] : ls \in SUBSET Layers}

forward_with_kv_context(hp, c, toks) ==
    IF None \in Range(c.arcs) \/ ~Fits(c, toks) THEN {Refused(hp, c)}
    ELSE Realized(hp, c.arcs, Attended(hp, c.arcs, c.len), c, toks)

--------------------------------------------------------------------------------
(* The held plan. *)

PlanOf(hp, c) ==
    [arcs |-> c.arcs, baked |-> [l \in Layers |-> hp.bufs[c.arcs[l]].on],
     cap |-> c.cap, id |-> c.id, on |-> c.on]

\* Mutant: one plan serves every cache of its geometry.
validity_for_Geometry(plan, c) == IF plan.cap # c.cap THEN "Stale" ELSE "Valid"

validity_for(plan, c) ==
    CASE plan.cap # c.cap -> "Stale"
      [] plan.cap = c.cap /\ plan.id = c.id -> "Valid"
      [] OTHER -> "AllocationChanged"

storage_is_interchangeable(hp, a, b) == Len(hp.bufs[a].rows) = Len(hp.bufs[b].rows)

\* Mutant: a residency that cannot be proven passes for the plan's own.
rebindable_AnyResidency(hp, plan, c) == None \notin Range(c.arcs)

\* rebind_kv's refusals.
rebindable(hp, plan, c) ==
    /\ c.on # None /\ plan.on # None /\ plan.on = c.on
    /\ \A l \in Layers : /\ c.arcs[l] # None
                         /\ storage_is_interchangeable(hp, plan.arcs[l], c.arcs[l])

rebind_kv(plan, c) == [plan EXCEPT !.arcs = c.arcs, !.id = c.id]

refresh_decode_session(hp, plan, c) ==
    CASE plan = None -> None
      [] plan # None /\ validity_for(plan, c) = "Valid" -> plan
      [] plan # None /\ validity_for(plan, c) = "AllocationChanged"
           /\ rebindable(hp, plan, c) -> rebind_kv(plan, c)
      [] OTHER -> None

\* A pass at a position the cache has no row for: nothing here compares the two.
\* A kernel or the executor that checks the offset fails the realize; one that does
\* not spoils whatever rows lie there, and cached_len moves on.
Overrun(hp, c, toks) ==
    {[heap |-> hp, cache |-> c, logits |-> Failed]}
      \cup {[heap   |-> Written(hp, bufs, 0, Garbage, [p \in 1 .. c.cap |-> None]),
             cache  |-> [c EXCEPT !.len = @ + Len(toks)],
             logits |-> Garbage] : bufs \in SUBSET {b \in DOMAIN hp.bufs : hp.bufs[b] # None}}

\* The pass of a plan or of a capture w reads and writes the buffers it is welded
\* to, and reads nothing it can use from a device it was not planned for.
Prebuilt(hp, w, c, toks) ==
    LET text == IF \A l \in Layers : hp.bufs[w.arcs[l]].on = w.baked[l]
                THEN Attended(hp, w.arcs, c.len) ELSE Garbage
    IN  IF Fits(c, toks) THEN Realized(hp, w.arcs, text, c, toks) ELSE Overrun(hp, c, toks)

Answers(outs, plan, capture) ==
    {[out |-> o, plan |-> plan, capture |-> capture] : o \in outs}

\* The first one-token call builds the plan; a failed build leaves none.
build_and_realize_first_decode_token(hp, c, toks) ==
    {[out |-> o, plan |-> IF o.logits \in Err THEN None ELSE PlanOf(hp, c),
      capture |-> None] : o \in forward_with_kv_context(hp, c, toks)}

\* A topology that changed drops the plan and serves the token through D1.
forward_with_kv_context_persistent(hp, c, plan, toks) ==
    LET held == refresh_decode_session(hp, plan, c)
    IN  CASE Len(toks) # 1 -> Answers(forward_with_kv_context(hp, c, toks), None, None)
          [] Len(toks) = 1 /\ held = None ->
                build_and_realize_first_decode_token(hp, c, toks)
          [] OTHER -> Answers(Prebuilt(hp, held, c, toks), held, None)
                        \cup Answers(forward_with_kv_context(hp, c, toks), None, None)

--------------------------------------------------------------------------------
(* The captured plan. *)

\* Mutant: a plan that was re-bound keeps its capture.
capture_behind_Kept(plan, held, capture) == capture

\* invalidate_decode_pair_if_stale: any change of the plan retires the capture.
capture_behind(plan, held, capture) == IF held = plan THEN capture ELSE None

\* The second one-token call captures, or declines to and re-binds once more; the
\* calls behind it replay.
forward_with_kv_context_captured(hp, c, plan, capture, toks) ==
    LET held  == refresh_decode_session(hp, plan, c)
        taken == capture_behind(plan, held, capture)
    IN  CASE Len(toks) # 1 -> Answers(forward_with_kv_context(hp, c, toks), None, None)
          [] Len(toks) = 1 /\ held = None ->
                build_and_realize_first_decode_token(hp, c, toks)
          [] Len(toks) = 1 /\ held # None /\ taken = None ->
                {[out |-> o, plan |-> held,
                  capture |-> IF o.logits \in Err THEN None
                              ELSE [arcs |-> held.arcs, baked |-> held.baked]] :
                     o \in Prebuilt(hp, held, c, toks)}
                  \cup Answers(Prebuilt(hp, held, c, toks), held, None)
          [] OTHER -> Answers(Prebuilt(hp, taken, c, toks), held, taken)

--------------------------------------------------------------------------------
(* The batched step. *)

\* Mutant: the gate forgets cached_len.
batch_uniform_Ragged(cs) == Len(cs) >= 2 /\ \A i \in DOMAIN cs : cs[i].cap = cs[1].cap

batch_uniform(cs) ==
    Len(cs) >= 2 /\ \A i \in DOMAIN cs : cs[i].len = cs[1].len /\ cs[i].cap = cs[1].cap

\* Mutant: every slot of the shared buffer gets the history of the first cache.
SlotTexts_First(hp, cs) == [i \in DOMAIN cs |-> Attended(hp, cs[1].arcs, cs[i].len)]

\* What the slots of the shared buffer hold behind the copy-in.
SlotTexts(hp, cs) == [i \in DOMAIN cs |-> Attended(hp, cs[i].arcs, cs[i].len)]

\* The heap behind a copy-out of the given <<slot, layer>> pairs.
CopiedOut(hp, cs, toks, pairs) ==
    FoldLeft(LAMBDA h, i : Written(h, {cs[i].arcs[x[2]] : x \in {y \in pairs : y[1] = i}},
                                   cs[i].len, SlotTexts(hp, cs)[i], <<toks[i]>>),
             hp, [i \in DOMAIN cs |-> i])

\* All caches advance, or an error before or inside the copy-out leaves any of
\* their buffers rewritten and every cached_len where it was.
build_batched_decode_logits(hp, cs, toks) ==
    IF \E i \in DOMAIN cs : \/ cs[i].len # cs[1].len \/ cs[i].cap # cs[1].cap
                            \/ ~Fits(cs[i], <<toks[i]>>)
    THEN {[copied |-> {}, caches |-> cs, logits |-> Refusal]}
    ELSE {[copied |-> (DOMAIN cs) \X Layers,
           caches |-> [i \in DOMAIN cs |-> [cs[i] EXCEPT !.len = @ + 1]],
           logits |-> [i \in DOMAIN cs |-> Continued(SlotTexts(hp, cs)[i], <<toks[i]>>, 1)]]}
           \cup {[copied |-> pairs, caches |-> cs, logits |-> Failed] :
                    pairs \in SUBSET ((DOMAIN cs) \X Layers)}

--------------------------------------------------------------------------------
(* What a cache promises, and what is sampled from it. *)

Picks(logits) == IF logits = Garbage THEN Tokens ELSE {Pick(logits)}

\* The tokens behind the first n are what the sampler takes from the ones before,
\* and only the last of them may be Eos.
Generated(text, n) ==
    \A i \in n + 1 .. Len(text) :
        /\ text[i] = Pick(SubSeq(text, 1, i - 1))
        /\ i < Len(text) => text[i] # Eos

\* The rows below cached_len are those of the given text, in every layer.
HoldsText(c, text) ==
    /\ c.len <= Len(text)
    /\ c.len > 0 => None \notin Range(c.arcs)
                      /\ Attended(heap, c.arcs, c.len) = SubSeq(text, 1, c.len)
================================================================================
