------------------------------ MODULE DecodeClient ------------------------------
(* A server that keeps one held plan (and its capture) for the model and serves *)
(* several requests through it, each with a KV cache of its own that it          *)
(* allocates, rewinds, clears, refills or drops as it likes between the calls:   *)
(* forward_decode_step, whose plan rides in the InferenceContext, and            *)
(* forward_with_kv_context_captured.                                             *)
EXTENDS KvCacheDecode

CONSTANTS
    Requests,    \* requests served at a time
    Prompts(_),  \* token sequences a call of each request is given
    Asks,        \* max_seq_len and device a request may ask for
    MaxIds       \* bound: allocations of a behaviour

VARIABLE client  \* [entry, plan, capture, cache, text, foreign, errors], or None

ClientInit ==
    /\ client \in {[entry |-> e, plan |-> None, capture |-> None,
                    cache |-> [r \in Requests |-> None],
                    text |-> [r \in Requests |-> <<>>],
                    foreign |-> {}, errors |-> 0] : e \in {"persistent", "captured"}}
    /\ heap = [bufs |-> <<>>, ids |-> 0]

Served(r) == client.cache[r] # None

Held(cl) == ArcsOf(cl.plan) \cup ArcsOf(cl.capture)
              \cup UNION {ArcsOf(cl.cache[r]) : r \in Requests}

Becomes(hp, cl) == client' = cl /\ heap' = Dropped(hp, Held(cl))

Replaced(r, new, t) ==
    Becomes(new.heap, [client EXCEPT !.cache[r] = new.cache, !.text[r] = t])

Allocate(r) ==
    /\ heap.ids < MaxIds
    /\ \E ask \in Asks :
           Replaced(r, with_capacity(heap, ask[1], ask[2]), <<>>)

Clear(r) ==
    /\ Served(r) /\ heap.ids < MaxIds
    /\ Replaced(r, clear(heap, client.cache[r]), <<>>)

\* A layer moves to a storage of the caller: its rows so far, or a fresh one.
SetLayer(r, l) ==
    /\ Served(r) /\ heap.ids < MaxIds
    /\ \E dev \in Devices :
         LET c   == client.cache[r]
             buf == IF c.arcs[l] = None THEN Buffer(c.cap, dev)
                    ELSE [heap.bufs[c.arcs[l]] EXCEPT !.on = dev]
         IN  Replaced(r, set_layer(heap, c, l, buf), client.text[r])

Truncate(r) ==
    /\ Served(r)
    /\ \E n \in 0 .. client.cache[r].len - 1 :
           Replaced(r, [heap |-> heap, cache |-> truncate_to(client.cache[r], n)],
                    SubSeq(client.text[r], 1, n))

\* One call. An error leaves plan, cache and text as the call left them; the
\* request may call again. A held plan does not compare the position with
\* max_seq_len, so the caller goes through one only with a token that fits.
Call(r) ==
    /\ Served(r)
    /\ \E toks \in Prompts(r) :
       /\ Len(toks) = 1 /\ refresh_decode_session(heap, client.plan, client.cache[r]) # None
            => Fits(client.cache[r], toks)
       /\ \E a \in IF client.entry = "persistent"
                  THEN forward_with_kv_context_persistent(heap, client.cache[r],
                           client.plan, toks)
                  ELSE forward_with_kv_context_captured(heap, client.cache[r],
                           client.plan, client.capture, toks) :
           LET failed == a.out.logits \in Err
               text   == IF failed THEN client.text[r] ELSE client.text[r] \o toks
           IN  /\ failed => client.errors < MaxErrors
               /\ Becomes(a.out.heap, [client EXCEPT
                     !.plan = a.plan, !.capture = a.capture, !.cache[r] = a.out.cache,
                     !.text[r] = text,
                     !.foreign = IF failed \/ a.out.logits = text THEN @ ELSE @ \cup {r},
                     !.errors = IF failed THEN @ + 1 ELSE @])

ClientNext ==
    /\ client # None
    /\ \E r \in Requests :
         \/ Allocate(r) \/ Clear(r) \/ Truncate(r) \/ Call(r)
         \/ \E l \in Layers : SetLayer(r, l)

--------------------------------------------------------------------------------
(* Properties. *)

\* However requests take turns on one held plan, and whatever they do to their
\* caches in between, every cache holds the rows of its own request's text and
\* every answer was computed from that text: no call decodes over the KV of
\* another request, over rows rewound or left behind by a failed call, or through
\* a plan of another device (validity_for, rebind_kv, invalidate_decode_pair_if_stale).
RequestsIsolated ==
    client # None =>
        /\ client.foreign = {}
        /\ \A r \in Requests : Served(r) =>
              /\ HoldsText(client.cache[r], client.text[r])
              /\ client.cache[r].len = Len(client.text[r])
================================================================================
