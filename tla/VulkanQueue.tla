------------------------------ MODULE VulkanQueue ------------------------------
(* The Vulkan backend as the pipelined executor sees it: the recorder's open    *)
(* batch, the submissions the device has not executed yet, the one-shot         *)
(* submissions made beside the batches, and the recycler of device buffers.     *)
(*                                                                              *)
(* The backend is one record so that an executor step can chain its calls:      *)
(*   open      dispatches recorded and not submitted (Recorder::batch_cb)       *)
(*   dirty     buffers written since the last barrier (dirty_buffers)           *)
(*   retained  evicted buffers the open batch keeps alive (open_retained)       *)
(*   pending   commands submitted to the queue and not executed, oldest first   *)
(*   epoch     number of batches submitted (RecyclePool::epoch)                 *)
(*   parked    recycler: [buf, freedIn], oldest first                           *)
(*   content   what the bytes of each buffer are: the tag of a value            *)
(*                                                                              *)
(* A command [reads, to, tag, barrier] computes value tag into buffer to, from  *)
(* the buffers of reads, each of which must hold the value it is paired with.   *)
EXTENDS Integers, Sequences, FiniteSets, SequencesExt

CONSTANTS
    Buffers,      \* device buffers that can exist at once, a range 1 .. n
    BatchLimit,   \* BATCH_LIMIT: dispatches at which a batch is flushed
    PoolCap,      \* MAX_POOL_BYTES, in buffers: all have one size
    BucketDepth   \* recycler_bucket_depth of that size

VARIABLE vk

Host  == 0                \* the staging memory a download lands in
Blank == -1               \* bytes nobody has computed
Junk  == -2               \* bytes computed from the wrong input

Named(cmds) ==
    UNION {{r[1] : r \in cmds[i].reads} \cup {cmds[i].to} : i \in DOMAIN cmds}

Outstanding(q) == Named(q.open) \cup Named(q.pending)

Written(q) == {q.open[i].to : i \in DOMAIN q.open}
                \cup {q.pending[i].to : i \in DOMAIN q.pending}

--------------------------------------------------------------------------------
(* The recycler. *)

trim_to_byte_cap(entries) ==
    IF Len(entries) > PoolCap THEN <<>> ELSE entries

\* VulkanBuffer::drop of every buffer of bufs.
Park(q, bufs) ==
    LET entry(b) == [buf |-> b, freedIn |-> q.epoch]
        order    == SetToSeq(bufs)
        freed    == [i \in DOMAIN order |-> entry(order[i])]
    IN  [q EXCEPT !.parked = trim_to_byte_cap(@ \o freed)]

\* Mutant: buffers freed inside the open batch are handed out too.
reusable_index_AnyEpoch(entries, current) == Len(entries)

\* Number of parked buffers freed before the current batch: entries are in
\* epoch order, so they are a prefix, and its last one is handed out.
reusable_index(entries, current) ==
    Cardinality({i \in DOMAIN entries : entries[i].freedIn < current})

bucket_depth_cap(entries) ==
    SubSeq(entries, 1 + Len(entries) - BucketDepth, Len(entries))

take_or_alloc_device_buffer(q, live) ==
    LET idx   == reusable_index(q.parked, q.epoch)
        rest  == IF idx = 0 THEN q.parked ELSE RemoveAt(q.parked, idx)
        depth == IF Len(rest) > BucketDepth THEN bucket_depth_cap(rest) ELSE rest
        used  == live \cup {e.buf : e \in Range(q.parked)} \cup Outstanding(q)
        fresh == Buffers \ used
    IN  [buf |-> IF idx > 0 THEN q.parked[idx].buf
                 ELSE IF fresh = {} THEN Host ELSE Min(fresh),
         q   |-> [q EXCEPT !.parked = trim_to_byte_cap(depth)]]

--------------------------------------------------------------------------------
(* The recorder. *)

\* A dispatch whose kernel declares the read buffers declared. The first one of
\* a batch stands behind the inter-batch barrier.
record_batch_dispatch(q, cmd, declared) ==
    LET needsBarrier == declared \cap q.dirty # {}
        recorded     == [reads |-> cmd.reads, to |-> cmd.to, tag |-> cmd.tag,
                         barrier |-> q.open = <<>> \/ needsBarrier]
    IN  [q EXCEPT !.open  = Append(@, recorded),
                  !.dirty = (IF needsBarrier THEN {} ELSE @) \cup {cmd.to}]

should_flush(q) == Len(q.open) >= BatchLimit

\* Mutant: only batches in flight keep an evicted buffer.
retain_in_open_batch_Dropped(q, b) == q

retain_in_open_batch(q, b) ==
    IF q.open = <<>> THEN q ELSE [q EXCEPT !.retained = @ \cup {b}]

\* The part submit_batch and flush_batch share. The caller takes q.retained over
\* and drops it behind the fence.
submit_batch(q) ==
    IF q.open = <<>> THEN q
    ELSE [q EXCEPT !.pending = @ \o q.open, !.open = <<>>, !.dirty = {},
                   !.retained = {}, !.epoch = @ + 1]

\* Queue::one_shot: a submission of its own, without any barrier.
one_shot(q, cmd) ==
    [q EXCEPT !.pending = Append(@, [reads |-> cmd.reads, to |-> cmd.to,
                                     tag |-> cmd.tag, barrier |-> FALSE])]

\* A fence signals when everything submitted before it has been executed.
Signalled(q) == q.pending = <<>>

--------------------------------------------------------------------------------
(* The device. Commands begin in submission order and may overlap and complete  *)
(* in any order, except across a barrier, which waits for all earlier commands. *)

Startable(q, i) == \A k \in 2 .. i : ~q.pending[k].barrier

Computed(q, cmd) ==
    IF \A r \in cmd.reads : q.content[r[1]] = r[2] THEN cmd.tag ELSE Junk

Execute(i) ==
    /\ Startable(vk, i)
    /\ vk' = [vk EXCEPT !.content[vk.pending[i].to] = Computed(vk, vk.pending[i]),
                        !.pending = RemoveAt(@, i)]
================================================================================
