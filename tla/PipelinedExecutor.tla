--------------------------- MODULE PipelinedExecutor ---------------------------
(* PipelinedExecutor::realize on a machine with a host device and one Vulkan    *)
(* device: the compiler thread that sends work items, the executor that runs    *)
(* them in plan order against the storage cache, the batches it submits without *)
(* waiting, and the eviction of buffers those batches may still use. The        *)
(* Vulkan backend itself is VulkanQueue.                                        *)
(*                                                                              *)
(* A node's storage is [buf, tag]: the buffer it names (Host for a host         *)
(* storage) and the value a reader of the node must find there. A work item is  *)
(* invented when it is received: which graph the plan came from is the choice   *)
(* of op, inputs and strides among the nodes a plan could still read.           *)
EXTENDS VulkanQueue, TLC, FiniteSetsExt

CONSTANTS
    Workloads,         \* [ops, nodes]: kinds of work items, and how many of them at
                       \* most over all realizes of a behaviour
    MaxAhead,          \* bound: items the compiler thread is ahead of the executor
    EvictSubmitMin,    \* EVICT_SUBMIT_MIN_DISPATCHES
    Shapes             \* which of AllShapes the plans contain

VARIABLES
    workload,   \* one of Workloads
    phase,      \* "idle", "run", "drain" (realize-end drains), "fail"
    compiler,   \* compiler thread: "off", "run", "ok", "err" (sent an error)
    sent,       \* items in the channel
    cache,      \* StorageCache: node -> [buf, tag]
    inflight,   \* inflight_vulkan: the retained_data of each submitted batch
    chunk,      \* current_chunk_backend
    multi,      \* multi_backend
    job,        \* the work item being executed
    nextNode,   \* next node id
    input,      \* the storage the caller keeps and passes to every realize
    result      \* [want, got] of the last realize that returned Ok

host == <<workload, phase, compiler, sent, cache, inflight, chunk, multi, job,
          nextNode, input, result>>
vars == <<vk, host>>

NoNode == -1
InputNode == 0
Stale == -3              \* tag of an alias whose bytes were overwritten in place

NoResult == [want |-> 0, got |-> 0]

NoJob == [op |-> "none", node |-> NoNode, ins |-> {}, base |-> NoNode,
          strided |-> {}, kill |-> NoNode, stage |-> "none",
          after |-> "none", reads |-> {}, held |-> {}, fenced |-> {}, out |-> Host]

OnVulkan(n) == cache[n].buf # Host
Readable(n) == cache[n].tag >= 0
VulkanNodes == {n \in DOMAIN cache : OnVulkan(n) /\ Readable(n)}
HostNodes   == {n \in DOMAIN cache : ~OnVulkan(n) /\ Readable(n)}
Writable    == {n \in DOMAIN cache : OnVulkan(n) /\ cache[n].tag # Stale}
HasVulkan(c) == \E n \in DOMAIN c : c[n].buf # Host
Read(n) == <<cache[n].buf, cache[n].tag>>

\* Buffers some handle keeps out of the recycler.
LiveIn(q, c, inf, j, in) ==
    ({c[n].buf : n \in DOMAIN c} \cup UNION Range(inf) \cup q.retained
       \cup j.held \cup j.fenced \cup {r[1] : r \in j.reads} \cup {j.out, in.buf})
      \ {Host}

Live == LiveIn(vk, cache, inflight, job, input)

\* The next state of everything that can own a buffer; what it no longer owns is
\* dropped into the recycler.
Own(q, c, inf, j, in) ==
    /\ cache' = c /\ inflight' = inf /\ job' = j /\ input' = in
    /\ \E backend \in {q} :
         vk' = Park(backend, Live \ LiveIn(backend, cache', inflight', job', input'))
    /\ UNCHANGED workload

--------------------------------------------------------------------------------
(* Receiving a work item. *)

\* Shapes of plans in which nothing orders two uses of a buffer. The code makes
\* such plans (scatter_add_f32_bytes, slot_copy_to_new_handle, an Op::Copy before
\* the asynchronous path is armed, zero_fill, slice writes) and does not order the
\* uses; a model without a shape says nothing about the plans that have it.
\*   one_shot_source   a one-shot copies a buffer an outstanding command writes
\*   one_shot_target   a one-shot overwrites a buffer an outstanding command uses
\*   write_after_read  an in-place dispatch overwrites what a dispatch behind the
\*                     same barrier reads
AllShapes == {"one_shot_source", "one_shot_target", "write_after_read"}

\* The dispatches of the open batch that a dispatch recorded now without a
\* barrier may overtake.
Unordered(q) ==
    LET last == CHOOSE i \in DOMAIN q.open :
                    /\ q.open[i].barrier
                    /\ \A k \in i + 1 .. Len(q.open) : ~q.open[k].barrier
    IN  IF q.open = <<>> THEN <<>> ELSE SubSeq(q.open, last, Len(q.open))

ReadBy(cmds)    == {r[1] : r \in UNION {cmds[i].reads : i \in DOMAIN cmds}}
WrittenBy(cmds) == {cmds[i].to : i \in DOMAIN cmds}

\* Op::Copy allocates its output before the copy replaces it by a second buffer.
TransferTarget(op, q) ==
    LET first  == take_or_alloc_device_buffer(q, Live)
        second == take_or_alloc_device_buffer(first.q, Live \cup {first.buf})
    IN  IF op # "copy" THEN first
        ELSE [buf |-> second.buf, q |-> Park(second.q, {first.buf})]

\* One-shot copies and their sources; one-shot targets.
Sources(item) == {cache[n].buf : n \in CASE item.op \in {"copy", "slot_own"} -> item.ins
                                         [] item.op = "scatter" -> {item.base}
                                         [] OTHER -> {}}
Targets(item, q) ==
    CASE item.op \in {"upload", "copy", "slot_own", "scatter"} ->
            {TransferTarget(item.op, q).buf}
      [] item.op = "zero_fill" -> {cache[item.base].buf}
      [] OTHER -> {}

\* The ordered plans: an item is admitted, given the backend when it starts, unless
\* it gives the plan a shape that is not among Shapes. The last condition leaves out
\* every slice write into a buffer that a dispatch behind the same barrier writes:
\* writes to two slices do not collide, writes to one do, and a tag per buffer
\* cannot tell them apart.
Admits(item, q, drains) ==
    /\ "one_shot_source" \in Shapes
         \/ /\ drains \/ Sources(item) \cap Written(q) = {}
            /\ item.op = "copy" => item.strided = {}
    /\ "one_shot_target" \in Shapes
         \/ drains \/ Targets(item, q) \cap Outstanding(q) = {}
    /\ item.op = "write_slice" /\ item.strided = {}
         /\ {cache[n].buf : n \in item.ins} \cap q.dirty = {}
         => /\ "write_after_read" \in Shapes
                 \/ cache[item.base].buf \notin ReadBy(Unordered(q))
            /\ cache[item.base].buf \notin WrittenBy(Unordered(q))

Neutral(op) == op \in {"view", "contiguize"}
Transfer(op) == op \in {"download", "upload", "copy"}

\* eager_submit_all_vulkan finds the backend through the storages of the cache.
eager_submit(q, c, inf) ==
    IF HasVulkan(c) /\ q.open # <<>>
    THEN [q |-> submit_batch(q), inf |-> Append(inf, q.retained)]
    ELSE [q |-> q, inf |-> inf]

\* The head of the realize loop: chunk boundary, arming of the asynchronous path,
\* and the residency boundary in front of a transfer.
Arrive(op, ins, base, strided, backend, kill) ==
    LET item     == [NoJob EXCEPT !.op = op, !.node = nextNode, !.ins = ins,
                                  !.base = base, !.strided = strided, !.kill = kill]
        boundary == ~Neutral(op) /\ chunk # backend
        leaving  == boundary /\ chunk # "none"
        async    == multi \/ leaving \/ op \in {"kernel", "scatter"}
        submits  == (leaving /\ chunk = "vulkan") \/ (Transfer(op) /\ async)
        drains   == Transfer(op) /\ async /\ backend = "vulkan"
    IN  /\ op \in workload.ops
        /\ phase = "run" /\ job = NoJob /\ sent > 0
        /\ sent' = sent - 1 /\ nextNode' = nextNode + 1
        /\ chunk' = IF boundary THEN backend ELSE chunk
        /\ multi' = async
        /\ \E after \in {IF submits THEN eager_submit(vk, cache, inflight)
                          ELSE [q |-> vk, inf |-> inflight]} :
             /\ Admits(item, after.q, drains)
             /\ Own(after.q, cache, after.inf,
                    [item EXCEPT !.stage = IF drains THEN "drain" ELSE "run",
                                 !.reads = {Read(n) : n \in ins \ strided}],
                    input)
        /\ UNCHANGED <<phase, compiler, result>>

ReceiveCpu == Arrive("cpu", {}, NoNode, {}, "cpu", NoNode)

ReceiveKernel ==
    \E m, n \in VulkanNodes : \E s \in SUBSET {m, n} :
        Arrive("kernel", {m, n}, NoNode, s, "vulkan", NoNode)

ReceiveScatter ==
    \E m, n \in VulkanNodes : Arrive("scatter", {n}, m, {}, "vulkan", NoNode)

ReceiveWriteSlice ==
    \E n \in VulkanNodes, m \in Writable : \E s \in SUBSET {n} :
        cache[n].buf # cache[m].buf /\ Arrive("write_slice", {n}, m, s, "vulkan", m)

ReceiveAlloc == Arrive("alloc", {}, NoNode, {}, "vulkan", NoNode)

ReceiveZeroFill ==
    \E n \in Writable : Arrive("zero_fill", {}, n, {}, "vulkan", n)

ReceiveView == \E n \in VulkanNodes : Arrive("view", {}, n, {}, "none", NoNode)

ReceiveContiguize ==
    \E n \in VulkanNodes : Arrive("contiguize", {n}, NoNode, {n}, "none", NoNode)

ReceiveSlotOwn ==
    \E n \in VulkanNodes : Arrive("slot_own", {n}, NoNode, {}, "vulkan", NoNode)

\* Op::Copy, and with a kill Op::Move: to the host, from it, and on the device.
ReceiveDownload ==
    \E n \in VulkanNodes : \E s \in SUBSET {n}, k \in {NoNode, n} :
        Arrive("download", {n}, NoNode, s, "vulkan", k)

ReceiveUpload ==
    \E n \in HostNodes : \E k \in {NoNode, n} :
        Arrive("upload", {n}, NoNode, {}, "cpu", k)

ReceiveCopy ==
    \E n \in VulkanNodes : \E s \in SUBSET {n}, k \in {NoNode, n} :
        Arrive("copy", {n}, NoNode, s, "vulkan", k)

ReceiveRelease == \E n \in Writable : Arrive("release", {}, NoNode, {}, "vulkan", n)

Receive ==
    \/ ReceiveCpu \/ ReceiveKernel \/ ReceiveScatter \/ ReceiveWriteSlice
    \/ ReceiveAlloc \/ ReceiveZeroFill \/ ReceiveView \/ ReceiveContiguize
    \/ ReceiveSlotOwn \/ ReceiveDownload \/ ReceiveUpload \/ ReceiveCopy
    \/ ReceiveRelease

--------------------------------------------------------------------------------
(* execute_work_item. *)

\* The step of the item's life behind the current one; an item without a
\* destructive input ends where its eviction would start.
At(j, stage) ==
    IF stage = "evict" /\ j.kill = NoNode THEN NoJob
    ELSE IF stage = "evict" THEN [NoJob EXCEPT !.stage = "evict", !.kill = j.kill,
                                               !.fenced = j.fenced]
    ELSE [j EXCEPT !.stage = stage]

\* Host block on everything submitted so far.
Blocked(j, after) == [j EXCEPT !.stage = "wait", !.after = after]

\* The in-place ops overwrite the bytes that aliases of their node name.
Overwrite(c, b, n) ==
    (n :> [buf |-> b, tag |-> n])
      @@ [m \in DOMAIN c |-> IF c[m].buf = b THEN [buf |-> b, tag |-> Stale] ELSE c[m]]

OverwriteInput(b, n) == IF input.buf = b THEN [input EXCEPT !.tag = n] ELSE input

\* record_dispatch_batched and the lazy flush_pending behind it: a full batch is
\* submitted and waited for before the item goes on.
Record(q, cmd, declared, c, j, after, in) ==
    \E r \in {record_batch_dispatch(q, cmd, declared)} :
        IF should_flush(r)
        THEN Own(submit_batch(r), c, inflight,
                 Blocked([j EXCEPT !.fenced = r.retained], after), in)
        ELSE Own(r, c, inflight, At(j, after), in)

Running(ops) == phase = "run" /\ job.stage = "run" /\ job.op \in ops

\* drain_inflight_vulkan in front of a transfer that reads the device.
Drain ==
    /\ phase = "run" /\ job.stage = "drain"
    /\ inflight = <<>> \/ Signalled(vk)
    /\ Own(vk, cache, <<>>, At(job, "run"), input)
    /\ UNCHANGED <<phase, compiler, sent, chunk, multi, nextNode, result>>

\* vkWaitForFences returns.
Waited ==
    /\ phase = "run" /\ job.stage = "wait"
    /\ Signalled(vk)
    /\ Own(vk, cache, inflight, At([job EXCEPT !.fenced = {}], job.after), input)
    /\ UNCHANGED <<phase, compiler, sent, chunk, multi, nextNode, result>>

\* auto_contiguize of one strided input into a temporary of the item.
Gather ==
    /\ Running({"kernel", "write_slice", "download", "copy"})
    /\ job.strided # {}
    /\ \E n \in {Min(job.strided)}, t \in {take_or_alloc_device_buffer(vk, Live)} :
           /\ t.buf # Host
           /\ Record(t.q, [reads |-> {Read(n)}, to |-> t.buf, tag |-> cache[n].tag],
                     {cache[n].buf}, cache,
                     [job EXCEPT !.strided = @ \ {n}, !.held = @ \cup {t.buf},
                                 !.reads = @ \cup {<<t.buf, cache[n].tag>>}],
                     "run", input)
    /\ UNCHANGED <<phase, compiler, sent, chunk, multi, nextNode, result>>

\* A kernel with a fresh output; also ContiguizeOf, whose kernel is the strided
\* copy, and the dispatch of scatter_add, which adds into the output the base was
\* copied to.
Dispatch ==
    /\ \/ Running({"kernel"}) /\ job.strided = {}
       \/ Running({"contiguize"})
       \/ Running({"scatter"}) /\ job.out # Host
    /\ \E t \in {IF job.op = "scatter" THEN [buf |-> job.out, q |-> vk]
                 ELSE take_or_alloc_device_buffer(vk, Live)} :
       LET tag  == IF job.op = "contiguize" THEN cache[Min(job.ins)].tag ELSE job.node
           rds  == CASE job.op = "contiguize" -> {Read(n) : n \in job.ins}
                     [] job.op = "scatter" ->
                            job.reads \cup {<<t.buf, cache[job.base].tag>>}
                     [] OTHER -> job.reads
       IN  /\ t.buf # Host
           /\ Record(t.q, [reads |-> rds, to |-> t.buf, tag |-> tag],
                     {r[1] : r \in rds},
                     (job.node :> [buf |-> t.buf, tag |-> tag]) @@ cache,
                     job, "evict", input)
    /\ UNCHANGED <<phase, compiler, sent, chunk, multi, nextNode, result>>

\* write_slice declares its source as read and its destination as written; what
\* the slice does not cover keeps the bytes of the destination.
WriteSlice ==
    /\ Running({"write_slice"}) /\ job.strided = {}
    /\ LET b    == cache[job.base].buf
           kept == {r \in {Read(job.base)} : r[2] # Blank}
       IN  Record(vk, [reads |-> job.reads \cup kept, to |-> b, tag |-> job.node],
                  {r[1] : r \in job.reads}, Overwrite(cache, b, job.node), job,
                  "evict", OverwriteInput(b, job.node))
    /\ UNCHANGED <<phase, compiler, sent, chunk, multi, nextNode, result>>

\* download_bytes flushes the open batch before it copies.
ForceFlush ==
    /\ Running({"download"}) /\ job.strided = {} /\ vk.open # <<>>
    /\ Own(submit_batch(vk), cache, inflight,
           Blocked([job EXCEPT !.fenced = vk.retained], "run"), input)
    /\ UNCHANGED <<phase, compiler, sent, chunk, multi, nextNode, result>>

\* The one-shot of a transfer, of slot_copy_to_new_handle, and of scatter_add's
\* base, into a buffer taken for it; of a download, into the host's staging memory.
OneShot ==
    /\ \/ Running({"upload", "copy", "slot_own"}) /\ job.strided = {}
       \/ Running({"download"}) /\ job.strided = {} /\ vk.open = <<>>
       \/ Running({"scatter"}) /\ job.out = Host
    /\ \E t \in {IF job.op = "download" THEN [buf |-> Host, q |-> vk]
                 ELSE TransferTarget(job.op, vk)} :
       LET src == IF job.op = "scatter" THEN job.base ELSE Min(job.ins)
           rds == CASE job.op = "upload" -> {}
                    [] job.op = "scatter" -> {Read(job.base)}
                    [] OTHER -> job.reads
           cmd == [reads |-> rds, to |-> t.buf, tag |-> cache[src].tag]
       IN  /\ job.op = "download" \/ t.buf # Host
           /\ Own(one_shot(t.q, cmd), cache, inflight,
                  Blocked([job EXCEPT !.out = t.buf],
                          IF job.op = "scatter" THEN "run" ELSE "store"), input)
    /\ UNCHANGED <<phase, compiler, sent, chunk, multi, nextNode, result>>

\* The output of a one-shot enters the cache behind its fence. A download finds
\* in the staging memory whatever the device copied.
Store ==
    /\ phase = "run" /\ job.stage = "store"
    /\ LET tag == IF job.op = "download" THEN vk.content[Host]
                  ELSE cache[Min(job.ins)].tag
       IN  Own(vk, (job.node :> [buf |-> job.out, tag |-> tag]) @@ cache, inflight,
               At(job, "evict"), input)
    /\ UNCHANGED <<phase, compiler, sent, chunk, multi, nextNode, result>>

\* fill_bytes_zero: its flush_pending leaves a batch below the limit alone.
ZeroFill ==
    /\ Running({"zero_fill"})
    /\ LET b == cache[job.base].buf
       IN  Own(one_shot(vk, [reads |-> {}, to |-> b, tag |-> job.node]),
               Overwrite(cache, b, job.node), inflight, Blocked(job, "evict"),
               OverwriteInput(b, job.node))
    /\ UNCHANGED <<phase, compiler, sent, chunk, multi, nextNode, result>>

\* Items that record nothing: a host kernel, an allocation, a view, a release.
Adopt ==
    /\ Running({"cpu", "alloc", "view", "release"})
    /\ LET t == IF job.op = "alloc" THEN take_or_alloc_device_buffer(vk, Live)
                ELSE [buf |-> Host, q |-> vk]
           c == CASE job.op = "cpu" ->
                        (job.node :> [buf |-> Host, tag |-> job.node]) @@ cache
                  [] job.op = "alloc" ->
                        (job.node :> [buf |-> t.buf, tag |-> Blank]) @@ cache
                  [] job.op = "view" -> (job.node :> cache[job.base]) @@ cache
                  [] OTHER -> cache
       IN  /\ job.op = "alloc" => t.buf # Host
           /\ Own(t.q, c, inflight, At(job, "evict"), input)
    /\ UNCHANGED <<phase, compiler, sent, chunk, multi, nextNode, result>>

--------------------------------------------------------------------------------
(* Eviction of a destroyed input. *)

\* defer_evicted_vulkan_buffer: the open batch and every batch in flight keep the
\* buffer; a grown batch is submitted.
defer_evicted(b) ==
    LET kept  == retain_in_open_batch(vk, b)
        every == [i \in DOMAIN inflight |-> inflight[i] \cup {b}]
    IN  IF Len(kept.open) >= EvictSubmitMin THEN eager_submit(kept, cache, every)
        ELSE [q |-> kept, inf |-> every]

Without(c, n) == [m \in DOMAIN c \ {n} |-> c[m]]

Evict ==
    /\ phase = "run" /\ job.stage = "evict"
    /\ LET b == cache[job.kill].buf
       IN  IF b = Host THEN Own(vk, Without(cache, job.kill), inflight, NoJob, input)
           ELSE IF multi
           THEN Own(defer_evicted(b).q, Without(cache, job.kill),
                    defer_evicted(b).inf, NoJob, input)
           ELSE IF vk.open # <<>>
           THEN Own(submit_batch(vk), cache, inflight,
                    Blocked([job EXCEPT !.fenced = vk.retained], "evict"), input)
           ELSE Own(vk, Without(cache, job.kill), inflight, NoJob, input)
    /\ UNCHANGED <<phase, compiler, sent, chunk, multi, nextNode, result>>

--------------------------------------------------------------------------------
(* The ends of a realize. *)

LocalsDropped == sent' = 0 /\ chunk' = "none" /\ multi' = FALSE

\* A realize starts when the graph lock is free of the last compiler thread.
Begin ==
    /\ phase = "idle" /\ compiler # "run" /\ nextNode <= workload.nodes
    /\ phase' = "run" /\ compiler' = "run"
    /\ result' = NoResult
    /\ Own(vk, (InputNode :> input), <<>>, NoJob, input)
    /\ UNCHANGED <<sent, chunk, multi, nextNode>>

\* Mutant: drain_vulkan_pending is left out.
EndOfLoop_OpenBatchLeft ==
    /\ phase = "run" /\ job = NoJob /\ sent = 0 /\ compiler = "ok"
    /\ inflight = <<>> \/ Signalled(vk)
    /\ phase' = "drain"
    /\ Own(vk, cache, <<>>, NoJob, input)
    /\ UNCHANGED <<compiler, sent, chunk, multi, nextNode, result>>

\* The channel is closed and empty: wait for the batches in flight, then submit
\* what is still open.
EndOfLoop ==
    /\ phase = "run" /\ job = NoJob /\ sent = 0 /\ compiler = "ok"
    /\ inflight = <<>> \/ Signalled(vk)
    /\ phase' = "drain"
    /\ LET after == eager_submit(vk, cache, <<>>)
       IN  Own(after.q, cache, <<>>, [NoJob EXCEPT !.fenced = UNION Range(after.inf)],
               input)
    /\ UNCHANGED <<compiler, sent, chunk, multi, nextNode, result>>

\* The target's storage goes to the caller, who may pass it to the next realize,
\* and the cache is dropped.
Return ==
    /\ phase = "drain" /\ Signalled(vk)
    /\ phase' = "idle"
    /\ \E n \in DOMAIN cache :
         /\ Readable(n)
         /\ result' = [want |-> cache[n].tag,
                       got |-> IF OnVulkan(n) THEN vk.content[cache[n].buf]
                               ELSE cache[n].tag]
         /\ \E in \in {input} \cup {cache[m] : m \in {n} \cap VulkanNodes} :
                Own(vk, <<>>, <<>>, NoJob, in)
    /\ LocalsDropped
    /\ UNCHANGED <<compiler, nextNode>>

TargetMissing ==
    /\ phase = "drain" /\ Signalled(vk)
    /\ \A n \in DOMAIN cache : ~Readable(n)
    /\ phase' = "idle"
    /\ Own(vk, <<>>, <<>>, NoJob, input)
    /\ LocalsDropped
    /\ UNCHANGED <<compiler, nextNode, result>>

\* Mutant: an error the compiler sent is skipped instead of returned.
Fail_CompilerErrorSkipped ==
    /\ phase = "run"
    /\ \/ job = NoJob /\ sent > 0
       \/ job.stage = "run"
    /\ phase' = "fail"
    /\ Own(vk, cache, inflight, NoJob, input)
    /\ UNCHANGED <<compiler, sent, chunk, multi, nextNode, result>>

\* The loop returns early: the compiler sent an error, the topology changed at a
\* chunk boundary, or the item failed. The item's own handles drop first.
Fail ==
    /\ phase = "run"
    /\ \/ job = NoJob /\ sent = 0 /\ compiler = "err"
       \/ job = NoJob /\ sent > 0
       \/ job.stage = "run"
    /\ phase' = "fail"
    /\ Own(vk, cache, inflight, NoJob, input)
    /\ UNCHANGED <<compiler, sent, chunk, multi, nextNode, result>>

\* Dropping a SubmittedBatch waits for its fence; the open batch stays behind.
FailExit ==
    /\ phase = "fail"
    /\ inflight = <<>> \/ Signalled(vk)
    /\ phase' = "idle"
    /\ Own(vk, <<>>, <<>>, NoJob, input)
    /\ LocalsDropped
    /\ UNCHANGED <<compiler, nextNode, result>>

Executor ==
    \/ Receive \/ Drain \/ Waited \/ Gather \/ Dispatch \/ WriteSlice \/ ForceFlush
    \/ OneShot \/ Store \/ ZeroFill \/ Adopt \/ Evict \/ EndOfLoop \/ Return
    \/ TargetMissing \/ Fail \/ FailExit

--------------------------------------------------------------------------------
(* The compiler thread. *)

CompileSend ==
    /\ compiler = "run" /\ phase = "run"
    /\ sent < MaxAhead /\ nextNode + sent <= workload.nodes
    /\ sent' = sent + 1
    /\ UNCHANGED <<vk, workload, phase, compiler, cache, inflight, chunk, multi, job,
                   nextNode, input, result>>

\* Mutant: a failed send does not stop the walk.
CompileStop_SendIgnored ==
    /\ compiler = "run"
    /\ phase = "run" /\ compiler' \in {"ok", "err"}
    /\ UNCHANGED <<vk, workload, phase, sent, cache, inflight, chunk, multi, job,
                   nextNode, input, result>>

\* The order is exhausted, or a node does not compile, or the send finds the
\* receiver gone.
CompileStop ==
    /\ compiler = "run"
    /\ \/ phase = "run" /\ compiler' \in {"ok", "err"}
       \/ phase \in {"fail", "idle"} /\ compiler' = "off"
    /\ UNCHANGED <<vk, workload, phase, sent, cache, inflight, chunk, multi, job,
                   nextNode, input, result>>

Compiler == CompileSend \/ CompileStop

Device == /\ \E i \in DOMAIN vk.pending : Execute(i)
          /\ UNCHANGED host

Init ==
    /\ workload \in Workloads
    /\ phase = "idle" /\ compiler = "off" /\ sent = 0
    /\ cache = <<>> /\ inflight = <<>> /\ chunk = "none" /\ multi = FALSE
    /\ job = NoJob /\ nextNode = 1
    /\ input = [buf |-> 1, tag |-> 0]
    /\ result = NoResult
    /\ vk = [open |-> <<>>, dirty |-> {}, retained |-> {}, pending |-> <<>>,
             epoch |-> 0, parked |-> <<>>,
             content |-> [b \in Buffers \cup {Host} |-> IF b = 1 THEN 0 ELSE Blank]]

Next == Begin \/ Executor \/ Compiler \/ Device

\* Threads are scheduled and the device works its queue off; nothing obliges the
\* caller to start a realize.
Spec == Init /\ [][Next]_vars
             /\ WF_vars(Executor) /\ WF_vars(Compiler) /\ WF_vars(Device)

--------------------------------------------------------------------------------
(* Properties. *)

\* In the plans that Admits calls ordered, no command computes from bytes that are
\* not its inputs: whatever the device reorders, whatever buffer the recycler hands
\* out (reusable_index), whatever an earlier realize left in the open batch, every
\* read finds the value of its node. It does not hold of plans with one of AllShapes,
\* which the code makes too.
OrderedPlansReadTheirInputs ==
    /\ \A b \in DOMAIN vk.content : vk.content[b] # Junk
    /\ \A n \in DOMAIN cache : cache[n].tag # Junk

\* realize of an ordered plan returns the target's value, complete: behind the drains at its end no
\* command the result depends on is still recorded or in flight.
ResultComplete == result.got = result.want

\* While a realize runs, the storage of a node goes to the recycler only behind
\* the last command that names it, recorded or in flight
\* (defer_evicted_vulkan_buffer, force_flush_vulkan). Temporaries of an item do
\* not wait; the recycler's epoch guards those.
EvictedBehindItsReaders ==
    [][phase = "run" /\ phase' = "run"
        => (Live \ Live') \cap Outstanding(vk') \subseteq job.held]_vars

\* Every realize that starts returns, with a result or with an error, whichever
\* of compiler, executor and work item failed; and its compiler thread ends,
\* although nobody joins it when the executor fails.
RealizeReturns ==
    /\ phase # "idle" ~> phase = "idle"
    /\ compiler = "run" ~> compiler # "run"
================================================================================
