-------------------------- MODULE PagedSessionScheduler --------------------------
(***************************************************************************)
(* The paged multi-session decode driver of fuel-inference over the device  *)
(* pool and the model's paged steps. Calls of a host (admit, suspend,       *)
(* resume, register, release, reap) come between quanta; a quantum prefills *)
(* the sessions waiting for it and then decodes the ready ones, serially    *)
(* (step) or in same-position batches (step_batched).                       *)
(*                                                                         *)
(* A scheduler session is known by its pool handle. The order in which the  *)
(* ready sessions are visited is the policy's; the model takes any order,   *)
(* which covers admission order and every assignment of priorities.         *)
(***************************************************************************)
EXTENDS PagedForward

CONSTANTS
  Prompts,   \* prompts a host admits
  Budgets,   \* max_new values a host admits
  Eos,       \* tokens that end a session
  NoHandle   \* no suspension

\* Admission refuses an empty prompt and a zero budget.
ASSUME HostAssumption == /\ Prompts \subseteq Seq(Values) \ {<<>>}
                         /\ Budgets \subseteq Nat \ {0}
                         /\ NoHandle \notin Handle
ASSUME BatchAssumption == MaxBatch \in Nat \ {0}

VARIABLES
  sessions,   \* admitted and not yet reaped
  phase,      \* SessionPhase
  tokens,     \* prompt and generated tokens
  remaining,  \* token budget left
  first,      \* prefill_start
  cap,        \* max_blocks_cap
  suspended,  \* the eviction handle of a suspended session
  call        \* the scheduler call in progress

recordVars == <<phase, tokens, remaining, first, cap>>
schedulerVars == <<sessions, recordVars, suspended, call>>
allVars == <<forwardVars, schedulerVars>>

NoCall == [kind |-> "none"]

\* Mutant: suspended sessions are visited too.
ReadySuspended(p) == {s \in sessions : phase[s] = p}

Ready(p) == {s \in sessions : phase[s] = p /\ suspended[s] = NoHandle}

SchedulerInit ==
  /\ ForwardInit
  /\ sessions = {}
  /\ phase = [s \in Sessions |-> "Finished"]
  /\ tokens = [s \in Sessions |-> <<>>]
  /\ remaining = [s \in Sessions |-> 0]
  /\ first = [s \in Sessions |-> 0]
  /\ cap = [s \in Sessions |-> 0]
  /\ suspended = [s \in Sessions |-> NoHandle]
  /\ call = NoCall

-----------------------------------------------------------------------------
(* Calls of the host. *)

\* Mutant: the capacity covers the prompt only.
PushTight(s, prompt, budget, shared) ==
  /\ sessions' = sessions \cup {s}
  /\ phase' = [phase EXCEPT ![s] = "Prefill"]
  /\ tokens' = [tokens EXCEPT ![s] = prompt]
  /\ remaining' = [remaining EXCEPT ![s] = budget]
  /\ first' = [first EXCEPT ![s] = shared]
  /\ cap' = [cap EXCEPT ![s] = BlocksFor(Len(prompt))]
  /\ UNCHANGED suspended

\* Push a session that already holds shared tokens of its prompt.
Push(s, prompt, budget, shared) ==
  /\ sessions' = sessions \cup {s}
  /\ phase' = [phase EXCEPT ![s] = "Prefill"]
  /\ tokens' = [tokens EXCEPT ![s] = prompt]
  /\ remaining' = [remaining EXCEPT ![s] = budget]
  /\ first' = [first EXCEPT ![s] = shared]
  /\ cap' = [cap EXCEPT ![s] = BlocksFor(Len(prompt) + budget)]
  /\ UNCHANGED suspended

AddSession(prompt, budget) ==
  /\ call = NoCall
  /\ Open
  /\ Push(next_session, prompt, budget, 0)
  /\ CoreOnly /\ UNCHANGED call

\* add_session_sharing_prefix opens a handle, then splices or rolls back.
AdmitSharing(x, prompt, budget) ==
  /\ call = NoCall
  /\ Open
  /\ call' = [kind |-> "admit", session |-> next_session, prefix |-> x, prompt |-> prompt, budget |-> budget]
  /\ CoreOnly /\ UNCHANGED <<sessions, recordVars, suspended>>

\* Mutants: the shared tokens are prefilled again; the prompt may be all shared.
AdmitSplicedAgain ==
  /\ call.kind = "admit"
  /\ Len(call.prompt) > call.prefix.blocks * BlockSize
  /\ SplicePrefixFrom(call.prefix, call.session)
  /\ Push(call.session, call.prompt, call.budget, 0)
  /\ CoreOnly /\ call' = NoCall

AdmitSplicedShort ==
  /\ call.kind = "admit"
  /\ SplicePrefixFrom(call.prefix, call.session)
  /\ Push(call.session, call.prompt, call.budget, call.prefix.blocks * BlockSize)
  /\ CoreOnly /\ call' = NoCall

AdmitSpliced ==
  /\ call.kind = "admit"
  /\ Len(call.prompt) > call.prefix.blocks * BlockSize
  /\ SplicePrefixFrom(call.prefix, call.session)
  /\ Push(call.session, call.prompt, call.budget, call.prefix.blocks * BlockSize)
  /\ CoreOnly /\ call' = NoCall

\* The prompt does not extend past the prefix: the spliced handle is discarded.
AdmitRolledBack ==
  /\ call.kind = "admit"
  /\ Len(call.prompt) <= call.prefix.blocks * BlockSize
  /\ Discard(call.session)
  /\ CoreOnly /\ call' = NoCall
  /\ UNCHANGED <<sessions, recordVars, suspended>>

SchedulerRegister(donor, n) ==
  /\ call = NoCall
  /\ donor \in sessions
  /\ RegisterPrefix(donor, n) \/ RegisterPrefixRefused(donor, n)
  /\ CoreOnly /\ UNCHANGED schedulerVars

SchedulerRelease(x) ==
  /\ call = NoCall
  /\ ReleasePrefix(x)
  /\ CoreOnly /\ UNCHANGED schedulerVars

EvictSession(s) ==
  /\ call = NoCall
  /\ s \in sessions
  /\ suspended[s] = NoHandle
  /\ phase[s] # "Finished"
  /\ EvictDevice(s, 1 .. Len(slots[s]))
  /\ suspended' = [suspended EXCEPT ![s] = CHOOSE h \in handles' : h \notin handles]
  /\ UNCHANGED <<work, failed, sessions, recordVars, call>>

RestoreSession(s) ==
  /\ call = NoCall
  /\ s \in sessions
  /\ suspended[s] # NoHandle
  /\ RestoreDevice(s, suspended[s])
  /\ suspended' = [suspended EXCEPT ![s] = NoHandle]
  /\ UNCHANGED <<work, failed, sessions, recordVars, call>>

\* pool.restore returns an error after the handle was taken from the session.
RestoreSessionTorn(s) ==
  /\ call = NoCall
  /\ s \in sessions
  /\ suspended[s] # NoHandle
  /\ RestoreTorn(s, suspended[s])
  /\ suspended' = [suspended EXCEPT ![s] = NoHandle]
  /\ failed' = failed \cup {s}
  /\ UNCHANGED <<work, sessions, recordVars, call>>

\* reap_finished, one session after the other.
BeginReap ==
  /\ call = NoCall
  /\ \E s \in sessions : phase[s] = "Finished"
  /\ call' = [kind |-> "reap"]
  /\ UNCHANGED <<forwardVars, sessions, recordVars, suspended>>

ReapOne(s) ==
  /\ call.kind = "reap"
  /\ s \in sessions /\ phase[s] = "Finished"
  /\ Close(s)
  /\ sessions' = sessions \ {s}
  /\ tokens' = [tokens EXCEPT ![s] = <<>>]
  /\ remaining' = [remaining EXCEPT ![s] = 0]
  /\ first' = [first EXCEPT ![s] = 0]
  /\ cap' = [cap EXCEPT ![s] = 0]
  /\ call' = IF \E r \in sessions \ {s} : phase[r] = "Finished" THEN call ELSE NoCall
  /\ UNCHANGED <<phase, suspended>>

-----------------------------------------------------------------------------
(* A quantum: step and step_batched. *)

InQuantum == call.kind \in {"step", "step_batched"}

BeginQuantum(kind) ==
  /\ call = NoCall
  /\ call' = [kind |-> kind, part |-> "prefill", todo |-> Ready("Prefill"), at |-> None, next |-> 0]
  /\ UNCHANGED <<forwardVars, sessions, recordVars, suspended>>

\* prefill_pass: a session's whole prompt past first, token by token, then the
\* next session.
PrefillFeed(s) ==
  LET k == IF call.at = None THEN first[s] + 1 ELSE call.next IN
  /\ InQuantum /\ call.part = "prefill"
  /\ IF call.at = None THEN s \in call.todo ELSE s = call.at
  /\ BeginStep([r \in {s} |-> tokens[s][k]])
  /\ call' = [call EXCEPT !.todo = @ \ {s}, !.at = s, !.next = k + 1]
  /\ UNCHANGED <<sessions, recordVars, suspended>>

\* The decode-ready sessions are collected after the prefill pass.
CollectDecodeReady ==
  /\ InQuantum /\ Idle
  /\ call.part = "prefill" /\ call.at = None /\ call.todo = {}
  /\ call' = [call EXCEPT !.part = "decode", !.todo = Ready("Decode"), !.next = 0]
  /\ UNCHANGED <<forwardVars, sessions, recordVars, suspended>>

\* The sessions advanced together: one under step; under step_batched a chunk of
\* a group of equal positions, as large as MaxBatch allows.
Chunk(chunk) ==
  /\ chunk # {} /\ chunk \subseteq call.todo
  /\ IF call.kind = "step" THEN Cardinality(chunk) = 1
     ELSE \E s \in chunk :
            LET group == {r \in call.todo : filled[r] = filled[s]}
            IN chunk \subseteq group /\ Cardinality(chunk) = Least(MaxBatch, Cardinality(group))

DecodeChunk(chunk) ==
  /\ InQuantum /\ call.part = "decode"
  /\ Chunk(chunk)
  /\ BeginStep([s \in chunk |-> tokens[s][Len(tokens[s])]])
  /\ call' = [call EXCEPT !.todo = @ \ chunk]
  /\ UNCHANGED <<sessions, recordVars, suspended>>

\* Mutant: the error is reported and the session goes on.
FinishErrorIgnored(gone) == UNCHANGED phase

FinishError(gone) == phase' = [s \in Sessions |-> IF s \in gone THEN "Finished" ELSE phase[s]]

\* The batched pre-check refuses: the whole chunk finishes with the error.
BatchRefused(chunk) ==
  /\ InQuantum /\ call.part = "decode" /\ Idle
  /\ Chunk(chunk) /\ Cardinality(chunk) > 1
  /\ ~(\A s \in chunk : FrontierResident(s)) \/ Needed(chunk) > Cardinality(free)
  /\ FinishError(chunk)
  /\ call' = [call EXCEPT !.todo = @ \ chunk]
  /\ UNCHANGED <<forwardVars, sessions, tokens, remaining, first, cap, suspended>>

EndQuantum ==
  /\ InQuantum /\ Idle
  /\ call.part = "decode" /\ call.todo = {}
  /\ call' = NoCall
  /\ UNCHANGED <<forwardVars, sessions, recordVars, suspended>>

\* Mutant: the end of the budget is not noticed.
SampleUnbudgeted(picked) ==
  /\ tokens' = [s \in Sessions |-> IF s \in DOMAIN picked /\ picked[s] # None
                                   THEN Append(tokens[s], picked[s]) ELSE tokens[s]]
  /\ remaining' = [s \in Sessions |-> IF s \in DOMAIN picked /\ picked[s] # None
                                      THEN Saturating(remaining[s] - 1) ELSE remaining[s]]
  /\ phase' = [s \in Sessions |->
       IF s \notin DOMAIN picked THEN phase[s]
       ELSE IF picked[s] \in Eos \cup {None} THEN "Finished" ELSE "Decode"]

\* Each session samples a token, or finishes when sampling fails (None), at an
\* end-of-sequence token, or with its budget used up.
Sample(picked) ==
  /\ tokens' = [s \in Sessions |-> IF s \in DOMAIN picked /\ picked[s] # None
                                   THEN Append(tokens[s], picked[s]) ELSE tokens[s]]
  /\ remaining' = [s \in Sessions |-> IF s \in DOMAIN picked /\ picked[s] # None
                                      THEN Saturating(remaining[s] - 1) ELSE remaining[s]]
  /\ phase' = [s \in Sessions |->
       IF s \notin DOMAIN picked THEN phase[s]
       ELSE IF picked[s] \in Eos \cup {None} \/ remaining'[s] = 0 THEN "Finished" ELSE "Decode"]

\* The forward pass returns logits: the prefill goes on, or its last logits and
\* those of a decode step are sampled.
ForwardReturns ==
  /\ StepWrite
  /\ IF call.part = "prefill" /\ call.next <= Len(tokens[call.at])
     THEN UNCHANGED <<recordVars, call>>
     ELSE /\ \E picked \in [Stepping -> Values \cup {None}] : Sample(picked)
          /\ call' = [call EXCEPT !.at = None]
          /\ UNCHANGED <<first, cap>>
  /\ UNCHANGED <<sessions, suspended>>

ForwardError ==
  /\ WriteFails \/ \E s \in Sessions : AppendRefused(s) \/ WritableRefused(s) \/ WritableTorn(s)
  /\ FinishError(Stepping)
  /\ call' = [call EXCEPT !.at = None]
  /\ UNCHANGED <<sessions, tokens, remaining, first, cap, suspended>>

ForwardGrows ==
  /\ \E s \in Sessions : StepAppend(s) \/ StepWritable(s)
  /\ UNCHANGED schedulerVars

-----------------------------------------------------------------------------
(* Specifications. *)

\* Hosts share a prefix only with prompts that begin with its text; the code has
\* no text to compare.
Shares(x, prompt) == \A t \in 1 .. Least(filled[x.owner], Len(prompt)) : ValueAt(x.owner, t) = prompt[t]

HostCall ==
  \/ \E prompt \in Prompts : \E budget \in Budgets :
       \/ AddSession(prompt, budget)
       \/ \E x \in prefixes : Shares(x, prompt) /\ AdmitSharing(x, prompt, budget)
  \/ AdmitSpliced
  \/ AdmitRolledBack
  \/ \E x \in prefixes : SchedulerRelease(x)
  \/ \E s \in sessions : EvictSession(s) \/ RestoreSession(s) \/ ReapOne(s)
  \/ BeginReap

\* Hosts register a prefix of a session that has had no error.
SoundRegister == \E s \in sessions \ failed : \E n \in 0 .. MaxSlots : SchedulerRegister(s, n)

QuantumStep ==
  \/ \E s \in sessions : PrefillFeed(s)
  \/ CollectDecodeReady
  \/ \E chunk \in SUBSET sessions : DecodeChunk(chunk) \/ BatchRefused(chunk)
  \/ ForwardGrows
  \/ ForwardReturns
  \/ ForwardError
  \/ EndQuantum

BeginStepCall == \E kind \in {"step", "step_batched"} : BeginQuantum(kind)

SchedulerNext == HostCall \/ SoundRegister \/ BeginStepCall \/ QuantumStep

SchedulerSpec == SchedulerInit /\ [][SchedulerNext]_allVars

\* Hosts keep calling step, as run_to_completion does, and every call returns.
FairSpec ==
  /\ SchedulerSpec
  /\ WF_allVars(BeginStepCall)
  /\ WF_allVars(QuantumStep)
  /\ WF_allVars(AdmitSpliced \/ AdmitRolledBack \/ \E s \in sessions : ReapOne(s))

\* Device writes may fail during a restore.
TornRestoreSpec ==
  SchedulerInit /\ [][SchedulerNext \/ \E s \in sessions : RestoreSessionTorn(s)]_allVars

\* Hosts register a prefix of any session they hold, as the code lets them.
AnyDonorSpec ==
  SchedulerInit
  /\ [][SchedulerNext \/ \E s \in sessions : \E n \in 0 .. MaxSlots : SchedulerRegister(s, n)]_allVars

-----------------------------------------------------------------------------
(* Properties. *)

\* Attention reads the session's own text: every position a session that has had
\* no error has filled holds the value of the token at that position of its
\* prompt and generated tail, through sharing, suspension and batching.
KvMatchesText ==
  \A s \in sessions \ failed : \A t \in 1 .. Written(s) :
    t <= Len(tokens[s]) /\ ValueAt(s, t) = tokens[s][t]

\* A decoding session is fed its last token next: between steps its pool fill is
\* one token short of its text, so that token's position is the right one. A
\* prefilling one starts where its shared prefix ends, with a token left to feed.
DecodeInStep ==
  Idle => \A s \in sessions \ failed :
            /\ phase[s] = "Decode" => filled[s] = Len(tokens[s]) - 1
            /\ phase[s] = "Prefill" /\ call.kind = "none" => filled[s] = first[s] /\ first[s] < Len(tokens[s])

\* The block-table capacity fixed at admission always suffices, so the padded
\* table of the held plan is never refused for its width.
WithinCap == \A s \in sessions : Len(slots[s]) <= cap[s]

\* Copy-on-write "is a non-issue in rung-1": whatever prefixes are registered,
\* shared and released, the block a session is about to write is its own.
FrontierExclusive ==
  \A s \in Sessions : work.current = s => refcount[slots[s][BlockAt(filled[s])]] = 1

\* The scheduler keeps the allocator's rule for restores: the handle of a
\* suspended session still describes it, whatever the others did meanwhile.
SuspensionCurrent ==
  \A s \in sessions : suspended[s] # NoHandle => Current(suspended[s]) /\ phase[s] # "Finished"

\* The scheduler drives the pool and the paged steps as their specification
\* allows: it never feeds a session after an error, never restores a stale
\* handle, and never splices onto a session that holds blocks. What is shown of
\* PagedForward, and of the allocator, holds of the scheduler.
ImplementsForward == ForwardSpec

\* run_to_completion returns: every session finishes, unless it is suspended.
Completes ==
  \A s \in Sessions :
    (s \in sessions /\ phase[s] # "Finished" /\ suspended[s] = NoHandle)
      ~> (s \notin sessions \/ phase[s] = "Finished" \/ suspended[s] # NoHandle)

\* restore_session's doc: "a failure never consumes the captured bytes". A session
\* that has had an error is finished, or still suspended with its saved blocks.
ErrorsContained ==
  \A s \in sessions \cap failed : phase[s] = "Finished" \/ suspended[s] # NoHandle

\* register_prefix's doc: the registered blocks are "FULLY-FILLED". Every row of
\* a registered prefix has been computed.
PrefixComputed ==
  \A x \in prefixes : \A t \in 1 .. filled[x.owner] : ValueAt(x.owner, t) \in Values
=============================================================================
