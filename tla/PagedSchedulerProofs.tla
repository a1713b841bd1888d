-------------------------- MODULE PagedSchedulerProofs --------------------------
(***************************************************************************)
(* The paged scheduler drives the pool and the model's paged steps within   *)
(* their specification, and keeps each session's text, position, capacity   *)
(* and suspension in step with the pool. The invariant follows the driver   *)
(* loop: who holds which pool session between calls, where a quantum is in  *)
(* its passes, and how far each session's text has been fed.                *)
(***************************************************************************)
EXTENDS PagedSessionScheduler, PagedFacts

QuantumCall == [kind : {"step", "step_batched"}, part : {"prefill", "decode"},
                todo : SUBSET Sessions, at : Sessions \cup {None}, next : Nat]

AdmitCall == [kind : {"admit"}, session : Sessions, prefix : prefixes, prompt : Prompts, budget : Budgets]

DriverTypeOK ==
  /\ sessions \subseteq Sessions
  /\ phase \in [Sessions -> {"Prefill", "Decode", "Finished"}]
  /\ tokens \in [Sessions -> Seq(Values)]
  /\ remaining \in [Sessions -> Nat]
  /\ first \in [Sessions -> Nat]
  /\ cap \in [Sessions -> Nat]
  /\ suspended \in [Sessions -> Handle \cup {NoHandle}]
  /\ call \in {NoCall, [kind |-> "reap"]} \cup AdmitCall \cup QuantumCall

\* The session a sharing admission has opened and not yet spliced onto.
Admitting == IF call.kind = "admit" THEN {call.session} ELSE {}

\* Every pool session a client can hold is the scheduler's, every eviction handle
\* is the current one of a suspended session, and errors finish their sessions.
Holding ==
  /\ Clients = sessions \cup Admitting /\ sessions \cap Admitting = {}
  /\ \A s \in Admitting : slots[s] = <<>> /\ filled[s] = 0
  /\ \A s \in failed : s \in sessions /\ phase[s] = "Finished"
  /\ \A h \in handles : h.session \in sessions /\ suspended[h.session] = h
  /\ \A s \in Sessions : suspended[s] # NoHandle =>
       /\ s \in sessions /\ phase[s] # "Finished"
       /\ suspended[s] \in handles /\ suspended[s].session = s /\ Current(suspended[s])

Pass == IF call.part = "prefill" THEN "Prefill" ELSE "Decode"

\* A step runs inside a quantum, and a quantum visits sessions ready for its pass,
\* each once; the prefill pass has one session under way.
Visiting ==
  /\ Idle \/ InQuantum
  /\ InQuantum =>
       /\ call.todo \cup Stepping \subseteq Ready(Pass)
       /\ call.todo \cap Stepping = {}
       /\ call.at # None =>
            /\ call.part = "prefill" /\ call.at \in Ready("Prefill") /\ call.at \notin call.todo
            /\ call.next = IF Idle THEN filled[call.at] + 1 ELSE Written(call.at) + 2
       /\ call.part = "prefill" => IF Idle \/ call.at = None THEN Stepping = {} ELSE Stepping = {call.at}

\* How far each session's text has been fed, and what the step in progress feeds.
Fed ==
  /\ \A s \in sessions :
       /\ phase[s] = "Decode" => Written(s) = Len(tokens[s]) - 1
       /\ phase[s] = "Prefill" =>
            /\ first[s] <= Written(s) /\ Written(s) < Len(tokens[s])
            /\ (InQuantum /\ s = call.at) \/ Written(s) = first[s]
  /\ \A s \in Stepping : work.feed[s] = tokens[s][Written(s) + 1]

DriverInv == DriverTypeOK /\ Holding /\ Visiting /\ Fed

-----------------------------------------------------------------------------
(* Every call and every stage of a quantum is a step of PagedForward. *)

\* What kind of call is in progress, from its fields.
LEMMA CallKinds ==
  ASSUME DriverTypeOK
  PROVE  /\ InQuantum => call \in QuantumCall
         /\ call.kind = "admit" => call \in AdmitCall
         /\ call = NoCall => call.kind = "none" /\ ~InQuantum /\ Admitting = {}
         /\ call.kind = "none" => call = NoCall
         /\ call.kind = "reap" => ~InQuantum /\ Admitting = {} /\ call = [kind |-> "reap"]
         /\ InQuantum => Admitting = {} /\ call # NoCall
         /\ call.kind = "admit" => ~InQuantum /\ call # NoCall
BY DEF DriverTypeOK, InQuantum, QuantumCall, AdmitCall, NoCall, Admitting

LEMMA DriverFacts ==
  ASSUME ForwardInv, DriverInv
  PROVE  /\ sessions \subseteq Clients /\ Clients \subseteq Sessions /\ failed \subseteq sessions
         /\ \A s \in sessions : phase[s] # "Finished" => s \in Usable /\ s \in Reliable
         /\ \A s \in Stepping : s \in sessions /\ s \notin failed /\ suspended[s] = NoHandle /\ phase[s] # "Finished"
         /\ ~InQuantum => Idle /\ Stepping = {}
         /\ call = NoCall => Clients = sessions
         /\ \A s \in Sessions : suspended[s] = NoHandle => \A h \in handles : h.session # s
         /\ call.kind = "admit" => call.session \in Usable /\ call.session \notin sessions
         /\ \A s \in Sessions : Idle => Written(s) = filled[s]
         /\ \A s \in Sessions : Written(s) \in Nat /\ filled[s] \in Nat
<1>. /\ Sound /\ StepInv /\ DriverTypeOK /\ Holding /\ Visiting
  BY Zenon DEF ForwardInv, PoolInv, DriverInv
<1>. /\ sessions \subseteq Clients /\ Clients \subseteq Sessions /\ failed \subseteq sessions
  BY PoolTypes, Zenon DEF Holding
<1>. \A s \in sessions : phase[s] # "Finished" => s \in Usable /\ s \in Reliable
  BY Zenon DEF Holding, Usable, Reliable, Clients
<1>. ~InQuantum => Idle /\ Stepping = {}
  BY StepFacts, Zenon DEF Visiting
<1>4. \A s \in Stepping : s \in sessions /\ s \notin failed /\ suspended[s] = NoHandle /\ phase[s] # "Finished"
  <2>1. ASSUME NEW s \in Stepping
        PROVE  s \in sessions /\ suspended[s] = NoHandle /\ phase[s] # "Finished"
    <3>1. InQuantum
      BY Zenon
    <3>2. s \in Ready(Pass)
      BY <3>1, Zenon DEF Visiting
    <3>. QED BY <3>2, Zenon DEF Ready, Pass
  <2>. QED BY <2>1, Zenon DEF Usable
<1>5. call = NoCall => Clients = sessions
  BY CallKinds, Zenon DEF Holding
<1>6. \A s \in Sessions : suspended[s] = NoHandle => \A h \in handles : h.session # s
  <2>1. ASSUME NEW h \in handles
        PROVE  suspended[h.session] # NoHandle
    BY PoolTypes, HostAssumption DEF Holding
  <2>. QED BY <2>1, Zenon
<1>7. call.kind = "admit" => call.session \in Usable /\ call.session \notin sessions
  BY Zenon DEF Holding, Admitting, Usable
<1>8. \A s \in Sessions : Written(s) \in Nat /\ filled[s] \in Nat
  <2>1. filled \in [Sessions -> Nat]
    BY PoolTypes, Zenon
  <2>2. ASSUME NEW s \in Sessions, s = work.current \/ s \in work.grown
        PROVE  filled[s] > 0
    BY <2>2, StepFacts, Zenon
  <2>. QED BY <2>1, <2>2 DEF Written
<1>9. \A s \in Sessions : Idle => Written(s) = filled[s]
  BY StepFacts, StepAssumption, Zenon DEF Written
<1>. QED BY <1>4, <1>5, <1>6, <1>7, <1>8, <1>9, Zenon

\* A call of the host between quanta.
LEMMA HostIsForward ==
  ASSUME ForwardInv, DriverInv, HostCall \/ SoundRegister
  PROVE  [ForwardNext]_forwardVars
<1>. DriverTypeOK
  BY Zenon DEF DriverInv
<1>1. ASSUME NEW prompt, NEW budget, AddSession(prompt, budget) \/ \E x \in prefixes : AdmitSharing(x, prompt, budget)
      PROVE  ForwardNext
  BY <1>1, CallKinds, DriverFacts, Zenon DEF AddSession, AdmitSharing, ForwardNext, LifecycleStep
<1>2. CASE AdmitSpliced
  <2>. /\ call.kind = "admit" /\ SplicePrefixFrom(call.prefix, call.session) /\ CoreOnly
    BY <1>2, Zenon DEF AdmitSpliced
  <2>2. Idle /\ call.session \in Usable /\ call.prefix \in prefixes
    BY CallKinds, DriverFacts, Zenon DEF AdmitCall
  <2>. QED BY <2>2, Zenon DEF ForwardNext, PrefixUseStep
<1>3. CASE AdmitRolledBack
  <2>. /\ call.kind = "admit" /\ Discard(call.session) /\ CoreOnly
    BY <1>3, Zenon DEF AdmitRolledBack
  <2>. Idle /\ call.session \in Usable
    BY CallKinds, DriverFacts, Zenon
  <2>3. Close(call.session) /\ call.session \in Clients
    BY Zenon DEF Close, CoreOnly, Usable
  <2>. QED BY <2>3, Zenon DEF ForwardNext, LifecycleStep
<1>4. ASSUME NEW x \in prefixes, SchedulerRelease(x)
      PROVE  ForwardNext
  BY <1>4, CallKinds, DriverFacts, Zenon DEF SchedulerRelease, ForwardNext, LifecycleStep
<1>5. ASSUME NEW s \in sessions, EvictSession(s)
      PROVE  ForwardNext
  <2>. /\ call = NoCall /\ phase[s] # "Finished" /\ EvictDevice(s, 1 .. Len(slots[s])) /\ UNCHANGED <<work, failed>>
    BY <1>5, Zenon DEF EvictSession
  <2>2. Idle /\ s \in Usable
    BY CallKinds, DriverFacts, Zenon
  <2>. QED BY <2>2, Zenon DEF ForwardNext, TierStep
<1>6. ASSUME NEW s \in sessions, RestoreSession(s)
      PROVE  ForwardNext
  <2>. /\ call = NoCall /\ suspended[s] # NoHandle /\ RestoreDevice(s, suspended[s]) /\ UNCHANGED <<work, failed>>
    BY <1>6, Zenon DEF RestoreSession
  <2>. Idle /\ s \in Sessions
    BY CallKinds, DriverFacts, Zenon
  <2>. /\ suspended[s] \in handles /\ suspended[s].session = s /\ Current(suspended[s]) /\ phase[s] # "Finished"
    BY Zenon DEF DriverInv, Holding
  <2>4. s \in Usable
    BY DriverFacts, Zenon
  <2>. QED BY <2>4, Zenon DEF ForwardNext, TierStep
<1>7. ASSUME NEW s \in sessions, ReapOne(s)
      PROVE  ForwardNext
  <2>1. call.kind = "reap" /\ Close(s)
    BY <1>7, Zenon DEF ReapOne
  <2>. QED BY <2>1, CallKinds, DriverFacts, Zenon DEF ForwardNext, LifecycleStep
<1>8. CASE BeginReap
  BY <1>8, Zenon DEF BeginReap
<1>9. CASE SoundRegister
  <2>1. PICK s \in sessions \ failed, n \in 0 .. MaxSlots : SchedulerRegister(s, n)
    BY <1>9, Zenon DEF SoundRegister
  <2>. /\ call = NoCall
       /\ RegisterPrefix(s, n) \/ RegisterPrefixRefused(s, n)
       /\ CoreOnly
    BY <2>1, Zenon DEF SchedulerRegister
  <2>3. Idle /\ s \in Usable
    BY CallKinds, DriverFacts, Zenon DEF Usable
  <2>. QED BY <2>3, Zenon DEF ForwardNext, LifecycleStep
<1>. QED BY <1>1, <1>2, <1>3, <1>4, <1>5, <1>6, <1>7, <1>8, <1>9, Zenon DEF HostCall

\* The sessions advanced together fit in a batch.
LEMMA ChunkFits ==
  ASSUME Countable(Sessions), DriverTypeOK, InQuantum, NEW chunk, Chunk(chunk)
  PROVE  Cardinality(chunk) \in 1 .. MaxBatch /\ chunk # {} /\ chunk \subseteq call.todo
<1>0. call \in QuantumCall
  BY CallKinds, Zenon
<1>. chunk # {} /\ chunk \subseteq call.todo /\ call.todo \subseteq Sessions
  BY <1>0, Zenon DEF Chunk, QuantumCall
<1>3. Cardinality(chunk) \in Nat /\ Cardinality(chunk) # 0
  BY Zenon DEF Countable
<1>4. CASE call.kind = "step"
  BY <1>4, BatchAssumption DEF Chunk
<1>5. CASE call.kind # "step"
  <2>1. PICK s \in chunk : Cardinality(chunk) = Least(MaxBatch, Cardinality({r \in call.todo : filled[r] = filled[s]}))
    BY <1>5, Zenon DEF Chunk
  <2>2. Cardinality({r \in call.todo : filled[r] = filled[s]}) \in Nat
    <3>1. {r \in call.todo : filled[r] = filled[s]} \in SUBSET Sessions
      BY Zenon
    <3>. QED BY <3>1, Zenon DEF Countable
  <2>. QED BY <1>3, <2>1, <2>2, BatchAssumption DEF Least
<1>. QED BY <1>4, <1>5, Zenon

\* The step of a pass: the session's next prompt token, or every chunk member's
\* last token.
LEMMA FeedIsForward ==
  ASSUME ForwardInv, DriverInv, NEW chunk \in SUBSET sessions, Cardinality(chunk) \in 1 .. MaxBatch,
         \A s \in chunk : phase[s] # "Finished",
         NEW feed, feed \in [chunk -> Values], BeginStep(feed)
  PROVE  ForwardNext
BY DriverFacts, Zenon DEF ForwardNext, Batches

\* The prompt position the prefill pass feeds next.
NextPosition(s) == IF call.at = None THEN first[s] + 1 ELSE call.next

LEMMA PrefillTarget ==
  ASSUME ForwardInv, DriverInv, NEW s \in sessions, PrefillFeed(s), NEW k, k = NextPosition(s)
  PROVE  /\ call \in QuantumCall /\ InQuantum /\ call.part = "prefill" /\ Idle
         /\ s \in Ready("Prefill") /\ phase[s] = "Prefill"
         /\ k = filled[s] + 1 /\ k \in 1 .. Len(tokens[s]) /\ tokens[s][k] \in Values
         /\ call.at # None => s = call.at
         /\ call.at = None => s \in call.todo
         /\ call' = [call EXCEPT !.todo = call.todo \ {s}, !.at = s, !.next = k + 1]
<1>. /\ DriverTypeOK /\ Visiting /\ Fed /\ s \in Sessions
  BY DriverFacts, Zenon DEF DriverInv
<1>. /\ InQuantum /\ call.part = "prefill"
     /\ IF call.at = None THEN s \in call.todo ELSE s = call.at
     /\ BeginStep([r \in {s} |-> tokens[s][k]])
     /\ call' = [call EXCEPT !.todo = call.todo \ {s}, !.at = s, !.next = k + 1]
  BY Zenon DEF PrefillFeed, NextPosition
<1>. call \in QuantumCall /\ Idle
  BY CallKinds, Zenon DEF BeginStep
<1>. s \in Ready("Prefill")
  BY Zenon DEF Visiting, Pass
<1>. phase[s] = "Prefill" /\ Written(s) = filled[s] /\ filled[s] \in Nat
  BY DriverFacts, Zenon DEF Ready
<1>. first[s] <= filled[s] /\ filled[s] < Len(tokens[s]) /\ (s = call.at \/ filled[s] = first[s])
  BY Zenon DEF Fed
<1>. k = filled[s] + 1
  <2>1. CASE call.at = None
    BY <2>1, StepAssumption, Zenon DEF NextPosition
  <2>2. CASE call.at # None
    BY <2>2, Zenon DEF Visiting, NextPosition
  <2>. QED BY <2>1, <2>2, Zenon
<1>7. tokens[s] \in Seq(Values)
  BY Zenon DEF DriverTypeOK
<1>8. k \in 1 .. Len(tokens[s]) /\ tokens[s][k] \in Values
  BY <1>7, SeqTyped
<1>. QED BY <1>8, Zenon

LEMMA DecodeTarget ==
  ASSUME Countable(Sessions), ForwardInv, DriverInv, NEW chunk, InQuantum, call.part = "decode", Chunk(chunk), Idle
  PROVE  /\ call \in QuantumCall /\ chunk # {} /\ chunk \subseteq call.todo /\ chunk \subseteq sessions
         /\ Cardinality(chunk) \in 1 .. MaxBatch
         /\ \A s \in chunk : /\ s \in Ready("Decode") /\ phase[s] = "Decode" /\ suspended[s] = NoHandle
                             /\ filled[s] = Len(tokens[s]) - 1
                             /\ tokens[s] \in Seq(Values) /\ Len(tokens[s]) \in Nat \ {0}
                             /\ tokens[s][Len(tokens[s])] \in Values
<1>. /\ DriverTypeOK /\ Visiting /\ Fed
  BY Zenon DEF DriverInv
<1>. call \in QuantumCall /\ chunk # {} /\ chunk \subseteq call.todo /\ Cardinality(chunk) \in 1 .. MaxBatch
  BY CallKinds, ChunkFits, Zenon
<1>2. ASSUME NEW s \in chunk
      PROVE  /\ s \in Ready("Decode") /\ phase[s] = "Decode" /\ suspended[s] = NoHandle /\ s \in sessions
             /\ filled[s] = Len(tokens[s]) - 1
             /\ tokens[s] \in Seq(Values) /\ Len(tokens[s]) \in Nat \ {0}
             /\ tokens[s][Len(tokens[s])] \in Values
  <2>. s \in Ready("Decode")
    BY Zenon DEF Visiting, Pass
  <2>. phase[s] = "Decode" /\ suspended[s] = NoHandle /\ s \in sessions
    BY Zenon DEF Ready
  <2>. s \in Sessions
    BY DriverFacts, Zenon
  <2>. Written(s) = filled[s] /\ filled[s] \in Nat
    BY DriverFacts, Zenon
  <2>5. filled[s] = Len(tokens[s]) - 1
    BY Zenon DEF Fed
  <2>6. tokens[s] \in Seq(Values)
    BY Zenon DEF DriverTypeOK
  <2>. QED BY <2>5, <2>6, SeqTyped
<1>. QED BY <1>2, Zenon

LEMMA QuantumIsForward ==
  ASSUME Countable(Sessions), ForwardInv, DriverInv, QuantumStep \/ BeginStepCall
  PROVE  [ForwardNext]_forwardVars
<1>1. ASSUME NEW s \in sessions, PrefillFeed(s)
      PROVE  ForwardNext
  <2>1. PICK k : k = NextPosition(s)
    BY Zenon
  <2>2. tokens[s][k] \in Values /\ phase[s] = "Prefill"
    BY <1>1, <2>1, PrefillTarget, Zenon
  <2>5. BeginStep([r \in {s} |-> tokens[s][k]])
    BY <1>1, <2>1, Zenon DEF PrefillFeed, NextPosition
  <2>3. Cardinality({s}) \in 1 .. MaxBatch
    <3>1. s \in {s} /\ {s} \in SUBSET Sessions
      BY DriverFacts, Zenon
    <3>2. Cardinality({s}) = 1
      BY <3>1, Zenon DEF Countable
    <3>. QED BY <3>2, BatchAssumption
  <2>4. [r \in {s} |-> tokens[s][k]] \in [{s} -> Values]
    BY <2>2, Zenon
  <2>. QED BY <2>2, <2>3, <2>4, <2>5, FeedIsForward
<1>2. ASSUME NEW chunk \in SUBSET sessions, DecodeChunk(chunk)
      PROVE  ForwardNext
  <2>1. /\ InQuantum /\ call.part = "decode" /\ Chunk(chunk)
        /\ BeginStep([s \in chunk |-> tokens[s][Len(tokens[s])]])
    BY <1>2, Zenon DEF DecodeChunk
  <2>2. Idle
    BY <2>1, Zenon DEF BeginStep
  <2>3. [s \in chunk |-> tokens[s][Len(tokens[s])]] \in [chunk -> Values]
    BY <2>1, <2>2, DecodeTarget, Zenon
  <2>4. Cardinality(chunk) \in 1 .. MaxBatch /\ \A s \in chunk : phase[s] # "Finished"
    BY <2>1, <2>2, DecodeTarget, Zenon
  <2>. QED BY <2>1, <2>3, <2>4, FeedIsForward, Zenon
<1>3. CASE CollectDecodeReady \/ EndQuantum \/ BeginStepCall \/ \E chunk \in SUBSET sessions : BatchRefused(chunk)
  BY <1>3, Zenon DEF CollectDecodeReady, EndQuantum, BeginStepCall, BeginQuantum, BatchRefused
<1>4. CASE ForwardGrows \/ ForwardReturns \/ ForwardError
  BY <1>4, Zenon DEF ForwardGrows, ForwardReturns, ForwardError, ForwardNext, ForwardStep
<1>. QED BY <1>1, <1>2, <1>3, <1>4, Zenon DEF QuantumStep

LEMMA SchedulerIsForward ==
  ASSUME Countable(Sessions), ForwardInv, DriverInv, [SchedulerNext]_allVars
  PROVE  [ForwardNext]_forwardVars
BY HostIsForward, QuantumIsForward, Zenon DEF SchedulerNext, allVars

-----------------------------------------------------------------------------
(* What the stages of a step do to positions and tables. *)

LEMMA BeginShape ==
  ASSUME ForwardInv, NEW chunk, chunk # {}, NEW feed \in [chunk -> Values], BeginStep(feed)
  PROVE  /\ Idle /\ Stepping' = chunk /\ work'.feed = feed /\ ~Idle'
         /\ \A r \in Sessions : Written(r)' = filled[r] /\ Written(r) = filled[r]
         /\ UNCHANGED <<vars, deviceVars, failed>>
<1>0. Sound /\ StepInv
  BY Zenon DEF ForwardInv, PoolInv
<1>. /\ Idle /\ UNCHANGED <<vars, deviceVars, failed>>
     /\ work' = [NoWork EXCEPT !.grow = DOMAIN feed, !.feed = feed]
  BY Zenon DEF BeginStep
<1>. /\ work'.feed = feed /\ work'.current = None /\ work'.grown = {}
  BY Zenon DEF NoWork
<1>. Stepping' = chunk
  BY Zenon DEF Stepping
<1>4. ~Idle'
  <2>1. NoWork.feed = <<>> /\ DOMAIN NoWork.feed = {}
    BY DEF NoWork
  <2>. QED BY <2>1, Zenon DEF Idle, Stepping
<1>5. \A r \in Sessions : Written(r)' = filled[r]
  BY StepAssumption, Zenon DEF Written, vars, tableVars
<1>6. \A r \in Sessions : Written(r) = filled[r]
  BY <1>0, StepFacts, StepAssumption, Zenon DEF Written
<1>. QED BY <1>4, <1>5, <1>6, Zenon

LEMMA GrowShape ==
  ASSUME ForwardInv, NEW s \in Sessions, StepAppend(s) \/ StepWritable(s)
  PROVE  /\ s \in Stepping /\ Stepping' = Stepping /\ work'.feed = work.feed /\ ~Idle /\ ~Idle'
         /\ \A r \in Sessions : Written(r)' = Written(r)
         /\ \A r \in Sessions \ {s} : slots'[r] = slots[r] /\ filled'[r] = filled[r]
         /\ UNCHANGED <<opened, prefixes, handles, failed, next_session>>
<1>. Sound /\ StepInv /\ FillFitsBlocks
  BY Zenon DEF ForwardInv, PoolInv
<1>. s \in Stepping
  BY StepFacts, Zenon DEF StepAppend, StepWritable
<1>. work'.feed = work.feed /\ Stepping' = Stepping
  <2>1. work \in [grow : SUBSET Sessions, current : Sessions \cup {None}, grown : SUBSET Sessions, feed : {work.feed}]
    BY Zenon DEF StepInv
  <2>2. work'.feed = work.feed
    BY <2>1, Zenon DEF StepAppend, StepWritable
  <2>. QED BY <2>2, Zenon DEF Stepping
<1>. ~Idle /\ ~Idle'
  <2>1. DOMAIN NoWork.feed = {}
    BY DEF NoWork
  <2>. QED BY <2>1, Zenon DEF Idle, Stepping
<1>4. CASE StepAppend(s)
  <2>. /\ work.current = None /\ s \in work.grow /\ AppendTokens(s, 1)
       /\ work' = [work EXCEPT !.grow = work.grow \ {s}, !.current = s] /\ UNCHANGED failed
    BY <1>4, Zenon DEF StepAppend
  <2>. /\ work \in [grow : SUBSET Sessions, current : Sessions \cup {None}, grown : SUBSET Sessions, feed : {work.feed}]
       /\ work.grow \cap work.grown = {} /\ filled \in [Sessions -> Nat]
    BY PoolTypes, Zenon DEF StepInv
  <2>3. work'.current = s /\ work'.grown = work.grown
    BY Zenon
  <2>. /\ \A r \in Sessions \ {s} : slots'[r] = slots[r] /\ filled'[r] = filled[r]
       /\ filled'[s] = filled[s] + 1
       /\ UNCHANGED <<opened, next_session, prefixes, handles>>
    BY AppendOneShape, Zenon
  <2>5. \A r \in Sessions : Written(r)' = Written(r)
    BY <2>3, StepAssumption DEF Written
  <2>. QED BY <2>5, Zenon
<1>5. CASE StepWritable(s)
  <2>. /\ work.current = s /\ UNCHANGED failed
       /\ EnsureWritableExclusive(s, BlockAt(filled[s])) \/ CowBreak(s, BlockAt(filled[s]))
       /\ work' = [work EXCEPT !.current = None, !.grown = work.grown \cup {s}]
    BY <1>5, Zenon DEF StepWritable, EnsureWritableShared
  <2>2. work \in [grow : SUBSET Sessions, current : Sessions \cup {None}, grown : SUBSET Sessions, feed : {work.feed}]
    BY Zenon DEF StepInv
  <2>3. work'.current = None /\ work'.grown = work.grown \cup {s}
    BY <2>2, Zenon
  <2>. /\ \A r \in Sessions \ {s} : slots'[r] = slots[r]
       /\ UNCHANGED <<filled, opened, next_session, prefixes, handles>>
    BY CowBreakShape, Zenon DEF EnsureWritableExclusive, vars, tableVars
  <2>5. \A r \in Sessions : Written(r)' = Written(r)
    BY <2>3, StepAssumption, Zenon DEF Written
  <2>. QED BY <2>5, Zenon
<1>. QED BY <1>4, <1>5, Zenon

LEMMA EndShape ==
  ASSUME ForwardInv, work' = NoWork
  PROVE  /\ Idle' /\ Stepping' = {}
         /\ \A r \in Sessions : Written(r)' = filled'[r]
         /\ \A r \in Sessions \ Stepping : Written(r) = filled[r]
         /\ Grown => Stepping = work.grown /\ Stepping # {}
         /\ Grown => \A s \in Stepping : s \in Sessions /\ filled[s] = Written(s) + 1
<1>. Sound /\ StepInv /\ filled \in [Sessions -> Nat]
  BY PoolTypes, Zenon DEF ForwardInv, PoolInv
<1>. work'.feed = <<>> /\ work'.current = None /\ work'.grown = {} /\ Idle'
  BY Zenon DEF NoWork, Idle
<1>2. Stepping' = {}
  BY DEF Stepping
<1>3. \A r \in Sessions : Written(r)' = filled'[r]
  BY StepAssumption, Zenon DEF Written
<1>4. \A r \in Sessions \ Stepping : Written(r) = filled[r]
  BY StepFacts, Zenon DEF Written
<1>. Grown => Stepping = work.grown /\ Stepping # {}
  BY Zenon DEF Grown, StepInv
<1>6. Grown => \A s \in Stepping : s \in Sessions /\ filled[s] = Written(s) + 1
  BY StepFacts DEF Written
<1>. QED BY <1>2, <1>3, <1>4, <1>6, Zenon

\* An error exit of a step: the tables of the sessions outside it are kept.
LEMMA ErrorShape ==
  ASSUME ForwardInv, WriteFails \/ \E s \in Sessions : AppendRefused(s) \/ WritableRefused(s) \/ WritableTorn(s)
  PROVE  /\ work' = NoWork /\ failed' = failed \cup Stepping /\ Stepping # {}
         /\ \A r \in Sessions \ Stepping : slots'[r] = slots[r] /\ filled'[r] = filled[r]
         /\ UNCHANGED <<opened, prefixes, handles, next_session>>
<1>. Sound /\ StepInv
  BY Zenon DEF ForwardInv, PoolInv
<1>1. ASSUME NEW s \in Sessions, WritableTorn(s)
      PROVE  /\ Abort /\ s \in Stepping
             /\ \A r \in Sessions \ {s} : slots'[r] = slots[r] /\ filled'[r] = filled[r]
             /\ UNCHANGED <<opened, prefixes, handles, next_session>>
  <2>1. work.current = s /\ CowBreak(s, BlockAt(filled[s])) /\ Abort
    BY <1>1, Zenon DEF WritableTorn, EnsureWritableTorn
  <2>. QED BY <2>1, CowBreakShape, StepFacts, Zenon
<1>2. ASSUME NEW s \in Sessions, AppendRefused(s) \/ WritableRefused(s)
      PROVE  Abort /\ UNCHANGED vars /\ s \in Stepping
  BY <1>2, StepFacts, Zenon DEF AppendRefused, WritableRefused
<1>3. ASSUME WriteFails
      PROVE  Abort /\ UNCHANGED vars /\ Stepping # {}
  BY <1>3, Zenon DEF WriteFails, Grown, StepInv
<1>. QED BY <1>1, <1>2, <1>3, Zenon DEF Abort, vars, tableVars

-----------------------------------------------------------------------------
(* The driver's invariant: the calls of the host. *)

\* What the scheduler holds, when the pool opens and closes nothing and the tables
\* of the suspended sessions and of one being admitted are left alone.
LEMMA HoldingKept ==
  ASSUME Holding, UNCHANGED <<opened, prefixes, handles, sessions, suspended>>, Admitting' = Admitting,
         \A s \in failed' : s \in sessions /\ phase'[s] = "Finished",
         \A s \in Sessions : suspended[s] # NoHandle \/ s \in Admitting => slots'[s] = slots[s] /\ filled'[s] = filled[s],
         \A s \in Sessions : suspended[s] # NoHandle => phase'[s] # "Finished",
         Admitting \subseteq Sessions
  PROVE  Holding'
<1>1. Clients' = Clients
  BY Zenon DEF Clients, Owners
<1>2. \A s \in Sessions : suspended[s] # NoHandle =>
        /\ s \in sessions' /\ phase'[s] # "Finished"
        /\ suspended'[s] \in handles' /\ suspended'[s].session = s /\ Current(suspended[s])'
  BY DEF Holding, Current
<1>3. \A s \in Admitting' : slots'[s] = <<>> /\ filled'[s] = 0
  BY Zenon DEF Holding
<1>. QED BY <1>1, <1>2, <1>3, Zenon DEF Holding

\* Between quanta nothing steps, and positions move only with a new admission.
LEMMA BetweenCalls ==
  ASSUME ForwardInv, DriverInv, ~InQuantum, ~InQuantum', work' = work, sessions' \subseteq Sessions,
         \A s \in sessions' :
           \/ s \in sessions /\ filled'[s] = filled[s] /\ phase'[s] = phase[s] /\ tokens'[s] = tokens[s] /\ first'[s] = first[s]
           \/ phase'[s] = "Prefill" /\ filled'[s] = first'[s] /\ first'[s] < Len(tokens'[s]) /\ first'[s] \in Nat
           \/ phase'[s] = "Finished"
  PROVE  Visiting' /\ Fed'
<1>. Idle /\ Stepping = {} /\ \A s \in sessions : Written(s) = filled[s]
  BY DriverFacts, Zenon
<1>. Idle' /\ Stepping' = {}
  BY Zenon DEF Idle, Stepping
<1>2. \A s \in Sessions : Written(s)' = filled'[s]
  BY StepAssumption DEF Written, Idle, NoWork
<1>3. ASSUME NEW s \in sessions'
      PROVE  /\ phase'[s] = "Decode" => Written(s)' = Len(tokens'[s]) - 1
             /\ phase'[s] = "Prefill" =>
                  /\ first'[s] <= Written(s)' /\ Written(s)' < Len(tokens'[s]) /\ Written(s)' = first'[s]
  <2>. Written(s)' = filled'[s]
    BY <1>2, <1>3, Zenon
  <2>1. CASE /\ s \in sessions /\ filled'[s] = filled[s] /\ phase'[s] = phase[s]
             /\ tokens'[s] = tokens[s] /\ first'[s] = first[s]
    <3>1. Written(s) = filled[s] /\ Fed
      BY <2>1, Zenon DEF DriverInv
    <3>. QED BY <2>1, <3>1 DEF Fed
  <2>2. CASE phase'[s] = "Prefill" /\ filled'[s] = first'[s] /\ first'[s] < Len(tokens'[s]) /\ first'[s] \in Nat
    BY <2>2
  <2>. QED BY <1>3, <2>1, <2>2, Zenon
<1>. QED BY <1>3, Zenon DEF Visiting, Fed

\* open mints a handle nobody has held.
LEMMA OpenShape ==
  ASSUME ForwardInv, DriverInv, Open, NEW s, s = next_session
  PROVE  /\ s \in Sessions /\ s \notin Clients /\ s \notin sessions /\ s \notin failed
         /\ suspended[s] = NoHandle /\ slots[s] = <<>> /\ filled[s] = 0
         /\ Clients' = Clients \cup {s}
         /\ UNCHANGED <<slots, filled, prefixes, handles>>
         /\ \A h \in handles : Current(h) => Current(h)'
<1>. Sound /\ Ownership /\ DriverTypeOK /\ Holding /\ failed \subseteq sessions /\ sessions \subseteq Clients
  BY DriverFacts, Zenon DEF ForwardInv, PoolInv, DriverInv
<1>. /\ next_session < MaxSessions /\ opened' = opened \cup {s} /\ UNCHANGED <<slots, filled, prefixes, handles>>
  BY Zenon DEF Open, MintSession
<1>. s \in Sessions
  BY PoolTypes, BoundsAssumption DEF Sessions
<1>. s \notin opened
  <2>1. opened \subseteq Nat
    BY PoolTypes, Zenon
  <2>. QED BY <2>1, PoolTypes DEF Ownership
<1>4. slots[s] = <<>> /\ filled[s] = 0
  BY Zenon DEF Ownership
<1>5. s \notin Owners
  BY Zenon DEF Owners, Ownership, PrefixWhole
<1>. s \notin Clients /\ s \notin sessions /\ s \notin failed
  BY Zenon DEF Clients
<1>7. suspended[s] = NoHandle
  BY Zenon DEF Holding
<1>8. Clients' = Clients \cup {s}
  BY <1>5, Zenon DEF Clients, Owners
<1>9. \A h \in handles : Current(h) => Current(h)'
  BY Zenon DEF Current
<1>. QED BY <1>4, <1>7, <1>8, <1>9, Zenon

\* A prompt is not empty.
LEMMA PromptTokens ==
  ASSUME NEW prompt \in Prompts, NEW budget \in Budgets
  PROVE  prompt \in Seq(Values) /\ Len(prompt) \in Nat /\ Len(prompt) > 0 /\ budget \in Nat /\ budget > 0
BY HostAssumption, SeqTyped

\* The record of a session that push appends.
LEMMA PushShape ==
  ASSUME DriverTypeOK, NEW s \in Sessions, NEW prompt \in Prompts, NEW budget \in Budgets, NEW shared \in Nat,
         Push(s, prompt, budget, shared)
  PROVE  /\ sessions' = sessions \cup {s} /\ sessions' \subseteq Sessions
         /\ phase' \in [Sessions -> {"Prefill", "Decode", "Finished"}]
         /\ tokens' \in [Sessions -> Seq(Values)]
         /\ remaining' \in [Sessions -> Nat] /\ first' \in [Sessions -> Nat]
         /\ phase'[s] = "Prefill" /\ tokens'[s] = prompt /\ first'[s] = shared /\ remaining'[s] = budget
         /\ cap'[s] = BlocksFor(Len(prompt) + budget)
         /\ \A r \in Sessions \ {s} : /\ phase'[r] = phase[r] /\ tokens'[r] = tokens[r]
                                      /\ first'[r] = first[r] /\ remaining'[r] = remaining[r] /\ cap'[r] = cap[r]
         /\ suspended' = suspended
<1>1. prompt \in Seq(Values) /\ budget \in Nat
  BY PromptTokens, Zenon
<1>2. /\ phase \in [Sessions -> {"Prefill", "Decode", "Finished"}]
      /\ tokens \in [Sessions -> Seq(Values)] /\ sessions \subseteq Sessions
      /\ remaining \in [Sessions -> Nat] /\ first \in [Sessions -> Nat] /\ cap \in [Sessions -> Nat]
  BY Zenon DEF DriverTypeOK
<1>. QED BY <1>1, <1>2, Zenon DEF Push

LEMMA CapType ==
  ASSUME NEW n \in Nat
  PROVE  BlocksFor(n) \in Nat
BY BlockSizeAssumption DEF BlocksFor

LEMMA CapsType ==
  ASSUME DriverTypeOK, NEW s \in Sessions, NEW prompt \in Prompts, NEW budget \in Budgets, NEW shared,
         Push(s, prompt, budget, shared)
  PROVE  cap' \in [Sessions -> Nat]
<1>1. Len(prompt) + budget \in Nat
  BY PromptTokens
<1>2. BlocksFor(Len(prompt) + budget) \in Nat
  BY <1>1, CapType, Zenon
<1>3. cap' = [cap EXCEPT ![s] = BlocksFor(Len(prompt) + budget)] /\ cap \in [Sessions -> Nat]
  BY Zenon DEF Push, DriverTypeOK
<1>. QED BY <1>2, <1>3, Zenon

LEMMA AddSessionInv ==
  ASSUME ForwardInv, DriverInv, NEW prompt \in Prompts, NEW budget \in Budgets, AddSession(prompt, budget)
  PROVE  DriverInv'
<1>. DriverTypeOK /\ Holding /\ call = NoCall
  BY Zenon DEF DriverInv, AddSession
<1>. PICK s : s = next_session
  BY Zenon
<1>. Open /\ Push(s, prompt, budget, 0) /\ UNCHANGED <<deviceVars, work, failed, call>>
  BY Zenon DEF AddSession, CoreOnly
<1>. /\ s \in Sessions /\ s \notin Clients /\ s \notin sessions /\ s \notin failed
     /\ suspended[s] = NoHandle /\ slots[s] = <<>> /\ filled[s] = 0
     /\ Clients' = Clients \cup {s}
     /\ UNCHANGED <<slots, filled, prefixes, handles>>
     /\ \A h \in handles : Current(h) => Current(h)'
  BY OpenShape, Zenon
<1>. /\ sessions' = sessions \cup {s} /\ sessions' \subseteq Sessions
     /\ phase' \in [Sessions -> {"Prefill", "Decode", "Finished"}]
     /\ tokens' \in [Sessions -> Seq(Values)]
     /\ remaining' \in [Sessions -> Nat] /\ first' \in [Sessions -> Nat]
     /\ phase'[s] = "Prefill" /\ tokens'[s] = prompt /\ first'[s] = 0
     /\ \A r \in Sessions \ {s} : phase'[r] = phase[r] /\ tokens'[r] = tokens[r] /\ first'[r] = first[r]
     /\ suspended' = suspended
  BY PushShape
<1>. ~InQuantum /\ ~InQuantum' /\ Admitting = {} /\ Admitting' = {} /\ Len(prompt) > 0
  BY PromptTokens, Zenon DEF InQuantum, Admitting, NoCall
<1>6. DriverTypeOK'
  <2>1. call' = NoCall /\ suspended' \in [Sessions -> Handle \cup {NoHandle}]
    BY ZenonT(40) DEF DriverTypeOK
  <2>2. cap' \in [Sessions -> Nat]
    BY CapsType, ZenonT(40)
  <2>. QED BY <2>1, <2>2, Zenon DEF DriverTypeOK
<1>7. Holding'
  <2>1. Clients' = sessions' \cup Admitting' /\ sessions' \cap Admitting' = {}
    BY ZenonT(40) DEF Holding
  <2>2. \A r \in failed' : r \in sessions' /\ phase'[r] = "Finished"
    BY ZenonT(40) DEF Holding, DriverTypeOK
  <2>3. \A h \in handles' : h.session \in sessions' /\ suspended'[h.session] = h
    BY ZenonT(40) DEF Holding
  <2>4. \A r \in Sessions : suspended'[r] # NoHandle =>
          /\ r \in sessions' /\ phase'[r] # "Finished"
          /\ suspended'[r] \in handles' /\ suspended'[r].session = r /\ Current(suspended[r])'
    BY ZenonT(40) DEF Holding
  <2>. QED BY <2>1, <2>2, <2>3, <2>4, ZenonT(40) DEF Holding
<1>8. Visiting' /\ Fed'
  <2>1. work' = work /\ \A r \in sessions' : filled'[r] = filled[r] /\ (r \in sessions \/ r = s)
    BY ZenonT(40)
  <2>. QED BY <2>1, BetweenCalls, ZenonT(40)
<1>. QED BY <1>6, <1>7, <1>8, Zenon DEF DriverInv

LEMMA AdmitSharingInv ==
  ASSUME ForwardInv, DriverInv, NEW x \in prefixes, NEW prompt \in Prompts, NEW budget \in Budgets,
         AdmitSharing(x, prompt, budget)
  PROVE  DriverInv'
<1>. DriverTypeOK /\ Holding /\ call = NoCall
  BY Zenon DEF DriverInv, AdmitSharing
<1>. PICK s : s = next_session
  BY Zenon
<1>. /\ Open /\ UNCHANGED <<deviceVars, work, failed, sessions, recordVars, suspended>>
     /\ call' = [kind |-> "admit", session |-> s, prefix |-> x, prompt |-> prompt, budget |-> budget]
  BY Zenon DEF AdmitSharing, CoreOnly
<1>. /\ s \in Sessions /\ s \notin Clients /\ s \notin sessions /\ s \notin failed
     /\ suspended[s] = NoHandle /\ slots[s] = <<>> /\ filled[s] = 0
     /\ Clients' = Clients \cup {s}
     /\ UNCHANGED <<slots, filled, prefixes, handles>>
     /\ \A h \in handles : Current(h) => Current(h)'
  BY OpenShape, Zenon
<1>. ~InQuantum /\ ~InQuantum' /\ Admitting = {} /\ Admitting' = {s}
  BY Zenon DEF InQuantum, Admitting, NoCall
<1>5. DriverTypeOK'
  <2>1. call' \in AdmitCall'
    BY ZenonT(40) DEF AdmitCall
  <2>. QED BY <2>1, ZenonT(40) DEF DriverTypeOK, recordVars
<1>6. Holding'
  <2>1. Clients' = sessions' \cup Admitting' /\ sessions' \cap Admitting' = {}
    BY ZenonT(40) DEF Holding
  <2>2. \A r \in failed' : r \in sessions' /\ phase'[r] = "Finished"
    BY ZenonT(40) DEF Holding, recordVars
  <2>3. \A h \in handles' : h.session \in sessions' /\ suspended'[h.session] = h
    BY Zenon DEF Holding
  <2>4. \A r \in Sessions : suspended'[r] # NoHandle =>
          /\ r \in sessions' /\ phase'[r] # "Finished"
          /\ suspended'[r] \in handles' /\ suspended'[r].session = r /\ Current(suspended[r])'
    BY ZenonT(40) DEF Holding, recordVars
  <2>5. \A r \in Admitting' : slots'[r] = <<>> /\ filled'[r] = 0
    BY Zenon
  <2>. QED BY <2>1, <2>2, <2>3, <2>4, <2>5, ZenonT(40) DEF Holding
<1>7. Visiting' /\ Fed'
  <2>1. /\ work' = work /\ sessions' \subseteq Sessions
        /\ \A r \in sessions' : /\ r \in sessions /\ filled'[r] = filled[r] /\ phase'[r] = phase[r]
                                /\ tokens'[r] = tokens[r] /\ first'[r] = first[r]
    BY ZenonT(40) DEF recordVars, DriverTypeOK
  <2>. QED BY <2>1, BetweenCalls, Zenon
<1>. QED BY <1>5, <1>6, <1>7, Zenon DEF DriverInv

\* splice_prefix_from gives the new session the prefix's blocks, all full.
LEMMA SplicedShape ==
  ASSUME Sound, Ownership, NEW x \in prefixes, NEW dst \in Sessions, SplicePrefixFrom(x, dst)
  PROVE  /\ slots[dst] = <<>> /\ Len(slots'[dst]) = x.blocks /\ x.blocks \in Nat
         /\ filled[dst] = 0 => filled'[dst] = x.blocks * BlockSize
         /\ x.blocks * BlockSize \in Nat
         /\ \A k \in 1 .. x.blocks : slots'[dst][k] = slots[x.owner][k] /\ slots[x.owner][k] \in Blocks
         /\ \A r \in Sessions \ {dst} : slots'[r] = slots[r] /\ filled'[r] = filled[r]
         /\ UNCHANGED <<opened, next_session, prefixes, handles, free>>
<1>00. PICK n, src, m : n = x.blocks /\ src = x.owner /\ m = 0
  BY Zenon
<1>0. src \in Sessions /\ n \in Nat /\ filled[src] = n * BlockSize /\ n * BlockSize \in Nat /\ m \in Nat
  BY <1>00, PoolTypes, BlockSizeAssumption DEF Ownership, PrefixWhole
<1>1. /\ slots[dst] = <<>> /\ Share(src, dst, m, n) /\ UNCHANGED <<opened, next_session, prefixes, handles, free>>
  BY <1>00, Zenon DEF SplicePrefixFrom, SplicePrefix, Share
<1>2. Len(slots[dst]) = 0
  BY <1>1
<1>3. /\ \A i \in m + 1 .. n : slots[src][i] \in Blocks /\ Resident(src, i)
      /\ Len(slots'[dst]) = Len(slots[dst]) + (n - m)
      /\ \A k \in 1 .. n - m : slots'[dst][Len(slots[dst]) + k] = slots[src][m + k]
      /\ \A r \in Sessions \ {dst} : slots'[r] = slots[r] /\ filled'[r] = filled[r]
      /\ filled'[dst] = filled[dst] + SharedTokens(src, m, n)
  <2>1. src \in Sessions /\ m \in Nat /\ n \in Nat /\ Share(src, dst, m, n)
    BY <1>0, <1>1, Zenon
  <2>2. \A i \in m + 1 .. n : slots[src][i] \in Blocks /\ Resident(src, i)
    BY <2>1, ShareShape, Zenon
  <2>3. Len(slots'[dst]) = Len(slots[dst]) + (n - m) /\ filled'[dst] = filled[dst] + SharedTokens(src, m, n)
    BY <2>1, ShareShape
  <2>4. \A k \in 1 .. n - m : slots'[dst][Len(slots[dst]) + k] = slots[src][m + k]
    BY <2>1, ShareShape
  <2>5. \A r \in Sessions \ {dst} : slots'[r] = slots[r] /\ filled'[r] = filled[r]
    BY <2>1, ShareShape, Zenon
  <2>. QED BY <2>2, <2>3, <2>4, <2>5, ZenonT(40)
<1>4. SharedTokens(src, m, n) = n * BlockSize
  <2>1. (n - m) * BlockSize = n * BlockSize /\ filled[src] - m * BlockSize = filled[src]
    BY <1>00, <1>0, BlockSizeAssumption
  <2>. QED BY <1>0, <2>1, Zenon DEF SharedTokens, Least, Saturating
<1>5. Len(slots'[dst]) = n /\ (filled[dst] = 0 => filled'[dst] = n * BlockSize)
  BY <1>00, <1>0, <1>2, <1>3, <1>4
<1>6. \A k \in 1 .. n : slots'[dst][k] = slots[src][k] /\ slots[src][k] \in Blocks
  BY <1>00, <1>0, <1>2, <1>3
<1>. QED BY <1>00, <1>0, <1>1, <1>3, <1>5, <1>6, Zenon

LEMMA AdmitSplicedInv ==
  ASSUME ForwardInv, DriverInv, AdmitSpliced
  PROVE  DriverInv'
<1>. /\ Sound /\ Ownership /\ DriverTypeOK /\ Holding /\ call.kind = "admit" /\ call \in AdmitCall
     /\ sessions \subseteq Sessions /\ failed \subseteq sessions
  BY DriverFacts, CallKinds, Zenon DEF ForwardInv, PoolInv, DriverInv, AdmitSpliced, DriverTypeOK
<1>. PICK s, x, prompt, budget, n : /\ s = call.session /\ x = call.prefix /\ prompt = call.prompt
                                    /\ budget = call.budget /\ n = x.blocks * BlockSize
  BY Zenon
<1>. /\ s \in Sessions /\ x \in prefixes /\ prompt \in Prompts /\ budget \in Budgets
     /\ Admitting = {s} /\ ~InQuantum
     /\ Len(prompt) > n /\ SplicePrefixFrom(x, s) /\ Push(s, prompt, budget, n)
     /\ UNCHANGED <<work, failed>> /\ call' = NoCall
  BY CallKinds, ZenonT(40) DEF AdmitSpliced, AdmitCall, Admitting, CoreOnly
<1>. s \notin sessions /\ slots[s] = <<>> /\ filled[s] = 0 /\ Clients = sessions \cup {s}
  BY ZenonT(40) DEF Holding
<1>. /\ n \in Nat /\ filled'[s] = n
     /\ \A r \in Sessions \ {s} : slots'[r] = slots[r] /\ filled'[r] = filled[r]
     /\ UNCHANGED <<opened, prefixes, handles>>
  BY SplicedShape, Zenon
<1>. /\ sessions' = sessions \cup {s} /\ sessions' \subseteq Sessions
     /\ phase' \in [Sessions -> {"Prefill", "Decode", "Finished"}]
     /\ tokens' \in [Sessions -> Seq(Values)]
     /\ remaining' \in [Sessions -> Nat] /\ first' \in [Sessions -> Nat]
     /\ phase'[s] = "Prefill" /\ tokens'[s] = prompt /\ first'[s] = n
     /\ \A r \in Sessions \ {s} : phase'[r] = phase[r] /\ tokens'[r] = tokens[r] /\ first'[r] = first[r]
     /\ suspended' = suspended
  BY PushShape
<1>. ~InQuantum' /\ Admitting' = {}
  BY Zenon DEF InQuantum, Admitting, NoCall
<1>7. DriverTypeOK'
  <2>1. suspended' \in [Sessions -> Handle \cup {NoHandle}]
    BY Zenon DEF DriverTypeOK
  <2>2. cap' \in [Sessions -> Nat]
    BY CapsType, ZenonT(40)
  <2>. QED BY <2>1, <2>2, ZenonT(40) DEF DriverTypeOK
<1>8. Holding'
  <2>1. Clients' = sessions' \cup Admitting' /\ sessions' \cap Admitting' = {}
    BY ZenonT(40) DEF Clients, Owners
  <2>2. \A r \in failed' : r \in sessions' /\ phase'[r] = "Finished"
    BY ZenonT(40) DEF Holding
  <2>3. \A h \in handles' : h.session \in sessions' /\ suspended'[h.session] = h
    BY Zenon DEF Holding
  <2>4. ASSUME NEW r \in Sessions, suspended'[r] # NoHandle
        PROVE  /\ r \in sessions' /\ phase'[r] # "Finished"
               /\ suspended'[r] \in handles' /\ suspended'[r].session = r /\ Current(suspended[r])'
    <3>. /\ r \in sessions /\ phase[r] # "Finished"
         /\ suspended[r] \in handles /\ suspended[r].session = r /\ Current(suspended[r])
      BY <2>4, ZenonT(40) DEF Holding
    <3>. slots'[r] = slots[r] /\ r # s
      BY ZenonT(40)
    <3>3. Current(suspended[r])'
      BY DEF Current
    <3>. QED BY <3>3, Zenon
  <2>. QED BY <2>1, <2>2, <2>3, <2>4, ZenonT(40) DEF Holding
<1>9. Visiting' /\ Fed'
  <2>1. /\ work' = work
        /\ \A r \in sessions' :
             \/ /\ r \in sessions /\ filled'[r] = filled[r] /\ phase'[r] = phase[r]
                /\ tokens'[r] = tokens[r] /\ first'[r] = first[r]
             \/ phase'[r] = "Prefill" /\ filled'[r] = first'[r] /\ first'[r] < Len(tokens'[r]) /\ first'[r] \in Nat
    OBVIOUS
  <2>. QED BY <2>1, BetweenCalls, Zenon
<1>. QED BY <1>7, <1>8, <1>9, Zenon DEF DriverInv

\* discard and release_prefix empty one table and close its session.
LEMMA ForgetShape ==
  ASSUME Sound, NEW s \in Sessions, Forget(s)
  PROVE  /\ opened' = opened \ {s}
         /\ \A r \in Sessions \ {s} : slots'[r] = slots[r] /\ filled'[r] = filled[r]
         /\ slots'[s] = <<>> /\ filled'[s] = 0
BY PoolTypes, Zenon DEF Forget

\* The scheduler keeps its sessions, their records and their handles while the
\* pool closes or opens a session that is none of them.
LEMMA OthersKept ==
  ASSUME ForwardInv, DriverInv, ~InQuantum, call' = NoCall, work' = work, failed' = failed,
         UNCHANGED <<sessions, recordVars, suspended, handles>>, sessions \subseteq opened',
         Clients' = sessions,
         \A r \in sessions : slots'[r] = slots[r] /\ filled'[r] = filled[r]
  PROVE  DriverInv'
<1>. DriverTypeOK /\ Holding /\ sessions \subseteq Sessions
  BY Zenon DEF DriverInv, DriverTypeOK
<1>. ~InQuantum' /\ Admitting' = {}
  BY Zenon DEF InQuantum, Admitting, NoCall
<1>2. DriverTypeOK'
  BY ZenonT(40) DEF DriverTypeOK, recordVars
<1>3. Holding'
  <2>1. ASSUME NEW r \in Sessions, suspended[r] # NoHandle PROVE Current(suspended[r])'
    <3>1. r \in sessions /\ suspended[r].session = r /\ Current(suspended[r])
      BY <2>1, Zenon DEF Holding
    <3>. QED BY <3>1, Zenon DEF Current
  <2>. QED BY <2>1, Zenon DEF Holding, recordVars
<1>4. Visiting' /\ Fed'
  <2>1. \A r \in sessions' : /\ r \in sessions /\ filled'[r] = filled[r] /\ phase'[r] = phase[r]
                             /\ tokens'[r] = tokens[r] /\ first'[r] = first[r]
    BY Zenon DEF recordVars
  <2>. QED BY <2>1, BetweenCalls, Zenon
<1>. QED BY <1>2, <1>3, <1>4, Zenon DEF DriverInv

LEMMA AdmitRolledBackInv ==
  ASSUME ForwardInv, DriverInv, AdmitRolledBack
  PROVE  DriverInv'
<1>. /\ Sound /\ DriverTypeOK /\ Holding /\ call.kind = "admit" /\ ~InQuantum /\ sessions \subseteq Sessions
  BY CallKinds, Zenon DEF ForwardInv, PoolInv, DriverInv, AdmitRolledBack, DriverTypeOK
<1>. PICK s : s = call.session
  BY Zenon
<1>. /\ s \in Sessions /\ Discard(s) /\ UNCHANGED <<work, failed, sessions, recordVars, suspended>> /\ call' = NoCall
  BY CallKinds, Zenon DEF AdmitRolledBack, CoreOnly, AdmitCall
<1>. Clients = sessions \cup {s} /\ s \notin sessions
  BY Zenon DEF Holding, Admitting
<1>. Forget(s) /\ UNCHANGED <<prefixes, handles>>
  BY Zenon DEF Discard
<1>. /\ opened' = opened \ {s}
     /\ \A r \in Sessions \ {s} : slots'[r] = slots[r] /\ filled'[r] = filled[r]
  BY ForgetShape, Zenon
<1>6. Clients' = sessions /\ sessions \subseteq opened'
  BY ZenonT(40) DEF Clients, Owners
<1>. QED BY <1>6, OthersKept, ZenonT(40)

LEMMA SchedulerReleaseInv ==
  ASSUME ForwardInv, DriverInv, NEW x \in prefixes, SchedulerRelease(x)
  PROVE  DriverInv'
<1>. /\ Sound /\ Ownership /\ DriverTypeOK /\ call = NoCall /\ ~InQuantum /\ Clients = sessions
     /\ sessions \subseteq Sessions
  BY CallKinds, DriverFacts, Zenon DEF ForwardInv, PoolInv, DriverInv, SchedulerRelease, DriverTypeOK
<1>. PICK s : s = x.owner
  BY Zenon
<1>. /\ s \in Sessions /\ Forget(s) /\ prefixes' = prefixes \ {x} /\ UNCHANGED handles
     /\ UNCHANGED <<work, failed, sessions, recordVars, suspended>> /\ call' = NoCall
  BY PoolTypes, Zenon DEF SchedulerRelease, ReleasePrefix, CoreOnly, schedulerVars
<1>. /\ opened' = opened \ {s}
     /\ \A r \in Sessions \ {s} : slots'[r] = slots[r] /\ filled'[r] = filled[r]
  BY ForgetShape, ZenonT(40)
<1>4. Owners = Owners' \cup {s}
  BY Zenon DEF Owners
<1>5. Clients' = sessions /\ s \notin sessions /\ sessions \subseteq opened'
  BY <1>4, Zenon DEF Clients
<1>. QED BY <1>5, OthersKept, Zenon

LEMMA SoundRegisterInv ==
  ASSUME RegistersWhole, ForwardInv, DriverInv, SoundRegister
  PROVE  DriverInv'
<1>. PICK d \in sessions \ failed, n \in 0 .. MaxSlots : SchedulerRegister(d, n)
  BY Zenon DEF SoundRegister
<1>. /\ Sound /\ DriverTypeOK /\ call = NoCall /\ ~InQuantum /\ Clients = sessions /\ sessions \subseteq Sessions
  BY CallKinds, DriverFacts, Zenon DEF ForwardInv, PoolInv, DriverInv, SchedulerRegister, DriverTypeOK
<1>. UNCHANGED <<work, failed, sessions, recordVars, suspended>> /\ call' = NoCall
  BY Zenon DEF SchedulerRegister, CoreOnly, schedulerVars
<1>4. CASE RegisterPrefix(d, n)
  <2>. PICK s : s = next_session
    BY Zenon
  <2>2. d \in Sessions /\ n \in Nat
    OBVIOUS
  <2>. /\ s \notin opened
       /\ \A r \in Sessions \ {s} : slots'[r] = slots[r] /\ filled'[r] = filled[r]
    BY <1>4, <2>2, Zenon DEF RegistersWhole
  <2>. opened' = opened \cup {s} /\ Owners' = Owners \cup {s} /\ UNCHANGED handles
    <3>. PICK x : x = [owner |-> s, blocks |-> n]
      BY ZenonT(40)
    <3>2. x.owner = s
      BY Zenon
    <3>3. prefixes' = prefixes \cup {x} /\ opened' = opened \cup {s} /\ UNCHANGED handles
      BY <1>4, Zenon DEF RegisterPrefix
    <3>. QED BY <3>2, <3>3, Zenon DEF Owners
  <2>5. Clients' = sessions /\ s \notin sessions /\ sessions \subseteq opened'
    BY Zenon DEF Clients
  <2>. QED BY <2>5, OthersKept, Zenon
<1>5. CASE RegisterPrefixRefused(d, n)
  <2>. UNCHANGED <<opened, slots, filled, prefixes, handles>>
    BY <1>5, Zenon DEF RegisterPrefixRefused
  <2>2. Clients' = sessions /\ sessions \subseteq opened'
    BY Zenon DEF Clients, Owners
  <2>. QED BY <2>2, OthersKept, Zenon
<1>. QED BY <1>4, <1>5, Zenon DEF SchedulerRegister

\* evict over a whole table returns a handle that describes the session it leaves.
LEMMA EvictCurrent ==
  ASSUME Sound, NEW s \in Sessions, EvictBlocks(s, 1 .. Len(slots[s])), \A h \in handles : h.session # s
  PROVE  \E new \in handles' :
           /\ handles' = handles \cup {new} /\ new.session = s /\ Current(new)'
           /\ new = CHOOSE h \in handles' : h \notin handles
<1>. DEFINE indices == 1 .. Len(slots[s])
            gone == {i \in indices : Detachable(s, i)}
            stay == {i \in indices : Resident(s, i) /\ ~Detachable(s, i)}
            kept == {<<i, slots[s][i]>> : i \in stay}
<1>. PICK new : new = [session |-> s, gone |-> gone, stay |-> kept]
  BY ZenonT(40)
<1>. new.session = s /\ new.gone = gone /\ new.stay = kept
  BY Zenon
<1>. handles' = handles \cup {new} /\ opened' = opened /\ s \in opened
  BY Zenon DEF EvictBlocks
<1>4. slots' = [slots EXCEPT ![s] = [i \in 1 .. Len(slots[s]) |-> IF i \in gone THEN Externalized ELSE slots[s][i]]]
  BY ZenonT(40) DEF EvictBlocks
<1>. slots'[s] = [i \in 1 .. Len(slots[s]) |-> IF i \in gone THEN Externalized ELSE slots[s][i]] /\ Len(slots[s]) \in Nat
  BY <1>4, PoolTypes, ZenonT(40)
<1>. Len(slots'[s]) = Len(slots[s])
  OBVIOUS
<1>7. \A i \in gone : i \in 1 .. Len(slots'[s]) /\ slots'[s][i] = Externalized
  BY Zenon
<1>8. \A i \in stay : i \in 1 .. Len(slots'[s]) /\ slots'[s][i] = slots[s][i]
  BY Zenon
<1>9. \A r \in kept : r[1] \in 1 .. Len(slots'[s]) /\ slots'[s][r[1]] = r[2]
  BY <1>8
<1>. HIDE DEF gone, kept
<1>10. Current(new)'
  BY <1>7, <1>9, Zenon DEF Current
<1>11. new \notin handles
  BY Zenon
<1>. PICK c : c = CHOOSE h \in handles' : h \notin handles
  BY Zenon
<1>13. c \in handles' /\ c \notin handles
  BY <1>11, Zenon
<1>14. c = new
  BY <1>13
<1>. QED BY <1>10, <1>14, ZenonT(40)

LEMMA EvictSessionInv ==
  ASSUME ForwardInv, ClientTypeOK', DriverInv, NEW s \in sessions, EvictSession(s)
  PROVE  DriverInv'
<1>. /\ Sound /\ DriverTypeOK /\ Holding /\ call = NoCall /\ ~InQuantum /\ sessions \subseteq Sessions /\ s \in Sessions
     /\ Admitting = {} /\ \A h \in handles : h.session # s
  BY CallKinds, DriverFacts, ZenonT(40) DEF ForwardInv, PoolInv, DriverInv, EvictSession, DriverTypeOK
<1>. /\ EvictBlocks(s, 1 .. Len(slots[s])) /\ UNCHANGED <<work, failed, sessions, recordVars, call>>
     /\ suspended[s] = NoHandle /\ phase[s] # "Finished"
     /\ suspended' = [suspended EXCEPT ![s] = CHOOSE h \in handles' : h \notin handles]
  BY ZenonT(40) DEF EvictSession, EvictDevice
<1>. PICK new \in handles' : /\ handles' = handles \cup {new} /\ new.session = s /\ Current(new)'
                             /\ suspended' = [suspended EXCEPT ![s] = new]
  <2>1. PICK new \in handles' : /\ handles' = handles \cup {new} /\ new.session = s /\ Current(new)'
                                /\ new = CHOOSE h \in handles' : h \notin handles
    BY EvictCurrent, Zenon
  <2>. QED BY <2>1, ZenonT(40)
<1>3. new \in Handle /\ new # NoHandle
  BY HostAssumption, Zenon DEF ClientTypeOK
<1>. suspended'[s] = new /\ \A r \in Sessions \ {s} : suspended'[r] = suspended[r]
  BY Zenon DEF DriverTypeOK
<1>. UNCHANGED <<opened, filled, prefixes>> /\ \A r \in Sessions \ {s} : slots'[r] = slots[r]
  <2>1. UNCHANGED <<opened, filled, prefixes>>
    BY ZenonT(40) DEF EvictBlocks
  <2>2. \A r \in Sessions \ {s} : slots'[r] = slots[r]
    BY PoolTypes, ZenonT(40) DEF EvictBlocks
  <2>. QED BY <2>1, <2>2, Zenon
<1>. /\ ~InQuantum' /\ Admitting' = {} /\ Clients' = Clients
  BY ZenonT(40) DEF InQuantum, Admitting, NoCall, Clients, Owners
<1>7. DriverTypeOK'
  <2>1. suspended' \in [Sessions -> Handle \cup {NoHandle}]
    BY <1>3 DEF DriverTypeOK
  <2>. QED BY <2>1, ZenonT(40) DEF DriverTypeOK, recordVars
<1>8. Holding'
  <2>1. ASSUME NEW h, Current(h), h.session \in Sessions \ {s} PROVE Current(h)'
    BY <2>1, ZenonT(40) DEF Current
  <2>2. ASSUME NEW r \in Sessions, suspended'[r] # NoHandle
        PROVE  (/\ r \in sessions /\ phase[r] # "Finished"
                /\ suspended[r] \in handles /\ suspended[r].session = r /\ Current(suspended[r]))'
    <3>. PICK h : h = suspended'[r]
      BY ZenonT(40)
    <3>. /\ r \in sessions /\ phase[r] # "Finished" /\ h \in handles' /\ h.session = r /\ Current(h)'
      <4>1. CASE r = s
        BY <4>1, Zenon
      <4>2. CASE r # s
        <5>1. h = suspended[r]
          BY <4>2, ZenonT(40)
        <5>2. r \in sessions /\ phase[r] # "Finished" /\ h \in handles /\ h.session = r /\ Current(h)
          BY <2>2, <5>1, ZenonT(40) DEF Holding
        <5>. QED BY <2>1, <4>2, <5>2, Zenon
      <4>. QED BY <4>1, <4>2, Zenon
    <3>3. Current(suspended[r])'
      BY ZenonT(40) DEF Current
    <3>. QED BY <3>3, Zenon DEF recordVars
  <2>3. \A h \in handles' : h.session \in sessions' /\ suspended'[h.session] = h
    BY ZenonT(40) DEF Holding
  <2>4. \A r \in failed' : r \in sessions' /\ phase'[r] = "Finished"
    BY ZenonT(40) DEF Holding, recordVars
  <2>. QED BY <2>2, <2>3, <2>4, Zenon DEF Holding
<1>9. Visiting' /\ Fed'
  <2>1. \A r \in sessions' : /\ r \in sessions /\ filled'[r] = filled[r] /\ phase'[r] = phase[r]
                             /\ tokens'[r] = tokens[r] /\ first'[r] = first[r]
    BY ZenonT(40) DEF recordVars
  <2>. QED BY <2>1, BetweenCalls, Zenon
<1>. QED BY <1>7, <1>8, <1>9, Zenon DEF DriverInv

LEMMA RestoreSessionInv ==
  ASSUME ForwardInv, DriverInv, NEW s \in sessions, RestoreSession(s)
  PROVE  DriverInv'
<1>. /\ Sound /\ DriverTypeOK /\ Holding /\ call = NoCall /\ ~InQuantum /\ sessions \subseteq Sessions /\ s \in Sessions
     /\ Admitting = {}
  BY CallKinds, Zenon DEF ForwardInv, PoolInv, DriverInv, RestoreSession, DriverTypeOK
<1>. PICK h : h = suspended[s]
  BY Zenon
<1>. /\ Restore(s, h) /\ UNCHANGED <<work, failed, sessions, recordVars, call>> /\ h # NoHandle
     /\ suspended' = [suspended EXCEPT ![s] = NoHandle]
  BY ZenonT(40) DEF RestoreSession, RestoreDevice
<1>. h \in handles /\ h.session = s /\ Current(h)
  BY ZenonT(40) DEF Holding
<1>. /\ handles' = handles \ {h} /\ UNCHANGED <<opened, filled, prefixes>>
     /\ \A r \in Sessions \ {s} : slots'[r] = slots[r]
  BY RestoreShape, Zenon
<1>. suspended'[s] = NoHandle /\ \A r \in Sessions \ {s} : suspended'[r] = suspended[r]
  BY ZenonT(40) DEF DriverTypeOK
<1>. /\ ~InQuantum' /\ Admitting' = {} /\ Clients' = Clients
  BY Zenon DEF InQuantum, Admitting, NoCall, Clients, Owners
<1>7. DriverTypeOK'
  <2>1. suspended' \in [Sessions -> Handle \cup {NoHandle}]
    BY ZenonT(40) DEF DriverTypeOK
  <2>. QED BY <2>1, ZenonT(40) DEF DriverTypeOK, recordVars
<1>8. Holding'
  <2>1. ASSUME NEW g, Current(g), g.session \in Sessions \ {s} PROVE Current(g)'
    BY <2>1, Zenon DEF Current
  <2>2. ASSUME NEW r \in Sessions, suspended'[r] # NoHandle
        PROVE  (/\ r \in sessions /\ phase[r] # "Finished"
                /\ suspended[r] \in handles /\ suspended[r].session = r /\ Current(suspended[r]))'
    <3>. PICK g : g = suspended'[r]
      BY ZenonT(40)
    <3>. r # s /\ g = suspended[r]
      BY <2>2, Zenon
    <3>. r \in sessions /\ phase[r] # "Finished" /\ g \in handles /\ g.session = r /\ Current(g)
      BY <2>2, ZenonT(40) DEF Holding
    <3>. g \in handles' /\ Current(g)'
      BY <2>1, Zenon
    <3>5. Current(suspended[r])'
      BY ZenonT(40) DEF Current
    <3>. QED BY <3>5, ZenonT(40) DEF recordVars
  <2>3. \A g \in handles' : g.session \in sessions' /\ suspended'[g.session] = g
    BY ZenonT(40) DEF Holding
  <2>4. \A r \in failed' : r \in sessions' /\ phase'[r] = "Finished"
    BY ZenonT(40) DEF Holding, recordVars
  <2>. QED BY <2>2, <2>3, <2>4, ZenonT(40) DEF Holding
<1>9. Visiting' /\ Fed'
  <2>1. \A r \in sessions' : /\ r \in sessions /\ filled'[r] = filled[r] /\ phase'[r] = phase[r]
                             /\ tokens'[r] = tokens[r] /\ first'[r] = first[r]
    BY ZenonT(40) DEF recordVars
  <2>. QED BY <2>1, BetweenCalls, Zenon
<1>. QED BY <1>7, <1>8, <1>9, ZenonT(40) DEF DriverInv

LEMMA ReapOneInv ==
  ASSUME ForwardInv, DriverInv, NEW s \in sessions, ReapOne(s)
  PROVE  DriverInv'
<1>. /\ Sound /\ DriverTypeOK /\ Holding /\ ~InQuantum /\ sessions \subseteq Sessions /\ s \in Sessions
     /\ Admitting = {} /\ call = [kind |-> "reap"]
  BY CallKinds, Zenon DEF ForwardInv, PoolInv, DriverInv, ReapOne, DriverTypeOK
<1>. /\ Forget(s) /\ failed' = failed \ {s} /\ sessions' = sessions \ {s} /\ phase[s] = "Finished"
     /\ UNCHANGED <<work, prefixes, handles, phase, suspended>>
  BY Zenon DEF ReapOne, Close, Discard
<1>. call' \in {NoCall, [kind |-> "reap"]}
  BY Zenon DEF ReapOne
<1>. ~InQuantum' /\ Admitting' = {}
  BY DEF InQuantum, Admitting, NoCall
<1>. /\ opened' = opened \ {s}
     /\ \A r \in Sessions \ {s} : slots'[r] = slots[r] /\ filled'[r] = filled[r]
  BY ForgetShape, Zenon
<1>5. Clients' = sessions'
  BY Zenon DEF Holding, Clients, Owners
<1>6. \A r \in Sessions \ {s} : tokens'[r] = tokens[r] /\ first'[r] = first[r]
  BY ZenonT(40) DEF ReapOne, DriverTypeOK
<1>7. DriverTypeOK'
  <2>1. <<>> \in Seq(Values)
    OBVIOUS
  <2>2. tokens' \in [Sessions -> Seq(Values)]
    BY <2>1, ZenonT(40) DEF ReapOne, DriverTypeOK
  <2>3. /\ remaining' \in [Sessions -> Nat] /\ first' \in [Sessions -> Nat] /\ cap' \in [Sessions -> Nat]
    BY ZenonT(40) DEF ReapOne, DriverTypeOK
  <2>. QED BY <2>2, <2>3, ZenonT(40) DEF DriverTypeOK
<1>8. Holding'
  <2>1. ASSUME NEW r \in Sessions, suspended[r] # NoHandle
        PROVE  /\ r \in sessions' /\ phase[r] # "Finished"
               /\ suspended[r] \in handles /\ suspended[r].session = r /\ Current(suspended[r])'
    <3>. r \in sessions /\ phase[r] # "Finished" /\ suspended[r] \in handles /\ suspended[r].session = r /\ Current(suspended[r])
      BY <2>1, ZenonT(40) DEF Holding
    <3>. r # s /\ slots'[r] = slots[r] /\ suspended' = suspended
      BY Zenon
    <3>3. Current(suspended[r])'
      BY ZenonT(40) DEF Current
    <3>. QED BY <3>3, Zenon
  <2>2. \A h \in handles : h.session \in sessions' /\ suspended[h.session] = h
    <3>1. ASSUME NEW h \in handles PROVE h.session \in sessions' /\ suspended[h.session] = h
      <4>. h.session \in sessions /\ suspended[h.session] = h /\ h \in Handle
        BY PoolTypes, ZenonT(40) DEF Holding
      <4>2. suspended[h.session] # NoHandle
        BY HostAssumption, Zenon
      <4>. QED BY <2>1, <4>2, ZenonT(40)
    <3>. QED BY <3>1, Zenon
  <2>3. \A r \in failed' : r \in sessions' /\ phase'[r] = "Finished"
    BY ZenonT(40) DEF Holding
  <2>. QED BY <1>5, <2>1, <2>2, <2>3, ZenonT(40) DEF Holding
<1>9. Visiting' /\ Fed'
  <2>1. \A r \in sessions' : /\ r \in sessions /\ filled'[r] = filled[r] /\ phase'[r] = phase[r]
                             /\ tokens'[r] = tokens[r] /\ first'[r] = first[r]
    BY <1>6, ZenonT(40)
  <2>2. sessions' \subseteq Sessions /\ work' = work
    BY ZenonT(40)
  <2>. QED BY <2>1, <2>2, BetweenCalls, ZenonT(40)
<1>. QED BY <1>7, <1>8, <1>9, ZenonT(40) DEF DriverInv

-----------------------------------------------------------------------------
(* A quantum keeps the invariant. *)

\* The stages of a quantum that touch nothing but the call.
LEMMA CallOnly ==
  ASSUME ForwardInv, DriverInv, UNCHANGED <<forwardVars, sessions, recordVars, suspended>>,
         call' \in {NoCall, [kind |-> "reap"]} \cup QuantumCall, Admitting = {}
  PROVE  /\ DriverTypeOK' /\ Holding' /\ Admitting' = {}
         /\ Idle' = Idle /\ Stepping' = Stepping
         /\ \A r \in Sessions : Written(r)' = Written(r)
         /\ \A p \in {"Prefill", "Decode"} : Ready(p)' = Ready(p)
         /\ UNCHANGED <<filled, work, first, tokens, phase, sessions>>
<1>. UNCHANGED <<opened, slots, filled, prefixes, handles, failed, work, phase, tokens, remaining, first, cap, sessions, suspended>>
  BY Zenon DEF forwardVars, vars, tableVars, recordVars
<1>. DriverTypeOK /\ Holding
  BY Zenon DEF DriverInv
<1>. Admitting' = {}
  BY DEF Admitting, NoCall, QuantumCall
<1>3. DriverTypeOK'
  <2>1. QuantumCall' = QuantumCall
    BY ZenonT(40) DEF QuantumCall
  <2>. QED BY <2>1, Zenon DEF DriverTypeOK
<1>4. Holding'
  <2>1. \A s \in Sessions : suspended[s] # NoHandle => phase'[s] # "Finished"
    BY Zenon DEF Holding
  <2>2. \A s \in failed' : s \in sessions /\ phase'[s] = "Finished"
    BY ZenonT(40) DEF Holding
  <2>. QED BY <2>1, <2>2, HoldingKept, Zenon
<1>5. /\ Idle' = Idle /\ Stepping' = Stepping
      /\ \A r \in Sessions : Written(r)' = Written(r)
      /\ \A p \in {"Prefill", "Decode"} : Ready(p)' = Ready(p)
  BY Zenon DEF Idle, Stepping, Written, Ready
<1>. QED BY <1>3, <1>4, <1>5, Zenon

LEMMA BeginReapInv ==
  ASSUME ForwardInv, DriverInv, BeginReap
  PROVE  DriverInv'
<1>. DriverTypeOK /\ call = NoCall /\ ~InQuantum /\ Admitting = {} /\ sessions \subseteq Sessions
  BY CallKinds, Zenon DEF DriverInv, BeginReap, DriverTypeOK
<1>. call' = [kind |-> "reap"] /\ UNCHANGED <<forwardVars, sessions, recordVars, suspended>>
  BY Zenon DEF BeginReap
<1>. DriverTypeOK' /\ Holding' /\ UNCHANGED <<filled, work, first, tokens, phase, sessions>>
  BY CallOnly, Zenon
<1>3. ~InQuantum'
  BY Zenon DEF InQuantum
<1>4. Visiting' /\ Fed'
  <2>1. \A r \in sessions' : /\ r \in sessions /\ filled'[r] = filled[r] /\ phase'[r] = phase[r]
                             /\ tokens'[r] = tokens[r] /\ first'[r] = first[r]
    BY Zenon
  <2>. QED BY <1>3, <2>1, BetweenCalls, Zenon
<1>. QED BY <1>4, Zenon DEF DriverInv

LEMMA BeginQuantumInv ==
  ASSUME ForwardInv, DriverInv, NEW kind \in {"step", "step_batched"}, BeginQuantum(kind)
  PROVE  DriverInv'
<1>. /\ DriverTypeOK /\ Fed /\ call = NoCall /\ ~InQuantum /\ Admitting = {} /\ sessions \subseteq Sessions
     /\ Idle /\ Stepping = {}
  BY CallKinds, DriverFacts, ZenonT(40) DEF DriverInv, BeginQuantum, DriverTypeOK
<1>. /\ call' = [kind |-> kind, part |-> "prefill", todo |-> Ready("Prefill"), at |-> None, next |-> 0]
     /\ UNCHANGED <<forwardVars, sessions, recordVars, suspended>>
  BY Zenon DEF BeginQuantum
<1>. /\ call' \in QuantumCall /\ call'.at = None /\ call'.part = "prefill" /\ call'.todo = Ready("Prefill")
  BY ZenonT(40) DEF QuantumCall, Ready
<1>. /\ DriverTypeOK' /\ Holding' /\ Idle' /\ Stepping' = {}
     /\ \A r \in Sessions : Written(r)' = Written(r)
     /\ Ready("Prefill")' = Ready("Prefill")
     /\ UNCHANGED <<filled, work, first, tokens, phase, sessions>>
  BY CallOnly, ZenonT(40)
<1>4. Visiting'
  <2>1. Pass' = "Prefill"
    BY Zenon DEF Pass
  <2>. QED BY <2>1, ZenonT(40) DEF Visiting
<1>5. Fed'
  BY Zenon DEF Fed
<1>. QED BY <1>4, <1>5, Zenon DEF DriverInv

LEMMA CollectDecodeReadyInv ==
  ASSUME ForwardInv, DriverInv, CollectDecodeReady
  PROVE  DriverInv'
<1>. /\ DriverTypeOK /\ Fed /\ InQuantum /\ Admitting = {} /\ sessions \subseteq Sessions /\ call \in QuantumCall
     /\ Idle /\ Stepping = {} /\ call.at = None
  BY CallKinds, StepFacts, Zenon DEF DriverInv, CollectDecodeReady, DriverTypeOK, ForwardInv, PoolInv
<1>. /\ call' = [call EXCEPT !.part = "decode", !.todo = Ready("Decode"), !.next = 0]
     /\ UNCHANGED <<forwardVars, sessions, recordVars, suspended>>
  BY Zenon DEF CollectDecodeReady
<1>. /\ call' \in QuantumCall /\ call'.at = None /\ call'.part = "decode" /\ call'.todo = Ready("Decode")
     /\ call'.kind = call.kind
  <2>1. Ready("Decode") \in SUBSET Sessions
    BY Zenon DEF Ready
  <2>. QED BY <2>1, ZenonT(40) DEF QuantumCall
<1>. /\ DriverTypeOK' /\ Holding' /\ Idle' /\ Stepping' = {}
     /\ \A r \in Sessions : Written(r)' = Written(r)
     /\ Ready("Decode")' = Ready("Decode")
     /\ UNCHANGED <<filled, work, first, tokens, phase, sessions>>
  BY CallOnly, Zenon
<1>4. Visiting'
  <2>1. Pass' = "Decode"
    BY Zenon DEF Pass
  <2>. QED BY <2>1, Zenon DEF Visiting
<1>5. Fed'
  <2>1. \A s \in sessions : phase[s] = "Prefill" => Written(s) = first[s]
    BY StepAssumption, Zenon DEF Fed
  <2>. QED BY <2>1, Zenon DEF Fed
<1>. QED BY <1>4, <1>5, Zenon DEF DriverInv

LEMMA EndQuantumInv ==
  ASSUME ForwardInv, DriverInv, EndQuantum
  PROVE  DriverInv'
<1>. /\ DriverTypeOK /\ Fed /\ Visiting /\ InQuantum /\ Admitting = {} /\ sessions \subseteq Sessions /\ call \in QuantumCall
     /\ Idle /\ Stepping = {} /\ call.part = "decode"
  BY CallKinds, StepFacts, ZenonT(40) DEF DriverInv, EndQuantum, DriverTypeOK, ForwardInv, PoolInv
<1>. call' = NoCall /\ UNCHANGED <<forwardVars, sessions, recordVars, suspended>>
  BY Zenon DEF EndQuantum
<1>2. ~InQuantum'
  BY Zenon DEF InQuantum, NoCall
<1>. /\ DriverTypeOK' /\ Holding' /\ Idle' /\ Stepping' = {}
     /\ \A r \in Sessions : Written(r)' = Written(r)
     /\ UNCHANGED <<filled, work, first, tokens, phase, sessions>>
  BY CallOnly, Zenon
<1>4. Visiting'
  BY <1>2, ZenonT(40) DEF Visiting
<1>5. Fed'
  <2>1. call.at = None
    BY ZenonT(40) DEF Visiting
  <2>2. \A s \in sessions : phase[s] = "Prefill" => Written(s) = first[s]
    BY <2>1, StepAssumption, Zenon DEF Fed
  <2>. QED BY <2>2, ZenonT(40) DEF Fed
<1>. QED BY <1>4, <1>5, Zenon DEF DriverInv

LEMMA PrefillFeedInv ==
  ASSUME ForwardInv, DriverInv, NEW s \in sessions, PrefillFeed(s)
  PROVE  DriverInv'
<1>0. DriverTypeOK /\ Holding /\ Visiting /\ Fed /\ sessions \subseteq Sessions /\ s \in Sessions
  BY Zenon DEF DriverInv, DriverTypeOK
<1>1. PICK k : k = NextPosition(s)
  BY Zenon
<1>2. /\ call \in QuantumCall /\ InQuantum /\ call.part = "prefill" /\ Idle
      /\ s \in Ready("Prefill") /\ phase[s] = "Prefill"
      /\ k = filled[s] + 1 /\ k \in 1 .. Len(tokens[s]) /\ tokens[s][k] \in Values
      /\ call.at # None => s = call.at
  BY <1>1, PrefillTarget, ZenonT(40)
<1>3. call' = [call EXCEPT !.todo = call.todo \ {s}, !.at = s, !.next = k + 1]
  BY <1>1, PrefillTarget, Zenon
<1>4. PICK feed : feed = [r \in {s} |-> tokens[s][k]]
  BY ZenonT(40)
<1>5. BeginStep(feed) /\ UNCHANGED <<sessions, recordVars, suspended>>
  BY <1>1, <1>4, Zenon DEF PrefillFeed, NextPosition
<1>6. feed \in [{s} -> Values] /\ feed[s] = tokens[s][k]
  BY <1>2, <1>4, Zenon
<1>7. /\ Stepping' = {s} /\ work'.feed = feed /\ ~Idle'
      /\ \A r \in Sessions : Written(r)' = filled[r] /\ Written(r) = filled[r]
      /\ UNCHANGED <<vars, deviceVars, failed>>
  BY <1>5, <1>6, BeginShape, ZenonT(40)
<1>8. UNCHANGED <<opened, slots, filled, prefixes, handles, failed, phase, tokens, remaining, first, cap, sessions, suspended>>
  BY <1>5, <1>7, Zenon DEF vars, tableVars, recordVars
<1>9. filled[s] \in Nat /\ k + 1 \in Nat
  BY <1>0, <1>2, DriverFacts
<1>10. /\ call'.kind = call.kind /\ call'.part = "prefill" /\ call'.todo = call.todo \ {s} /\ call'.at = s
       /\ call'.next = k + 1 /\ call' \in QuantumCall
  BY <1>0, <1>2, <1>3, <1>9, Zenon DEF QuantumCall
<1>11. InQuantum' /\ Admitting' = {} /\ Admitting = {}
  BY <1>2, <1>10, ZenonT(40) DEF InQuantum, Admitting
<1>12. DriverTypeOK'
  <2>1. QuantumCall' = QuantumCall
    BY Zenon DEF QuantumCall
  <2>. QED BY <1>0, <1>8, <1>10, <2>1, ZenonT(40) DEF DriverTypeOK
<1>13. Holding'
  <2>1. \A r \in Sessions : suspended[r] # NoHandle => phase'[r] # "Finished"
    BY <1>0, <1>8, ZenonT(40) DEF Holding
  <2>2. \A r \in failed' : r \in sessions /\ phase'[r] = "Finished"
    BY <1>0, <1>8, Zenon DEF Holding
  <2>. QED BY <1>0, <1>8, <1>11, <2>1, <2>2, HoldingKept, ZenonT(40)
<1>14. Visiting'
  <2>1. Pass' = "Prefill" /\ Pass = "Prefill"
    BY <1>2, <1>10, ZenonT(40) DEF Pass
  <2>2. Ready("Prefill")' = Ready("Prefill")
    BY <1>8, Zenon DEF Ready
  <2>3. call.todo \subseteq Ready("Prefill")
    BY <1>0, <1>2, <2>1, Zenon DEF Visiting
  <2>4. Written(s)' + 2 = k + 1
    BY <1>0, <1>2, <1>7, <1>9
  <2>5. Written(call.at)' = Written(s)' /\ s # None
    BY <1>0, <1>10, StepAssumption, Zenon DEF Written
  <2>6. call'.next = Written(call.at)' + 2
    BY <1>10, <2>4, <2>5, Zenon
  <2>7. /\ call'.todo \cup Stepping' \subseteq Ready("Prefill") /\ call'.todo \cap Stepping' = {}
        /\ call'.at \in Ready("Prefill") /\ call'.at \notin call'.todo
    BY <1>2, <1>7, <1>10, <2>3, ZenonT(40)
  <2>. QED BY <1>7, <1>10, <1>11, <2>1, <2>2, <2>5, <2>6, <2>7, ZenonT(40) DEF Visiting
<1>15. Fed'
  <2>1. ASSUME NEW r \in sessions, phase[r] = "Prefill", r # s PROVE Written(r) = first[r]
    <3>1. r # call.at
      BY <1>0, <1>2, <2>1, StepAssumption, Zenon
    <3>. QED BY <1>0, <2>1, <3>1, ZenonT(40) DEF Fed
  <2>2. \A r \in sessions : Written(r)' = Written(r)
    BY <1>0, <1>7, Zenon
  <2>3. \A r \in Stepping' : work'.feed[r] = tokens'[r][Written(r)' + 1]
    BY <1>0, <1>2, <1>6, <1>7, <1>8, ZenonT(40)
  <2>. QED BY <1>0, <1>8, <1>10, <1>11, <2>1, <2>2, <2>3, ZenonT(40) DEF Fed
<1>. QED BY <1>12, <1>13, <1>14, <1>15, Zenon DEF DriverInv

LEMMA DecodeChunkInv ==
  ASSUME Countable(Sessions), ForwardInv, DriverInv, NEW chunk, DecodeChunk(chunk)
  PROVE  DriverInv'
<1>. DriverTypeOK /\ Holding /\ Visiting /\ Fed /\ sessions \subseteq Sessions
  BY Zenon DEF DriverInv, DriverTypeOK
<1>. PICK feed : feed = [s \in chunk |-> tokens[s][Len(tokens[s])]]
  BY Zenon
<1>. /\ InQuantum /\ call.part = "decode" /\ Chunk(chunk) /\ BeginStep(feed) /\ Idle
     /\ call' = [call EXCEPT !.todo = call.todo \ chunk] /\ UNCHANGED <<sessions, recordVars, suspended>>
  BY Zenon DEF DecodeChunk, BeginStep
<1>. /\ call \in QuantumCall /\ chunk # {} /\ chunk \subseteq call.todo /\ chunk \subseteq sessions
     /\ \A s \in chunk : /\ s \in Ready("Decode")
                         /\ filled[s] = Len(tokens[s]) - 1
                         /\ Len(tokens[s]) \in Nat \ {0}
                         /\ tokens[s][Len(tokens[s])] \in Values
  BY DecodeTarget, Zenon
<1>. feed \in [chunk -> Values] /\ \A s \in chunk : feed[s] = tokens[s][Len(tokens[s])]
  BY Zenon
<1>. /\ Stepping' = chunk /\ work'.feed = feed /\ ~Idle'
     /\ \A r \in Sessions : Written(r)' = filled[r] /\ Written(r) = filled[r]
     /\ UNCHANGED <<vars, deviceVars, failed>>
  BY BeginShape, Zenon
<1>. UNCHANGED <<opened, slots, filled, prefixes, handles, failed, phase, tokens, remaining, first, cap, sessions, suspended>>
  BY Zenon DEF vars, tableVars, recordVars
<1>. /\ call'.kind = call.kind /\ call'.part = "decode" /\ call'.todo = call.todo \ chunk /\ call'.at = call.at
     /\ call' \in QuantumCall
  BY Zenon DEF QuantumCall
<1>. InQuantum' /\ Admitting' = {} /\ Admitting = {} /\ call.at = None
  BY Zenon DEF InQuantum, Admitting, Visiting
<1>9. DriverTypeOK'
  <2>1. QuantumCall' = QuantumCall
    BY Zenon DEF QuantumCall
  <2>. QED BY <2>1, Zenon DEF DriverTypeOK
<1>10. Holding'
  <2>1. \A r \in Sessions : suspended[r] # NoHandle => phase'[r] # "Finished"
    BY Zenon DEF Holding
  <2>2. \A r \in failed' : r \in sessions /\ phase'[r] = "Finished"
    BY Zenon DEF Holding
  <2>. QED BY <2>1, <2>2, HoldingKept, Zenon
<1>11. Visiting'
  <2>. Pass' = "Decode" /\ Pass = "Decode"
    BY Zenon DEF Pass
  <2>2. Ready("Decode")' = Ready("Decode")
    BY Zenon DEF Ready
  <2>3. call.todo \subseteq Ready("Decode")
    BY Zenon DEF Visiting
  <2>. QED BY <2>2, <2>3, Zenon DEF Visiting
<1>12. Fed'
  <2>1. \A r \in sessions : Written(r)' = Written(r)
    BY Zenon
  <2>2. \A r \in Stepping' : work'.feed[r] = tokens'[r][Written(r)' + 1]
    <3>1. ASSUME NEW r \in chunk PROVE Written(r)' + 1 = Len(tokens[r])
      OBVIOUS
    <3>. QED BY <3>1, Zenon
  <2>. QED BY <2>1, <2>2, Zenon DEF Fed
<1>. QED BY <1>9, <1>10, <1>11, <1>12, Zenon DEF DriverInv

\* A step makes room for its tokens.
LEMMA ForwardGrowsInv ==
  ASSUME ForwardInv, DriverInv, ForwardGrows
  PROVE  DriverInv'
<1>. DriverTypeOK /\ Holding /\ Visiting /\ Fed /\ sessions \subseteq Sessions
  BY Zenon DEF DriverInv, DriverTypeOK
<1>1. PICK s \in Sessions : StepAppend(s) \/ StepWritable(s)
  BY Zenon DEF ForwardGrows
<1>. /\ s \in Stepping /\ Stepping' = Stepping /\ work'.feed = work.feed /\ ~Idle /\ ~Idle'
     /\ \A r \in Sessions : Written(r)' = Written(r)
     /\ \A r \in Sessions \ {s} : slots'[r] = slots[r] /\ filled'[r] = filled[r]
     /\ UNCHANGED <<opened, prefixes, handles, failed>>
  BY <1>1, GrowShape, ZenonT(40)
<1>. UNCHANGED <<phase, tokens, remaining, first, cap, sessions, suspended, call>>
  BY ZenonT(40) DEF ForwardGrows, schedulerVars, recordVars
<1>. InQuantum /\ suspended[s] = NoHandle
  BY DriverFacts, ZenonT(40)
<1>. InQuantum' /\ Admitting' = {} /\ Admitting = {}
  BY CallKinds, ZenonT(40) DEF InQuantum, Admitting
<1>6. DriverTypeOK'
  <2>1. QuantumCall' = QuantumCall /\ call \in QuantumCall
    BY CallKinds, ZenonT(40) DEF QuantumCall
  <2>. QED BY <2>1, ZenonT(40) DEF DriverTypeOK
<1>7. Holding'
  <2>1. \A r \in Sessions : suspended[r] # NoHandle => phase'[r] # "Finished"
    BY ZenonT(40) DEF Holding
  <2>2. \A r \in failed' : r \in sessions /\ phase'[r] = "Finished"
    BY ZenonT(40) DEF Holding
  <2>3. \A r \in Sessions : suspended[r] # NoHandle \/ r \in Admitting => slots'[r] = slots[r] /\ filled'[r] = filled[r]
    BY Zenon
  <2>. QED BY <2>1, <2>2, <2>3, HoldingKept, ZenonT(40)
<1>8. Visiting'
  <2>1. Pass' = Pass /\ Ready(Pass)' = Ready(Pass) /\ Ready("Prefill")' = Ready("Prefill")
    BY ZenonT(40) DEF Pass, Ready
  <2>2. call.at # None => Written(call.at)' = Written(call.at)
    BY ZenonT(40) DEF Visiting, Ready
  <2>. QED BY <2>1, <2>2, ZenonT(40) DEF Visiting
<1>9. Fed'
  <2>1. \A r \in sessions : Written(r)' = Written(r)
    BY ZenonT(40)
  <2>2. Stepping \subseteq sessions
    BY DriverFacts, ZenonT(40)
  <2>. QED BY <2>1, <2>2, ZenonT(40) DEF Fed
<1>. QED BY <1>6, <1>7, <1>8, <1>9, ZenonT(40) DEF DriverInv

\* A step whose rows are written advances the sessions in it by one position; in
\* the prefill pass that is the session under way.
LEMMA StepDone ==
  ASSUME ForwardInv, DriverInv, StepWrite
  PROVE  /\ InQuantum /\ call \in QuantumCall /\ ~Idle /\ Idle' /\ Stepping' = {}
         /\ UNCHANGED <<opened, slots, filled, prefixes, handles, failed>>
         /\ \A r \in Sessions : Written(r)' = filled[r]
         /\ \A r \in Sessions \ Stepping : Written(r) = filled[r]
         /\ \A s \in Stepping : s \in sessions /\ suspended[s] = NoHandle /\ filled[s] = Written(s) + 1
         /\ \A s \in failed : s \notin Stepping
         /\ call.part = "prefill" => call.at # None /\ Stepping = {call.at} /\ call.next = Written(call.at) + 2
         /\ call.part = "decode" => call.at = None
<1>. DriverTypeOK /\ Visiting
  BY Zenon DEF DriverInv
<1>. work' = NoWork /\ Grown /\ UNCHANGED <<opened, slots, filled, prefixes, handles, failed>>
  BY Zenon DEF StepWrite, vars, tableVars
<1>. /\ Idle' /\ Stepping' = {} /\ Stepping # {}
     /\ \A r \in Sessions : Written(r)' = filled[r]
     /\ \A r \in Sessions \ Stepping : Written(r) = filled[r]
     /\ \A s \in Stepping : s \in Sessions /\ filled[s] = Written(s) + 1
  BY EndShape, Zenon
<1>. /\ \A s \in Stepping : s \in sessions /\ suspended[s] = NoHandle
     /\ \A s \in failed : s \notin Stepping
     /\ InQuantum
  BY DriverFacts, Zenon
<1>4. call \in QuantumCall
  BY CallKinds, ZenonT(40)
<1>. ~Idle
  BY StepFacts, ZenonT(40) DEF ForwardInv, PoolInv
<1>6. call.part = "prefill" => call.at # None /\ Stepping = {call.at} /\ call.next = Written(call.at) + 2
  BY ZenonT(40) DEF Visiting
<1>7. call.part = "decode" => call.at = None
  BY Zenon DEF Visiting
<1>. QED BY <1>4, <1>6, <1>7, Zenon

\* The prefill pass goes on with the session's next prompt token.
LEMMA PrefillGoesOn ==
  ASSUME ForwardInv, DriverInv, StepWrite, call.part = "prefill", call.next <= Len(tokens[call.at]),
         UNCHANGED schedulerVars
  PROVE  DriverInv'
<1>. DriverTypeOK /\ Holding /\ Visiting /\ Fed /\ sessions \subseteq Sessions
  BY Zenon DEF DriverInv, DriverTypeOK
<1>. PICK s : s = call.at
  BY Zenon
<1>. /\ InQuantum /\ call \in QuantumCall /\ ~Idle /\ Idle' /\ Stepping' = {}
     /\ UNCHANGED <<opened, slots, filled, prefixes, handles, failed>>
     /\ \A r \in Sessions : Written(r)' = filled[r]
     /\ \A r \in Sessions \ Stepping : Written(r) = filled[r]
  BY StepDone, ZenonT(40)
<1>. /\ s # None /\ Stepping = {s} /\ call.next = Written(s) + 2 /\ s \in sessions /\ filled[s] = Written(s) + 1
  BY StepDone, ZenonT(40)
<1>. UNCHANGED <<phase, tokens, remaining, first, cap, sessions, suspended, call>>
  BY Zenon DEF schedulerVars, recordVars
<1>. InQuantum' /\ Admitting' = {} /\ Admitting = {}
  BY CallKinds, ZenonT(40) DEF InQuantum, Admitting
<1>6. DriverTypeOK'
  <2>1. QuantumCall' = QuantumCall
    BY Zenon DEF QuantumCall
  <2>. QED BY <2>1, ZenonT(40) DEF DriverTypeOK
<1>7. Holding'
  <2>1. \A r \in Sessions : suspended[r] # NoHandle => phase'[r] # "Finished"
    BY ZenonT(40) DEF Holding
  <2>2. \A r \in failed' : r \in sessions /\ phase'[r] = "Finished"
    BY ZenonT(40) DEF Holding
  <2>. QED BY <2>1, <2>2, HoldingKept, ZenonT(40)
<1>8. Visiting'
  <2>. Pass' = Pass /\ Pass = "Prefill" /\ Ready("Prefill")' = Ready("Prefill")
    BY ZenonT(40) DEF Pass, Ready
  <2>2. /\ call.todo \subseteq Ready("Prefill") /\ s \in Ready("Prefill") /\ s \notin call.todo
    BY ZenonT(40) DEF Visiting
  <2>3. Written(s) \in Nat /\ call.next = filled[s] + 1
    BY DriverFacts
  <2>4. call'.at = s /\ call'.next = filled'[call'.at] + 1
    BY <2>3, Zenon
  <2>. QED BY <2>2, <2>4, ZenonT(40) DEF Visiting
<1>9. Fed'
  <2>1. ASSUME NEW r \in sessions, phase[r] = "Decode" PROVE Written(r)' = Len(tokens[r]) - 1
    <3>1. r # s
      BY <2>1, ZenonT(40) DEF Visiting, Ready
    <3>. QED BY <2>1, <3>1, ZenonT(40) DEF Fed
  <2>2. ASSUME NEW r \in sessions, phase[r] = "Prefill", r # s
        PROVE  Written(r)' = first[r] /\ first[r] <= Written(r)' /\ Written(r)' < Len(tokens[r])
    BY <2>2, ZenonT(40) DEF Fed
  <2>3. phase[s] = "Prefill" => first[s] <= Written(s)' /\ Written(s)' < Len(tokens[s])
    <3>1. Written(s) \in Nat /\ Written(s)' = Written(s) + 1 /\ first[s] \in Nat /\ Len(tokens[s]) \in Nat
      BY DriverFacts DEF DriverTypeOK
    <3>2. Written(s) + 2 <= Len(tokens[s])
      BY Zenon
    <3>3. phase[s] = "Prefill" => first[s] <= Written(s)
      BY ZenonT(40) DEF Fed
    <3>. QED BY <3>1, <3>2, <3>3
  <2>. QED BY <2>1, <2>2, <2>3, ZenonT(40) DEF Fed
<1>. QED BY <1>6, <1>7, <1>8, <1>9, ZenonT(40) DEF DriverInv

\* What sampling does to one session's record.
LEMMA SampleShape ==
  ASSUME DriverTypeOK, NEW group \in SUBSET Sessions, NEW picked \in [group -> Values \cup {None}], Sample(picked)
  PROVE  /\ phase' \in [Sessions -> {"Prefill", "Decode", "Finished"}]
         /\ tokens' \in [Sessions -> Seq(Values)] /\ remaining' \in [Sessions -> Nat]
         /\ \A r \in Sessions \ group : phase'[r] = phase[r] /\ tokens'[r] = tokens[r]
         /\ \A r \in group : phase'[r] \in {"Decode", "Finished"}
         /\ \A r \in group : phase'[r] = "Decode" => Len(tokens'[r]) = Len(tokens[r]) + 1
<1>. /\ DOMAIN picked = group /\ tokens \in [Sessions -> Seq(Values)] /\ remaining \in [Sessions -> Nat]
     /\ phase \in [Sessions -> {"Prefill", "Decode", "Finished"}]
  BY Zenon DEF DriverTypeOK
<1>. /\ tokens' = [s \in Sessions |-> IF s \in group /\ picked[s] # None THEN Append(tokens[s], picked[s]) ELSE tokens[s]]
     /\ remaining' = [s \in Sessions |-> IF s \in group /\ picked[s] # None
                                         THEN Saturating(remaining[s] - 1) ELSE remaining[s]]
     /\ phase' = [s \in Sessions |->
          IF s \notin group THEN phase[s]
          ELSE IF picked[s] \in Eos \cup {None} \/ remaining'[s] = 0 THEN "Finished" ELSE "Decode"]
  BY Zenon DEF Sample
<1>2. ASSUME NEW s \in Sessions, s \in group, picked[s] # None
      PROVE  Append(tokens[s], picked[s]) \in Seq(Values) /\ Len(Append(tokens[s], picked[s])) = Len(tokens[s]) + 1
  <2>1. tokens[s] \in Seq(Values) /\ picked[s] \in Values
    BY <1>2, Zenon
  <2>. QED BY <2>1
<1>3. tokens' \in [Sessions -> Seq(Values)]
  BY <1>2, Zenon
<1>4. remaining' \in [Sessions -> Nat]
  <2>1. \A s \in Sessions : Saturating(remaining[s] - 1) \in Nat /\ remaining[s] \in Nat
    BY DEF Saturating
  <2>. QED BY <2>1, Zenon
<1>5. phase' \in [Sessions -> {"Prefill", "Decode", "Finished"}]
  BY Zenon
<1>6. /\ \A r \in Sessions \ group : phase'[r] = phase[r] /\ tokens'[r] = tokens[r]
      /\ \A r \in group : phase'[r] \in {"Decode", "Finished"}
  BY Zenon
<1>7. ASSUME NEW r \in group, phase'[r] = "Decode" PROVE Len(tokens'[r]) = Len(tokens[r]) + 1
  <2>. picked[r] # None
    BY <1>7, Zenon
  <2>2. tokens'[r] = Append(tokens[r], picked[r])
    BY Zenon
  <2>. QED BY <1>2, <2>2, Zenon
<1>. QED BY <1>3, <1>4, <1>5, <1>6, <1>7, ZenonT(40)

\* The last logits of a prompt, or those of a decode step, are sampled.
LEMMA SampledInv ==
  ASSUME ForwardInv, DriverInv, StepWrite, ~(call.part = "prefill" /\ call.next <= Len(tokens[call.at])),
         NEW picked \in [Stepping -> Values \cup {None}], Sample(picked),
         call' = [call EXCEPT !.at = None], UNCHANGED <<first, cap, sessions, suspended>>
  PROVE  DriverInv'
<1>. DriverTypeOK /\ Holding /\ Visiting /\ Fed /\ sessions \subseteq Sessions /\ first \in [Sessions -> Nat]
  BY Zenon DEF DriverInv, DriverTypeOK
<1>. /\ InQuantum /\ call \in QuantumCall /\ ~Idle /\ Idle' /\ Stepping' = {}
     /\ UNCHANGED <<opened, slots, filled, prefixes, handles, failed>>
     /\ \A r \in Sessions : Written(r)' = filled[r]
     /\ \A r \in Sessions \ Stepping : Written(r) = filled[r]
  BY StepDone, Zenon
<1>. /\ \A s \in Stepping : s \in sessions /\ suspended[s] = NoHandle /\ filled[s] = Written(s) + 1
     /\ \A s \in failed : s \notin Stepping
  BY StepDone, Zenon
<1>. /\ call.part = "prefill" => Stepping = {call.at} /\ call.next = Written(call.at) + 2
     /\ call.part = "decode" => call.at = None
  BY StepDone, Zenon
<1>. /\ phase' \in [Sessions -> {"Prefill", "Decode", "Finished"}]
     /\ tokens' \in [Sessions -> Seq(Values)] /\ remaining' \in [Sessions -> Nat]
     /\ \A r \in Sessions \ Stepping : phase'[r] = phase[r] /\ tokens'[r] = tokens[r]
     /\ \A r \in Stepping : phase'[r] \in {"Decode", "Finished"}
     /\ \A r \in Stepping : phase'[r] = "Decode" => Len(tokens'[r]) = Len(tokens[r]) + 1
  <2>1. Stepping \in SUBSET Sessions
    BY Zenon
  <2>. QED BY <2>1, SampleShape, Zenon
<1>. /\ call'.kind = call.kind /\ call'.part = call.part /\ call'.todo = call.todo /\ call'.at = None
     /\ call' \in QuantumCall
  BY Zenon DEF QuantumCall
<1>6. InQuantum' /\ Admitting' = {} /\ Admitting = {}
  BY CallKinds, Zenon DEF InQuantum, Admitting
<1>7. DriverTypeOK'
  <2>1. QuantumCall' = QuantumCall
    BY Zenon DEF QuantumCall
  <2>. QED BY <2>1, Zenon DEF DriverTypeOK
<1>8. Holding'
  <2>1. \A r \in Sessions : suspended[r] # NoHandle => phase'[r] # "Finished"
    BY ZenonT(40) DEF Holding
  <2>2. \A r \in failed' : r \in sessions /\ phase'[r] = "Finished"
    BY Zenon DEF Holding
  <2>. QED BY <1>6, <2>1, <2>2, HoldingKept, Zenon
<1>9. Visiting'
  <2>1. ASSUME NEW r \in call.todo PROVE r \in Ready(Pass)'
    <3>. r \in Ready(Pass) /\ r \notin Stepping
      BY Zenon DEF Visiting
    <3>. r \in sessions /\ phase[r] = Pass /\ suspended[r] = NoHandle
      BY Zenon DEF Ready
    <3>3. phase'[r] = phase[r] /\ Pass' = Pass
      BY Zenon DEF Pass
    <3>. QED BY <3>3, Zenon DEF Ready
  <2>. QED BY <2>1, Zenon DEF Visiting
<1>10. Fed'
  <2>1. ASSUME NEW s \in Stepping PROVE filled[s] = Len(tokens[s])
    <3>. Written(s) \in Nat /\ Len(tokens[s]) \in Nat /\ filled[s] = Written(s) + 1 /\ s \in sessions /\ s \in Ready(Pass)
      BY DriverFacts DEF DriverTypeOK, Visiting
    <3>2. CASE call.part = "prefill"
      <4>. s = call.at /\ phase[s] = "Prefill"
        BY <3>2 DEF Ready, Pass
      <4>2. Written(s) < Len(tokens[s])
        BY Zenon DEF Fed
      <4>3. ~(Written(s) + 2 <= Len(tokens[s]))
        BY <3>2, Zenon
      <4>. QED BY <4>2, <4>3
    <3>3. CASE call.part = "decode"
      <4>1. phase[s] = "Decode"
        BY <3>3, Zenon DEF Ready, Pass
      <4>2. Written(s) = Len(tokens[s]) - 1
        BY <4>1, Zenon DEF Fed
      <4>. QED BY <4>2
    <3>. QED BY <3>2, <3>3, Zenon DEF QuantumCall
  <2>2. ASSUME NEW r \in sessions, phase'[r] = "Decode" PROVE Written(r)' = Len(tokens'[r]) - 1
    <3>1. CASE r \in Stepping
      <4>. r \in Sessions /\ Len(tokens[r]) \in Nat
        BY DEF DriverTypeOK
      <4>2. Written(r)' = filled[r] /\ filled[r] = Len(tokens[r])
        BY <2>1, <3>1, Zenon
      <4>3. Len(tokens'[r]) = Len(tokens[r]) + 1
        BY <2>2, <3>1, Zenon
      <4>. QED BY <4>2, <4>3
    <3>2. CASE r \notin Stepping
      <4>1. r \in Sessions /\ phase[r] = "Decode" /\ tokens'[r] = tokens[r] /\ Written(r)' = Written(r)
        BY <2>2, <3>2, ZenonT(40)
      <4>. QED BY <4>1, Zenon DEF Fed
    <3>. QED BY <3>1, <3>2, Zenon
  <2>3. ASSUME NEW r \in sessions, phase'[r] = "Prefill"
        PROVE  first[r] <= Written(r)' /\ Written(r)' < Len(tokens'[r]) /\ Written(r)' = first[r]
    <3>. r \notin Stepping /\ r \in Sessions
      BY <2>3, Zenon
    <3>2. phase[r] = "Prefill" /\ tokens'[r] = tokens[r] /\ Written(r)' = Written(r)
      BY <2>3, Zenon
    <3>3. r # call.at
      <4>1. CASE call.part = "prefill"
        BY <4>1, Zenon
      <4>2. CASE call.part = "decode"
        BY <4>2, StepAssumption, Zenon
      <4>. QED BY <4>1, <4>2, Zenon DEF QuantumCall
    <3>. QED BY <3>2, <3>3 DEF Fed
  <2>. QED BY <2>2, <2>3, Zenon DEF Fed
<1>. QED BY <1>7, <1>8, <1>9, <1>10, Zenon DEF DriverInv

LEMMA ForwardReturnsInv ==
  ASSUME ForwardInv, DriverInv, ForwardReturns
  PROVE  DriverInv'
<1>1. CASE call.part = "prefill" /\ call.next <= Len(tokens[call.at])
  BY <1>1, PrefillGoesOn, Zenon DEF ForwardReturns, schedulerVars
<1>2. CASE ~(call.part = "prefill" /\ call.next <= Len(tokens[call.at]))
  BY <1>2, SampledInv, Zenon DEF ForwardReturns
<1>. QED BY <1>1, <1>2, Zenon

\* An error finishes the sessions of the step, or of the refused chunk.
LEMMA ErrorInv ==
  ASSUME ForwardInv, DriverInv, InQuantum, NEW gone \in SUBSET sessions, FinishError(gone),
         Stepping \subseteq gone, \A s \in gone : suspended[s] = NoHandle, gone \cap call'.todo = {},
         call' \in QuantumCall, call'.kind = call.kind, call'.part = call.part,
         call'.todo \subseteq call.todo, call'.at = None, call.at # None => call.at \in gone,
         Idle', Stepping' = {}, failed' \subseteq failed \cup gone,
         \A r \in Sessions : Written(r)' = filled'[r],
         \A r \in Sessions \ gone : Written(r) = filled[r] /\ slots'[r] = slots[r] /\ filled'[r] = filled[r],
         UNCHANGED <<opened, prefixes, handles, sessions, tokens, remaining, first, cap, suspended>>
  PROVE  DriverInv'
<1>. DriverTypeOK /\ Holding /\ Visiting /\ Fed /\ sessions \subseteq Sessions
  BY ZenonT(40) DEF DriverInv, DriverTypeOK
<1>. /\ \A r \in gone : phase'[r] = "Finished"
     /\ \A r \in Sessions \ gone : phase'[r] = phase[r]
     /\ phase' \in [Sessions -> {"Prefill", "Decode", "Finished"}]
  BY ZenonT(40) DEF FinishError, DriverTypeOK
<1>. InQuantum' /\ Admitting' = {} /\ Admitting = {}
  BY CallKinds, ZenonT(40) DEF InQuantum, Admitting
<1>3. DriverTypeOK'
  <2>1. QuantumCall' = QuantumCall
    BY ZenonT(40) DEF QuantumCall
  <2>. QED BY <2>1, ZenonT(40) DEF DriverTypeOK
<1>4. Holding'
  <2>1. \A r \in Sessions : suspended[r] # NoHandle => phase'[r] # "Finished"
    BY ZenonT(40) DEF Holding
  <2>2. \A r \in failed' : r \in sessions /\ phase'[r] = "Finished"
    BY ZenonT(40) DEF Holding
  <2>3. \A r \in Sessions : suspended[r] # NoHandle \/ r \in Admitting => slots'[r] = slots[r] /\ filled'[r] = filled[r]
    BY ZenonT(40)
  <2>. QED BY <2>1, <2>2, <2>3, HoldingKept, ZenonT(40)
<1>5. Visiting'
  <2>1. ASSUME NEW r \in call'.todo PROVE r \in Ready(Pass)'
    <3>. r \in Ready(Pass) /\ r \notin gone
      BY ZenonT(40) DEF Visiting
    <3>. r \in sessions /\ phase[r] = Pass /\ suspended[r] = NoHandle
      BY ZenonT(40) DEF Ready
    <3>3. phase'[r] = phase[r] /\ Pass' = Pass
      BY ZenonT(40) DEF Pass
    <3>. QED BY <3>3, ZenonT(40) DEF Ready
  <2>. QED BY <2>1, ZenonT(40) DEF Visiting
<1>6. Fed'
  <2>1. ASSUME NEW r \in sessions, phase'[r] # "Finished"
        PROVE  r \notin gone /\ phase'[r] = phase[r] /\ Written(r)' = Written(r) /\ r # call.at
    BY <2>1, StepAssumption, ZenonT(40)
  <2>2. \A r \in sessions : phase'[r] = "Decode" => Written(r)' = Len(tokens[r]) - 1
    BY <2>1, ZenonT(40) DEF Fed
  <2>3. \A r \in sessions : phase'[r] = "Prefill" =>
          first[r] <= Written(r)' /\ Written(r)' < Len(tokens[r]) /\ Written(r)' = first[r]
    BY <2>1, ZenonT(40) DEF Fed
  <2>. QED BY <2>2, <2>3, ZenonT(40) DEF Fed
<1>. QED BY <1>3, <1>4, <1>5, <1>6, ZenonT(40) DEF DriverInv

LEMMA ForwardErrorInv ==
  ASSUME ForwardInv, DriverInv, ForwardError
  PROVE  DriverInv'
<1>. DriverTypeOK /\ Visiting /\ sessions \subseteq Sessions
  BY Zenon DEF DriverInv, DriverTypeOK
<1>. /\ work' = NoWork /\ failed' = failed \cup Stepping /\ Stepping # {}
     /\ \A r \in Sessions \ Stepping : slots'[r] = slots[r] /\ filled'[r] = filled[r]
     /\ UNCHANGED <<opened, prefixes, handles>>
  BY ErrorShape, Zenon DEF ForwardError
<1>2. /\ Idle' /\ Stepping' = {}
      /\ \A r \in Sessions : Written(r)' = filled'[r]
      /\ \A r \in Sessions \ Stepping : Written(r) = filled[r]
  BY EndShape, Zenon
<1>. /\ FinishError(Stepping) /\ call' = [call EXCEPT !.at = None]
     /\ UNCHANGED <<sessions, tokens, remaining, first, cap, suspended>>
  BY Zenon DEF ForwardError
<1>. /\ InQuantum /\ Stepping \in SUBSET sessions /\ \A s \in Stepping : suspended[s] = NoHandle
  BY DriverFacts, Zenon
<1>5. call \in QuantumCall
  BY CallKinds, Zenon
<1>6. /\ call'.kind = call.kind /\ call'.part = call.part /\ call'.todo = call.todo /\ call'.at = None
      /\ call' \in QuantumCall
  BY <1>5, Zenon DEF QuantumCall
<1>7. ~Idle
  BY StepFacts, Zenon DEF ForwardInv, PoolInv
<1>8. call.todo \cap Stepping = {} /\ (call.at # None => call.at \in Stepping)
  BY <1>7, Zenon DEF Visiting
<1>. QED BY <1>2, <1>6, <1>8, ErrorInv, Zenon

LEMMA BatchRefusedInv ==
  ASSUME Countable(Sessions), ForwardInv, DriverInv, NEW chunk, BatchRefused(chunk)
  PROVE  DriverInv'
<1>0. DriverTypeOK /\ Visiting /\ sessions \subseteq Sessions
  BY Zenon DEF DriverInv, DriverTypeOK
<1>. /\ InQuantum /\ call.part = "decode" /\ Idle /\ Chunk(chunk) /\ FinishError(chunk)
     /\ call' = [call EXCEPT !.todo = call.todo \ chunk]
     /\ UNCHANGED <<forwardVars, sessions, tokens, remaining, first, cap, suspended>>
  BY Zenon DEF BatchRefused
<1>. /\ call \in QuantumCall /\ chunk \subseteq call.todo /\ chunk \in SUBSET sessions
     /\ \A s \in chunk : suspended[s] = NoHandle
  BY DecodeTarget, Zenon
<1>. UNCHANGED <<opened, slots, filled, prefixes, handles, work, failed>>
  BY Zenon DEF forwardVars, vars, tableVars
<1>4. /\ Idle' /\ Stepping = {} /\ Stepping' = {}
      /\ \A r \in Sessions : Written(r)' = filled'[r] /\ Written(r) = filled[r]
  <2>1. Stepping = {} /\ \A r \in Sessions : Written(r) = filled[r]
    BY StepFacts, DriverFacts, Zenon DEF ForwardInv, PoolInv
  <2>2. Idle' /\ Stepping' = Stepping /\ \A r \in Sessions : Written(r)' = Written(r)
    BY Zenon DEF Idle, Stepping, Written
  <2>. QED BY <2>1, <2>2, Zenon
<1>. call.at = None
  BY <1>0, Zenon DEF Visiting
<1>6. /\ call'.kind = call.kind /\ call'.part = call.part /\ call'.todo = call.todo \ chunk /\ call'.at = None
      /\ call' \in QuantumCall
  BY Zenon DEF QuantumCall
<1>. QED BY <1>4, <1>6, ErrorInv, Zenon

-----------------------------------------------------------------------------
(* The scheduler's invariant. *)

LEMMA DriverInvInit ==
  ASSUME SchedulerInit
  PROVE  DriverInv
<1>. /\ opened = {} /\ prefixes = {} /\ handles = {} /\ work = NoWork /\ failed = {} /\ sessions = {} /\ call = NoCall
     /\ suspended = [s \in Sessions |-> NoHandle]
  BY Zenon DEF SchedulerInit, ForwardInit, DeviceInit, Init
<1>2. <<>> \in Seq(Values)
  OBVIOUS
<1>3. DriverTypeOK
  BY <1>2, Zenon DEF SchedulerInit, DriverTypeOK
<1>. ~InQuantum /\ Admitting = {} /\ Idle /\ Stepping = {}
  BY DEF InQuantum, Admitting, NoCall, Idle, Stepping, NoWork
<1>5. Holding
  <2>1. Clients = {}
    BY Zenon DEF Clients
  <2>. QED BY <2>1, Zenon DEF Holding
<1>6. Visiting /\ Fed
  BY Zenon DEF Visiting, Fed
<1>. QED BY <1>3, <1>5, <1>6, Zenon DEF DriverInv

LEMMA DriverInvStutter ==
  ASSUME DriverInv, UNCHANGED allVars
  PROVE  DriverInv'
<1>. UNCHANGED <<opened, slots, filled, prefixes, handles, work, failed, sessions, phase, tokens, remaining, first, cap, suspended, call>>
  BY Zenon DEF allVars, forwardVars, vars, tableVars, schedulerVars, recordVars
<1>2. DriverTypeOK'
  BY ZenonT(40) DEF DriverInv, DriverTypeOK, AdmitCall, QuantumCall
<1>3. Holding'
  BY DEF DriverInv, Holding, Admitting, Clients, Owners, Current
<1>4. Visiting'
  BY Zenon DEF DriverInv, Visiting, InQuantum, Idle, Stepping, Ready, Pass, Written
<1>5. Fed'
  BY Zenon DEF DriverInv, Fed, InQuantum, Stepping, Written
<1>. QED BY <1>2, <1>3, <1>4, <1>5, Zenon DEF DriverInv

\* Every call of a host, and every stage of a quantum, keeps the scheduler's
\* records, the pool's sessions and the eviction handles in step.
LEMMA DriverInvStep ==
  ASSUME Countable(Sessions), RegistersWhole, ForwardInv, ForwardInv', DriverInv, [SchedulerNext]_allVars
  PROVE  DriverInv'
<1>1. ASSUME NEW prompt \in Prompts, NEW budget \in Budgets, AddSession(prompt, budget) PROVE DriverInv'
  BY <1>1, AddSessionInv, Zenon
<1>2. ASSUME NEW prompt \in Prompts, NEW budget \in Budgets, NEW x \in prefixes, AdmitSharing(x, prompt, budget)
      PROVE  DriverInv'
  BY <1>2, AdmitSharingInv, Zenon
<1>3. CASE AdmitSpliced
  BY <1>3, AdmitSplicedInv, Zenon
<1>4. CASE AdmitRolledBack
  BY <1>4, AdmitRolledBackInv
<1>5. ASSUME NEW x \in prefixes, SchedulerRelease(x) PROVE DriverInv'
  BY <1>5, SchedulerReleaseInv, Zenon
<1>6. ASSUME NEW s \in sessions, EvictSession(s) PROVE DriverInv'
  <2>1. ClientTypeOK'
    BY Zenon DEF ForwardInv, PoolInv, Sound, Counting
  <2>. QED BY <1>6, <2>1, EvictSessionInv, Zenon
<1>7. ASSUME NEW s \in sessions, RestoreSession(s) PROVE DriverInv'
  BY <1>7, RestoreSessionInv
<1>8. ASSUME NEW s \in sessions, ReapOne(s) PROVE DriverInv'
  BY <1>8, ReapOneInv
<1>9. CASE BeginReap
  BY <1>9, BeginReapInv
<1>10. CASE HostCall
  BY <1>1, <1>2, <1>3, <1>4, <1>5, <1>6, <1>7, <1>8, <1>9, <1>10, Zenon DEF HostCall
<1>11. CASE SoundRegister
  BY <1>11, SoundRegisterInv, Zenon
<1>12. CASE BeginStepCall
  BY <1>12, BeginQuantumInv, Zenon DEF BeginStepCall
<1>13. CASE QuantumStep
  <2>1. ASSUME NEW s \in sessions, PrefillFeed(s) PROVE DriverInv'
    BY <2>1, PrefillFeedInv
  <2>2. ASSUME NEW chunk, DecodeChunk(chunk) PROVE DriverInv'
    BY <2>2, DecodeChunkInv, Zenon
  <2>3. ASSUME NEW chunk, BatchRefused(chunk) PROVE DriverInv'
    BY <2>3, BatchRefusedInv, Zenon
  <2>4. CASE CollectDecodeReady
    BY <2>4, CollectDecodeReadyInv
  <2>5. CASE ForwardGrows
    BY <2>5, ForwardGrowsInv
  <2>6. CASE ForwardReturns
    BY <2>6, ForwardReturnsInv
  <2>7. CASE ForwardError
    BY <2>7, ForwardErrorInv
  <2>8. CASE EndQuantum
    BY <2>8, EndQuantumInv
  <2>. QED BY <1>13, <2>1, <2>2, <2>3, <2>4, <2>5, <2>6, <2>7, <2>8, Zenon DEF QuantumStep
<1>14. CASE UNCHANGED allVars
  BY <1>14, DriverInvStutter, Zenon
<1>. QED BY <1>10, <1>11, <1>12, <1>13, <1>14, Zenon DEF SchedulerNext

\* The handle of a suspended session is its current one.
LEMMA SuspensionFromInv ==
  ASSUME DriverInv
  PROVE  SuspensionCurrent
BY ZenonT(40) DEF DriverInv, DriverTypeOK, Holding, SuspensionCurrent

\* Between steps a decoding session is one token short of its text.
LEMMA InStepFromInv ==
  ASSUME ForwardInv, DriverInv
  PROVE  DecodeInStep
<1>. DriverTypeOK /\ Fed /\ sessions \subseteq Sessions
  BY Zenon DEF DriverInv, DriverTypeOK
<1>1. ASSUME Idle, NEW s \in sessions
      PROVE  /\ phase[s] = "Decode" => filled[s] = Len(tokens[s]) - 1
             /\ phase[s] = "Prefill" /\ call.kind = "none" => filled[s] = first[s] /\ first[s] < Len(tokens[s])
  <2>1. Written(s) = filled[s]
    BY <1>1, DriverFacts, Zenon
  <2>2. call.kind = "none" => ~InQuantum
    BY CallKinds, Zenon
  <2>. QED BY <2>1, <2>2, Zenon DEF Fed
<1>. QED BY <1>1, ZenonT(40) DEF DecodeInStep
=============================================================================
