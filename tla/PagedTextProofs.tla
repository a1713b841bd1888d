--------------------------- MODULE PagedTextProofs ---------------------------
(***************************************************************************)
(* What the paged scheduler keeps for each of its sessions: room for the    *)
(* tokens it is still to feed, its own text in the pool, and its frontier   *)
(* block to itself. Each invariant builds on the driver's.                  *)
(***************************************************************************)
EXTENDS PagedSchedulerProofs

-----------------------------------------------------------------------------
(* What a step does to the sessions the scheduler holds. *)

\* The step leaves the session's text, budget and table size alone. It may finish
\* the session; where it reports no error, what the session has stored stays.
Steady(s) ==
  /\ tokens'[s] = tokens[s] /\ remaining'[s] = remaining[s] /\ cap'[s] = cap[s]
  /\ phase'[s] \in {phase[s], "Finished"}
  /\ filled'[s] = filled[s] /\ Len(slots'[s]) = Len(slots[s])
  /\ s \notin failed' => s \notin failed /\ Written(s)' = Written(s)

LEMMA SteadyTable ==
  ASSUME NEW s \in Sessions, tokens'[s] = tokens[s], remaining'[s] = remaining[s], cap'[s] = cap[s], phase'[s] = phase[s],
         UNCHANGED work, filled'[s] = filled[s], Len(slots'[s]) = Len(slots[s]), s \in failed => s \in failed'
  PROVE  Steady(s)
BY Zenon DEF Steady, Written

LEMMA HostSteady ==
  ASSUME RegistersWhole, ForwardInv, DriverInv, HostCall \/ SoundRegister, NEW s \in sessions, s \in sessions'
  PROVE  Steady(s)
<1>. Sound /\ Ownership /\ DriverTypeOK /\ Holding /\ s \in Sessions /\ s \in Clients
  BY DriverFacts, Zenon DEF ForwardInv, PoolInv, DriverInv
<1>. DEFINE Left == /\ UNCHANGED <<recordVars, work>> /\ filled'[s] = filled[s] /\ Len(slots'[s]) = Len(slots[s])
                    /\ s \in failed => s \in failed'
<1>0. Left => Steady(s)
  BY SteadyTable, Zenon DEF recordVars
<1>1. ASSUME NEW prompt \in Prompts, NEW budget \in Budgets, AddSession(prompt, budget) PROVE Steady(s)
  <2>1. PICK p : p = next_session
    BY Zenon
  <2>2. Open /\ Push(p, prompt, budget, 0) /\ UNCHANGED <<work, failed>>
    BY <1>1, <2>1, Zenon DEF AddSession, CoreOnly
  <2>3. p \in Sessions /\ p \notin sessions /\ UNCHANGED <<slots, filled>>
    BY <2>1, <2>2, OpenShape, Zenon
  <2>4. s # p
    BY <2>3, Zenon
  <2>5. /\ phase'[s] = phase[s] /\ tokens'[s] = tokens[s] /\ remaining'[s] = remaining[s] /\ cap'[s] = cap[s]
    BY <2>2, <2>3, <2>4, PushShape
  <2>. QED BY <2>2, <2>3, <2>5, SteadyTable, Zenon
<1>2. ASSUME NEW x \in prefixes, NEW prompt, NEW budget, AdmitSharing(x, prompt, budget) PROVE Left
  BY <1>2, Zenon DEF AdmitSharing, CoreOnly, Open
<1>3. CASE AdmitSpliced
  <2>1. PICK p, x, prompt, budget, n : /\ p = call.session /\ x = call.prefix /\ prompt = call.prompt
                                       /\ budget = call.budget /\ n = x.blocks * BlockSize
    BY Zenon
  <2>2. /\ p \in Sessions /\ x \in prefixes /\ prompt \in Prompts /\ budget \in Budgets /\ p \notin sessions
        /\ SplicePrefixFrom(x, p) /\ Push(p, prompt, budget, n) /\ UNCHANGED <<work, failed>>
    BY <1>3, <2>1, CallKinds, Zenon DEF AdmitSpliced, AdmitCall, Admitting, CoreOnly, Holding
  <2>3. n \in Nat /\ s # p /\ slots'[s] = slots[s] /\ filled'[s] = filled[s]
    BY <2>1, <2>2, SplicedShape
  <2>4. /\ phase'[s] = phase[s] /\ tokens'[s] = tokens[s] /\ remaining'[s] = remaining[s] /\ cap'[s] = cap[s]
    BY <2>2, <2>3, PushShape
  <2>. QED BY <2>2, <2>3, <2>4, SteadyTable, Zenon
<1>4. CASE AdmitRolledBack
  <2>1. PICK p : p = call.session
    BY Zenon
  <2>2. p \in Sessions /\ p \notin sessions /\ Forget(p) /\ UNCHANGED <<recordVars, work, failed>>
    BY <1>4, <2>1, CallKinds, Zenon DEF AdmitRolledBack, CoreOnly, AdmitCall, Admitting, Holding, Discard
  <2>. QED BY <1>0, <2>2, ForgetShape, Zenon
<1>5. ASSUME NEW x \in prefixes, SchedulerRelease(x) PROVE Left
  <2>1. PICK p : p = x.owner
    BY Zenon
  <2>2. p \in Sessions /\ p # s /\ Forget(p) /\ UNCHANGED <<recordVars, work, failed>>
    BY <1>5, <2>1, PoolTypes, Zenon DEF SchedulerRelease, CoreOnly, ReleasePrefix, schedulerVars, Clients, Owners
  <2>. QED BY <2>2, ForgetShape, Zenon
<1>6. ASSUME NEW r \in sessions, EvictSession(r) PROVE Left
  <2>1. EvictBlocks(r, 1 .. Len(slots[r])) /\ r \in Sessions /\ UNCHANGED <<recordVars, work, failed>>
    BY <1>6, Zenon DEF EvictSession, EvictDevice, DriverTypeOK
  <2>2. Len(slots'[r]) = Len(slots[r]) /\ UNCHANGED filled /\ \A q \in Sessions \ {r} : slots'[q] = slots[q]
    BY <2>1, EvictShape, Zenon
  <2>. QED BY <2>1, <2>2, Zenon
<1>7. ASSUME NEW r \in sessions, RestoreSession(r) PROVE Left
  <2>1. PICK h : h = suspended[r]
    BY Zenon
  <2>2. Restore(r, h) /\ h # NoHandle /\ r \in Sessions /\ UNCHANGED <<recordVars, work, failed>>
    BY <1>7, <2>1, Zenon DEF RestoreSession, RestoreDevice, DriverTypeOK
  <2>3. h \in handles /\ h.session = r /\ Current(h)
    BY <2>1, <2>2, Zenon DEF Holding
  <2>4. Len(slots'[r]) = Len(slots[r]) /\ UNCHANGED filled /\ \A q \in Sessions \ {r} : slots'[q] = slots[q]
    BY <2>2, <2>3, RestoreShape, Zenon
  <2>. QED BY <2>2, <2>4, Zenon
<1>8. ASSUME NEW r \in sessions, ReapOne(r) PROVE Steady(s)
  <2>1. /\ Forget(r) /\ UNCHANGED <<phase, work>> /\ r \in Sessions /\ r # s /\ failed' = failed \ {r}
        /\ tokens' = [tokens EXCEPT ![r] = <<>>] /\ remaining' = [remaining EXCEPT ![r] = 0] /\ cap' = [cap EXCEPT ![r] = 0]
    BY <1>8, Zenon DEF ReapOne, Close, Discard, DriverTypeOK
  <2>2. filled'[s] = filled[s] /\ slots'[s] = slots[s]
    BY <2>1, ForgetShape, Zenon
  <2>. QED BY <2>1, <2>2, SteadyTable, Zenon DEF DriverTypeOK
<1>9. CASE BeginReap
  BY <1>0, <1>9, Zenon DEF BeginReap, forwardVars, vars, tableVars
<1>10. CASE SoundRegister
  <2>1. PICK d \in sessions, n \in 0 .. MaxSlots : SchedulerRegister(d, n)
    BY <1>10, Zenon DEF SoundRegister
  <2>2. UNCHANGED <<recordVars, work, failed>> /\ d \in Sessions /\ n \in Nat
    BY <2>1 DEF SchedulerRegister, CoreOnly, schedulerVars, DriverTypeOK
  <2>3. filled'[s] = filled[s] /\ slots'[s] = slots[s]
    <3>1. CASE RegisterPrefix(d, n)
      <4>1. PICK p : p = next_session
        BY Zenon
      <4>2. p \notin opened /\ \A t \in Sessions \ {p} : slots'[t] = slots[t] /\ filled'[t] = filled[t]
        BY <2>2, <3>1, <4>1, Zenon DEF RegistersWhole
      <4>. QED BY <4>2, Zenon DEF Clients
    <3>2. CASE RegisterPrefixRefused(d, n)
      BY <3>2, Zenon DEF RegisterPrefixRefused
    <3>. QED BY <2>1, <3>1, <3>2, Zenon DEF SchedulerRegister
  <2>. QED BY <1>0, <2>2, <2>3, Zenon
<1>. HIDE DEF Left
<1>. QED BY <1>0, <1>1, <1>2, <1>3, <1>4, <1>5, <1>6, <1>7, <1>8, <1>9, <1>10, Zenon DEF HostCall

\* The stages of a quantum but the growth of a step and its return.
LEMMA QuantumSteady ==
  ASSUME Countable(Sessions), ForwardInv, DriverInv, QuantumStep \/ BeginStepCall, ~ForwardGrows, ~ForwardReturns,
         NEW s \in sessions
  PROVE  Steady(s)
<1>. Sound /\ StepInv /\ DriverTypeOK /\ s \in Sessions
  BY DriverFacts, Zenon DEF ForwardInv, PoolInv, DriverInv, DriverTypeOK
<1>1. ASSUME UNCHANGED <<forwardVars, recordVars>> PROVE Steady(s)
  BY <1>1, SteadyTable, Zenon DEF forwardVars, vars, tableVars, recordVars
<1>2. ASSUME NEW chunk, chunk # {}, NEW feed \in [chunk -> Values], BeginStep(feed), UNCHANGED recordVars
      PROVE  Steady(s)
  <2>1. Written(s)' = Written(s) /\ UNCHANGED <<vars, failed>>
    BY <1>2, BeginShape, Zenon
  <2>. QED BY <1>2, <2>1, Zenon DEF Steady, recordVars, vars, tableVars
<1>3. ASSUME NEW r \in sessions, PrefillFeed(r) PROVE Steady(s)
  <2>1. PICK k : k = NextPosition(r)
    BY Zenon
  <2>2. tokens[r][k] \in Values
    BY <1>3, <2>1, PrefillTarget, Zenon
  <2>3. BeginStep([q \in {r} |-> tokens[r][k]]) /\ UNCHANGED recordVars
    BY <1>3, <2>1, Zenon DEF PrefillFeed, NextPosition
  <2>4. [q \in {r} |-> tokens[r][k]] \in [{r} -> Values]
    BY <2>2, Zenon
  <2>. QED BY <1>2, <2>3, <2>4, Zenon
<1>4. ASSUME NEW chunk, DecodeChunk(chunk) PROVE Steady(s)
  <2>1. /\ InQuantum /\ call.part = "decode" /\ Chunk(chunk) /\ Idle
        /\ BeginStep([r \in chunk |-> tokens[r][Len(tokens[r])]]) /\ UNCHANGED recordVars
    BY <1>4, Zenon DEF DecodeChunk, BeginStep
  <2>2. chunk # {} /\ [r \in chunk |-> tokens[r][Len(tokens[r])]] \in [chunk -> Values]
    BY <2>1, DecodeTarget, Zenon
  <2>. QED BY <1>2, <2>1, <2>2, Zenon
<1>5. ASSUME NEW chunk, BatchRefused(chunk) PROVE Steady(s)
  <2>1. FinishError(chunk) /\ UNCHANGED <<forwardVars, tokens, remaining, first, cap>>
    BY <1>5, Zenon DEF BatchRefused
  <2>2. phase'[s] \in {phase[s], "Finished"} /\ UNCHANGED <<work, failed, filled, slots>>
    BY <2>1, Zenon DEF FinishError, forwardVars, vars, tableVars
  <2>. QED BY <2>1, <2>2, Zenon DEF Steady, Written
<1>6. CASE ForwardError
  <2>1. /\ WriteFails \/ \E r \in Sessions : AppendRefused(r) \/ WritableRefused(r) \/ WritableTorn(r)
        /\ FinishError(Stepping) /\ UNCHANGED <<tokens, remaining, first, cap>>
    BY <1>6, Zenon DEF ForwardError
  <2>2. /\ work' = NoWork /\ failed' = failed \cup Stepping
        /\ \A r \in Sessions \ Stepping : slots'[r] = slots[r] /\ filled'[r] = filled[r]
    BY <2>1, ErrorShape, Zenon
  <2>3. filled'[s] = filled[s] /\ Len(slots'[s]) = Len(slots[s])
    <3>1. ASSUME NEW r \in Sessions, WritableTorn(r) PROVE UNCHANGED filled /\ Len(slots'[s]) = Len(slots[s])
      <4>1. CowBreak(r, BlockAt(filled[r]))
        BY <3>1, Zenon DEF WritableTorn, EnsureWritableTorn
      <4>. QED BY <4>1, CowBreakShape, Zenon
    <3>2. ASSUME NEW r \in Sessions, AppendRefused(r) \/ WritableRefused(r) PROVE UNCHANGED <<filled, slots>>
      BY <3>2, Zenon DEF AppendRefused, WritableRefused, vars, tableVars
    <3>3. WriteFails => UNCHANGED <<filled, slots>>
      BY Zenon DEF WriteFails, vars, tableVars
    <3>. QED BY <2>1, <3>1, <3>2, <3>3, Zenon
  <2>4. s \notin failed' => s \notin failed /\ Written(s)' = Written(s)
    <3>1. (\A r \in Sessions : Written(r)' = filled'[r]) /\ (\A r \in Sessions \ Stepping : Written(r) = filled[r])
      BY <2>2, EndShape, Zenon
    <3>. QED BY <2>2, <3>1, Zenon
  <2>5. phase'[s] \in {phase[s], "Finished"}
    BY <2>1, Zenon DEF FinishError
  <2>. QED BY <2>1, <2>3, <2>4, <2>5, Zenon DEF Steady
<1>7. CASE CollectDecodeReady \/ EndQuantum \/ BeginStepCall
  BY <1>1, <1>7, Zenon DEF CollectDecodeReady, EndQuantum, BeginStepCall, BeginQuantum
<1>. QED BY <1>3, <1>4, <1>5, <1>6, <1>7, Zenon DEF QuantumStep

\* Growing the tables of a step feeds one token to the session whose turn it is.
LEMMA GrowthSteady ==
  ASSUME ForwardInv, DriverInv, ForwardGrows, NEW s \in sessions
  PROVE  /\ tokens'[s] = tokens[s] /\ remaining'[s] = remaining[s] /\ cap'[s] = cap[s] /\ phase'[s] = phase[s]
         /\ Written(s)' = Written(s) /\ UNCHANGED failed
         /\ Steady(s) \/ (AppendTokens(s, 1) /\ s \in Stepping)
<1>. Sound /\ s \in Sessions
  BY Zenon DEF ForwardInv, PoolInv, DriverInv, DriverTypeOK
<1>1. PICK r \in Sessions : StepAppend(r) \/ StepWritable(r)
  BY Zenon DEF ForwardGrows
<1>. /\ r \in Stepping /\ Written(s)' = Written(s) /\ UNCHANGED failed
     /\ s # r => slots'[s] = slots[s] /\ filled'[s] = filled[s]
  BY <1>1, GrowShape, Zenon
<1>. /\ tokens'[s] = tokens[s] /\ remaining'[s] = remaining[s] /\ cap'[s] = cap[s] /\ phase'[s] = phase[s]
  BY Zenon DEF ForwardGrows, schedulerVars, recordVars
<1>2. CASE s # r
  BY <1>2, Zenon DEF Steady
<1>3. CASE s = r /\ StepAppend(r)
  BY <1>3, Zenon DEF StepAppend
<1>4. CASE s = r /\ StepWritable(r)
  <2>1. EnsureWritableExclusive(s, BlockAt(filled[s])) \/ CowBreak(s, BlockAt(filled[s]))
    BY <1>4, Zenon DEF StepWritable, EnsureWritableShared
  <2>2. filled'[s] = filled[s] /\ Len(slots'[s]) = Len(slots[s])
    BY <2>1, CowBreakShape, Zenon DEF EnsureWritableExclusive, vars, tableVars
  <2>. QED BY <2>2, Zenon DEF Steady
<1>. QED BY <1>1, <1>2, <1>3, <1>4, Zenon

\* A session that a step admits: its prompt is longer than the prefix it shares,
\* whose blocks are its table.
LEMMA NewSession ==
  ASSUME ForwardInv, DriverInv, SchedulerNext, NEW s \in sessions' \ sessions
  PROVE  /\ s \in Sessions /\ ((AdmitSpliced /\ s = call.session) \/ filled'[s] = 0) /\ UNCHANGED work
         /\ \E prompt \in Prompts, budget \in Budgets, n \in Nat :
              /\ tokens'[s] = prompt /\ remaining'[s] = budget /\ cap'[s] = BlocksFor(Len(prompt) + budget)
              /\ filled'[s] = n * BlockSize /\ Len(slots'[s]) = n /\ n * BlockSize < Len(prompt)
<1>. Sound /\ Ownership /\ DriverTypeOK /\ Holding
  BY Zenon DEF ForwardInv, PoolInv, DriverInv
<1>1. \/ AdmitSpliced
      \/ \E prompt \in Prompts, budget \in Budgets : AddSession(prompt, budget)
  BY Zenon DEF SchedulerNext, HostCall, SoundRegister, BeginStepCall, QuantumStep, AdmitSharing, AdmitRolledBack,
         SchedulerRelease, EvictSession, RestoreSession, ReapOne, BeginReap, SchedulerRegister, BeginQuantum,
         PrefillFeed, CollectDecodeReady, DecodeChunk, BatchRefused, ForwardGrows, ForwardReturns, ForwardError,
         EndQuantum, schedulerVars
<1>. UNCHANGED work
  BY <1>1, Zenon DEF AdmitSpliced, AddSession, CoreOnly
<1>2. ASSUME NEW prompt \in Prompts, NEW budget \in Budgets, AddSession(prompt, budget)
      PROVE  /\ s \in Sessions /\ tokens'[s] = prompt /\ remaining'[s] = budget
             /\ cap'[s] = BlocksFor(Len(prompt) + budget) /\ filled'[s] = 0 /\ slots'[s] = <<>>
  <2>1. PICK p : p = next_session
    BY Zenon
  <2>2. Open /\ Push(p, prompt, budget, 0)
    BY <1>2, <2>1, Zenon DEF AddSession
  <2>3. p \in Sessions /\ slots'[p] = <<>> /\ filled'[p] = 0
    BY <2>1, <2>2, OpenShape, Zenon
  <2>4. /\ sessions' = sessions \cup {p} /\ tokens'[p] = prompt /\ remaining'[p] = budget
        /\ cap'[p] = BlocksFor(Len(prompt) + budget)
    BY <2>2, <2>3, PushShape
  <2>. QED BY <2>3, <2>4, Zenon
<1>3. CASE AdmitSpliced
  <2>1. PICK p, x, prompt, budget, n : /\ p = call.session /\ x = call.prefix /\ prompt = call.prompt
                                       /\ budget = call.budget /\ n = x.blocks
    BY Zenon
  <2>2. /\ p \in Sessions /\ x \in prefixes /\ prompt \in Prompts /\ budget \in Budgets /\ filled[p] = 0
        /\ SplicePrefixFrom(x, p) /\ Push(p, prompt, budget, n * BlockSize) /\ Len(prompt) > n * BlockSize
    BY <1>3, <2>1, CallKinds, Zenon DEF AdmitSpliced, AdmitCall, Admitting, Holding
  <2>3. n \in Nat /\ n * BlockSize \in Nat /\ Len(slots'[p]) = n /\ filled'[p] = n * BlockSize
    BY <2>1, <2>2, SplicedShape, Zenon
  <2>4. /\ sessions' = sessions \cup {p} /\ tokens'[p] = prompt /\ remaining'[p] = budget
        /\ cap'[p] = BlocksFor(Len(prompt) + budget)
    BY <2>2, <2>3, PushShape
  <2>5. s = p /\ n * BlockSize < Len(prompt)
    BY <2>2, <2>3, <2>4, PromptTokens, Zenon
  <2>. QED BY <1>3, <2>1, <2>2, <2>3, <2>4, <2>5, Zenon
<1>4. ASSUME NEW prompt \in Prompts, NEW budget \in Budgets, AddSession(prompt, budget)
      PROVE  filled'[s] = 0 * BlockSize /\ Len(slots'[s]) = 0 /\ 0 * BlockSize < Len(prompt)
  <2>1. 0 * BlockSize = 0
    BY BlockSizeAssumption
  <2>. QED BY <1>2, <1>4, <2>1, PromptTokens, Zenon
<1>. QED BY <1>1, <1>2, <1>3, <1>4, Zenon

-----------------------------------------------------------------------------
(* Capacity. *)

LEMMA BlocksForOrder ==
  ASSUME NEW m \in Nat, NEW n \in Nat
  PROVE  /\ BlocksFor(m) \in Nat
         /\ m <= n => BlocksFor(m) <= BlocksFor(n)
         /\ m <= n * BlockSize => BlocksFor(m) <= n
         /\ BlocksFor(n * BlockSize) = n
<1>0. BlocksFor(0) = 0 /\ BlocksFor(m) \in Nat /\ BlocksFor(n) \in Nat
  BY BlockSizeAssumption DEF BlocksFor
<1>1. m # 0 => BlocksFor(m) = BlockAt(m)
  BY BlockAtIsBlocksFor, Zenon
<1>2. n # 0 => BlocksFor(n) = BlockAt(n)
  BY BlockAtIsBlocksFor, Zenon
<1>3. m # 0 => /\ \A k \in Nat : m <= k * BlockSize => BlockAt(m) <= k
               /\ \A k \in Nat : BlockAt(m) <= k => m <= k * BlockSize
  BY BlockRange, Zenon
<1>4. n # 0 => n <= BlocksFor(n) * BlockSize
  BY <1>0, <1>2, BlockRange
<1>5. m <= n => BlocksFor(m) <= BlocksFor(n)
  <2>1. BlocksFor(n) * BlockSize \in Nat
    BY <1>0, BlockSizeAssumption
  <2>. QED BY <1>0, <1>1, <1>3, <1>4, <2>1
<1>6. m <= n * BlockSize => BlocksFor(m) <= n
  BY <1>0, <1>1, <1>3
<1>7. BlocksFor(n * BlockSize) = n
  <2>1. CASE n = 0
    BY <1>0, <2>1, BlockSizeAssumption
  <2>2. CASE n # 0
    <3>1. n * BlockSize \in Nat \ {0} /\ n - 1 \in Nat /\ (n - 1) * BlockSize < n * BlockSize /\ (n - 1) * BlockSize \in Nat
      BY <2>2, BlockSizeAssumption
    <3>2. PICK t \in Nat \ {0} : t = n * BlockSize
      BY <3>1, Zenon
    <3>3. BlocksFor(t) = BlockAt(t) /\ BlockAt(t) <= n /\ ~(BlockAt(t) <= n - 1)
      BY <3>1, <3>2, BlockAtIsBlocksFor, BlockRange
    <3>4. BlockAt(t) \in Int
      BY BlockSizeAssumption DEF BlockAt
    <3>. QED BY <3>2, <3>3, <3>4
  <2>. QED BY <2>1, <2>2, Zenon
<1>. QED BY <1>0, <1>5, <1>6, <1>7, Zenon

\* A session has the blocks its fill takes and no more, has stored no more than
\* its text, and its capacity covers the text and the tokens it may still
\* generate; one that goes on has a token of its budget left.
Budgeted ==
  \A s \in sessions :
    /\ Len(slots[s]) = BlocksFor(filled[s]) /\ filled[s] <= Len(tokens[s])
    /\ cap[s] = BlocksFor(Len(tokens[s]) + remaining[s])
    /\ phase[s] # "Finished" => remaining[s] > 0

LEMMA CapFromInv ==
  ASSUME ForwardInv, DriverInv, Budgeted
  PROVE  WithinCap
<1>1. ASSUME NEW s \in sessions PROVE Len(slots[s]) <= cap[s]
  <2>1. s \in Sessions /\ filled[s] \in Nat
    BY DriverFacts, Zenon
  <2>2. Len(tokens[s]) \in Nat /\ remaining[s] \in Nat
    BY <2>1, SeqTyped, Zenon DEF DriverInv, DriverTypeOK
  <2>3. filled[s] <= Len(tokens[s]) + remaining[s] /\ Len(tokens[s]) + remaining[s] \in Nat
    BY <2>1, <2>2 DEF Budgeted
  <2>. QED BY <2>1, <2>3, BlocksForOrder, ZenonT(40) DEF Budgeted
<1>. QED BY <1>1, Zenon DEF WithinCap

\* Sampling a token moves it from the budget to the text; a session goes on only
\* with some of its budget left.
LEMMA SampledBudget ==
  ASSUME DriverTypeOK, NEW group \in SUBSET Sessions, NEW picked \in [group -> Values \cup {None}], Sample(picked),
         NEW s \in Sessions, s \in group => remaining[s] > 0
  PROVE  /\ Len(tokens'[s]) + remaining'[s] = Len(tokens[s]) + remaining[s] /\ Len(tokens'[s]) >= Len(tokens[s])
         /\ s \in group /\ phase'[s] # "Finished" => remaining'[s] > 0
         /\ s \notin group => phase'[s] = phase[s] /\ remaining'[s] = remaining[s]
         /\ \A t \in 1 .. Len(tokens[s]) : tokens'[s][t] = tokens[s][t]
<1>. /\ DOMAIN picked = group /\ tokens[s] \in Seq(Values) /\ remaining[s] \in Nat /\ Len(tokens[s]) \in Nat
  BY SeqTyped, Zenon DEF DriverTypeOK
<1>. /\ tokens'[s] = IF s \in group /\ picked[s] # None THEN Append(tokens[s], picked[s]) ELSE tokens[s]
     /\ remaining'[s] = IF s \in group /\ picked[s] # None THEN Saturating(remaining[s] - 1) ELSE remaining[s]
     /\ phase'[s] = IF s \notin group THEN phase[s]
                    ELSE IF picked[s] \in Eos \cup {None} \/ remaining'[s] = 0 THEN "Finished" ELSE "Decode"
  BY Zenon DEF Sample
<1>1. CASE s \in group /\ picked[s] # None
  <2>1. picked[s] \in Values /\ tokens'[s] = Append(tokens[s], picked[s])
    BY <1>1, Zenon
  <2>2. Len(tokens'[s]) = Len(tokens[s]) + 1
    BY <2>1
  <2>3. \A t \in 1 .. Len(tokens[s]) : tokens'[s][t] = tokens[s][t]
    BY <2>1
  <2>4. remaining'[s] = remaining[s] - 1
    BY <1>1 DEF Saturating
  <2>5. phase'[s] # "Finished" => remaining'[s] # 0
    BY <1>1, Zenon
  <2>6. PICK a \in Nat, b \in Nat : a = Len(tokens[s]) /\ b = remaining[s] /\ b > 0
    BY <1>1, Zenon
  <2>7. (a + 1) + (b - 1) = a + b /\ a + 1 >= a /\ (b - 1 # 0 => b - 1 > 0)
    BY <2>6
  <2>. QED BY <1>1, <2>2, <2>3, <2>4, <2>5, <2>6, <2>7, ZenonT(40)
<1>2. CASE ~(s \in group /\ picked[s] # None)
  BY <1>2
<1>. QED BY <1>1, <1>2, Zenon

LEMMA BudgetedStep ==
  ASSUME Countable(Sessions), RegistersWhole, ForwardInv, ForwardInv', DriverInv, DriverInv', Budgeted,
         [SchedulerNext]_allVars
  PROVE  Budgeted'
<1>. DEFINE Good(s) == /\ Len(slots[s]) = BlocksFor(filled[s]) /\ filled[s] <= Len(tokens[s])
                       /\ cap[s] = BlocksFor(Len(tokens[s]) + remaining[s])
                       /\ phase[s] # "Finished" => remaining[s] > 0
<1>. /\ DriverTypeOK /\ sessions \subseteq Sessions /\ \A s \in sessions : Good(s)
  BY Zenon DEF DriverInv, DriverTypeOK, Budgeted
<1>1. ASSUME NEW s \in sessions, Steady(s) PROVE Good(s)'
  BY <1>1, ZenonT(40) DEF Steady
<1>2. ASSUME NEW s \in sessions, ForwardGrows PROVE Good(s)'
  <2>1. /\ tokens'[s] = tokens[s] /\ remaining'[s] = remaining[s] /\ cap'[s] = cap[s] /\ phase'[s] = phase[s]
        /\ Written(s)' = Written(s)
    BY <1>2, GrowthSteady, Zenon
  <2>2. Steady(s) \/ (AppendTokens(s, 1) /\ s \in Stepping)
    BY <1>2, GrowthSteady, Zenon
  <2>3. CASE AppendTokens(s, 1) /\ s \in Stepping
    <3>. Sound /\ FillFitsBlocks /\ s \in Sessions /\ filled[s] \in Nat /\ Len(slots[s]) \in Nat
      BY DriverFacts, PoolTypes, SeqTyped, Zenon DEF ForwardInv, PoolInv
    <3>1. /\ filled'[s] = filled[s] + 1
          /\ slots' = slots \/ (Len(slots'[s]) = Len(slots[s]) + 1 /\ BlockAt(filled[s] + 1) = Len(slots[s]) + 1)
      BY <2>3, AppendOneShape, Zenon
    <3>2. BlocksFor(filled'[s]) <= Len(slots'[s])
      <4>1. filled'[s] <= Len(slots'[s]) * BlockSize
        BY Zenon DEF ForwardInv, PoolInv, FillFitsBlocks
      <4>2. filled'[s] \in Nat /\ Len(slots'[s]) \in Nat
        BY <3>1
      <4>. QED BY <4>1, <4>2, BlocksForOrder, Zenon
    <3>3. Len(slots'[s]) <= BlocksFor(filled'[s])
      <4>1. filled[s] + 1 \in Nat \ {0} /\ BlocksFor(filled[s]) <= BlocksFor(filled[s] + 1)
        BY BlocksForOrder
      <4>2. BlocksFor(filled[s] + 1) = BlockAt(filled[s] + 1)
        BY <4>1, BlockAtIsBlocksFor, Zenon
      <4>. QED BY <3>1, <4>1, <4>2
    <3>4. filled'[s] <= Len(tokens'[s])
      <4>1. phase'[s] # "Finished" /\ s \in sessions'
        BY <1>2, <2>1, <2>3, DriverFacts, ZenonT(40) DEF ForwardGrows, schedulerVars
      <4>2. filled'[s] \in Nat /\ Len(tokens'[s]) \in Nat /\ (filled'[s] - 1 \in Int)
        BY <3>1, SeqTyped DEF DriverInv, DriverTypeOK
      <4>3. phase'[s] \in {"Prefill", "Decode"} /\ Fed'
        BY <4>1, Zenon DEF DriverInv, DriverTypeOK
      <4>4. Written(s)' < Len(tokens'[s]) /\ Written(s)' \in {filled'[s], filled'[s] - 1}
        <5>1. Written(s)' \in {filled'[s], filled'[s] - 1}
          BY Zenon DEF Written
        <5>. QED BY <4>1, <4>2, <4>3, <5>1 DEF Fed
      <4>. QED BY <4>2, <4>4
    <3>5. Len(slots'[s]) = BlocksFor(filled'[s])
      <4>1. BlocksFor(filled'[s]) \in Nat /\ Len(slots'[s]) \in Nat
        BY <3>1, BlocksForOrder
      <4>. QED BY <3>2, <3>3, <4>1
    <3>. QED BY <2>1, <3>4, <3>5, Zenon
  <2>. QED BY <1>1, <2>2, <2>3, ZenonT(40)
<1>3. ASSUME NEW s \in sessions, ForwardReturns PROVE Good(s)'
  <2>. UNCHANGED <<filled, slots, cap>> /\ s \in Sessions
    BY <1>3, StepDone, Zenon DEF ForwardReturns, recordVars
  <2>1. CASE UNCHANGED recordVars
    BY <2>1, Zenon DEF recordVars
  <2>2. ASSUME NEW picked \in [Stepping -> Values \cup {None}], Sample(picked) PROVE Good(s)'
    <3>1. Stepping \in SUBSET Sessions /\ (s \in Stepping => remaining[s] > 0)
      BY <1>3, DriverFacts, Zenon DEF ForwardReturns
    <3>2. /\ Len(tokens'[s]) + remaining'[s] = Len(tokens[s]) + remaining[s] /\ Len(tokens'[s]) >= Len(tokens[s])
          /\ s \in Stepping /\ phase'[s] # "Finished" => remaining'[s] > 0
          /\ s \notin Stepping => phase'[s] = phase[s] /\ remaining'[s] = remaining[s]
      BY <2>2, <3>1, SampledBudget, ZenonT(40)
    <3>3. filled'[s] <= Len(tokens'[s])
      <4>1. filled[s] \in Nat /\ Len(tokens[s]) \in Nat /\ Len(tokens'[s]) \in Nat
        BY DriverFacts, SeqTyped, ZenonT(40) DEF DriverTypeOK, DriverInv
      <4>. QED BY <3>2, <4>1
    <3>. QED BY <3>2, <3>3, Zenon
  <2>. QED BY <1>3, <2>1, <2>2, Zenon DEF ForwardReturns
<1>4. ASSUME SchedulerNext, NEW s \in sessions' \ sessions PROVE Good(s)'
  <2>1. PICK prompt \in Prompts, budget \in Budgets, n \in Nat :
              /\ tokens'[s] = prompt /\ remaining'[s] = budget /\ cap'[s] = BlocksFor(Len(prompt) + budget)
              /\ filled'[s] = n * BlockSize /\ Len(slots'[s]) = n /\ n * BlockSize < Len(prompt)
    BY <1>4, NewSession, Zenon
  <2>2. BlocksFor(n * BlockSize) = n
    BY BlocksForOrder, ZenonT(40)
  <2>3. n * BlockSize \in Nat /\ Len(prompt) \in Nat /\ budget > 0
    BY PromptTokens, BlockSizeAssumption
  <2>. QED BY <2>1, <2>2, <2>3
<1>5. ASSUME SchedulerNext, ~ForwardGrows, ~ForwardReturns, NEW s \in sessions, s \in sessions' PROVE Steady(s)
  BY <1>5, HostSteady, QuantumSteady, Zenon DEF SchedulerNext
<1>6. CASE UNCHANGED allVars
  BY <1>6, Zenon DEF allVars, forwardVars, vars, tableVars, schedulerVars, recordVars, Budgeted
<1>7. CASE SchedulerNext
  <2>1. ASSUME NEW s \in sessions' PROVE Good(s)'
    BY <1>1, <1>2, <1>3, <1>4, <1>5, <1>7, ZenonT(40)
  <2>. QED BY <2>1, ZenonT(40) DEF Budgeted
<1>. QED BY <1>6, <1>7, Zenon

-----------------------------------------------------------------------------
(* Text. *)

\* Attention reads each session's own text, and the prefix an admission is about
\* to splice is the beginning of its prompt.
TextInv == KvMatchesText /\ (call.kind = "admit" => Shares(call.prefix, call.prompt))

LEMMA SampledText ==
  ASSUME DriverTypeOK, NEW group \in SUBSET Sessions, NEW picked \in [group -> Values \cup {None}], Sample(picked),
         NEW s \in Sessions
  PROVE  Len(tokens[s]) \in Nat /\ Len(tokens'[s]) \in Nat /\ Len(tokens[s]) <= Len(tokens'[s])
         /\ \A t \in 1 .. Len(tokens[s]) : tokens'[s][t] = tokens[s][t]
<1>. DOMAIN picked = group /\ tokens[s] \in Seq(Values) /\ Len(tokens[s]) \in Nat
  BY SeqTyped, Zenon DEF DriverTypeOK
<1>1. tokens'[s] = IF s \in group /\ picked[s] # None THEN Append(tokens[s], picked[s]) ELSE tokens[s]
  BY Zenon DEF Sample
<1>2. CASE s \in group /\ picked[s] # None
  <2>1. picked[s] \in Values /\ tokens'[s] = Append(tokens[s], picked[s])
    BY <1>1, <1>2, Zenon
  <2>. QED BY <2>1
<1>. QED BY <1>1, <1>2

\* A session whose stored positions stay, and whose text goes on from what it was.
LEMMA TextKept ==
  ASSUME StoredKept, NEW s \in Reliable, s \in Reliable', Written(s)' = Written(s),
         \A t \in 1 .. Written(s) : t <= Len(tokens[s]) /\ ValueAt(s, t) = tokens[s][t],
         \A t \in 1 .. Len(tokens[s]) : t <= Len(tokens'[s]) /\ tokens'[s][t] = tokens[s][t],
         Len(tokens[s]) \in Nat, Written(s) \in Nat
  PROVE  \A t \in 1 .. Written(s)' : t <= Len(tokens'[s]) /\ ValueAt(s, t)' = tokens'[s][t]
<1>1. ASSUME NEW t \in 1 .. Written(s) PROVE t <= Len(tokens'[s]) /\ ValueAt(s, t)' = tokens'[s][t]
  <2>1. t \in 1 .. Len(tokens[s]) /\ ValueAt(s, t)' = ValueAt(s, t) /\ ValueAt(s, t) = tokens[s][t]
    BY DEF StoredKept
  <2>. QED BY <2>1, Zenon
<1>. QED BY <1>1, Zenon

\* The rows of a step are the next tokens of the texts it feeds.
LEMMA ReturnedText ==
  ASSUME Stored, ForwardInv, DriverInv, KvMatchesText, ForwardReturns, NEW s \in sessions, s \notin failed,
         s \in Reliable, s \in Reliable'
  PROVE  \A t \in 1 .. Written(s)' : t <= Len(tokens'[s]) /\ ValueAt(s, t)' = tokens'[s][t]
<1>. DriverTypeOK /\ Fed /\ s \in Sessions /\ Len(tokens[s]) \in Nat /\ Written(s) \in Nat /\ StepWrite
  BY DriverFacts, SeqTyped, Zenon DEF DriverInv, DriverTypeOK, ForwardReturns
<1>1. /\ Written(s)' = filled[s] /\ (s \notin Stepping => Written(s) = filled[s])
      /\ s \in Stepping => filled[s] = Written(s) + 1
  BY StepDone, Zenon
<1>2. \A t \in 1 .. Written(s) : t <= Len(tokens[s]) /\ ValueAt(s, t) = tokens[s][t]
  BY Zenon DEF KvMatchesText
<1>3. \A t \in 1 .. Len(tokens[s]) : t <= Len(tokens'[s]) /\ tokens'[s][t] = tokens[s][t]
  <2>1. CASE UNCHANGED recordVars
    BY <2>1 DEF recordVars
  <2>2. ASSUME NEW picked \in [Stepping -> Values \cup {None}], Sample(picked)
        PROVE  \A t \in 1 .. Len(tokens[s]) : t <= Len(tokens'[s]) /\ tokens'[s][t] = tokens[s][t]
    <3>1. Stepping \in SUBSET Sessions
      BY DriverFacts, Zenon
    <3>2. Len(tokens'[s]) \in Nat /\ Len(tokens[s]) <= Len(tokens'[s]) /\ \A t \in 1 .. Len(tokens[s]) : tokens'[s][t] = tokens[s][t]
      BY <2>2, <3>1, SampledText, Zenon
    <3>. QED BY <3>2
  <2>. QED BY <2>1, <2>2, Zenon DEF ForwardReturns
<1>4. CASE s \notin Stepping
  BY <1>1, <1>2, <1>3, <1>4, TextKept, Zenon DEF Stored
<1>5. CASE s \in Stepping
  <2>1. work.feed[s] = tokens[s][Written(s) + 1] /\ phase[s] \in {"Prefill", "Decode"}
    BY <1>5, DriverFacts DEF Fed, DriverTypeOK
  <2>2. Written(s) + 1 <= Len(tokens[s])
    BY <2>1 DEF Fed
  <2>3. ASSUME NEW t \in 1 .. filled[s] PROVE t \in 1 .. Len(tokens[s]) /\ ValueAt(s, t)' = tokens[s][t]
    <3>1. ValueAt(s, t)' = IF t = filled[s] THEN work.feed[s] ELSE ValueAt(s, t)
      BY <1>5, Zenon DEF Stored, RowsLand
    <3>2. t \in 1 .. Len(tokens[s]) /\ (t # filled[s] => t \in 1 .. Written(s))
      BY <1>1, <1>5, <2>2
    <3>. QED BY <1>1, <1>2, <1>5, <2>1, <3>1, <3>2, Zenon
  <2>. QED BY <1>1, <1>3, <2>3, ZenonT(40)
<1>. QED BY <1>4, <1>5, Zenon

\* A prefix that hosts share is the beginning of the prompt it is spliced under.
LEMMA SplicedText ==
  ASSUME Stored, ForwardInv, DriverInv, TextInv, AdmitSpliced, NEW s, s = call.session
  PROVE  \A t \in 1 .. Written(s)' : t <= Len(tokens'[s]) /\ ValueAt(s, t)' = tokens'[s][t]
<1>. Sound /\ Ownership /\ DriverTypeOK /\ Holding
  BY Zenon DEF ForwardInv, PoolInv, DriverInv
<1>1. PICK x, prompt, budget, n : /\ x = call.prefix /\ prompt = call.prompt
                                  /\ budget = call.budget /\ n = x.blocks * BlockSize
  BY Zenon
<1>2. /\ s \in Sessions /\ x \in prefixes /\ prompt \in Prompts /\ budget \in Budgets /\ filled[s] = 0
      /\ SplicePrefixFrom(x, s) /\ Push(s, prompt, budget, n) /\ Len(prompt) > n /\ CoreOnly /\ Shares(x, prompt)
  BY <1>1, CallKinds, Zenon DEF AdmitSpliced, AdmitCall, Admitting, Holding, TextInv
<1>3. n \in Nat /\ filled'[s] = n /\ filled[x.owner] = n
  BY <1>1, <1>2, SplicedShape, ZenonT(40) DEF Ownership, PrefixWhole
<1>4. tokens'[s] = prompt
  BY <1>2, <1>3, PushShape, Zenon
<1>5. Idle /\ s \in Reliable /\ Written(s)' = filled'[s]
  <2>1. Idle /\ s \in Usable
    BY CallKinds, DriverFacts, ZenonT(40) DEF AdmitSpliced
  <2>2. Idle'
    BY <1>2, <2>1, ZenonT(40) DEF CoreOnly, Idle
  <2>. QED BY <1>2, <2>1, <2>2, StepAssumption, ZenonT(40) DEF Written, Idle, NoWork, Usable, Clients, Reliable
<1>6. ASSUME NEW t \in 1 .. n PROVE t <= Len(prompt) /\ ValueAt(s, t)' = prompt[t]
  <2>1. Len(prompt) \in Nat
    BY <1>2, PromptTokens, Zenon
  <2>2. t \in 1 .. Least(filled[x.owner], Len(prompt)) /\ t <= Len(prompt)
    BY <1>2, <1>3, <2>1 DEF Least
  <2>3. ValueAt(s, t)' = ValueAt(x.owner, t)
    BY <1>2, <1>3, <1>5, Zenon DEF Stored, PrefixReads
  <2>. QED BY <1>2, <2>2, <2>3, ZenonT(40) DEF Shares
<1>. QED BY <1>3, <1>4, <1>5, <1>6, Zenon

\* Nothing comes between a host's choice of a prefix and its splice.
LEMMA SharesKept ==
  ASSUME ForwardInv, DriverInv, SchedulerNext, call'.kind = "admit"
  PROVE  Shares(call.prefix, call.prompt)'
<1>. DriverTypeOK
  BY Zenon DEF DriverInv
<1>1. ASSUME NEW x \in prefixes, NEW prompt \in Prompts, NEW budget \in Budgets,
             Shares(x, prompt), AdmitSharing(x, prompt, budget)
      PROVE  Shares(call.prefix, call.prompt)'
  <2>1. /\ call'.prefix = x /\ call'.prompt = prompt
        /\ UNCHANGED <<slots, filled, handles, cells, saved>>
    BY <1>1, Zenon DEF AdmitSharing, CoreOnly, Open, MintSession, deviceVars
  <2>2. \A t \in 1 .. Least(filled[x.owner], Len(prompt)) : ValueAt(x.owner, t)' = prompt[t]
    <3>1. \A s, i : Resident(s, i)' <=> Resident(s, i)
      BY <2>1, Zenon DEF Resident
    <3>2. \A s, i : RowsOf(s, i)' = RowsOf(s, i)
      BY <2>1, <3>1 DEF RowsOf
    <3>3. \A s, t : ValueAt(s, t)' = ValueAt(s, t)
      BY <3>2, ZenonT(40) DEF ValueAt
    <3>. QED BY <1>1, <3>3, Zenon DEF Shares
  <2>. QED BY <2>1, <2>2, Zenon DEF Shares
<1>2. HostCall => \E prompt \in Prompts, budget \in Budgets, x \in prefixes :
                   Shares(x, prompt) /\ AdmitSharing(x, prompt, budget)
  BY CallKinds DEF HostCall, AddSession, AdmitSpliced, AdmitRolledBack, SchedulerRelease, EvictSession, RestoreSession,
                   ReapOne, BeginReap, schedulerVars, NoCall
<1>3. ~SoundRegister
  BY CallKinds, Zenon DEF SoundRegister, SchedulerRegister, schedulerVars
<1>4. ~BeginStepCall
  BY DEF BeginStepCall, BeginQuantum
<1>5. ~QuantumStep
  <2>1. ForwardGrows \/ ForwardReturns \/ ForwardError => Stepping # {}
    <3>1. \A s \in Sessions : work.current = s \/ s \in work.grow \/ s \in work.grown => s \in Stepping
      BY StepFacts, Zenon DEF ForwardInv, PoolInv
    <3>2. work.grown \subseteq Sessions
      BY Zenon DEF ForwardInv, StepInv
    <3>. QED BY <3>1, <3>2, Zenon DEF ForwardGrows, StepAppend, StepWritable, ForwardReturns, StepWrite, Grown, ForwardError,
                               WriteFails, AppendRefused, WritableRefused, WritableTorn
  <2>2. QuantumStep => InQuantum
    BY <2>1, DriverFacts, Zenon DEF QuantumStep, PrefillFeed, CollectDecodeReady, DecodeChunk, BatchRefused, EndQuantum
  <2>3. SUFFICES ASSUME QuantumStep, InQuantum, call \in QuantumCall PROVE call'.kind # "admit"
    BY <2>2, CallKinds, Zenon
  <2>4. ASSUME NEW s, PrefillFeed(s) PROVE call'.kind # "admit"
    BY <2>3, <2>4, Zenon DEF PrefillFeed, InQuantum, QuantumCall
  <2>5. ASSUME NEW chunk, DecodeChunk(chunk) \/ BatchRefused(chunk) PROVE call'.kind # "admit"
    BY <2>3, <2>5, Zenon DEF DecodeChunk, BatchRefused, InQuantum, QuantumCall
  <2>6. CollectDecodeReady => call'.kind # "admit"
    BY <2>3, Zenon DEF CollectDecodeReady, InQuantum, QuantumCall
  <2>8. EndQuantum => call'.kind # "admit"
    BY DEF EndQuantum, NoCall
  <2>7. CASE ForwardGrows \/ ForwardReturns \/ ForwardError
    BY <2>3, <2>7, Zenon DEF ForwardGrows, ForwardReturns, ForwardError, schedulerVars, InQuantum, QuantumCall
  <2>. QED BY <2>3, <2>4, <2>5, <2>6, <2>7, <2>8, Zenon DEF QuantumStep
<1>. QED BY <1>1, <1>2, <1>3, <1>4, <1>5, Zenon DEF SchedulerNext

LEMMA TextStep ==
  ASSUME Countable(Sessions), RegistersWhole, Stored, ForwardInv, ForwardInv', DriverInv, DriverInv', TextInv,
         SchedulerNext
  PROVE  TextInv'
<1>. DEFINE Reads(s) == \A t \in 1 .. Written(s) : t <= Len(tokens[s]) /\ ValueAt(s, t) = tokens[s][t]
<1>. /\ DriverTypeOK /\ sessions \subseteq Sessions /\ \A s \in sessions \ failed : Reads(s)
  BY Zenon DEF DriverInv, DriverTypeOK, TextInv, KvMatchesText
<1>. /\ \A s \in sessions \ failed : s \in Reliable
     /\ \A s \in sessions' \ failed' : s \in Reliable' /\ s \in Sessions
  BY ZenonT(40) DEF DriverInv, DriverTypeOK, Holding, Clients, Reliable
<1>1. ASSUME NEW s \in sessions \ failed, s \in sessions' \ failed', Written(s)' = Written(s), tokens'[s] = tokens[s]
      PROVE  Reads(s)'
  <2>1. Len(tokens[s]) \in Nat /\ Written(s) \in Nat
    BY DriverFacts, SeqTyped, Zenon DEF DriverTypeOK
  <2>. QED BY <1>1, <2>1, TextKept DEF Stored
<1>2. ASSUME NEW s \in sessions, s \in sessions' \ failed' PROVE Reads(s)'
  <2>1. CASE ForwardReturns
    <3>1. s \notin failed
      BY <1>2, <2>1, StepDone, Zenon DEF ForwardReturns
    <3>. QED BY <1>2, <2>1, <3>1, ReturnedText, Zenon DEF TextInv
  <2>2. CASE ForwardGrows
    BY <1>1, <1>2, <2>2, GrowthSteady, Zenon
  <2>3. CASE ~ForwardGrows /\ ~ForwardReturns
    <3>1. Steady(s)
      BY <1>2, <2>3, HostSteady, QuantumSteady, ZenonT(40) DEF SchedulerNext
    <3>. QED BY <1>1, <1>2, <3>1, ZenonT(40) DEF Steady
  <2>. QED BY <2>1, <2>2, <2>3, ZenonT(40)
<1>3. ASSUME NEW s \in sessions' \ sessions, s \notin failed' PROVE Reads(s)'
  <2>1. (AdmitSpliced /\ s = call.session) \/ filled'[s] = 0
    BY <1>3, NewSession, Zenon
  <2>2. CASE filled'[s] = 0
    <3>1. s \in Sessions /\ Written(s)' <= 0 /\ Written(s)' \in Int
      BY <1>3, <2>2 DEF Written
    <3>. QED BY <3>1
  <2>. QED BY <2>1, <2>2, SplicedText, Zenon
<1>4. call'.kind = "admit" => Shares(call.prefix, call.prompt)'
  BY SharesKept, Zenon
<1>. QED BY <1>2, <1>3, <1>4, Zenon DEF TextInv, KvMatchesText

-----------------------------------------------------------------------------
(* The frontier block. *)

\* The blocks that a session has not filled are its own, and nothing is indexed.
TailOwn == \A s \in sessions : \A i \in 1 .. Len(slots[s]) : Resident(s, i) /\ Written(s) < i * BlockSize => Alone(s, i)
NothingCached == \A p \in Blocks : cached_by_block[p] = None
FrontierInv == TailOwn /\ NothingCached

\* How slot j of r comes by its block in a step: it had it; it takes it from the
\* free list, alone; or it shares a block that its holder, if a session, has
\* filled, as a full block of its own if it is one.
Stays(r, j) == j \in 1 .. Len(slots[r]) /\ slots'[r][j] = slots[r][j]
Takes(r, j) ==
  /\ slots'[r][j] \in free
  /\ \A q \in Sessions : \A k \in 1 .. Len(slots'[q]) : slots'[q][k] = slots'[r][j] => q = r /\ k = j
Joins(r, j) ==
  /\ \E d \in Sessions : \E k \in 1 .. Len(slots[d]) :
       /\ slots'[r][j] = slots[d][k]
       /\ d \in sessions => ~(Written(d) < k * BlockSize)
  /\ r \in sessions' => ~(Written(r)' < j * BlockSize)
TablesMove ==
  \A r \in Sessions : \A j \in 1 .. Len(slots'[r]) :
    slots'[r][j] \in Blocks => Stays(r, j) \/ Takes(r, j) \/ Joins(r, j)

LEMMA TailStep ==
  ASSUME Sound, TailOwn, TablesMove, sessions' \subseteq Sessions,
         \A s \in Sessions : Written(s) \in Int /\ Written(s)' \in Int,
         \A s \in sessions' : \/ s \in sessions /\ Written(s) <= Written(s)'
                              \/ \A i \in 1 .. Len(slots'[s]) : ~(Written(s)' < i * BlockSize)
  PROVE  TailOwn'
<1>1. SUFFICES ASSUME NEW s \in sessions', NEW i \in 1 .. Len(slots'[s]), slots'[s][i] \in Blocks,
                      Written(s)' < i * BlockSize,
                      NEW r \in Sessions, NEW j \in 1 .. Len(slots'[r]), slots'[r][j] = slots'[s][i]
               PROVE  r = s /\ j = i
  BY Zenon DEF TailOwn, Alone, Resident
<1>2. s \in sessions /\ Written(s) <= Written(s)' /\ s \in Sessions /\ ~Joins(s, i)
  BY <1>1, Zenon DEF Joins
<1>3. CASE Takes(s, i)
  BY <1>1, <1>3, Zenon DEF Takes
<1>4. CASE Stays(s, i)
  <2>1. i \in 1 .. Len(slots[s]) /\ slots'[s][i] = slots[s][i] /\ Resident(s, i)
    BY <1>1, <1>4, Zenon DEF Stays, Resident
  <2>2. i * BlockSize \in Int
    BY <1>1, BlockSizeAssumption
  <2>3. Written(s) < i * BlockSize
    BY <1>1, <1>2, <2>2
  <2>4. Alone(s, i)
    BY <1>2, <2>1, <2>3, ZenonT(40) DEF TailOwn
  <2>5. ~Takes(r, j)
    BY <1>1, <1>2, <2>1, FreeUnnamed, Zenon DEF Takes
  <2>6. ~Joins(r, j)
    BY <1>1, <1>2, <2>1, <2>3, <2>4, Zenon DEF Joins, Alone
  <2>7. Stays(r, j)
    BY <1>1, <2>5, <2>6, ZenonT(40) DEF TablesMove
  <2>. QED BY <1>1, <2>1, <2>4, <2>7, Zenon DEF Stays, Alone
<1>. QED BY <1>1, <1>2, <1>3, <1>4, Zenon DEF TablesMove

\* One session gives up blocks, or takes blocks off the free list.
LEMMA TablesChange ==
  ASSUME Sound, NEW s \in Sessions, NEW taken,
         \A r \in Sessions \ {s} : slots'[r] = slots[r],
         \A j \in 1 .. Len(slots'[s]) : slots'[s][j] \in Blocks =>
           \/ j \in taken /\ slots'[s][j] \in free
           \/ j \in 1 .. Len(slots[s]) /\ slots'[s][j] = slots[s][j],
         \A i, j \in taken : slots'[s][i] = slots'[s][j] => i = j
  PROVE  TablesMove
<1>1. SUFFICES ASSUME NEW r \in Sessions, NEW j \in 1 .. Len(slots'[r]), slots'[r][j] \in Blocks
               PROVE  Stays(r, j) \/ Takes(r, j)
  BY ZenonT(40) DEF TablesMove
<1>2. CASE r # s
  BY <1>1, <1>2, ZenonT(40) DEF Stays
<1>3. CASE r = s /\ j \in taken /\ slots'[s][j] \in free
  <2>1. ASSUME NEW q \in Sessions, NEW k \in 1 .. Len(slots'[q]), slots'[q][k] = slots'[s][j] PROVE q = s /\ k = j
    <3>1. \A d \in Sessions : \A i \in 1 .. Len(slots[d]) : slots[d][i] # slots'[s][j]
      BY <1>3, FreeUnnamed, ZenonT(40)
    <3>2. slots'[q][k] \in Blocks
      BY <1>1, <1>3, <2>1, Zenon
    <3>. QED BY <1>3, <2>1, <3>1, <3>2
  <2>. QED BY <1>3, <2>1, ZenonT(40) DEF Takes
<1>. QED BY <1>1, <1>2, <1>3, ZenonT(40) DEF Stays

LEMMA TablesStay ==
  ASSUME UNCHANGED slots
  PROVE  TablesMove
BY Zenon DEF TablesMove, Stays

\* An empty table that takes the first n blocks of another.
LEMMA SharedTable ==
  ASSUME Sound, NEW d \in Sessions, NEW s \in Sessions, NEW n \in Nat, NEW from \in Nat, Share(d, s, from, n)
  PROVE  from = 0 /\ slots[s] = <<>> =>
           /\ n <= Len(slots[d]) /\ \A r \in Sessions \ {s} : slots'[r] = slots[r]
           /\ Len(slots'[s]) = n /\ \A k \in 1 .. n : slots'[s][k] = slots[d][k]
<1>1. n <= Len(slots[d]) /\ \A r \in Sessions \ {s} : slots'[r] = slots[r]
  BY ShareShape, Zenon
<1>2. Len(slots'[s]) = Len(slots[s]) + (n - from)
  BY ShareLength
<1>3. \A k \in 1 .. n - from : slots'[s][Len(slots[s]) + k] = slots[d][from + k]
  BY ShareEntries
<1>. QED BY <1>1, <1>2, <1>3

\* A table of nothing but blocks of a prefix, or of the donor of a prefix.
LEMMA TablesShare ==
  ASSUME Sound, NEW d \in Sessions, NEW s \in Sessions, NEW n \in Nat, NEW from \in Nat, from = 0, Share(d, s, from, n),
         slots[s] = <<>>,
         d \in sessions => n * BlockSize <= Written(d) /\ Written(d) \in Nat,
         s \in sessions' => n * BlockSize <= Written(s)' /\ Written(s)' \in Nat
  PROVE  TablesMove
<1>1. /\ n <= Len(slots[d]) /\ \A r \in Sessions \ {s} : slots'[r] = slots[r]
      /\ Len(slots'[s]) = n /\ \A k \in 1 .. n : slots'[s][k] = slots[d][k]
  BY SharedTable, Zenon
<1>2. ASSUME NEW k \in 1 .. n PROVE k * BlockSize \in Nat /\ k * BlockSize <= n * BlockSize
  BY BlockSizeAssumption
<1>3. ASSUME NEW k \in 1 .. n PROVE Joins(s, k)
  <2>1. k \in 1 .. Len(slots[d])
    BY <1>1, PoolTypes, SeqTyped
  <2>2. PICK kb, nb : kb = k * BlockSize /\ nb = n * BlockSize /\ kb \in Nat /\ nb \in Nat /\ kb <= nb
    BY <1>2, BlockSizeAssumption
  <2>3. d \in sessions => ~(Written(d) < kb)
    BY <2>2
  <2>4. s \in sessions' => ~(Written(s)' < kb)
    BY <2>2
  <2>. QED BY <1>1, <2>1, <2>2, <2>3, <2>4, Zenon DEF Joins
<1>. QED BY <1>1, <1>3, Zenon DEF TablesMove, Stays

LEMMA HostTables ==
  ASSUME ForwardInv, DriverInv, DriverInv', HostCall \/ SoundRegister
  PROVE  TablesMove
<1>. Sound /\ Ownership /\ DriverTypeOK /\ Holding /\ sessions \subseteq Sessions
  BY Zenon DEF ForwardInv, PoolInv, DriverInv, DriverTypeOK
<1>1. ASSUME NEW s \in Sessions, Forget(s) PROVE TablesMove
  <2>1. \A r \in Sessions \ {s} : slots'[r] = slots[r]
    BY <1>1, ForgetShape, Zenon
  <2>2. slots'[s] = <<>>
    BY <1>1, ForgetShape, ZenonT(40)
  <2>3. \A j \in 1 .. Len(slots'[s]) : FALSE
    BY <2>2
  <2>4. \A i, j \in {} : slots'[s][i] = slots'[s][j] => i = j
    BY Zenon
  <2>. QED BY <2>1, <2>3, <2>4, TablesChange, Zenon
<1>2. ASSUME NEW prompt, NEW budget, AddSession(prompt, budget) PROVE TablesMove
  BY <1>2, TablesStay, Zenon DEF AddSession, Open
<1>3. ASSUME NEW x, NEW prompt, NEW budget, AdmitSharing(x, prompt, budget) PROVE TablesMove
  BY <1>3, TablesStay, ZenonT(40) DEF AdmitSharing, Open
<1>4. CASE AdmitSpliced
  <2>1. PICK s, x, n, from : s = call.session /\ x = call.prefix /\ n = x.blocks /\ from = 0
    BY Zenon
  <2>2. /\ s \in Sessions /\ x \in prefixes /\ SplicePrefixFrom(x, s) /\ filled[s] = 0 /\ UNCHANGED work /\ Idle
    BY <1>4, <2>1, CallKinds, DriverFacts, ZenonT(40) DEF AdmitSpliced, AdmitCall, Admitting, CoreOnly, Holding
  <2>3. x.owner \in Sessions /\ x.owner \notin sessions /\ n \in Nat
    BY <2>1, <2>2, PoolTypes, DriverFacts, ZenonT(40) DEF Clients, Owners
  <2>4. Share(x.owner, s, from, n) /\ slots[s] = <<>> /\ from \in Nat /\ from = 0
    BY <2>1, <2>2, Zenon DEF SplicePrefixFrom, SplicePrefix
  <2>5. filled'[s] = n * BlockSize /\ n * BlockSize \in Nat
    BY <2>1, <2>2, SplicedShape, Zenon
  <2>6. Written(s)' = filled'[s]
    BY <2>2, StepAssumption, Zenon DEF Written, Idle, NoWork
  <2>. QED BY <2>2, <2>3, <2>4, <2>5, <2>6, TablesShare
<1>5. CASE AdmitRolledBack
  BY <1>1, <1>5, CallKinds, Zenon DEF AdmitRolledBack, AdmitCall, Discard
<1>6. ASSUME NEW x \in prefixes, SchedulerRelease(x) PROVE TablesMove
  BY <1>1, <1>6, PoolTypes, Zenon DEF SchedulerRelease, ReleasePrefix
<1>7. ASSUME NEW s \in sessions, EvictSession(s) PROVE TablesMove
  <2>1. PICK new \in handles' :
          /\ \A i \in new.gone : slots'[s][i] = Externalized
          /\ \A i \in 1 .. Len(slots[s]) : i \notin new.gone => slots'[s][i] = slots[s][i]
          /\ Len(slots'[s]) = Len(slots[s])
          /\ \A r \in Sessions \ {s} : slots'[r] = slots[r]
    BY <1>7, EvictShape DEF EvictSession, EvictDevice
  <2>2. PICK taken : taken = {}
    BY Zenon
  <2>3. \A j \in 1 .. Len(slots'[s]) : slots'[s][j] \in Blocks =>
          \/ j \in taken /\ slots'[s][j] \in free
          \/ j \in 1 .. Len(slots[s]) /\ slots'[s][j] = slots[s][j]
    BY <2>1, BlocksAssumption, Zenon
  <2>4. \A i, j \in taken : slots'[s][i] = slots'[s][j] => i = j
    BY <2>2, Zenon
  <2>. QED BY <2>1, <2>3, <2>4, TablesChange, ZenonT(40)
<1>8. ASSUME NEW s \in sessions, RestoreSession(s) PROVE TablesMove
  <2>1. PICK h : h = suspended[s]
    BY Zenon
  <2>2. h \in handles /\ h.session = s /\ Current(h) /\ Restore(s, h)
    BY <1>8, <2>1, ZenonT(40) DEF Holding, RestoreSession, RestoreDevice
  <2>3. /\ \A r \in Sessions \ {s} : slots'[r] = slots[r]
        /\ Len(slots'[s]) = Len(slots[s])
        /\ \A i \in h.gone : slots'[s][i] \in free
        /\ \A i \in 1 .. Len(slots[s]) : i \notin h.gone => slots'[s][i] = slots[s][i]
        /\ \A i, j \in h.gone : slots'[s][i] = slots'[s][j] => i = j
    BY <2>2, RestoreShape, Zenon
  <2>. QED BY <2>3, TablesChange, ZenonT(40)
<1>9. ASSUME NEW s \in sessions, ReapOne(s) PROVE TablesMove
  BY <1>1, <1>9, Zenon DEF ReapOne, Close, Discard
<1>10. CASE BeginReap
  BY <1>10, TablesStay, Zenon DEF BeginReap, forwardVars, vars, tableVars
<1>11. CASE SoundRegister
  <2>1. PICK d \in sessions \ failed, n \in 0 .. MaxSlots : SchedulerRegister(d, n)
    BY <1>11, Zenon DEF SoundRegister
  <2>2. CASE RegisterPrefix(d, n)
    <3>1. PICK s, from : s = next_session /\ from = 0
      BY Zenon
    <3>2. Share(d, s, from, n) /\ from \in Nat /\ from = 0 /\ n * BlockSize <= filled[d] /\ sessions' = sessions /\ n \in Nat
      BY <2>1, <2>2, <3>1 DEF RegisterPrefix, FullPrefix, SchedulerRegister, schedulerVars
    <3>3. s \in Sessions /\ s \notin opened /\ slots[s] = <<>>
      <4>1. s \in Sessions
        BY <2>2, <3>1, PoolTypes, BoundsAssumption DEF RegisterPrefix, MintSession, Sessions
      <4>2. s \notin opened
        BY <3>1, PoolTypes DEF Ownership
      <4>. QED BY <4>1, <4>2, Zenon DEF Ownership
    <3>4. s \notin sessions /\ d \in Sessions
      BY <3>3, DriverFacts, ZenonT(40) DEF Clients
    <3>5. Written(d) = filled[d] /\ filled[d] \in Nat
      BY <2>1, <3>4, CallKinds, DriverFacts, Zenon DEF SchedulerRegister
    <3>. QED BY <3>2, <3>3, <3>4, <3>5, TablesShare, Zenon
  <2>3. CASE RegisterPrefixRefused(d, n)
    BY <2>3, TablesStay, Zenon DEF RegisterPrefixRefused
  <2>. QED BY <2>1, <2>2, <2>3, Zenon DEF SchedulerRegister
<1>. QED BY <1>2, <1>3, <1>4, <1>5, <1>6, <1>7, <1>8, <1>9, <1>10, <1>11, Zenon DEF HostCall

LEMMA QuantumTables ==
  ASSUME ForwardInv, DriverInv, QuantumStep \/ BeginStepCall
  PROVE  TablesMove
<1>. Sound /\ FillFitsBlocks /\ StepInv
  BY Zenon DEF ForwardInv, PoolInv
<1>1. ASSUME NEW s \in Sessions, NEW i, CowBreak(s, i) PROVE TablesMove
  <2>1. /\ slots'[s][i] \in free /\ Len(slots'[s]) = Len(slots[s])
        /\ \A j \in 1 .. Len(slots[s]) : j # i => slots'[s][j] = slots[s][j]
        /\ \A r \in Sessions \ {s} : slots'[r] = slots[r]
    BY <1>1, CowBreakShape, ZenonT(40)
  <2>2. PICK taken : taken = {i}
    BY Zenon
  <2>3. \A j \in 1 .. Len(slots'[s]) : \/ j \in taken /\ slots'[s][j] \in free
                                       \/ j \in 1 .. Len(slots[s]) /\ slots'[s][j] = slots[s][j]
    BY <2>1, <2>2, Zenon
  <2>4. \A j, k \in taken : j = k
    BY <2>2, Zenon
  <2>. QED BY <2>1, <2>3, <2>4, TablesChange, Zenon
<1>2. ASSUME NEW s \in Sessions, StepAppend(s) PROVE TablesMove
  <2>1. AppendTokens(s, 1)
    BY <1>2, Zenon DEF StepAppend
  <2>2. /\ \A r \in Sessions \ {s} : slots'[r] = slots[r]
        /\ \A j \in 1 .. Len(slots[s]) : slots'[s][j] = slots[s][j]
        /\ \/ slots' = slots
           \/ Len(slots'[s]) = Len(slots[s]) + 1 /\ slots'[s][Len(slots[s]) + 1] \in free
    BY <2>1, AppendOneShape, ZenonT(40)
  <2>3. CASE Len(slots'[s]) = Len(slots[s]) + 1 /\ slots'[s][Len(slots[s]) + 1] \in free
    <3>1. PICK n \in Nat : n = Len(slots[s])
      BY PoolTypes, SeqTyped, Zenon
    <3>2. PICK taken : taken = {n + 1}
      BY ZenonT(40)
    <3>3. \A j \in 1 .. Len(slots'[s]) : j \in taken \/ j \in 1 .. Len(slots[s])
      BY <2>3, <3>1, <3>2
    <3>4. \A j \in taken : slots'[s][j] \in free
      BY <2>3, <3>1, <3>2, Zenon
    <3>5. \A i, j \in taken : i = j
      BY <3>2, Zenon
    <3>. QED BY <2>2, <3>3, <3>4, <3>5, TablesChange, ZenonT(40)
  <2>. QED BY <2>2, <2>3, TablesStay, ZenonT(40)
<1>3. ASSUME NEW s \in Sessions, StepWritable(s) PROVE TablesMove
  BY <1>1, <1>3, TablesStay, Zenon DEF StepWritable, EnsureWritableExclusive, EnsureWritableShared, vars, tableVars
<1>4. CASE ForwardError
  BY <1>1, <1>4, TablesStay, ZenonT(40) DEF ForwardError, WriteFails, AppendRefused, WritableRefused, WritableTorn, EnsureWritableTorn,
                                vars, tableVars
<1>5. CASE ForwardReturns
  BY <1>5, TablesStay, Zenon DEF ForwardReturns, StepWrite, vars, tableVars
<1>6. ASSUME NEW s, PrefillFeed(s) PROVE TablesMove
  BY <1>6, TablesStay, Zenon DEF PrefillFeed, BeginStep, vars, tableVars
<1>7. ASSUME NEW chunk, DecodeChunk(chunk) \/ BatchRefused(chunk) PROVE TablesMove
  BY <1>7, TablesStay, Zenon DEF DecodeChunk, BatchRefused, BeginStep, forwardVars, vars, tableVars
<1>8. CASE CollectDecodeReady \/ EndQuantum \/ BeginStepCall
  BY <1>8, TablesStay, Zenon DEF CollectDecodeReady, EndQuantum, BeginStepCall, BeginQuantum, forwardVars, vars, tableVars
<1>. QED BY <1>2, <1>3, <1>4, <1>5, <1>6, <1>7, <1>8, Zenon DEF QuantumStep, ForwardGrows

\* What a session has stored does not shrink.
LEMMA WrittenGrows ==
  ASSUME Countable(Sessions), RegistersWhole, ForwardInv, ForwardInv', DriverInv, DriverInv', SchedulerNext,
         NEW s \in sessions, s \in sessions'
  PROVE  Written(s) <= Written(s)'
<1>0. filled' \in [Sessions -> Nat] /\ s \in Sessions
  BY Zenon DEF ForwardInv, PoolInv, Sound, Counting, Memory, DriverInv, DriverTypeOK
<1>. filled[s] \in Nat /\ Written(s) \in Nat /\ Written(s)' \in Int /\ filled'[s] \in Nat
  BY <1>0, DriverFacts DEF Written
<1>1. Written(s) <= filled[s]
  BY DEF Written
<1>2. CASE ForwardReturns
  BY <1>0, <1>1, <1>2, StepDone, Zenon DEF ForwardReturns
<1>3. CASE ForwardGrows
  BY <1>3, GrowthSteady
<1>4. CASE ~ForwardGrows /\ ~ForwardReturns
  <2>1. Steady(s)
    BY <1>4, HostSteady, QuantumSteady, ZenonT(40) DEF SchedulerNext
  <2>2. CASE s \in failed'
    <3>1. StepInv'
      BY Zenon DEF ForwardInv
    <3>2. Stepping' \subseteq Usable' /\ Stepping' = work'.grow \cup work'.grown \cup ({work'.current} \ {None})
      BY <3>1, Zenon DEF StepInv
    <3>3. s # work'.current /\ s \notin work'.grown
      BY <1>0, <2>2, <3>2, StepAssumption, Zenon DEF Usable
    <3>. QED BY <1>1, <2>1, <3>3, ZenonT(40) DEF Steady, Written
  <2>. QED BY <2>1, <2>2 DEF Steady
<1>. QED BY <1>2, <1>3, <1>4, Zenon

LEMMA NewTable ==
  ASSUME ForwardInv, DriverInv, SchedulerNext, NEW s \in sessions' \ sessions, NEW i \in 1 .. Len(slots'[s])
  PROVE  ~(Written(s)' < i * BlockSize)
<1>1. PICK n \in Nat : filled'[s] = n * BlockSize /\ Len(slots'[s]) = n
  BY NewSession, Zenon
<1>2. s \in Sessions /\ UNCHANGED work
  BY NewSession, Zenon
<1>3. s # work.current /\ s \notin work.grown
  BY <1>2, StepFacts, DriverFacts, Zenon DEF ForwardInv, PoolInv
<1>4. Written(s)' = n * BlockSize
  BY <1>1, <1>2, <1>3, ZenonT(40) DEF Written
<1>5. i \in Int /\ i <= n /\ n \in Int
  BY <1>1
<1>6. i * BlockSize <= n * BlockSize /\ i * BlockSize \in Int /\ n * BlockSize \in Int
  BY <1>5, BlocksOrdered, Zenon
<1>. QED BY <1>4, <1>6

LEMMA TailInvStep ==
  ASSUME Countable(Sessions), RegistersWhole, ForwardInv, ForwardInv', DriverInv, DriverInv', TailOwn, SchedulerNext
  PROVE  TailOwn'
<1>1. TablesMove
  BY HostTables, QuantumTables, Zenon DEF SchedulerNext
<1>2. Sound /\ sessions' \subseteq Sessions
  BY Zenon DEF ForwardInv, PoolInv, DriverInv, DriverTypeOK
<1>3. \A s \in Sessions : Written(s) \in Int /\ Written(s)' \in Int
  <2>1. filled \in [Sessions -> Nat] /\ filled' \in [Sessions -> Nat]
    BY Zenon DEF ForwardInv, PoolInv, Sound, Counting, Memory
  <2>. QED BY <2>1 DEF Written
<1>4. ASSUME NEW s \in sessions' PROVE \/ s \in sessions /\ Written(s) <= Written(s)'
                                       \/ \A i \in 1 .. Len(slots'[s]) : ~(Written(s)' < i * BlockSize)
  BY WrittenGrows, NewTable, Zenon
<1>. QED BY <1>1, <1>2, <1>3, <1>4, TailStep, Zenon

\* The block a step is about to write: resident, since its session is not suspended,
\* and named by no other slot.
LEMMA FrontierFromInv ==
  ASSUME AloneCounted, LogicalInv, DriverInv, FrontierInv
  PROVE  FrontierExclusive
<1>1. SUFFICES ASSUME NEW s \in Sessions, work.current = s
               PROVE  refcount[slots[s][BlockAt(filled[s])]] = 1
  BY Zenon DEF FrontierExclusive
<1>. /\ ForwardInv /\ Sound /\ StepInv /\ HandleInv /\ FillFitsBlocks /\ slots[s] \in Seq(Slot) /\ Len(slots[s]) \in Nat
  BY PoolTypes, SeqTyped, Zenon DEF LogicalInv, ForwardInv, PoolInv
<1>2. s \in Stepping /\ filled[s] > 0 /\ filled[s] \in Nat /\ Written(s) = filled[s] - 1
  BY <1>1, StepFacts, PoolTypes, ZenonT(40) DEF Written
<1>3. s \in sessions /\ s \in Reliable /\ \A h \in handles : h.session # s
  BY <1>2, DriverFacts, ZenonT(40)
<1>4. /\ BlockAt(filled[s]) \in 1 .. Len(slots[s])
      /\ filled[s] <= BlockAt(filled[s]) * BlockSize /\ BlockAt(filled[s]) * BlockSize \in Int
  <2>1. PICK t, n : t = filled[s] /\ n = Len(slots[s]) /\ t \in Nat \ {0} /\ n \in Nat /\ t <= n * BlockSize
    BY <1>2 DEF FillFitsBlocks
  <2>2. BlockAt(t) \in Nat \ {0} /\ BlockAt(t) <= n
    BY <2>1, BlockRange, PositionSplit, Zenon
  <2>3. t <= BlockAt(t) * BlockSize
    BY <2>1, <2>2, BlockRange
  <2>4. BlockAt(t) * BlockSize \in Int
    BY <2>2, BlocksOrdered
  <2>. QED BY <2>1, <2>2, <2>3, <2>4
<1>5. PICK i : i = BlockAt(filled[s])
  BY Zenon
<1>6. Resident(s, i)
  <2>1. slots[s][i] # Externalized
    BY <1>3, <1>4, <1>5, ZenonT(40) DEF HandleInv
  <2>2. slots[s][i] \in Slot
    BY <1>4, <1>5
  <2>. QED BY <1>4, <1>5, <2>1, <2>2, Zenon DEF Resident, Slot
<1>7. Alone(s, i)
  BY <1>2, <1>3, <1>4, <1>5, <1>6 DEF FrontierInv, TailOwn
<1>8. cached_by_block[slots[s][i]] = None
  BY <1>6, Zenon DEF FrontierInv, NothingCached, Resident
<1>. QED BY <1>1, <1>4, <1>5, <1>6, <1>7, <1>8, ZenonT(40) DEF AloneCounted

-----------------------------------------------------------------------------
(* At the start, and when nothing happens. *)

LEMMA TextInit ==
  ASSUME SchedulerInit
  PROVE  Budgeted /\ TextInv /\ FrontierInv
<1>1. sessions = {} /\ call = NoCall
  BY Zenon DEF SchedulerInit
<1>2. NothingCached
  BY Zenon DEF SchedulerInit, ForwardInit, DeviceInit, Init, NothingCached
<1>. QED BY <1>1, <1>2, Zenon DEF Budgeted, TextInv, KvMatchesText, NoCall, FrontierInv, TailOwn

LEMMA TextStutter ==
  ASSUME UNCHANGED allVars
  PROVE  (TextInv => TextInv') /\ (TailOwn => TailOwn')
<1>. UNCHANGED <<slots, filled, handles, cells, saved, work, failed, sessions, tokens, call>>
  BY Zenon DEF allVars, forwardVars, vars, tableVars, deviceVars, schedulerVars, recordVars
<1>1. TextInv => TextInv'
  <2>1. \A s, i : RowsOf(s, i)' = RowsOf(s, i)
    BY DEF RowsOf, Resident
  <2>2. \A s, u : ValueAt(s, u)' = ValueAt(s, u)
    BY <2>1, ZenonT(40) DEF ValueAt
  <2>3. \A s : Written(s)' = Written(s)
    BY Zenon DEF Written
  <2>. QED BY <2>2, <2>3, ZenonT(40) DEF TextInv, KvMatchesText, Shares
<1>2. TailOwn => TailOwn'
  BY DEF TailOwn, Alone, Written, Resident
<1>. QED BY <1>1, <1>2, Zenon
=============================================================================
