---------------------------- MODULE PipelineSchedule ----------------------------
(* The micro-batch schedules of fuel-parallel/src/pipeline_parallel.rs.  A     *)
(* model is cut into s consecutive stages, a mini-batch into m micro-batches;  *)
(* a schedule says which pass over which micro-batch each stage does at each   *)
(* time step.  Stages, micro-batches and times count from 0 as in the code.    *)
EXTENDS Integers

Forward(mb)  == [op |-> "Forward", microbatch |-> mb]
Backward(mb) == [op |-> "Backward", microbatch |-> mb]
Idle         == [op |-> "Idle", microbatch |-> 0]

GPipe == "GPipe"
OneForwardOneBackward == "OneForwardOneBackward"

PhaseLen(s, m) == s + m - 1

\* Mutant: a gradient phase that starts while the last stage is still forwarding.
gpipe_step_EarlyBackward(s, m, stage, t) ==
  LET fwd == t - stage
      bwd == t - (PhaseLen(s, m) - 1) - (s - 1 - stage)
  IN  IF t < PhaseLen(s, m) - 1
      THEN IF fwd \in 0..m-1 THEN Forward(fwd) ELSE Idle
      ELSE IF bwd \in 0..m-1 THEN Backward(m - 1 - bwd) ELSE Idle

\* One step of build_gpipe: all forwards, each stage one step behind the one
\* before it, then all backwards from the last micro-batch and the last stage.
gpipe_step(s, m, stage, t) ==
  LET fwd == t - stage
      bwd == t - PhaseLen(s, m) - (s - 1 - stage)
  IN  IF t < PhaseLen(s, m)
      THEN IF fwd \in 0..m-1 THEN Forward(fwd) ELSE Idle
      ELSE IF bwd \in 0..m-1 THEN Backward(m - 1 - bwd) ELSE Idle

build_gpipe(s, m) ==
  [stage \in 0..s-1 |-> [t \in 0..2 * PhaseLen(s, m) - 1 |-> gpipe_step(s, m, stage, t)]]

\* Mutant: one forward too many before the first backward.
warmup_OneMore(s, m, stage) == IF s - stage < m THEN s - stage ELSE m

\* The forwards a stage does before it alternates.
warmup(s, m, stage) == IF s - 1 - stage < m THEN s - 1 - stage ELSE m

\* Mutant: the steady state begins with the backward.
one_f1b_pass_BackwardFirst(s, m, stage, k) ==
  LET w == warmup(s, m, stage)
  IN  CASE k < w           -> Forward(k)
        [] k >= 2 * m - w  -> Backward(k - m)
        [] OTHER           -> IF (k - w) % 2 = 1
                              THEN Forward(w + (k - w) \div 2)
                              ELSE Backward((k - w) \div 2)

\* The k-th pass of a stage in build_1f1b: warm-up forwards, then a forward
\* and a backward in turn, then the backwards that are left.
one_f1b_pass(s, m, stage, k) ==
  LET w == warmup(s, m, stage)
  IN  CASE k < w           -> Forward(k)
        [] k >= 2 * m - w  -> Backward(k - m)
        [] OTHER           -> IF (k - w) % 2 = 0
                              THEN Forward(w + (k - w) \div 2)
                              ELSE Backward((k - w) \div 2)

\* Stage i starts at time i and does its 2m passes without a pause; every
\* stage is padded to the length of the last one.
build_1f1b(s, m) ==
  [stage \in 0..s-1 |->
     [t \in 0..2 * m + s - 2 |->
        IF t \in stage..stage + 2 * m - 1 THEN one_f1b_pass(s, m, stage, t - stage) ELSE Idle]]

build_schedule(kind, s, m) == IF kind = GPipe THEN build_gpipe(s, m) ELSE build_1f1b(s, m)

\* What a pass needs from other passes: a forward the activations of the stage
\* before it, a backward its own activations and the gradient of the stage
\* behind it.  A pass is identified by its stage and its step.
Needs(s, stage, step) ==
  CASE step.op = "Forward"  -> {<<p, Forward(step.microbatch)>> : p \in {stage - 1} \cap 0..s-1}
    [] step.op = "Backward" -> {<<stage, Forward(step.microbatch)>>}
                               \cup {<<p, Backward(step.microbatch)>> : p \in {stage + 1} \cap 0..s-1}
    [] OTHER                -> {}
=============================================================================
