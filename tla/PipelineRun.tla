------------------------------- MODULE PipelineRun -------------------------------
(* A caller that runs a schedule of PipelineSchedule.  Transfers between the   *)
(* stages are the caller's: it either keeps time, all stages doing their step  *)
(* of one time at once, or keeps only the order, each stage doing its next     *)
(* step as soon as what it needs has arrived.                                  *)
EXTENDS PipelineSchedule, FiniteSets

CONSTANTS MaxStages,        \* bound on the number of stages
          MaxMicrobatches,  \* bound on the number of micro-batches
          TimedKinds,       \* the schedules run by their times
          OrderedKinds      \* the schedules run by their order

ASSUME PipelineAssumption == MaxStages \in Nat \ {0} /\ MaxMicrobatches \in Nat \ {0}

VARIABLES config,  \* the PipelineConfig, the schedule's kind and how it is run
          pos,     \* per stage, the steps it has done
          passes   \* the passes done so far, by stage

pipeVars == <<config, pos, passes>>

sched == build_schedule(config.kind, config.s, config.m)
Stages == 0..config.s - 1
total_steps == IF config.kind = GPipe THEN 2 * PhaseLen(config.s, config.m) ELSE 2 * config.m + config.s - 1

Configs ==
  {[s |-> s, m |-> m, kind |-> k, timed |-> b] :
     s \in 1..MaxStages, m \in 1..MaxMicrobatches, k \in TimedKinds \cup OrderedKinds, b \in BOOLEAN}

PipeInit ==
  /\ config \in {c \in Configs : c.kind \in IF c.timed THEN TimedKinds ELSE OrderedKinds}
  /\ pos = [stage \in Stages |-> 0]
  /\ passes = {}

\* The steps of the given stages at their positions.
StepsOf(which) == {<<stage, sched[stage][pos[stage]]>> : stage \in which}

PassesIn(steps) == {p \in steps : p[2].op # "Idle"}

\* A stage takes part in a time step whether its inputs are there or not.
Tick ==
  /\ config.timed
  /\ \A stage \in Stages : pos[stage] < total_steps
  /\ passes' = passes \cup PassesIn(StepsOf(Stages))
  /\ pos' = [stage \in Stages |-> pos[stage] + 1]
  /\ UNCHANGED config

Ready(stage) == Needs(config.s, stage, sched[stage][pos[stage]]) \subseteq passes

StageStep(stage) ==
  /\ ~config.timed
  /\ pos[stage] < total_steps
  /\ Ready(stage)
  /\ passes' = passes \cup PassesIn(StepsOf({stage}))
  /\ pos' = [pos EXCEPT ![stage] = @ + 1]
  /\ UNCHANGED config

PipeNext == Tick \/ \E stage \in Stages : StageStep(stage)

PipeSpec == PipeInit /\ [][PipeNext]_pipeVars

--------------------------------------------------------------------------------

AllPasses ==
  {<<stage, pass>> : stage \in Stages,
                     pass \in {Forward(mb) : mb \in 0..config.m - 1} \cup {Backward(mb) : mb \in 0..config.m - 1}}

\* Stages that keep time never do a pass before what it needs was produced at
\* an earlier time: build_gpipe's forward wave and its backward wave.
TimesRespectData ==
  [][Tick => \A stage \in Stages : Needs(config.s, stage, sched[stage][pos[stage]]) \subseteq passes]_pipeVars

\* The micro-batches whose activations a stage holds.
InFlight(stage) ==
  {mb \in 0..config.m - 1 : <<stage, Forward(mb)>> \in passes /\ <<stage, Backward(mb)>> \notin passes}

\* The point of build_1f1b's warm-up: whatever the other stages' pace, a stage
\* holds the activations of at most as many micro-batches as there are stages
\* from it to the last.
InFlightBounded ==
  config.kind = OneForwardOneBackward =>
    \A stage \in Stages : Cardinality(InFlight(stage)) <= config.s - stage
=================================================================================
