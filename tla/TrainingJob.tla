------------------------------ MODULE TrainingJob ------------------------------
(* A training job over fuel-training's TrainingLoop and Checkpoint, fuel-nn's  *)
(* Var, VarMap and plain Sgd.  The script that drives them is external: in a   *)
(* loop it builds a loss on the next batch, steps, may evaluate, may save, and *)
(* after a crash resumes from load_latest.  A parameter's value is the         *)
(* sequence of updates it has had; a graph is the sequence of its nodes, a     *)
(* node id a position in it.                                                   *)
EXTENDS Integers, Sequences, FiniteSetsExt

CONSTANTS NVars,       \* the parameters of the optimizer are 1..NVars
          LossGraphs,  \* graphs a loss is built on: sequences of parameters, 0 for other nodes
          EvalGraphs,  \* graphs the script evaluates without stepping
          Layouts,     \* how the script saves: save to one directory, or save_named
          MaxSteps, MaxCrashes, MaxFailures, MaxEvals

ASSUME TrainingAssumption ==
  /\ NVars \in Nat \ {0} /\ MaxSteps \in Nat \ {0}
  /\ MaxCrashes \in Nat /\ MaxFailures \in Nat /\ MaxEvals \in Nat

VARIABLES script,       \* how this script is written: its layout, whether it has a scheduler
          data,         \* Var.data
          last_node,    \* Var.last_node, 0 for None
          lr,           \* the optimizer's learning rate: the step it was scheduled for
          global_step,  \* TrainingLoop.global_step
          phase,        \* where the script is
          disk,         \* the checkpoint directories
          saved,        \* the highest step whose save returned Ok
          starts,       \* history: the steps at which a process of the job began
          spent         \* crashes, write errors and evaluations so far

processVars == <<data, last_node, lr, global_step>>
trainVars == <<script, starts, processVars, phase, disk, saved, spent>>

Vars  == 1..NVars
ConfigLr == -1                      \* the rate the optimizer was built with
Base  == 0                          \* the base directory; step k's is k
Dirs  == 0..MaxSteps
Absent == [st |-> "absent"]
Torn   == [st |-> "torn"]           \* a proper prefix of the file
Whole(x) == [st |-> "whole", val |-> x]
EmptyDir == [weights |-> Absent, meta |-> Absent]

Initial == [v \in Vars |-> <<>>]
NoNode == [v \in Vars |-> 0]

TrainInit ==
  /\ script \in [layout : Layouts, scheduled : BOOLEAN]
  /\ data = Initial
  /\ last_node = NoNode
  /\ lr = ConfigLr
  /\ global_step = 0
  /\ phase = "ready"
  /\ disk = [d \in Dirs |-> EmptyDir]
  /\ saved = 0
  /\ starts = {0}
  /\ spent = [crashes |-> 0, failures |-> 0, evals |-> 0]

Spend(what, bound) ==
  /\ spent[what] < bound
  /\ spent' = [spent EXCEPT ![what] = @ + 1]

--------------------------------------------------------------------------------

\* Var::tensor, once per splice of the graph: the last one's id is recorded.
LastSplice(g, v) == Max({0} \cup {i \in DOMAIN g : g[i] = v})

tensor(g) == [v \in Vars |-> IF LastSplice(g, v) = 0 THEN last_node[v] ELSE LastSplice(g, v)]

EvalPass(g) ==
  /\ phase = "ready"
  /\ Spend("evals", MaxEvals)
  /\ last_node' = tensor(g)
  /\ UNCHANGED <<script, starts, data, lr, global_step, phase, disk, saved>>

\* The parameters whose recorded id is a node of the loss's graph.
harvest_grads(g, nodes) == {v \in Vars : nodes[v] \in DOMAIN g}

\* Sgd::step: the parameters with a gradient are spliced again, behind the
\* gradient nodes, and get their update; the others are left alone.
StepNode(g, v) == 2 * Len(g) + v

sgd_step(g, nodes) ==
  [v \in Vars |->
     IF v \in harvest_grads(g, nodes)
     THEN Append(data[v], [batch |-> global_step, of |-> g[nodes[v]], lr |-> lr])
     ELSE data[v]]

\* The schedule's rate for a step, known by the step.
lr_at(step) == step

\* Mutant: the schedule is asked for the step after the increment.
TrainStep_NextRate(g) ==
  LET nodes == tensor(g)
  IN  /\ phase = "ready"
      /\ global_step < MaxSteps
      /\ data' = sgd_step(g, nodes)
      /\ last_node' = [v \in Vars |-> IF v \in harvest_grads(g, nodes) THEN StepNode(g, v) ELSE nodes[v]]
      /\ lr' = IF script.scheduled THEN lr_at(global_step + 1) ELSE lr
      /\ global_step' = global_step + 1
      /\ UNCHANGED <<script, starts, phase, disk, saved, spent>>

\* TrainingLoop::step on a loss over the next batch.
TrainStep(g) ==
  LET nodes == tensor(g)
  IN  /\ phase = "ready"
      /\ global_step < MaxSteps
      /\ data' = sgd_step(g, nodes)
      /\ last_node' = [v \in Vars |-> IF v \in harvest_grads(g, nodes) THEN StepNode(g, v) ELSE nodes[v]]
      /\ lr' = IF script.scheduled THEN lr_at(global_step) ELSE lr
      /\ global_step' = global_step + 1
      /\ UNCHANGED <<script, starts, phase, disk, saved, spent>>

--------------------------------------------------------------------------------

SaveDir == IF script.layout = "direct" THEN Base ELSE global_step

\* The four moments of Checkpoint::save: a file is open and cut short until
\* its write ends.  The script saves a step once.
SaveOpenWeights ==
  /\ phase = "ready"
  /\ global_step > saved
  /\ disk' = [disk EXCEPT ![SaveDir].weights = Torn]
  /\ phase' = "weights"
  /\ UNCHANGED <<script, starts, processVars, saved, spent>>

\* Mutant: the writer is not waited for.
SaveWeights_NotFlushed ==
  /\ phase = "weights"
  /\ disk' = disk
  /\ phase' = "saved_weights"
  /\ UNCHANGED <<script, starts, processVars, saved, spent>>

SaveWeights ==
  /\ phase = "weights"
  /\ disk' = [disk EXCEPT ![SaveDir].weights = Whole(data)]
  /\ phase' = "saved_weights"
  /\ UNCHANGED <<script, starts, processVars, saved, spent>>

SaveOpenMeta ==
  /\ phase = "saved_weights"
  /\ disk' = [disk EXCEPT ![SaveDir].meta = Torn]
  /\ phase' = "meta"
  /\ UNCHANGED <<script, starts, processVars, saved, spent>>

SaveMeta ==
  /\ phase = "meta"
  /\ disk' = [disk EXCEPT ![SaveDir].meta = Whole(global_step)]
  /\ phase' = "ready"
  /\ saved' = global_step
  /\ UNCHANGED <<script, starts, processVars, spent>>

Saving == {"weights", "saved_weights", "meta"}

\* A write fails: save returns Err, what it has written stays.
SaveFails ==
  /\ phase \in Saving
  /\ Spend("failures", MaxFailures)
  /\ phase' = "ready"
  /\ UNCHANGED <<script, starts, processVars, disk, saved>>

Crash ==
  /\ phase \in {"ready"} \cup Saving
  /\ Spend("crashes", MaxCrashes)
  /\ data' = Initial
  /\ last_node' = NoNode
  /\ lr' = ConfigLr
  /\ global_step' = 0
  /\ phase' = "down"
  /\ UNCHANGED <<script, starts, disk, saved>>

--------------------------------------------------------------------------------

\* The directories load_latest reads: the base directory alone if it has
\* metadata, else every directory that has.
Scanned ==
  IF disk[Base].meta # Absent THEN {Base} ELSE {d \in Dirs : disk[d].meta # Absent}

\* load_latest fails on any metadata it cannot parse.
Unreadable == \E d \in Scanned : disk[d].meta = Torn

\* Mutant: the comparison of the steps the wrong way round.
load_latest_Lowest(step) ==
  /\ ~Unreadable
  /\ \E d \in Scanned : disk[d].meta.val = step
  /\ \A d \in Scanned : disk[d].meta.val >= step

\* load_latest takes the highest step.
load_latest(step) ==
  /\ ~Unreadable
  /\ \E d \in Scanned : disk[d].meta.val = step
  /\ \A d \in Scanned : disk[d].meta.val <= step

\* Mutant: the base directory, where load_latest was told to look.
LoadDir_Base(step) == Base

\* The directory the script loads for the step it was told.
LoadDir(step) == IF script.layout = "direct" THEN Base ELSE step

\* VarMap::load goes through: a file cut short does not deserialize.
Loadable(d) == disk[d].weights.st = "whole"

\* Mutant: set_global_step to the step after the saved one.
Resume_NextStep ==
  /\ phase = "down"
  /\ \E step \in 0..MaxSteps :
       /\ load_latest(step)
       /\ Loadable(LoadDir(step))
       /\ data' = disk[LoadDir(step)].weights.val
       /\ global_step' = step + 1
       /\ starts' = starts \cup {step + 1}
  /\ phase' = "ready"
  /\ UNCHANGED <<script, last_node, lr, disk, saved, spent>>

\* Checkpoint::load, then set_global_step, in a new process with a new
\* optimizer.
Resume ==
  /\ phase = "down"
  /\ \E step \in 0..MaxSteps :
       /\ load_latest(step)
       /\ Loadable(LoadDir(step))
       /\ data' = disk[LoadDir(step)].weights.val
       /\ global_step' = step
       /\ starts' = starts \cup {step}
  /\ phase' = "ready"
  /\ UNCHANGED <<script, last_node, lr, disk, saved, spent>>

\* An Err of load_latest or of load ends the job.
ResumeFails ==
  /\ phase = "down"
  /\ \/ Unreadable
     \/ \E step \in 0..MaxSteps :
          load_latest(step) /\ ~Loadable(LoadDir(step))
  /\ phase' = "failed"
  /\ UNCHANGED <<script, starts, processVars, disk, saved, spent>>

\* With no checkpoint on disk the job starts over.
StartOver ==
  /\ phase = "down"
  /\ Scanned = {}
  /\ starts' = starts \cup {0}
  /\ phase' = "ready"
  /\ UNCHANGED <<script, processVars, disk, saved, spent>>

TrainNext ==
  \/ \E g \in EvalGraphs : EvalPass(g)
  \/ \E g \in LossGraphs : TrainStep(g)
  \/ SaveOpenWeights \/ SaveWeights \/ SaveOpenMeta \/ SaveMeta \/ SaveFails
  \/ Crash \/ Resume \/ ResumeFails \/ StartOver

TrainSpec == TrainInit /\ [][TrainNext]_trainVars

--------------------------------------------------------------------------------

Update == [batch : 0..MaxSteps - 1, of : 0..NVars, lr : {ConfigLr} \cup 0..MaxSteps - 1]

\* The rate of the i-th update of a job that is never interrupted: the first one
\* has the configured rate, and the schedule's rate is set behind a step, for the
\* next one.
RateOf(i) == IF script.scheduled /\ i > 1 THEN lr_at(i - 2) ELSE ConfigLr

\* What k steps without an interruption make of the parameters: each one updated
\* with its own gradient on each of the first k batches in turn, at the rate of
\* that update.  But for one thing: the update behind a step of firsts may have
\* the configured rate.
UninterruptedBut(firsts, w, k) ==
  \A v \in Vars :
    /\ Len(w[v]) = k
    /\ \A i \in 1..k : /\ w[v][i].batch = i - 1
                       /\ w[v][i].of = v
                       /\ \/ w[v][i].lr = RateOf(i)
                          \/ i - 1 \in firsts /\ w[v][i].lr = ConfigLr

Uninterrupted(w, k) == UninterruptedBut({}, w, k)

\* A crash at any moment of a save, write errors and saves tried again
\* included, leaves a job that resumes with the parameters an uninterrupted
\* job would have after global_step steps (Checkpoint::save and load_latest,
\* set_global_step, TrainingLoop::step): exactly, in a job without a scheduler.
\* With one, the first update of a resumed process has the rate its optimizer was
\* built with, since a checkpoint holds no rate and TrainingLoop::step sets the
\* schedule's behind the update; nothing else differs.
ResumeExactButFirstRate ==
  phase \in {"ready"} \cup Saving =>
    /\ UninterruptedBut(starts, data, global_step)
    /\ ~script.scheduled => Uninterrupted(data, global_step)

\* Whole metadata vouches for the weights beside it: they are whole, and those
\* of its step, but for the rates of first updates.  This is why save writes the
\* metadata last.
MetadataVouches ==
  \A d \in Dirs :
    disk[d].meta.st = "whole" => /\ disk[d].weights.st = "whole"
                                 /\ UninterruptedBut(starts, disk[d].weights.val, disk[d].meta.val)

\* A job that cannot resume has metadata that was cut short, the one file
\* load_latest's `?` does not get past; weights cut short never stop it.
OnlyMetadataStopsResume == phase = "failed" => \E d \in Dirs : disk[d].meta = Torn

\* Resuming never loses a step whose save returned Ok.
SavedStepsKept == [][phase = "down" /\ phase' = "ready" => global_step' >= saved]_trainVars
================================================================================
