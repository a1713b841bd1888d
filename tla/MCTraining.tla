------------------------------ MODULE MCTraining ------------------------------
(* The two state machines of the training side.  They share no state: a        *)
(* behaviour takes the steps of one while the other rests in its initial state. *)
EXTENDS TrainingJob, PipelineRun

VARIABLE part

allVars == <<part, trainVars, pipeVars>>

\* Every loss splices both parameters, behind an input or between two; an
\* evaluation may splice one.
FullLosses == {<<1, 2, 0>>, <<0, 2, 1, 0>>}
SomeEvals  == {<<1, 0>>, <<0, 0, 0, 2>>}

Init ==
  /\ part \in {"job", "pipeline"}
  /\ TrainInit
  /\ PipeInit
  /\ part = "job" => config = [s |-> 1, m |-> 1, kind |-> GPipe, timed |-> TRUE]
  /\ part = "pipeline" => ~script.scheduled

Next ==
  /\ UNCHANGED part
  /\ \/ part = "job" /\ TrainNext /\ UNCHANGED pipeVars
     \/ part = "pipeline" /\ PipeNext /\ UNCHANGED trainVars

\* A caller runs a schedule to its end.
Spec ==
  /\ Init
  /\ [][Next]_allVars
  /\ WF_allVars(part = "pipeline" /\ PipeNext /\ UNCHANGED <<part, trainVars>>)

\* Stages that keep the order and wait for their inputs do not come to wait
\* for each other: every stage does the forward and the backward of every
\* micro-batch (build_1f1b's order, and build_gpipe's).
Drains == part = "pipeline" ~> passes = AllPasses
================================================================================
