----------------------------- MODULE TrainingProofs -----------------------------
(* A job that saves with save_named and whose losses splice every parameter    *)
(* resumes as if it had not been interrupted, but for the rate of its first    *)
(* update if it has a scheduler, for every number of parameters, steps,        *)
(* crashes and write errors.                                                   *)
EXTENDS TrainingJob, PipelineRun, TLAPS, FiniteSetTheorems

\* The scripts of the theorems: they save with save_named, and every loss
\* splices every parameter.
Named == Layouts = {"named"}

EveryVarSpliced ==
  \A g \in LossGraphs : \A v \in Vars : /\ LastSplice(g, v) \in DOMAIN g
                                        /\ LastSplice(g, v) # 0
                                        /\ g[LastSplice(g, v)] = v

--------------------------------------------------------------------------------

\* Parameters are functions to sequences, files are absent, torn or whole.
Shape ==
  /\ script.layout = "named"
  /\ 0 \in starts
  /\ global_step \in 0..MaxSteps
  /\ saved \in 0..MaxSteps
  /\ data \in [Vars -> Seq(Update)]
  /\ DOMAIN disk = Dirs
  /\ \A d \in Dirs : /\ disk[d] = [weights |-> disk[d].weights, meta |-> disk[d].meta]
                     /\ disk[d].weights.st # "whole" \/ disk[d].weights.val \in [Vars -> Seq(Update)]
                     /\ disk[d].meta = Absent \/ disk[d].meta = Torn \/ disk[d].meta.st = "whole"

\* The rates an update i may have in a job that was interrupted.
RatesOf(i) == {RateOf(i)} \cup (IF i - 1 \in starts THEN {ConfigLr} ELSE {})

OnCourse(w, k) ==
  \A v \in Vars :
    /\ Len(w[v]) = k
    /\ \A i \in 1..k : w[v][i].batch = i - 1 /\ w[v][i].of = v /\ w[v][i].lr \in RatesOf(i)

\* The process is where an uninterrupted job would be, but for the rates of first
\* updates, its next rate included; a new process has a new optimizer.
OnTrack ==
  /\ OnCourse(data, global_step)
  /\ lr \in RatesOf(global_step + 1)
  /\ phase = "down" => lr = ConfigLr

\* Whole metadata stands beside the whole weights of its step.
Vouched ==
  \A d \in Dirs :
    disk[d].meta.st = "whole" => /\ disk[d].weights.st = "whole"
                                 /\ OnCourse(disk[d].weights.val, disk[d].meta.val)

\* Directory d's metadata, once whole, is of step d, a step saved before; the
\* base directory has none; the last step saved keeps its metadata.
Ledger ==
  /\ disk[Base].meta = Absent
  /\ \A d \in Dirs : disk[d].meta.st = "whole" => disk[d].meta.val = d /\ d <= saved
  /\ saved > 0 => disk[saved].meta.st = "whole"

\* A save under way is of a step not saved before, and from the moment the
\* weights are written the file holds the process's parameters.
SaveUnderWay ==
  /\ phase \in Saving => global_step > saved
  /\ phase \in {"saved_weights", "meta"} => disk[global_step].weights = Whole(data)

JobInv ==
  /\ Shape
  /\ OnTrack
  /\ Ledger
  /\ SaveUnderWay
  /\ Vouched
  /\ OnlyMetadataStopsResume

\* What is on course stays so while the script is the same and processes begin.
LEMMA CourseKept ==
  ASSUME script' = script, starts \subseteq starts'
  PROVE  /\ \A i : RatesOf(i) \subseteq RatesOf(i)'
         /\ \A w, k : OnCourse(w, k) => OnCourse(w, k)'
<1>1. \A i : RatesOf(i) \subseteq RatesOf(i)'
  BY Zenon DEF RatesOf, RateOf
<1>2. \A w, k : OnCourse(w, k) => OnCourse(w, k)'
  BY <1>1, Zenon DEF OnCourse
<1>. QED BY <1>1, <1>2

\* A step of the loop takes the process one step further on its track.
LEMMA StepOnTrack ==
  ASSUME EveryVarSpliced, JobInv, NEW g \in LossGraphs, TrainStep(g)
  PROVE  /\ data' \in [Vars -> Seq(Update)]
         /\ OnTrack'
<1>. DEFINE new(v) == [batch |-> global_step, of |-> v, lr |-> lr]
<1>1. /\ global_step \in 0..MaxSteps - 1 /\ global_step' = global_step + 1
      /\ data \in [Vars -> Seq(Update)] /\ phase' = "ready" /\ UNCHANGED <<script, starts>>
  BY TrainingAssumption DEF JobInv, Shape, TrainStep
<1>2. \A v \in Vars : tensor(g)[v] = LastSplice(g, v)
  BY DEF EveryVarSpliced, tensor
<1>3. \A v \in Vars : v \in harvest_grads(g, tensor(g)) /\ g[tensor(g)[v]] = v
  BY <1>2 DEF EveryVarSpliced, harvest_grads
<1>4. data' = [v \in Vars |-> Append(data[v], new(v))]
  BY <1>3 DEF TrainStep, sgd_step
<1>5. lr = ConfigLr \/ (script.scheduled /\ global_step + 1 > 1 /\ lr = global_step - 1)
  BY <1>1 DEF JobInv, OnTrack, RatesOf, RateOf, lr_at
<1>6. \A v \in Vars : new(v) \in Update
  BY <1>1, <1>5, TrainingAssumption DEF Update, Vars
<1>7. data' \in [Vars -> Seq(Update)]
  BY <1>1, <1>4, <1>6
<1>8. OnCourse(data', global_step')
  <2>. SUFFICES ASSUME NEW v \in Vars
                PROVE  /\ Len(data'[v]) = global_step'
                       /\ \A i \in 1..global_step' : /\ data'[v][i].batch = i - 1
                                                     /\ data'[v][i].of = v
                                                     /\ data'[v][i].lr \in RatesOf(i)
    BY DEF OnCourse
  <2>1. /\ Len(data[v]) = global_step
        /\ \A i \in 1..global_step : /\ data[v][i].batch = i - 1
                                     /\ data[v][i].of = v
                                     /\ data[v][i].lr \in RatesOf(i)
    BY DEF JobInv, OnTrack, OnCourse
  <2>2. data'[v] = Append(data[v], new(v)) /\ data[v] \in Seq(Update) /\ new(v) \in Update
    BY <1>1, <1>4, <1>6
  <2>3. Len(data'[v]) = global_step' /\ data'[v][global_step'] = new(v)
    BY <1>1, <2>1, <2>2
  <2>4. \A i \in 1..global_step : data'[v][i] = data[v][i]
    BY <1>1, <2>1, <2>2
  <2>5. new(v).lr \in RatesOf(global_step')
    BY <1>1 DEF JobInv, OnTrack
  <2>6. ASSUME NEW i \in 1..global_step'
        PROVE  data'[v][i].batch = i - 1 /\ data'[v][i].of = v /\ data'[v][i].lr \in RatesOf(i)
    <3>1. CASE i \in 1..global_step
      BY <2>1, <2>4, <3>1
    <3>2. CASE i = global_step'
      BY <1>1, <2>3, <2>5, <3>2
    <3>. QED BY <1>1, <3>1, <3>2
  <2>. QED BY <2>3, <2>6
<1>9. lr' \in RatesOf(global_step' + 1)
  <2>1. CASE script.scheduled
    BY <1>1, <2>1 DEF TrainStep, RatesOf, RateOf, lr_at
  <2>2. CASE ~script.scheduled
    BY <1>1, <1>5, <2>2 DEF TrainStep, RatesOf, RateOf
  <2>. QED BY <2>1, <2>2
<1>. QED BY <1>1, <1>7, <1>8, <1>9, CourseKept DEF OnTrack

--------------------------------------------------------------------------------

\* A job starts on its track, with no checkpoint on disk.
LEMMA JobInit == Named /\ TrainInit => JobInv
<1>. SUFFICES ASSUME Named, TrainInit PROVE JobInv
  OBVIOUS
<1>1. Shape
  BY TrainingAssumption DEF Named, TrainInit, Shape, Initial, Update, Vars, Dirs, EmptyDir, Absent, Torn
<1>2. OnTrack
  BY DEF TrainInit, OnTrack, OnCourse, RatesOf, RateOf, Initial
<1>3. Ledger /\ Vouched
  BY TrainingAssumption DEF TrainInit, Ledger, Vouched, EmptyDir, Absent, Base, Dirs
<1>4. SaveUnderWay /\ OnlyMetadataStopsResume
  BY DEF TrainInit, SaveUnderWay, Saving, OnlyMetadataStopsResume
<1>. QED BY <1>1, <1>2, <1>3, <1>4 DEF JobInv

\* Steps that leave the disk alone keep what is said of it.
LEMMA DiskKept ==
  ASSUME JobInv, UNCHANGED <<script, disk, saved>>, starts \subseteq starts'
  PROVE  Ledger' /\ Vouched'
<1>1. Ledger'
  BY DEF JobInv, Ledger
<1>2. Vouched'
  BY CourseKept, Zenon DEF JobInv, Vouched
<1>. QED BY <1>1, <1>2

\* A step of the loop keeps the invariant.
LEMMA TrainStepKeeps ==
  ASSUME EveryVarSpliced, JobInv, NEW g \in LossGraphs, TrainStep(g)
  PROVE  JobInv'
<1>1. UNCHANGED <<script, starts, disk, saved, phase>> /\ phase = "ready" /\ global_step' \in 0..MaxSteps
  BY TrainingAssumption DEF TrainStep, JobInv, Shape
<1>2. Shape' /\ OnTrack'
  BY <1>1, StepOnTrack DEF JobInv, Shape
<1>3. SaveUnderWay' /\ OnlyMetadataStopsResume'
  BY <1>1 DEF SaveUnderWay, OnlyMetadataStopsResume, Saving
<1>. QED BY <1>1, <1>2, <1>3, DiskKept DEF JobInv

\* Steps of the script that change neither the track nor the disk.
LEMMA QuietKeeps ==
  ASSUME JobInv, UNCHANGED <<script, starts, data, lr, global_step, disk, saved>>,
         phase' = phase \/ phase' = "ready"
  PROVE  JobInv'
<1>1. Shape' /\ OnTrack'
  BY CourseKept DEF JobInv, Shape, OnTrack
<1>2. SaveUnderWay' /\ OnlyMetadataStopsResume'
  BY DEF JobInv, SaveUnderWay, OnlyMetadataStopsResume, Saving
<1>. QED BY <1>1, <1>2, DiskKept DEF JobInv

\* A crash loses the process and leaves the disk.
LEMMA CrashKeeps == ASSUME JobInv, Crash PROVE JobInv'
<1>1. Shape'
  BY TrainingAssumption DEF JobInv, Crash, Shape, Initial
<1>4. OnTrack'
  BY DEF Crash, OnTrack, OnCourse, RatesOf, RateOf, Initial
<1>2. SaveUnderWay' /\ OnlyMetadataStopsResume'
  BY DEF Crash, SaveUnderWay, OnlyMetadataStopsResume, Saving
<1>3. Ledger' /\ Vouched'
  BY DiskKept DEF Crash
<1>. QED BY <1>1, <1>2, <1>3, <1>4 DEF JobInv

\* The directory of the step being saved: none of the steps saved before.
LEMMA SaveDirNew ==
  ASSUME JobInv, global_step > saved
  PROVE  /\ SaveDir = global_step /\ SaveDir \in Dirs /\ SaveDir # Base
         /\ disk[SaveDir].meta.st # "whole"
BY TrainingAssumption DEF JobInv, Shape, Ledger, SaveDir, Dirs, Base

\* The weights of a step not saved before are opened beside no metadata.
LEMMA SaveOpenWeightsKeeps == ASSUME JobInv, SaveOpenWeights PROVE JobInv'
<1>1. /\ global_step > saved /\ UNCHANGED <<script, starts, data, lr, global_step, saved>> /\ phase' = "weights"
      /\ disk' = [disk EXCEPT ![SaveDir].weights = Torn]
  BY DEF SaveOpenWeights, processVars
<1>2. /\ SaveDir \in Dirs /\ SaveDir # Base /\ disk[SaveDir].meta.st # "whole"
  BY <1>1, SaveDirNew
<1>3. /\ DOMAIN disk' = Dirs
      /\ \A d \in Dirs : /\ disk'[d] = [weights |-> disk'[d].weights, meta |-> disk'[d].meta]
                         /\ disk'[d].meta = disk[d].meta
                         /\ disk'[d].weights = IF d = SaveDir THEN Torn ELSE disk[d].weights
  BY <1>1, <1>2 DEF JobInv, Shape
<1>4. Shape'
  BY <1>1, <1>3 DEF JobInv, Shape, Torn
<1>8. OnTrack'
  BY <1>1, CourseKept DEF JobInv, OnTrack
<1>5. Ledger'
  BY <1>1, <1>3, TrainingAssumption DEF JobInv, Shape, Ledger, Base, Dirs
<1>6. Vouched'
  <2>1. \A w, k : OnCourse(w, k) => OnCourse(w, k)'
    BY <1>1, CourseKept
  <2>2. ASSUME NEW d \in Dirs, disk'[d].meta.st = "whole"
        PROVE  d # SaveDir /\ disk'[d].weights = disk[d].weights /\ disk'[d].meta = disk[d].meta
    BY <1>2, <1>3, <2>2
  <2>. QED BY <2>1, <2>2, Zenon DEF JobInv, Vouched
<1>7. SaveUnderWay' /\ OnlyMetadataStopsResume'
  BY <1>1 DEF SaveUnderWay, OnlyMetadataStopsResume
<1>. QED BY <1>4, <1>5, <1>6, <1>7, <1>8 DEF JobInv

\* The weights are written beside no metadata.
LEMMA SaveWeightsKeeps == ASSUME JobInv, SaveWeights PROVE JobInv'
<1>1. /\ global_step > saved /\ UNCHANGED <<script, starts, data, lr, global_step, saved>> /\ phase' = "saved_weights"
      /\ disk' = [disk EXCEPT ![SaveDir].weights = Whole(data)]
  BY DEF SaveWeights, processVars, JobInv, SaveUnderWay, Saving
<1>2. /\ SaveDir = global_step /\ SaveDir \in Dirs /\ SaveDir # Base /\ disk[SaveDir].meta.st # "whole"
  BY <1>1, SaveDirNew
<1>3. /\ DOMAIN disk' = Dirs
      /\ \A d \in Dirs : /\ disk'[d] = [weights |-> disk'[d].weights, meta |-> disk'[d].meta]
                         /\ disk'[d].meta = disk[d].meta
                         /\ disk'[d].weights = IF d = SaveDir THEN Whole(data) ELSE disk[d].weights
  BY <1>1, <1>2 DEF JobInv, Shape
<1>4. Shape'
  BY <1>1, <1>3 DEF JobInv, Shape, Whole
<1>8. OnTrack'
  BY <1>1, CourseKept DEF JobInv, OnTrack
<1>5. Ledger'
  BY <1>1, <1>3, TrainingAssumption DEF JobInv, Shape, Ledger, Base, Dirs
<1>6. Vouched'
  <2>1. \A w, k : OnCourse(w, k) => OnCourse(w, k)'
    BY <1>1, CourseKept
  <2>2. ASSUME NEW d \in Dirs, disk'[d].meta.st = "whole"
        PROVE  d # SaveDir /\ disk'[d].weights = disk[d].weights /\ disk'[d].meta = disk[d].meta
    BY <1>2, <1>3, <2>2
  <2>. QED BY <2>1, <2>2, Zenon DEF JobInv, Vouched
<1>7. SaveUnderWay' /\ OnlyMetadataStopsResume'
  BY <1>1, <1>2, <1>3 DEF SaveUnderWay, OnlyMetadataStopsResume
<1>. QED BY <1>4, <1>5, <1>6, <1>7, <1>8 DEF JobInv

\* Opening the metadata cuts short no other step's.
LEMMA SaveOpenMetaKeeps == ASSUME JobInv, SaveOpenMeta PROVE JobInv'
<1>1. /\ global_step > saved /\ UNCHANGED <<script, starts, data, lr, global_step, saved>> /\ phase' = "meta"
      /\ disk' = [disk EXCEPT ![SaveDir].meta = Torn] /\ disk[global_step].weights = Whole(data)
  BY DEF SaveOpenMeta, processVars, JobInv, SaveUnderWay, Saving
<1>2. /\ SaveDir = global_step /\ SaveDir \in Dirs /\ SaveDir # Base /\ disk[SaveDir].meta.st # "whole"
  BY <1>1, SaveDirNew
<1>3. /\ DOMAIN disk' = Dirs
      /\ \A d \in Dirs : /\ disk'[d] = [weights |-> disk'[d].weights, meta |-> disk'[d].meta]
                         /\ disk'[d].weights = disk[d].weights
                         /\ disk'[d].meta = IF d = SaveDir THEN Torn ELSE disk[d].meta
  BY <1>1, <1>2 DEF JobInv, Shape
<1>4. Shape'
  BY <1>1, <1>3 DEF JobInv, Shape
<1>5. OnTrack'
  BY <1>1, CourseKept DEF JobInv, OnTrack
<1>6. Ledger'
  BY <1>1, <1>2, <1>3, TrainingAssumption DEF JobInv, Shape, Ledger, Base, Dirs, Torn
<1>7. Vouched'
  <2>. SUFFICES ASSUME NEW d \in Dirs, disk'[d].meta.st = "whole"
                PROVE  /\ disk'[d].weights.st = "whole"
                       /\ OnCourse(disk[d].weights.val, disk[d].meta.val)'
    BY DEF Vouched
  <2>1. d # SaveDir
    BY <1>3 DEF Torn
  <2>2. disk'[d].weights = disk[d].weights /\ disk'[d].meta = disk[d].meta
    BY <1>3, <2>1
  <2>3. \A w, k : OnCourse(w, k) => OnCourse(w, k)'
    BY <1>1, CourseKept
  <2>. QED BY <2>2, <2>3, Zenon DEF JobInv, Vouched
<1>8. SaveUnderWay' /\ OnlyMetadataStopsResume'
  BY <1>1, <1>2, <1>3 DEF SaveUnderWay, OnlyMetadataStopsResume
<1>. QED BY <1>4, <1>5, <1>6, <1>7, <1>8 DEF JobInv

\* The moment a checkpoint comes into being: the weights beside the metadata
\* are the process's own, which is on its track.
LEMMA SaveMetaKeeps == ASSUME JobInv, SaveMeta PROVE JobInv'
<1>1. /\ global_step > saved /\ UNCHANGED <<script, starts, data, lr, global_step>>
      /\ phase' = "ready" /\ saved' = global_step
      /\ disk' = [disk EXCEPT ![SaveDir].meta = Whole(global_step)]
      /\ disk[global_step].weights = Whole(data)
  BY DEF SaveMeta, processVars, JobInv, SaveUnderWay, Saving
<1>2. /\ SaveDir = global_step /\ SaveDir \in Dirs /\ SaveDir # Base
  BY <1>1, SaveDirNew
<1>3. /\ DOMAIN disk' = Dirs
      /\ \A d \in Dirs : /\ disk'[d] = [weights |-> disk'[d].weights, meta |-> disk'[d].meta]
                         /\ disk'[d].weights = disk[d].weights
                         /\ disk'[d].meta = IF d = SaveDir THEN Whole(global_step) ELSE disk[d].meta
  BY <1>1, <1>2 DEF JobInv, Shape
<1>4. Shape'
  BY <1>1, <1>3 DEF JobInv, Shape, Whole
<1>5. OnTrack'
  BY <1>1, CourseKept DEF JobInv, OnTrack
<1>6. Ledger'
  <2>1. disk'[Base].meta = Absent
    BY <1>2, <1>3, TrainingAssumption DEF JobInv, Ledger, Base, Dirs
  <2>2. ASSUME NEW d \in Dirs, disk'[d].meta.st = "whole" PROVE disk'[d].meta.val = d /\ d <= saved'
    BY <1>1, <1>2, <1>3, <2>2 DEF JobInv, Shape, Ledger, Whole, Dirs
  <2>3. disk'[saved'].meta.st = "whole"
    BY <1>1, <1>2, <1>3 DEF Whole
  <2>. QED BY <2>1, <2>2, <2>3 DEF Ledger
<1>7. Vouched'
  <2>. SUFFICES ASSUME NEW d \in Dirs, disk'[d].meta.st = "whole"
                PROVE  /\ disk'[d].weights.st = "whole"
                       /\ OnCourse(disk[d].weights.val, disk[d].meta.val)'
    BY DEF Vouched
  <2>1. CASE d = SaveDir
    <3>1. disk'[d].weights = Whole(data') /\ disk'[d].meta = Whole(global_step')
      BY <1>1, <1>2, <1>3, <2>1
    <3>2. OnCourse(data, global_step)'
      BY <1>5 DEF OnTrack
    <3>. QED BY <3>1, <3>2 DEF Whole
  <2>2. CASE d # SaveDir
    <3>1. disk'[d].weights = disk[d].weights /\ disk'[d].meta = disk[d].meta
      BY <1>3, <2>2
    <3>2. \A w, k : OnCourse(w, k) => OnCourse(w, k)'
      BY <1>1, CourseKept
    <3>. QED BY <3>1, <3>2, Zenon DEF JobInv, Vouched
  <2>. QED BY <2>1, <2>2
<1>8. SaveUnderWay' /\ OnlyMetadataStopsResume'
  BY <1>1 DEF SaveUnderWay, OnlyMetadataStopsResume, Saving
<1>. QED BY <1>4, <1>5, <1>6, <1>7, <1>8 DEF JobInv

\* load_latest's answer has a directory of its own name, with whole weights.
LEMMA LatestWhole ==
  ASSUME JobInv, NEW step \in 0..MaxSteps, load_latest(step)
  PROVE  /\ LoadDir(step) = step /\ step \in Dirs
         /\ disk[step].meta.st = "whole" /\ disk[step].meta.val = step
         /\ disk[step].weights.st = "whole"
<1>1. Scanned = {d \in Dirs : disk[d].meta # Absent}
  BY DEF JobInv, Ledger, Scanned
<1>2. PICK d \in Scanned : disk[d].meta.val = step
  BY DEF load_latest
<1>3. d \in Dirs /\ disk[d].meta.st = "whole"
  BY <1>1, <1>2 DEF load_latest, Unreadable, JobInv, Shape
<1>4. d = step
  BY <1>2, <1>3 DEF JobInv, Ledger
<1>5. LoadDir(step) = step
  BY DEF JobInv, Shape, LoadDir
<1>. QED BY <1>2, <1>3, <1>4, <1>5 DEF JobInv, Vouched

\* Resuming puts the process back on its track, no earlier than the last save.
LEMMA ResumeKeeps == ASSUME JobInv, Resume PROVE JobInv' /\ global_step' >= saved
<1>1. PICK step \in 0..MaxSteps :
        /\ load_latest(step)
        /\ data' = disk[LoadDir(step)].weights.val
        /\ global_step' = step
        /\ starts' = starts \cup {step}
  BY DEF Resume
<1>2. phase = "down" /\ phase' = "ready" /\ UNCHANGED <<script, lr, disk, saved>>
  BY DEF Resume
<1>3. /\ LoadDir(step) = step /\ step \in Dirs
      /\ disk[step].meta.st = "whole" /\ disk[step].meta.val = step
      /\ disk[step].weights.st = "whole"
  BY <1>1, LatestWhole
<1>4. Shape'
  BY <1>1, <1>2, <1>3 DEF JobInv, Shape
<1>5. OnCourse(data', global_step')
  BY <1>1, <1>3 DEF JobInv, Vouched
<1>6. OnTrack'
  <2>1. lr' = ConfigLr /\ global_step' \in starts' /\ global_step' \in Nat
    BY <1>1, <1>2, TrainingAssumption DEF JobInv, OnTrack
  <2>2. lr' \in RatesOf(global_step + 1)'
    BY <2>1 DEF RatesOf
  <2>3. OnCourse(data, global_step)'
    BY <1>1, <1>2, <1>5, CourseKept
  <2>. QED BY <1>2, <2>2, <2>3 DEF OnTrack
<1>7. Ledger' /\ Vouched'
  BY <1>1, <1>2, DiskKept
<1>8. SaveUnderWay' /\ OnlyMetadataStopsResume'
  BY <1>2 DEF SaveUnderWay, OnlyMetadataStopsResume, Saving
<1>9. global_step' >= saved
  <2>1. CASE saved = 0
    BY <1>1, <2>1
  <2>2. CASE saved > 0
    <3>1. saved \in Scanned /\ disk[saved].meta.val = saved
      BY <2>2 DEF JobInv, Shape, Ledger, Scanned, Absent, Dirs
    <3>. QED BY <1>1, <3>1 DEF load_latest
  <2>. QED BY <2>1, <2>2 DEF JobInv, Shape
<1>. QED BY <1>4, <1>6, <1>7, <1>8, <1>9 DEF JobInv

\* A resume that fails has met metadata that was cut short.
LEMMA ResumeFailsKeeps == ASSUME JobInv, ResumeFails PROVE JobInv'
<1>1. phase = "down" /\ phase' = "failed" /\ UNCHANGED <<script, starts, data, lr, global_step, disk, saved>>
  BY DEF ResumeFails, processVars
<1>2. Unreadable
  BY LatestWhole DEF ResumeFails, Loadable
<1>3. \E d \in Dirs : disk[d].meta = Torn
  BY <1>2, TrainingAssumption DEF Unreadable, Scanned, Base, Dirs
<1>4. Shape'
  BY <1>1 DEF JobInv, Shape
<1>5. OnTrack'
  BY <1>1, CourseKept DEF JobInv, OnTrack
<1>6. SaveUnderWay' /\ OnlyMetadataStopsResume'
  BY <1>1, <1>3 DEF SaveUnderWay, OnlyMetadataStopsResume, Saving
<1>. QED BY <1>1, <1>4, <1>5, <1>6, DiskKept DEF JobInv

\* Every step of the job keeps the invariant.
LEMMA JobStep == EveryVarSpliced /\ JobInv /\ [TrainNext]_trainVars => JobInv'
<1>. SUFFICES ASSUME EveryVarSpliced, JobInv, [TrainNext]_trainVars PROVE JobInv'
  OBVIOUS
<1>1. ASSUME NEW g \in EvalGraphs, EvalPass(g) PROVE JobInv'
  BY <1>1, QuietKeeps DEF EvalPass
<1>2. ASSUME NEW g \in LossGraphs, TrainStep(g) PROVE JobInv'
  BY <1>2, TrainStepKeeps
<1>3. CASE SaveFails \/ StartOver \/ UNCHANGED trainVars
  BY <1>3, QuietKeeps DEF SaveFails, StartOver, trainVars, processVars, JobInv, Shape
<1>. QED BY <1>1, <1>2, <1>3, SaveOpenWeightsKeeps, SaveWeightsKeeps, SaveOpenMetaKeeps, SaveMetaKeeps,
            CrashKeeps, ResumeKeeps, ResumeFailsKeeps DEF TrainNext

\* The invariant holds throughout.
LEMMA JobInvariant == ASSUME Named, EveryVarSpliced PROVE TrainSpec => []JobInv
<1>1. TrainInit => JobInv
  BY JobInit
<1>2. JobInv /\ [TrainNext]_trainVars => JobInv'
  BY JobStep
<1>. QED BY <1>1, <1>2, PTL DEF TrainSpec

\* On course is what the properties call uninterrupted but for first rates.
LEMMA CourseMeans ==
  /\ \A w, k : OnCourse(w, k) => UninterruptedBut(starts, w, k)
  /\ \A w, k : OnCourse(w, k) /\ ~script.scheduled => Uninterrupted(w, k)
<1>1. \A w, k : OnCourse(w, k) => UninterruptedBut(starts, w, k)
  BY DEF OnCourse, UninterruptedBut, RatesOf
<1>2. ASSUME ~script.scheduled, NEW w, NEW k, OnCourse(w, k) PROVE Uninterrupted(w, k)
  BY <1>2 DEF OnCourse, Uninterrupted, UninterruptedBut, RatesOf, RateOf
<1>. QED BY <1>1, <1>2

\* For every number of parameters, steps, crashes and write errors: a job whose
\* losses splice every parameter, that saves with save_named and resumes from
\* load_latest, has whenever it runs the parameters an uninterrupted job would
\* have after global_step steps; with a scheduler, but for the rate of the first
\* update of each resumed process.
THEOREM ResumesExactlyButFirstRate ==
  ASSUME Named, EveryVarSpliced PROVE TrainSpec => []ResumeExactButFirstRate
<1>1. JobInv => ResumeExactButFirstRate
  BY CourseMeans DEF JobInv, OnTrack, ResumeExactButFirstRate
<1>. QED BY <1>1, JobInvariant, PTL

\* Whole metadata always vouches for the weights beside it, because
\* Checkpoint::save writes it last and save_named gives each step a directory.
THEOREM MetadataAlwaysVouches == ASSUME Named, EveryVarSpliced PROVE TrainSpec => []MetadataVouches
<1>1. JobInv => MetadataVouches
  BY CourseMeans, Zenon DEF JobInv, Vouched, MetadataVouches
<1>. QED BY <1>1, JobInvariant, PTL

\* Only metadata that was cut short ever keeps such a job from resuming: what
\* load_latest returns has weights that VarMap::load can read.
THEOREM OnlyMetadataEverStops == ASSUME Named, EveryVarSpliced PROVE TrainSpec => []OnlyMetadataStopsResume
<1>1. JobInv => OnlyMetadataStopsResume
  BY DEF JobInv
<1>. QED BY <1>1, JobInvariant, PTL

\* Resuming from load_latest's highest step never loses a step whose save
\* returned Ok.
THEOREM SavedStepsAlwaysKept == ASSUME Named, EveryVarSpliced PROVE TrainSpec => SavedStepsKept
<1>1. JobInv /\ [TrainNext]_trainVars
      => [phase = "down" /\ phase' = "ready" => global_step' >= saved]_trainVars
  <2>. SUFFICES ASSUME JobInv, TrainNext, phase = "down", phase' = "ready"
                PROVE  global_step' >= saved
    OBVIOUS
  <2>1. CASE Resume
    BY <2>1, ResumeKeeps
  <2>2. CASE StartOver
    <3>1. global_step' = global_step /\ global_step \in Nat /\ Scanned = {}
      BY <2>2, TrainingAssumption DEF StartOver, processVars, JobInv, Shape
    <3>2. saved \in 0..MaxSteps /\ ~(saved > 0)
      BY <3>1 DEF JobInv, Shape, Ledger, Scanned, Absent, Dirs
    <3>. QED BY <3>1, <3>2
  <2>. QED BY <2>1, <2>2 DEF TrainNext, EvalPass, TrainStep, SaveOpenWeights, SaveWeights, SaveOpenMeta,
                             SaveMeta, SaveFails, Saving, Crash, ResumeFails
<1>. QED BY <1>1, JobInvariant, PTL DEF TrainSpec, SavedStepsKept

--------------------------------------------------------------------------------
(* Pipeline schedules, for every number of stages and of micro-batches:        *)
(* build_gpipe's times respect the data flow, and build_1f1b bounds the        *)
(* activations a stage holds.                                                  *)

\* A pass of the GPipe schedule at time t needs only passes the schedule has at
\* earlier times: the forward wave reaches a stage one step after the stage
\* before it, the backward wave one step after the stage behind it, and the
\* first backward comes after the last forward.
LEMMA GPipeNeedsEarlier ==
  ASSUME NEW s \in Nat \ {0}, NEW m \in Nat \ {0},
         NEW stage \in 0..s-1, NEW t \in Nat,
         NEW need \in Needs(s, stage, gpipe_step(s, m, stage, t))
  PROVE  \E p \in 0..s-1, u \in 0..t-1 :
           gpipe_step(s, m, p, u).op # "Idle" /\ need = <<p, gpipe_step(s, m, p, u)>>
<1>. DEFINE len == s + m - 1
            step == gpipe_step(s, m, stage, t)
            fwd == t - stage
            bwd == t - len - (s - 1 - stage)
<1>1. CASE t < len /\ fwd \in 0..m-1
  <2>1. step = Forward(fwd)
    BY <1>1 DEF gpipe_step, PhaseLen
  <2>2. stage - 1 \in 0..s-1 /\ need = <<stage - 1, Forward(fwd)>>
    BY <2>1 DEF Needs, Forward
  <2>3. gpipe_step(s, m, stage - 1, t - 1) = Forward(fwd)
    BY <1>1, <2>2 DEF gpipe_step, PhaseLen
  <2>4. t - 1 \in 0..t-1
    BY <1>1, <2>2
  <2>. QED BY <2>2, <2>3, <2>4 DEF Forward
<1>2. CASE t >= len /\ bwd \in 0..m-1
  <2>. DEFINE mb == m - 1 - bwd
  <2>1. step = Backward(mb)
    BY <1>2 DEF gpipe_step, PhaseLen
  <2>2. \/ need = <<stage, Forward(mb)>>
        \/ stage + 1 \in 0..s-1 /\ need = <<stage + 1, Backward(mb)>>
    BY <2>1 DEF Needs, Backward
  <2>3. CASE need = <<stage, Forward(mb)>>
    <3>1. gpipe_step(s, m, stage, stage + mb) = Forward(mb)
      BY <1>2 DEF gpipe_step, PhaseLen
    <3>2. stage + mb \in 0..t-1
      BY <1>2
    <3>. QED BY <2>3, <3>1, <3>2 DEF Forward
  <2>4. CASE stage + 1 \in 0..s-1 /\ need = <<stage + 1, Backward(mb)>>
    <3>1. gpipe_step(s, m, stage + 1, t - 1) = Backward(mb)
      BY <1>2, <2>4 DEF gpipe_step, PhaseLen
    <3>2. t - 1 \in 0..t-1
      BY <1>2, <2>4
    <3>. QED BY <2>4, <3>1, <3>2 DEF Backward
  <2>. QED BY <2>2, <2>3, <2>4
<1>3. CASE ~(t < len /\ fwd \in 0..m-1) /\ ~(t >= len /\ bwd \in 0..m-1)
  <2>1. step = Idle
    BY <1>3 DEF gpipe_step, PhaseLen
  <2>. QED BY <2>1 DEF Needs, Idle
<1>. QED BY <1>1, <1>2, <1>3

--------------------------------------------------------------------------------

\* The callers of the theorem: only GPipe schedules are run by their times.
TimedGPipe == TimedKinds = {GPipe}

\* While a GPipe schedule is run by its times, all stages are at the same time,
\* and every pass the schedule has before that time is done.
TimedInv ==
  /\ config.s \in Nat \ {0} /\ config.m \in Nat \ {0}
  /\ pos \in [Stages -> Nat]
  /\ config.timed =>
       /\ config.kind = GPipe
       /\ \A p, q \in Stages : pos[p] = pos[q]
       /\ \A p \in Stages : \A u \in 0..pos[p] - 1 :
            LET step == gpipe_step(config.s, config.m, p, u)
            IN  step.op # "Idle" => <<p, step>> \in passes

\* In a GPipe schedule the step of a stage at time t is gpipe_step's.
LEMMA GPipeSched ==
  ASSUME config.kind = GPipe, config.s \in Nat \ {0}, config.m \in Nat \ {0},
         NEW p \in Stages, NEW t \in Nat, t < total_steps
  PROVE  sched[p][t] = gpipe_step(config.s, config.m, p, t)
<1>1. total_steps = 2 * PhaseLen(config.s, config.m) /\ PhaseLen(config.s, config.m) \in Nat
  BY DEF total_steps, PhaseLen
<1>2. t \in 0..2 * PhaseLen(config.s, config.m) - 1
  BY <1>1
<1>. QED BY <1>2 DEF sched, build_schedule, build_gpipe, Stages

\* A run by time starts with no pass done and none due.
LEMMA TimedInit == TimedGPipe /\ PipeInit => TimedInv
<1>. SUFFICES ASSUME TimedGPipe, PipeInit PROVE TimedInv
  OBVIOUS
<1>1. config \in Configs /\ (config.timed => config.kind = GPipe)
  BY DEF PipeInit, TimedGPipe
<1>2. config.s \in 1..MaxStages /\ config.m \in 1..MaxMicrobatches
  BY <1>1 DEF Configs
<1>3. config.s \in Nat \ {0} /\ config.m \in Nat \ {0}
  BY <1>2, PipelineAssumption
<1>4. pos = [p \in Stages |-> 0]
  BY DEF PipeInit
<1>. QED BY <1>1, <1>3, <1>4 DEF TimedInv

\* What a stage's step needs at a tick is done before the tick.
LEMMA TickNeedsDone ==
  TimedInv /\ Tick => \A p \in Stages : Needs(config.s, p, sched[p][pos[p]]) \subseteq passes
<1>. SUFFICES ASSUME TimedInv, Tick, NEW p \in Stages, NEW need \in Needs(config.s, p, sched[p][pos[p]])
              PROVE  need \in passes
  OBVIOUS
<1>1. /\ config.s \in Nat \ {0} /\ config.m \in Nat \ {0} /\ config.kind = GPipe
      /\ pos[p] \in Nat /\ pos[p] < total_steps
  BY DEF TimedInv, Tick
<1>2. sched[p][pos[p]] = gpipe_step(config.s, config.m, p, pos[p])
  BY <1>1, GPipeSched
<1>3. PICK q \in 0..config.s - 1, u \in 0..pos[p] - 1 :
        /\ gpipe_step(config.s, config.m, q, u).op # "Idle"
        /\ need = <<q, gpipe_step(config.s, config.m, q, u)>>
  <2>. DEFINE s == config.s  m == config.m  t == pos[p]
  <2>1. s \in Nat \ {0} /\ m \in Nat \ {0} /\ t \in Nat /\ p \in 0..s-1
    BY <1>1 DEF Stages
  <2>2. need \in Needs(s, p, gpipe_step(s, m, p, t))
    BY <1>2
  <2>. HIDE DEF s, m, t
  <2>3. \E q \in 0..s-1, u \in 0..t-1 :
          gpipe_step(s, m, q, u).op # "Idle" /\ need = <<q, gpipe_step(s, m, q, u)>>
    BY <2>1, <2>2, GPipeNeedsEarlier
  <2>. QED BY <2>3 DEF s, m, t
<1>4. q \in Stages /\ pos[q] = pos[p]
  BY DEF TimedInv, Tick, Stages
<1>. QED BY <1>3, <1>4 DEF TimedInv, Tick

\* A tick does what is due at its time, for every stage.
LEMMA TimedStep == TimedInv /\ [PipeNext]_pipeVars => TimedInv'
<1>. SUFFICES ASSUME TimedInv, [PipeNext]_pipeVars PROVE TimedInv'
  OBVIOUS
<1>1. CASE Tick
  <2>1. /\ config' = config /\ Stages' = Stages
        /\ pos' = [p \in Stages |-> pos[p] + 1]
        /\ config.s \in Nat \ {0} /\ config.m \in Nat \ {0} /\ config.kind = GPipe
    BY <1>1 DEF Tick, TimedInv, Stages
  <2>2. pos' \in [Stages -> Nat] /\ \A p, q \in Stages : pos'[p] = pos'[q]
    BY <1>1, <2>1 DEF TimedInv, Tick
  <2>3. ASSUME NEW p \in Stages, NEW u \in 0..pos'[p] - 1,
               gpipe_step(config.s, config.m, p, u).op # "Idle"
        PROVE  <<p, gpipe_step(config.s, config.m, p, u)>> \in passes'
    <3>1. pos[p] \in Nat /\ pos[p] < total_steps /\ pos'[p] = pos[p] + 1
      BY <1>1, <2>1 DEF TimedInv, Tick
    <3>2. CASE u \in 0..pos[p] - 1
      BY <1>1, <2>3, <3>2 DEF TimedInv, Tick
    <3>3. CASE u = pos[p]
      <4>1. sched[p][pos[p]] = gpipe_step(config.s, config.m, p, u)
        BY <2>1, <3>1, <3>3, GPipeSched
      <4>2. <<p, sched[p][pos[p]]>> \in PassesIn(StepsOf(Stages))
        BY <2>3, <4>1 DEF PassesIn, StepsOf
      <4>. QED BY <1>1, <4>1, <4>2 DEF Tick
    <3>. QED BY <3>1, <3>2, <3>3
  <2>. QED BY <2>1, <2>2, <2>3 DEF TimedInv
<1>2. ASSUME NEW p \in Stages, StageStep(p) PROVE TimedInv'
  <2>1. config' = config /\ ~config.timed /\ pos' = [pos EXCEPT ![p] = @ + 1] /\ Stages' = Stages
    BY <1>2 DEF StageStep, Stages
  <2>2. pos' \in [Stages -> Nat]
    BY <2>1 DEF TimedInv
  <2>. QED BY <2>1, <2>2 DEF TimedInv
<1>3. CASE UNCHANGED pipeVars
  BY <1>3 DEF TimedInv, pipeVars, Stages
<1>. QED BY <1>1, <1>2, <1>3 DEF PipeNext

\* For every number of stages and micro-batches: stages that run build_gpipe's
\* schedule by its times never do a pass before what it needs was produced.
THEOREM GPipeRespectsData == TimedGPipe /\ PipeSpec => TimesRespectData
<1>1. TimedGPipe /\ PipeSpec => []TimedInv
  BY TimedInit, TimedStep, PTL DEF PipeSpec
<1>2. TimedInv /\ [PipeNext]_pipeVars
      => [Tick => \A stage \in Stages : Needs(config.s, stage, sched[stage][pos[stage]]) \subseteq passes]_pipeVars
  BY TickNeedsDone
<1>. QED BY <1>1, <1>2, PTL DEF PipeSpec, TimesRespectData

--------------------------------------------------------------------------------
(* The activations a stage of a 1F1B schedule holds. *)

\* Where build_1f1b has the passes of micro-batch mb in a stage's order.
ForwardAt(s, m, stage, mb) ==
  LET w == warmup(s, m, stage) IN IF mb < w THEN mb ELSE w + 2 * (mb - w)

BackwardAt(s, m, stage, mb) ==
  LET w == warmup(s, m, stage) IN IF mb < m - w THEN w + 2 * mb + 1 ELSE m + mb

\* A 1F1B stage warms up with no more forwards than there are micro-batches, or
\* stages behind it.
LEMMA WarmupBounds ==
  ASSUME NEW s \in Nat \ {0}, NEW m \in Nat \ {0}, NEW stage \in 0..s-1
  PROVE  /\ warmup(s, m, stage) \in 0..m
         /\ warmup(s, m, stage) <= s - 1 - stage
BY DEF warmup

\* Each forward stands in one place of a stage's order.
LEMMA ForwardPlace ==
  ASSUME NEW s \in Nat \ {0}, NEW m \in Nat \ {0}, NEW stage \in 0..s-1,
         NEW k \in 0..2 * m - 1, NEW mb \in 0..m-1, one_f1b_pass(s, m, stage, k) = Forward(mb)
  PROVE  k = ForwardAt(s, m, stage, mb)
<1>. DEFINE w == warmup(s, m, stage)
<1>1. w \in 0..m
  BY WarmupBounds
<1>2. one_f1b_pass(s, m, stage, k) =
        IF k < w THEN Forward(k) ELSE IF k >= 2 * m - w THEN Backward(k - m)
        ELSE IF (k - w) % 2 = 0 THEN Forward(w + (k - w) \div 2) ELSE Backward((k - w) \div 2)
  BY <1>1 DEF one_f1b_pass
<1>3. ForwardAt(s, m, stage, mb) = IF mb < w THEN mb ELSE w + 2 * (mb - w)
  BY DEF ForwardAt
<1>. HIDE DEF w
<1>. QED BY <1>1, <1>2, <1>3 DEF Forward, Backward

\* The backward of mb is the BackwardAt-th pass of the stage.
LEMMA BackwardPlace ==
  ASSUME NEW s \in Nat \ {0}, NEW m \in Nat \ {0}, NEW stage \in 0..s-1, NEW mb \in 0..m-1
  PROVE  /\ BackwardAt(s, m, stage, mb) \in 0..2 * m - 1
         /\ one_f1b_pass(s, m, stage, BackwardAt(s, m, stage, mb)) = Backward(mb)
<1>. DEFINE w == warmup(s, m, stage)
            k == BackwardAt(s, m, stage, mb)
<1>1. w \in 0..m
  BY WarmupBounds
<1>2. k = IF mb < m - w THEN w + 2 * mb + 1 ELSE m + mb
  BY DEF BackwardAt
<1>3. one_f1b_pass(s, m, stage, k) =
        IF k < w THEN Forward(k) ELSE IF k >= 2 * m - w THEN Backward(k - m)
        ELSE IF (k - w) % 2 = 0 THEN Forward(w + (k - w) \div 2) ELSE Backward((k - w) \div 2)
  BY <1>1, <1>2 DEF one_f1b_pass
<1>. HIDE DEF w, k
<1>4. CASE mb < m - w
  <2>1. k = w + 2 * mb + 1 /\ k >= w /\ k < 2 * m - w
    BY <1>1, <1>2, <1>4
  <2>2. (k - w) % 2 = 1 /\ (k - w) \div 2 = mb
    BY <1>1, <2>1
  <2>. QED BY <1>1, <1>3, <2>1, <2>2 DEF k
<1>5. CASE mb >= m - w
  <2>1. k = m + mb /\ k >= w /\ k >= 2 * m - w
    BY <1>1, <1>2, <1>5
  <2>. QED BY <1>1, <1>3, <2>1 DEF k
<1>. QED BY <1>1, <1>4, <1>5

\* After n passes a stage holds the activations of the micro-batches whose
\* forward is among them and whose backward is not: at most one more than its
\* warm-up, because in its steady state it does a backward for every forward.
LEMMA HeldWindow ==
  ASSUME NEW s \in Nat \ {0}, NEW m \in Nat \ {0}, NEW stage \in 0..s-1, NEW n \in Int
  PROVE  \E lo \in Nat : \A mb \in 0..m-1 :
           ForwardAt(s, m, stage, mb) < n /\ BackwardAt(s, m, stage, mb) >= n
             => mb \in lo..lo + warmup(s, m, stage)
<1>. DEFINE w == warmup(s, m, stage)
            lo == IF n <= w + 1 THEN 0 ELSE IF n <= 2 * m - w THEN (n - w) \div 2 ELSE m - w
<1>1. w \in 0..m
  BY WarmupBounds
<1>2. \A mb \in 0..m-1 : /\ ForwardAt(s, m, stage, mb) = IF mb < w THEN mb ELSE w + 2 * (mb - w)
                         /\ BackwardAt(s, m, stage, mb) = IF mb < m - w THEN w + 2 * mb + 1 ELSE m + mb
  BY DEF ForwardAt, BackwardAt
<1>. HIDE DEF w
<1>3. lo \in Nat
  BY <1>1
<1>4. ASSUME NEW mb \in 0..m-1, ForwardAt(s, m, stage, mb) < n, BackwardAt(s, m, stage, mb) >= n
      PROVE  mb \in lo..lo + w
  <2>1. CASE n <= w + 1
    BY <1>1, <1>2, <1>4, <2>1
  <2>2. CASE n > w + 1 /\ n <= 2 * m - w
    <3>1. lo = (n - w) \div 2
      BY <1>1, <2>2
    <3>. HIDE DEF lo
    <3>2. 2 * lo <= n - w /\ n - w <= 2 * lo + 1 /\ lo \in Nat
      BY <1>1, <1>3, <2>2, <3>1
    <3>. QED BY <1>1, <1>2, <1>4, <2>2, <3>2
  <2>3. CASE n > w + 1 /\ n > 2 * m - w
    BY <1>1, <1>2, <1>4, <2>3
  <2>. QED BY <1>1, <2>1, <2>2, <2>3
<1>. QED BY <1>3, <1>4 DEF w

\* A stage of a 1F1B schedule has done exactly the passes its order has before
\* its position; stage i begins its order at position i.
StageOrder(stage) ==
  /\ \A pass : <<stage, pass>> \in passes =>
       \E k \in 0..2 * config.m - 1 :
          k < pos[stage] - stage /\ pass = one_f1b_pass(config.s, config.m, stage, k)
  /\ \A k \in 0..2 * config.m - 1 :
       k < pos[stage] - stage => <<stage, one_f1b_pass(config.s, config.m, stage, k)>> \in passes

OrderInv ==
  /\ config.s \in Nat \ {0} /\ config.m \in Nat \ {0}
  /\ pos \in [Stages -> Nat]
  /\ config.kind = OneForwardOneBackward => \A stage \in Stages : StageOrder(stage)

\* What a 1F1B schedule has for a stage at time t.
LEMMA OneF1BSched ==
  ASSUME config.kind = OneForwardOneBackward, config.s \in Nat \ {0}, config.m \in Nat \ {0},
         NEW p \in Stages, NEW t \in Nat, t < total_steps
  PROVE  sched[p][t] = IF t \in p..p + 2 * config.m - 1
                       THEN one_f1b_pass(config.s, config.m, p, t - p) ELSE Idle
<1>1. t \in 0..2 * config.m + config.s - 2
  BY DEF total_steps, OneForwardOneBackward, GPipe
<1>. QED BY <1>1 DEF sched, build_schedule, build_1f1b, Stages, OneForwardOneBackward, GPipe

\* No pass of a stage's order is idle.
LEMMA PassNotIdle ==
  ASSUME NEW s \in Nat \ {0}, NEW m \in Nat \ {0}, NEW p \in 0..s-1, NEW k \in 0..2 * m - 1
  PROVE  one_f1b_pass(s, m, p, k).op # "Idle"
<1>. DEFINE w == warmup(s, m, p)
<1>1. w \in 0..m
  BY WarmupBounds
<1>2. one_f1b_pass(s, m, p, k) =
        IF k < w THEN Forward(k) ELSE IF k >= 2 * m - w THEN Backward(k - m)
        ELSE IF (k - w) % 2 = 0 THEN Forward(w + (k - w) \div 2) ELSE Backward((k - w) \div 2)
  BY <1>1 DEF one_f1b_pass
<1>. HIDE DEF w
<1>. QED BY <1>2 DEF Forward, Backward

LEMMA OrderInit == PipeInit => OrderInv
<1>. SUFFICES ASSUME PipeInit PROVE OrderInv
  OBVIOUS
<1>1. config.s \in 1..MaxStages /\ config.m \in 1..MaxMicrobatches
  BY DEF PipeInit, Configs
<1>2. config.s \in Nat \ {0} /\ config.m \in Nat \ {0} /\ Stages \subseteq Nat
  BY <1>1, PipelineAssumption DEF Stages
<1>3. pos = [p \in Stages |-> 0] /\ passes = {}
  BY DEF PipeInit
<1>. QED BY <1>2, <1>3 DEF OrderInv, StageOrder

\* A stage that does the step at its position keeps to its order.
LEMMA StageMoves ==
  ASSUME OrderInv, config.kind = OneForwardOneBackward, UNCHANGED config,
         NEW p \in Stages, pos[p] < total_steps, pos'[p] = pos[p] + 1,
         \A pass : <<p, pass>> \in passes' <=>
                     \/ <<p, pass>> \in passes
                     \/ pass = sched[p][pos[p]] /\ pass.op # "Idle"
  PROVE  StageOrder(p)'
<1>. DEFINE s == config.s  m == config.m  n == pos[p] - p  step == sched[p][pos[p]]
<1>1. s \in Nat \ {0} /\ m \in Nat \ {0} /\ pos[p] \in Nat /\ p \in 0..s-1 /\ n \in Int
  BY DEF OrderInv, Stages
<1>2. step = IF n \in 0..2 * m - 1 THEN one_f1b_pass(s, m, p, n) ELSE Idle
  <2>1. step = IF pos[p] \in p..p + 2 * m - 1 THEN one_f1b_pass(s, m, p, pos[p] - p) ELSE Idle
    BY <1>1, OneF1BSched
  <2>. QED BY <1>1, <2>1
<1>3. \A k \in 0..2 * m - 1 : one_f1b_pass(s, m, p, k).op # "Idle"
  <2>. HIDE DEF s, m
  <2>. QED BY <1>1, PassNotIdle
<1>4. Idle.op = "Idle"
  BY DEF Idle
<1>5. /\ \A pass : <<p, pass>> \in passes => \E k \in 0..2 * m - 1 : k < n /\ pass = one_f1b_pass(s, m, p, k)
      /\ \A k \in 0..2 * m - 1 : k < n => <<p, one_f1b_pass(s, m, p, k)>> \in passes
  BY DEF OrderInv, StageOrder
<1>6. \A pass : <<p, pass>> \in passes' <=> <<p, pass>> \in passes \/ (pass = step /\ pass.op # "Idle")
  OBVIOUS
<1>7. s' = s /\ m' = m /\ n' = n + 1
  BY <1>1
<1>. HIDE DEF s, m, n, step
<1>8. ASSUME NEW pass, <<p, pass>> \in passes'
      PROVE  \E k \in 0..2 * m - 1 : k < n + 1 /\ pass = one_f1b_pass(s, m, p, k)
  <2>1. CASE <<p, pass>> \in passes
    BY <1>1, <1>5, <2>1
  <2>2. CASE pass = step /\ pass.op # "Idle"
    BY <1>1, <1>2, <1>4, <2>2
  <2>. QED BY <1>6, <1>8, <2>1, <2>2
<1>9. ASSUME NEW k \in 0..2 * m - 1, k < n + 1
      PROVE  <<p, one_f1b_pass(s, m, p, k)>> \in passes'
  <2>1. CASE k < n
    BY <1>5, <1>6, <2>1
  <2>2. CASE k = n
    BY <1>2, <1>3, <1>6, <2>2
  <2>. QED BY <1>1, <1>9, <2>1, <2>2
<1>. QED BY <1>7, <1>8, <1>9 DEF StageOrder, s, m, n

LEMMA OrderStep == OrderInv /\ [PipeNext]_pipeVars => OrderInv'
<1>. SUFFICES ASSUME OrderInv, [PipeNext]_pipeVars PROVE OrderInv'
  OBVIOUS
<1>1. CASE Tick
  <2>1. /\ config' = config /\ Stages' = Stages /\ pos' = [p \in Stages |-> pos[p] + 1]
        /\ passes' = passes \cup PassesIn(StepsOf(Stages))
        /\ \A p \in Stages : pos[p] < total_steps
    BY <1>1 DEF Tick, Stages
  <2>2. pos' \in [Stages -> Nat]
    BY <2>1 DEF OrderInv
  <2>3. ASSUME NEW p \in Stages, NEW pass
        PROVE  <<p, pass>> \in passes' <=>
                 <<p, pass>> \in passes \/ (pass = sched[p][pos[p]] /\ pass.op # "Idle")
    BY <2>1 DEF PassesIn, StepsOf
  <2>4. ASSUME config.kind = OneForwardOneBackward, NEW p \in Stages PROVE StageOrder(p)'
    BY <2>1, <2>3, <2>4, StageMoves
  <2>. QED BY <2>1, <2>2, <2>4 DEF OrderInv
<1>2. ASSUME NEW q \in Stages, StageStep(q) PROVE OrderInv'
  <2>1. /\ config' = config /\ Stages' = Stages /\ pos' = [pos EXCEPT ![q] = @ + 1]
        /\ passes' = passes \cup PassesIn(StepsOf({q}))
        /\ pos[q] < total_steps
    BY <1>2 DEF StageStep, Stages
  <2>2. pos' \in [Stages -> Nat] /\ pos'[q] = pos[q] + 1
    BY <2>1 DEF OrderInv
  <2>3. \A p, pass : <<p, pass>> \in passes' <=>
          <<p, pass>> \in passes \/ (p = q /\ pass = sched[p][pos[p]] /\ pass.op # "Idle")
    BY <2>1 DEF PassesIn, StepsOf
  <2>4. ASSUME config.kind = OneForwardOneBackward, NEW p \in Stages PROVE StageOrder(p)'
    <3>1. CASE p = q
      BY <2>1, <2>2, <2>3, <2>4, <3>1, StageMoves, Zenon
    <3>2. CASE p # q
      <4>1. pos'[p] = pos[p] /\ \A pass : <<p, pass>> \in passes' <=> <<p, pass>> \in passes
        BY <2>1, <2>3, <3>2 DEF OrderInv
      <4>. QED BY <2>1, <2>4, <4>1 DEF OrderInv, StageOrder
    <3>. QED BY <3>1, <3>2
  <2>. QED BY <2>1, <2>2, <2>4 DEF OrderInv
<1>3. CASE UNCHANGED pipeVars
  BY <1>3 DEF OrderInv, StageOrder, pipeVars, Stages
<1>. QED BY <1>1, <1>2, <1>3 DEF PipeNext

\* The warm-up bounds the activations a stage holds.
LEMMA OrderBounds == OrderInv => InFlightBounded
<1>. SUFFICES ASSUME OrderInv, config.kind = OneForwardOneBackward, NEW p \in Stages
              PROVE  Cardinality(InFlight(p)) <= config.s - p
  BY DEF InFlightBounded
<1>. DEFINE s == config.s  m == config.m  n == pos[p] - p  w == warmup(s, m, p)
<1>1. s \in Nat \ {0} /\ m \in Nat \ {0} /\ p \in 0..s-1 /\ n \in Int
  BY DEF OrderInv, Stages
<1>2. /\ \A pass : <<p, pass>> \in passes => \E k \in 0..2 * m - 1 : k < n /\ pass = one_f1b_pass(s, m, p, k)
      /\ \A k \in 0..2 * m - 1 : k < n => <<p, one_f1b_pass(s, m, p, k)>> \in passes
  BY DEF OrderInv, StageOrder
<1>3. InFlight(p) = {mb \in 0..m - 1 : <<p, Forward(mb)>> \in passes /\ <<p, Backward(mb)>> \notin passes}
  BY DEF InFlight
<1>. HIDE DEF s, m, n
<1>4. ASSUME NEW mb \in InFlight(p)
      PROVE  mb \in 0..m-1 /\ ForwardAt(s, m, p, mb) < n /\ BackwardAt(s, m, p, mb) >= n
  <2>1. mb \in 0..m-1 /\ <<p, Forward(mb)>> \in passes /\ <<p, Backward(mb)>> \notin passes
    BY <1>3, <1>4
  <2>2. ForwardAt(s, m, p, mb) < n
    BY <1>1, <1>2, <2>1, ForwardPlace
  <2>3. /\ BackwardAt(s, m, p, mb) \in 0..2 * m - 1
        /\ one_f1b_pass(s, m, p, BackwardAt(s, m, p, mb)) = Backward(mb)
    BY <1>1, <2>1, BackwardPlace
  <2>4. ~(BackwardAt(s, m, p, mb) < n)
    BY <1>2, <2>1, <2>3
  <2>. QED BY <1>1, <2>1, <2>2, <2>3, <2>4
<1>5. PICK lo \in Nat : InFlight(p) \subseteq lo..lo + w
  BY <1>1, <1>4, HeldWindow
<1>6. w \in Nat /\ w <= s - 1 - p
  BY <1>1, WarmupBounds
<1>. HIDE DEF w
<1>7. IsFiniteSet(lo..lo + w) /\ Cardinality(lo..lo + w) = w + 1
  BY <1>6, FS_Interval
<1>8. Cardinality(InFlight(p)) <= w + 1 /\ Cardinality(InFlight(p)) \in Nat
  <2>1. IsFiniteSet(InFlight(p)) /\ Cardinality(InFlight(p)) <= Cardinality(lo..lo + w)
    BY <1>5, <1>7, FS_Subset, Zenon
  <2>. QED BY <1>7, <2>1, FS_CardinalityType
<1>. QED BY <1>1, <1>6, <1>8 DEF s

\* For every number of stages and micro-batches, and whatever the stages' pace:
\* a stage that follows build_1f1b's order never holds the activations of more
\* micro-batches than there are stages from it to the last.
THEOREM InFlightAlwaysBounded == PipeSpec => []InFlightBounded
BY OrderInit, OrderStep, OrderBounds, PTL DEF PipeSpec
================================================================================
