SPECIFICATION Spec
CONSTANTS
  NVars = 2
  LossGraphs <- FullLosses
  EvalGraphs <- SomeEvals
  Layouts = {"named"}
  MaxSteps = 3
  MaxCrashes = 2
  MaxFailures = 1
  MaxEvals = 1
  MaxStages = 4
  MaxMicrobatches = 5
  TimedKinds = {"GPipe"}
  OrderedKinds = {"GPipe", "OneForwardOneBackward"}
INVARIANTS
  ResumeExactButFirstRate
  MetadataVouches
  OnlyMetadataStopsResume
  InFlightBounded
PROPERTIES
  SavedStepsKept
  TimesRespectData
  Drains
CHECK_DEADLOCK FALSE
