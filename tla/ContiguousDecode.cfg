SPECIFICATION Spec
CONSTANTS
  d1 = d1
  d2 = d2
  Devices <- MCDevices
  Garbage = Garbage
  None = None
  Failed = Failed
  Refusal = Refusal
  NLayers = 2
  Tokens = {1, 2, 3}
  Eos = 3
  Pick <- MCPick
  MaxErrors = 1
  Requests = {1, 2}
  Prompts <- MCPrompts
  Asks <- MCAsks
  MaxIds = 3
  SpecPrompts <- MCSpecPrompts
  MaxNews = {0, 1, 2, 4}
  Drafts = {1, 2}
  Admissions <- MCAdmissions
  Batches = {0, 2}
  TotalBlocks = 5
  BlockSize = 4
  MaxSessions = 3
INVARIANTS RequestsIsolated SpeculationLossless CachesAgree SessionsAsAlone StepAdvancesAll ReservationsExact NeverRefused
PROPERTY CallersReturn
CHECK_DEADLOCK FALSE
