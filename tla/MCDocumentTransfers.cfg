SPECIFICATION Spec
CONSTANTS
  MaxRequests = 3
  Exporter = {ana, luis}
  Importer = {ana}
  File = {plain, lossy}
  Lossy = {lossy}
  Window = 2
  ActorLimit = 2
  MaxConcurrent = 2
  MaxTracked = 1
  MaxTime = 2
  MaxRevision = 1
INVARIANTS
  SlotsExact
  WindowRespected
PROPERTY
  AppliedAsPreviewed
CHECK_DEADLOCK FALSE
