SPECIFICATION Spec
CONSTANTS
  Requests = {r1, r2}
  NoRequest = NoRequest
  Warmers = {}
  RaisePoints = {"admitted", "spawning", "starting", "ready", "writing", "stored", "bound", "consuming", "running"}
  Relapses = TRUE
  Failures = TRUE
  Stubborn = FALSE
  Stoppable = FALSE
INVARIANTS
  WorkServedIsTheHolders
  EventsBelongToReader
  NoOrphan
PROPERTY
  KillsAreEntitled
