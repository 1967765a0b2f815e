SPECIFICATION FairSpec
CONSTANTS
  Requests = {r1, r2}
  NoRequest = NoRequest
  Warmers = {}
  RaisePoints = {"returned", "reading"}
  Relapses = FALSE
  Failures = FALSE
  Stubborn = TRUE
  Stoppable = TRUE
INVARIANT
  TypeOK
PROPERTIES
  EverySubmissionEnds
  EverySessionEnds
  ShutdownEndsTheQueue
