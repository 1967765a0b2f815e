SPECIFICATION Spec
CONSTANTS
  Requests = {r1, r2, w1, w2}
  NoRequest = NoRequest
  Background = {w1, w2}
  Warmers = {w1, w2}
  Relapses = FALSE
  Failures = TRUE
  Stubborn = TRUE
INVARIANTS
  TypeOK
  EventsBelongToReader
PROPERTY
  RetireSparesOthers
SYMMETRY Symmetry
