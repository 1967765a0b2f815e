SPECIFICATION FairSpec
CONSTANTS
  Requests = {r1, e1, w1, w2}
  NoRequest = NoRequest
  Background = {w1, w2}
  Warmers = {e1, w1, w2}
  Relapses = FALSE
  Failures = FALSE
  Stubborn = TRUE
PROPERTY
  EveryFrameAnswered
