SPECIFICATION FairSpec
CONSTANTS
  Sweeps = {s1, s2}
  None = None
  Total = 2
  Room = 2
  Interrupts = {"callback"}
  Faults = {"engine", "cleanup", "host"}
INVARIANTS
  TypeOK
  SweepIsHonest
PROPERTY
  EverySweepEnds
CHECK_DEADLOCK FALSE
