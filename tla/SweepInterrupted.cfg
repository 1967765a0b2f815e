SPECIFICATION Spec
CONSTANTS
  Sweeps = {s1, s2}
  None = None
  Total = 2
  Room = 2
  Interrupts = {"reading"}
  Faults = {}
INVARIANT
  SweepIsHonest
CHECK_DEADLOCK FALSE
