SPECIFICATION Spec
CONSTANTS
  Backends = {cpu, cuda}
  None = None
  NoJulia = NoJulia
  HostJulia = FALSE
  MaxContent = 1
  Processes = {p1, p2}
  Elsewhere = {}
  Readers = {}
  Cpu = cpu
  Faults = {"call", "remove"}
INVARIANT
  JuliaInUseIntact
CHECK_DEADLOCK FALSE
