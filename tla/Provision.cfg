SPECIFICATION FairSpec
CONSTANTS
  Backends = {cpu, cuda}
  None = None
  NoJulia = NoJulia
  HostJulia = FALSE
  MaxContent = 1
  Processes = {p1, p2}
  Elsewhere = {}
  Readers = {}
  Cpu = cpu
  Faults = {"write", "call", "remove"}
INVARIANTS
  TypeOK
  NamedJuliaIntact
PROPERTIES
  TreeInUseUntouched
  ImplementsReadiness
  LockPassesOn
CHECK_DEADLOCK FALSE
