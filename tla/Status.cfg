SPECIFICATION StatusSpec
CONSTANTS
  Backends = {cpu, cuda}
  Cpu = cpu
  Hardware = {cuda}
  Metal = metal
  MaxCalls = 1
  Readers = {p1}
  None = None
  NoJulia = NoJulia
  HostJulia = TRUE
  MaxContent = 2
  Processes = {p1}
  Elsewhere = {}
  Faults = {"lock"}
INVARIANTS
  OneJulia
  ReadyMeansProved
PROPERTY
  HiddenByLateAnswersOnly
CHECK_DEADLOCK FALSE
