SPECIFICATION FairSpec
CONSTANTS
  Clients = {c1, c2}
  Hosts = {1, 2}
  None = None
  Sockets = {TRUE}
  Events = {"crash", "death", "idle", "stop", "timeout"}
INVARIANT
  AdoptedAsRecorded
PROPERTIES
  EveryCallReturns
  OrphansRetire
