SPECIFICATION Spec
CONSTANTS
  Clients = {c1, c2, c3}
  Hosts = {1, 2, 3}
  None = None
  Sockets = {TRUE, FALSE}
  Events = {"crash", "recycle"}
INVARIANTS
  TypeOK
  ServingHostIsFound
  OneHostPerKey
PROPERTY
  ServingHostIsSpared
