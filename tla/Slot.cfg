SPECIFICATION FairSpec
CONSTANTS
  Requests = {r1, r2, r3}
  NoRequest = NoRequest
  Interruptible = {r1, r2, r3}
  Droppable = {r1, r2, r3}
INVARIANTS
  TypeOK
  OwnershipExact
  ClosedParksNobody
  QueuedBehindSomebody
PROPERTIES
  RetireExcludesHandover
  NoAdmissionAfterClose
  ImplementsOwnership
  EveryWaiterAnswered
  CloseEndsTheQueue
