CONSTANTS
  N = 3
  TicketLimit = 32768
  TicketCap = 2
SPECIFICATION FairSpec
INVARIANTS MutualExclusion OwnerHasPriority
PROPERTIES AwaitedTicketNeverRecurs EveryCallReturns ImplementsLock
