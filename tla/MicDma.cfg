SPECIFICATION FairSpec
CONSTANTS
  Clients = {a}
  Irq = irq
  Nobody = nobody
  RX_SIZE = 3
  PendingLevel = 1
  AbortTries = 1
  Requests <- MCRequests
  MaxTx = 3
  MaxAbort = 1
INVARIANTS
  SlotFree MovedInOrder CompletionTrue NotifyWhenStopped
PROPERTIES
  PickedUp
CHECK_DEADLOCK FALSE
