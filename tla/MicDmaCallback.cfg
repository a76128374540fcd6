SPECIFICATION FairSpec
CONSTANTS
  Clients = {a}
  Irq = irq
  Nobody = nobody
  RX_SIZE = 3
  PendingLevel = 1
  AbortTries = 1
  Requests <- MCRequests
  MaxTx = 2
  MaxAbort = 0
PROPERTIES CallbackCalled
CHECK_DEADLOCK FALSE
