\* Orders, queries, resets, snapshots and shutdowns over two restarts.
CONSTANTS
  Requests <- RequestsOrders
  JournalBufferSize = 4
  JournalBufferFlushTrigger = 3
  JournalFileMaxSize = 2
  MaxRequests = 3
  MaxRestarts = 2
SPECIFICATION Spec
INVARIANTS TypeOK RecoversPrefix ReleasedIsKept JournalComplete ReplayNotJournaled
CHECK_DEADLOCK FALSE
