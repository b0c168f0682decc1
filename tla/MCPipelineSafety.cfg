\* One risk engine, two matching engines and the journal; orders, snapshots,
\* resets, shutdown signals, binary messages and a request that throws.
CONSTANTS
  r1 = r1
  r2 = r2
  m1 = m1
  m2 = m2
  RiskShards = {r1}
  MatchingShards = {m1, m2}
  RingSize = 3
  MsgsInGroupLimit = 3
  Journaling = TRUE
  Requests <- RequestsCuts
  InvalidRequests = {1}
  Clients = 2
  MaxCommands = 4
SPECIFICATION Spec
INVARIANTS TypeOK StageOrder NoOverrun GroupSettled
PROPERTIES SnapshotCut ReportCut
CHECK_DEADLOCK FALSE
