\* Two clients, two risk engines and a matching engine; messages of two frames,
\* fragments of one.
CONSTANTS
  c1 = c1
  c2 = c2
  RiskShards = {0, 1}
  MatchingShards = {0}
  FragmentSize = 1
  Clients = {c1, c2}
  Requests <- RequestsOfAllKinds
  MaxRequests = 3
  MaxCommands = 4
SYMMETRY ClientSymmetry
SPECIFICATION Spec
INVARIANTS FuturesAnswered ReportComplete SnapshotFailureReported MessagesWhole
CHECK_DEADLOCK FALSE
