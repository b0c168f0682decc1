\* Progress: every published command completes, also when grouping is off and
\* the groups come from the journal.
CONSTANTS
  r1 = r1
  r2 = r2
  m1 = m1
  m2 = m2
  RiskShards = {r1, r2}
  MatchingShards = {m1}
  RingSize = 2
  MsgsInGroupLimit = 3
  Journaling = TRUE
  Requests <- RequestsLive
  InvalidRequests = {}
  Clients = 1
  MaxCommands = 4
SPECIFICATION FairSpec
PROPERTY EveryCommandCompletes
CHECK_DEADLOCK FALSE
