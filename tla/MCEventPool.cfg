\* One risk engine, one matching engine; chains of two events, a ring of two.
CONSTANTS
  risk = risk
  match = match
  RiskEngines = {risk}
  MatchingEngines = {match}
  RingSize = 2
  ChainLength = 2
  PoolInitialSize = 1
  MsgsInGroupLimit = 3
  EventsPerCommand = 2
  MaxCommands = 4
  MaxEvents = 6
SPECIFICATION Spec
INVARIANTS EventsOwnedOnce ChainsIntact
CHECK_DEADLOCK FALSE
