\* Positions and pending sizes while up to three commands are in flight.
CONSTANTS
  ExchangePair = FALSE
  RiskShards = {0, 1}
  BaseScale = 1
  QuoteScale = 1
  TakerFee = 2
  MakerFee = 1
  Specs <- MCSpecs
  Commands <- MCCommands
  InitialEngines <- MCInitialEngines
  SendL2ForEveryCmd = TRUE
  MaxCommands = 4
  MaxInFlight = 3
SPECIFICATION Spec
INVARIANTS PositionsValid PendingAccounted PositionsKept MarginBalanced
CHECK_DEADLOCK FALSE
