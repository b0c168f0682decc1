\* The margin of all positions against an order in another contract.
CONSTANTS
  ExchangePair = FALSE
  RiskShards = {0, 1}
  BaseScale = 1
  QuoteScale = 1
  TakerFee = 2
  MakerFee = 1
  Specs <- MCSpecs
  Commands <- MCCommands
  InitialEngines <- MCInitialEngines
  SendL2ForEveryCmd = TRUE
  MaxCommands = 4
  MaxInFlight = 2
SPECIFICATION Spec
INVARIANT MarginCovered
CHECK_DEADLOCK FALSE
