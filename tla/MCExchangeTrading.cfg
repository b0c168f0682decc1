\* Trades, holds and refunds, deposits and withdrawals, with a balance report at
\* any time.
CONSTANTS
  ExchangePair = TRUE
  RiskShards = {0, 1}
  BaseScale = 3
  QuoteScale = 5
  TakerFee = 2
  MakerFee = 1
  Commands <- TradingCommands
  InitialStates <- MCInitialStates
  MaxCommands = 4
  MaxInFlight = 3
SPECIFICATION Spec
INVARIANTS TypeOK NoOverdraft AccountsSettled ReportBalanced NoDoubleSettlement
CHECK_DEADLOCK FALSE
