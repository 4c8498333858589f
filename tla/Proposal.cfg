SPECIFICATION Spec
CONSTANTS
  NoQuote = NoQuote
  Contracts <- MCContracts
  Prices <- MCPrices
  Chains <- MCChains
  Forecasts <- MCForecasts
  Contexts <- MCContexts
  Multiplier = 200
  Capacity = 3
  MaxQuoteWidth = 4
  FrictionPerWidth = 1
  Fees = 52
  MaxTradeLoss = 2600
  MaxDailyLoss = 2900
  MaxDrawdown = 1
  MaxEntries = 1
  MaxImprovement = 1
INVARIANTS TypeOK LossIsBounded CertifiedLossIsExact JudgmentIsRight OwnPositionIsClosable CloseUndoesEntry
CHECK_DEADLOCK FALSE
