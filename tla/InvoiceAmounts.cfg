CONSTANTS
  NoValue = NoValue
  Prices <- MCPrices
  Days <- MCDays
  Periods <- MCPeriods
  Discounts = {0, 2}
  TaxRates = {0, 1500, 5000}
  MaxIssued = 2
SPECIFICATION Spec
CHECK_DEADLOCK FALSE
INVARIANT TypeOK
INVARIANT NegativeOnlyByDiscount
INVARIANT SplitPeriodsAddUp
INVARIANT ChargeGrowsWithDays
