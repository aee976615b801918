\* Quarters for steps, and an exchange that is three times as fine.
SPECIFICATION Spec
CONSTANTS
  Precision = 4
  Finer = 3
  Balances <- SmallBalances
  EntryPrices <- SmallPrices
  RiskPercents <- Risks
  Commissions <- SomeCommissions
INVARIANTS
  SizingInv
  LossWithinRisk
