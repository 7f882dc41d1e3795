SPECIFICATION Spec
CONSTANTS
  w1 = w1
  w2 = w2
  l1 = l1
  Nobody = Nobody
  Wallets <- MCWallets
  Lenders <- MCLenders
  Deposits <- MCDeposits
  DefaultProbs <- MCDefaultProbs
  BalancesCents <- MCBalancesCents
  Scores <- MCScores
  BorrowAmounts <- MCBorrow
  CollateralAmounts <- MCCollateral
  Prices <- MCPrices
  Thresholds <- MCThresholds
  BaseRates <- MCBaseRates
  Funding <- MCFunding
  Year = 1
  MaxUint8 = 2
  MaxPool = 10
  MaxLoans = 2
  MaxTime = 1
  MaxLiquidity = 27
SYMMETRY Symmetry
CONSTRAINT PairOrSolo
INVARIANTS TypeOK LoanIndex DefaultsCleanly CollateralBacked PoolDebtBacked
PROPERTIES OpensHealthy ImplementsCreditLine
CHECK_DEADLOCK FALSE
