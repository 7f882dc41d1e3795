SPECIFICATION FairSpec
CONSTANTS
  l1 = l1
  l2 = l2
  cron = cron
  api = api
  Lenders <- MCLenders
  Deposits <- MCDeposits
  LoanAmounts <- MCLoanAmounts
  Adjusts <- MCAdjusts
  Runners <- MCRunners
  Scheduler = cron
  MIN_BASE_RATE = 470
  MAX_BASE_RATE = 530
  MaxPool = 2
  MaxBorrowed = 2
  MaxWrites = 2
INVARIANTS TypeOK RedeemAtPar LendersWhole RateInBand RateStepBounded HardRulesWin
PROPERTIES ScarcityPricedIn
