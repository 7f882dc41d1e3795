SPECIFICATION Spec
CONSTANTS
  w1 = w1
  w2 = w2
  hub = hub
  arbitrum = arbitrum
  base = base
  scheduler = scheduler
  api = api
  Nobody = Nobody
  Hub = hub
  Scheduler = scheduler
  Threads = {scheduler, api}
  Spokes = {arbitrum, base}
  SpokeOrder <- TwoSpokes
  OpenMarkets = {hub, arbitrum, base}
  Scores = {600, 700}
  ScoreData = {0, 310, 600, 700}
  Patient = TRUE
  MaxFailures = 0
  Happenings = {"view", "rescore", "unlock"}
  MaxUint8 = 3
  MaxCopies = 1
  Wallets = {w1}
INVARIANTS TypeOK HubLoanLocksSpokes SpokeLoanLocksHub HubExclusive
CHECK_DEADLOCK FALSE
