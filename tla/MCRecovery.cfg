SPECIFICATION Spec
CONSTANTS
  w1 = w1
  w2 = w2
  hub = hub
  arbitrum = arbitrum
  base = base
  scheduler = scheduler
  api = api
  Nobody = Nobody
  Hub = hub
  Scheduler = scheduler
  Threads = {scheduler, api}
  Spokes = {arbitrum}
  SpokeOrder <- OneSpoke
  OpenMarkets = {hub}
  Scores = {700}
  ScoreData = {0, 310, 700}
  Patient = TRUE
  MaxFailures = 1
  Happenings = {"liquidate", "whitelist"}
  MaxUint8 = 1
  MaxCopies = 1
  Wallets = {w1, w2}
INVARIANTS ShunnedForCause ScoreRestored
CONSTRAINT OneBorrower
CHECK_DEADLOCK FALSE
