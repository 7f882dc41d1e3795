SPECIFICATION FairSpec
CONSTANTS
  w1 = w1
  w2 = w2
  hub = hub
  arbitrum = arbitrum
  base = base
  scheduler = scheduler
  api = api
  Nobody = Nobody
  Hub = hub
  Scheduler = scheduler
  Threads = {scheduler, api}
  Spokes = {arbitrum}
  SpokeOrder <- OneSpoke
  OpenMarkets = {hub}
  Scores = {700}
  ScoreData = {0, 310, 700}
  Patient = FALSE
  MaxFailures = 1
  Happenings = {"liquidate", "whitelist", "overlap"}
  MaxUint8 = 2
  MaxCopies = 1
  Wallets = {w1}
PROPERTIES EventuallyLocked EventuallyUnlocked
CHECK_DEADLOCK FALSE
