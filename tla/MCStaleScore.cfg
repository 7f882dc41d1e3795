SPECIFICATION FairSpec
CONSTANTS
  w1 = w1
  w2 = w2
  hub = hub
  arbitrum = arbitrum
  base = base
  scheduler = scheduler
  api = api
  Nobody = Nobody
  Hub = hub
  Scheduler = scheduler
  Threads = {scheduler, api}
  Spokes = {arbitrum}
  SpokeOrder <- OneSpoke
  OpenMarkets = {}
  Scores = {600, 700}
  ScoreData = {0, 310, 600, 700}
  Patient = FALSE
  MaxFailures = 0
  Happenings = {"rescore", "overlap"}
  MaxUint8 = 1
  MaxCopies = 1
  Wallets = {w1}
PROPERTIES ScoreArrives
CHECK_DEADLOCK FALSE
