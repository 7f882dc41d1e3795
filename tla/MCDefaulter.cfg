SPECIFICATION Spec
CONSTANTS
  w1 = w1
  w2 = w2
  hub = hub
  arbitrum = arbitrum
  base = base
  scheduler = scheduler
  api = api
  Nobody = Nobody
  Hub = hub
  Scheduler = scheduler
  Threads = {scheduler, api}
  Spokes = {arbitrum}
  SpokeOrder <- OneSpoke
  OpenMarkets = {hub, arbitrum}
  Scores = {700}
  ScoreData = {0, 310, 700}
  Patient = TRUE
  MaxFailures = 0
  Happenings = {"liquidate", "overlap"}
  MaxUint8 = 2
  MaxCopies = 1
  Wallets = {w1}
PROPERTIES DefaulterStaysOut
CHECK_DEADLOCK FALSE
