SPECIFICATION OperatorSpec
CONSTANTS
  Spokes = {"base"}
  MaxRuns = 3
  MaxHubRuns = 1
  Careful = TRUE
  Scripts <- AllScripts
  Wallets = {"debtor", "linked", "zero"}
  Zero = "zero"
  MaxUint8 = 2
  ScoreData = {0, 310, 600, 830}
  HubScores = {600, 830}
  FullScore = 830
  MaxCopies = 1
  Rows = {"debtor", "linked"}
  Scored = {{}, {"debtor", "linked"}}
  Debtors = {"debtor"}
  MaxScripts = 2
  MaxShocks = 2
  scheduler = scheduler
  route1 = route1
  route2 = route2
  repaid = repaid
  default = default
  Threads = {scheduler, route1, route2}
  Process <- MCProcess
  Payloads = {repaid, default}
  max_retries = 2
  MaxSends = 3
  MaxDrops = 1
SYMMETRY Symmetry
INVARIANTS RecordedHubWired RecordedSpokeWired VerifiedMeshDelivers GrantReachesOApp PardonHolds NoncesSound
CHECK_DEADLOCK FALSE
