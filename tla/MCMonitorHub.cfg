SPECIFICATION FairSpec
CONSTANTS
  hub = hub
  arbitrum = arbitrum
  scheduler = scheduler
  api = api
  Hub = hub
  MonitorChains <- HubOnly
  Processes = {scheduler, api}
  Servers = {api}
  Debts = {5, 8}
  Collateral = 1
  Prices = {7, 10}
  InitialPrice = 10
  Term = 1
  GracePeriod = 2
  Cooldown = 1
  MaxLoans = 2
  MaxMishaps = 1
  MaxMoves = 1
CONSTRAINT PairOrServed
INVARIANTS TypeOK ForcedAfterGrace WarnedFirst
PROPERTIES OverdueResolved
CHECK_DEADLOCK FALSE
