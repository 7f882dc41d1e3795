SPECIFICATION Spec
CONSTANTS
  hub = hub
  arbitrum = arbitrum
  scheduler = scheduler
  api = api
  Hub = hub
  MonitorChains <- HubAndSpoke
  Processes = {scheduler}
  Servers = {}
  Debts = {5, 8}
  Collateral = 1
  Prices = {7, 10}
  InitialPrice = 10
  Term = 1
  GracePeriod = 2
  Cooldown = 1
  MaxLoans = 1
  MaxMishaps = 0
  MaxMoves = 0
INVARIANTS ForcedOnlyOverdue
CHECK_DEADLOCK FALSE
