CONSTANTS
  Tabs = {"loans", "account", "prep", "default", "agents", "shell"}
  Wallets = {"a", "b"}
  NoWallet = "none"
  Chains = {"hub", "base"}
  Hub = "hub"
  NoChain = "none"
  ScoreOf <- MCScoreOf
  Amounts = {1100, 1200}
  Prices = {3000, 2980, 2500}
  Drift = 80
  OneEth = 10000
  MaxLoans = 2
  MaxInputs = 3
  MaxWorld = 1
  Results = {600, 700}
  Floor = 500
  MaxClicks = 2
  MaxRuns = 2
  MaxOutside = 1
  Steps <- MCSteps
  StartUsdc = {0, 10}
  MaxStarts = 2
  MaxTrouble = 1
  MaxRemounts = 1
  CrashPrice = 200
  FlowPrices = {200, 3000}
  LimitOf <- MCLimitOf
  MaxFlows = 2
  MaxOthers = 2
  MaxChanges = 1
  MaxSwitches = 2
  MaxFailures = 1
  MaxReads = 2
  MaxWire = 1
  MaxNavs = 5
  MaxEntries = 5
SPECIFICATION Spec
INVARIANTS EventsTrue OneRunUncancelled HealedAtRest DoneCleans FlowClosesLoan
PROPERTIES QuoteOpens LeaveAsked FeedHeals
CHECK_DEADLOCK FALSE
