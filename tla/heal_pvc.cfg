SPECIFICATION FairSpec
CONSTANTS
  Scenario = "heal"
  MCNil = MCNil
  p1 = p1
  p2 = p2
  n = n
  Namespaces = {n}
  Pvcs = {p2}
  Keys = {7, 9}
  LegacyKey = LegacyKey
  NoHash = NoHash
  Permanent <- NoAgents
  InitialClaims <- AllClaims
  Leftover <- NoAgents
  MountedBy <- MCMountedBy
  Budgets <- PvcHealBudgets
  Loads = 2
  Tickers = {ticker}
  Handlers = {g1, g2}
  Shutdown = Shutdown
  None = None
  Mode <- MCMode
  Watched <- MCWatched
  ByVolume <- MCByVolume
  PvcHash <- MCPvcHash
  PvcRuns <- MCPvcRuns
  Profile <- MCProfile
  GroupHash <- MCGroupHash
  GroupRuns <- MCGroupRuns
PROPERTIES PvcFleetConverges
