SPECIFICATION FairSpec
CONSTANTS
  Scenario = "regroup"
  MCNil = MCNil
  p1 = p1
  p2 = p2
  n = n
  Namespaces = {n}
  Pvcs = {p1, p2}
  Keys = {5, 7, 9}
  LegacyKey = LegacyKey
  NoHash = NoHash
  Permanent <- NoAgents
  InitialClaims <- AllClaims
  Leftover <- OldAgents
  MountedBy <- MCMountedBy
  Budgets <- NsHealBudgets
  Loads = 1
  Tickers = {ticker}
  Handlers = {g1}
  Shutdown = Shutdown
  None = None
  Mode <- MCMode
  Watched <- MCWatched
  ByVolume <- MCByVolume
  PvcHash <- MCPvcHash
  PvcRuns <- MCPvcRuns
  Profile <- MCProfile
  GroupHash <- MCGroupHash
  GroupRuns <- MCGroupRuns
INVARIANTS AgentsFromAppliedConfig
PROPERTIES NamespaceFleetConverges
