SPECIFICATION Spec
CONSTANTS
  Scenario = "revert"
  MCNil = MCNil
  p1 = p1
  p2 = p2
  n = n
  Namespaces = {n}
  Pvcs = {p2}
  Keys = {5, 7, 8, 9}
  LegacyKey = LegacyKey
  NoHash = NoHash
  Permanent <- AllClaims
  InitialClaims <- AllClaims
  Leftover <- NoAgents
  MountedBy <- MCMountedBy
  Budgets <- RevertBudgets
  Loads = 3
  Tickers = {ticker}
  Handlers = {g1}
  Shutdown = Shutdown
  None = None
  Mode <- MCMode
  Watched <- MCWatched
  ByVolume <- MCByVolume
  PvcHash <- MCPvcHash
  PvcRuns <- MCPvcRuns
  Profile <- MCProfile
  GroupHash <- MCGroupHash
  GroupRuns <- MCGroupRuns
INVARIANTS HashDetectsChanges
