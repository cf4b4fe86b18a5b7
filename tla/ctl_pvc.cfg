SPECIFICATION Spec
CONSTANTS
  Scenario = "edits"
  MCNil = MCNil
  p1 = p1
  p2 = p2
  n = n
  Namespaces = {n}
  Pvcs = {p1, p2}
  Keys = {5, 7, 8, 9}
  LegacyKey = LegacyKey
  NoHash = NoHash
  Permanent <- PinnedClaim
  InitialClaims <- AllClaims
  Leftover <- NoAgents
  MountedBy <- MCMountedBy
  Budgets <- PvcBudgets
  Loads = 3
  Tickers = {}
  Handlers = {g1, g2}
  Shutdown = Shutdown
  None = None
  Mode <- MCMode
  Watched <- MCWatched
  ByVolume <- MCByVolume
  PvcHash <- MCPvcHash
  PvcRuns <- MCPvcRuns
  Profile <- MCProfile
  GroupHash <- MCGroupHash
  GroupRuns <- MCGroupRuns
INVARIANTS TypeOK AgentsFromAppliedConfig DisabledOnlyDuringGc
PROPERTIES SteadyAgentsKept ImplementsFleet
CHECK_DEADLOCK FALSE
