SPECIFICATION Spec
CONSTANTS
  Nil = Nil
  DefaultId = 65532
  GlobMatch <- MCGlobMatch
  Configs <- MCConfigs
  Claims <- MCClaims
  Listed <- MCListed
  MCIds = {Nil, 0, 3}
  MCUsers = {Nil, 65532}
  MCModes = {"agent-per-pvc", "agent-per-namespace"}
  MCPatterns = {"cephfs", "nfs", "ceph*"}
INVARIANTS TypeOK EditReachesAgent RoutedToOwnGroup RunsDocumentedSettings MountedOnce ReadOnlyDefaultHolds
PROPERTIES NoNeedlessRestart
