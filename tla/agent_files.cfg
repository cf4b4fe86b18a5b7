SPECIFICATION Spec
CONSTANTS
  Mode = "agent-per-namespace"
  Pvcs = {"p"}
  Paths <- MCPaths
  InitialTree <- MCTree
  Downloaded <- MCDownloaded
  LinkTarget <- MCLinkTarget
  Uploads <- MCUploads
  MaxInode = 4
  MaxLinks = 2
  MaxInt = 3
  r1 = r1
  r2 = r2
  Requests = {r1, r2}
  Budgets <- MCBudgets
SYMMETRY Slots
INVARIANTS TypeOK UploadsWhole TagNamesContents PanelShowsItsDirectory PagesShowAll RangesExact
PROPERTIES OnlyAskedChanges
CHECK_DEADLOCK FALSE
