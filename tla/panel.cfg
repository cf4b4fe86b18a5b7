SPECIFICATION Spec
CONSTANTS
  Namespaces <- MCNamespaces
  PvcsOf <- MCPvcsOf
  Paths <- MCPaths
  Root = "/"
  Pages <- MCPages
  None = None
  Budgets <- MCBudgets
INVARIANTS ShownBelongsToSelection QuietShowsSelection
CHECK_DEADLOCK FALSE
