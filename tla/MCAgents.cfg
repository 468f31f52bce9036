SPECIFICATION AgentsSpec
CONSTANTS
  c1 = c1
  c2 = c2
  NoPid = NoPid
  EndNames = {"SessionEnd"}
  Root = {c1, c2}
  Child = {}
  ParentOf <- EmptyMap
  Pid = {"p1", "p2"}
  MaxTurns <- MCTurns
  PidOf <- MCPidOf
  Desktop = {c2}
  Budgets <- MCBudgets
  DshSession = {d1}
  NoRow = NoRow
  Approval = {a1, a2}
  MaxReports = 3
  ByUnit = u
  ByHand = h
  Rm = {r1}
  Ls = {q1}
  Nobody = Nobody
  Stale = Stale
  MaxCrashes = 1
  MaxHandStarts = 1
  Careful = TRUE
CHECK_DEADLOCK FALSE
INVARIANTS ListingsShowRemovals
PROPERTIES StaleRowEndsNoTurn LostStopIsNoticed RowsFollowTheApp CountsTurns ServerComesBack
