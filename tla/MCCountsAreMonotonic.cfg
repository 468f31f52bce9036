SPECIFICATION MCSpec
CONSTANTS
  r1 = r1
  r2 = r2
  NoPid = NoPid
  EndNames = {"SessionEnd", "session_end"}
  Root = {r1, r2}
  Child = {}
  ParentOf <- MCParentOf
  Pid = {p1}
  MaxTurns <- MCMaxTurns
INVARIANT CountsAreMonotonic
