SPECIFICATION MCSpec
CONSTANTS
  r1 = r1
  r2 = r2
  c1 = c1
  NoPid = NoPid
  EndNames = {"SessionEnd", "session_end"}
  Root = {r1, r2}
  Child = {c1}
  ParentOf <- MCParentOf
  Pid = {p1}
  MaxTurns <- MCMaxTurns
  OcSession = {o1, o2, o3}
  Here = {o1, o2}
  Subagent = {o2}
  MaxQueued = 2
  m1 = m1
  m2 = m2
  Message = {m1, m2}
  Shape <- MCShape
  Marker = Marker
  Bad = Bad
  Corrupt = Corrupt
  Nobody = Nobody
  ReadLimit = 3
  RecordLimit = 2
  EntryLimit = 1
  CheckLen = 2
  MaxRows = 4
  MaxFiles = 2
  MaxWrites = 5
  Provider = {"claude", "codex", "codebuddy", "pi", "dsh", "opencode"}
  MaxLines = 4
  NoOne = NoOne
  Own = {n1, n2}
  Tab = {t1, t2}
  Agent = {a1, a2}
  Host = {h1, h2}
  Server = srv
  PaneCount = 2
  MaxSteps = 3
CHECK_DEADLOCK FALSE
INVARIANTS ReportedIsLive
