SPECIFICATION MCSpec
CONSTANTS
  w1 = w1
  w2 = w2
  h1 = h1
  Sid = {s1}
  Worker = {w1, w2}
  Host = {h1}
  Archivable = {s1}
  Stale = 1
  Retention = 2
  MaxTurns = 2
INVARIANTS TurnsArePaired
PROPERTIES ClosedTabStaysHidden DeadAgentsLeave DeadAgentsAreForgotten RemovalSticks RemovalHidesAgain CountsTurns
