SPECIFICATION MCSpec
CONSTANTS
  Sid = {s1}
  Worker = {w1}
  Host = {h1}
  Archivable = {s1}
  Stale = 0
  Retention = 1
  MaxTurns = 1
  s1 = s1
  s2 = s2
  None = None
  Session = {s1, s2}
  Tmux = {s1, s2}
  Filters <- MCFilters
  MaxStale = 1
  Log = {l1, l2}
  Pane = {p1}
  Nothing = Nothing
  CacheCap = 1
  MaxFetches = 3
INVARIANTS ServerTypeOK PromisesKept StartIsRepeatable TabsAreDurable
INVARIANTS ListTypeOK PreviewIsOfSelected InFlightIsOutstanding
PROPERTIES SeenCountersNeverFall StartShowsBusyRemovals
PROPERTIES SelectionFollows RemovesWhatWasPointedAt RemovedStaysOffScreen LogPreviewIsSteady
