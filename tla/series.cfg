SPECIFICATION Spec
CONSTANTS
  a = a
  b = b
  c = c
  o = o
  v0 = v0
  v1 = v1
  v2 = v2
  Absent = Absent
  Marker = Marker
  Spots = {a, b, o}
  Values = {v0, v1, v2, Absent, Marker}
  OverlaySpot = o
  Bases = {1, 2, 3, 4}
  BaseTree <- MCBaseTree
  MaxNumber = 3
  InitFiles <- MCFiles
  InitOverlay = v0
  InitPin = 1
  UserEdits <- MCUserEdits
  PulledFiles <- MCPulledFiles
  PulledOverlays = {v1}
  MaxCommands = 5
INVARIANTS AppliedInFull HistoryIsSeries
PROPERTIES LintMeansSetup EditsHeld EditsCaptured
CHECK_DEADLOCK FALSE
