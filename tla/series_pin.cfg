SPECIFICATION Spec
CONSTANTS
  a = a
  b = b
  c = c
  o = o
  v0 = v0
  v1 = v1
  v2 = v2
  Absent = Absent
  Marker = Marker
  Spots = {a, b, c, o}
  Values = {v0, v1, v2, Absent, Marker}
  OverlaySpot = o
  Bases = {1, 2}
  BaseTree <- TakenOverTree
  MaxNumber = 3
  InitFiles <- TakenOverFiles
  InitOverlay = v0
  InitPin = 1
  UserEdits = {}
  PulledFiles = {}
  PulledOverlays = {}
  MaxCommands = 2
PROPERTIES PinnedInFull
CHECK_DEADLOCK FALSE
