SPECIFICATION Spec
CONSTANTS
  app1 = app1
  app2 = app2
  bar = bar
  m1 = m1
  m2 = m2
  m3 = m3
  None = None
  Clients <- MCClients
  Docks <- MCDocks
  Monitors <- MCMonitors
  Masks <- MCMasks
  TagCount = 3
  Positions = {"after_focused"}
  MaxSteps = 4
  MaxOutputs = 2
SYMMETRY Symmetry
CHECK_DEADLOCK FALSE
INVARIANTS TypeOK ListedOnce SelectionOwned
PROPERTIES TiledFirst FocusStaysInView
