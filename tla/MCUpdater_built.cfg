SPECIFICATION BuildingSpec
CONSTANTS
  c1 = c1
  c2 = c2
  m1 = m1
  m2 = m2
  Modules <- MCOne
  Faulty <- MCNone
  Consoles <- MCOneConsole
  Updater = updater
  NoModule = nomodule
  Threshold = 1
  MaxTime = 3
  MaxCommits = 2
  MaxCommands = 0
PROPERTY OldIsBuilt
CHECK_DEADLOCK FALSE
