SPECIFICATION Spec
CONSTANTS
  c1 = c1
  c2 = c2
  m1 = m1
  m2 = m2
  Modules <- MCBoth
  Faulty <- MCFaulty
  Consoles <- MCTwoConsoles
  Updater = updater
  NoModule = nomodule
  Threshold = 1
  MaxTime = 2
  MaxCommits = 2
  MaxCommands = 2
INVARIANTS TypeOK BinaryIsSource
PROPERTIES RecentOnlyIfPushedSince OldIsCheckedOut
CHECK_DEADLOCK FALSE
