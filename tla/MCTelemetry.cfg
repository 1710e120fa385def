SPECIFICATION Spec
CONSTANTS
  c1 = c1
  c2 = c2
  Consoles <- MCConsoles
  BenchmarkInterval = 2
  MaxTime = 6
  MaxCommands = 3
  MaxRestarts = 1
INVARIANTS TypeOK EnabledIsRegistered
PROPERTIES BenchmarkSentOnce EnabledSends
