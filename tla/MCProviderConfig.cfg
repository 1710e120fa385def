SPECIFICATION Spec
CONSTANTS
  s1 = s1
  s2 = s2
  k1 = k1
  k2 = k2
  ip1 = ip1
  Costs <- MCCosts
  Keys <- MCKeys
  NoChange = NoChange
  NoKey = NoKey
  DiskTotal = 3
  Spaces <- MCSpaces
  Ips <- MCIps
  Sessions <- MCTwo
  MaxCommands = 3
  MaxFailures = 1
INVARIANTS TypeOK PricesTogether ShownAsSet ProofsPaid FileIsApplied FlagIsTrue SpaceWithinDisk
PROPERTY UndoesOnlyInRace
