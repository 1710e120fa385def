SPECIFICATION Spec
CONSTANTS
  s1 = s1
  s2 = s2
  k1 = k1
  k2 = k2
  NoKey = NoKey
  Sessions <- MCSessions
  Keys <- MCKeys
  Amounts <- MCAmounts
  Reserve = 1
  RegAmount = 1
  RegMin = 2
  Gases <- MCGases
  MaxBalance = 2
  MaxCommands = 3
SYMMETRY Symmetry
INVARIANTS TypeOK AcceptedIsPaid PaidOnce
