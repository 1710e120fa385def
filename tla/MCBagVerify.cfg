SPECIFICATION Spec
CONSTANTS
  b1 = b1
  b2 = b2
  b3 = b3
  Bags <- MCThreeBags
  NoBag = NoBag
  Threshold = 1
  MaxTime = 2
  MaxRestarts = 1
  Slow <- MCSlow
  MaxCommands = 2
INVARIANTS TypeOK RecordBacked
PROPERTIES RecordsGoBackOnlyInRace OverdueVerified
