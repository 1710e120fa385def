SPECIFICATION Spec
CONSTANTS
  sda = sda
  sdb = sdb
  Disks <- MCDisks
  NoReading = NoReading
  DayLength = 2
  Keep = 2
  MaxTime = 4
  MaxPlugs = 1
  MaxRestarts = 1
  MaxBacks = 1
  MaxRaises = 1
INVARIANTS TypeOK SpansAgree OneDevice HistoryIsNewest
SYMMETRY DiskSymmetry
