SPECIFICATION Spec
CONSTANTS
  b1 = b1
  b2 = b2
  provider_db = provider_db
  Bags <- MCBags
  OtherEntries <- MCOtherEntries
  ApiCase = "lower"
  DirCase = "lower"
  MaxRestarts = 1
INVARIANTS TypeOK ProviderDataKept
PROPERTIES LosesOnlyBagsAddedSinceListing OrphansCollected
