SPECIFICATION FairSpec
CONSTANTS
  MaxCalls = 8
  DefaultSize = 6
  Faults = {"param", "envelope", "item", "decode", "per_row"}
INVARIANTS ResultsInRequestOrder CapIsFound
PROPERTY CallReturns
