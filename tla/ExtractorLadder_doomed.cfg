SPECIFICATION FairSpec
CONSTANTS
  Chunks = {c1, c2}
  Callers = {k1}
  NoTask = NoTask
  SilentFailureLimit = 3
  CounterModulus = 256
  MaxRows = 2
  CallerBatch = 1
  BatchOutcomes = {"unavailable", "shrinkable", "other"}
  PerRowMayFail = FALSE
INVARIANT DoomedCost
PROPERTY EveryTaskAnswers
