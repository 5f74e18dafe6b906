SPECIFICATION Spec
CONSTANTS
  Chunks = {c1, c2}
  Callers = {k1}
  NoTask = NoTask
  SilentFailureLimit = 3
  CounterModulus = 4
  MaxRows = 2
  CallerBatch = 1
  BatchOutcomes = {"verified", "unavailable", "shrinkable", "other"}
  PerRowMayFail = TRUE
SYMMETRY TaskSymmetry
INVARIANTS FirstAttemptGated NoLeakedPermit EveryRowOnce
PROPERTY VerdictLatches
