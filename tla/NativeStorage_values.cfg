SPECIFICATION Spec
CONSTANTS
  a = a
  b = b
  GroupKeys <- TwoBlocks
  MaxGroup = 3
  BatchSizes = {1, 2, 4}
  MinGroup = 2
  MaxSlots = 2
  MissLimit = 2
  EarlierMisses = {0, 2}
  Answers = {"honest", "short", "shifted", "long", "missing", "stranger", "throttle", "error"}
  NoTarget = NoTarget
INVARIANTS EveryRowItsOwnValue RequestsFitTheNode
