SPECIFICATION Spec
CONSTANTS
  blocks = blocks
  txs = txs
  logs = logs
  blocksAndTxs = blocksAndTxs
  logsAlone = logsAlone
  p1 = p1
  p2 = p2
  p3 = p3
  p4 = p4
  l1 = l1
  l2 = l2
  l3 = l3
  Datatypes = {blocks, txs, logs}
  Groups = {blocksAndTxs, logsAlone}
  DatatypesOf <- TwoGroups
  Partitions = {p1}
  Labels = {l1}
  LabelOf <- OneLabel
  ChunkPermits = 0
  MaxRuns = 2
INVARIANTS FilesAreWhole SummaryIsTrue
PROPERTIES RunsAccountedFor LoneFilesKept
