SPECIFICATION FairSpec
CONSTANTS
  blocks = blocks
  txs = txs
  logs = logs
  blocksAndTxs = blocksAndTxs
  logsAlone = logsAlone
  p1 = p1
  p2 = p2
  p3 = p3
  p4 = p4
  l1 = l1
  l2 = l2
  l3 = l3
  Datatypes = {logs}
  Groups = {logsAlone}
  DatatypesOf <- LogsOnly
  Partitions = {p1, p2, p3, p4}
  Labels = {l1, l2, l3}
  LabelOf <- SharedLabel
  ChunkPermits = 2
  MaxRuns = 1
INVARIANT FilesAreWhole
PROPERTY FreezeReturns
