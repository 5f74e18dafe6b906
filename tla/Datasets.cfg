SPECIFICATION Spec
CONSTANTS
  LogInputs <- MCLogInputs
  TraceInputs <- MCTraceInputs
  StateInputs <- MCStateInputs
  TxInputs <- MCTxInputs
  BeaconInputs <- MCBeaconInputs
  CallInputs <- MCCallInputs
INVARIANTS CoalescedAgrees ByTransactionAgrees LogRowsAreApart TracesAreTrue DiffsAreExact
  TransactionsAreTrue BeaconRowsAreTrue CallRowsAreTrue
CHECK_DEADLOCK FALSE
