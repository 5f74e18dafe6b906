SPECIFICATION Spec
CONSTANTS
  Datatype <- MCDatatype
  Commands <- MCCommands
  Followups <- MCFollowups
  Environments <- MCEnvironments
  Cli <- CliArgs
  Zero <- ZeroArgs
INVARIANTS RefusedWithReason TasksAsAsked OutputAsAsked FramesCanBeWritten
CHECK_DEADLOCK FALSE
