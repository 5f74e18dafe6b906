SPECIFICATION Spec
CONSTANTS
  Datatype <- MCDatatype
  Commands <- MCKept
  Followups <- MCFollowups
  Environments <- MCEnvironments
  Cli <- CliArgs
  Zero <- ZeroArgs
INVARIANT NewArgumentsOverride
CHECK_DEADLOCK FALSE
