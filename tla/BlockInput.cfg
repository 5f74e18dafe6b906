SPECIFICATION FairSpec
CONSTANTS
  MaxHead = 5
  TimeOf <- MCTimeOf
  Commands <- MCCommands
  PrefixBase = 10
  ShortValues = {}
INVARIANTS RequestsAreExact OldEnough RangesCovered
PROPERTY CommandParsed
