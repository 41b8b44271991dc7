\* Five values and steps up to past their number; consumers only read, so that
\* one is enough; three calls of set_step can meet each other and a set.
CONSTANTS
  Consumers <- OneConsumer
  Modes <- OtherModes
  Last = 4
  NewSteps = {0, 1, 3, 7}
  MaxChanges = 3
SPECIFICATION FairSpec
INVARIANTS TypeOK PublishedIsStored
PROPERTIES PublishedNeverMovesBack EveryGetReturns
\* The producer and the consumers end.
CHECK_DEADLOCK FALSE
