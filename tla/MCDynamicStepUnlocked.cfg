\* The mode in which a consumer's set_step publishes without the lock.
CONSTANTS
  Consumers <- OneConsumer
  Modes <- OnlyConsumerUnblock
  Last = 4
  NewSteps = {1, 2, 4}
  MaxChanges = 2
SPECIFICATION FairSpec
PROPERTIES PublishedNeverMovesBack
CHECK_DEADLOCK FALSE
