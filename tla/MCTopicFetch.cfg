CONSTANTS
  N = 5
  Named <- AllButSecond
  MaxConcurrency = 2
  MaxExtraRetries = 1
SPECIFICATION FairSpec
INVARIANTS
  NoSendOnClosed
  EveryTopicSettledOnce
PROPERTIES
  FailedTopicsReadSafely
  NoGoroutineLeak
  ImplementsFairScan
CHECK_DEADLOCK FALSE
