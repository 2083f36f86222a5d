SPECIFICATION Spec
CONSTANTS
  NStreams = 3
  NDefault = 2
  Documents <- MCDocuments
  MaxAddrs = 2
  MaxSignals = 2
INVARIANT
  ZeroIsCleanShutdown
CHECK_DEADLOCK FALSE
