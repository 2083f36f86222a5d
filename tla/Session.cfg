SPECIFICATION FairSpec
CONSTANTS
  NStreams = 3
  NDefault = 2
  Documents <- MCDocuments
  MaxAddrs = 2
  MaxSignals = 2
INVARIANTS
  TypeOK
  ConfiguredAsAsked
  RejectedEarly
  StopsSent
PROPERTIES
  SignalEndsRun
  
CHECK_DEADLOCK FALSE
