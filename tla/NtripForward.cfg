SPECIFICATION FairSpec
CONSTANTS
  Fds = {3, 4}
  MaxAddrs = 2
  kMaxSendRetries = 3
  ResetEvery = 10
  enable_rtk = TRUE
  MaxBuildErrors = 1
INVARIANTS
  TypeOK
  DescriptorsOwned
  ReplacedInTime
PROPERTY
  BrokenReplaced
