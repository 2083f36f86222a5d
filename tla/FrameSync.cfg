SPECIFICATION FairSpec
CONSTANTS
  kMaxSbfLength = 16
  MaxChunk = 16
  Crc <- MCCrc
  Streams <- MCStreams
INVARIANTS
  TypeOK
  DrainWithinBuffer
  NothingOverlooked
  RejectionsAccounted
  RetainedBound
  IInv
PROPERTIES
  PromiseSpec
  FeedReturns
