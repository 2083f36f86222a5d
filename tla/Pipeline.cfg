SPECIFICATION Spec
CONSTANTS
  kMaxSbfLength = 20
  rotate_bytes = 20
  Chunks = {1, 7, 30}
  Crc <- MCCrc
  Streams <- MCStreams
INVARIANT
  CountersAgree
PROPERTY
  ArchiveSpec
CHECK_DEADLOCK FALSE
