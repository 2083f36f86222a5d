SPECIFICATION FairSpec
CONSTANTS
  max_queue_size = 1
  max_reconnect_attempts = 2
  max_buffer_size = 3
  BlockSize = 2
  MaxRead = 2
  MaxUnits = 2
  enable_rtk = FALSE
  auto_reconnect = TRUE
  use_vrs = FALSE
  CallbackThrows = FALSE
  UseSourceTable = FALSE
PROPERTY
  DisconnectReturns
