SPECIFICATION FairSpec
CONSTANTS
  QueueSize = 3
  RetryCount = 2
  FullRetry = 2
  RetryGap = 2
  DefaultInterval = 1
  HalfExtra = 2
  SettleTime = 1
  AwakeTime = 4
  MaxTime = 4
  Nkro = TRUE
  Consumer = FALSE
  Noise = FALSE
  FifoSize = 2
  AckBound = 2
  TxRoom = 3
  MaxReports = 4
INVARIANTS TypeOK InOrder NothingLost NoStuckKey MacroFits
PROPERTIES Delivered
