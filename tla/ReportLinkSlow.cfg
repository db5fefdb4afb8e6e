SPECIFICATION Spec
CONSTANTS
  QueueSize = 3
  RetryCount = 2
  FullRetry = 2
  RetryGap = 2
  DefaultInterval = 1
  HalfExtra = 2
  SettleTime = 1
  AwakeTime = 4
  MaxTime = 4
  Nkro = TRUE
  Consumer = FALSE
  Noise = TRUE
  FifoSize = 1
  AckBound = 3
  TxRoom = 2
  MaxReports = 3
PROPERTIES SleepsAnswered
