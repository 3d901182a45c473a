SPECIFICATION ProgressSpec
CONSTANTS
  Logins = {l1, l2}
  Extractions = {x1}
  Holders = {x1, daily}
  DailyHolder = daily
  Flushes = {f1}
  NoAccount = NoAccount
  Live = Live
  Jobs = {"daily", "flush", "deactivate"}
  MaxMarket = 1
  MaxConfig = 1
  MaxCrashes = 0
  MaxConcurrency = 1
  BATCH_SIZE = 1
  MAX_CONCURRENT_BATCHES = 1
INVARIANT FlushPartition
PROPERTY RunsEnd
