SPECIFICATION Spec
CONSTANTS
  Logins = {l1}
  Extractions = {x1}
  Holders = {x1, daily}
  DailyHolder = daily
  Flushes = {f1}
  NoAccount = NoAccount
  Live = Live
  Jobs = {"extractor", "configure"}
  MaxMarket = 1
  MaxConfig = 2
  MaxCrashes = 0
  MaxConcurrency = 1
  BATCH_SIZE = 1
  MAX_CONCURRENT_BATCHES = 1
PROPERTY ExtractorKeepsConcurrentWrites
