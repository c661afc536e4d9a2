SPECIFICATION FairSpec
CONSTANTS
  t1 = t1
  t2 = t2
  t3 = t3
  Task = {t1, t2, t3}
  NoTask = NoTask
  NoDomain = NoDomain
  Threads = 3
  Domain <- SlowOnly
  Shard <- MCShard
  ShardOf <- MCShardOf
  WithSitemaps <- SlowOnly
  CrawlDelay <- MCCrawlDelay
  DefaultDelay = 1
  KnownAtFirst <- Nowhere
  NoState = NoState
  CanSignal = TRUE
  MaxClock = 2
INVARIANT TypeOK
PROPERTY SignalHandled
CHECK_DEADLOCK FALSE
