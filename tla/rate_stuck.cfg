SPECIFICATION FairSpec
CONSTANTS
  t1 = t1
  t2 = t2
  t3 = t3
  Task = {t1, t2, t3}
  NoTask = NoTask
  NoDomain = NoDomain
  Threads = 2
  Domain <- SlowOnly
  Shard <- MCShard
  ShardOf <- MCShardOf
  WithSitemaps <- SlowOnly
  CrawlDelay <- MCCrawlDelay
  DefaultDelay = 1
  KnownAtFirst <- SlowOnly
  NoState = NoState
  CanSignal = TRUE
  MaxClock = 3
PROPERTY SignalHandled
CHECK_DEADLOCK FALSE
