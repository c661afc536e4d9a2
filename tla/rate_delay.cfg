SPECIFICATION Spec
CONSTANTS
  t1 = t1
  t2 = t2
  t3 = t3
  Task = {t1, t2, t3}
  NoTask = NoTask
  NoDomain = NoDomain
  Threads = 3
  Domain <- SlowAndFast
  Shard <- MCShard
  ShardOf <- MCShardOf
  WithSitemaps <- Nowhere
  CrawlDelay <- MCCrawlDelay
  DefaultDelay = 2
  KnownAtFirst <- Nowhere
  NoState = NoState
  CanSignal = FALSE
  MaxClock = 4
INVARIANT DelayKept
SYMMETRY TaskSymmetry
CHECK_DEADLOCK FALSE
