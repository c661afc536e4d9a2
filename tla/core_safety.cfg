SPECIFICATION FairSpec
CONSTANTS
  w1 = w1
  w2 = w2
  w3 = w3
  Worker = {w1, w2, w3}
  Url <- MCUrl
  Domain <- MCDomain
  NoUrl = NoUrl
  NoDomain = NoDomain
  NoLimit = NoLimit
  DomainOf <- MCDomainOf
  LinksAt <- MCLinksAt
  XmlUrls <- MCXmlUrls
  SitemapsOf <- SitemapOfOther
  Disallowed <- MCDisallowed
  SeedFile <- MCSeedFile
  Scenarios <- AllScenarios
  Limit = NoLimit
  UsizeMod = 8
  CanSignal = TRUE
  MaxFaults = 0
  FalsePositives = {}
INVARIANTS TypeOK SingleOwner NoSilentLoss ActiveTasksExact NoAbandonedQueue
PROPERTIES CrawlTerminates
CHECK_DEADLOCK FALSE
