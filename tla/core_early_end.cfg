SPECIFICATION Spec
CONSTANTS
  w1 = w1
  w2 = w2
  w3 = w3
  Worker = {w1, w2}
  Url <- MCUrl
  Domain <- MCDomain
  NoUrl = NoUrl
  NoDomain = NoDomain
  NoLimit = NoLimit
  DomainOf <- MCDomainOf
  LinksAt <- MCLinksAt
  XmlUrls <- MCXmlUrls
  SitemapsOf <- NoSitemaps
  Disallowed <- Nowhere
  SeedFile <- MCSeedFile
  Scenarios <- FreshOnly
  Limit = NoLimit
  UsizeMod = 8
  CanSignal = FALSE
  MaxFaults = 0
  FalsePositives = {}
INVARIANT CrawlsUntilEmpty
CHECK_DEADLOCK FALSE
