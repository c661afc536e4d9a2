SPECIFICATION FairSpec
CONSTANTS
  w1 = w1
  w2 = w2
  w3 = w3
  Worker = {w1, w2}
  Url <- MCUrl
  Domain <- MCDomain
  NoUrl = NoUrl
  NoDomain = NoDomain
  NoLimit = NoLimit
  DomainOf <- MCDomainOf
  LinksAt <- FewLinksAt
  XmlUrls <- MCXmlUrls
  SitemapsOf <- SitemapOfHome
  Disallowed <- MCDisallowed
  SeedFile <- OneSeed
  Scenarios <- PublishedOrSeeded
  Limit = 1
  UsizeMod = 8
  CanSignal = TRUE
  MaxFaults = 3
  FalsePositives = {}
PROPERTIES StopsOnceAsked OvershootBounded
CHECK_DEADLOCK FALSE
