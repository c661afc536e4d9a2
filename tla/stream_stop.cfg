SPECIFICATION FairSpec
CONSTANTS
  Url <- MCUrl
  Domain <- MCDomain
  NoDomain = NoDomain
  UrlDomain <- MCUrlDomain
  SitemapsOf <- MCSitemapsOf
  Text <- MCText
  NoText = NoText
  HashOf <- MCHashOf
  NoRow = NoRow
  Event <- OddEvent
  BatchSize = 2
  MaxEvents = 3
  MaxCrashes = 1
  CanSignal = TRUE
  MaxFaults = 3
  FalsePositives = {}
PROPERTIES StopsAfterSignal DeliveredWhenCalm
