SPECIFICATION FairSpec
CONSTANTS
  Url <- MCUrl
  Domain <- MCDomain
  NoDomain = NoDomain
  UrlDomain <- MCUrlDomain
  SitemapsOf <- MCSitemapsOf
  Text <- MCText
  NoText = NoText
  HashOf <- MCHashOf
  NoRow = NoRow
  Event <- MCEvent
  BatchSize = 2
  MaxEvents = 2
  MaxCrashes = 1
  CanSignal = FALSE
  MaxFaults = 0
  FalsePositives = {}
PROPERTY AtLeastOnce
