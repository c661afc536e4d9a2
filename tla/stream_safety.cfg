SPECIFICATION Spec
CONSTANTS
  Url <- MCUrl
  Domain <- MCDomain
  NoDomain = NoDomain
  UrlDomain <- MCUrlDomain
  SitemapsOf <- MCSitemapsOf
  Text <- MCText
  NoText = NoText
  HashOf <- MCHashOf
  NoRow = NoRow
  Event <- MCEvent
  BatchSize = 2
  MaxEvents = 4
  MaxCrashes = 1
  CanSignal = TRUE
  MaxFaults = 2
  FalsePositives = {}
INVARIANTS TypeOK NoNearDuplicateRows AckedIsDone
PROPERTY DeliverySpec
