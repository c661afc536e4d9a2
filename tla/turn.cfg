SPECIFICATION FairSpec
CONSTANTS
  here = here
  there = there
  Site <- MCSite
  Path = {"page", "sitemap", "file"}
  XmlPaths = {"sitemap"}
  BadPaths = {"file"}
  HrefsAt <- MCHrefsAt
  LocsAt <- MCLocsAt
  Keyworded <- MCKeyworded
  RedirectsTo <- MCRedirectsTo
  NoPlace = NoPlace
INVARIANTS TypeOK RobotsNotAssumed PageUnderOwnUrl KeptBeforeFollowed
PROPERTIES PoliteRetries TurnEnds TurnSpec
