SPECIFICATION FairSpec
CONSTANTS
  d1 = d1
  d2 = d2
  t1 = t1
  t2 = t2
  t3 = t3
  Domain = {d1}
  NoDomain = NoDomain
  Task = {t1, t2}
  Consumer = Consumer
  NoAnswer = NoAnswer
  MaxVersions = 2
  MaxCrashes = 2
INVARIANTS TypeOK CacheBehindTable StaleOnlyByLateFill
PROPERTIES DelayNeverGuessed EveryCallEnds DirectorySpec
