SPECIFICATION FairSpec
CONSTANTS
  Threads = {t1, t2}
  Sizes = {1, 2, 4}
  CacheSize = 3
  Nobody = Nobody
  MaxEvents = 5
INVARIANTS
  TypeOK
  Conservation
  ReplyFitsCache
PROPERTIES
  DispensesFresh
  HolderLetsGo
