SPECIFICATION FairSpec
CONSTANTS
  Threads = {t1}
  RequireSegments = TRUE
  BackgroundFetch = FALSE
INVARIANTS
  TypeOK
  NoZombie
  PurgeNeedsRequest
PROPERTIES
  PurgedWhenIdle
