SPECIFICATION Spec
CONSTANTS
  Threads = {t1, t2}
  RequireSegments = TRUE
  BackgroundFetch = TRUE
INVARIANTS
  PurgeNeedsRequest
