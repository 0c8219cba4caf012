SPECIFICATION Spec
CONSTANTS
  Threads = {t1, t2}
  RequireSegments = FALSE
  BackgroundFetch = FALSE
PROPERTIES
  NoActivePurge
