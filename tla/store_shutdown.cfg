SPECIFICATION Spec
CONSTANTS
  Writers = {w1, w2}
  ManifestIDs = {m1, m2}
  Keys = {k1}
  Dirs = {m1, m2}
  DirOf <- OwnDir
  Limit = 1
  MaxTime = 0
  Nobody = Nobody
  Janitor = Janitor
PROPERTIES
  ShutdownLeavesNothing
