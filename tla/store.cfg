SPECIFICATION FairSpec
CONSTANTS
  Writers = {w1, w2}
  ManifestIDs = {m1}
  Keys = {k1, k2}
  Dirs = {m1}
  DirOf <- OwnDir
  Limit = 1
  MaxTime = 1
  Nobody = Nobody
  Janitor = Janitor
INVARIANTS
  TypeOK
  NoTornSegment
PROPERTIES
  ImplementsFileTier
  TrimmedAfterSave
  SaveEnds
