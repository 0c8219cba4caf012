SPECIFICATION RequestSpec
CONSTANTS
  ManifestIDs = {m1}
  Keys = {k1, k2, k3}
  Data <- AllBodies
  Miss = Miss
  CacheLimit = 2
  Versions = {v1, v2}
  Handlers = {h1}
  Attempts = 2
INVARIANTS
  RequestTypeOK
  AnswersRequest
  TiersReplayable
  CacheConsistent
PROPERTIES
  ImplementsTier
  RequestEnds
