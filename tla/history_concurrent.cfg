SPECIFICATION FairSpec
CONSTANTS
  Players = {p1, p2}
  Clips <- ClipNames
  Timeline <- Rerun
  WindowLen = 2
  Limit = 3
  MaxSeq = 20
INVARIANTS
  HistoryConsistent
  HistoryBounded
  ServedContiguous
PROPERTIES
  PlayerNeverGoesBack
  ImplementsReplayWindow
  PollAnswered
