SPECIFICATION Spec
CONSTANTS
  Players = {p1, p2}
  Clips <- ClipNames
  Timeline <- Broadcast
  WindowLen = 2
  Limit = 3
  MaxSeq = 20
INVARIANTS
  InBroadcastOrder
