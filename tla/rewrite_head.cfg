SPECIFICATION RewriteSpec
CONSTANTS
  Players = {p1}
  Clips <- ClipNames
  Timeline <- Broadcast
  WindowLen = 3
  Limit = 4
  MaxSeq = 20
  KeyOf <- Rotation
  DecryptSegments = {FALSE}
  NoKey = NoKey
INVARIANTS
  HeadHasKey
