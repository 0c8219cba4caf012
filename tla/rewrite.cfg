SPECIFICATION RewriteSpec
CONSTANTS
  Players = {p1}
  Clips <- ClipNames
  Timeline <- Broadcast
  WindowLen = 3
  Limit = 4
  MaxSeq = 20
  KeyOf <- Rotation
  DecryptSegments = {TRUE, FALSE}
  NoKey = NoKey
INVARIANTS
  TypeOK
  RewriteTypeOK
  TailMatchesOrigin
  InBroadcastOrder
  KeyInForce
  LineDecrypts
