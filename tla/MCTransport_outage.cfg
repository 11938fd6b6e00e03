\* The same pages and collector, where any request may be lost.
SPECIFICATION Spec
CONSTANTS
  Kids = {k1, k2}
  FirstKid = k1
  NoKid = NoKid
  NoWire = NoWire
  Clear = Clear
  event = event
  large = large
  repetitive = repetitive
  refused = refused
  raising = raising
  Batches <- MCBatches
  Pendings <- MCPendings
  Size <- MCSize
  Packed <- MCPacked
  Invalid = {refused}
  Raising = {raising}
  Materials <- MCMaterials
  MaxBody = 4
  MaxEnvelope = 2
  MaxPlaintext = 4
  MaxRatio = 32
  MaxKeyFile = 1
  MaxAge = 2
  PageLife = 1
  Overlap = 3
PROPERTY DroppedForBrokenSealer
CHECK_DEADLOCK FALSE
