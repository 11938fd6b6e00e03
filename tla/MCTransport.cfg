\* One batch that fits, one too large, one that unpacks to too much, one that
\* is refused, one whose processing raises, in two orders; two keys, so one
\* rotation, with a good and a bad material.
SPECIFICATION FairSpec
CONSTANTS
  Kids = {k1, k2}
  FirstKid = k1
  NoKid = NoKid
  NoWire = NoWire
  Clear = Clear
  event = event
  large = large
  repetitive = repetitive
  refused = refused
  raising = raising
  Batches <- MCBatches
  Pendings <- MCPendings
  Size <- MCSize
  Packed <- MCPacked
  Invalid = {refused}
  Raising = {raising}
  Materials <- MCMaterials
  MaxBody = 4
  MaxEnvelope = 2
  MaxPlaintext = 4
  MaxRatio = 32
  MaxKeyFile = 1
  MaxAge = 2
  PageLife = 1
  Overlap = 3
INVARIANT TypeOK
INVARIANT NeverInTheClear
INVARIANT OpensOnlyWhatWasSealed
INVARIANT RotationIsSeamless
PROPERTY DroppedForCause
PROPERTY QueueDrains
CHECK_DEADLOCK FALSE
