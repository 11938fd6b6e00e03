\* Three plain requests of two agents with a cache of 0 to 2 and two slots;
\* one request with one or two of some 2,000 events.
SPECIFICATION FairSpec
CONSTANTS
  r1 = r1
  r2 = r2
  r3 = r3
  a1 = a1
  a2 = a2
  Requests = {r1, r2, r3}
  Agents = {a1, a2}
  NoObject = NoObject
  NoBody = NoBody
  Slots = 2
  Sizes = {0, 1, 2}
  Loads <- MCLoads
INVARIANT CacheTypeOK
INVARIANT CacheIsSound
INVARIANT SlotsAreKept
INVARIANT RowsFollowPrecedence
INVARIANT AllOrNothing
PROPERTY FirstCachedWins
PROPERTY RequestsAnswered
CHECK_DEADLOCK FALSE
