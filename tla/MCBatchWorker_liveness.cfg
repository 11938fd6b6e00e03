\* The two messages never fill a batch of three rows: only the flush
\* timeout moves them, through any two faults.
SPECIFICATION FairSpec
CONSTANTS
  a1 = a1
  b1 = b1
  p1 = p1
  a2 = a2
  a3 = a3
  p2 = p2
  p3 = p3
  bad = bad
  nil = nil
  GA = GA
  GB = GB
  Messages = {a2, p2}
  Groups = {GA}
  GroupOf <- MCGroupOf
  RowsOf <- MCRowsOf
  Invalid <- MCInvalid
  Poison <- MCPoison
  BatchSize = 3
  Prefetch = 2
  MaxExponent = 0
  FaultKinds = {"insert", "publish", "iterator", "connection", "cancel", "kill"}
  MaxFaults = 2
PROPERTY EventuallySettled
