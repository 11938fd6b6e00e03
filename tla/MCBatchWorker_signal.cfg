\* SIGTERM is the only fault.
SPECIFICATION Spec
CONSTANTS
  a1 = a1
  b1 = b1
  p1 = p1
  a2 = a2
  a3 = a3
  p2 = p2
  p3 = p3
  bad = bad
  nil = nil
  GA = GA
  GB = GB
  Messages = {a2, a3}
  Groups = {GA}
  GroupOf <- MCGroupOf
  RowsOf <- MCRowsOf
  Invalid <- MCInvalid
  Poison <- MCPoison
  BatchSize = 2
  Prefetch = 2
  MaxExponent = 9
  FaultKinds = {"cancel"}
  MaxFaults = 1
PROPERTY SignalKeepsBatchInHand
