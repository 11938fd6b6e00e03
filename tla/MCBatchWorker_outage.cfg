\* ClickHouse refuses every insert; MaxExponent is the real one.
SPECIFICATION Spec
CONSTANTS
  a1 = a1
  b1 = b1
  p1 = p1
  a2 = a2
  a3 = a3
  p2 = p2
  p3 = p3
  bad = bad
  nil = nil
  GA = GA
  GB = GB
  Messages = {a2}
  Groups = {GA}
  GroupOf <- MCGroupOf
  RowsOf <- MCRowsOf
  Invalid <- MCInvalid
  Poison <- MCPoison
  BatchSize = 1
  Prefetch = 1
  MaxExponent = 1023
  FaultKinds = {"insert"}
  MaxFaults = 1100
INVARIANT OutageNeverStopsWorker
