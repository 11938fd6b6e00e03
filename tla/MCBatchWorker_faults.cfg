\* Two table groups, valid and poison messages of half a batch, any two faults;
\* or, without faults, batches of four messages, two of them poison.
\* MaxExponent is scaled down so that the second failure in a row overflows.
SPECIFICATION Spec
CONSTANTS
  a1 = a1
  b1 = b1
  p1 = p1
  a2 = a2
  a3 = a3
  p2 = p2
  p3 = p3
  bad = bad
  nil = nil
  GA = GA
  GB = GB
  Messages = {a1, b1, p1, a2, a3, p2, p3, bad, nil}
  Groups = {GA, GB}
  GroupOf <- MCGroupOf
  RowsOf <- MCRowsOf
  Invalid <- MCInvalid
  Poison <- MCPoison
  BatchSize = 4
  Prefetch = 4
  MaxExponent = 0
  FaultKinds = {"insert", "publish", "iterator", "connection", "cancel", "kill"}
  MaxFaults = 2
CONSTRAINT Traffic
INVARIANT TypeOK
INVARIANT NoLoss
INVARIANT SettledAtMostOnce
INVARIANT NoFullBatchWaits
INVARIANT NoHotRetry
INVARIANT ExactlyOnceWithoutFaults
PROPERTY DeliversAtLeastOnce
