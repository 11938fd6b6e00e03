\* Four requests and a log of two entries: the log overflows, is cleared with
\* requests in flight, and is paused between a request and its push.
SPECIFICATION FairSpec
CONSTANTS
  MaxLogs = 2
  MaxRequests = 4
INVARIANT NewestInRequestOrder
PROPERTY ChainDrains
