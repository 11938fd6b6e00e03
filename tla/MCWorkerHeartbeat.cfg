\* One unit of time is 20 s, which makes the constants of constants.py and the
\* default insert timeout exact: 40, 120, 60, 60 and 60 s.  MaxAge leaves room
\* for a step to outlast StallThreshold + Stale.
SPECIFICATION Spec
CONSTANTS
  Heartbeat = 2
  Stale = 6
  Grace = 3
  InsertTimeout = 3
  MaxBackoff = 3
  MaxAge = 10
INVARIANT TypeOK
INVARIANT StallDetected
INVARIANT NoFalseAlarm
INVARIANT StallMeansSlowSettling
INVARIANT LostWritesTolerated
