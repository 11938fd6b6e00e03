\* Startup deadline 3, retries every 2 (so the last sleep is cut short to 1),
\* attempts of up to 2, or 4 if they await RabbitMQ; three probes, a TTL of 2 or
\* none, checks of up to 2.
SPECIFICATION FairServiceSpec
CONSTANTS
  Modes = {"direct", "rabbitmq", "worker"}
  StartupTimeout = 3
  RetryInterval = 2
  MaxAttempt = 2
  MaxHang = 4
  MaxSteady = 5
  Probes = {p1, p2, p3}
  Ttls = {0, 2}
  MaxCheck = 2
INVARIANT ServiceTypeOK
INVARIANT WaitBounded
INVARIANT ReadyInTime
INVARIANT AttemptsDoNotLeak
INVARIANT NothingLeftOpen
INVARIANT StatusIsCurrent
INVARIANT OneCheckAtATime
PROPERTY NoNeedlessCheck
PROPERTY StartupEnds
PROPERTY ProbesAnswered
CHECK_DEADLOCK FALSE
