----------------------------- MODULE HealthCache -----------------------------
(***************************************************************************)
(* CachedHealthChecker (health.py): the answer to GET / is a backend check *)
(* or the result of an earlier one that is younger than the TTL.           *)
(*                                                                         *)
(* Probes are concurrent coroutines; between two awaits a probe is atomic. *)
(* Both checkers catch every Exception, so a check always has a result.    *)
(* The backend goes up and down; a check finds it as it was at some moment *)
(* between the check's first and last.  Time is discrete.                  *)
(*                                                                         *)
(* ClickHouse's check has the client's timeouts, RabbitMQ's passive        *)
(* declarations have none: that a check which ends does so within MaxCheck *)
(* is an assumption about RabbitMQ, and it need not end at all.            *)
(***************************************************************************)
EXTENDS Integers, Sequences

CONSTANTS
  Probes,     \* requests to GET /
  Ttls,       \* values of healthcheck_cache_ttl_seconds
  MaxCheck,   \* how long a backend check that ends may last
  MaxSteady   \* bound: steady counts up to here

VARIABLES
  up,       \* the backend answers
  steady,   \* how long up has not changed
  ttl,      \* ttl_seconds
  status,   \* _cached_status: "unknown", "healthy" or "failing"
  expires,  \* _expires_at, as the time left until then
  locked,   \* _lock is held
  queue,    \* probes waiting for _lock, first come first served
  pc,       \* pc[p] is "idle", "waiting" or "checking"
  took      \* took[p] is how long the check of p has lasted

cacheVars == <<status, expires>>
lockVars == <<locked, queue>>
probeVars == <<pc, took>>
vars == <<up, steady, ttl, cacheVars, lockVars, probeVars>>

Init ==
  /\ up \in BOOLEAN
  /\ steady = 0
  /\ ttl \in Ttls
  /\ status = "unknown"
  /\ expires = 0
  /\ locked = FALSE
  /\ queue = <<>>
  /\ pc = [p \in Probes |-> "idle"]
  /\ took = [p \in Probes |-> 0]

\* now < _expires_at
Fresh == status # "unknown" /\ expires > 0

Verdict(answers) == IF answers THEN "healthy" ELSE "failing"

BeginCheck(p) ==
  /\ pc' = [pc EXCEPT ![p] = "checking"]
  /\ took' = [took EXCEPT ![p] = 0]

-----------------------------------------------------------------------------
\* Mutation of Ask: a hit extends the life of the cached status.
AskSliding(p) ==
  /\ pc[p] = "idle"
  /\ \/ ~Fresh /\ BeginCheck(p) /\ locked' = TRUE /\ UNCHANGED expires
     \/ Fresh /\ expires' = ttl /\ UNCHANGED <<locked, probeVars>>
  /\ UNCHANGED <<up, steady, ttl, status, queue>>

\* Mutation of Ask: no lock.
AskUnlocked(p) ==
  /\ pc[p] = "idle"
  /\ ~Fresh
  /\ BeginCheck(p)
  /\ UNCHANGED <<up, steady, ttl, cacheVars, lockVars>>

\* check: without a TTL every probe asks the backend.  A fresh status is
\* returned at once, which changes nothing.  Otherwise the probe takes the lock
\* and, with no await in between, asks the backend, or waits for the lock.
Ask(p) ==
  /\ pc[p] = "idle"
  /\ ~Fresh
  /\ \/ ttl = 0 /\ BeginCheck(p) /\ UNCHANGED lockVars
     \/ /\ ttl > 0 /\ ~locked /\ queue = <<>>
        /\ locked' = TRUE
        /\ BeginCheck(p)
        /\ UNCHANGED queue
     \/ /\ ttl > 0 /\ (locked \/ queue # <<>>)
        /\ queue' = Append(queue, p)
        /\ pc' = [pc EXCEPT ![p] = "waiting"]
        /\ UNCHANGED <<locked, took>>
  /\ UNCHANGED <<up, steady, ttl, cacheVars>>

\* Mutation of Acquire: the status is not looked at again under the lock.
AcquireBlindly(p) ==
  /\ ~locked /\ queue # <<>> /\ p = Head(queue)
  /\ queue' = Tail(queue)
  /\ locked' = TRUE
  /\ BeginCheck(p)
  /\ UNCHANGED <<up, steady, ttl, cacheVars>>

\* Mutation of Acquire: the early return keeps the lock.
AcquireKeepingLock(p) ==
  /\ ~locked /\ queue # <<>> /\ p = Head(queue)
  /\ queue' = Tail(queue)
  /\ locked' = TRUE
  /\ IF Fresh THEN pc' = [pc EXCEPT ![p] = "idle"] /\ UNCHANGED took
              ELSE BeginCheck(p)
  /\ UNCHANGED <<up, steady, ttl, cacheVars>>

\* The lock is free and its first waiter has it: the status may be fresh by now.
Acquire(p) ==
  /\ ~locked /\ queue # <<>> /\ p = Head(queue)
  /\ queue' = Tail(queue)
  /\ \/ /\ Fresh
        /\ pc' = [pc EXCEPT ![p] = "idle"]
        /\ UNCHANGED <<locked, took>>
     \/ /\ ~Fresh
        /\ locked' = TRUE
        /\ BeginCheck(p)
  /\ UNCHANGED <<up, steady, ttl, cacheVars>>

\* The check has its result, which is cached, unless there is no TTL, from now on.
Finish(p) ==
  /\ pc[p] = "checking"
  /\ \E seen \in IF steady > took[p] THEN {up} ELSE BOOLEAN :
       IF ttl = 0 THEN UNCHANGED <<cacheVars, locked>>
                  ELSE /\ status' = Verdict(seen)
                       /\ expires' = ttl
                       /\ locked' = FALSE
  /\ pc' = [pc EXCEPT ![p] = "idle"]
  /\ took' = [took EXCEPT ![p] = 0]
  /\ UNCHANGED <<up, steady, ttl, queue>>

Tick ==
  /\ \A p \in Probes : pc[p] = "checking" => took[p] < MaxCheck
  /\ took' = [p \in Probes |-> IF pc[p] = "checking" THEN took[p] + 1 ELSE took[p]]
  /\ expires' = IF expires > 0 THEN expires - 1 ELSE 0
  /\ steady' = IF steady < MaxSteady THEN steady + 1 ELSE steady
  /\ UNCHANGED <<up, ttl, status, lockVars, pc>>

BackendFlips ==
  /\ up' = ~up
  /\ steady' = 0
  /\ UNCHANGED <<ttl, cacheVars, lockVars, probeVars>>

\* The probe p goes on.
Resume(p) == Acquire(p) \/ Finish(p)

Next == (\E p \in Probes : Ask(p) \/ Resume(p)) \/ BackendFlips \/ Tick

Spec == Init /\ [][Next]_vars

-----------------------------------------------------------------------------
TypeOK ==
  /\ up \in BOOLEAN
  /\ steady \in 0 .. MaxSteady
  /\ ttl \in Ttls
  /\ status \in {"unknown", "healthy", "failing"}
  /\ expires \in 0 .. ttl
  /\ locked \in BOOLEAN
  /\ queue \in Seq(Probes)
  /\ pc \in [Probes -> {"idle", "waiting", "checking"}]
  /\ took \in [Probes -> 0 .. MaxCheck]

\* A status that is still served is at most a check and its own age old: once
\* the backend has been as it is for longer than that, it is what GET / says
\* (health.py:38, 43-49).
StatusIsCurrent ==
  Fresh /\ steady > MaxCheck + (ttl - expires) => status = Verdict(up)

\* With a TTL, any number of probes that find the status expired make one check
\* at a time (health.py:41).
OneCheckAtATime ==
  ttl > 0 => \A p, q \in Probes : pc[p] = "checking" /\ pc[q] = "checking" => p = q

\* No probe asks the backend while the cached status is fresh, the probes that
\* queued before it was cached included (health.py:42-44).
NoNeedlessCheck ==
  [][\A p \in Probes : pc[p] # "checking" /\ pc'[p] = "checking" => ~Fresh]_vars

=============================================================================
