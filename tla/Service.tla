------------------------------- MODULE Service -------------------------------
(***************************************************************************)
(* A process from start to end: Lifespan, and between the startup and the  *)
(* shutdown of a collector the probes of HealthCache, on the same backend. *)
(* The server starts no request before the startup has returned, and       *)
(* shuts down when the requests in flight are answered.                    *)
(***************************************************************************)
EXTENDS Lifespan

CONSTANTS
  Probes,    \* requests to GET /
  Ttls,      \* values of healthcheck_cache_ttl_seconds
  MaxCheck   \* how long a backend check that ends may last

ASSUME ServiceAssumption ==
  /\ \A t \in Ttls : t \in Nat
  /\ MaxCheck \in Nat
  /\ \A t \in Ttls : t + MaxCheck < MaxSteady

VARIABLES ttl, status, expires, locked, queue, pc, took

healthVars == <<ttl, status, expires, locked, queue, pc, took>>
processVars == <<mode, phase, clockVars, closeVars, cause>>
serviceVars == <<vars, healthVars>>

Health == INSTANCE HealthCache

Serving == phase = "ready" /\ mode # "worker"

ServiceInit == Init /\ Health!Init

LifespanStep == (Start \/ Interrupt \/ Close \/ BackendFlips \/ Tick) /\ UNCHANGED healthVars

\* uvicorn calls the shutdown handler when its connections are drained.
Shutdown ==
  /\ Stop
  /\ \A p \in Probes : pc[p] = "idle"
  /\ UNCHANGED healthVars

Probe(p)     == Serving /\ Health!Ask(p) /\ UNCHANGED processVars
Resume(p)    == Serving /\ Health!Resume(p) /\ UNCHANGED processVars
HealthTick   == Serving /\ Health!Tick /\ UNCHANGED processVars
ServingFlips == Serving /\ Health!BackendFlips /\ UNCHANGED processVars

ServiceNext ==
  \/ LifespanStep
  \/ Shutdown
  \/ \E p \in Probes : Probe(p) \/ Resume(p)
  \/ HealthTick
  \/ ServingFlips

ServiceSpec == ServiceInit /\ [][ServiceNext]_serviceVars

\* A check that awaits RabbitMQ's passive declarations, which have no timeout.
CheckAwaitsBroker(p) == mode = "rabbitmq" /\ pc[p] = "checking"

\* Time passes, the event loop runs what is ready to run, and an await with a
\* timeout ends: those on ClickHouse and RabbitMQ's connect (the warming reads
\* local files).  The other awaits on RabbitMQ need not end, nor need closes.
ServiceFairness ==
  /\ WF_serviceVars(~AwaitsBroker /\ Start /\ UNCHANGED healthVars)
  /\ WF_serviceVars(Tick /\ UNCHANGED healthVars)
  /\ \A p \in Probes : WF_serviceVars(~CheckAwaitsBroker(p) /\ Resume(p))
  /\ WF_serviceVars(HealthTick)

FairServiceSpec == ServiceSpec /\ ServiceFairness

-----------------------------------------------------------------------------
\* The types of both parts.
ServiceTypeOK == TypeOK /\ Health!TypeOK

\* HealthCache's properties, of the process that serves the probes.

\* A status still served by GET / is at most one check and its own age behind
\* the backend (health.py:38, 43-49).
StatusIsCurrent == Health!StatusIsCurrent

\* Probes that find the status expired make one check at a time (health.py:41).
OneCheckAtATime == Health!OneCheckAtATime

\* No probe asks the backend while the status is fresh (health.py:42-44).
NoNeedlessCheck ==
  [][\A p \in Probes : pc[p] # "checking" /\ pc'[p] = "checking" => ~Health!Fresh]_serviceVars

\* Every probe is answered, and the shutdown does not overtake it, unless a check
\* of RabbitMQ is left unanswered for ever: the probe's own or, with a TTL, the one
\* that holds the lock (health.py:41, rabbitmq.py:256-261).
ProbesAnswered ==
  \A p \in Probes :
    \/ pc[p] # "idle" ~> pc[p] = "idle"
    \/ \E q \in Probes : <>[](CheckAwaitsBroker(q) /\ (q = p \/ ttl > 0))

=============================================================================
