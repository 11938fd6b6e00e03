------------------------------ MODULE Lifespan ------------------------------
(***************************************************************************)
(* How a process of evnt opens its backends and closes them again:         *)
(*                                                                         *)
(*   "direct"    the collector with ClickHouse (lifespan.py)               *)
(*   "rabbitmq"  the collector with RabbitMQ (lifespan.py)                 *)
(*   "worker"    evnt queue worker, with both (cli.py)                     *)
(*                                                                         *)
(* A backend is opened by attempts that retry_startup or                   *)
(* retry_rabbitmq_startup repeats until a deadline.  An attempt connects   *)
(* and then proves the connection (a readiness query, or a channel and the *)
(* queues); if the proof fails it closes what it opened.  The collector    *)
(* registers what it opened on an exit stack, the worker closes by hand.   *)
(* Of RabbitMQ's awaits only the connect has a timeout.                    *)
(* Time is discrete and relative to the deadline of the current backend.   *)
(* The backend being opened goes up and down; it answers an attempt that   *)
(* it was up for from before the first moment to the last.                 *)
(***************************************************************************)
EXTENDS Integers, Sequences

CONSTANTS
  Modes,           \* modes a process may be started in
  StartupTimeout,  \* startup_timeout_seconds
  RetryInterval,   \* startup_retry_interval_ms
  MaxAttempt,      \* how long the awaits of one attempt that have a timeout may last
  MaxHang,         \* bound: an attempt without one is followed for so long
  MaxSteady        \* bound: steady counts up to here

ASSUME LifespanAssumption ==
  /\ Modes \subseteq {"direct", "rabbitmq", "worker"}
  /\ StartupTimeout \in Nat
  /\ RetryInterval \in Nat
  /\ RetryInterval > 0
  /\ MaxAttempt \in Nat
  /\ MaxHang \in Nat
  /\ MaxSteady \in Nat
  /\ MaxAttempt <= MaxHang
  /\ MaxHang < MaxSteady

VARIABLES
  mode,
  phase,    \* "connect", "prove", "abort", "sleep", "warm", "ready", "unwind",
            \* "stopped" or "failed"
  left,     \* time left to the deadline; negative after it
  elapsed,  \* how long the current attempt, or retry sleep, has lasted
  pause,    \* how long the current retry sleep lasts
  up,       \* the backend answers
  steady,   \* how long up has not changed
  stack,    \* resources opened and to be closed, the last one last
  unclosed, \* resources that are open and were not told to close
  cause,    \* why the process fails: "none", "auth", "deadline", "interrupt",
            \* "warm", "run" or "close"
  raised    \* resources whose close raised, and "attempt" if a cancelled attempt
            \* did not close its connection (history)

clockVars == <<left, elapsed, pause>>
envVars == <<up, steady>>
closeVars == <<stack, unclosed, raised>>
vars == <<mode, phase, clockVars, envVars, closeVars, cause>>

\* The backends of a mode that are waited for, in order.
Backends == [direct |-> <<"clickhouse">>,
             rabbitmq |-> <<"rabbitmq">>,
             worker |-> <<"clickhouse", "rabbitmq">>]

Resources == {"clickhouse", "rabbitmq", "proxy"}

\* The backend being opened.
Target == Backends[mode][Len(stack) + 1]

Starting == phase \in {"connect", "prove", "abort", "sleep"}

\* The attempt awaits RabbitMQ without a timeout: opening the channel, the
\* prefetch window, the declarations, or closing the connection after one failed.
AwaitsBroker == phase \in {"prove", "abort"} /\ Target = "rabbitmq"

Ended    == phase \in {"stopped", "failed"}

\* The backend was up during the whole attempt, or down during all of it.
UpThroughout   == up /\ steady > elapsed
DownThroughout == ~up /\ steady > elapsed

Init ==
  /\ mode \in Modes
  /\ phase = "connect"
  /\ left = StartupTimeout
  /\ elapsed = 0
  /\ pause = 0
  /\ up \in BOOLEAN
  /\ steady = 0
  /\ stack = <<>>
  /\ unclosed = {}
  /\ cause = "none"
  /\ raised = {}

-----------------------------------------------------------------------------
Connect ==
  /\ phase = "connect"
  /\ ~DownThroughout
  /\ phase' = "prove"
  /\ unclosed' = unclosed \union {Target}
  /\ UNCHANGED <<mode, clockVars, envVars, stack, cause, raised>>

\* The startup fails, for the reason c: what was opened before is closed.
GiveUp(c) ==
  /\ phase' = "unwind"
  /\ cause' = c
  /\ UNCHANGED <<elapsed, pause>>

SleepFor(time) ==
  /\ phase' = "sleep"
  /\ elapsed' = 0
  /\ pause' = time
  /\ UNCHANGED cause

\* Mutation of AttemptFailed: the longer of the two waits.
AttemptFailedLongest ==
  \/ left <= 0 /\ GiveUp("deadline")
  \/ left > 0 /\ SleepFor(IF RetryInterval > left THEN RetryInterval ELSE left)

\* Mutation of AttemptFailed: the retry sleep ignores the deadline.
AttemptFailedSleepingOn ==
  \/ left <= 0 /\ GiveUp("deadline")
  \/ left > 0 /\ SleepFor(RetryInterval)

\* Mutation of AttemptFailed: no sleep that would end at the deadline.
AttemptFailedEarly ==
  \/ left <= RetryInterval /\ GiveUp("deadline")
  \/ left > RetryInterval /\ SleepFor(RetryInterval)

\* The deadline ends the retries; otherwise sleep, but not past it.
AttemptFailed ==
  \/ left <= 0 /\ GiveUp("deadline")
  \/ left > 0 /\ SleepFor(IF RetryInterval < left THEN RetryInterval ELSE left)

ConnectFails ==
  /\ phase = "connect"
  /\ ~UpThroughout
  /\ AttemptFailed
  /\ UNCHANGED <<mode, left, envVars, closeVars>>

\* RabbitMQ's authentication errors are raised at once; ClickHouse's are errors
\* like any other.
AuthFails ==
  /\ phase = "connect"
  /\ Target = "rabbitmq"
  /\ GiveUp("auth")
  /\ UNCHANGED <<mode, left, envVars, closeVars>>

\* Mutation of ProofFails: the connection is left open.
ProofFailsLeaking ==
  /\ phase = "prove"
  /\ ~UpThroughout
  /\ AttemptFailed
  /\ UNCHANGED <<mode, left, envVars, closeVars>>

\* The server does not answer the readiness query, or refuses a queue.
ProofFails ==
  /\ phase = "prove"
  /\ ~UpThroughout
  /\ phase' = "abort"
  /\ UNCHANGED <<mode, clockVars, envVars, closeVars, cause>>

\* The connection is closed, or the close itself raises; the attempt has failed
\* either way.
CloseAttempt ==
  /\ phase = "abort"
  /\ unclosed' = unclosed \ {Target}
  /\ AttemptFailed
  /\ UNCHANGED <<mode, left, envVars, stack, raised>>

\* Mutation of Retry: every attempt has the whole startup timeout.
RetryRestarting ==
  /\ phase = "sleep"
  /\ elapsed = pause
  /\ phase' = "connect"
  /\ elapsed' = 0
  /\ left' = StartupTimeout
  /\ UNCHANGED <<mode, pause, envVars, closeVars, cause>>

Retry ==
  /\ phase = "sleep"
  /\ elapsed = pause
  /\ phase' = "connect"
  /\ elapsed' = 0
  /\ UNCHANGED <<mode, left, pause, envVars, closeVars, cause>>

\* The worker's backend is open: on to the next one, which has a deadline of its
\* own, or run.
ProvedByWorker ==
  /\ mode = "worker"
  /\ stack' = Append(stack, Target)
  /\ IF Len(stack') < Len(Backends[mode])
       THEN /\ phase' = "connect"
            /\ up' \in BOOLEAN
            /\ steady' = 0
       ELSE /\ phase' = "ready"
            /\ UNCHANGED envVars
  /\ UNCHANGED unclosed

\* The collector's backend is open: create the proxy client, warm the schemas.
ProvedByCollector ==
  /\ mode # "worker"
  /\ stack' = <<Target, "proxy">>
  /\ unclosed' = unclosed \union {"proxy"}
  /\ phase' = "warm"
  /\ UNCHANGED envVars

Proved ==
  /\ phase = "prove"
  /\ ~DownThroughout
  /\ ProvedByWorker \/ ProvedByCollector
  /\ left' = StartupTimeout
  /\ elapsed' = 0
  /\ UNCHANGED <<mode, pause, cause, raised>>

\* warm_known_iglu_schemas returns or raises.
Warm ==
  /\ phase = "warm"
  /\ \/ phase' = "ready" /\ UNCHANGED cause
     \/ phase' = "unwind" /\ cause' = "warm"
  /\ UNCHANGED <<mode, clockVars, envVars, closeVars>>

\* The worker's startup is cancelled (SIGINT).  create_ready_client closes its
\* client on every BaseException, RabbitMQ's _create only on an Exception.
Interrupt ==
  /\ mode = "worker"
  /\ Starting
  /\ GiveUp("interrupt")
  /\ IF phase = "prove" /\ Target = "rabbitmq"
       THEN UNCHANGED unclosed /\ raised' = {"attempt"}
       ELSE unclosed' = unclosed \ {Target} /\ UNCHANGED raised
  /\ UNCHANGED <<mode, left, envVars, stack>>

\* The server shuts down; RabbitMQBatchWorker.run is cancelled, or raises.
Stop ==
  /\ phase = "ready"
  /\ phase' = "unwind"
  /\ cause' \in IF mode = "worker" THEN {"none", "run"} ELSE {"none"}
  /\ UNCHANGED <<mode, clockVars, envVars, closeVars>>

Top == stack[Len(stack)]

\* Closing the last resource raises.  RabbitMQ's close stops at a channel that
\* fails to close and does not reach the connection.
TopRaises ==
  /\ raised' = raised \union {Top}
  /\ unclosed' \in {unclosed \ {Top}}
                     \union (IF Top = "rabbitmq" THEN {unclosed} ELSE {})

\* Mutation of CloseTop: a failed close ends the unwinding in the collector, too.
CloseTopRaising ==
  /\ phase = "unwind"
  /\ stack # <<>>
  /\ \/ /\ unclosed' = unclosed \ {Top}
        /\ stack' = SubSeq(stack, 1, Len(stack) - 1)
        /\ UNCHANGED <<phase, cause, raised>>
     \/ TopRaises /\ phase' = "failed" /\ cause' = "close" /\ stack' = <<>>
  /\ UNCHANGED <<mode, clockVars, envVars>>

\* Close the resource that was opened last.  The collector logs a failure and
\* goes on; the worker closes in a finally block, one after the other, so that
\* a failure (or a second cancellation) skips the rest.
CloseTop ==
  /\ phase = "unwind"
  /\ stack # <<>>
  /\ \/ /\ unclosed' = unclosed \ {Top}
        /\ stack' = SubSeq(stack, 1, Len(stack) - 1)
        /\ UNCHANGED <<phase, cause, raised>>
     \/ /\ mode # "worker"
        /\ TopRaises
        /\ stack' = SubSeq(stack, 1, Len(stack) - 1)
        /\ UNCHANGED <<phase, cause>>
     \/ /\ mode = "worker"
        /\ TopRaises
        /\ stack' = <<>>
        /\ phase' = "failed"
        /\ cause' = "close"
  /\ UNCHANGED <<mode, clockVars, envVars>>

Unwound ==
  /\ phase = "unwind"
  /\ stack = <<>>
  /\ phase' = IF cause = "none" THEN "stopped" ELSE "failed"
  /\ UNCHANGED <<mode, clockVars, envVars, closeVars, cause>>

\* One unit of time, and the backend going up or down, as far as the backend is
\* concerned.
Grow == steady' = IF steady < MaxSteady THEN steady + 1 ELSE steady

Flip ==
  /\ up' = ~up
  /\ steady' = 0

BackendFlips ==
  /\ Starting
  /\ Flip
  /\ UNCHANGED <<mode, phase, clockVars, closeVars, cause>>

\* How long the sleep, or the attempt, may last.
Limit ==
  IF phase = "sleep" THEN pause ELSE IF AwaitsBroker THEN MaxHang ELSE MaxAttempt

\* Time passes in an attempt, or in a sleep that is not over.
Tick ==
  /\ Starting
  /\ elapsed < Limit
  /\ elapsed' = elapsed + 1
  /\ left' = left - 1
  /\ Grow
  /\ UNCHANGED <<mode, phase, pause, up, closeVars, cause>>

Attempt == Connect \/ ConnectFails \/ AuthFails \/ ProofFails \/ CloseAttempt \/ Proved

Start == Attempt \/ Retry \/ Warm

Close == CloseTop \/ Unwound

Next == Start \/ Interrupt \/ Stop \/ Close \/ BackendFlips \/ Tick

Spec == Init /\ [][Next]_vars

-----------------------------------------------------------------------------
TypeOK ==
  /\ mode \in Modes
  /\ phase \in {"connect", "prove", "abort", "sleep", "warm", "ready", "unwind",
                "stopped", "failed"}
  /\ left \in Int
  /\ elapsed \in Nat
  /\ pause \in 0 .. RetryInterval
  /\ up \in BOOLEAN
  /\ steady \in 0 .. MaxSteady
  /\ stack \in Seq(Resources)
  /\ unclosed \subseteq Resources
  /\ cause \in {"none", "auth", "deadline", "interrupt", "warm", "run", "close"}
  /\ raised \subseteq Resources \union {"attempt"}

\* A startup overruns its deadline by no more than the attempt that was under
\* way at the deadline, or began at it: none begins later.  The overrun is at
\* most MaxAttempt, except while that attempt awaits RabbitMQ without a timeout
\* (client.py:87-109, rabbitmq.py:120-156, 189-196, 318-328).
WaitBounded ==
  Starting => left + elapsed >= 0 /\ (AwaitsBroker \/ left >= -MaxAttempt)

\* A startup gives up on its backend only if, MaxAttempt before the deadline,
\* the backend did not answer: one that is up from then on is always found, by
\* an attempt made after the last sleep if not before.  Only a last attempt that
\* RabbitMQ held up for longer than MaxAttempt may miss it, and then the backend
\* was not up throughout that attempt (client.py:98, rabbitmq.py:141-144).
ReadyInTime ==
  phase = "unwind" /\ cause = "deadline" /\ up =>
    \/ steady + left <= MaxAttempt
    \/ elapsed > MaxAttempt /\ steady <= elapsed

\* However many attempts fail, none leaves a connection behind for the next one:
\* what is open is on the stack, or belongs to the attempt under way
\* (client.py:56-61, rabbitmq.py:191-196, 318-328).
AttemptsDoNotLeak ==
  Starting => unclosed \subseteq {stack[i] : i \in DOMAIN stack} \union
                                 (IF phase \in {"prove", "abort"} THEN {Target} ELSE {})

\* When a process has ended, however far its startup came and whichever closes
\* raised, what was not told to close is: in the collector, RabbitMQ's
\* connection after its channel raised; in the worker, that connection after
\* an interrupted startup, too, or the ClickHouse client after the close of
\* RabbitMQ raised (lifespan.py:34-47, cli.py:344-363).
NothingLeftOpen ==
  Ended => \A r \in unclosed :
             \/ r = "rabbitmq" /\ r \in raised
             \/ r = "rabbitmq" /\ mode = "worker" /\ "attempt" \in raised
             \/ r = "clickhouse" /\ mode = "worker" /\ "rabbitmq" \in raised

\* A startup ends, whatever the backends do, unless RabbitMQ leaves one of the
\* awaits without a timeout unanswered for ever: the deadline is only looked at
\* between attempts (rabbitmq.py:128-135).
StartupEnds == (Starting ~> ~Starting) \/ <>[]AwaitsBroker

=============================================================================
