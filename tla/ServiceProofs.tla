---------------------------- MODULE ServiceProofs ----------------------------
(***************************************************************************)
(* Proofs about Service, for every startup timeout, retry interval, length *)
(* of an attempt or check, TTL and set of probes:                          *)
(*                                                                         *)
(*   - the startup: its overrun is bounded, and it finds a backend that is *)
(*     up in time (ClockInv);                                              *)
(*   - the resources: what is open is on the stack or belongs to the       *)
(*     attempt under way, or a close of it has raised (StackInv);          *)
(*   - the health cache: served statuses are current, and checks are made  *)
(*     one at a time and only when they are needed (CacheInv);             *)
(*   - the types, from these invariants.                                   *)
(***************************************************************************)
EXTENDS Service, SequenceTheorems, TLAPS

Attempting == phase \in {"connect", "prove", "abort"}

-----------------------------------------------------------------------------
(* The clock of the startup. *)

ClockTypes ==
  /\ left \in Int
  /\ elapsed \in Nat
  /\ pause \in Nat
  /\ steady \in Nat

\* The attempt under way began before the deadline or at it, and lasts longer than
\* MaxAttempt only while it awaits RabbitMQ.
AttemptClock ==
  Attempting => (AwaitsBroker \/ elapsed <= MaxAttempt) /\ -elapsed <= left

\* A sleep ends at the deadline or before it.
SleepClock == phase = "sleep" => elapsed <= pause /\ pause - elapsed <= left

\* The backend of an attempt being aborted was not up throughout.
AbortedNotUp == phase = "abort" /\ up => steady <= elapsed

ClockInv == ClockTypes /\ AttemptClock /\ SleepClock /\ AbortedNotUp /\ ReadyInTime

LEMMA ClockInit == ServiceInit => ClockInv
BY LifespanAssumption
   DEF ServiceInit, Init, ClockInv, ClockTypes, AttemptClock, SleepClock, AbortedNotUp,
       ReadyInTime, Attempting

\* An attempt that has failed gives up, or sleeps up to the deadline.
LEMMA FailedAttempt ==
  ASSUME ClockInv, Attempting, up => steady <= elapsed,
         AttemptFailed, UNCHANGED <<left, up, steady>>
  PROVE  ClockInv'
<1> USE LifespanAssumption DEF ClockInv, ClockTypes, AttemptClock, SleepClock,
                               AbortedNotUp, ReadyInTime, Attempting, AttemptFailed
<1>1. CASE left <= 0 /\ GiveUp("deadline")
  BY <1>1 DEF GiveUp
<1>2. CASE left > 0 /\ SleepFor(IF RetryInterval < left THEN RetryInterval ELSE left)
  BY <1>2 DEF SleepFor
<1> QED BY <1>1, <1>2

LEMMA ClockStep == ClockInv /\ [ServiceNext]_serviceVars => ClockInv'
<1> SUFFICES ASSUME ClockInv, [ServiceNext]_serviceVars PROVE ClockInv'
  OBVIOUS
<1> USE LifespanAssumption DEF clockVars, envVars, closeVars
<1>1. CASE Connect
  BY <1>1 DEF Connect, ClockInv, ClockTypes, AttemptClock, SleepClock, AbortedNotUp,
              ReadyInTime, Attempting, AwaitsBroker
<1>2. CASE ConnectFails
  <2>1. Attempting /\ (up => steady <= elapsed)
    BY <1>2 DEF ConnectFails, UpThroughout, Attempting, ClockInv, ClockTypes
  <2> QED BY <1>2, <2>1, FailedAttempt DEF ConnectFails
<1>3. CASE AuthFails
  BY <1>3 DEF AuthFails, GiveUp, ClockInv, ClockTypes, AttemptClock, SleepClock,
              AbortedNotUp, ReadyInTime, Attempting
<1>4. CASE ProofFails
  BY <1>4 DEF ProofFails, UpThroughout, ClockInv, ClockTypes, AttemptClock, SleepClock,
              AbortedNotUp, ReadyInTime, Attempting, AwaitsBroker, Target
<1>5. CASE CloseAttempt
  <2>1. Attempting /\ (up => steady <= elapsed)
    BY <1>5 DEF CloseAttempt, Attempting, ClockInv, AbortedNotUp
  <2> QED BY <1>5, <2>1, FailedAttempt DEF CloseAttempt
<1>6. CASE Proved
  <2>1. /\ left' = StartupTimeout /\ elapsed' = 0 /\ UNCHANGED pause
        /\ phase' \in {"connect", "ready", "warm"}
        /\ UNCHANGED steady \/ steady' = 0
    BY <1>6 DEF Proved, ProvedByWorker, ProvedByCollector
  <2> QED BY <2>1 DEF ClockInv, ClockTypes, AttemptClock, SleepClock, AbortedNotUp,
                      ReadyInTime, Attempting
<1>7. CASE Retry
  BY <1>7 DEF Retry, ClockInv, ClockTypes, AttemptClock, SleepClock, AbortedNotUp,
              ReadyInTime, Attempting
<1>8. CASE Warm
  BY <1>8 DEF Warm, ClockInv, ClockTypes, AttemptClock, SleepClock, AbortedNotUp,
              ReadyInTime, Attempting
<1>9. CASE Interrupt
  BY <1>9 DEF Interrupt, GiveUp, ClockInv, ClockTypes, AttemptClock, SleepClock,
              AbortedNotUp, ReadyInTime, Attempting
<1>10. CASE Close
  BY <1>10 DEF Close, CloseTop, Unwound, ClockInv, ClockTypes, AttemptClock, SleepClock,
               AbortedNotUp, ReadyInTime, Attempting
<1>11. CASE BackendFlips
  BY <1>11 DEF BackendFlips, Flip, Starting, ClockInv, ClockTypes, AttemptClock,
               SleepClock, AbortedNotUp, ReadyInTime, Attempting, AwaitsBroker, Target
<1>12. CASE Tick
  BY <1>12 DEF Tick, Limit, Grow, Starting, ClockInv, ClockTypes, AttemptClock, SleepClock,
               AbortedNotUp, ReadyInTime, Attempting, AwaitsBroker, Target
<1>13. CASE Shutdown
  BY <1>13 DEF Shutdown, Stop, ClockInv, ClockTypes, AttemptClock, SleepClock,
               AbortedNotUp, ReadyInTime, Attempting
<1>14. ASSUME Serving, UNCHANGED processVars, steady' \in Nat PROVE ClockInv'
  BY <1>14 DEF Serving, processVars, ClockInv, ClockTypes, AttemptClock, SleepClock,
               AbortedNotUp, ReadyInTime, Attempting
<1>15. CASE \E p \in Probes : Probe(p) \/ Resume(p)
  BY <1>14, <1>15 DEF Probe, Resume, Health!Ask, Health!Resume, Health!Acquire,
                      Health!Finish, ClockInv, ClockTypes
<1>16. CASE HealthTick
  BY <1>14, <1>16 DEF HealthTick, Health!Tick, ClockInv, ClockTypes
<1>17. CASE ServingFlips
  BY <1>14, <1>17 DEF ServingFlips, Health!BackendFlips, ClockInv, ClockTypes
<1>18. CASE UNCHANGED serviceVars
  BY <1>18 DEF serviceVars, vars, ClockInv, ClockTypes, AttemptClock, SleepClock,
               AbortedNotUp, ReadyInTime, Attempting, AwaitsBroker, Target
<1> QED
  BY <1>1, <1>2, <1>3, <1>4, <1>5, <1>6, <1>7, <1>8, <1>9, <1>10, <1>11, <1>12, <1>13,
     <1>15, <1>16, <1>17, <1>18
     DEF ServiceNext, LifespanStep, Start, Attempt

\* However a startup goes, it overruns its deadline by one attempt at most, and by
\* no more than MaxAttempt unless that attempt awaits RabbitMQ.
THEOREM StartupOverrunBounded == ServiceSpec => []WaitBounded
<1>1. ClockInv => WaitBounded
  BY LifespanAssumption DEF ClockInv, ClockTypes, AttemptClock, SleepClock, WaitBounded,
                            Starting, Attempting
<1> QED BY ClockInit, ClockStep, <1>1, PTL DEF ServiceSpec

\* A startup that ran into its deadline had no backend to find MaxAttempt earlier,
\* or RabbitMQ, not up throughout, held up its last attempt.
THEOREM BackendInTimeIsFound == ServiceSpec => []ReadyInTime
<1>1. ClockInv => ReadyInTime
  BY DEF ClockInv
<1> QED BY ClockInit, ClockStep, <1>1, PTL DEF ServiceSpec

-----------------------------------------------------------------------------
(* The resources. *)

OnStack == {stack[i] : i \in DOMAIN stack}

\* What may be open without being on the stack, and why.
Excused(r) ==
  \/ r = "rabbitmq" /\ r \in raised
  \/ r = "rabbitmq" /\ mode = "worker" /\ "attempt" \in raised
  \/ r = "clickhouse" /\ mode = "worker" /\ "rabbitmq" \in raised

StackShape ==
  \/ stack = <<>>
  \/ mode = "worker" /\ stack = <<"clickhouse">>
  \/ mode = "worker" /\ stack = <<"clickhouse", "rabbitmq">> /\ ~Starting
  \/ mode = "direct" /\ stack = <<"clickhouse">> /\ ~Starting
  \/ mode = "direct" /\ stack = <<"clickhouse", "proxy">> /\ ~Starting
  \/ mode = "rabbitmq" /\ stack = <<"rabbitmq">> /\ ~Starting
  \/ mode = "rabbitmq" /\ stack = <<"rabbitmq", "proxy">> /\ ~Starting

StackInv ==
  /\ mode \in {"direct", "rabbitmq", "worker"}
  /\ StackShape
  /\ Starting => /\ raised = {}
                 /\ unclosed \subseteq OnStack \union
                                       (IF phase \in {"prove", "abort"} THEN {Target} ELSE {})
  /\ phase \in {"warm", "ready"} => raised = {} /\ unclosed \subseteq OnStack
  /\ phase \in {"unwind", "stopped", "failed"} => \A r \in unclosed : r \in OnStack \/ Excused(r)
  /\ Ended => stack = <<>>

LEMMA StackInit == ServiceInit => StackInv
BY LifespanAssumption
   DEF ServiceInit, Init, StackInv, StackShape, Starting, Ended, OnStack

\* Opening: the stack of a starting process and its next backend.
LEMMA StackOfStarting ==
  ASSUME StackInv, Starting
  PROVE  \/ stack = <<>> /\ OnStack = {} /\ mode # "rabbitmq" /\ Target = "clickhouse"
         \/ stack = <<>> /\ OnStack = {} /\ mode = "rabbitmq" /\ Target = "rabbitmq"
         \/ /\ stack = <<"clickhouse">> /\ OnStack = {"clickhouse"}
            /\ mode = "worker" /\ Target = "rabbitmq"
BY DEF StackInv, StackShape, Starting, OnStack, Target, Backends

\* Popping a stack of one, and of two.
LEMMA PopOne ==
  ASSUME NEW a
  PROVE  /\ SubSeq(<<a>>, 1, Len(<<a>>) - 1) = <<>>
         /\ {(<<a>>)[i] : i \in DOMAIN <<a>>} = {a}
         /\ (<<a>>)[Len(<<a>>)] = a
OBVIOUS

LEMMA PopTwo ==
  ASSUME NEW a, NEW b
  PROVE  /\ SubSeq(<<a, b>>, 1, Len(<<a, b>>) - 1) = <<a>>
         /\ {(<<a, b>>)[i] : i \in DOMAIN <<a, b>>} = {a, b}
         /\ (<<a, b>>)[Len(<<a, b>>)] = b
<1>1. Len(<<a, b>>) = 2 /\ DOMAIN <<a, b>> = {1, 2}
  OBVIOUS
<1>2. (<<a, b>>)[1] = a /\ (<<a, b>>)[2] = b
  OBVIOUS
<1>3. SubSeq(<<a, b>>, 1, 1) = <<a>>
  <2> DEFINE s == SubSeq(<<a, b>>, 1, 1)
  <2>1. \A i \in 1 .. 1 : (<<a, b>>)[i] \in {a, b}
    OBVIOUS
  <2>2. s \in Seq({a, b}) /\ Len(s) = 1 /\ s[1] = a
    BY <2>1, SubSeqProperties
  <2>3. <<a>> \in Seq({a, b}) /\ Len(<<a>>) = 1 /\ (<<a>>)[1] = a
    OBVIOUS
  <2> HIDE DEF s
  <2>4. s = <<a>>
    BY <2>2, <2>3, SeqEqual
  <2> QED BY <2>4 DEF s
<1> QED BY <1>1, <1>2, <1>3

\* Closing: the last resource, and what is left on the stack without it.
LEMMA StackOfClosing ==
  ASSUME StackInv, phase = "unwind", stack # <<>>,
         NEW rest, rest = SubSeq(stack, 1, Len(stack) - 1)
  PROVE  \/ /\ mode = "worker" /\ rest = <<"clickhouse">>
            /\ OnStack = {"clickhouse", "rabbitmq"} /\ Top = "rabbitmq"
         \/ /\ mode \in {"worker", "direct"} /\ rest = <<>>
            /\ OnStack = {"clickhouse"} /\ Top = "clickhouse"
         \/ /\ mode = "direct" /\ rest = <<"clickhouse">>
            /\ OnStack = {"clickhouse", "proxy"} /\ Top = "proxy"
         \/ /\ mode = "rabbitmq" /\ rest = <<>>
            /\ OnStack = {"rabbitmq"} /\ Top = "rabbitmq"
         \/ /\ mode = "rabbitmq" /\ rest = <<"rabbitmq">>
            /\ OnStack = {"rabbitmq", "proxy"} /\ Top = "proxy"
<1> USE DEF OnStack, Top
<1>1. CASE mode = "worker" /\ stack = <<"clickhouse", "rabbitmq">>
  BY <1>1, PopTwo
<1>2. CASE mode \in {"worker", "direct"} /\ stack = <<"clickhouse">>
  BY <1>2, PopOne
<1>3. CASE mode = "direct" /\ stack = <<"clickhouse", "proxy">>
  BY <1>3, PopTwo
<1>4. CASE mode = "rabbitmq" /\ stack = <<"rabbitmq">>
  BY <1>4, PopOne
<1>5. CASE mode = "rabbitmq" /\ stack = <<"rabbitmq", "proxy">>
  BY <1>5, PopTwo
<1> QED BY <1>1, <1>2, <1>3, <1>4, <1>5 DEF StackInv, StackShape

LEMMA StackStep == StackInv /\ [ServiceNext]_serviceVars => StackInv'
<1> SUFFICES ASSUME StackInv, [ServiceNext]_serviceVars PROVE StackInv'
  OBVIOUS
<1> USE DEF clockVars, envVars, closeVars
\* Steps of a startup that leave the stack, and what is open, alone.
<1>1. ASSUME Starting, UNCHANGED <<mode, stack, unclosed, raised>>,
             phase' \in {"connect", "sleep", "unwind"} => phase \in {"connect", "sleep"},
             phase' \in {"connect", "prove", "abort", "sleep", "unwind"},
             phase' \in {"prove", "abort"} => phase \in {"prove", "abort"}
      PROVE  StackInv'
  BY <1>1 DEF StackInv, StackShape, Starting, Ended, OnStack, Target, Excused
\* Steps that close what the attempt under way has opened.
<1>2. ASSUME Starting, UNCHANGED <<mode, stack, raised>>,
             unclosed' = unclosed \ {Target}, phase' \in {"sleep", "unwind"}
      PROVE  StackInv'
  BY <1>2 DEF StackInv, StackShape, Starting, Ended, OnStack, Target, Excused
<1>3. CASE Connect
  BY <1>3 DEF Connect, StackInv, StackShape, Starting, Ended, OnStack, Target
<1>4. CASE ConnectFails \/ AuthFails
  <2>1. phase = "connect" /\ phase' \in {"sleep", "unwind"}
    BY <1>4 DEF ConnectFails, AuthFails, AttemptFailed, GiveUp, SleepFor
  <2> QED BY <1>1, <1>4, <2>1 DEF ConnectFails, AuthFails, Starting
<1>5. CASE ProofFails
  BY <1>1, <1>5 DEF ProofFails, Starting
<1>6. CASE CloseAttempt
  BY <1>2, <1>6 DEF CloseAttempt, Starting, AttemptFailed, GiveUp, SleepFor
<1>7. CASE Retry
  BY <1>1, <1>7 DEF Retry, Starting
<1>8. CASE Proved
  BY <1>8, StackOfStarting
     DEF Proved, ProvedByWorker, ProvedByCollector, Backends, StackInv, StackShape,
         Starting, Ended, OnStack
<1>9. CASE Warm \/ Shutdown
  BY <1>9 DEF Warm, Shutdown, Stop, StackInv, StackShape, Starting, Ended, OnStack
<1>10. CASE Interrupt
  <2>1. CASE phase = "prove" /\ Target = "rabbitmq"
    BY <1>10, <2>1, StackOfStarting
       DEF Interrupt, GiveUp, StackInv, StackShape, Starting, Ended, OnStack, Excused
  <2>2. CASE ~(phase = "prove" /\ Target = "rabbitmq")
    BY <1>2, <1>10, <2>2 DEF Interrupt, GiveUp
  <2> QED BY <2>1, <2>2
<1>11. CASE CloseTop
  <2> DEFINE rest == SubSeq(stack, 1, Len(stack) - 1)
  <2>1. /\ phase = "unwind" /\ stack # <<>> /\ UNCHANGED mode
        /\ \A r \in unclosed : r \in OnStack \/ Excused(r)
        /\ mode \in {"direct", "rabbitmq", "worker"}
    BY <1>11 DEF CloseTop, StackInv
  <2>2. \/ /\ stack' = rest /\ phase' = "unwind"
           /\ unclosed' = unclosed \ {Top} /\ raised' = raised
        \/ /\ stack' = rest /\ phase' = "unwind" /\ TopRaises
        \/ /\ stack' = <<>> /\ phase' = "failed" /\ mode = "worker" /\ TopRaises
    BY <1>11, <2>1 DEF CloseTop
  <2>3. /\ raised \subseteq raised'
        /\ unclosed' \subseteq unclosed
        /\ Top \in unclosed' => Top = "rabbitmq" /\ Top \in raised'
    BY <2>2 DEF TopRaises
  <2>4. stack' = rest => OnStack \ {Top} \subseteq OnStack'
    <3>1. CASE OnStack = {Top}
      BY <3>1
    <3>2. CASE rest = <<"clickhouse">> /\ OnStack \ {Top} = {"clickhouse"}
      <4> HIDE DEF rest
      <4>1. stack' = <<"clickhouse">> => "clickhouse" \in OnStack'
        BY DEF OnStack
      <4> QED BY <3>2, <4>1
    <3>3. CASE rest = <<"rabbitmq">> /\ OnStack \ {Top} = {"rabbitmq"}
      <4> HIDE DEF rest
      <4>1. stack' = <<"rabbitmq">> => "rabbitmq" \in OnStack'
        BY DEF OnStack
      <4> QED BY <3>3, <4>1
    <3> QED BY <2>1, <3>1, <3>2, <3>3, StackOfClosing
  <2>5. \A r \in unclosed' : r \in OnStack' \/ Excused(r)'
    <3>1. CASE stack' = rest
      BY <2>1, <2>3, <2>4, <3>1 DEF Excused
    <3>2. CASE mode = "worker" /\ TopRaises
      BY <2>1, <2>3, <3>2, StackOfClosing DEF Excused, TopRaises
    <3> QED BY <2>2, <3>1, <3>2
  <2>6. StackShape'
    <3>1. stack' = <<>> \/ stack' = rest
      BY <2>2
    <3>2. \/ rest = <<>>
          \/ mode \in {"worker", "direct"} /\ rest = <<"clickhouse">>
          \/ mode = "rabbitmq" /\ rest = <<"rabbitmq">>
      BY <2>1, StackOfClosing
    <3>3. ~Starting'
      BY <2>2 DEF Starting
    <3> QED BY <2>1, <3>1, <3>2, <3>3 DEF StackShape
  <2> QED BY <2>1, <2>2, <2>5, <2>6 DEF StackInv, Starting, Ended
<1>12. CASE Unwound
  BY <1>12 DEF Unwound, StackInv, StackShape, Starting, Ended, OnStack, Excused
<1>13. ASSUME UNCHANGED <<mode, phase, stack, unclosed, raised>> PROVE StackInv'
  BY <1>13 DEF StackInv, StackShape, Starting, Ended, OnStack, Excused, Target
<1>14. CASE BackendFlips \/ Tick \/ UNCHANGED serviceVars
  BY <1>13, <1>14 DEF BackendFlips, Tick, serviceVars, vars
<1>15. CASE (\E p \in Probes : Probe(p) \/ Resume(p)) \/ HealthTick \/ ServingFlips
  BY <1>13, <1>15 DEF Probe, Resume, HealthTick, ServingFlips, processVars
<1> QED
  BY <1>3, <1>4, <1>5, <1>6, <1>7, <1>8, <1>9, <1>10, <1>11, <1>12, <1>14, <1>15
     DEF ServiceNext, LifespanStep, Start, Attempt, Close

\* No attempt leaves its connection to the next.
THEOREM NoAttemptLeaks == ServiceSpec => []AttemptsDoNotLeak
<1>1. StackInv => AttemptsDoNotLeak
  BY DEF StackInv, AttemptsDoNotLeak, OnStack
<1> QED BY StackInit, StackStep, <1>1, PTL DEF ServiceSpec

\* A process that has ended has closed what it opened, up to the closes that raised.
THEOREM ProcessClosesItsResources == ServiceSpec => []NothingLeftOpen
<1>1. StackInv => NothingLeftOpen
  BY DEF StackInv, NothingLeftOpen, OnStack, Ended, Excused
<1> QED BY StackInit, StackStep, <1>1, PTL DEF ServiceSpec

-----------------------------------------------------------------------------
(* The health cache. *)

CacheTypes ==
  /\ steady \in Nat
  /\ ttl \in Nat
  /\ expires \in Nat
  /\ expires <= ttl
  /\ locked \in BOOLEAN
  /\ pc \in [Probes -> {"idle", "waiting", "checking"}]
  /\ took \in [Probes -> Nat]

\* Nothing is cached before a collector serves.
NothingCached == Starting \/ phase = "warm" => status = "unknown"

CheckBounded == \A p \in Probes : took[p] <= MaxCheck

\* With a TTL, a check is made under the lock.
CheckHoldsLock == ttl > 0 => \A p \in Probes : pc[p] = "checking" => locked

CacheInv ==
  /\ CacheTypes
  /\ NothingCached
  /\ CheckBounded
  /\ CheckHoldsLock
  /\ OneCheckAtATime
  /\ StatusIsCurrent

LEMMA CacheInit == ServiceInit => CacheInv
<1> SUFFICES ASSUME ServiceInit PROVE CacheInv
  OBVIOUS
<1> USE DEF ServiceInit, Init, Health!Init
<1>1. CacheTypes
  <2>1. steady \in Nat /\ ttl \in Nat /\ expires \in Nat /\ expires <= ttl
    BY ServiceAssumption
  <2>2. locked \in BOOLEAN /\ pc \in [Probes -> {"idle", "waiting", "checking"}]
    OBVIOUS
  <2>3. took \in [Probes -> Nat]
    OBVIOUS
  <2> QED BY <2>1, <2>2, <2>3 DEF CacheTypes
<1>2. CheckBounded
  BY ServiceAssumption DEF CheckBounded
<1>3. CheckHoldsLock /\ OneCheckAtATime
  BY DEF CheckHoldsLock, OneCheckAtATime, Health!OneCheckAtATime
<1>4. NothingCached /\ StatusIsCurrent
  BY DEF NothingCached, StatusIsCurrent, Health!StatusIsCurrent, Health!Fresh
<1> QED BY <1>1, <1>2, <1>3, <1>4 DEF CacheInv

\* What checks last when p begins or ends one, or waits.
LEMMA ProbeTypes ==
  ASSUME CacheInv, NEW p \in Probes,
         \E s \in {"idle", "waiting", "checking"} : pc' = [pc EXCEPT ![p] = s],
         took' = [took EXCEPT ![p] = 0] \/ UNCHANGED took
  PROVE  /\ pc' \in [Probes -> {"idle", "waiting", "checking"}]
         /\ took' \in [Probes -> Nat]
         /\ CheckBounded'
<1>1. pc' \in [Probes -> {"idle", "waiting", "checking"}]
  BY DEF CacheInv, CacheTypes
<1>2. took' \in [Probes -> Nat]
  BY DEF CacheInv, CacheTypes
<1>3. ASSUME NEW q \in Probes PROVE took'[q] <= MaxCheck
  <2>1. took'[q] = 0 \/ took'[q] = took[q]
    BY DEF CacheInv, CacheTypes
  <2> QED BY <2>1, ServiceAssumption DEF CacheInv, CheckBounded
<1> QED BY <1>1, <1>2, <1>3 DEF CheckBounded

\* A step that leaves the cache alone: the backend may do anything while nothing
\* is cached.
LEMMA CacheUntouched ==
  ASSUME CacheInv, UNCHANGED healthVars, steady' \in Nat,
         Starting' \/ phase' = "warm" => Starting \/ phase = "warm",
         Starting \/ phase = "warm" \/ UNCHANGED <<up, steady>>
  PROVE  CacheInv'
<1> USE DEF CacheInv, healthVars
<1>1. CacheTypes' /\ NothingCached' /\ CheckBounded' /\ CheckHoldsLock'
  BY DEF CacheTypes, NothingCached, CheckBounded, CheckHoldsLock
<1>2. OneCheckAtATime'
  BY DEF OneCheckAtATime, Health!OneCheckAtATime
<1>3. StatusIsCurrent'
  BY DEF NothingCached, StatusIsCurrent, Health!StatusIsCurrent, Health!Fresh, Health!Verdict
<1> QED BY <1>1, <1>2, <1>3

LEMMA LifespanKeepsCache ==
  ASSUME CacheInv, LifespanStep PROVE CacheInv'
<1> USE DEF LifespanStep, CacheInv, CacheTypes, Starting, clockVars, envVars, closeVars
<1>1. UNCHANGED healthVars
  OBVIOUS
<1>2. steady' \in Nat
  BY LifespanAssumption
     DEF Start, Attempt, Connect, ConnectFails, AuthFails, ProofFails, CloseAttempt,
         Proved, ProvedByWorker, ProvedByCollector, Retry, Warm, Interrupt, Close,
         CloseTop, Unwound, BackendFlips, Flip, Tick, Grow
<1>3. Starting' \/ phase' = "warm" => Starting \/ phase = "warm"
  BY DEF Start, Attempt, Connect, ConnectFails, AuthFails, ProofFails, CloseAttempt,
         Proved, ProvedByWorker, ProvedByCollector, Retry, Warm, Interrupt, Close,
         CloseTop, Unwound, BackendFlips, Tick
<1>4. Starting \/ phase = "warm" \/ UNCHANGED <<up, steady>>
  BY DEF Start, Attempt, Connect, ConnectFails, AuthFails, ProofFails, CloseAttempt,
         Proved, Retry, Warm, Interrupt, Close, CloseTop, Unwound, BackendFlips, Tick
<1> QED BY <1>1, <1>2, <1>3, <1>4, CacheUntouched

\* A probe takes the lock or waits for it.
LEMMA AskKeepsCache ==
  ASSUME CacheInv, NEW p \in Probes, Probe(p) PROVE CacheInv'
<1> USE DEF Probe, Health!Ask, Health!BeginCheck, Health!cacheVars, Health!lockVars, CacheInv
<1>1. CacheTypes' /\ CheckBounded'
  <2>1. UNCHANGED <<steady, ttl, expires>> /\ locked' \in BOOLEAN
    BY DEF CacheTypes
  <2>2. /\ \E s \in {"idle", "waiting", "checking"} : pc' = [pc EXCEPT ![p] = s]
        /\ took' = [took EXCEPT ![p] = 0] \/ UNCHANGED took
    OBVIOUS
  <2> QED BY <2>1, <2>2, ProbeTypes DEF CacheTypes
<1>2. NothingCached'
  BY DEF NothingCached, processVars, Starting
<1>3. CheckHoldsLock' /\ OneCheckAtATime'
  BY DEF CacheTypes, CheckHoldsLock, OneCheckAtATime, Health!OneCheckAtATime
<1>4. StatusIsCurrent'
  BY DEF StatusIsCurrent, Health!StatusIsCurrent, Health!Fresh, Health!Verdict
<1> QED BY <1>1, <1>2, <1>3, <1>4

LEMMA AcquireKeepsCache ==
  ASSUME CacheInv, NEW p \in Probes, Serving, Health!Acquire(p), UNCHANGED processVars
  PROVE  CacheInv'
<1> USE DEF Health!Acquire, Health!BeginCheck, Health!cacheVars, CacheInv
<1>1. CacheTypes' /\ CheckBounded'
  <2>1. UNCHANGED <<steady, ttl, expires>> /\ locked' \in BOOLEAN
    BY DEF CacheTypes
  <2>2. /\ \E s \in {"idle", "waiting", "checking"} : pc' = [pc EXCEPT ![p] = s]
        /\ took' = [took EXCEPT ![p] = 0] \/ UNCHANGED took
    OBVIOUS
  <2> QED BY <2>1, <2>2, ProbeTypes DEF CacheTypes
<1>2. NothingCached'
  BY DEF NothingCached, processVars, Starting
<1>3. CheckHoldsLock' /\ OneCheckAtATime'
  BY DEF CacheTypes, CheckHoldsLock, OneCheckAtATime, Health!OneCheckAtATime
<1>4. StatusIsCurrent'
  BY DEF StatusIsCurrent, Health!StatusIsCurrent, Health!Fresh, Health!Verdict
<1> QED BY <1>1, <1>2, <1>3, <1>4

\* The result of a check is current: a backend that has been as it is for longer
\* than MaxCheck was so during the whole check.
LEMMA FinishKeepsCache ==
  ASSUME CacheInv, NEW p \in Probes, Serving, Health!Finish(p), UNCHANGED processVars
  PROVE  CacheInv'
<1> USE DEF Health!Finish, CacheInv
<1>1. PICK seen \in (IF steady > took[p] THEN {up} ELSE BOOLEAN) :
        IF ttl = 0 THEN UNCHANGED <<status, expires, locked>>
                   ELSE status' = Health!Verdict(seen) /\ expires' = ttl /\ locked' = FALSE
  BY DEF Health!cacheVars
<1>2. CacheTypes' /\ CheckBounded'
  <2>1. UNCHANGED <<steady, ttl>> /\ locked' \in BOOLEAN
    BY <1>1 DEF CacheTypes
  <2>2. expires' \in Nat /\ expires' <= ttl'
    BY <1>1 DEF CacheTypes
  <2>3. /\ \E s \in {"idle", "waiting", "checking"} : pc' = [pc EXCEPT ![p] = s]
        /\ took' = [took EXCEPT ![p] = 0] \/ UNCHANGED took
    OBVIOUS
  <2> QED BY <2>1, <2>2, <2>3, ProbeTypes DEF CacheTypes
<1>3. NothingCached'
  BY DEF NothingCached, Serving, processVars, Starting
<1>4. CheckHoldsLock' /\ OneCheckAtATime'
  <2>1. ttl' > 0 => \A q \in Probes : pc'[q] # "checking"
    BY DEF CacheTypes, OneCheckAtATime, Health!OneCheckAtATime
  <2> QED BY <2>1 DEF CheckHoldsLock, OneCheckAtATime, Health!OneCheckAtATime
<1>5. StatusIsCurrent'
  <2>1. CASE ttl = 0
    BY <1>1, <2>1 DEF StatusIsCurrent, Health!StatusIsCurrent, Health!Fresh, Health!Verdict
  <2>2. CASE ttl # 0
    <3>1. ASSUME steady > MaxCheck PROVE seen = up
      <4>1. steady > took[p]
        BY <3>1, ServiceAssumption DEF CacheTypes, CheckBounded
      <4> QED BY <1>1, <4>1
    <3>2. MaxCheck + (ttl' - expires') = MaxCheck
      BY <1>1, <2>2, ServiceAssumption DEF CacheTypes
    <3>3. status' = Health!Verdict(seen) /\ UNCHANGED <<up, steady>>
      BY <1>1, <2>2
    <3> QED BY <3>1, <3>2, <3>3 DEF StatusIsCurrent, Health!StatusIsCurrent, Health!Verdict
  <2> QED BY <2>1, <2>2
<1> QED BY <1>2, <1>3, <1>4, <1>5

\* As the status ages by one, the backend is as it is for one longer at most.
LEMMA TickKeepsCache ==
  ASSUME CacheInv, HealthTick PROVE CacheInv'
<1> USE DEF HealthTick, Health!Tick, CacheInv, Health!lockVars
<1>1. CacheTypes'
  BY LifespanAssumption DEF CacheTypes
<1>2. CheckBounded'
  BY ServiceAssumption DEF CacheTypes, CheckBounded
<1>3. NothingCached'
  BY DEF NothingCached, Serving, processVars, Starting
<1>4. CheckHoldsLock' /\ OneCheckAtATime'
  BY DEF CheckHoldsLock, OneCheckAtATime, Health!OneCheckAtATime
<1>5. StatusIsCurrent'
  <2>1. SUFFICES ASSUME Health!Fresh', steady' > MaxCheck + (ttl' - expires')
                 PROVE  status' = Health!Verdict(up)'
    BY DEF StatusIsCurrent, Health!StatusIsCurrent
  <2>2. Health!Fresh /\ steady > MaxCheck + (ttl - expires)
    BY <2>1, LifespanAssumption, ServiceAssumption DEF Health!Fresh, CacheTypes
  <2> QED BY <2>2 DEF StatusIsCurrent, Health!StatusIsCurrent, Health!Verdict
<1> QED BY <1>1, <1>2, <1>3, <1>4, <1>5

LEMMA FlipKeepsCache ==
  ASSUME CacheInv, ServingFlips PROVE CacheInv'
<1> USE DEF ServingFlips, Health!BackendFlips, CacheInv, Health!cacheVars,
            Health!lockVars, Health!probeVars
<1>1. CacheTypes' /\ CheckBounded' /\ CheckHoldsLock'
  BY DEF CacheTypes, CheckBounded, CheckHoldsLock
<1>2. NothingCached'
  BY DEF NothingCached, Serving, processVars, Starting
<1>3. OneCheckAtATime'
  BY DEF OneCheckAtATime, Health!OneCheckAtATime
<1>4. StatusIsCurrent'
  BY ServiceAssumption DEF CacheTypes, StatusIsCurrent, Health!StatusIsCurrent, Health!Fresh
<1> QED BY <1>1, <1>2, <1>3, <1>4

LEMMA CacheStep == CacheInv /\ [ServiceNext]_serviceVars => CacheInv'
<1> SUFFICES ASSUME CacheInv, [ServiceNext]_serviceVars PROVE CacheInv'
  OBVIOUS
<1>1. CASE LifespanStep
  BY <1>1, LifespanKeepsCache
<1>2. CASE Shutdown \/ UNCHANGED serviceVars
  <2>1. /\ UNCHANGED healthVars
        /\ steady' \in Nat
        /\ Starting' \/ phase' = "warm" => Starting \/ phase = "warm"
        /\ UNCHANGED <<up, steady>>
    BY <1>2 DEF Shutdown, Stop, serviceVars, vars, envVars, Starting, CacheInv, CacheTypes
  <2> QED BY <2>1, CacheUntouched
<1>3. CASE \E p \in Probes : Probe(p) \/ Resume(p)
  BY <1>3, AskKeepsCache, AcquireKeepsCache, FinishKeepsCache DEF Resume, Health!Resume
<1>4. CASE HealthTick
  BY <1>4, TickKeepsCache
<1>5. CASE ServingFlips
  BY <1>5, FlipKeepsCache
<1> QED BY <1>1, <1>2, <1>3, <1>4, <1>5 DEF ServiceNext

\* Whatever the TTL, a status still served is no more out of date than a check and
\* its own age.
THEOREM HealthIsCurrent == ServiceSpec => []StatusIsCurrent
<1>1. CacheInv => StatusIsCurrent
  BY DEF CacheInv
<1> QED BY CacheInit, CacheStep, <1>1, PTL DEF ServiceSpec

\* However many probes there are, with a TTL they make one check at a time.
THEOREM ChecksOneAtATime == ServiceSpec => []OneCheckAtATime
<1>1. CacheInv => OneCheckAtATime
  BY DEF CacheInv
<1> QED BY CacheInit, CacheStep, <1>1, PTL DEF ServiceSpec

\* Only a probe that found the status expired asks the backend, whether it found
\* the lock free or waited for it.
THEOREM NoCheckWhileFresh == ServiceSpec => NoNeedlessCheck
<1> DEFINE Needed == \A p \in Probes : pc[p] # "checking" /\ pc'[p] = "checking" => ~Health!Fresh
<1>1. CacheInv /\ [ServiceNext]_serviceVars => [Needed]_serviceVars
  <2> SUFFICES ASSUME CacheInv, ServiceNext PROVE Needed
    OBVIOUS
  <2>1. pc \in [Probes -> {"idle", "waiting", "checking"}]
    BY DEF CacheInv, CacheTypes
  <2>2. ASSUME UNCHANGED pc PROVE Needed
    BY <2>2
  <2>3. ASSUME NEW p \in Probes, Probe(p) PROVE Needed
    BY <2>1, <2>3 DEF Probe, Health!Ask, Health!BeginCheck
  <2>4. ASSUME NEW p \in Probes, Resume(p) PROVE Needed
    <3>1. CASE Health!Acquire(p)
      BY <2>1, <3>1 DEF Health!Acquire, Health!BeginCheck
    <3>2. CASE Health!Finish(p)
      BY <2>1, <3>2 DEF Health!Finish
    <3> QED BY <2>4, <3>1, <3>2 DEF Resume, Health!Resume
  <2>5. CASE LifespanStep \/ Shutdown \/ HealthTick \/ ServingFlips
    BY <2>2, <2>5 DEF LifespanStep, Shutdown, HealthTick, ServingFlips, Health!Tick,
                      Health!BackendFlips, Health!probeVars, healthVars
  <2> QED BY <2>3, <2>4, <2>5 DEF ServiceNext
<1> QED BY CacheInit, CacheStep, <1>1, PTL DEF ServiceSpec, NoNeedlessCheck

-----------------------------------------------------------------------------
(* The types. *)

Phases == {"connect", "prove", "abort", "sleep", "warm", "ready", "unwind", "stopped", "failed"}
Causes == {"none", "auth", "deadline", "interrupt", "warm", "run", "close"}

\* The types that the invariants above do not say.
RunTypes ==
  /\ mode \in Modes
  /\ phase \in Phases
  /\ pause \in 0 .. RetryInterval
  /\ up \in BOOLEAN
  /\ steady \in 0 .. MaxSteady
  /\ unclosed \subseteq Resources
  /\ cause \in Causes
  /\ raised \subseteq Resources \union {"attempt"}

ProbeStateTypes ==
  /\ ttl \in Ttls
  /\ status \in {"unknown", "healthy", "failing"}
  /\ queue \in Seq(Probes)

LEMMA RunTypesStep ==
  RunTypes /\ ClockInv /\ StackInv /\ [ServiceNext]_serviceVars => RunTypes'
<1> SUFFICES ASSUME RunTypes, ClockInv, StackInv, [ServiceNext]_serviceVars PROVE RunTypes'
  OBVIOUS
<1> USE LifespanAssumption DEF RunTypes, clockVars, envVars, closeVars
<1>1. Starting => Target \in Resources
  BY StackOfStarting DEF Resources
<1>2. stack # <<>> /\ phase = "unwind" => Top \in Resources
  BY StackOfClosing DEF Resources
<1>3. ASSUME UNCHANGED <<mode, up, steady, raised>>, pause' \in 0 .. RetryInterval,
             phase' \in Phases, cause' \in Causes,
             unclosed' \subseteq unclosed \union {Target}, Starting
      PROVE  RunTypes'
  BY <1>1, <1>3
<1>4. ASSUME AttemptFailed
      PROVE  pause' \in 0 .. RetryInterval /\ phase' \in Phases /\ cause' \in Causes
  BY <1>4 DEF AttemptFailed, GiveUp, SleepFor, ClockInv, ClockTypes, Phases, Causes
<1>5. CASE Connect \/ ProofFails \/ Retry \/ AuthFails
  BY <1>3, <1>5 DEF Connect, ProofFails, Retry, AuthFails, GiveUp, Starting, Phases, Causes
<1>6. CASE ConnectFails \/ CloseAttempt
  BY <1>3, <1>4, <1>6 DEF ConnectFails, CloseAttempt, Starting
<1>7. CASE Proved
  <2>1. /\ UNCHANGED <<mode, pause, cause, raised>> /\ phase' \in Phases
        /\ unclosed' \subseteq unclosed \union {"proxy"}
        /\ up' \in BOOLEAN /\ steady' \in 0 .. MaxSteady
    BY <1>7 DEF Proved, ProvedByWorker, ProvedByCollector, Phases
  <2> QED BY <2>1 DEF Resources
<1>8. CASE Warm \/ Shutdown
  BY <1>8 DEF Warm, Shutdown, Stop, Phases, Causes
<1>9. CASE Interrupt
  BY <1>9 DEF Interrupt, GiveUp, Phases, Causes
<1>10. CASE CloseTop
  <2>1. /\ UNCHANGED <<mode, pause, up, steady>> /\ phase' \in Phases /\ cause' \in Causes
        /\ unclosed' \subseteq unclosed /\ raised' \subseteq raised \union {Top}
        /\ Top \in Resources
    BY <1>2, <1>10 DEF CloseTop, TopRaises, Phases, Causes
  <2> QED BY <2>1
<1>11. CASE Unwound
  BY <1>11 DEF Unwound, Phases
<1>12. CASE BackendFlips \/ Tick
  <2>1. UNCHANGED <<mode, phase, pause, unclosed, cause, raised>>
    BY <1>12 DEF BackendFlips, Tick
  <2>2. steady' = 0 \/ Grow
    BY <1>12 DEF BackendFlips, Flip, Tick
  <2>3. steady' \in 0 .. MaxSteady
    BY <2>2 DEF Grow
  <2>4. up' \in BOOLEAN
    BY <1>12 DEF BackendFlips, Flip, Tick
  <2> QED BY <2>1, <2>3, <2>4
<1>13. CASE (\E p \in Probes : Probe(p) \/ Resume(p)) \/ HealthTick \/ ServingFlips
  <2>1. UNCHANGED <<mode, phase, pause, unclosed, cause, raised>>
    BY <1>13 DEF Probe, Resume, HealthTick, ServingFlips, processVars
  <2>2. steady' \in {0, steady} \/ Grow
    BY <1>13 DEF Probe, Resume, HealthTick, ServingFlips, Health!Ask, Health!Resume, Grow,
                 Health!Acquire, Health!Finish, Health!Tick, Health!BackendFlips
  <2>3. steady' \in 0 .. MaxSteady
    BY <2>2 DEF Grow
  <2>4. up' \in BOOLEAN
    BY <1>13 DEF Probe, Resume, HealthTick, ServingFlips, Health!Ask, Health!Resume,
                 Health!Acquire, Health!Finish, Health!Tick, Health!BackendFlips
  <2> QED BY <2>1, <2>3, <2>4
<1>14. CASE UNCHANGED serviceVars
  BY <1>14 DEF serviceVars, vars
<1> QED
  BY <1>5, <1>6, <1>7, <1>8, <1>9, <1>10, <1>11, <1>12, <1>13, <1>14
     DEF ServiceNext, LifespanStep, Start, Attempt, Close

LEMMA ProbeTypesStep == ProbeStateTypes /\ [ServiceNext]_serviceVars => ProbeStateTypes'
<1> SUFFICES ASSUME ProbeStateTypes, [ServiceNext]_serviceVars PROVE ProbeStateTypes'
  OBVIOUS
<1> USE DEF ProbeStateTypes, Health!cacheVars, Health!lockVars
<1>1. CASE LifespanStep \/ Shutdown \/ UNCHANGED serviceVars
  BY <1>1 DEF LifespanStep, Shutdown, serviceVars, healthVars
<1>2. ASSUME NEW p \in Probes, Probe(p) PROVE ProbeStateTypes'
  BY <1>2 DEF Probe, Health!Ask
<1>3. ASSUME NEW p \in Probes, Resume(p) PROVE ProbeStateTypes'
  <2>1. CASE Health!Acquire(p)
    BY <2>1 DEF Health!Acquire
  <2>2. CASE Health!Finish(p)
    BY <2>2 DEF Health!Finish, Health!Verdict
  <2> QED BY <1>3, <2>1, <2>2 DEF Resume, Health!Resume
<1>4. CASE HealthTick \/ ServingFlips
  BY <1>4 DEF HealthTick, ServingFlips, Health!Tick, Health!BackendFlips
<1> QED BY <1>1, <1>2, <1>3, <1>4 DEF ServiceNext

\* The process and its health cache keep their types: pauses stay within the retry
\* interval, statuses within their TTL, checks within their time, and the stack
\* holds resources.
THEOREM TypeCorrect == ServiceSpec => []ServiceTypeOK
<1> DEFINE TypeInv == RunTypes /\ ProbeStateTypes
<1>1. ServiceInit => TypeInv
  BY LifespanAssumption DEF ServiceInit, Init, Health!Init, RunTypes, ProbeStateTypes, Phases, Causes
<1>2. TypeInv /\ ClockInv /\ StackInv /\ [ServiceNext]_serviceVars => TypeInv'
  BY RunTypesStep, ProbeTypesStep
<1>3. TypeInv /\ ClockInv /\ StackInv /\ CacheInv => ServiceTypeOK
  <2> SUFFICES ASSUME TypeInv, ClockInv, StackInv, CacheInv PROVE ServiceTypeOK
    OBVIOUS
  <2>1. stack \in Seq(Resources)
    <3>1. \A a, b \in Resources : <<a>> \in Seq(Resources) /\ <<a, b>> \in Seq(Resources)
      OBVIOUS
    <3>2. <<>> \in Seq(Resources) /\ {"clickhouse", "rabbitmq", "proxy"} = Resources
      BY DEF Resources
    <3> HIDE DEF Resources
    <3> QED BY <3>1, <3>2 DEF StackInv, StackShape
  <2>2. TypeOK
    BY <2>1 DEF TypeOK, RunTypes, ClockInv, ClockTypes, Phases, Causes
  <2>3. expires \in 0 .. ttl
    BY DEF CacheInv, CacheTypes
  <2>4. took \in [Probes -> 0 .. MaxCheck]
    <3>1. \A p \in Probes : took[p] \in 0 .. MaxCheck
      BY ServiceAssumption DEF CacheInv, CacheTypes, CheckBounded
    <3> QED BY <3>1 DEF CacheInv, CacheTypes
  <2>5. Health!TypeOK
    BY <2>3, <2>4 DEF Health!TypeOK, RunTypes, ProbeStateTypes, CacheInv, CacheTypes
  <2> QED BY <2>2, <2>5 DEF ServiceTypeOK
<1> HIDE DEF TypeInv
<1> QED
  BY ClockInit, ClockStep, StackInit, StackStep, CacheInit, CacheStep, <1>1, <1>2, <1>3, PTL
     DEF ServiceSpec

=============================================================================
