--------------------------- MODULE WorkerHeartbeat --------------------------
(***************************************************************************)
(* The liveness contract between the batch worker and "evnt queue          *)
(* healthcheck": the heartbeat task of RabbitMQBatchWorker, the step clock *)
(* _busy_since, the liveness file and _worker_is_alive.                    *)
(*                                                                         *)
(* Time is discrete.  phase is where the loop of run is:                   *)
(*                                                                         *)
(*   "idle"     waiting for a message or the flush timeout                 *)
(*   "backoff"  sleeping in _apply_backoff                                 *)
(*   "step"     in add_message or flush_all, outside an insert             *)
(*   "insert"   in the sink insert of a step                               *)
(*   "final"    in the finally block: the heartbeat task is cancelled      *)
(*   "down"     no process, or one that is still connecting                *)
(*                                                                         *)
(* A missing liveness file is read like a stale one, so age alone stands   *)
(* for the file.                                                           *)
(***************************************************************************)
EXTENDS Integers

CONSTANTS
  Heartbeat,      \* WORKER_HEARTBEAT_SECONDS
  Stale,          \* WORKER_LIVENESS_STALE_SECONDS
  Grace,          \* WORKER_STALL_GRACE_SECONDS
  InsertTimeout,  \* config.insert_timeout_seconds
  MaxBackoff,     \* MAX_BACKOFF_SECONDS
  MaxAge          \* bound: time passes only while the file is younger

ASSUME WorkerHeartbeatAssumption ==
  /\ Heartbeat \in Nat \ {0}
  /\ Stale \in Nat
  /\ Grace \in Nat
  /\ InsertTimeout \in Nat \ {0}
  /\ MaxBackoff \in Nat
  /\ Heartbeat <= Grace
  /\ 3 * Heartbeat <= Stale
  /\ MaxAge \in Nat
  /\ MaxAge > Stale

\* __init__: stall_threshold.
StallThreshold == InsertTimeout + Grace

VARIABLES
  phase,
  busy,       \* _busy_seconds()
  insertFor,  \* how long the current insert has run
  slept,      \* how long the current backoff has lasted
  wake,       \* time until the heartbeat task wakes up
  age,        \* time since the liveness file was written
  marked,     \* this process has written the file (history)
  lost,       \* heartbeat writes that failed since the last write (history)
  longest,    \* largest busy of this process (history)
  other       \* part of busy spent outside inserts (history)

loopVars == <<phase, insertFor, slept>>
fileVars == <<age, marked, lost>>
vars == <<loopVars, busy, wake, fileVars, longest, other>>

HasHeartbeat == phase \in {"idle", "backoff", "step", "insert"}
Busy         == phase \in {"step", "insert"}

Init ==
  /\ phase = "down"
  /\ busy = 0
  /\ insertFor = 0
  /\ slept = 0
  /\ wake = 0
  /\ age = Stale + 1
  /\ marked = FALSE
  /\ lost = 0
  /\ longest = 0
  /\ other = 0

\* The step clock restarts, or stops when the loop is idle.
RestartClock == busy' = 0 /\ other' = 0

MarkAlive == age' = 0 /\ marked' = TRUE /\ lost' = 0

-----------------------------------------------------------------------------
\* run begins, and its heartbeat task is due at once.  The file an earlier
\* process left behind is still there.
Start ==
  /\ phase = "down"
  /\ phase' = "idle"
  /\ RestartClock
  /\ insertFor' = 0
  /\ slept' = 0
  /\ wake' = 0
  /\ marked' = FALSE
  /\ lost' = 0
  /\ longest' = 0
  /\ UNCHANGED age

\* Mutation of Beat: the file is refreshed however long the step has lasted.
BeatUngated ==
  /\ HasHeartbeat
  /\ wake = 0
  /\ wake' = Heartbeat
  /\ MarkAlive
  /\ UNCHANGED <<loopVars, busy, longest, other>>

\* Mutation of Beat: the file is refreshed while the loop is idle only.
BeatWhenIdle ==
  /\ HasHeartbeat
  /\ wake = 0
  /\ wake' = Heartbeat
  /\ IF Busy THEN UNCHANGED fileVars ELSE MarkAlive
  /\ UNCHANGED <<loopVars, busy, longest, other>>

\* Mutation of Beat: a failed write ends the heartbeat task.
BeatOnce ==
  /\ HasHeartbeat
  /\ wake = 0
  /\ wake' = Heartbeat
  /\ IF busy <= StallThreshold /\ lost = 0
       THEN \/ MarkAlive
            \/ lost' = lost + 1 /\ UNCHANGED <<age, marked>>
       ELSE UNCHANGED fileVars
  /\ UNCHANGED <<loopVars, busy, longest, other>>

\* _heartbeat_loop: liveness is withheld once the step has stalled; an OSError
\* of the write is logged.
Beat ==
  /\ HasHeartbeat
  /\ wake = 0
  /\ wake' = Heartbeat
  /\ IF busy <= StallThreshold
       THEN \/ MarkAlive
            \/ lost' = lost + 1 /\ UNCHANGED <<age, marked>>
       ELSE UNCHANGED fileVars
  /\ UNCHANGED <<loopVars, busy, longest, other>>

\* A message arrives, or the flush timeout expires.
BeginStep ==
  /\ phase = "idle"
  /\ phase' = "step"
  /\ RestartClock
  /\ UNCHANGED <<insertFor, slept, wake, fileVars, longest>>

BeginInsert ==
  /\ phase = "step"
  /\ phase' = "insert"
  /\ insertFor' = 0
  /\ UNCHANGED <<slept, busy, wake, fileVars, longest, other>>

\* Mutation of EndInsert: the step clock runs on.
EndInsertRunning ==
  /\ phase = "insert"
  /\ phase' = "step"
  /\ insertFor' = 0
  /\ UNCHANGED <<slept, busy, wake, fileVars, longest>>
  /\ other' = 0

\* _insert_rows returns, fails or is timed out: the step clock restarts.
EndInsert ==
  /\ phase = "insert"
  /\ phase' = "step"
  /\ insertFor' = 0
  /\ RestartClock
  /\ UNCHANGED <<slept, wake, fileVars, longest>>

\* The top of the loop; a failed flush makes the loop back off.
EndStep ==
  /\ phase = "step"
  /\ phase' \in {"idle", "backoff"}
  /\ slept' = 0
  /\ RestartClock
  /\ UNCHANGED <<insertFor, wake, fileVars, longest>>

\* Mutation of EndBackoff: the time slept is kept.
EndBackoffKeeping ==
  /\ phase = "backoff"
  /\ phase' = "idle"
  /\ slept' = slept + 1
  /\ MarkAlive \/ UNCHANGED fileVars
  /\ UNCHANGED <<insertFor, busy, wake, longest, other>>

\* _apply_backoff refreshes liveness after the sleep, whatever the heartbeat
\* does; this write may fail too.
EndBackoff ==
  /\ phase = "backoff"
  /\ phase' = "idle"
  /\ slept' = 0
  /\ MarkAlive \/ UNCHANGED fileVars
  /\ UNCHANGED <<insertFor, busy, wake, longest, other>>

\* SIGTERM or an exception: the finally block cancels the heartbeat first.
Stop ==
  /\ HasHeartbeat
  /\ phase' = "final"
  /\ UNCHANGED <<insertFor, slept, busy, wake, fileVars, longest, other>>

\* run returns, or the process is killed.  Nothing removes the file.
Exit ==
  /\ phase # "down"
  /\ phase' = "down"
  /\ UNCHANGED <<insertFor, slept, busy, wake, fileVars, longest, other>>

\* One unit of time.  Timers are not late: the heartbeat wakes, the insert is
\* timed out and the backoff ends when they are due.
Tick ==
  /\ age < MaxAge
  /\ HasHeartbeat => wake > 0
  /\ phase = "insert" => insertFor < InsertTimeout
  /\ phase = "backoff" => slept < MaxBackoff
  /\ age' = age + 1
  /\ wake' = IF HasHeartbeat THEN wake - 1 ELSE wake
  /\ busy' = IF Busy THEN busy + 1 ELSE busy
  /\ other' = IF phase = "step" THEN other + 1 ELSE other
  /\ insertFor' = IF phase = "insert" THEN insertFor + 1 ELSE insertFor
  /\ slept' = IF phase = "backoff" THEN slept + 1 ELSE slept
  /\ longest' = IF busy' > longest THEN busy' ELSE longest
  /\ UNCHANGED <<phase, marked, lost>>

Next ==
  \/ Start \/ Beat \/ BeginStep \/ BeginInsert \/ EndInsert \/ EndStep
  \/ EndBackoff \/ Stop \/ Exit \/ Tick

Spec == Init /\ [][Next]_vars

\* What "evnt queue healthcheck" reads in the file: _worker_is_alive.
Alive == age <= Stale

-----------------------------------------------------------------------------
TypeOK ==
  /\ phase \in {"down", "idle", "backoff", "step", "insert", "final"}
  /\ busy \in Nat
  /\ insertFor \in 0 .. InsertTimeout
  /\ slept \in 0 .. MaxBackoff
  /\ wake \in 0 .. Heartbeat
  /\ age \in Nat
  /\ marked \in BOOLEAN
  /\ lost \in Nat
  /\ longest \in Nat
  /\ other \in Nat

\* A loop stuck on an await is found out: once a step has outlasted the stall
\* threshold by the age at which the file is stale, the healthcheck fails,
\* whatever the heartbeat and the backoff have written before.
StallDetected ==
  HasHeartbeat /\ busy > StallThreshold + Stale => ~Alive

\* A worker that has begun to beat is never reported dead, lost writes apart,
\* before one step has gone on for the stall threshold plus what is left of
\* the stale age after two heartbeats.
NoFalseAlarm ==
  HasHeartbeat /\ marked /\ lost = 0 /\ ~Alive =>
    longest > StallThreshold + Stale - 2 * Heartbeat

\* constants.py:118: a step passes the stall threshold only by what it does
\* besides inserting, so a long data-error split is not a stall.
StallMeansSlowSettling ==
  HasHeartbeat /\ busy > StallThreshold => other > Grace

\* Each heartbeat write that fails costs one heartbeat of age and no more, so
\* a file that is stale after three heartbeats survives two lost writes.
LostWritesTolerated ==
  HasHeartbeat /\ marked /\ longest <= StallThreshold =>
    age <= (lost + 1) * Heartbeat

=============================================================================
