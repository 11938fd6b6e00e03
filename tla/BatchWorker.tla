---------------------------- MODULE BatchWorker -----------------------------
(***************************************************************************)
(* The RabbitMQ batch worker (src/backend/src/evnt/ingest/rabbitmq.py,     *)
(* RabbitMQBatchWorker) between the broker and ClickHouse.                 *)
(*                                                                         *)
(* The worker is one asyncio task plus the next_message_task it keeps      *)
(* across timeouts.  pc names the await the task is suspended at, or the   *)
(* synchronous point it has reached:                                       *)
(*                                                                         *)
(*   "top"      head of the loop in run, before _apply_backoff             *)
(*   "sleep"    asyncio.sleep in _apply_backoff                            *)
(*   "wait"     wait_for(shield(next_message_task), flush_interval)        *)
(*   "flush"    choosing the next table group to flush                     *)
(*   "insert"   the sink insert of the first slice of work                 *)
(*   "publish"  _publish_failed_message of a one-message slice             *)
(*   "settle"   ack, nack or reject of the messages in settling            *)
(*   "unwind"   leaving the loop: iterator exit and the finally block      *)
(*   "close"    worker.close() in QueueCommands.worker                     *)
(*   "down"     no process                                                 *)
(*                                                                         *)
(* The recursion of _flush_pending_messages is the list work of slices     *)
(* still to insert: both halves of a rejected batch are always attempted   *)
(* and the results are and-ed into succeeded.                              *)
(*                                                                         *)
(* A delivery carries the number of the connection it came on (epoch).     *)
(* After a reconnect the broker has requeued the message, and settling the *)
(* old delivery raises.                                                    *)
(***************************************************************************)
EXTENDS Integers, Sequences, FiniteSets, Functions

CONSTANTS
  Messages,     \* messages producers may publish to the ingest queue
  Groups,       \* table groups
  GroupOf,      \* table_group of a message
  RowsOf,       \* number of rows of a message
  Invalid,      \* messages whose body does not decode
  Poison,       \* messages with a row ClickHouse rejects (DataError)
  BatchSize,    \* config.batch_size, in rows
  Prefetch,     \* config.prefetch_count
  MaxExponent,  \* largest e for which 2.0 ** e is a float (1023)
  FaultKinds,   \* the kinds of fault the environment may inject
  MaxFaults     \* bound: faults in one behaviour

ASSUME BatchWorkerAssumption ==
  /\ GroupOf \in [Messages -> Groups]
  /\ RowsOf \in [Messages -> Nat]
  /\ Invalid \subseteq Messages
  /\ Poison \subseteq Messages \ Invalid
  /\ \A m \in Poison : RowsOf[m] > 0
  /\ BatchSize \in Nat \ {0}
  /\ Prefetch \in Nat \ {0}
  /\ MaxExponent \in Nat
  /\ MaxFaults \in Nat

VARIABLES
  published,  \* messages producers have published
  ready,      \* in the queue, not delivered
  unacked,    \* delivered on the current connection, not settled
  acking,     \* the part of unacked whose ack is on its way to the broker
  epoch,      \* number of the current connection
  stored,     \* messages whose rows are in ClickHouse
  failed,     \* messages with a copy in the failed queue
  pc,
  mode,       \* "running", or "stopping" once the finally block has begun
  buffer,     \* deliveries inside the queue iterator
  task,       \* next_message_task: "none", "waiting", "done" or "stopped"
  fetched,    \* the result of a done next_message_task
  pending,    \* pending_batches
  rowCount,   \* pending_row_counts
  toFlush,    \* table groups the current flush_all has still to visit
  flushing,   \* the table group of the flush_table_group in progress
  work,       \* slices the flush has still to insert
  succeeded,  \* result of the flush so far
  settling,   \* deliveries still to be settled with verb
  verb,       \* "ack", "nack" or "reject"
  failures,   \* failure_counts
  applied,    \* _backoff_applied_counts
  faults      \* faults so far

brokerVars == <<published, ready, unacked, acking, epoch>>
sinkVars   == <<stored, failed>>
fetchVars  == <<buffer, task, fetched>>
batchVars  == <<pending, rowCount>>
flushVars  == <<toFlush, flushing, work, succeeded, settling, verb>>
backoffVars == <<failures, applied>>
vars == <<brokerVars, sinkVars, pc, mode, fetchVars, batchVars, flushVars,
          backoffVars, faults>>

Deliveries == [msg : Messages, epoch : Nat]

Empty       == {m \in Messages : RowsOf[m] = 0}
Discardable == Invalid \union Empty

\* The messages of a list of deliveries.
MsgsOf(s) == {s[i].msg : i \in DOMAIN s}

\* The keys of pending_batches: an entry is created by its first message.
PendingGroups == {g \in Groups : pending[g] # <<>>}

Live(d) == d.epoch = epoch

-----------------------------------------------------------------------------
Init ==
  /\ published = {}
  /\ ready = {}
  /\ unacked = {}
  /\ acking = {}
  /\ epoch = 0
  /\ stored = {}
  /\ failed = {}
  /\ pc = "top"
  /\ mode = "running"
  /\ buffer = {}
  /\ task = "none"
  /\ fetched = {}
  /\ pending = [g \in Groups |-> <<>>]
  /\ rowCount = [g \in Groups |-> 0]
  /\ toFlush = {}
  /\ flushing = {}
  /\ work = <<>>
  /\ succeeded = TRUE
  /\ settling = <<>>
  /\ verb = "ack"
  /\ failures = [g \in Groups |-> 0]
  /\ applied = [g \in Groups |-> 0]
  /\ faults = 0

Fault(kind) ==
  /\ kind \in FaultKinds
  /\ faults < MaxFaults
  /\ faults' = faults + 1

\* An exception, or a cancellation, leaves the flush and the loop; in the
\* finally block it leaves run.  What the flush had in hand is forgotten.
Raise ==
  /\ pc' = IF mode = "running" THEN "unwind" ELSE "close"
  /\ toFlush' = {}
  /\ flushing' = {}
  /\ work' = <<>>
  /\ settling' = <<>>
  /\ UNCHANGED <<succeeded, verb>>

-----------------------------------------------------------------------------
(* The broker and the queue iterator.                                      *)

Publish(m) ==
  /\ m \notin published
  /\ published' = published \union {m}
  /\ ready' = ready \union {m}
  /\ UNCHANGED <<unacked, acking, epoch, sinkVars, pc, mode, fetchVars,
                 batchVars, flushVars, backoffVars, faults>>

Deliver(m) ==
  /\ pc # "down" /\ mode = "running"
  /\ m \in ready
  /\ Cardinality(unacked) < Prefetch
  /\ ready' = ready \ {m}
  /\ unacked' = unacked \union {m}
  /\ buffer' = buffer \union {[msg |-> m, epoch |-> epoch]}
  /\ UNCHANGED <<published, acking, epoch, sinkVars, pc, mode, task, fetched,
                 batchVars, flushVars, backoffVars, faults>>

\* The broker reads an ack or a reject(requeue=False) and forgets the message.
ProcessAck(m) ==
  /\ m \in acking
  /\ unacked' = unacked \ {m}
  /\ acking' = acking \ {m}
  /\ UNCHANGED <<published, ready, epoch, sinkVars, pc, mode, fetchVars,
                 batchVars, flushVars, backoffVars, faults>>

\* The iterator's __anext__ completes next_message_task.
CompleteTask(d) ==
  /\ task = "waiting"
  /\ d \in buffer
  /\ task' = "done"
  /\ fetched' = {d}
  /\ buffer' = buffer \ {d}
  /\ UNCHANGED <<brokerVars, sinkVars, pc, mode, batchVars, flushVars,
                 backoffVars, faults>>

\* __anext__ ends with StopAsyncIteration.
StopIterator ==
  /\ Fault("iterator")
  /\ task = "waiting"
  /\ task' = "stopped"
  /\ UNCHANGED <<brokerVars, sinkVars, pc, mode, buffer, fetched, batchVars,
                 flushVars, backoffVars>>

\* The connection drops and the robust connection reopens it: every unsettled
\* message, acks not yet read included, is back in the queue.
LoseConnection ==
  /\ Fault("connection")
  /\ pc # "down"
  /\ epoch' = epoch + 1
  /\ ready' = ready \union unacked
  /\ unacked' = {}
  /\ acking' = {}
  /\ UNCHANGED <<published, sinkVars, pc, mode, fetchVars, batchVars,
                 flushVars, backoffVars>>

-----------------------------------------------------------------------------
(* The loop: back off, wait for a message, buffer it.                      *)

\* Groups with a failure that has not been slept off yet.
Unapplied == {g \in Groups : failures[g] > applied[g]}

\* 2.0 ** (max_failures - 1) raises OverflowError.
DelayOverflows == \E g \in Unapplied : failures[g] - 1 > MaxExponent

\* create_task(iterator.__anext__()) unless one is left from a timeout.
FetchTask == IF task = "none" THEN "waiting" ELSE task

\* Mutation of StartWait: the loop fetches without backing off first.
StartWaitHot ==
  /\ pc = "top"
  /\ pc' = "wait"
  /\ task' = FetchTask
  /\ UNCHANGED <<brokerVars, sinkVars, mode, buffer, fetched, batchVars,
                 flushVars, backoffVars, faults>>

StartWait ==
  /\ pc = "top"
  /\ Unapplied = {}
  /\ pc' = "wait"
  /\ task' = FetchTask
  /\ UNCHANGED <<brokerVars, sinkVars, mode, buffer, fetched, batchVars,
                 flushVars, backoffVars, faults>>

StartBackoff ==
  /\ pc = "top"
  /\ Unapplied # {}
  /\ ~DelayOverflows
  /\ pc' = "sleep"
  /\ UNCHANGED <<brokerVars, sinkVars, mode, fetchVars, batchVars, flushVars,
                 backoffVars, faults>>

OverflowBackoff ==
  /\ pc = "top"
  /\ DelayOverflows
  /\ Raise
  /\ UNCHANGED <<brokerVars, sinkVars, mode, fetchVars, batchVars,
                 backoffVars, faults>>

EndBackoff ==
  /\ pc = "sleep"
  /\ applied' = failures
  /\ pc' = "wait"
  /\ task' = FetchTask
  /\ UNCHANGED <<brokerVars, sinkVars, mode, buffer, fetched, batchVars,
                 flushVars, failures, faults>>

\* Mutation of TimeOut: a timeout flushes full batches only.
TimeOutFullOnly ==
  /\ pc = "wait"
  /\ task = "waiting"
  /\ pc' = "flush"
  /\ toFlush' = {g \in PendingGroups : rowCount[g] >= BatchSize}
  /\ UNCHANGED <<brokerVars, sinkVars, mode, fetchVars, batchVars, flushing,
                 work, succeeded, settling, verb, backoffVars, faults>>

\* No message within flush_interval: flush_all.  The task is kept.
TimeOut ==
  /\ pc = "wait"
  /\ task = "waiting"
  /\ pc' = "flush"
  /\ toFlush' = PendingGroups
  /\ UNCHANGED <<brokerVars, sinkVars, mode, fetchVars, batchVars, flushing,
                 work, succeeded, settling, verb, backoffVars, faults>>

\* StopAsyncIteration becomes a RuntimeError.
FailIteration ==
  /\ pc = "wait"
  /\ task = "stopped"
  /\ Raise
  /\ UNCHANGED <<brokerVars, sinkVars, mode, fetchVars, batchVars,
                 backoffVars, faults>>

TakeMessage(d) ==
  /\ pc = "wait"
  /\ task = "done"
  /\ d \in fetched
  /\ task' = "none"
  /\ fetched' = {}
  /\ UNCHANGED <<brokerVars, sinkVars, mode, buffer, backoffVars, faults>>

\* add_message: an undecodable body is rejected, a message without rows acked.
DropMessage(d) ==
  /\ TakeMessage(d)
  /\ d.msg \in Discardable
  /\ pc' = "settle"
  /\ settling' = <<d>>
  /\ verb' = IF d.msg \in Invalid THEN "reject" ELSE "ack"
  /\ UNCHANGED <<batchVars, toFlush, flushing, work, succeeded>>

\* Mutation of BufferMessage: a batch counts as full one row late.
BufferMessageLate(d) ==
  LET g == GroupOf[d.msg] IN
  /\ TakeMessage(d)
  /\ d.msg \notin Discardable
  /\ pending' = [pending EXCEPT ![g] = Append(@, d)]
  /\ rowCount' = [rowCount EXCEPT ![g] = @ + RowsOf[d.msg]]
  /\ IF rowCount[g] + RowsOf[d.msg] > BatchSize
       THEN pc' = "flush" /\ toFlush' = {g}
       ELSE pc' = "top" /\ UNCHANGED toFlush
  /\ UNCHANGED <<flushing, work, succeeded, settling, verb>>

\* add_message: buffer the message, and flush its group once it is full.
BufferMessage(d) ==
  LET g == GroupOf[d.msg] IN
  /\ TakeMessage(d)
  /\ d.msg \notin Discardable
  /\ pending' = [pending EXCEPT ![g] = Append(@, d)]
  /\ rowCount' = [rowCount EXCEPT ![g] = @ + RowsOf[d.msg]]
  /\ IF rowCount[g] + RowsOf[d.msg] >= BatchSize
       THEN pc' = "flush" /\ toFlush' = {g}
       ELSE pc' = "top" /\ UNCHANGED toFlush
  /\ UNCHANGED <<flushing, work, succeeded, settling, verb>>

-----------------------------------------------------------------------------
(* Flushing.                                                               *)

\* Mutation of FlushTableGroup: the batch is read with get instead of pop.
FlushTableGroupKeeping(g) ==
  /\ pc = "flush"
  /\ g \in toFlush
  /\ UNCHANGED batchVars
  /\ toFlush' = toFlush \ {g}
  /\ flushing' = {g}
  /\ work' = <<pending[g]>>
  /\ succeeded' = TRUE
  /\ pc' = "insert"
  /\ UNCHANGED <<brokerVars, sinkVars, mode, fetchVars, settling, verb,
                 backoffVars, faults>>

FlushTableGroup(g) ==
  /\ pc = "flush"
  /\ g \in toFlush
  /\ pending' = [pending EXCEPT ![g] = <<>>]
  /\ rowCount' = [rowCount EXCEPT ![g] = 0]
  /\ toFlush' = toFlush \ {g}
  /\ flushing' = {g}
  /\ work' = <<pending[g]>>
  /\ succeeded' = TRUE
  /\ pc' = "insert"
  /\ UNCHANGED <<brokerVars, sinkVars, mode, fetchVars, settling, verb,
                 backoffVars, faults>>

EndFlush ==
  /\ pc = "flush"
  /\ toFlush = {}
  /\ pc' = IF mode = "running" THEN "top" ELSE "close"
  /\ UNCHANGED <<brokerVars, sinkVars, mode, fetchVars, batchVars, flushVars,
                 backoffVars, faults>>

\* Settle the first slice of work with v.
SettleSlice(v) ==
  /\ pc' = "settle"
  /\ settling' = Head(work)
  /\ verb' = v
  /\ work' = Tail(work)
  /\ UNCHANGED <<toFlush, flushing>>

Rejected(slice) == MsgsOf(slice) \intersect Poison # {}

\* What an insert that does not return normally may still have stored.
MayStore(slice) == IF Rejected(slice) THEN {{}} ELSE {{}, MsgsOf(slice)}

InsertRows ==
  /\ pc = "insert"
  /\ ~Rejected(Head(work))
  /\ stored' = stored \union MsgsOf(Head(work))
  /\ SettleSlice("ack")
  /\ UNCHANGED <<brokerVars, failed, mode, fetchVars, batchVars, succeeded,
                 backoffVars, faults>>

\* Mutation of FailInsert: a failed slice is acked like an inserted one.
FailInsertAcking ==
  /\ Fault("insert")
  /\ pc = "insert"
  /\ \E landed \in MayStore(Head(work)) : stored' = stored \union landed
  /\ SettleSlice("ack")
  /\ succeeded' = FALSE
  /\ UNCHANGED <<brokerVars, failed, mode, fetchVars, batchVars, backoffVars>>

\* Timeout, connection error, server error: the whole slice is requeued.
FailInsert ==
  /\ Fault("insert")
  /\ pc = "insert"
  /\ \E landed \in MayStore(Head(work)) : stored' = stored \union landed
  /\ SettleSlice("nack")
  /\ succeeded' = FALSE
  /\ UNCHANGED <<brokerVars, failed, mode, fetchVars, batchVars, backoffVars>>

Midpoint(slice) == Len(slice) \div 2

\* Mutation of SplitSlice: the second half starts at the last message of the
\* first.
SplitSliceOverlapping ==
  LET slice == Head(work) IN
  /\ pc = "insert"
  /\ Rejected(slice)
  /\ Len(slice) > 1
  /\ work' = <<SubSeq(slice, 1, Midpoint(slice)),
               SubSeq(slice, Midpoint(slice), Len(slice))>> \o Tail(work)
  /\ UNCHANGED <<brokerVars, sinkVars, pc, mode, fetchVars, batchVars, toFlush,
                 flushing, succeeded, settling, verb, backoffVars, faults>>

\* DataError on several messages: insert the halves, the first half first.
\* max(1, len(pending) // 2) is len(pending) // 2 here.
SplitSlice ==
  LET slice == Head(work) IN
  /\ pc = "insert"
  /\ Rejected(slice)
  /\ Len(slice) > 1
  /\ work' = <<SubSeq(slice, 1, Midpoint(slice)),
               SubSeq(slice, Midpoint(slice) + 1, Len(slice))>> \o Tail(work)
  /\ UNCHANGED <<brokerVars, sinkVars, pc, mode, fetchVars, batchVars, toFlush,
                 flushing, succeeded, settling, verb, backoffVars, faults>>

\* Mutation of IsolateMessage: a rejected batch goes to the failed queue whole.
IsolateSlice ==
  /\ pc = "insert"
  /\ Rejected(Head(work))
  /\ pc' = "publish"
  /\ UNCHANGED <<brokerVars, sinkVars, mode, fetchVars, batchVars, flushVars,
                 backoffVars, faults>>

\* DataError on one message: move it to the failed queue.
IsolateMessage ==
  /\ pc = "insert"
  /\ Rejected(Head(work))
  /\ Len(Head(work)) = 1
  /\ pc' = "publish"
  /\ UNCHANGED <<brokerVars, sinkVars, mode, fetchVars, batchVars, flushVars,
                 backoffVars, faults>>

PublishFailedMessage ==
  /\ pc = "publish"
  /\ failed' = failed \union MsgsOf(Head(work))
  /\ SettleSlice("ack")
  /\ UNCHANGED <<brokerVars, stored, mode, fetchVars, batchVars, succeeded,
                 backoffVars, faults>>

\* The publication fails, or its confirm is lost: the message is requeued.
FailPublish ==
  /\ Fault("publish")
  /\ pc = "publish"
  /\ failed' \in {failed, failed \union MsgsOf(Head(work))}
  /\ SettleSlice("nack")
  /\ succeeded' = FALSE
  /\ UNCHANGED <<brokerVars, stored, mode, fetchVars, batchVars, backoffVars>>

\* message.ack() or message.reject(requeue=False).
SendAck ==
  /\ pc = "settle" /\ verb # "nack"
  /\ settling # <<>> /\ Live(Head(settling))
  /\ acking' = acking \union {Head(settling).msg}
  /\ settling' = Tail(settling)
  /\ UNCHANGED <<published, ready, unacked, epoch, sinkVars, pc, mode,
                 fetchVars, batchVars, toFlush, flushing, work, succeeded,
                 verb, backoffVars, faults>>

\* message.nack(requeue=True).
SendNack ==
  /\ pc = "settle" /\ verb = "nack"
  /\ settling # <<>> /\ Live(Head(settling))
  /\ unacked' = unacked \ {Head(settling).msg}
  /\ ready' = ready \union {Head(settling).msg}
  /\ settling' = Tail(settling)
  /\ UNCHANGED <<published, acking, epoch, sinkVars, pc, mode, fetchVars,
                 batchVars, toFlush, flushing, work, succeeded, verb,
                 backoffVars, faults>>

\* Settling a delivery of an earlier connection raises.
FailSettle ==
  /\ pc = "settle"
  /\ settling # <<>> /\ ~Live(Head(settling))
  /\ Raise
  /\ UNCHANGED <<brokerVars, sinkVars, mode, fetchVars, batchVars,
                 backoffVars, faults>>

\* The slice is settled and another half is left.
NextSlice ==
  /\ pc = "settle" /\ settling = <<>>
  /\ work # <<>>
  /\ pc' = "insert"
  /\ UNCHANGED <<brokerVars, sinkVars, mode, fetchVars, batchVars, flushVars,
                 backoffVars, faults>>

\* Mutation of RecordFlush: a success takes back one failure.
RecordFlushDecrementing(g) ==
  /\ pc = "settle" /\ settling = <<>>
  /\ work = <<>>
  /\ g \in flushing
  /\ failures' = [failures EXCEPT ![g] = IF succeeded THEN @ - 1 ELSE @ + 1]
  /\ applied' = [applied EXCEPT ![g] = IF succeeded THEN 0 ELSE @]
  /\ flushing' = {}
  /\ pc' = "flush"
  /\ UNCHANGED <<brokerVars, sinkVars, mode, fetchVars, batchVars, toFlush,
                 work, succeeded, settling, verb, faults>>

\* flush_table_group records the result of the flush.
RecordFlush(g) ==
  /\ pc = "settle" /\ settling = <<>>
  /\ work = <<>>
  /\ g \in flushing
  /\ failures' = [failures EXCEPT ![g] = IF succeeded THEN 0 ELSE @ + 1]
  /\ applied' = [applied EXCEPT ![g] = IF succeeded THEN 0 ELSE @]
  /\ flushing' = {}
  /\ pc' = "flush"
  /\ UNCHANGED <<brokerVars, sinkVars, mode, fetchVars, batchVars, toFlush,
                 work, succeeded, settling, verb, faults>>

\* add_message returns after it dropped a message.
EndDrop ==
  /\ pc = "settle" /\ settling = <<>>
  /\ work = <<>> /\ flushing = {}
  /\ pc' = "top"
  /\ UNCHANGED <<brokerVars, sinkVars, mode, fetchVars, batchVars, flushVars,
                 backoffVars, faults>>

-----------------------------------------------------------------------------
(* Stopping, crashing, restarting.                                         *)

\* An insert or a publication that is cut off may still take effect.
CutShort ==
  /\ \/ UNCHANGED stored
     \/ pc = "insert" /\ \E landed \in MayStore(Head(work)) :
                           stored' = stored \union landed
  /\ \/ UNCHANGED failed
     \/ pc = "publish" /\ failed' = failed \union MsgsOf(Head(work))

\* SIGTERM cancels the task at the await it is suspended at.
Cancel ==
  /\ Fault("cancel")
  /\ pc \in {"sleep", "wait", "insert", "publish", "settle"}
  /\ CutShort
  /\ Raise
  /\ UNCHANGED <<brokerVars, mode, fetchVars, batchVars, backoffVars>>

\* Leaving "async with iterator" returns what the iterator buffered; then the
\* finally block cancels the task, or drops its result, and starts flush_all.
CloseIterator ==
  LET returned == {d.msg : d \in {b \in buffer : Live(b)}} IN
  /\ pc = "unwind"
  /\ ready' = ready \union returned
  /\ unacked' = unacked \ returned
  /\ buffer' = {}
  /\ task' = "none"
  /\ fetched' = {}
  /\ mode' = "stopping"
  /\ toFlush' = PendingGroups
  /\ pc' = "flush"
  /\ UNCHANGED <<published, acking, epoch, sinkVars, batchVars, flushing, work,
                 succeeded, settling, verb, backoffVars, faults>>

\* Nothing of the process is left.
ForgetMemory ==
  /\ pc' = "down"
  /\ mode' = "running"
  /\ buffer' = {}
  /\ task' = "none"
  /\ fetched' = {}
  /\ pending' = [g \in Groups |-> <<>>]
  /\ rowCount' = [g \in Groups |-> 0]
  /\ toFlush' = {}
  /\ flushing' = {}
  /\ work' = <<>>
  /\ succeeded' = TRUE
  /\ settling' = <<>>
  /\ verb' = "ack"
  /\ failures' = [g \in Groups |-> 0]
  /\ applied' = [g \in Groups |-> 0]

\* channel.close(): the broker has read every ack and requeues the rest.
CloseChannel ==
  /\ pc = "close"
  /\ ready' = ready \union (unacked \ acking)
  /\ unacked' = {}
  /\ acking' = {}
  /\ ForgetMemory
  /\ UNCHANGED <<published, epoch, sinkVars, faults>>

\* SIGKILL, out of memory, host failure.
Kill ==
  /\ Fault("kill")
  /\ pc # "down"
  /\ ready' = ready \union unacked
  /\ unacked' = {}
  /\ acking' = {}
  /\ CutShort
  /\ ForgetMemory
  /\ UNCHANGED <<published, epoch>>

\* The orchestrator starts the worker again.
Restart ==
  /\ pc = "down"
  /\ pc' = "top"
  /\ epoch' = epoch + 1
  /\ UNCHANGED <<published, ready, unacked, acking, sinkVars, mode, fetchVars,
                 batchVars, flushVars, backoffVars, faults>>

-----------------------------------------------------------------------------
Loop ==
  \/ StartWait \/ StartBackoff \/ OverflowBackoff \/ EndBackoff
  \/ TimeOut \/ FailIteration
  \/ \E d \in fetched : DropMessage(d) \/ BufferMessage(d)

Flush ==
  \/ \E g \in Groups : FlushTableGroup(g) \/ RecordFlush(g)
  \/ EndFlush \/ InsertRows \/ SplitSlice \/ IsolateMessage
  \/ PublishFailedMessage \/ SendAck \/ SendNack \/ FailSettle
  \/ NextSlice \/ EndDrop

Stop == CloseIterator \/ CloseChannel

\* What the process does when the environment injects nothing.
Worker == Loop \/ Flush \/ Stop

Broker ==
  \/ \E m \in Messages : Publish(m) \/ Deliver(m) \/ ProcessAck(m)
  \/ \E d \in buffer : CompleteTask(d)

Environment ==
  \/ FailInsert \/ FailPublish \/ StopIterator \/ LoseConnection
  \/ Cancel \/ Kill \/ Restart

Next == Worker \/ Broker \/ Environment

Spec == Init /\ [][Next]_vars

(***************************************************************************)
(* asyncio resumes a task whose await is ready, the broker delivers and    *)
(* reads what it is sent, a queue hands out its messages in order, and the *)
(* orchestrator restarts the container (compose.yml, restart).  No fault   *)
(* is ever fair.                                                           *)
(***************************************************************************)
Fairness ==
  /\ WF_vars(Worker)
  /\ WF_vars(Restart)
  /\ \A m \in Messages :
       /\ WF_vars(Deliver(m))
       /\ WF_vars(ProcessAck(m))
       /\ WF_vars(\E d \in buffer : d.msg = m /\ CompleteTask(d))

FairSpec == Spec /\ Fairness

-----------------------------------------------------------------------------
TypeOK ==
  /\ published \subseteq Messages
  /\ ready \subseteq Messages
  /\ unacked \subseteq Messages
  /\ acking \subseteq Messages
  /\ epoch \in Nat
  /\ stored \subseteq Messages
  /\ failed \subseteq Messages
  /\ pc \in {"top", "sleep", "wait", "flush", "insert", "publish", "settle",
             "unwind", "close", "down"}
  /\ mode \in {"running", "stopping"}
  /\ buffer \subseteq Deliveries
  /\ task \in {"none", "waiting", "done", "stopped"}
  /\ fetched \subseteq Deliveries
  /\ pending \in [Groups -> Seq(Deliveries)]
  /\ rowCount \in [Groups -> Nat]
  /\ toFlush \subseteq Groups
  /\ flushing \subseteq Groups
  /\ work \in Seq(Seq(Deliveries))
  /\ succeeded \in BOOLEAN
  /\ settling \in Seq(Deliveries)
  /\ verb \in {"ack", "nack", "reject"}
  /\ failures \in [Groups -> Nat]
  /\ applied \in [Groups -> Nat]
  /\ faults \in 0 .. MaxFaults

\* Messages the broker may forget without losing rows.
Resolved == stored \union failed \union Discardable

\* No message is lost: whatever was published and is no longer with the broker
\* is in ClickHouse, in the failed queue, or had nothing to store; and an ack is
\* on its way only for such a message.  (insert, publish, then ack: lines
\* 574-644 of rabbitmq.py, through splits, timeouts, cancels and reconnects.)
NoLoss ==
  /\ published \subseteq ready \union unacked \union Resolved
  /\ acking \subseteq Resolved

InPending  == UNION {Range(pending[g]) : g \in Groups}
InWork     == UNION {Range(work[k]) : k \in DOMAIN work}
InSettling == Range(settling)

Places == <<buffer, fetched, InPending, InWork, InSettling>>

\* The deliveries the process holds.
Held == UNION Range(Places)

\* A delivery is settled at most once (RabbitMQ closes the channel on an unknown
\* delivery tag): the process holds it in one place, and if it came on the
\* current connection the broker still waits for its first ack or nack.
SettledAtMostOnce ==
  /\ LET places == Places IN
     \A i, j \in DOMAIN places : i # j => places[i] \intersect places[j] = {}
  /\ \A g \in Groups : IsInjective(pending[g])
  /\ \A g, h \in Groups :
       g # h => Range(pending[g]) \intersect Range(pending[h]) = {}
  /\ \A k \in DOMAIN work : IsInjective(work[k])
  /\ \A k, l \in DOMAIN work :
       k # l => Range(work[k]) \intersect Range(work[l]) = {}
  /\ IsInjective(settling)
  /\ \A d \in Held : Live(d) => d.msg \in unacked \ acking

\* Before the loop waits again, no group holds a full batch, and the row count
\* that decides it is the number of rows the group holds (add_message and
\* flush_table_group keep pending_batches and pending_row_counts together).
NoFullBatchWaits ==
  /\ \A g \in Groups :
       rowCount[g] = SumFunction([i \in DOMAIN pending[g] |->
                                    RowsOf[pending[g][i].msg]])
  /\ pc \in {"top", "sleep", "wait"} =>
       \A g \in Groups : rowCount[g] < BatchSize

\* A group that failed is not tried again before its failure has been slept off
\* (_apply_backoff between iterations), whatever the other groups did.
NoHotRetry ==
  pc = "insert" /\ mode = "running" =>
    \A g \in flushing : failures[g] = applied[g]

\* Duplicates need a fault: as long as none has happened, no message that is
\* stored or in the failed queue is inserted again, so each is stored once.
ExactlyOnceWithoutFaults ==
  faults = 0 =>
    {d.msg : d \in InWork \union InPending \union buffer \union fetched}
      \intersect (stored \union failed) = {}

\* The promise to the publisher: at-least-once delivery, poison apart.
D == INSTANCE Delivery WITH
       accepted <- published,
       settled <- published \ (ready \union unacked)

DeliversAtLeastOnce == D!Spec

\* Every published message is settled in the end, through every fault: batches
\* below batch_size, a prefetch window below batch_size, poison beside valid
\* messages, reconnects, signals, crashes.
EventuallySettled ==
  \A m \in Messages :
    m \in published ~> m \in published \ (ready \union unacked)

\* cli.py:350: SIGTERM "cancels the running task, so the finally block below
\* flushes the batch in hand".  What the signal finds accumulated is stored
\* already or still in memory for the final flush.
SignalKeepsBatchInHand ==
  [][Cancel => {d.msg : d \in InPending \union InWork}
                 \subseteq stored \union failed \union {d.msg : d \in InPending'}]_vars

\* rabbitmq.py:276: the backoff is capped "so the consumer never stalls
\* indefinitely between iterations when ClickHouse is persistently unavailable";
\* an outage of ClickHouse alone never ends the worker.
OutageNeverStopsWorker == pc \notin {"unwind", "close", "down"}

=============================================================================
