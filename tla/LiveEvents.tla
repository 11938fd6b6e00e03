----------------------------- MODULE LiveEvents -----------------------------
(***************************************************************************)
(* The live event log of the demo page: logRequest of                      *)
(* frontend/src/lib/interceptor.ts and the store of                        *)
(* frontend/src/stores/liveEvents.ts.                                      *)
(*                                                                         *)
(* A request is a number, in the order the page makes them.  Reading its   *)
(* body is asynchronous and may end in any order; the promise chain        *)
(* "pending" pushes the entries in request order.                          *)
(***************************************************************************)
EXTENDS Integers, Sequences, FiniteSets

CONSTANTS
  MaxLogs,     \* MAX_LOGS
  MaxRequests  \* bound: tracker requests in one behaviour

ASSUME LiveEventsAssumption ==
  /\ MaxLogs \in Nat \ {0}
  /\ MaxRequests \in Nat

VARIABLES
  paused,
  logs,       \* newest first
  nextId,
  made,       \* tracker requests made so far
  chain,      \* the promise chain: requests recorded, not pushed yet
  settled,    \* of them, those whose body has been read, or failed to be
  clearedAt   \* nextId at the last clear (history)

vars == <<paused, logs, nextId, made, chain, settled, clearedAt>>

Requests == 1 .. MaxRequests
Entries  == [id : Nat \ {0}, request : Requests]

Init ==
  /\ paused = FALSE
  /\ logs = <<>>
  /\ nextId = 1
  /\ made = 0
  /\ chain = <<>>
  /\ settled = {}
  /\ clearedAt = 1

\* logRequest: the request joins the chain unless capture is paused now.
LogRequest ==
  /\ made < MaxRequests
  /\ made' = made + 1
  /\ chain' = IF paused THEN chain ELSE Append(chain, made + 1)
  /\ UNCHANGED <<paused, logs, nextId, settled, clearedAt>>

\* A body that cannot be read settles too, with a text that says so.
ReadBody(r) ==
  /\ \E i \in DOMAIN chain : chain[i] = r
  /\ r \notin settled
  /\ settled' = settled \union {r}
  /\ UNCHANGED <<paused, logs, nextId, made, chain, clearedAt>>

Kept == IF Len(logs) < MaxLogs THEN Len(logs) ELSE MaxLogs - 1

\* Mutation of Push: no chain, an entry is pushed once its body is read.
PushWhenRead ==
  /\ ~paused
  /\ \E r \in settled :
       /\ chain' = SelectSeq(chain, LAMBDA q : q # r)
       /\ settled' = settled \ {r}
       /\ logs' = <<[id |-> nextId, request |-> r]>> \o SubSeq(logs, 1, Kept)
  /\ nextId' = nextId + 1
  /\ UNCHANGED <<paused, made, clearedAt>>

\* Mutation of Push: entries wait in the chain while capture is paused.
PushUnlessPaused ==
  /\ chain # <<>>
  /\ Head(chain) \in settled
  /\ ~paused
  /\ chain' = Tail(chain)
  /\ settled' = settled \ {Head(chain)}
  /\ logs' = <<[id |-> nextId, request |-> Head(chain)]>> \o SubSeq(logs, 1, Kept)
  /\ nextId' = nextId + 1
  /\ UNCHANGED <<paused, made, clearedAt>>

\* push: nothing is logged while paused, and the oldest entry makes room.
Push ==
  /\ chain # <<>>
  /\ Head(chain) \in settled
  /\ chain' = Tail(chain)
  /\ settled' = settled \ {Head(chain)}
  /\ IF paused
       THEN UNCHANGED <<logs, nextId>>
       ELSE /\ logs' = <<[id |-> nextId, request |-> Head(chain)]>>
                         \o SubSeq(logs, 1, Kept)
            /\ nextId' = nextId + 1
  /\ UNCHANGED <<paused, made, clearedAt>>

Clear ==
  /\ logs' = <<>>
  /\ clearedAt' = nextId
  /\ UNCHANGED <<paused, nextId, made, chain, settled>>

TogglePaused ==
  /\ paused' = ~paused
  /\ UNCHANGED <<logs, nextId, made, chain, settled, clearedAt>>

Next ==
  \/ LogRequest \/ Push \/ Clear \/ TogglePaused
  \/ \E r \in Requests : ReadBody(r)

Spec == Init /\ [][Next]_vars

\* The event loop runs a continuation that is ready, and reading the body of a
\* request ends: the bodies trackers send are in memory.
Fairness == WF_vars(Push) /\ \A r \in Requests : WF_vars(ReadBody(r))

FairSpec == Spec /\ Fairness

-----------------------------------------------------------------------------
TypeOK ==
  /\ paused \in BOOLEAN
  /\ logs \in Seq(Entries)
  /\ nextId \in Nat \ {0}
  /\ made \in 0 .. MaxRequests
  /\ chain \in Seq(Requests)
  /\ settled \subseteq Requests
  /\ clearedAt \in Nat \ {0}

\* The log shows the newest entries since it was cleared, as many as it may
\* hold, newest first: ids count down without a gap and requests appear in the
\* order they were made, whichever body was read first.  (interceptor.ts:70,
\* liveEvents.ts:14)
NewestInRequestOrder ==
  /\ Len(logs) = IF nextId - clearedAt < MaxLogs THEN nextId - clearedAt ELSE MaxLogs
  /\ \A i \in DOMAIN logs : logs[i].id = nextId - i
  /\ \A i, j \in DOMAIN logs : i < j => logs[i].request > logs[j].request

\* No body, slow or unreadable, keeps a later request out for ever: whatever
\* has joined the chain leaves it.
ChainDrains ==
  \A r \in Requests :
    (\E i \in DOMAIN chain : chain[i] = r) ~> ~(\E i \in DOMAIN chain : chain[i] = r)

=============================================================================
