------------------------------ MODULE Delivery ------------------------------
(***************************************************************************)
(* What the queue-backed ingest path promises about one message, with no   *)
(* worker, no batches, no connections and no retries in sight:             *)
(*                                                                         *)
(*   accepted  the broker confirmed the publication;                       *)
(*   stored    the rows are in ClickHouse;                                 *)
(*   failed    a copy is in the failed queue;                              *)
(*   settled   the broker has forgotten the message for good.              *)
(*                                                                         *)
(* The promise is at-least-once delivery (website/docs/run/queue.md,       *)
(* "Delivery semantics"): the broker forgets a message only after its rows *)
(* are stored, or a copy of it is kept in the failed queue, or it had      *)
(* nothing to store.  BatchWorker implements this module.                  *)
(***************************************************************************)
CONSTANTS
  Messages,     \* messages producers may publish
  Discardable,  \* of them, the undecodable ones and those without rows
  Poison        \* of the others, those ClickHouse rejects with a DataError

VARIABLES accepted, stored, failed, settled

deliveryVars == <<accepted, stored, failed, settled>>

Init ==
  /\ accepted = {}
  /\ stored = {}
  /\ failed = {}
  /\ settled = {}

Accept(m) ==
  /\ m \notin accepted
  /\ accepted' = accepted \union {m}
  /\ UNCHANGED <<stored, failed, settled>>

\* Rows reach ClickHouse only for an accepted message the broker still keeps.
Store(S) ==
  /\ S \subseteq accepted \ (settled \union Discardable \union Poison)
  /\ stored' = stored \union S
  /\ UNCHANGED <<accepted, failed, settled>>

\* Only a message ClickHouse rejects is moved to the failed queue.
Isolate(m) ==
  /\ m \in (accepted \intersect Poison) \ settled
  /\ failed' = failed \union {m}
  /\ UNCHANGED <<accepted, stored, settled>>

Settle(S) ==
  /\ S \subseteq accepted \intersect (stored \union failed \union Discardable)
  /\ settled' = settled \union S
  /\ UNCHANGED <<accepted, stored, failed>>

Next ==
  \/ \E m \in Messages : Accept(m) \/ Isolate(m)
  \/ \E S \in SUBSET Messages : Store(S) \/ Settle(S)

Spec == Init /\ [][Next]_deliveryVars

=============================================================================
