--------------------------- MODULE MCBatchWorker ---------------------------
(***************************************************************************)
(* Instances of BatchWorker for TLC.  A message is named for what it is:   *)
(* those with an a or a b are valid, those with a p hold a row ClickHouse  *)
(* rejects, bad does not decode, nil has no rows.  b1 belongs to table     *)
(* group GB, the others to GA.  Two rows of a1, b1 and p1 count as one of  *)
(* the others, so that two of them or four of the others fill a batch.     *)
(***************************************************************************)
EXTENDS BatchWorker

CONSTANTS a1, b1, p1, a2, a3, p2, p3, bad, nil, GA, GB

Large == Messages \intersect {a1, b1, p1}

MCGroupOf == [m \in Messages |-> IF m = b1 THEN GB ELSE GA]
MCRowsOf  == [m \in Messages |-> IF m = nil THEN 0 ELSE IF m \in Large THEN 2 ELSE 1]
MCInvalid == Messages \intersect {bad}
MCPoison  == Messages \intersect {p1, p2, p3}

\* Either the large messages, two delivered at a time and with faults, or the
\* others, without.  All are published before the first is delivered: deliveries
\* come in any order and may take their time, so the worker sees no difference.
Traffic ==
  /\ \/ published \subseteq Large /\ Cardinality(unacked) <= 2
     \/ published \intersect Large = {} /\ faults = 0
  /\ unacked # {} => published \in {Large, Messages \ Large}
=============================================================================
