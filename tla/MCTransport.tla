----------------------------- MODULE MCTransport -----------------------------
(***************************************************************************)
(* Batches and key materials for model-checking Transport.                 *)
(***************************************************************************)
EXTENDS Transport, TLC

CONSTANTS event, large, repetitive, refused, raising

MCBatches == {event, large, repetitive, refused, raising}
MCPendings == {<<event, large, repetitive, refused, raising>>, <<refused, raising, event>>}
MCSize ==
  (event :> 2) @@ (large :> 5) @@ (repetitive :> 5) @@ (refused :> 1) @@ (raising :> 1)
MCPacked ==
  (event :> 1) @@ (large :> 4) @@ (repetitive :> 1) @@ (refused :> 1) @@ (raising :> 1)

MCMaterials ==
  {[given |-> {"file"}, form |-> "raw", curve |-> "X25519", size |-> 1],
   [given |-> {"setting"}, form |-> "der", curve |-> "X25519", size |-> 1]}
=============================================================================
