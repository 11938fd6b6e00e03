---------------------------- MODULE MCTableBrowser ----------------------------
(***************************************************************************)
(* Servers and tables for model-checking TableBrowser: one server with a   *)
(* plain table, one without the column "time" and one with a name that is  *)
(* rejected, one server with only the second, and an empty one.            *)
(***************************************************************************)
EXTENDS TableBrowser

CONSTANTS full, other, empty, local, archive, odd

MCListed == [server \in Servers |->
  CASE server = full -> <<local, archive, odd>>
    [] server = other -> <<archive>>
    [] server = empty -> <<>>]

MCColumns == [at \in Servers \X Tables |->
  IF at[2] = local THEN {"time", "other"} ELSE IF at[1] = full THEN {"other"} ELSE {"time"}]
=============================================================================
