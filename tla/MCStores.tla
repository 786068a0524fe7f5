------------------------------ MODULE MCStores ------------------------------
(* Instance of Stores: a table, a column added to it and a second table    *)
(* with a column; two alerts are copies of one signal.                     *)
EXTENDS StoresInv, TLC

CONSTANTS a1, a2, a3, c1, c2

MCSchema == <<[alter |-> FALSE, name |-> "runs"], [alter |-> TRUE, name |-> "priority"],
              [alter |-> FALSE, name |-> "specs"]>>
MCKeyOf == a1 :> "bar1:entry:long" @@ a2 :> "bar1:entry:long" @@ a3 :> "bar2:exit:long"
MCOps == c1 :> {"run", "deploy", "alert"} @@ c2 :> {"run", "alert", "save"}
=============================================================================
