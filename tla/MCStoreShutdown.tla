-------------------------- MODULE MCStoreShutdown --------------------------
(* Instances of StoreShutdown: the connections of one room. *)
EXTENDS StoreShutdown, TLC

CONSTANTS r1, a, b

BothInOne == (a :> r1) @@ (b :> r1)
=============================================================================
