--------------------------- MODULE MCProjectiles ---------------------------
(* Instances of Projectiles: one player against two. *)
EXTENDS Projectiles, TLC

TwoAgainstOne == [p \in Players |-> IF p = 1 THEN "red" ELSE "blue"]
Volleys == ("single" :> 1) @@ ("volley" :> 2)
Damages == ("single" :> 2) @@ ("volley" :> 1)
Speeds == ("single" :> 2) @@ ("volley" :> 2)
Reaches == ("single" :> 4) @@ ("volley" :> 5)
=============================================================================
