------------------------------ MODULE MCCombat ------------------------------
(* Instances of Combat: a human and a bot against another bot. *)
EXTENDS Combat, TLC

CONSTANTS h1, b1, b2

RedAgainstBlue == (h1 :> "red") @@ (b1 :> "red") @@ (b2 :> "blue")
ChargesOf == [x \in Characters |-> IF x = "lily" THEN 1 ELSE 2]
\* Every character in the human's hands, every kind of attack among the bots.
SomeLineups == {(h1 :> "shelly") @@ (b1 :> "shelly") @@ (b2 :> "colt"),
                (h1 :> "colt") @@ (b1 :> "shelly") @@ (b2 :> "lily"),
                (h1 :> "lily") @@ (b1 :> "shelly") @@ (b2 :> "shelly")}
AttackSchedule == <<0, 1, 2>>
SkillSchedule == <<0, 2>>
=============================================================================
