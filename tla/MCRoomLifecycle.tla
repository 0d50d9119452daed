-------------------------- MODULE MCRoomLifecycle ---------------------------
(* Small instances of RoomLifecycle for TLC. *)
EXTENDS RoomLifecycle, TLC

CONSTANTS h1, h2, h3, b1, b2

\* Duel: two humans or a human and a bot; each participant is its own team.
OwnTeam == [p \in Human \cup Bot |-> p]
AllTeams == Human \cup Bot

Interchangeable == Permutations(Human) \cup Permutations(Bot)
=============================================================================
