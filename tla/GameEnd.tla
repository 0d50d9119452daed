------------------------------- MODULE GameEnd -------------------------------
(***************************************************************************)
(* The result rules of a match (internal/rooms/game_end.go): which players *)
(* of a snapshot have a final result, and whether the whole match is over. *)
(* A snapshot is abstracted to the set ps of its players and the subset    *)
(* dead of them; teamOf maps a player to its team and teams is the set of  *)
(* teams the selected mode configures.                                     *)
(***************************************************************************)
EXTENDS Naturals, FiniteSets

Modes == {"duel_1v1", "solo", "team"}

NoResults == [p \in {} |-> "Draw"]

\* playerSurvivalGameEndResults, also the duel rule: the first death decides
\* the match for everyone.
SurvivalResults(ps, dead) ==
    IF dead = {} THEN NoResults
    ELSE [p \in ps |-> IF dead = ps THEN "Draw"
                       ELSE IF p \in dead THEN "Lose" ELSE "Win"]

\* Mutant: the last one standing gets no result.
SoloResultsNoWinner(ps, dead) ==
    LET decided == IF dead = ps THEN ps ELSE dead
    IN  [p \in decided |-> IF dead = ps THEN "Draw" ELSE "Lose"]

\* soloGameEndResults: the dead lose one by one, the last one standing wins,
\* and if nobody is left everybody draws.
SoloResults(ps, dead) ==
    LET alive == ps \ dead
        decided == IF Cardinality(alive) <= 1 THEN ps ELSE dead
    IN  IF dead = {} THEN NoResults
        ELSE [p \in decided |-> IF alive = {} THEN "Draw"
                                ELSE IF p \in dead THEN "Lose" ELSE "Win"]

\* configuredTeamEliminations: a configured team with no live player counts as
\* eliminated, so a team that never had a player does too.
EliminatedTeams(ps, dead, teamOf, teams) ==
    {t \in teams : \A p \in ps \ dead : teamOf[p] # t}

\* teamGameEndResults
TeamResults(ps, dead, teamOf, teams) ==
    LET out == EliminatedTeams(ps, dead, teamOf, teams)
    IN  IF ps = {} \/ out = {} THEN NoResults
        ELSE IF out = teams THEN [p \in ps |-> "Draw"]
        ELSE [p \in {q \in ps : teamOf[q] \in teams} |->
                IF teamOf[p] \in out THEN "Lose" ELSE "Win"]

\* calculateGameEndResults
Results(mode, ps, dead, teamOf, teams) ==
    CASE mode = "solo" -> SoloResults(ps, dead)
      [] mode = "team" -> TeamResults(ps, dead, teamOf, teams)
      [] OTHER         -> SurvivalResults(ps, dead)

\* shouldEndGame
ShouldEnd(mode, ps, dead, teamOf, teams) ==
    /\ ps # {}
    /\ CASE mode = "solo" -> dead # {} /\ Cardinality(ps \ dead) <= 1
         [] mode = "team" -> EliminatedTeams(ps, dead, teamOf, teams) # {}
         [] OTHER         -> dead # {}
=============================================================================
