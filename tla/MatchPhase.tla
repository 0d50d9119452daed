----------------------------- MODULE MatchPhase ------------------------------
(***************************************************************************)
(* What one room promises its players, without timers, sessions or locks:  *)
(* a roster is gathered, frozen when the match is made, and the match then *)
(* moves through its phases in order, never back, until the room is gone.  *)
(* RoomLifecycle implements this specification.                            *)
(***************************************************************************)
CONSTANTS Player,      \* everybody who may take part, humans and bots
          FullRoster   \* the rosters that make a match of the selected mode

VARIABLES phase, roster

vars == <<phase, roster>>

Phases == {"gathering", "matched", "loading", "starting", "playing", "ended", "gone"}
PreStart == {"gathering", "matched", "loading", "starting"}

TypeOK == phase \in Phases /\ roster \in SUBSET Player

Init == phase = "gathering" /\ roster \in SUBSET Player

\* Players join a room whose match is not made yet.
Gather ==
    /\ phase = "gathering"
    /\ phase' = "gathering"
    /\ roster' \in SUBSET Player
    /\ roster \subseteq roster'

\* The match is made only with a full roster; everybody may already be there,
\* and may even already be ready.
MakeMatch ==
    /\ phase = "gathering"
    /\ roster' \in FullRoster
    /\ roster \subseteq roster'
    /\ phase' \in {"matched", "loading", "starting"}

Load == phase = "matched" /\ phase' \in {"loading", "starting"} /\ UNCHANGED roster

StartCountdown == phase = "loading" /\ phase' = "starting" /\ UNCHANGED roster

\* The countdown ends, or an operator starts the room through the debug API.
Play == phase \in PreStart /\ phase' = "playing" /\ roster # {} /\ UNCHANGED roster

End == phase = "playing" /\ phase' = "ended" /\ UNCHANGED roster

\* Cancelled, expired, deleted, or cleaned up after the end of the match.
Discard == phase # "gone" /\ phase' = "gone" /\ UNCHANGED roster

Next == Gather \/ MakeMatch \/ Load \/ StartCountdown \/ Play \/ End \/ Discard

Spec == Init /\ [][Next]_vars
=============================================================================
