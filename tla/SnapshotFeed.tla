---------------------------- MODULE SnapshotFeed -----------------------------
(***************************************************************************)
(* What a connected client may count on while a match runs: snapshots come *)
(* in tick order; older ones may be skipped, but one that approves a skill *)
(* never is; and GameEnd is the last message, after the final snapshot.    *)
(* ClientOutbox implements this specification.                             *)
(***************************************************************************)
EXTENDS Naturals

CONSTANT MaxTick     \* bound: ticks of the match

VARIABLES offered,   \* the latest tick the room produced for the client
          owed,      \* approval ticks the client has not received yet
          received,  \* the last snapshot tick the client received
          over       \* the client received GameEnd

vars == <<offered, owed, received, over>>

TypeOK ==
    /\ offered \in 0..MaxTick /\ received \in 0..offered
    /\ owed \in SUBSET (1..MaxTick)
    /\ over \in BOOLEAN

Init == offered = 0 /\ owed = {} /\ received = 0 /\ over = FALSE

Offer(approval) ==
    /\ offered < MaxTick
    /\ offered' = offered + 1
    /\ owed' = IF approval THEN owed \cup {offered + 1} ELSE owed
    /\ UNCHANGED <<received, over>>

Receive(t) ==
    /\ ~over
    /\ received < t /\ t <= offered
    /\ \A a \in owed : t <= a
    /\ received' = t
    /\ owed' = owed \ {t}
    /\ UNCHANGED <<offered, over>>

Finish ==
    /\ ~over
    /\ received = offered /\ owed = {}
    /\ over' = TRUE
    /\ UNCHANGED <<offered, owed, received>>

Next ==
    \/ \E approval \in BOOLEAN : Offer(approval)
    \/ \E t \in 1..MaxTick : Receive(t)
    \/ Finish

Spec == Init /\ [][Next]_vars
=============================================================================
