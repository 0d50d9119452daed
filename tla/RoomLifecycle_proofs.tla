------------------------ MODULE RoomLifecycle_proofs -------------------------
(***************************************************************************)
(* Proofs about RoomLifecycle, for every set of players, match size,       *)
(* countdown and number of connections: sessions and grace, the end of a   *)
(* match, its promised phases, its timers, and the room that is abandoned. *)
(***************************************************************************)
EXTENDS RoomLifecycle, FiniteSetTheorems, TLAPS

\* The values the match helpers pass on.
PhaseState == [match     : {"none", "matched", "loading", "starting", "started"},
               countdown : 0..Countdown,
               ready     : SUBSET Human,
               armed     : SUBSET Timer]

-----------------------------------------------------------------------------
(* The result rules (GameEnd). *)

\* Only players of the snapshot get a result.
LEMMA ResultsInSnapshot ==
    ASSUME NEW ps, NEW d \in SUBSET ps
    PROVE  DOMAIN Results(Mode, ps, d, TeamOf, Teams) \subseteq ps
  <1>1. DOMAIN NoResults = {}
    BY DEF NoResults
  <1>2. DOMAIN SurvivalResults(ps, d) \subseteq ps
    BY <1>1 DEF SurvivalResults
  <1>3. DOMAIN SoloResults(ps, d) \subseteq ps
    BY <1>1 DEF SoloResults
  <1>4. DOMAIN TeamResults(ps, d, TeamOf, Teams) \subseteq ps
    BY <1>1 DEF TeamResults
  <1>5. QED
    BY <1>2, <1>3, <1>4 DEF Results

\* When the match is over, every player has a result: no winner, loser or
\* team-mate is left without one (for the teams the mode configures).
LEMMA EveryoneDecidedAtEnd ==
    ASSUME NEW ps \in SUBSET Participant, NEW d \in SUBSET ps,
           ShouldEnd(Mode, ps, d, TeamOf, Teams)
    PROVE  DOMAIN Results(Mode, ps, d, TeamOf, Teams) = ps
  <1>1. CASE Mode = "solo"
    BY <1>1 DEF ShouldEnd, Results, SoloResults
  <1>2. CASE Mode = "team"
    <2>1. {q \in ps : TeamOf[q] \in Teams} = ps
      BY ModeAssumption DEF Participant
    <2>2. EliminatedTeams(ps, d, TeamOf, Teams) # {} /\ ps # {}
      BY <1>2 DEF ShouldEnd
    <2>3. DOMAIN TeamResults(ps, d, TeamOf, Teams) = ps
      BY <2>1, <2>2 DEF TeamResults
    <2>4. QED
      BY <2>3, <1>2 DEF Results
  <1>3. CASE Mode \notin {"solo", "team"}
    BY <1>3 DEF ShouldEnd, Results, SurvivalResults
  <1>4. QED
    BY <1>1, <1>2, <1>3

-----------------------------------------------------------------------------
(* The match helpers stay within PhaseState. *)

LEMMA HelpersTyped ==
    ASSUME NEW m \in PhaseState, NEW ps, NEW connected
    PROVE  /\ MarkMatchedIfFull(m, ps) \in PhaseState
           /\ StartCountdown(m) \in PhaseState
           /\ AdvanceLoading(m, ps, connected) \in PhaseState
           /\ StartPlaying(m) \in PhaseState
  <1>1. Countdown \in 0..Countdown /\ 0 \in 0..Countdown
    BY SizesAssumption
  <1>2. \A a \in SUBSET Timer : StartCountdown([m EXCEPT !.match = "loading", !.armed = a]) \in PhaseState
    BY <1>1 DEF StartCountdown, PhaseState, Timer, OneShot
  <1>3. MarkMatchedIfFull(m, ps) \in PhaseState
    BY DEF MarkMatchedIfFull, PhaseState, Timer, OneShot
  <1>4. StartCountdown(m) \in PhaseState
    BY <1>1 DEF StartCountdown, PhaseState, Timer, OneShot
  <1>5. StartPlaying(m) \in PhaseState
    BY <1>1 DEF StartPlaying, PhaseState, Timer, OneShot
  <1>6. AdvanceLoading(m, ps, connected) \in PhaseState
    <2> DEFINE l == [m EXCEPT !.match = "loading", !.armed = @ \ {"attach"}]
    <2>1. l \in PhaseState
      BY DEF PhaseState
    <2>2. StartCountdown(l) \in PhaseState
      BY <1>2 DEF PhaseState
    <2>3. [l EXCEPT !.armed = @ \cup {"ready"}] \in PhaseState
      BY <2>1 DEF PhaseState, Timer, OneShot
    <2>4. QED
      BY <2>2, <2>3 DEF AdvanceLoading
  <1>7. QED
    BY <1>3, <1>4, <1>5, <1>6

LEMMA MatchNowTyped == TypeOK => MatchNow \in PhaseState
  BY DEF TypeOK, MatchNow, PhaseState

\* What BecomesMatch does to the types.
LEMMA BecomesMatchTyped ==
    ASSUME TypeOK, NEW m \in PhaseState, BecomesMatch(m)
    PROVE  /\ match' \in {"none", "matched", "loading", "starting", "started"}
           /\ countdown' \in 0..Countdown
           /\ ready' \in SUBSET Human
           /\ armed' \in SUBSET Timer
           /\ due' \in SUBSET (armed' \cap OneShot)
  BY DEF BecomesMatch, PhaseState, TypeOK

\* What a removal does to the types.
LEMMA RemoveRoomTyped ==
    ASSUME TypeOK, NEW cs \in SUBSET Session, RemoveRoom(cs)
    PROVE  /\ removed' \in BOOLEAN
           /\ armed' \in SUBSET Timer
           /\ due' \in SUBSET (armed' \cap OneShot)
           /\ client' \in [Human -> Gen]
           /\ reserved' \in SUBSET Human
           /\ cause' \in [Session -> {"none", "reconnectable", "final"}]
           /\ doomed' \in SUBSET Session
  <1>1. 0 \in Gen
    BY SizesAssumption DEF Gen
  <1>2. QED
    BY <1>1 DEF TypeOK, RemoveRoom

\* TypeOK is inductive.
LEMMA TypeInit == Init => TypeOK
  <1>1. 0 \in Gen /\ 0 \in 0..Countdown
    BY SizesAssumption DEF Gen
  <1>2. Init => /\ players \in SUBSET Participant /\ armed \in SUBSET Timer
                /\ match \in {"none", "matched", "loading", "starting", "started"}
    BY DEF Init, Participant, Timer, OneShot
  <1>3. Init => /\ client \in [Human -> Gen] /\ generation \in [Human -> Gen]
                /\ grace \in [Human -> Gen] /\ countdown \in 0..Countdown
    BY <1>1 DEF Init
  <1>4. Init => /\ phase \in [Session -> {"absent", "open", "done", "released", "closed"}]
                /\ cause \in [Session -> {"none", "reconnectable", "final"}]
    BY DEF Init
  <1>5. QED
    BY <1>2, <1>3, <1>4 DEF Init, TypeOK

LEMMA TypeStep == TypeOK /\ [Next]_vars => TypeOK'
  <1> SUFFICES ASSUME TypeOK, [Next]_vars
               PROVE  TypeOK'
    OBVIOUS
  <1> USE DEF roomVars, matchVars, sessionVars, graceVars, playVars
  <1>0. MatchNow \in PhaseState
    BY MatchNowTyped
  <1>1. ASSUME NEW p \in Human, JoinMatchmaking(p)
        PROVE  TypeOK'
    <2> DEFINE joined == MarkMatchedIfFull(MatchNow, players')
               first  == Humans(players) = {}
               m == [joined EXCEPT !.armed =
                       IF joined.match = "matched"
                       THEN IF first THEN @ ELSE @ \ {"botFill"}
                       ELSE IF first THEN @ \cup {"botFill"} ELSE @]
    <2>1. joined \in PhaseState
      BY <1>0, HelpersTyped
    <2>2. m \in PhaseState
      <3> HIDE DEF joined, first
      <3> QED
        BY <2>1 DEF PhaseState, Timer, OneShot
    <2>3. BecomesMatch(m)
      BY <1>1 DEF JoinMatchmaking
    <2> HIDE DEF m
    <2>4. QED
      BY <1>1, <2>2, <2>3, BecomesMatchTyped DEF JoinMatchmaking, TypeOK, Participant
  <1>2. ASSUME NEW p \in Human, AddPlayer(p)
        PROVE  TypeOK'
    BY <1>2 DEF AddPlayer, TypeOK, Participant
  <1>3. ASSUME NEW bs \in SUBSET Bot, NEW m \in PhaseState, AppendBots(bs, m)
        PROVE  /\ players' \in SUBSET Participant /\ players \subseteq players'
               /\ match' \in {"none", "matched", "loading", "starting", "started"}
               /\ countdown' \in 0..Countdown
               /\ ready' \in SUBSET Human
               /\ armed' \in SUBSET Timer
               /\ due' \in SUBSET (armed' \cap OneShot)
               /\ idle' \in BOOLEAN
    <2>1. MarkMatchedIfFull(m, players') \in PhaseState
      BY <1>3, HelpersTyped
    <2>2. AdvanceLoading(MarkMatchedIfFull(m, players'), players', Connected) \in PhaseState
      BY <2>1, HelpersTyped
    <2>3. QED
      BY <1>3, <2>2, BecomesMatchTyped DEF AppendBots, TypeOK, Participant
  <1>4. ASSUME NEW bs \in SUBSET Bot, AddBots(bs)
        PROVE  TypeOK'
    <2>1. [MatchNow EXCEPT !.armed = @ \ {"botFill"}] \in PhaseState
      BY <1>0 DEF PhaseState
    <2>2. QED
      BY <1>0, <1>3, <1>4, <2>1 DEF AddBots, TypeOK
  <1>5. CASE FillBots
    <2>1. [MatchNow EXCEPT !.armed = @ \ {"botFill"}] \in PhaseState
      BY <1>0 DEF PhaseState
    <2> DEFINE m == [MatchNow EXCEPT !.armed = @ \ {"botFill"}]
    <2>2. \/ UNCHANGED <<players, matchVars, armed, due, idle>>
          \/ BecomesMatch(m) /\ UNCHANGED <<players, idle>>
          \/ \E bs \in SUBSET Bot : AppendBots(bs, m)
      BY <1>5 DEF FillBots
    <2>3. /\ fired' \in SUBSET Timer
          /\ UNCHANGED <<registered, removed, ending, client, sessionVars, reserved, cause,
                         doomed, graceVars, absent, playVars>>
      BY <1>5 DEF FillBots, TypeOK
    <2> HIDE DEF m
    <2>4. CASE UNCHANGED <<players, matchVars, armed, due, idle>>
      BY <2>3, <2>4 DEF TypeOK
    <2>5. CASE BecomesMatch(m) /\ UNCHANGED <<players, idle>>
      <3>1. /\ match' \in {"none", "matched", "loading", "starting", "started"}
            /\ countdown' \in 0..Countdown /\ ready' \in SUBSET Human
            /\ armed' \in SUBSET Timer /\ due' \in SUBSET (armed' \cap OneShot)
        BY <2>1, <2>5, BecomesMatchTyped DEF m
      <3>2. QED
        BY <2>3, <2>5, <3>1 DEF TypeOK
    <2>6. CASE \E bs \in SUBSET Bot : AppendBots(bs, m)
      <3>1. PICK bs \in SUBSET Bot : AppendBots(bs, m)
        BY <2>6
      <3>2. m \in PhaseState
        BY <2>1 DEF m
      <3>3. /\ players' \in SUBSET Participant /\ players \subseteq players'
            /\ match' \in {"none", "matched", "loading", "starting", "started"}
            /\ countdown' \in 0..Countdown /\ ready' \in SUBSET Human
            /\ armed' \in SUBSET Timer /\ due' \in SUBSET (armed' \cap OneShot)
            /\ idle' \in BOOLEAN
        BY <1>3, <3>1, <3>2
      <3>4. QED
        BY <2>3, <3>3 DEF TypeOK
    <2>7. QED
      BY <2>2, <2>4, <2>5, <2>6
  <1>6. ASSUME NEW p \in Human, ReserveClient(p) \/ RollbackReservation(p)
        PROVE  TypeOK'
    BY <1>6 DEF ReserveClient, RollbackReservation, TypeOK
  <1>7. ASSUME NEW p \in Human, AttachClient(p)
        PROVE  TypeOK'
    <2> DEFINE g == generation[p] + 1
    <2>1. g \in Gen /\ 0 \in Gen /\ <<p, g>> \in Session
      BY <1>7, SizesAssumption DEF AttachClient, TypeOK, Gen, Session
    <2>2. AdvanceLoading(MatchNow, players, Connected \cup {p}) \in PhaseState
      BY <1>0, HelpersTyped
    <2>3. QED
      BY <1>7, <2>1, <2>2, BecomesMatchTyped DEF AttachClient, GraceAfterAttach, TypeOK
  <1>8. ASSUME NEW s \in Session, NEW c \in {"reconnectable", "final"}, CloseSession(s, c)
        PROVE  TypeOK'
    BY <1>8 DEF CloseSession, TypeOK
  <1>9. ASSUME NEW s \in Session, ReleaseClient(s)
        PROVE  TypeOK'
    <2>1. s[1] \in Human /\ s[2] \in Gen /\ 0 \in Gen
      BY SizesAssumption DEF Session, Gen
    <2>2. phase' \in [Session -> {"absent", "open", "done", "released", "closed"}]
      BY <1>9 DEF ReleaseClient, TypeOK
    <2>3. CASE removed \/ client[s[1]] # s[2]
      BY <1>9, <2>2, <2>3 DEF ReleaseClient, TypeOK
    <2>4. CASE ~(removed \/ client[s[1]] # s[2])
      <3>1. ready' \in SUBSET Human /\ grace' \in [Human -> Gen] /\ graceDue' \in SUBSET Human
        BY <1>9, <2>1, <2>4 DEF ReleaseClient, TypeOK
      <3>2. CASE PreStartMatch
        <4>1. CurrentSessions \ {s} \in SUBSET Session
          BY DEF CurrentSessions
        <4>2. RemoveRoom(CurrentSessions \ {s}) /\ UNCHANGED absent
          BY <1>9, <2>4, <3>2 DEF ReleaseClient
        <4>3. /\ removed' \in BOOLEAN /\ armed' \in SUBSET Timer
              /\ due' \in SUBSET (armed' \cap OneShot) /\ client' \in [Human -> Gen]
              /\ reserved' \in SUBSET Human /\ doomed' \in SUBSET Session
              /\ cause' \in [Session -> {"none", "reconnectable", "final"}]
          BY <4>1, <4>2, RemoveRoomTyped
        <4>4. UNCHANGED <<registered, ending, players, match, countdown, generation, fired,
                          idle, playVars>>
          BY <1>9 DEF ReleaseClient
        <4>5. /\ registered' \in BOOLEAN /\ ending' \in BOOLEAN /\ players' \in SUBSET Participant
              /\ match' \in {"none", "matched", "loading", "starting", "started"}
              /\ countdown' \in 0..Countdown /\ generation' \in [Human -> Gen]
              /\ fired' \in SUBSET Timer /\ idle' \in BOOLEAN
              /\ absent' \in {"no", "counting", "elapsed"}
          BY <4>2, <4>4 DEF TypeOK
        <4>6. /\ dead' \in SUBSET players' /\ final' \in SUBSET players'
              /\ endWait' \in SUBSET Session /\ cleanup' \in {"none", "waiting", "done"}
              /\ forfeited' \in SUBSET Human
          BY <4>4 DEF TypeOK
        <4>7. QED
          BY <2>2, <3>1, <4>3, <4>5, <4>6 DEF TypeOK
      <3>3. CASE ~PreStartMatch
        <4>1. /\ client' = [client EXCEPT ![s[1]] = 0] /\ absent' \in {"counting", absent}
              /\ UNCHANGED <<registered, removed, ending, players, match, countdown, generation,
                             reserved, cause, doomed, armed, due, fired, idle, playVars>>
          BY <1>9, <2>4, <3>3 DEF ReleaseClient
        <4>2. client' \in [Human -> Gen] /\ absent' \in {"no", "counting", "elapsed"}
          BY <2>1, <4>1 DEF TypeOK
        <4>3. QED
          BY <2>2, <3>1, <4>1, <4>2 DEF TypeOK
      <3>4. QED
        BY <3>2, <3>3
    <2>5. QED
      BY <2>3, <2>4
  <1>10. ASSUME NEW s \in Session, FinishClose(s)
         PROVE  TypeOK'
    BY <1>10 DEF FinishClose, TypeOK
  <1>11. CurrentSessions \in SUBSET Session /\ Barrier \in SUBSET Session
    BY DEF CurrentSessions, Barrier
  <1>12. CancelMatch /\ fired' \in SUBSET Timer => TypeOK'
    BY <1>11, RemoveRoomTyped DEF CancelMatch, TypeOK
  <1>13. ASSUME NEW s \in Session, MarkReady(s)
         PROVE  TypeOK'
    <2>1. CASE CancelMatch
      BY <1>12, <1>13, <2>1 DEF MarkReady, TypeOK
    <2>2. CASE ~CancelMatch
      <3> DEFINE m == [MatchNow EXCEPT !.ready = @ \cup {s[1]}]
                 n == IF match = "loading" /\ AllReady(players, m.ready)
                      THEN StartCountdown(m) ELSE m
      <3>1. m \in PhaseState
        BY <1>0 DEF PhaseState, Session
      <3>2. n \in PhaseState
        <4> HIDE DEF m
        <4> QED
          BY <3>1, HelpersTyped
      <3>3. BecomesMatch(n)
        BY <1>13, <2>2 DEF MarkReady
      <3> HIDE DEF n
      <3>4. QED
        BY <1>13, <2>2, <3>2, <3>3, BecomesMatchTyped DEF MarkReady, TypeOK
    <2>3. QED
      BY <2>1, <2>2
  <1>14. CASE ExpireAttachDeadline \/ ExpireReadyDeadline
    BY <1>12, <1>14 DEF ExpireAttachDeadline, ExpireReadyDeadline, TypeOK
  <1>15. StartPlaying(MatchNow) \in PhaseState
         /\ StartPlaying([MatchNow EXCEPT !.armed = @ \ OneShot]) \in PhaseState
    <2>1. [MatchNow EXCEPT !.armed = @ \ OneShot] \in PhaseState
      BY <1>0 DEF PhaseState
    <2>2. QED
      BY <1>0, <2>1, HelpersTyped
  <1>16. CASE TickCountdown
    <2>1. CASE removed \/ "countdown" \notin armed \/ match # "starting"
      BY <1>16, <2>1 DEF TickCountdown, TypeOK
    <2>2. CASE ~(removed \/ "countdown" \notin armed \/ match # "starting") /\ countdown > 1
      <3>1. countdown' = countdown - 1 /\ countdown' \in 0..Countdown
        BY <1>16, <2>2, SizesAssumption DEF TickCountdown, TypeOK
      <3>2. QED
        BY <1>16, <2>2, <3>1 DEF TickCountdown, TypeOK
    <2>3. CASE ~(removed \/ "countdown" \notin armed \/ match # "starting") /\ ~(countdown > 1)
      BY <1>15, <1>16, <2>3, BecomesMatchTyped DEF TickCountdown, TypeOK, AbsentAfterStart
    <2>4. QED
      BY <2>1, <2>2, <2>3
  <1>17. CASE DebugStart
    BY <1>15, <1>17, BecomesMatchTyped DEF DebugStart, TypeOK, AbsentAfterStart
  <1>18. CASE DebugDelete \/ ExpireRoom
    BY <1>11, <1>18, RemoveRoomTyped DEF DebugDelete, ExpireRoom, TypeOK
  <1>19. CASE Unregister
    BY <1>19 DEF Unregister, TypeOK
  <1>20. CASE TickGame
    <2>1. CASE removed \/ ending \/ match # "started"
      BY <1>20, <2>1 DEF TickGame, TypeOK
    <2>2. CASE ~(removed \/ ending \/ match # "started")
      <3>1. PICK hits \in SUBSET (players \ dead) :
               LET casualties == dead \cup Forfeits \cup hits
                   decided == final \cup DOMAIN Results(Mode, players, casualties, TeamOf, Teams)
                   over == ShouldEnd(Mode, players, casualties, TeamOf, Teams)
               IN
               /\ dead' = casualties
               /\ final' = decided
               /\ ending' = over
               /\ armed' = IF over THEN armed \ {"gameplay"} ELSE armed
               /\ doomed' = doomed \cup SessionsToClose(over, decided \ final)
               /\ endWait' = IF over THEN Barrier ELSE {}
               /\ cleanup' = IF over THEN "waiting" ELSE "none"
        BY <1>20, <2>2 DEF TickGame
      <3>2. Forfeits \subseteq players /\ Forfeits \subseteq Human /\ LapsedGraces \subseteq Human
        BY DEF Forfeits, LapsedGraces, Humans
      <3>3. dead' \in SUBSET players
        BY <3>1, <3>2 DEF TypeOK
      <3>4. final' \in SUBSET players
        BY <3>1, <3>3, ResultsInSnapshot DEF TypeOK
      <3>5. ending' \in BOOLEAN
        BY <3>1 DEF ShouldEnd
      <3>6. armed' \in SUBSET Timer
        BY <3>1 DEF TypeOK
      <3>7. doomed' \in SUBSET Session /\ endWait' \in SUBSET Session
        BY <1>11, <3>1 DEF TypeOK, SessionsToClose
      <3>8. cleanup' \in {"none", "waiting", "done"}
        BY <3>1
      <3>9. grace' \in [Human -> Gen] /\ graceDue' \in SUBSET Human /\ forfeited' \in SUBSET Human
        BY <1>20, <2>2, <3>2, SizesAssumption DEF TickGame, TypeOK, Gen
      <3>10. due' \in SUBSET (armed' \cap OneShot)
        BY <1>20, <2>2, <3>1 DEF TickGame, TypeOK, OneShot
      <3>11. QED
        BY <1>20, <2>2, <3>3, <3>4, <3>5, <3>6, <3>7, <3>8, <3>9, <3>10 DEF TickGame, TypeOK
    <2>3. QED
      BY <2>1, <2>2
  <1>21. CASE FinishGameEnd
    <2>1. CASE registered /\ ~removed /\ ending
      BY <1>11, <1>21, <2>1, RemoveRoomTyped DEF FinishGameEnd, TypeOK
    <2>2. CASE ~(registered /\ ~removed /\ ending)
      BY <1>21, <2>2 DEF FinishGameEnd, TypeOK
    <2>3. QED
      BY <2>1, <2>2
  <1>22. ASSUME NEW t \in Timer, DeadlinePasses(t) \/ Fire(t)
         PROVE  TypeOK'
    BY <1>22 DEF DeadlinePasses, Fire, TypeOK
  <1>23. ASSUME NEW p \in Human, GracePasses(p)
         PROVE  TypeOK'
    BY <1>23 DEF GracePasses, TypeOK
  <1>24. CASE TTLPasses
    BY <1>24 DEF TTLPasses, TypeOK
  <1>25. CASE UNCHANGED vars
    BY <1>25 DEF vars, TypeOK
  <1>26. QED
    BY <1>1, <1>2, <1>4, <1>5, <1>6, <1>7, <1>8, <1>9, <1>10, <1>13, <1>14, <1>16, <1>17,
       <1>18, <1>19, <1>20, <1>21, <1>22, <1>23, <1>24, <1>25
       DEF Next, Handlers, Workers, SessionSteps, Clock

\* Type correctness of the room.
THEOREM TypeCorrect == Spec => []TypeOK
  BY TypeInit, TypeStep, PTL DEF Spec

-----------------------------------------------------------------------------
(* Sessions and reconnect graces.  OneLiveSession alone is not inductive: an *)
(* attach is safe because a reservation excludes a session, and a generation *)
(* number is fresh because no later one has been used.                       *)

\* A player's session is the one of the latest generation.
CurrentIsLatest == \A p \in Human : client[p] # 0 => client[p] = generation[p]
\* Generations that were not handed out yet have no session.
FutureIsAbsent == \A s \in Session : s[2] > generation[s[1]] => phase[s] = "absent"
\* A reservation excludes a session of the same player.
ReservedIsFree == \A p \in reserved : client[p] = 0
\* A removed room holds nobody.
RemovedIsEmpty == removed => client = [p \in Human |-> 0] /\ reserved = {}

SessionInv ==
    /\ TypeOK
    /\ CurrentIsLatest
    /\ FutureIsAbsent
    /\ ReservedIsFree
    /\ RemovedIsEmpty
    /\ OneLiveSession
    /\ GraceMeansAbsent

LEMMA SessionInit == Init => SessionInv
  <1>1. ASSUME Init PROVE CurrentIsLatest /\ RemovedIsEmpty /\ GraceMeansAbsent /\ ReservedIsFree
    BY <1>1 DEF Init, CurrentIsLatest, RemovedIsEmpty, GraceMeansAbsent, ReservedIsFree
  <1>2. ASSUME Init PROVE FutureIsAbsent /\ OneLiveSession
    BY <1>2 DEF Init, FutureIsAbsent, OneLiveSession
  <1>3. QED
    BY <1>1, <1>2, TypeInit DEF SessionInv

\* A removal keeps SessionInv: it zeroes every client and reservation.
LEMMA RemovalKeepsSessions ==
    ASSUME SessionInv, TypeOK', NEW cs \in SUBSET Session, RemoveRoom(cs),
           UNCHANGED generation,
           \A s \in Session : phase'[s] = "absent" <=> phase[s] = "absent",
           \A p \in Human : grace'[p] # 0 => grace'[p] = generation[p] /\ match' = "started"
    PROVE  SessionInv'
  <1>1. removed' /\ client' = [p \in Human |-> 0] /\ reserved' = {}
    BY DEF RemoveRoom
  <1>2. FutureIsAbsent'
    BY DEF SessionInv, FutureIsAbsent
  <1>3. CurrentIsLatest' /\ ReservedIsFree' /\ RemovedIsEmpty' /\ OneLiveSession'
    BY <1>1 DEF CurrentIsLatest, ReservedIsFree, RemovedIsEmpty, OneLiveSession
  <1>4. GraceMeansAbsent'
    BY <1>1 DEF GraceMeansAbsent
  <1>5. QED
    BY <1>2, <1>3, <1>4 DEF SessionInv

\* A step that touches neither sessions, reservations nor graces keeps
\* SessionInv, unless it takes the room out of a started match.
LEMMA FrameKeepsSessions ==
    ASSUME SessionInv, TypeOK', match = "started" => match' = "started",
           UNCHANGED <<removed, client, generation, phase, reserved, grace>>
    PROVE  SessionInv'
  BY DEF SessionInv, CurrentIsLatest, FutureIsAbsent, ReservedIsFree, RemovedIsEmpty,
         OneLiveSession, GraceMeansAbsent

\* The match helpers leave a started match started.
LEMMA HelpersKeepStarted ==
    ASSUME NEW m \in PhaseState, NEW ps, NEW connected
    PROVE  /\ m.match = "started" => AdvanceLoading(m, ps, connected) = m
           /\ StartPlaying(m).match = "started"
  BY DEF AdvanceLoading, StartPlaying, PhaseState

LEMMA SessionStep == SessionInv /\ [Next]_vars => SessionInv'
  <1> SUFFICES ASSUME SessionInv, [Next]_vars
               PROVE  SessionInv'
    OBVIOUS
  <1>t. TypeOK /\ TypeOK'
    BY TypeStep DEF SessionInv
  <1>m. MatchNow \in PhaseState
    BY <1>t, MatchNowTyped
  <1> USE DEF roomVars, matchVars, sessionVars, graceVars, playVars
  <1>c. CurrentSessions \in SUBSET Session
    BY DEF CurrentSessions
  <1>0. (\E cs \in SUBSET Session : RemoveRoom(cs)) /\ UNCHANGED <<generation, phase, grace, match>>
        => SessionInv'
    BY <1>t, RemovalKeepsSessions DEF SessionInv, GraceMeansAbsent
  <1>1. ASSUME NEW p \in Human, JoinMatchmaking(p) \/ AddPlayer(p) \/ RollbackReservation(p)
        PROVE  SessionInv'
    <2>1. CASE JoinMatchmaking(p) \/ AddPlayer(p)
      <3>1. match # "started" \/ UNCHANGED match
        BY <2>1 DEF JoinMatchmaking, AddPlayer, CanAcceptMatchmaking
      <3>2. QED
        BY <2>1, <3>1, <1>t, FrameKeepsSessions DEF JoinMatchmaking, AddPlayer
    <2>2. CASE RollbackReservation(p)
      BY <1>t, <2>2 DEF RollbackReservation, SessionInv, CurrentIsLatest, FutureIsAbsent,
         ReservedIsFree, RemovedIsEmpty, OneLiveSession, GraceMeansAbsent
    <2>3. QED
      BY <1>1, <2>1, <2>2
  <1>2. ASSUME NEW p \in Human, ReserveClient(p)
        PROVE  SessionInv'
    BY <1>t, <1>2 DEF ReserveClient, HasConnection, SessionInv, CurrentIsLatest, FutureIsAbsent,
       ReservedIsFree, RemovedIsEmpty, OneLiveSession, GraceMeansAbsent
  <1>3. ASSUME NEW p \in Human, AttachClient(p)
        PROVE  SessionInv'
    <2> DEFINE g == generation[p] + 1
    <2>1. /\ g \in Gen \ {0} /\ generation[p] \in Gen /\ client[p] = 0
          /\ ~removed /\ UNCHANGED removed
          /\ client' = [client EXCEPT ![p] = g]
          /\ generation' = [generation EXCEPT ![p] = g]
          /\ phase' = [phase EXCEPT ![<<p, g>>] = "open"]
          /\ reserved' = reserved \ {p}
          /\ grace' = [grace EXCEPT ![p] = 0]
      BY <1>3, SizesAssumption DEF AttachClient, GraceAfterAttach, SessionInv, TypeOK,
         ReservedIsFree, Gen
    <2>2. CurrentIsLatest' /\ ReservedIsFree' /\ RemovedIsEmpty'
      BY <1>t, <2>1 DEF SessionInv, TypeOK, CurrentIsLatest, ReservedIsFree, RemovedIsEmpty
    <2>3. FutureIsAbsent'
      <3> SUFFICES ASSUME NEW s \in Session, s[2] > generation'[s[1]]
                   PROVE  phase'[s] = "absent"
        BY DEF FutureIsAbsent
      <3>1. s = <<s[1], s[2]>> /\ s[1] \in Human /\ s[2] \in Nat
        BY DEF Session
      <3>2. s # <<p, g>>
        BY <1>t, <2>1, <3>1 DEF TypeOK, Gen
      <3>3. s[2] > generation[s[1]]
        BY <1>t, <2>1, <3>1, SizesAssumption DEF TypeOK, Gen
      <3>4. QED
        BY <1>t, <2>1, <3>2, <3>3 DEF SessionInv, FutureIsAbsent, TypeOK
    <2>4. OneLiveSession'
      <3> SUFFICES ASSUME NEW s \in Session, phase'[s] \in {"open", "done"}
                   PROVE  client'[s[1]] = s[2]
        BY DEF OneLiveSession
      <3>1. s = <<s[1], s[2]>> /\ s[1] \in Human /\ s[2] \in Nat \ {0}
        BY DEF Session
      <3>2. CASE s = <<p, g>>
        BY <1>t, <2>1, <3>2 DEF TypeOK
      <3>3. CASE s # <<p, g>>
        <4>1. phase[s] \in {"open", "done"}
          BY <1>t, <2>1, <3>3 DEF TypeOK
        <4>2. client[s[1]] = s[2]
          BY <2>1, <4>1 DEF SessionInv, OneLiveSession
        <4>3. s[1] # p
          BY <2>1, <3>1, <4>2
        <4>4. QED
          BY <1>t, <2>1, <3>1, <4>2, <4>3 DEF TypeOK
      <3>4. QED
        BY <3>2, <3>3
    <2>5. GraceMeansAbsent'
      <3>1. match = "started" => match' = "started"
        BY <1>3, <1>m, HelpersKeepStarted DEF AttachClient, BecomesMatch, MatchNow
      <3>2. QED
        BY <1>t, <2>1, <3>1 DEF SessionInv, TypeOK, GraceMeansAbsent
    <2>6. QED
      BY <1>t, <2>2, <2>3, <2>4, <2>5 DEF SessionInv
  <1>4. ASSUME NEW s \in Session, NEW c \in {"reconnectable", "final"}, CloseSession(s, c)
        PROVE  SessionInv'
    BY <1>t, <1>4 DEF CloseSession, SessionInv, TypeOK, CurrentIsLatest, FutureIsAbsent,
       ReservedIsFree, RemovedIsEmpty, OneLiveSession, GraceMeansAbsent
  <1>5. ASSUME NEW s \in Session, ReleaseClient(s)
        PROVE  SessionInv'
    <2>1. s[1] \in Human /\ s[2] \in Nat \ {0}
      BY DEF Session
    <2>2. phase[s] = "done" /\ phase' = [phase EXCEPT ![s] = "released"] /\ UNCHANGED <<generation, match>>
      BY <1>5 DEF ReleaseClient
    <2>3. FutureIsAbsent' /\ \A t \in Session : phase'[t] = "absent" <=> phase[t] = "absent"
      BY <1>t, <2>2 DEF SessionInv, TypeOK, FutureIsAbsent
    <2>4. CASE removed \/ client[s[1]] # s[2]
      <3>1. UNCHANGED <<removed, client, reserved, grace>>
        BY <1>5, <2>4 DEF ReleaseClient
      <3>2. CurrentIsLatest' /\ ReservedIsFree' /\ RemovedIsEmpty' /\ GraceMeansAbsent'
        BY <2>2, <3>1 DEF SessionInv, CurrentIsLatest, ReservedIsFree, RemovedIsEmpty, GraceMeansAbsent
      <3>3. OneLiveSession'
        BY <1>t, <2>2, <3>1 DEF SessionInv, TypeOK, OneLiveSession
      <3>4. QED
        BY <1>t, <2>3, <3>2, <3>3 DEF SessionInv
    <2>5. CASE ~removed /\ client[s[1]] = s[2]
      <3>1. \A p \in Human : grace'[p] # 0 =>
              /\ grace'[p] = generation[p] /\ match' = "started"
              /\ p = s[1] \/ client[p] = 0
        <4>1. \/ UNCHANGED grace
              \/ match = "started" /\ s[2] = generation[s[1]] /\ grace' = [grace EXCEPT ![s[1]] = s[2]]
          BY <1>5, <2>5 DEF ReleaseClient
        <4>2. QED
          BY <1>t, <2>1, <2>2, <4>1 DEF SessionInv, TypeOK, GraceMeansAbsent
      <3>2. CASE PreStartMatch
        <4>1. RemoveRoom(CurrentSessions \ {s})
          BY <1>5, <2>5, <3>2 DEF ReleaseClient
        <4>2. QED
          BY <1>t, <1>c, <2>2, <2>3, <3>1, <4>1, RemovalKeepsSessions
      <3>3. CASE ~PreStartMatch
        <4>1. client' = [client EXCEPT ![s[1]] = 0] /\ UNCHANGED <<removed, reserved>>
          BY <1>5, <2>5, <3>3 DEF ReleaseClient
        <4>2. CurrentIsLatest' /\ ReservedIsFree' /\ RemovedIsEmpty'
          BY <1>t, <2>1, <2>2, <2>5, <4>1
             DEF SessionInv, TypeOK, CurrentIsLatest, ReservedIsFree, RemovedIsEmpty
        <4>3. GraceMeansAbsent'
          BY <1>t, <2>1, <2>2, <3>1, <4>1 DEF TypeOK, GraceMeansAbsent
        <4>4. OneLiveSession'
          <5> SUFFICES ASSUME NEW t \in Session, phase'[t] \in {"open", "done"}
                       PROVE  client'[t[1]] = t[2]
            BY DEF OneLiveSession
          <5>1. t # s /\ phase[t] \in {"open", "done"}
            BY <1>t, <2>2 DEF TypeOK
          <5>2. client[t[1]] = t[2]
            BY <2>5, <5>1 DEF SessionInv, OneLiveSession
          <5>3. t[1] # s[1]
            BY <2>5, <5>1, <5>2 DEF Session
          <5>4. QED
            BY <1>t, <2>1, <4>1, <5>2, <5>3 DEF TypeOK, Session
        <4>5. QED
          BY <1>t, <2>3, <4>2, <4>3, <4>4 DEF SessionInv
      <3>4. QED
        BY <3>2, <3>3
    <2>6. QED
      BY <2>4, <2>5
  <1>6. ASSUME NEW s \in Session, FinishClose(s)
        PROVE  SessionInv'
    BY <1>t, <1>6 DEF FinishClose, SessionInv, TypeOK, CurrentIsLatest, FutureIsAbsent,
       ReservedIsFree, RemovedIsEmpty, OneLiveSession, GraceMeansAbsent
  <1>7. ASSUME NEW bs \in SUBSET Bot, AddBots(bs)
        PROVE  SessionInv'
    BY <1>t, <1>7, FrameKeepsSessions DEF AddBots
  <1>8. CASE FillBots
    BY <1>t, <1>8, FrameKeepsSessions DEF FillBots
  <1>9. CancelMatch => SessionInv'
    BY <1>0, <1>c DEF CancelMatch
  <1>10. ASSUME NEW s \in Session, MarkReady(s)
         PROVE  SessionInv'
    <2>1. CASE CancelMatch
      BY <1>9, <2>1
    <2>2. CASE ~CancelMatch
      <3>1. UNCHANGED <<removed, client, generation, phase, reserved, grace>> /\ match # "started"
        BY <1>10, <2>2 DEF MarkReady, PreStartMatch
      <3>2. QED
        BY <1>t, <3>1, FrameKeepsSessions
    <2>3. QED
      BY <2>1, <2>2
  <1>11. CASE ExpireAttachDeadline \/ ExpireReadyDeadline
    <2>1. CASE CancelMatch
      BY <1>9, <2>1
    <2>2. CASE ~CancelMatch
      <3>1. UNCHANGED <<removed, client, generation, phase, reserved, grace, match>>
        BY <1>11, <2>2 DEF ExpireAttachDeadline, ExpireReadyDeadline
      <3>2. QED
        BY <1>t, <3>1, FrameKeepsSessions
    <2>3. QED
      BY <2>1, <2>2
  <1>12. CASE TickCountdown
    <2>1. match = "started" => UNCHANGED match
      BY <1>12 DEF TickCountdown
    <2>2. QED
      BY <1>t, <1>12, <2>1, FrameKeepsSessions DEF TickCountdown
  <1>13. CASE DebugStart
    <2>1. [MatchNow EXCEPT !.armed = @ \ OneShot] \in PhaseState
      BY <1>m DEF PhaseState
    <2>2. match' = "started"
      BY <1>13, <2>1, HelpersKeepStarted DEF DebugStart, BecomesMatch
    <2>3. QED
      BY <1>t, <1>13, <2>2, FrameKeepsSessions DEF DebugStart
  <1>14. CASE DebugDelete \/ ExpireRoom
    BY <1>0, <1>c, <1>14 DEF DebugDelete, ExpireRoom
  <1>15. CASE Unregister
    BY <1>t, <1>15, FrameKeepsSessions DEF Unregister
  <1>16. CASE TickGame
    <2>1. \A p \in Human : grace'[p] # 0 => grace'[p] = grace[p]
      BY <1>t, <1>16 DEF TickGame, TypeOK
    <2>2. UNCHANGED <<removed, client, generation, phase, reserved, match>>
      BY <1>16 DEF TickGame
    <2>3. QED
      BY <1>t, <2>1, <2>2 DEF SessionInv, CurrentIsLatest, FutureIsAbsent, ReservedIsFree,
         RemovedIsEmpty, OneLiveSession, GraceMeansAbsent
  <1>17. CASE FinishGameEnd
    <2>1. CASE registered /\ ~removed /\ ending
      BY <1>0, <1>c, <1>17, <2>1 DEF FinishGameEnd
    <2>2. CASE ~(registered /\ ~removed /\ ending)
      BY <1>t, <1>17, <2>2, FrameKeepsSessions DEF FinishGameEnd
    <2>3. QED
      BY <2>1, <2>2
  <1>18. ASSUME NEW t \in Timer, DeadlinePasses(t) \/ Fire(t)
         PROVE  SessionInv'
    BY <1>t, <1>18, FrameKeepsSessions DEF DeadlinePasses, Fire
  <1>19. (\E p \in Human : GracePasses(p)) \/ TTLPasses => SessionInv'
    BY <1>t, FrameKeepsSessions DEF GracePasses, TTLPasses
  <1>20. CASE UNCHANGED vars
    BY <1>t, <1>20, FrameKeepsSessions DEF vars
  <1>21. QED
    BY <1>1, <1>2, <1>3, <1>4, <1>5, <1>6, <1>7, <1>8, <1>10, <1>11, <1>12, <1>13, <1>14,
       <1>15, <1>16, <1>17, <1>18, <1>19, <1>20
       DEF Next, Handlers, Workers, SessionSteps, Clock

LEMMA SessionInvariant == Spec => []SessionInv
  BY SessionInit, SessionStep, PTL DEF Spec

\* A reconnect never overlaps the session it replaces, however the closing of the
\* old one, the reservation and the attach interleave.
THEOREM OneLiveSessionAlways == Spec => []OneLiveSession
  <1>1. SessionInv => OneLiveSession
    BY DEF SessionInv
  <1>2. QED
    BY <1>1, SessionInvariant, PTL

\* A pending grace always belongs to the latest, lost generation of an absent player.
THEOREM GraceMeansAbsentAlways == Spec => []GraceMeansAbsent
  <1>1. SessionInv => GraceMeansAbsent
    BY DEF SessionInv
  <1>2. QED
    BY <1>1, SessionInvariant, PTL

\* Only a player without a session whose grace has passed is forfeited: the tick
\* takes players with a grace record, and those have no session.
LEMMA ForfeitsAreDueAlways == Spec => [][ForfeitsAreDue]_vars
  <1>1. SessionInv /\ [Next]_vars => [ForfeitsAreDue]_vars
    <2> SUFFICES ASSUME SessionInv, Next
                 PROVE  \A p \in forfeited' \ forfeited : client[p] = 0 /\ p \in graceDue
      BY DEF vars, ForfeitsAreDue
    <2> USE DEF playVars
    <2>1. CASE TickGame
      <3>1. forfeited' \subseteq forfeited \cup Forfeits
        BY <2>1 DEF TickGame
      <3>2. \A p \in Forfeits : p \in Human /\ p \in graceDue /\ grace[p] # 0
        BY DEF Forfeits, LapsedGraces, Humans
      <3>3. QED
        BY <3>1, <3>2 DEF SessionInv, GraceMeansAbsent
    <2>2. CASE ~TickGame
      <3>1. ASSUME Handlers PROVE UNCHANGED forfeited
        BY <3>1 DEF Handlers, JoinMatchmaking, AddPlayer, ReserveClient, RollbackReservation,
           AttachClient, AddBots, MarkReady, CancelMatch, DebugStart, DebugDelete
      <3>2. ASSUME Workers PROVE UNCHANGED forfeited
        BY <2>2, <3>2 DEF Workers, FillBots, ExpireAttachDeadline, ExpireReadyDeadline,
           CancelMatch, TickCountdown, FinishGameEnd, ExpireRoom, Unregister
      <3>3. ASSUME SessionSteps \/ Clock PROVE UNCHANGED forfeited
        BY <3>3 DEF SessionSteps, CloseSession, ReleaseClient, FinishClose,
           Clock, DeadlinePasses, Fire, GracePasses, TTLPasses
      <3>4. QED
        BY <3>1, <3>2, <3>3 DEF Next
    <2>3. QED
      BY <2>1, <2>2
  <1>2. QED
    BY <1>1, SessionInvariant, PTL DEF Spec

\* A player with a result gets no further session: attachClientSession checks the
\* result again after the upgrade, and every other step only drops sessions.
THEOREM NoReattachAfterFinalAlways == Spec => NoReattachAfterFinal
  <1>1. TypeOK /\ [Next]_vars => [\A p \in Humans(final) : client'[p] \in {0, client[p]}]_vars
    <2> SUFFICES ASSUME TypeOK, Next, NEW p \in Human, p \in final
                 PROVE  client'[p] \in {0, client[p]}
      BY DEF vars, Humans
    <2>1. ASSUME NEW q \in Human, AttachClient(q)
          PROVE  client'[p] = client[p]
      BY <2>1 DEF AttachClient, HasFinalResult, TypeOK
    <2>2. ASSUME NEW s \in Session, ReleaseClient(s)
          PROVE  client'[p] \in {0, client[p]}
      BY <2>2 DEF ReleaseClient, RemoveRoom, TypeOK
    <2>3. ASSUME Handlers PROVE client'[p] \in {0, client[p]}
      BY <2>1, <2>3 DEF Handlers, JoinMatchmaking, AddPlayer, ReserveClient,
         RollbackReservation, AddBots, MarkReady, CancelMatch, RemoveRoom, DebugStart, DebugDelete
    <2>4. ASSUME Workers PROVE client'[p] \in {0, client[p]}
      BY <2>4 DEF Workers, FillBots, ExpireAttachDeadline, ExpireReadyDeadline, CancelMatch,
         RemoveRoom, TickCountdown, TickGame, FinishGameEnd, ExpireRoom, Unregister
    <2>5. ASSUME SessionSteps \/ Clock PROVE client'[p] \in {0, client[p]}
      BY <2>2, <2>5 DEF SessionSteps, CloseSession, FinishClose,
         Clock, DeadlinePasses, Fire, GracePasses, TTLPasses
    <2>6. QED
      BY <2>3, <2>4, <2>5 DEF Next
  <1>2. QED
    BY <1>1, TypeCorrect, PTL DEF Spec, NoReattachAfterFinal

-----------------------------------------------------------------------------
(* The end of the match. *)

\* A match ends only while it is played.
EndingIsStarted == ending => match = "started"
\* The cleanup worker waits for every session that is not closed yet.
WaitsForAll ==
    ending /\ ~removed =>
        \A s \in Session : phase[s] \in {"open", "done", "released"} => s \in endWait

EndInv ==
    /\ TypeOK
    /\ EndingIsStarted
    /\ EndedMeansDecided
    /\ WaitsForAll

LEMMA EndInit == Init => EndInv
  BY TypeInit DEF Init, EndInv, EndingIsStarted, EndedMeansDecided, WaitsForAll

\* A step that neither ends the match, nor opens a session or moves the match on
\* after its end, keeps EndInv.
LEMMA FrameKeepsEnd ==
    ASSUME EndInv, TypeOK', UNCHANGED <<ending, final, endWait>>,
           ending => UNCHANGED <<match, players>>,
           ending /\ removed => removed',
           ending => \A s \in Session :
               phase'[s] \in {"open", "done", "released"} => phase[s] \in {"open", "done", "released"}
    PROVE  EndInv'
  BY DEF EndInv, EndingIsStarted, EndedMeansDecided, WaitsForAll

LEMMA EndStep == EndInv /\ [Next]_vars => EndInv'
  <1> SUFFICES ASSUME EndInv, [Next]_vars
               PROVE  EndInv'
    OBVIOUS
  <1>t. TypeOK /\ TypeOK'
    BY TypeStep DEF EndInv
  <1>e. ending => match = "started"
    BY DEF EndInv, EndingIsStarted
  <1>m. MatchNow \in PhaseState
    BY <1>t, MatchNowTyped
  <1> USE DEF roomVars, matchVars, sessionVars, graceVars, playVars
  <1>1. ASSUME NEW p \in Human, JoinMatchmaking(p) \/ AddPlayer(p) \/ ReserveClient(p)
                                \/ RollbackReservation(p)
        PROVE  EndInv'
    BY <1>t, <1>1, FrameKeepsEnd DEF JoinMatchmaking, CanAcceptMatchmaking, AddPlayer,
       OpenForDebugPlayer, ReserveClient, RollbackReservation
  <1>2. ASSUME NEW p \in Human, AttachClient(p)
        PROVE  EndInv'
    <2>1. ~ending /\ UNCHANGED <<ending, final, endWait>>
      BY <1>2 DEF AttachClient
    <2>2. QED
      BY <1>t, <2>1, FrameKeepsEnd
  <1>3. ASSUME NEW bs \in SUBSET Bot, AddBots(bs)
        PROVE  EndInv'
    BY <1>t, <1>3, FrameKeepsEnd DEF AddBots
  <1>4. ASSUME NEW s \in Session, MarkReady(s)
        PROVE  EndInv'
    <2>1. ~ending
      BY <1>4, <1>e DEF MarkReady, PreStartMatch
    <2>2. UNCHANGED <<ending, final, endWait>>
      BY <1>4 DEF MarkReady, CancelMatch
    <2>3. QED
      BY <1>t, <2>1, <2>2, FrameKeepsEnd
  <1>5. CASE DebugStart \/ DebugDelete
    <2>1. ~ending /\ UNCHANGED <<ending, final, endWait>>
      BY <1>5 DEF DebugStart, DebugDelete
    <2>2. QED
      BY <1>t, <2>1, FrameKeepsEnd
  <1>6. CASE FillBots \/ ExpireAttachDeadline \/ ExpireReadyDeadline
    <2>1. UNCHANGED <<ending, final, endWait, phase>> /\ (removed => removed')
      BY <1>6 DEF FillBots, ExpireAttachDeadline, ExpireReadyDeadline, CancelMatch
    <2>2. ending => UNCHANGED <<match, players>>
      BY <1>6 DEF FillBots, ExpireAttachDeadline, ExpireReadyDeadline, CancelMatch
    <2>3. QED
      BY <1>t, <2>1, <2>2, FrameKeepsEnd
  <1>7. CASE TickCountdown
    <2>1. UNCHANGED <<ending, final, endWait, phase, removed, players>>
      BY <1>7 DEF TickCountdown
    <2>2. match = "started" => UNCHANGED match
      BY <1>7 DEF TickCountdown
    <2>3. QED
      BY <1>t, <1>e, <2>1, <2>2, FrameKeepsEnd
  <1>8. CASE TickGame
    <2>1. CASE removed \/ ending \/ match # "started"
      BY <1>t, <1>8, <2>1, FrameKeepsEnd DEF TickGame
    <2>2. CASE ~(removed \/ ending \/ match # "started")
      <3>1. PICK hits \in SUBSET (players \ dead) :
               LET casualties == dead \cup Forfeits \cup hits
                   decided == final \cup DOMAIN Results(Mode, players, casualties, TeamOf, Teams)
                   over == ShouldEnd(Mode, players, casualties, TeamOf, Teams)
               IN
               /\ final' = decided
               /\ ending' = over
               /\ endWait' = IF over THEN Barrier ELSE {}
        BY <1>8, <2>2 DEF TickGame
      <3> DEFINE casualties == dead \cup Forfeits \cup hits
      <3>2. UNCHANGED <<players, match, phase, removed>>
        BY <1>8 DEF TickGame
      <3>3. casualties \in SUBSET players
        BY <1>t DEF TypeOK, Forfeits, LapsedGraces, Humans
      <3>4. players \in SUBSET Participant /\ final \subseteq players
        BY <1>t DEF TypeOK
      <3>5. ShouldEnd(Mode, players, casualties, TeamOf, Teams)
              => DOMAIN Results(Mode, players, casualties, TeamOf, Teams) = players
        BY <3>3, <3>4, EveryoneDecidedAtEnd
      <3>6. EndedMeansDecided'
        BY <3>1, <3>2, <3>4, <3>5 DEF EndedMeansDecided
      <3>7. EndingIsStarted'
        BY <2>2, <3>2 DEF EndingIsStarted
      <3>8. WaitsForAll'
        <4>1. ending' => endWait' = Barrier
          BY <3>1
        <4>2. QED
          BY <3>2, <4>1 DEF WaitsForAll, Barrier
      <3>9. QED
        BY <1>t, <3>6, <3>7, <3>8 DEF EndInv
    <2>3. QED
      BY <2>1, <2>2
  <1>9. CASE FinishGameEnd
    BY <1>t, <1>9, FrameKeepsEnd DEF FinishGameEnd, RemoveRoom
  <1>10. CASE ExpireRoom \/ Unregister
    <2>1. UNCHANGED <<ending, final, endWait, match, players, phase>> /\ (removed => removed')
      BY <1>10 DEF ExpireRoom, Unregister, RemoveRoom
    <2>2. QED
      BY <1>t, <2>1, FrameKeepsEnd
  <1>11. ASSUME NEW s \in Session, NEW c \in {"reconnectable", "final"},
                CloseSession(s, c) \/ ReleaseClient(s) \/ FinishClose(s)
         PROVE  EndInv'
    <2>1. UNCHANGED <<ending, final, endWait, match, players>> /\ (removed => removed')
      BY <1>11 DEF CloseSession, ReleaseClient, FinishClose
    <2>2. \A t \in Session : phase'[t] \in {"open", "done", "released"}
                               => phase[t] \in {"open", "done", "released"}
      BY <1>t, <1>11 DEF CloseSession, ReleaseClient, FinishClose, TypeOK
    <2>3. QED
      BY <1>t, <2>1, <2>2, FrameKeepsEnd
  <1>12. ASSUME Clock
         PROVE  EndInv'
    <2>1. UNCHANGED <<ending, final, endWait, match, players, phase, removed>>
      BY <1>12 DEF Clock, DeadlinePasses, Fire, GracePasses, TTLPasses
    <2>2. QED
      BY <1>t, <2>1, FrameKeepsEnd
  <1>13. CASE UNCHANGED vars
    BY <1>t, <1>13, FrameKeepsEnd DEF vars
  <1>14. QED
    BY <1>1, <1>2, <1>3, <1>4, <1>5, <1>6, <1>7, <1>8, <1>9, <1>10, <1>11, <1>12, <1>13
       DEF Next, Handlers, Workers, SessionSteps

LEMMA EndInvariant == Spec => []EndInv
  BY EndInit, EndStep, PTL DEF Spec

\* Nobody is left without a result when the match ends.
THEOREM EndedMeansDecidedAlways == Spec => []EndedMeansDecided
  <1>1. EndInv => EndedMeansDecided
    BY DEF EndInv
  <1>2. QED
    BY <1>1, EndInvariant, PTL

\* Once the match is over only finishGameEnd removes the room, and every session
\* that was not closed is one it has waited for.
THEOREM EndWaitsForSessionsAlways == Spec => EndWaitsForSessions
  <1>1. EndInv /\ [Next]_vars =>
          [ending /\ ~removed /\ removed' =>
             \A s \in Session : phase[s] \in {"absent", "closed"}]_vars
    <2> SUFFICES ASSUME EndInv, Next, ending, ~removed, removed'
                 PROVE  \A s \in Session : phase[s] \in {"absent", "closed"}
      BY DEF vars
    <2> USE DEF roomVars, matchVars, sessionVars, graceVars, playVars
    <2>1. ~PreStartMatch
      BY DEF EndInv, EndingIsStarted, PreStartMatch
    <2>2. CASE FinishGameEnd
      <3>1. \A s \in endWait : phase[s] = "closed"
        BY <2>2 DEF FinishGameEnd
      <3>2. QED
        BY <3>1 DEF EndInv, WaitsForAll, TypeOK
    <2>3. CASE ~FinishGameEnd
      <3>1. ~Handlers
        BY <2>1 DEF Handlers, JoinMatchmaking, AddPlayer, ReserveClient, RollbackReservation,
           AttachClient, AddBots, MarkReady, DebugStart, DebugDelete
      <3>2. ~Workers
        BY <2>3 DEF Workers, FillBots, ExpireAttachDeadline, ExpireReadyDeadline, TickCountdown,
           TickGame, ExpireRoom, Expired, Unregister
      <3>3. ~SessionSteps
        BY <2>1 DEF SessionSteps, CloseSession, ReleaseClient, FinishClose
      <3>4. ~Clock
        BY DEF Clock, DeadlinePasses, Fire, GracePasses, TTLPasses
      <3>5. QED
        BY <3>1, <3>2, <3>3, <3>4 DEF Next
    <2>4. QED
      BY <2>2, <2>3
  <1>2. QED
    BY <1>1, EndInvariant, PTL DEF Spec, EndWaitsForSessions

\* Absolute deadlines: attachClientSession and markClientReady test the deadline
\* themselves, so a late worker does not let the match go on.
LEMMA DeadlinesAreFinalAlways == Spec => [][DeadlinesAreFinal]_vars
  <1>1. EndInv /\ [Next]_vars => [DeadlinesAreFinal]_vars
    <2> SUFFICES ASSUME EndInv, Next
                 PROVE  /\ match = "matched" /\ match' \in {"loading", "starting"}
                             => "attach" \notin due
                        /\ match = "loading" /\ match' = "starting" => "ready" \notin due
      BY DEF vars, DeadlinesAreFinal
    <2> USE DEF roomVars, matchVars, sessionVars, graceVars, playVars
    <2>t. TypeOK /\ MatchNow \in PhaseState
      BY MatchNowTyped DEF EndInv
    <2>1. ASSUME NEW p \in Human, AttachClient(p)
          PROVE  /\ match = "matched" => "attach" \notin due
                 /\ match = "loading" => match' = "loading"
      BY <2>1, <2>t DEF AttachClient, AttachDeadlinePassed, BecomesMatch, AdvanceLoading, MatchNow
    <2>2. ASSUME NEW s \in Session, MarkReady(s)
          PROVE  /\ match = "matched" => match' = "matched"
                 /\ match = "loading" /\ match' = "starting" => "ready" \notin due
      <3>1. ~ending /\ PreStartMatch
        BY <2>2 DEF MarkReady, EndInv, EndingIsStarted, PreStartMatch
      <3>2. "ready" \in due => "ready" \in armed
        BY <2>t DEF TypeOK
      <3>3. CASE match # "loading"
        BY <2>2, <2>t, <3>3 DEF MarkReady, ReadyDeadlineExpired, BecomesMatch, MatchNow, PhaseState
      <3>4. CASE match = "loading"
        BY <2>2, <3>1, <3>2, <3>4 DEF MarkReady, CancelMatch, ReadyDeadlineExpired
      <3>5. QED
        BY <3>3, <3>4
    <2>3. CASE DebugStart
      BY <2>3, <2>t DEF DebugStart, BecomesMatch, StartPlaying, MatchNow
    <2>4. CASE TickCountdown
      BY <2>4 DEF TickCountdown, BecomesMatch, StartPlaying
    <2>5. ASSUME NEW p \in Human, JoinMatchmaking(p)
          PROVE  match = "none"
      BY <2>5 DEF JoinMatchmaking, CanAcceptMatchmaking
    <2>6. ASSUME NEW bs \in SUBSET Bot, AddBots(bs)
          PROVE  match = "none"
      BY <2>6 DEF AddBots
    <2>7. ASSUME FillBots
          PROVE  match = "none" \/ UNCHANGED match
      BY <2>7 DEF FillBots
    <2>8. ASSUME NEW p \in Human,
                 AddPlayer(p) \/ ReserveClient(p) \/ RollbackReservation(p)
          PROVE  UNCHANGED match
      BY <2>8 DEF AddPlayer, ReserveClient, RollbackReservation
    <2>9. ASSUME \/ DebugDelete \/ ExpireAttachDeadline \/ ExpireReadyDeadline \/ TickGame
                 \/ FinishGameEnd \/ ExpireRoom \/ Unregister \/ SessionSteps \/ Clock
          PROVE  UNCHANGED match
      BY <2>9 DEF DebugDelete,
         ExpireAttachDeadline, ExpireReadyDeadline, CancelMatch, TickGame, FinishGameEnd,
         ExpireRoom, Unregister, SessionSteps, CloseSession, ReleaseClient, FinishClose,
         Clock, DeadlinePasses, Fire, GracePasses, TTLPasses
    <2>10. QED
      BY <2>1, <2>2, <2>3, <2>4, <2>5, <2>6, <2>7, <2>8, <2>9 DEF Next, Handlers, Workers
  <1>2. QED
    BY <1>1, EndInvariant, PTL DEF Spec

\* No time limit of the room is cut short or overrun: neither the reconnect
\* grace nor the attach and Ready deadlines.
THEOREM TimeLimitsHoldAlways == Spec => TimeLimitsHold
  <1>1. [ForfeitsAreDue]_vars /\ [DeadlinesAreFinal]_vars
            => [ForfeitsAreDue /\ DeadlinesAreFinal]_vars
    OBVIOUS
  <1>2. QED
    BY <1>1, ForfeitsAreDueAlways, DeadlinesAreFinalAlways, PTL DEF TimeLimitsHold

-----------------------------------------------------------------------------
(* The room implements MatchPhase. *)

\* The match that is made has MatchSize players, so it is not empty.
RosterInv == EndInv /\ RosterExact

\* What the helpers do to a room that is still gathering.
LEMMA MatchIsMadeWhenFull ==
    ASSUME NEW m \in PhaseState, m.match = "none", NEW ps, NEW connected
    PROVE  /\ \/ /\ MarkMatchedIfFull(m, ps).match = "none"
              \/ /\ MarkMatchedIfFull(m, ps).match = "matched"
                 /\ Cardinality(ps) = MatchSize
           /\ \/ AdvanceLoading(MarkMatchedIfFull(m, ps), ps, connected).match = "none"
              \/ /\ AdvanceLoading(MarkMatchedIfFull(m, ps), ps, connected).match
                       \in {"matched", "loading", "starting"}
                 /\ Cardinality(ps) = MatchSize
  BY DEF MarkMatchedIfFull, AdvanceLoading, StartCountdown, PhaseState

\* Every step of the room, in terms of match, players, ending and removed only.
PhaseStep ==
    \/ UNCHANGED <<match, players, ending, removed>>
    \/ /\ ~removed /\ ~removed' /\ ~ending /\ ~ending' /\ match = "none"
       /\ players \subseteq players'
       /\ \/ match' = "none"
          \/ match' \in {"matched", "loading", "starting"} /\ Cardinality(players') = MatchSize
    \/ /\ ~removed /\ ~removed' /\ ~ending /\ ~ending' /\ UNCHANGED players
       /\ \/ match = "matched" /\ match' \in {"loading", "starting"}
          \/ match = "loading" /\ match' = "starting"
          \/ match' = "started" /\ (players # {} \/ match = "starting")
    \/ ~removed /\ ~removed' /\ ~ending /\ ending' /\ match = "started" /\ UNCHANGED <<match, players>>
    \/ ~removed /\ removed' /\ UNCHANGED <<match, players>>

LEMMA EveryStepIsAPhaseStep == EndInv /\ [Next]_vars => PhaseStep
  <1> SUFFICES ASSUME EndInv, [Next]_vars
               PROVE  PhaseStep
    OBVIOUS
  <1> USE DEF roomVars, matchVars, sessionVars, graceVars, playVars
  <1>t. TypeOK /\ MatchNow \in PhaseState
    BY MatchNowTyped DEF EndInv
  <1>e. ending => match = "started"
    BY DEF EndInv, EndingIsStarted
  <1>1. ASSUME NEW p \in Human, JoinMatchmaking(p)
        PROVE  PhaseStep
    <2>1. ~removed /\ ~ending /\ match = "none" /\ UNCHANGED <<removed, ending>>
          /\ players \subseteq players'
      BY <1>1 DEF JoinMatchmaking, CanAcceptMatchmaking
    <2>2. match' = MarkMatchedIfFull(MatchNow, players').match
      <3> DEFINE joined == MarkMatchedIfFull(MatchNow, players')
                 first  == Humans(players) = {}
      <3>1. joined \in PhaseState
        BY <1>t, HelpersTyped
      <3>2. BecomesMatch([joined EXCEPT !.armed =
               IF joined.match = "matched"
               THEN IF first THEN @ ELSE @ \ {"botFill"}
               ELSE IF first THEN @ \cup {"botFill"} ELSE @])
        BY <1>1 DEF JoinMatchmaking
      <3> HIDE DEF joined, first
      <3>3. match' = joined.match
        BY <3>1, <3>2 DEF BecomesMatch, PhaseState
      <3>4. QED
        BY <3>3 DEF joined
    <2>3. MatchNow.match = "none"
      BY <2>1 DEF MatchNow
    <2>4. QED
      BY <1>t, <2>1, <2>2, <2>3, MatchIsMadeWhenFull DEF PhaseStep
  <1>2. ASSUME NEW bs \in SUBSET Bot, NEW m \in PhaseState, m.match = "none", AppendBots(bs, m),
               ~removed, ~ending, match = "none", UNCHANGED <<removed, ending>>
        PROVE  PhaseStep
    BY <1>2, MatchIsMadeWhenFull DEF AppendBots, BecomesMatch, PhaseStep
  <1>3. LET m == [MatchNow EXCEPT !.armed = @ \ {"botFill"}]
        IN  m \in PhaseState /\ m.match = match /\ MatchNow.match = match
    BY <1>t DEF PhaseState, MatchNow
  <1>4. ASSUME NEW bs \in SUBSET Bot, AddBots(bs)
        PROVE  PhaseStep
    BY <1>2, <1>3, <1>4, <1>t DEF AddBots
  <1>5. CASE FillBots
    <2>1. CASE ~registered \/ removed \/ ending \/ match # "none" \/ "botFill" \notin armed
      BY <1>5, <2>1 DEF FillBots, PhaseStep
    <2>2. CASE ~(~registered \/ removed \/ ending \/ match # "none" \/ "botFill" \notin armed)
      BY <1>2, <1>3, <1>5, <2>2 DEF FillBots, BecomesMatch, PhaseStep
    <2>3. QED
      BY <2>1, <2>2
  <1>6. ASSUME NEW p \in Human, AddPlayer(p) \/ ReserveClient(p) \/ RollbackReservation(p)
        PROVE  PhaseStep
    BY <1>6 DEF AddPlayer, OpenForDebugPlayer, ReserveClient, RollbackReservation, PhaseStep
  <1>7. ASSUME NEW p \in Human, AttachClient(p)
        PROVE  PhaseStep
    <2>1. ~removed /\ ~ending /\ UNCHANGED <<removed, ending, players>>
      BY <1>7 DEF AttachClient
    <2>2. \/ UNCHANGED match
          \/ match = "matched" /\ match' \in {"loading", "starting"}
      BY <1>7, <1>t DEF AttachClient, BecomesMatch, AdvanceLoading, StartCountdown, MatchNow, PhaseState
    <2>3. QED
      BY <2>1, <2>2 DEF PhaseStep
  <1>8. (\E cs : RemoveRoom(cs)) => removed'
    BY DEF RemoveRoom
  <1>9. ASSUME NEW s \in Session, MarkReady(s)
        PROVE  PhaseStep
    <2>1. ~removed /\ ~ending /\ UNCHANGED players
      BY <1>9, <1>e DEF MarkReady, PreStartMatch, CancelMatch
    <2>2. CASE CancelMatch
      BY <1>8, <2>1, <2>2 DEF CancelMatch, PhaseStep
    <2>3. CASE ~CancelMatch
      <3>1. UNCHANGED <<removed, ending>>
        BY <1>9, <2>3 DEF MarkReady
      <3>2. UNCHANGED match \/ (match = "loading" /\ match' = "starting")
        <4> DEFINE m == [MatchNow EXCEPT !.ready = @ \cup {s[1]}]
        <4>1. m \in PhaseState /\ m.match = match /\ StartCountdown(m).match = "starting"
          BY <1>t DEF PhaseState, MatchNow, Session, StartCountdown
        <4>2. BecomesMatch(IF match = "loading" /\ AllReady(players, m.ready)
                           THEN StartCountdown(m) ELSE m)
          BY <1>9, <2>3 DEF MarkReady
        <4> HIDE DEF m
        <4>3. QED
          BY <4>1, <4>2 DEF BecomesMatch
      <3>3. QED
        BY <2>1, <3>1, <3>2 DEF PhaseStep
    <2>4. QED
      BY <2>2, <2>3
  <1>10. CASE ExpireAttachDeadline \/ ExpireReadyDeadline
    <2>1. CASE CancelMatch /\ ~removed
      BY <1>8, <2>1 DEF CancelMatch, PhaseStep
    <2>2. CASE ~(CancelMatch /\ ~removed)
      BY <1>10, <2>2 DEF ExpireAttachDeadline, ExpireReadyDeadline, PhaseStep
    <2>3. QED
      BY <2>1, <2>2
  <1>11. CASE TickCountdown
    <2>1. CASE removed \/ "countdown" \notin armed \/ match # "starting"
      BY <1>11, <2>1 DEF TickCountdown, PhaseStep
    <2>2. CASE ~(removed \/ "countdown" \notin armed \/ match # "starting")
      <3>1. match' \in {"starting", "started"} /\ UNCHANGED <<removed, ending, players>>
        BY <1>11, <2>2, <1>t, HelpersKeepStarted DEF TickCountdown, BecomesMatch
      <3>2. QED
        BY <1>e, <2>2, <3>1 DEF PhaseStep, TypeOK
    <2>3. QED
      BY <2>1, <2>2
  <1>12. CASE DebugStart
    <2>1. [MatchNow EXCEPT !.armed = @ \ OneShot] \in PhaseState
      BY <1>t DEF PhaseState
    <2>2. match' = "started"
      BY <1>12, <2>1, HelpersKeepStarted DEF DebugStart, BecomesMatch
    <2>3. QED
      BY <1>12, <2>2 DEF DebugStart, PhaseStep
  <1>13. CASE TickGame
    <2>1. ending' \in BOOLEAN /\ UNCHANGED <<match, players, removed>>
      BY <1>t, <1>13 DEF TickGame, ShouldEnd, TypeOK
    <2>2. QED
      BY <1>t, <1>13, <2>1 DEF TickGame, PhaseStep, TypeOK
  <1>14. CASE FinishGameEnd
    BY <1>8, <1>14 DEF FinishGameEnd, PhaseStep
  <1>15. CASE DebugDelete \/ ExpireRoom
    BY <1>8, <1>15 DEF DebugDelete, ExpireRoom, PhaseStep
  <1>16. CASE Unregister
    BY <1>16 DEF Unregister, PhaseStep
  <1>17. ASSUME NEW s \in Session, NEW c \in {"reconnectable", "final"},
                CloseSession(s, c) \/ ReleaseClient(s) \/ FinishClose(s)
         PROVE  PhaseStep
    BY <1>8, <1>17 DEF CloseSession, ReleaseClient, FinishClose, PhaseStep
  <1>18. CASE Clock
    BY <1>18 DEF Clock, DeadlinePasses, Fire, GracePasses, TTLPasses, PhaseStep
  <1>19. CASE UNCHANGED vars
    BY <1>19 DEF vars, PhaseStep
  <1>20. QED
    BY <1>1, <1>4, <1>5, <1>6, <1>7, <1>9, <1>10, <1>11, <1>12, <1>13, <1>14, <1>15,
       <1>16, <1>17, <1>18, <1>19 DEF Next, Handlers, Workers, SessionSteps

LEMMA RosterInvariant == Spec => []RosterInv
  <1>1. Init => RosterExact
    BY DEF Init, RosterExact, PreStartMatch
  <1>2. EndInv /\ EndInv' /\ RosterExact /\ PhaseStep => RosterExact'
    BY DEF PhaseStep, RosterExact, PreStartMatch
  <1>3. QED
    BY <1>1, <1>2, EndInit, EndStep, EveryStepIsAPhaseStep, PTL DEF Spec, RosterInv

\* A match is made for exactly MatchSize players: matchmaking, the debug API and
\* the bot fill stop adding once it is made, and it is only made when they match.
THEOREM RosterExactAlways == Spec => []RosterExact
  <1>1. RosterInv => RosterExact
    BY DEF RosterInv
  <1>2. QED
    BY <1>1, RosterInvariant, PTL

\* The room implements the phases of MatchPhase: every handler, worker, session
\* step and clock step moves the promised phase forward or leaves it alone.
THEOREM RoomImplementsMatchPhase == Spec => ImplementsMatchPhase
  <1>1. Init => Promise!Init
    <2>1. ASSUME Init PROVE players \in SUBSET Participant /\ AbstractPhase = "gathering"
      BY <2>1 DEF Init, Participant, AbstractPhase
    <2>2. QED
      BY <2>1 DEF Promise!Init
  <1>2. RosterInv /\ TypeOK' /\ PhaseStep => [Promise!Next]_Promise!vars
    <2> SUFFICES ASSUME RosterInv, TypeOK', PhaseStep
                 PROVE  [Promise!Next]_Promise!vars
      OBVIOUS
    <2>t. /\ players' \in SUBSET Participant
          /\ ending => match = "started"
          /\ match \in {"none", "matched", "loading", "starting", "started"}
      BY DEF TypeOK, RosterInv, EndInv, EndingIsStarted
    <2>1. CASE UNCHANGED <<match, players, ending, removed>>
      BY <2>1 DEF Promise!vars, AbstractPhase
    <2>2. CASE /\ ~removed /\ ~removed' /\ ~ending /\ ~ending' /\ match = "none"
               /\ players \subseteq players'
               /\ \/ match' = "none"
                  \/ match' \in {"matched", "loading", "starting"} /\ Cardinality(players') = MatchSize
      <3>1. AbstractPhase = "gathering"
        BY <2>2 DEF AbstractPhase
      <3>2. CASE match' = "none"
        <4>1. AbstractPhase' = "gathering"
          BY <2>2, <3>2 DEF AbstractPhase
        <4>2. Promise!Gather
          BY <2>t, <2>2, <3>1, <4>1 DEF Promise!Gather
        <4>3. QED
          BY <4>2 DEF Promise!Next
      <3>3. CASE match' # "none"
        <4>1. AbstractPhase' \in {"matched", "loading", "starting"}
          BY <2>2, <3>3 DEF AbstractPhase
        <4>2. Promise!MakeMatch
          BY <2>t, <2>2, <3>1, <3>3, <4>1 DEF Promise!MakeMatch, FullRoster
        <4>3. QED
          BY <4>2 DEF Promise!Next
      <3>4. QED
        BY <3>2, <3>3
    <2>3. CASE /\ ~removed /\ ~removed' /\ ~ending /\ ~ending' /\ UNCHANGED players
               /\ \/ match = "matched" /\ match' \in {"loading", "starting"}
                  \/ match = "loading" /\ match' = "starting"
                  \/ match' = "started" /\ (players # {} \/ match = "starting")
      <3>1. CASE match = "matched" /\ match' \in {"loading", "starting"}
        BY <2>3, <3>1 DEF AbstractPhase, Promise!Next, Promise!Load
      <3>2. CASE match = "loading" /\ match' = "starting"
        BY <2>3, <3>2 DEF AbstractPhase, Promise!Next, Promise!StartCountdown
      <3>3. CASE match' = "started" /\ (players # {} \/ match = "starting")
        <4>1. players # {}
          <5>1. Cardinality({}) = 0
            BY FS_EmptySet
          <5>2. match = "starting" => Cardinality(players) = MatchSize /\ MatchSize # 0
            BY SizesAssumption DEF RosterInv, RosterExact, PreStartMatch
          <5>3. QED
            BY <3>3, <5>1, <5>2
        <4>2. AbstractPhase' = "playing"
          BY <2>3, <3>3 DEF AbstractPhase
        <4>3. AbstractPhase \in {"gathering", "matched", "loading", "starting", "playing"}
          BY <2>t, <2>3 DEF AbstractPhase
        <4>4. QED
          BY <2>3, <4>1, <4>2, <4>3
             DEF Promise!Next, Promise!Play, Promise!PreStart, Promise!vars
      <3>4. QED
        BY <2>3, <3>1, <3>2, <3>3
    <2>4. CASE ~removed /\ ~removed' /\ ~ending /\ ending' /\ match = "started" /\ UNCHANGED <<match, players>>
      BY <2>4 DEF AbstractPhase, Promise!Next, Promise!End
    <2>5. CASE ~removed /\ removed' /\ UNCHANGED <<match, players>>
      <3>1. AbstractPhase # "gone" /\ AbstractPhase' = "gone"
        BY <2>t, <2>5 DEF AbstractPhase
      <3>2. QED
        BY <2>5, <3>1 DEF Promise!Next, Promise!Discard
    <2>6. QED
      BY <2>1, <2>2, <2>3, <2>4, <2>5 DEF PhaseStep
  <1>3. EndInv /\ [Next]_vars => TypeOK'
    BY TypeStep DEF EndInv
  <1>4. RosterInv => EndInv
    BY DEF RosterInv
  <1>5. QED
    BY <1>1, <1>2, <1>3, <1>4, EveryStepIsAPhaseStep, RosterInvariant, PTL
       DEF Spec, ImplementsMatchPhase, Promise!Spec

-----------------------------------------------------------------------------
(* The timers of a phase.  TimersMatchPhase is not inductive alone: the      *)
(* first human of a room that already has bots re-arms the bot fill unless   *)
(* he completes it, so a room without humans must have none armed.           *)

Balanced(m, ps, over) ==
    /\ "attach" \in m.armed <=> m.match = "matched" /\ Humans(ps) # {}
    /\ "ready" \in m.armed <=> m.match = "loading"
    /\ "countdown" \in m.armed <=> m.match = "starting"
    /\ "gameplay" \in m.armed <=> m.match = "started" /\ ~over
    /\ "botFill" \in m.armed => m.match = "none" /\ Humans(ps) # {}

TimerInv ==
    /\ EndInv
    /\ removed => armed = {}
    /\ ~removed => Balanced(MatchNow, players, ending)

LEMMA TimerInvImplies == TimerInv => TimersMatchPhase
  BY DEF TimerInv, EndInv, TimersMatchPhase, Balanced, MatchNow

\* The timers of a gathering room that players join: the match is made when
\* they fill it, and then the bot fill must be gone.
LEMMA MakingKeepsBalance ==
    ASSUME NEW m \in PhaseState, NEW ps \in SUBSET Participant,
           NEW qs \in SUBSET Participant, ps \subseteq qs,
           m.match = "none", Balanced(m, ps, FALSE),
           Cardinality(qs) = MatchSize => "botFill" \notin m.armed
    PROVE  Balanced(MarkMatchedIfFull(m, qs), qs, FALSE)
  <1>1. CASE Cardinality(qs) # MatchSize
    BY <1>1 DEF MarkMatchedIfFull, Balanced, PhaseState, Humans
  <1>2. CASE Cardinality(qs) = MatchSize
    <2>1. /\ MarkMatchedIfFull(m, qs).match = "matched"
          /\ MarkMatchedIfFull(m, qs).armed =
               IF Humans(qs) = {} THEN m.armed ELSE m.armed \cup {"attach"}
      BY <1>2 DEF MarkMatchedIfFull, PhaseState
    <2>2. QED
      BY <1>2, <2>1 DEF Balanced
  <1>3. QED
    BY <1>1, <1>2

LEMMA LoadingKeepsBalance ==
    ASSUME NEW m \in PhaseState, NEW ps, NEW connected, Balanced(m, ps, FALSE)
    PROVE  Balanced(AdvanceLoading(m, ps, connected), ps, FALSE)
  <1>1. CASE ~(m.match = "matched" /\ AllAttached(ps, connected))
    BY <1>1 DEF AdvanceLoading
  <1>2. CASE m.match = "matched" /\ AllAttached(ps, connected)
    <2> DEFINE n == AdvanceLoading(m, ps, connected)
    <2>1. \/ n.match = "starting" /\ n.armed = ((m.armed \ {"attach"}) \ {"ready"}) \cup {"countdown"}
          \/ n.match = "loading" /\ n.armed = (m.armed \ {"attach"}) \cup {"ready"}
      BY <1>2 DEF AdvanceLoading, StartCountdown, PhaseState
    <2> HIDE DEF n
    <2>2. QED
      BY <1>2, <2>1 DEF Balanced, n
  <1>3. QED
    BY <1>1, <1>2

\* From any phase, once the one-shot timers are gone.
LEMMA PlayingIsBalanced ==
    ASSUME NEW m \in PhaseState, NEW ps, m.armed \cap OneShot = {}
    PROVE  Balanced(StartPlaying(m), ps, FALSE)
  <1>1. StartPlaying(m).match = "started"
        /\ StartPlaying(m).armed = (m.armed \ {"countdown"}) \cup {"gameplay"}
    BY DEF StartPlaying, PhaseState
  <1>2. QED
    BY <1>1 DEF Balanced, OneShot

LEMMA TimerInit == Init => TimerInv
  BY EndInit DEF Init, TimerInv, Balanced, MatchNow, Humans

\* BecomesMatch in a room that lives and is not ending.
LEMMA BecomesKeepsTimers ==
    ASSUME NEW m, EndInv', BecomesMatch(m), ~removed', ~ending', Balanced(m, players', FALSE)
    PROVE  TimerInv'
  BY DEF TimerInv, BecomesMatch, MatchNow, Balanced

LEMMA TimerStep == TimerInv /\ [Next]_vars => TimerInv'
  <1> SUFFICES ASSUME TimerInv, [Next]_vars
               PROVE  TimerInv'
    OBVIOUS
  <1> USE DEF roomVars, matchVars, sessionVars, graceVars, playVars
  <1>t. EndInv /\ EndInv' /\ TypeOK /\ TypeOK' /\ (ending => match = "started")
    BY EndStep DEF TimerInv, EndInv, EndingIsStarted
  <1>m. MatchNow \in PhaseState /\ MatchNow.match = match /\ MatchNow.armed = armed
    BY <1>t, MatchNowTyped DEF MatchNow
  \* Steps that leave the phase and its timers alone.
  <1>f. UNCHANGED <<removed, ending, match, players, armed>> => TimerInv'
    BY <1>t DEF TimerInv, Balanced, MatchNow
  \* Removals.
  <1>r. (\E cs : RemoveRoom(cs)) => TimerInv'
    BY <1>t DEF RemoveRoom, TimerInv
  <1>b. ~removed /\ ~ending => Balanced(MatchNow, players, FALSE)
    BY DEF TimerInv, Balanced
  <1>1. ASSUME NEW p \in Human, JoinMatchmaking(p)
        PROVE  TimerInv'
    <2> DEFINE first  == Humans(players) = {}
               joined == MarkMatchedIfFull(MatchNow, players')
               m == [joined EXCEPT !.armed =
                       IF joined.match = "matched"
                       THEN IF first THEN @ ELSE @ \ {"botFill"}
                       ELSE IF first THEN @ \cup {"botFill"} ELSE @]
    <2>1. /\ ~removed /\ ~ending /\ ~removed' /\ ~ending' /\ match = "none"
          /\ players' = players \cup {p} /\ BecomesMatch(m)
      BY <1>1 DEF JoinMatchmaking, CanAcceptMatchmaking
    <2>2. /\ "attach" \notin armed /\ "ready" \notin armed
          /\ "countdown" \notin armed /\ "gameplay" \notin armed
          /\ first => "botFill" \notin armed
      BY <1>b, <1>m, <2>1 DEF Balanced
    <2>3. Humans(players') # {}
      BY <2>1 DEF Humans
    <2>4. Balanced(m, players', FALSE)
      <3>1. CASE Cardinality(players') = MatchSize
        <4>1. m.match = "matched"
              /\ m.armed = IF first THEN armed \cup {"attach"}
                                    ELSE (armed \cup {"attach"}) \ {"botFill"}
          <5>1. joined \in PhaseState /\ joined.match = "matched"
                /\ joined.armed = armed \cup {"attach"}
            BY <1>m, <2>3, <3>1, HelpersTyped DEF MarkMatchedIfFull, PhaseState
          <5> HIDE DEF joined, first
          <5>2. QED
            BY <5>1 DEF PhaseState
        <4> HIDE DEF m
        <4>2. QED
          BY <2>2, <2>3, <4>1 DEF Balanced
      <3>2. CASE Cardinality(players') # MatchSize
        <4>1. joined = MatchNow
          BY <3>2 DEF MarkMatchedIfFull
        <4>2. m.match = "none"
              /\ m.armed = IF first THEN armed \cup {"botFill"} ELSE armed
          <5> HIDE DEF first
          <5>1. QED
            BY <1>m, <2>1, <4>1 DEF PhaseState
        <4> HIDE DEF m
        <4>3. QED
          BY <2>2, <2>3, <4>2 DEF Balanced
      <3>3. QED
        BY <3>1, <3>2
    <2> HIDE DEF m
    <2>5. QED
      BY <1>t, <2>1, <2>4, BecomesKeepsTimers
  <1>2. ASSUME NEW p \in Human, AddPlayer(p)
        PROVE  TimerInv'
    <2>1. ~removed /\ ~ending /\ match = "none" /\ players' = players \cup {p}
          /\ UNCHANGED <<removed, ending, match, countdown, ready, armed>>
      BY <1>2 DEF AddPlayer, OpenForDebugPlayer
    <2>2. Humans(players) \subseteq Humans(players')
      BY <2>1 DEF Humans
    <2>3. QED
      BY <1>t, <2>1, <2>2 DEF TimerInv, Balanced, MatchNow
  <1>3. ASSUME NEW bs \in SUBSET Bot, NEW m \in PhaseState, AppendBots(bs, m),
               ~removed, ~ending, UNCHANGED <<removed, ending>>,
               m.match = "none", Balanced(m, players, FALSE),
               Cardinality(players') = MatchSize => "botFill" \notin m.armed
        PROVE  TimerInv'
    <2> DEFINE made == MarkMatchedIfFull(m, players')
               n    == AdvanceLoading(made, players', Connected)
    <2>1. players \in SUBSET Participant /\ players' \in SUBSET Participant
          /\ players \subseteq players'
      BY <1>t, <1>3 DEF TypeOK, AppendBots
    <2>2. Balanced(made, players', FALSE) /\ made \in PhaseState
      BY <1>3, <2>1, MakingKeepsBalance, HelpersTyped
    <2>3. Balanced(n, players', FALSE)
      BY <2>2, LoadingKeepsBalance
    <2>4. BecomesMatch(n)
      BY <1>3 DEF AppendBots
    <2> HIDE DEF n
    <2>5. QED
      BY <1>t, <1>3, <2>3, <2>4, BecomesKeepsTimers
  <1>4. LET m == [MatchNow EXCEPT !.armed = @ \ {"botFill"}]
        IN  /\ m \in PhaseState /\ m.match = match /\ "botFill" \notin m.armed
            /\ Balanced(MatchNow, players, FALSE) => Balanced(m, players, FALSE)
    BY <1>m DEF PhaseState, Balanced
  <1>5. ASSUME NEW bs \in SUBSET Bot, AddBots(bs)
        PROVE  TimerInv'
    <2>1. ~removed /\ ~ending /\ match = "none" /\ UNCHANGED <<removed, ending>>
          /\ bs \subseteq Bot \ players /\ players' = players \cup bs
      BY <1>5 DEF AddBots, AppendBots
    <2>2. Cardinality(players') = Cardinality(players) + Cardinality(bs)
      <3>1. IsFiniteSet(Participant)
        BY PlayersAssumption, FS_Union DEF Participant
      <3>2. IsFiniteSet(players) /\ IsFiniteSet(bs) /\ players \cap bs = {}
        BY <1>t, <2>1, <3>1, PlayersAssumption, FS_Subset DEF TypeOK
      <3>3. Cardinality(players \cap bs) = 0 /\ Cardinality(players) \in Nat
            /\ Cardinality(bs) \in Nat
        BY <3>2, FS_EmptySet, FS_CardinalityType
      <3>4. Cardinality(players \cup bs) =
              Cardinality(players) + Cardinality(bs) - Cardinality(players \cap bs)
        BY <3>2, FS_Union
      <3>5. QED
        BY <2>1, <3>3, <3>4
    <2>3. CASE Cardinality(players) + Cardinality(bs) = MatchSize
      BY <1>3, <1>4, <1>5, <1>b, <2>1, <2>3 DEF AddBots
    <2>4. CASE Cardinality(players) + Cardinality(bs) # MatchSize
      BY <1>3, <1>5, <1>b, <1>m, <2>1, <2>2, <2>4 DEF AddBots
    <2>5. QED
      BY <2>3, <2>4
  <1>6. CASE FillBots
    <2>1. CASE ~registered \/ removed \/ ending \/ match # "none" \/ "botFill" \notin armed
      BY <1>6, <1>f, <2>1 DEF FillBots
    <2>2. CASE ~(~registered \/ removed \/ ending \/ match # "none" \/ "botFill" \notin armed)
      <3> DEFINE m == [MatchNow EXCEPT !.armed = @ \ {"botFill"}]
      <3>1. m \in PhaseState /\ m.match = "none" /\ "botFill" \notin m.armed
            /\ Balanced(m, players, FALSE)
        BY <1>4, <1>b, <2>2
      <3>2. ~removed /\ ~ending /\ UNCHANGED <<removed, ending>>
        BY <1>6, <2>2 DEF FillBots
      <3>3. \/ BecomesMatch(m) /\ UNCHANGED players
            \/ \E bs \in SUBSET Bot : AppendBots(bs, m)
        BY <1>6, <2>2 DEF FillBots
      <3> HIDE DEF m
      <3>4. CASE BecomesMatch(m) /\ UNCHANGED players
        BY <1>t, <3>1, <3>2, <3>4, BecomesKeepsTimers
      <3>5. CASE \E bs \in SUBSET Bot : AppendBots(bs, m)
        BY <1>3, <3>1, <3>2, <3>5
      <3>6. QED
        BY <3>3, <3>4, <3>5
    <2>3. QED
      BY <2>1, <2>2
  <1>7. ASSUME NEW p \in Human, ReserveClient(p) \/ RollbackReservation(p)
        PROVE  TimerInv'
    BY <1>7, <1>f DEF ReserveClient, RollbackReservation
  <1>8. ASSUME NEW p \in Human, AttachClient(p)
        PROVE  TimerInv'
    <2> DEFINE n == AdvanceLoading(MatchNow, players, Connected \cup {p})
    <2>1. ~removed /\ ~ending /\ BecomesMatch(n) /\ UNCHANGED <<removed, ending, players>>
      BY <1>8 DEF AttachClient
    <2>2. Balanced(n, players, FALSE)
      BY <1>b, <1>m, <2>1, LoadingKeepsBalance
    <2> HIDE DEF n
    <2>3. QED
      BY <1>t, <2>1, <2>2, BecomesKeepsTimers
  <1>9. ASSUME NEW s \in Session, NEW c \in {"reconnectable", "final"},
               CloseSession(s, c) \/ FinishClose(s)
        PROVE  TimerInv'
    BY <1>9, <1>f DEF CloseSession, FinishClose
  <1>10. ASSUME NEW s \in Session, ReleaseClient(s)
         PROVE  TimerInv'
    <2>1. RemoveRoom(CurrentSessions \ {s}) \/ UNCHANGED <<removed, armed>>
      BY <1>10 DEF ReleaseClient
    <2>2. UNCHANGED <<ending, match, players>>
      BY <1>10 DEF ReleaseClient
    <2>3. QED
      BY <1>f, <1>r, <2>1, <2>2
  <1>11. ASSUME NEW s \in Session, MarkReady(s)
         PROVE  TimerInv'
    <2>1. ~removed /\ ~ending
      BY <1>11, <1>t DEF MarkReady, PreStartMatch
    <2>2. CASE CancelMatch
      BY <1>r, <2>2 DEF CancelMatch
    <2>3. CASE ~CancelMatch
      <3> DEFINE m == [MatchNow EXCEPT !.ready = @ \cup {s[1]}]
                 n == IF match = "loading" /\ AllReady(players, m.ready)
                      THEN StartCountdown(m) ELSE m
      <3>1. BecomesMatch(n) /\ UNCHANGED <<removed, ending, players>>
        BY <1>11, <2>3 DEF MarkReady
      <3>2. m \in PhaseState /\ m.match = match /\ m.armed = armed
        BY <1>m DEF PhaseState, Session
      <3>3. Balanced(m, players, FALSE)
        BY <1>b, <1>m, <2>1, <3>2 DEF Balanced
      <3>4. Balanced(n, players, FALSE)
        <4>1. match = "loading" => Balanced(StartCountdown(m), players, FALSE)
          <5> HIDE DEF m
          <5>1. StartCountdown(m).match = "starting"
                /\ StartCountdown(m).armed = (m.armed \ {"ready"}) \cup {"countdown"}
            BY <3>2 DEF StartCountdown, PhaseState
          <5>2. QED
            BY <3>2, <3>3, <5>1 DEF Balanced
        <4> HIDE DEF m
        <4>2. QED
          BY <3>3, <4>1
      <3> HIDE DEF n
      <3>5. QED
        BY <1>t, <2>1, <3>1, <3>4, BecomesKeepsTimers
    <2>4. QED
      BY <2>2, <2>3
  <1>12. CASE ExpireAttachDeadline \/ ExpireReadyDeadline
    <2>1. CancelMatch \/ UNCHANGED <<removed, ending, match, players, armed>>
      BY <1>12 DEF ExpireAttachDeadline, ExpireReadyDeadline
    <2>2. QED
      BY <1>f, <1>r, <2>1 DEF CancelMatch
  <1>13. CASE TickCountdown
    <2>1. CASE removed \/ "countdown" \notin armed \/ match # "starting" \/ countdown > 1
      BY <1>13, <1>f, <2>1 DEF TickCountdown
    <2>2. CASE ~(removed \/ "countdown" \notin armed \/ match # "starting" \/ countdown > 1)
      <3>1. ~removed /\ ~ending /\ match = "starting"
            /\ BecomesMatch(StartPlaying(MatchNow)) /\ UNCHANGED <<removed, ending, players>>
        BY <1>13, <1>t, <2>2 DEF TickCountdown
      <3>2. MatchNow.armed \cap OneShot = {}
        BY <1>b, <1>m, <3>1 DEF Balanced, OneShot
      <3>3. Balanced(StartPlaying(MatchNow), players, FALSE)
        BY <1>m, <3>2, PlayingIsBalanced
      <3>4. QED
        BY <1>t, <3>1, <3>3, BecomesKeepsTimers
    <2>3. QED
      BY <2>1, <2>2
  <1>14. CASE DebugStart
    <2> DEFINE m == [MatchNow EXCEPT !.armed = @ \ OneShot]
    <2>1. ~removed /\ ~ending /\ BecomesMatch(StartPlaying(m))
          /\ UNCHANGED <<removed, ending, players>>
      BY <1>14 DEF DebugStart
    <2>2. m \in PhaseState /\ m.armed \cap OneShot = {}
      BY <1>m DEF PhaseState
    <2> HIDE DEF m
    <2>3. Balanced(StartPlaying(m), players, FALSE)
      BY <2>2, PlayingIsBalanced
    <2>4. QED
      BY <1>t, <2>1, <2>3, BecomesKeepsTimers
  <1>15. CASE DebugDelete \/ ExpireRoom
    BY <1>15, <1>r DEF DebugDelete, ExpireRoom
  <1>16. CASE Unregister
    BY <1>16, <1>f DEF Unregister
  <1>17. CASE TickGame
    <2>1. UNCHANGED <<removed, players, match, countdown, ready>>
      BY <1>17 DEF TickGame
    <2>2. CASE removed \/ ending \/ match # "started"
      BY <1>17, <1>f, <2>1, <2>2 DEF TickGame
    <2>3. CASE ~(removed \/ ending \/ match # "started")
      <3>1. armed' = IF ending' THEN armed \ {"gameplay"} ELSE armed
        BY <1>17, <2>3 DEF TickGame
      <3>2. QED
        BY <1>b, <1>t, <2>1, <2>3, <3>1 DEF TimerInv, Balanced, MatchNow
    <2>4. QED
      BY <2>2, <2>3
  <1>18. CASE FinishGameEnd
    BY <1>18, <1>f, <1>r DEF FinishGameEnd
  <1>19. CASE Clock
    BY <1>19, <1>f DEF Clock, DeadlinePasses, Fire, GracePasses, TTLPasses
  <1>20. CASE UNCHANGED vars
    BY <1>20, <1>f DEF vars
  <1>21. QED
    BY <1>1, <1>2, <1>5, <1>6, <1>7, <1>8, <1>9, <1>10, <1>11, <1>12, <1>13, <1>14, <1>15,
       <1>16, <1>17, <1>18, <1>19, <1>20 DEF Next, Handlers, Workers, SessionSteps

LEMMA TimerInvariant == Spec => []TimerInv
  BY TimerInit, TimerStep, PTL DEF Spec

\* In every reachable state the workers that are armed are exactly those of the
\* phase: no arm or detach of any handler is missing or left over, and a removed
\* room leaks no worker.
THEOREM TimersMatchPhaseAlways == Spec => []TimersMatchPhase
  BY TimerInvImplies, TimerInvariant, PTL

-----------------------------------------------------------------------------
(* The humans of a match are present until play.  A disconnect before the    *)
(* start removes the room, so Connected only shrinks in a room that is gone. *)

PresentInv == TypeOK /\ PresentUntilPlay

\* A step that keeps the phase and drops neither a session nor an ACK.
LEMMA FrameKeepsPresent ==
    ASSUME PresentInv, TypeOK', ~removed' => ~removed,
           ~removed' => match' \in {match, "none", "matched", "started"},
           ~removed' /\ match \in {"loading", "starting"} =>
               /\ players' = players /\ ready \subseteq ready'
               /\ \A p \in Human : client[p] # 0 => client'[p] # 0
    PROVE  PresentInv'
  BY DEF PresentInv, PresentUntilPlay, Connected, Humans

\* A removed room owes nothing.
LEMMA RemovalKeepsPresent == TypeOK' /\ removed' => PresentInv'
  BY DEF PresentInv, PresentUntilPlay

\* AdvanceLoading looks at the sessions itself.
LEMMA LoadingNeedsEveryone ==
    ASSUME NEW m \in PhaseState, NEW ps, NEW connected,
           m.match \notin {"loading", "starting"},
           AdvanceLoading(m, ps, connected).match \in {"loading", "starting"}
    PROVE  /\ Humans(ps) \subseteq connected
           /\ AdvanceLoading(m, ps, connected).match = "starting"
                 => Humans(ps) \subseteq AdvanceLoading(m, ps, connected).ready
  BY DEF AdvanceLoading, StartCountdown, AllAttached, AllReady, PhaseState

LEMMA PresentStep == PresentInv /\ [Next]_vars => PresentInv'
  <1> SUFFICES ASSUME PresentInv, [Next]_vars
               PROVE  PresentInv'
    OBVIOUS
  <1> USE DEF roomVars, matchVars, sessionVars, graceVars, playVars
  <1>t. TypeOK /\ TypeOK'
    BY TypeStep DEF PresentInv
  <1>m. MatchNow \in PhaseState /\ MatchNow.match = match /\ MatchNow.ready = ready
    BY <1>t, MatchNowTyped DEF MatchNow
  <1>f. UNCHANGED <<removed, match, players, ready, client>> => PresentInv'
    BY <1>t, FrameKeepsPresent
  <1>r. (\E cs : RemoveRoom(cs)) => PresentInv'
    BY <1>t, RemovalKeepsPresent DEF RemoveRoom
  <1>1. ASSUME NEW p \in Human, JoinMatchmaking(p)
        PROVE  PresentInv'
    <2>1. match = "none" /\ UNCHANGED removed
      BY <1>1 DEF JoinMatchmaking, CanAcceptMatchmaking
    <2> DEFINE joined == MarkMatchedIfFull(MatchNow, players')
    <2>2. joined \in PhaseState /\ joined.match \in {"none", "matched"}
      BY <1>m, <2>1, HelpersTyped DEF MarkMatchedIfFull, PhaseState
    <2>3. \E a : BecomesMatch([joined EXCEPT !.armed = a])
      BY <1>1 DEF JoinMatchmaking
    <2>4. match' = joined.match
      <3> HIDE DEF joined
      <3>1. QED
        BY <2>2, <2>3 DEF BecomesMatch, PhaseState
    <2>5. QED
      BY <1>t, <2>1, <2>2, <2>4, FrameKeepsPresent
  <1>2. ASSUME NEW p \in Human, AddPlayer(p)
        PROVE  PresentInv'
    BY <1>2, <1>t, FrameKeepsPresent DEF AddPlayer, OpenForDebugPlayer
  <1>3. ASSUME NEW bs \in SUBSET Bot, NEW m \in PhaseState, m.match = "none",
               AppendBots(bs, m), UNCHANGED <<removed, client>>
        PROVE  PresentInv'
    <2> DEFINE made == MarkMatchedIfFull(m, players')
               n    == AdvanceLoading(made, players', Connected)
    <2>1. made \in PhaseState /\ made.match \in {"none", "matched"}
      BY <1>3, HelpersTyped DEF MarkMatchedIfFull, PhaseState
    <2>2. BecomesMatch(n) /\ Connected' = Connected
      BY <1>3 DEF AppendBots, Connected
    <2>3. n.match \in {"loading", "starting"} =>
            /\ Humans(players') \subseteq Connected
            /\ n.match = "starting" => Humans(players') \subseteq n.ready
      <3> HIDE DEF made
      <3>1. QED
        BY <2>1, LoadingNeedsEveryone
    <2> HIDE DEF n
    <2>4. QED
      BY <1>t, <2>2, <2>3 DEF BecomesMatch, PresentInv, PresentUntilPlay
  <1>4. LET m == [MatchNow EXCEPT !.armed = @ \ {"botFill"}]
        IN  m \in PhaseState /\ m.match = match /\ m.ready = ready
    BY <1>m DEF PhaseState
  <1>5. ASSUME NEW bs \in SUBSET Bot, AddBots(bs)
        PROVE  PresentInv'
    BY <1>3, <1>4, <1>5, <1>m DEF AddBots
  <1>6. CASE FillBots
    <2>1. CASE ~registered \/ removed \/ ending \/ match # "none" \/ "botFill" \notin armed
      BY <1>6, <1>f, <2>1 DEF FillBots
    <2>2. CASE ~(~registered \/ removed \/ ending \/ match # "none" \/ "botFill" \notin armed)
      <3> DEFINE m == [MatchNow EXCEPT !.armed = @ \ {"botFill"}]
      <3>1. \/ BecomesMatch(m) /\ UNCHANGED players
            \/ \E bs \in SUBSET Bot : AppendBots(bs, m)
        BY <1>6, <2>2 DEF FillBots
      <3>2. m \in PhaseState /\ m.match = "none" /\ match = "none" /\ UNCHANGED <<removed, client>>
        BY <1>4, <1>6, <2>2 DEF FillBots
      <3> HIDE DEF m
      <3>3. CASE BecomesMatch(m) /\ UNCHANGED players
        BY <1>t, <3>2, <3>3, FrameKeepsPresent DEF BecomesMatch
      <3>4. QED
        BY <1>3, <3>1, <3>2, <3>3
    <2>3. QED
      BY <2>1, <2>2
  <1>7. ASSUME NEW p \in Human, ReserveClient(p) \/ RollbackReservation(p)
        PROVE  PresentInv'
    BY <1>7, <1>f DEF ReserveClient, RollbackReservation
  <1>8. ASSUME NEW p \in Human, AttachClient(p)
        PROVE  PresentInv'
    <2> DEFINE n == AdvanceLoading(MatchNow, players, Connected \cup {p})
    <2>1. BecomesMatch(n) /\ ~removed /\ UNCHANGED <<removed, players>>
          /\ client' = [client EXCEPT ![p] = generation[p] + 1]
      BY <1>8 DEF AttachClient
    <2>2. Connected' = Connected \cup {p}
      BY <1>t, <2>1, SizesAssumption DEF TypeOK, Connected, Gen
    <2>3. CASE match \notin {"loading", "starting"}
      <3>1. n.match \in {"loading", "starting"} =>
              /\ Humans(players) \subseteq Connected'
              /\ n.match = "starting" => Humans(players) \subseteq n.ready
        BY <1>m, <2>2, <2>3, LoadingNeedsEveryone
      <3> HIDE DEF n
      <3>2. QED
        BY <1>t, <2>1, <3>1 DEF BecomesMatch, PresentInv, PresentUntilPlay
    <2>4. CASE match \in {"loading", "starting"}
      <3>1. n = MatchNow
        BY <1>m, <2>4 DEF AdvanceLoading
      <3>2. match' = match /\ ready' = ready
        BY <1>m, <2>1, <3>1 DEF BecomesMatch
      <3>3. QED
        BY <1>t, <2>1, <2>2, <3>2 DEF PresentInv, PresentUntilPlay
    <2>5. QED
      BY <2>3, <2>4
  <1>9. ASSUME NEW s \in Session, NEW c \in {"reconnectable", "final"},
               CloseSession(s, c) \/ FinishClose(s)
        PROVE  PresentInv'
    BY <1>9, <1>f DEF CloseSession, FinishClose
  <1>10. ASSUME NEW s \in Session, ReleaseClient(s)
         PROVE  PresentInv'
    <2>1. UNCHANGED <<match, players>>
      BY <1>10 DEF ReleaseClient
    <2>2. CASE removed \/ client[s[1]] # s[2]
      BY <1>10, <1>f, <2>1, <2>2 DEF ReleaseClient
    <2>3. CASE ~(removed \/ client[s[1]] # s[2]) /\ PreStartMatch
      BY <1>10, <1>r, <2>3 DEF ReleaseClient
    <2>4. CASE ~(removed \/ client[s[1]] # s[2]) /\ ~PreStartMatch
      BY <1>10, <1>t, <2>1, <2>4, FrameKeepsPresent DEF ReleaseClient, PreStartMatch
    <2>5. QED
      BY <2>2, <2>3, <2>4
  <1>11. ASSUME NEW s \in Session, MarkReady(s)
         PROVE  PresentInv'
    <2>1. CASE CancelMatch
      BY <1>r, <2>1 DEF CancelMatch
    <2>2. CASE ~CancelMatch
      <3> DEFINE m == [MatchNow EXCEPT !.ready = @ \cup {s[1]}]
                 n == IF match = "loading" /\ AllReady(players, m.ready)
                      THEN StartCountdown(m) ELSE m
      <3>1. BecomesMatch(n) /\ UNCHANGED <<removed, players, client>> /\ ~removed
        BY <1>11, <2>2 DEF MarkReady
      <3>2. m \in PhaseState /\ m.match = match /\ m.ready = ready \cup {s[1]}
        BY <1>m DEF PhaseState, Session
      <3>3. \/ /\ match = "loading" /\ n.match = "starting" /\ n.ready = m.ready
               /\ Humans(players) \subseteq m.ready
            \/ n.match = match /\ n.ready = m.ready
        <4> HIDE DEF m
        <4>1. QED
          BY <3>2 DEF AllReady, StartCountdown, PhaseState
      <3> HIDE DEF m, n
      <3>4. Connected' = Connected
        BY <3>1 DEF Connected
      <3>5. QED
        BY <1>t, <3>1, <3>2, <3>3, <3>4 DEF BecomesMatch, PresentInv, PresentUntilPlay
    <2>3. QED
      BY <2>1, <2>2
  <1>12. CASE ExpireAttachDeadline \/ ExpireReadyDeadline
    <2>1. CancelMatch \/ UNCHANGED <<removed, match, players, ready, client>>
      BY <1>12 DEF ExpireAttachDeadline, ExpireReadyDeadline
    <2>2. QED
      BY <1>f, <1>r, <2>1 DEF CancelMatch
  <1>13. CASE TickCountdown
    <2>1. UNCHANGED <<removed, players, client>>
          /\ (UNCHANGED <<match, ready>> \/ BecomesMatch(StartPlaying(MatchNow)))
      BY <1>13 DEF TickCountdown
    <2>2. BecomesMatch(StartPlaying(MatchNow)) => match' = "started" /\ ready' = ready
      BY <1>m DEF BecomesMatch, StartPlaying, PhaseState
    <2>3. QED
      BY <1>t, <2>1, <2>2, FrameKeepsPresent
  <1>14. CASE DebugStart
    <2>1. [MatchNow EXCEPT !.armed = @ \ OneShot] \in PhaseState
      BY <1>m DEF PhaseState
    <2>2. match' = "started" /\ UNCHANGED removed
      BY <1>14, <2>1, HelpersKeepStarted DEF DebugStart, BecomesMatch
    <2>3. QED
      BY <1>t, <2>2 DEF PresentInv, PresentUntilPlay
  <1>15. CASE DebugDelete \/ ExpireRoom
    BY <1>15, <1>r DEF DebugDelete, ExpireRoom
  <1>16. CASE Unregister
    BY <1>16, <1>f DEF Unregister
  <1>17. CASE TickGame
    BY <1>17, <1>f DEF TickGame
  <1>18. CASE FinishGameEnd
    BY <1>18, <1>f, <1>r DEF FinishGameEnd
  <1>19. CASE Clock
    BY <1>19, <1>f DEF Clock, DeadlinePasses, Fire, GracePasses, TTLPasses
  <1>20. CASE UNCHANGED vars
    BY <1>20, <1>f DEF vars
  <1>21. QED
    BY <1>1, <1>2, <1>5, <1>6, <1>7, <1>8, <1>9, <1>10, <1>11, <1>12, <1>13, <1>14, <1>15,
       <1>16, <1>17, <1>18, <1>19, <1>20 DEF Next, Handlers, Workers, SessionSteps

\* While a match loads or counts down, every human of it has a session, and
\* while it counts down every human has acknowledged Ready, whatever order the
\* attaches, ACKs, disconnects and deadlines come in.
THEOREM PresentUntilPlayAlways == Spec => []PresentUntilPlay
  <1>1. Init => PresentInv
    BY TypeInit DEF Init, PresentInv, PresentUntilPlay
  <1>2. PresentInv => PresentUntilPlay
    BY DEF PresentInv
  <1>3. QED
    BY <1>1, <1>2, PresentStep, PTL DEF Spec

-----------------------------------------------------------------------------
(* The disconnected-room TTL. *)

AbandonInv == TypeOK /\ AbandonedRoomCountsDown

\* CurrentSessions and room.clients speak of the same sessions.
LEMMA OthersAreConnected ==
    ASSUME TypeOK, NEW s \in Session, client[s[1]] = s[2]
    PROVE  CurrentSessions \ {s} = {} <=> Connected \ {s[1]} = {}
  <1>1. s = <<s[1], s[2]>> /\ s[1] \in Human /\ s[2] \in 1..MaxGeneration
    BY DEF Session
  <1>2. ASSUME NEW t \in CurrentSessions \ {s} PROVE t[1] \in Connected \ {s[1]}
    <2>1. t = <<t[1], t[2]>> /\ t[1] \in Human /\ t[2] \in 1..MaxGeneration /\ client[t[1]] = t[2]
      BY DEF CurrentSessions, Session
    <2>2. t[2] # 0
      BY <2>1, SizesAssumption
    <2>3. QED
      BY <1>1, <2>1, <2>2 DEF Connected
  <1>3. ASSUME NEW q \in Connected \ {s[1]} PROVE <<q, client[q]>> \in CurrentSessions \ {s}
    <2>1. q \in Human /\ client[q] \in Gen /\ client[q] # 0 /\ q # s[1]
      BY DEF Connected, TypeOK
    <2>2. client[q] \in 1..MaxGeneration
      BY <2>1, SizesAssumption DEF Gen
    <2>3. QED
      BY <1>1, <2>1, <2>2 DEF CurrentSessions, Session
  <1>4. QED
    BY <1>2, <1>3

LEMMA AbandonStep == AbandonInv /\ [Next]_vars => AbandonInv'
  <1> SUFFICES ASSUME AbandonInv, [Next]_vars
               PROVE  AbandonInv'
    OBVIOUS
  <1> USE DEF roomVars, matchVars, sessionVars, graceVars, playVars
  <1>t. TypeOK /\ TypeOK'
    BY TypeStep DEF AbandonInv
  <1>m. MatchNow \in PhaseState /\ MatchNow.match = match
    BY <1>t, MatchNowTyped DEF MatchNow
  <1>f. UNCHANGED <<removed, client, absent>> /\ (match' = "started" => match = "started")
          => AbandonInv'
    BY <1>t DEF AbandonInv, AbandonedRoomCountsDown, Connected
  <1>r. (\E cs : RemoveRoom(cs)) => AbandonInv'
    BY <1>t DEF RemoveRoom, AbandonInv, AbandonedRoomCountsDown
  \* The match starts.
  <1>p. UNCHANGED client /\ absent' = AbsentAfterStart => AbandonInv'
    BY <1>t DEF AbandonInv, AbandonedRoomCountsDown, AbsentAfterStart, Connected
  <1>1. ASSUME NEW p \in Human, JoinMatchmaking(p)
        PROVE  AbandonInv'
    <2> DEFINE joined == MarkMatchedIfFull(MatchNow, players')
    <2>1. joined \in PhaseState /\ joined.match # "started"
      BY <1>1, <1>m, HelpersTyped DEF JoinMatchmaking, CanAcceptMatchmaking, MarkMatchedIfFull, PhaseState
    <2>2. \E a : BecomesMatch([joined EXCEPT !.armed = a])
      BY <1>1 DEF JoinMatchmaking
    <2>3. match' = joined.match
      <3> HIDE DEF joined
      <3>1. QED
        BY <2>1, <2>2 DEF BecomesMatch, PhaseState
    <2>4. QED
      BY <1>1, <1>f, <2>1, <2>3 DEF JoinMatchmaking
  <1>2. ASSUME NEW bs \in SUBSET Bot, NEW m \in PhaseState, m.match = "none",
               AppendBots(bs, m), UNCHANGED <<removed, client, absent>>
        PROVE  AbandonInv'
    <2>1. match' # "started"
      BY <1>2, MatchIsMadeWhenFull DEF AppendBots, BecomesMatch
    <2>2. QED
      BY <1>2, <1>f, <2>1
  <1>3. LET m == [MatchNow EXCEPT !.armed = @ \ {"botFill"}]
        IN  m \in PhaseState /\ m.match = match
    BY <1>m DEF PhaseState
  <1>4. ASSUME NEW bs \in SUBSET Bot, AddBots(bs)
        PROVE  AbandonInv'
    BY <1>2, <1>3, <1>4, <1>m DEF AddBots
  <1>5. CASE FillBots
    <2>1. CASE ~registered \/ removed \/ ending \/ match # "none" \/ "botFill" \notin armed
      BY <1>5, <1>f, <2>1 DEF FillBots
    <2>2. CASE ~(~registered \/ removed \/ ending \/ match # "none" \/ "botFill" \notin armed)
      <3> DEFINE m == [MatchNow EXCEPT !.armed = @ \ {"botFill"}]
      <3>1. \/ BecomesMatch(m)
            \/ \E bs \in SUBSET Bot : AppendBots(bs, m)
        BY <1>5, <2>2 DEF FillBots
      <3>2. m \in PhaseState /\ m.match = "none" /\ UNCHANGED <<removed, client, absent>>
        BY <1>3, <1>5, <2>2 DEF FillBots
      <3> HIDE DEF m
      <3>3. CASE BecomesMatch(m)
        BY <1>f, <3>2, <3>3 DEF BecomesMatch
      <3>4. QED
        BY <1>2, <3>1, <3>2, <3>3
    <2>3. QED
      BY <2>1, <2>2
  <1>6. ASSUME NEW p \in Human, AddPlayer(p) \/ ReserveClient(p) \/ RollbackReservation(p)
        PROVE  AbandonInv'
    BY <1>6, <1>f DEF AddPlayer, ReserveClient, RollbackReservation
  <1>7. ASSUME NEW p \in Human, AttachClient(p)
        PROVE  AbandonInv'
    <2>1. client' = [client EXCEPT ![p] = generation[p] + 1] /\ absent' = "no"
      BY <1>7 DEF AttachClient
    <2>2. p \in Connected'
      BY <1>t, <2>1, SizesAssumption DEF TypeOK, Connected, Gen
    <2>3. QED
      BY <1>t, <2>1, <2>2 DEF AbandonInv, AbandonedRoomCountsDown
  <1>8. ASSUME NEW s \in Session, NEW c \in {"reconnectable", "final"},
               CloseSession(s, c) \/ FinishClose(s)
        PROVE  AbandonInv'
    BY <1>8, <1>f DEF CloseSession, FinishClose
  <1>9. ASSUME NEW s \in Session, ReleaseClient(s)
        PROVE  AbandonInv'
    <2>1. UNCHANGED match
      BY <1>9 DEF ReleaseClient
    <2>2. CASE removed \/ client[s[1]] # s[2]
      BY <1>9, <1>f, <2>1, <2>2 DEF ReleaseClient
    <2>3. CASE ~(removed \/ client[s[1]] # s[2]) /\ PreStartMatch
      BY <1>9, <1>r, <2>3 DEF ReleaseClient
    <2>4. CASE ~(removed \/ client[s[1]] # s[2]) /\ ~PreStartMatch
      <3>1. /\ client' = [client EXCEPT ![s[1]] = 0] /\ UNCHANGED removed
            /\ absent' = IF match = "started" /\ CurrentSessions \ {s} = {}
                         THEN "counting" ELSE absent
        BY <1>9, <2>4 DEF ReleaseClient
      <3>2. s[1] \in Human /\ s[2] # 0
        BY SizesAssumption DEF Session
      <3>3. Connected' = Connected \ {s[1]} /\ s[1] \in Connected
        BY <1>t, <2>4, <3>1, <3>2 DEF Connected, TypeOK
      <3>4. CurrentSessions \ {s} = {} <=> Connected' = {}
        BY <1>t, <2>4, <3>3, OthersAreConnected
      <3>5. QED
        BY <1>t, <2>1, <2>4, <3>1, <3>3, <3>4 DEF AbandonInv, AbandonedRoomCountsDown
    <2>5. QED
      BY <2>2, <2>3, <2>4
  <1>10. ASSUME NEW s \in Session, MarkReady(s)
         PROVE  AbandonInv'
    <2>1. CASE CancelMatch
      BY <1>r, <2>1 DEF CancelMatch
    <2>2. CASE ~CancelMatch
      <3> DEFINE m == [MatchNow EXCEPT !.ready = @ \cup {s[1]}]
      <3>1. m \in PhaseState /\ m.match = match /\ match # "started"
        BY <1>10, <1>m DEF PhaseState, Session, MarkReady, PreStartMatch
      <3>2. BecomesMatch(StartCountdown(m)) \/ BecomesMatch(m)
        BY <1>10, <2>2 DEF MarkReady
      <3> HIDE DEF m
      <3>3. match' # "started"
        BY <3>1, <3>2 DEF BecomesMatch, StartCountdown, PhaseState
      <3>4. QED
        BY <1>10, <1>f, <2>2, <3>3 DEF MarkReady
    <2>3. QED
      BY <2>1, <2>2
  <1>11. CASE ExpireAttachDeadline \/ ExpireReadyDeadline
    <2>1. CancelMatch \/ UNCHANGED <<removed, match, client, absent>>
      BY <1>11 DEF ExpireAttachDeadline, ExpireReadyDeadline
    <2>2. QED
      BY <1>f, <1>r, <2>1 DEF CancelMatch
  <1>12. CASE TickCountdown
    BY <1>12, <1>f, <1>p DEF TickCountdown
  <1>13. CASE DebugStart
    BY <1>13, <1>p DEF DebugStart
  <1>14. CASE DebugDelete \/ ExpireRoom
    BY <1>14, <1>r DEF DebugDelete, ExpireRoom
  <1>15. CASE Unregister \/ TickGame
    BY <1>15, <1>f DEF Unregister, TickGame
  <1>16. CASE FinishGameEnd
    BY <1>16, <1>f, <1>r DEF FinishGameEnd
  <1>17. CASE TTLPasses
    BY <1>17, <1>f, <1>t DEF TTLPasses, AbandonInv, AbandonedRoomCountsDown, Connected
  <1>18. ASSUME (\E t \in Timer : DeadlinePasses(t) \/ Fire(t)) \/ (\E p \in Human : GracePasses(p))
         PROVE  AbandonInv'
    BY <1>18, <1>f DEF DeadlinePasses, Fire, GracePasses
  <1>19. CASE UNCHANGED vars
    BY <1>19, <1>f DEF vars
  <1>20. QED
    BY <1>1, <1>4, <1>5, <1>6, <1>7, <1>8, <1>9, <1>10, <1>11, <1>12, <1>13, <1>14, <1>15,
       <1>16, <1>17, <1>18, <1>19 DEF Next, Handlers, Workers, SessionSteps, Clock

\* A started room runs its disconnected TTL exactly while nobody is connected,
\* whether the last session left before or after the start.
THEOREM AbandonedRoomCountsDownAlways == Spec => []AbandonedRoomCountsDown
  <1>1. Init => AbandonInv
    BY TypeInit DEF Init, AbandonInv, AbandonedRoomCountsDown
  <1>2. AbandonInv => AbandonedRoomCountsDown
    BY DEF AbandonInv
  <1>3. QED
    BY <1>1, <1>2, AbandonStep, PTL DEF Spec
=============================================================================
