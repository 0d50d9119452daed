---------------------------- MODULE RoomLifecycle ----------------------------
(***************************************************************************)
(* One room of internal/rooms from its creation to its removal: players    *)
(* and bots joining, the attach / Ready / countdown phases of a match,     *)
(* WebSocket sessions that attach, break and reconnect within a grace      *)
(* period, simulation ticks, the end of the match, and the ways a room     *)
(* disappears.  Every action is one critical section of room.mu (or one    *)
(* step outside it), so the interleavings of request handlers, timer       *)
(* workers, the janitor and session close paths are those of the code.     *)
(*                                                                         *)
(* A session is <<player, generation>>.  Time is abstract: a deadline is   *)
(* armed, and later becomes due; a worker whose ticker delivered has       *)
(* "fired" and still has to take the lock.                                 *)
(***************************************************************************)
EXTENDS Naturals, FiniteSets, GameEnd

CONSTANTS Human,          \* human player ids
          Bot,            \* bot player ids
          MatchSize,      \* gameConfig.MatchPlayerCount()
          DebugCapacity,  \* gameMap.MaxPlayers
          Countdown,      \* matchCountdownSeconds
          MaxGeneration,  \* bound: connections one player makes
          Mode, Teams, TeamOf

ASSUME SizesAssumption ==
    /\ MatchSize \in Nat \ {0, 1}
    /\ DebugCapacity \in Nat
    /\ Countdown \in Nat \ {0}
    /\ MaxGeneration \in Nat
ASSUME PlayersAssumption == IsFiniteSet(Human) /\ IsFiniteSet(Bot) /\ Human \cap Bot = {}
ASSUME ModeAssumption == Mode \in Modes /\ \A p \in Human \cup Bot : TeamOf[p] \in Teams

VARIABLES
    registered,  \* Store.rooms still maps the room's id to this room
    removed,     \* room.removed
    ending,      \* room.ending
    match,       \* room.matchStatus; "started" is also room.Status = started
    countdown,   \* room.countdown
    players,     \* room.Players
    ready,       \* room.readyPlayers
    client,      \* room.clients: the generation of the player's session, 0 if none
    generation,  \* room.connectionGenerations
    reserved,    \* room.reservations
    phase,       \* how far each session is: absent, open, done, released, closed
    cause,       \* the close cause a session claimed, by what the code makes of it
    doomed,      \* sessions somebody is going to close with a final cause
    grace,       \* room.reconnectGraces: the generation that was lost, 0 if none
    graceDue,    \* players whose grace record has passed its expiresAt
    armed,       \* the room's ticker fields that are not nil
    due,         \* armed one-shot timers whose deadline has passed
    fired,       \* workers that received a tick and have not handled it yet
    idle,        \* waitingRoomIdleTTL passed since lastActivityAt
    absent,      \* disconnectedAt: zero ("no"), set, or disconnectedRoomTTL ago
    dead,        \* players the simulation reports dead
    final,       \* players with a finalizedGameEndResults entry
    endWait,     \* sessions the GameEnd cleanup worker waits for
    cleanup,     \* the GameEnd cleanup worker: none, waiting, done
    forfeited    \* history: players eliminated because their grace expired

matchVars   == <<match, countdown, ready>>
sessionVars == <<generation, phase>>
graceVars   == <<grace, graceDue>>
playVars    == <<dead, final, endWait, cleanup, forfeited>>
roomVars    == <<registered, removed, ending, players>>
vars == <<registered, removed, ending, match, countdown, players, ready, client,
          generation, reserved, phase, cause, doomed, grace, graceDue, armed, due,
          fired, idle, absent, dead, final, endWait, cleanup, forfeited>>

Participant == Human \cup Bot
Gen     == 0..MaxGeneration
Session == Human \X (1..MaxGeneration)
OneShot == {"botFill", "attach", "ready"}
Timer   == OneShot \cup {"countdown", "gameplay"}
\* Mutant: hasPreStartMatch forgets the countdown.
PreStartUntilCountdown == match \in {"matched", "loading"}
PreStartMatch == match \in {"matched", "loading", "starting"}
Humans(ps) == ps \cap Human
Connected  == {p \in Human : client[p] # 0}
CurrentSessions == {s \in Session : client[s[1]] = s[2]}
\* Mutant: the barrier forgets sessions that left room.clients.
BarrierOfOpenSessions == {s \in Session : phase[s] = "open"}
\* Sessions in room.closeBarrierSessions: attached and not yet closeDone.
Barrier == {s \in Session : phase[s] \in {"open", "done", "released"}}

-----------------------------------------------------------------------------
(* The match phase, as one value passed through the code's *Locked helpers. *)

MatchNow == [match |-> match, countdown |-> countdown, ready |-> ready, armed |-> armed]

MarkMatchedIfFull(m, ps) ==
    IF Cardinality(ps) # MatchSize THEN m
    ELSE [m EXCEPT !.match = "matched",
                   !.ready = {},
                   !.armed = IF Humans(ps) = {} THEN @ ELSE @ \cup {"attach"}]

StartCountdown(m) ==
    [m EXCEPT !.match = "starting",
              !.countdown = Countdown,
              !.armed = (@ \ {"ready"}) \cup {"countdown"}]

AllAttached(ps, connected) ==
    /\ Cardinality(ps) = MatchSize
    /\ Humans(ps) # {}
    /\ Humans(ps) \subseteq connected

AllReady(ps, acks) ==
    /\ Cardinality(ps) = MatchSize
    /\ Humans(ps) # {}
    /\ Humans(ps) \subseteq acks

\* Mutant: Loading starts without the Ready deadline.
AdvanceLoadingUnarmed(m, ps, connected) ==
    IF ~(m.match = "matched" /\ AllAttached(ps, connected)) THEN m
    ELSE LET l == [m EXCEPT !.match = "loading", !.armed = @ \ {"attach"}]
         IN  IF AllReady(ps, m.ready) THEN StartCountdown(l) ELSE l

\* advanceMatchLoadingLocked
AdvanceLoading(m, ps, connected) ==
    IF ~(m.match = "matched" /\ AllAttached(ps, connected)) THEN m
    ELSE LET l == [m EXCEPT !.match = "loading", !.armed = @ \ {"attach"}]
         IN  IF AllReady(ps, m.ready) THEN StartCountdown(l)
             ELSE [l EXCEPT !.armed = @ \cup {"ready"}]

\* Mutant: the countdown worker is not stopped.
PlayingKeepsCountdown(m) ==
    [m EXCEPT !.match = "started", !.countdown = 0, !.armed = @ \cup {"gameplay"}]
\* Mutant: no simulation worker.
PlayingWithoutTicker(m) ==
    [m EXCEPT !.match = "started", !.countdown = 0, !.armed = @ \ {"countdown"}]
\* startRoomLocked: the countdown stops and the simulation worker starts.
StartPlaying(m) ==
    [m EXCEPT !.match = "started",
              !.countdown = 0,
              !.armed = (@ \ {"countdown"}) \cup {"gameplay"}]

\* A detached timer has neither a ticker nor a deadline any more.
BecomesMatch(m) ==
    /\ match' = m.match
    /\ countdown' = m.countdown
    /\ ready' = m.ready
    /\ armed' = m.armed
    /\ due' = due \cap m.armed

-----------------------------------------------------------------------------
(* Removal.  removeRoomLocked under room.mu; the registry entry goes in a  *)
(* later step unless the caller also holds Store.mu.                       *)

\* removeRoomLockedWithCause, with the sessions cs still in room.clients: they
\* claim a final cause now and are closed by the caller after it unlocks.
RemoveRoom(cs) ==
    /\ removed' = TRUE
    /\ armed' = {}
    /\ due' = {}
    /\ client' = [p \in Human |-> 0]
    /\ reserved' = {}
    /\ cause' = [s \in Session |->
                   IF s \in cs /\ cause[s] = "none" THEN "final" ELSE cause[s]]
    /\ doomed' = doomed \cup cs

\* deleteRoomIfSame, the second half of every non-atomic removal.
Unregister ==
    /\ removed /\ registered
    /\ registered' = FALSE
    /\ UNCHANGED <<removed, ending, players, matchVars, client, sessionVars, reserved,
                   cause, doomed, graceVars, armed, due, fired, idle, absent, playVars>>

\* Room.isExpired: never while ending, always past the hard lifetime, otherwise
\* only with no client and no reservation, after the TTL of its status.
Expired(hardLifetime) ==
    /\ ~ending
    /\ \/ hardLifetime
       \/ /\ Connected = {} /\ reserved = {}
          /\ IF match = "started" THEN absent = "elapsed" ELSE idle

\* detachExpiredRooms, from the janitor or from a create that met the room cap.
ExpireRoom ==
    /\ registered /\ ~removed
    /\ \E hardLifetime \in BOOLEAN : Expired(hardLifetime)
    /\ RemoveRoom(CurrentSessions)
    /\ UNCHANGED <<registered, ending, players, matchVars, sessionVars, graceVars,
                   fired, idle, absent, playVars>>

\* deleteRoom and clearRooms of the debug API.
DebugDelete ==
    /\ registered /\ ~removed /\ ~ending
    /\ RemoveRoom(CurrentSessions)
    /\ UNCHANGED <<registered, ending, players, matchVars, sessionVars, graceVars,
                   fired, idle, absent, playVars>>

-----------------------------------------------------------------------------
(* Joining. *)

Init ==
    /\ \/ \* createRoom: an empty room
          players = {} /\ armed = {}
       \/ \* createMatchmakingRoom: the first human, and its bot-fill worker
          \E p \in Human : players = {p} /\ armed = {"botFill"}
    /\ registered = TRUE /\ removed = FALSE /\ ending = FALSE
    /\ match = "none" /\ countdown = 0 /\ ready = {}
    /\ client = [p \in Human |-> 0] /\ generation = [p \in Human |-> 0]
    /\ reserved = {}
    /\ phase = [s \in Session |-> "absent"] /\ cause = [s \in Session |-> "none"]
    /\ doomed = {}
    /\ grace = [p \in Human |-> 0] /\ graceDue = {}
    /\ due = {} /\ fired = {}
    /\ idle = FALSE /\ absent = "no"
    /\ dead = {} /\ final = {} /\ endWait = {} /\ cleanup = "none"
    /\ forfeited = {}

\* Mutant: a room that is no longer waiting is joined.
CanAcceptAnyPhase ==
    /\ ~removed /\ ~ending
    /\ Cardinality(players) < DebugCapacity
    /\ Cardinality(players) < MatchSize
\* canAcceptMatchmakingLocked
CanAcceptMatchmaking ==
    /\ ~removed /\ ~ending
    /\ match = "none"
    /\ Cardinality(players) < DebugCapacity
    /\ Cardinality(players) < MatchSize

\* tryJoinMatchmakingRoom.  Only the first human arms the bot fill; a later
\* join that fills the room detaches it.
JoinMatchmaking(p) ==
    /\ CanAcceptMatchmaking
    /\ p \in Human \ players
    /\ players' = players \cup {p}
    /\ LET first  == Humans(players) = {}
           joined == MarkMatchedIfFull(MatchNow, players')
       IN  BecomesMatch([joined EXCEPT !.armed =
               IF joined.match = "matched"
               THEN IF first THEN @ ELSE @ \ {"botFill"}
               ELSE IF first THEN @ \cup {"botFill"} ELSE @])
    /\ idle' = FALSE
    /\ UNCHANGED <<registered, removed, ending, client, sessionVars, reserved, cause,
                   doomed, graceVars, fired, absent, playVars>>

\* Mutant: addPlayer does not look at the match.
OpenForDebugPlayerAnytime == ~removed /\ ~ending /\ Cardinality(players) < DebugCapacity
OpenForDebugPlayer ==
    /\ ~removed /\ ~ending
    /\ match = "none"
    /\ Cardinality(players) < DebugCapacity

\* addPlayer of the debug API: up to the map's capacity, and without a match.
AddPlayer(p) ==
    /\ OpenForDebugPlayer
    /\ p \in Human \ players
    /\ players' = players \cup {p}
    /\ idle' = FALSE
    /\ UNCHANGED <<registered, removed, ending, matchVars, client, sessionVars, reserved,
                   cause, doomed, graceVars, armed, due, fired, absent, playVars>>

\* appendReservedBotsLocked and the match helpers that follow it.
AppendBots(bs, m) ==
    /\ players' = players \cup bs
    /\ BecomesMatch(AdvanceLoading(MarkMatchedIfFull(m, players'), players', Connected))
    /\ idle' = FALSE

\* addBots of the debug API; an id or character error changes nothing.
AddBots(bs) ==
    /\ bs # {} /\ bs \subseteq Bot \ players
    /\ registered /\ ~removed /\ ~ending
    /\ match = "none"
    /\ Cardinality(players) + Cardinality(bs) <= MatchSize
    /\ AppendBots(bs, IF Cardinality(players) + Cardinality(bs) = MatchSize
                      THEN [MatchNow EXCEPT !.armed = @ \ {"botFill"}] ELSE MatchNow)
    /\ UNCHANGED <<registered, removed, ending, client, sessionVars, reserved, cause,
                   doomed, graceVars, fired, absent, playVars>>

\* fillMatchmakingBots, the handler of the bot-fill worker.  It runs once: an
\* id or character error leaves the room waiting with no worker, and so does a
\* room the debug API filled past the match size.
FillBots ==
    /\ "botFill" \in fired
    /\ fired' = fired \ {"botFill"}
    /\ IF ~registered \/ removed \/ ending \/ match # "none" \/ "botFill" \notin armed
       THEN UNCHANGED <<players, matchVars, armed, due, idle>>
       ELSE LET m == [MatchNow EXCEPT !.armed = @ \ {"botFill"}]
            IN  \/ \* reserveBotIDsLocked or chooseBotCharacters fails
                   /\ Cardinality(players) < MatchSize
                   /\ BecomesMatch(m)
                   /\ UNCHANGED <<players, idle>>
                \/ /\ Cardinality(players) > MatchSize
                   /\ BecomesMatch(m)
                   /\ UNCHANGED <<players, idle>>
                \/ \E bs \in SUBSET (Bot \ players) :
                     /\ Cardinality(players) + Cardinality(bs) = MatchSize
                     /\ AppendBots(bs, m)
    /\ UNCHANGED <<registered, removed, ending, client, sessionVars, reserved, cause,
                   doomed, graceVars, absent, playVars>>

-----------------------------------------------------------------------------
(* Sessions. *)

\* Mutant: only the worker enforces the deadline.
AttachDeadlineIgnored == FALSE
\* Both reserveClient and attachClientSession refuse a matched room whose
\* attach deadline has passed, even if its worker has not run yet.
AttachDeadlinePassed == match = "matched" /\ "attach" \in due

\* Mutants of the checks on a connection attempt.
ConnectionIgnored(p) == FALSE
ResultIgnored(p) == FALSE
HasConnection(p) == client[p] # 0
HasFinalResult(p) == p \in final

\* reserveClient
ReserveClient(p) ==
    /\ ~removed /\ ~ending
    /\ ~AttachDeadlinePassed
    /\ p \in Humans(players)
    /\ ~HasFinalResult(p)
    /\ ~HasConnection(p)
    /\ p \notin reserved
    /\ reserved' = reserved \cup {p}
    /\ UNCHANGED <<roomVars, matchVars, client, sessionVars, cause, doomed, graceVars,
                   armed, due, fired, idle, absent, playVars>>

\* rollbackClientReservation: the upgrade failed, or the attach was refused.
RollbackReservation(p) ==
    /\ p \in reserved
    /\ reserved' = reserved \ {p}
    /\ UNCHANGED <<roomVars, matchVars, client, sessionVars, cause, doomed, graceVars,
                   armed, due, fired, idle, absent, playVars>>

\* Mutant: the pending grace survives a reconnect.
GraceKeptByAttach(p) == grace
GraceAfterAttach(p) == [grace EXCEPT ![p] = 0]

\* attachClientSession: a new generation supersedes the pending grace.
AttachClient(p) ==
    LET g == generation[p] + 1 IN
    /\ p \in reserved
    /\ ~removed /\ ~ending
    /\ ~HasFinalResult(p)
    /\ ~AttachDeadlinePassed
    /\ g <= MaxGeneration
    /\ grace' = GraceAfterAttach(p)
    /\ graceDue' = graceDue \ {p}
    /\ generation' = [generation EXCEPT ![p] = g]
    /\ client' = [client EXCEPT ![p] = g]
    /\ phase' = [phase EXCEPT ![<<p, g>>] = "open"]
    /\ reserved' = reserved \ {p}
    /\ BecomesMatch(AdvanceLoading(MatchNow, players, Connected \cup {p}))
    /\ idle' = FALSE
    /\ absent' = "no"
    /\ UNCHANGED <<roomVars, cause, doomed, fired, playVars>>

\* closeWithCause: the first cause claimed stays.  A peer close, a read, write
\* or ping failure or a control overflow may happen to any open session; the
\* final causes are given by whoever removed the room or ended the match.
CloseSession(s, c) ==
    /\ phase[s] = "open"
    /\ c = "final" => s \in doomed
    /\ phase' = [phase EXCEPT ![s] = "done"]
    /\ cause' = [cause EXCEPT ![s] = IF @ = "none" THEN c ELSE @]
    /\ UNCHANGED <<roomVars, matchVars, client, generation, reserved, doomed, graceVars,
                   armed, due, fired, idle, absent, playVars>>

\* releaseClient, the onClose callback of a session.
ReleaseClient(s) ==
    LET p == s[1]
        others == CurrentSessions \ {s}
    IN
    /\ phase[s] = "done"
    /\ phase' = [phase EXCEPT ![s] = "released"]
    /\ IF removed \/ client[p] # s[2]
       THEN UNCHANGED <<removed, ready, client, reserved, cause, doomed, graceVars,
                        armed, due, absent>>
       ELSE /\ ready' = ready \ {p}
            /\ IF match = "started" /\ ~ending /\ cause[s] = "reconnectable"
                  /\ s[2] = generation[p]
               THEN grace' = [grace EXCEPT ![p] = s[2]] /\ graceDue' = graceDue \ {p}
               ELSE UNCHANGED graceVars
            /\ IF PreStartMatch
               THEN RemoveRoom(others) /\ UNCHANGED absent
               ELSE /\ client' = [client EXCEPT ![p] = 0]
                    /\ absent' = IF match = "started" /\ others = {}
                                 THEN "counting" ELSE absent
                    /\ UNCHANGED <<removed, reserved, cause, doomed, armed, due>>
    /\ UNCHANGED <<registered, ending, players, match, countdown, generation, fired,
                   idle, playVars>>

\* The transport is closed: closeDone, and monitorClientSession takes the
\* session out of the close barrier.
FinishClose(s) ==
    /\ phase[s] = "released"
    /\ phase' = [phase EXCEPT ![s] = "closed"]
    /\ UNCHANGED <<roomVars, matchVars, client, generation, reserved, cause, doomed,
                   graceVars, armed, due, fired, idle, absent, playVars>>

-----------------------------------------------------------------------------
(* Ready, deadlines and the countdown. *)

\* expireReadyDeadline and the late branch of markClientReady hold Store.mu and
\* room.mu, so the registry entry goes with the room.
CancelMatch ==
    /\ RemoveRoom(CurrentSessions)
    /\ registered' = FALSE
    /\ UNCHANGED <<ending, players, matchVars, sessionVars, graceVars, idle, absent,
                   playVars>>

\* readyDeadlineExpiredLocked: the absolute boundary, whether or not its worker ran.
ReadyDeadlineExpired == match = "loading" /\ "ready" \in armed \cap due

\* markClientReady, called by the read loop of session s.
MarkReady(s) ==
    LET p == s[1] IN
    /\ registered /\ ~removed
    /\ p \in players /\ client[p] = s[2]
    /\ PreStartMatch
    /\ \/ /\ ~ending /\ ReadyDeadlineExpired
          /\ CancelMatch
       \/ /\ ending \/ ~ReadyDeadlineExpired
          /\ LET m == [MatchNow EXCEPT !.ready = @ \cup {p}]
             IN  BecomesMatch(IF match = "loading" /\ AllReady(players, m.ready)
                              THEN StartCountdown(m) ELSE m)
          /\ idle' = FALSE
          /\ UNCHANGED <<roomVars, client, sessionVars, reserved, cause, doomed,
                         graceVars, absent, playVars>>
    /\ UNCHANGED fired

\* expireMatchedAttachDeadline
ExpireAttachDeadline ==
    /\ "attach" \in fired
    /\ fired' = fired \ {"attach"}
    /\ IF /\ registered /\ ~removed /\ ~ending
          /\ match = "matched" /\ "attach" \in armed \cap due
       THEN CancelMatch
       ELSE UNCHANGED <<roomVars, matchVars, client, sessionVars, reserved, cause,
                        doomed, graceVars, armed, due, idle, absent, playVars>>

\* expireReadyDeadline
ExpireReadyDeadline ==
    /\ "ready" \in fired
    /\ fired' = fired \ {"ready"}
    /\ IF registered /\ ~removed /\ ~ending /\ ReadyDeadlineExpired
       THEN CancelMatch
       ELSE UNCHANGED <<roomVars, matchVars, client, sessionVars, reserved, cause,
                        doomed, graceVars, armed, due, idle, absent, playVars>>

\* Mutant: a start never begins the disconnected TTL.
AbsentAfterStartNever == "no"
AbsentAfterStart == IF Connected = {} THEN "counting" ELSE "no"

\* tickMatchCountdownRoom
TickCountdown ==
    /\ "countdown" \in fired
    /\ fired' = fired \ {"countdown"}
    /\ IF removed \/ "countdown" \notin armed \/ match # "starting"
       THEN UNCHANGED <<matchVars, armed, due, idle, absent>>
       ELSE IF countdown > 1
       THEN /\ countdown' = countdown - 1
            /\ idle' = FALSE
            /\ UNCHANGED <<match, ready, armed, due, absent>>
       ELSE /\ BecomesMatch(StartPlaying(MatchNow))
            /\ idle' = FALSE
            /\ absent' = AbsentAfterStart
    /\ UNCHANGED <<roomVars, client, sessionVars, reserved, cause, doomed, graceVars,
                   playVars>>

\* startRoom of the debug API, at any phase and also on a started room.
DebugStart ==
    /\ registered /\ ~removed /\ ~ending
    /\ players # {}
    /\ BecomesMatch(StartPlaying([MatchNow EXCEPT !.armed = @ \ OneShot]))
    /\ idle' = FALSE
    /\ absent' = AbsentAfterStart
    /\ UNCHANGED <<roomVars, client, sessionVars, reserved, cause, doomed, graceVars,
                   fired, playVars>>

-----------------------------------------------------------------------------
(* The running match. *)

\* expiredReconnectPlayersLocked: records that are due, and the players among
\* them whose lost generation is still the current one.
LapsedGraces == {p \in Humans(players) : grace[p] # 0 /\ p \in graceDue}
Forfeits == {p \in LapsedGraces : grace[p] = generation[p]}

\* Mutant: nobody closes the sessions of decided players.
LeaveSessionsOpen(over, decided) == {}
\* Who gets the terminal handoff of GameEnd, or is closed with the match.
SessionsToClose(over, decided) ==
    IF over THEN Barrier ELSE {s \in CurrentSessions : s[1] \in decided}

\* tickRoomState.  hits are the players that combat kills in this tick.  The
\* sessions of newly decided players get the terminal snapshot and GameEnd and
\* are then closed; at the end of the match every other session is closed too.
TickGame ==
    /\ "gameplay" \in fired
    /\ fired' = fired \ {"gameplay"}
    /\ \/ /\ removed \/ ending \/ match # "started"
          /\ UNCHANGED <<ending, doomed, graceVars, armed, due, playVars>>
       \/ /\ ~removed /\ ~ending /\ match = "started"
          /\ \E hits \in SUBSET (players \ dead) :
               LET casualties == dead \cup Forfeits \cup hits
                   decided == final \cup DOMAIN Results(Mode, players, casualties, TeamOf, Teams)
                   over == ShouldEnd(Mode, players, casualties, TeamOf, Teams)
               IN
               /\ dead' = casualties
               /\ final' = decided
               /\ ending' = over
               /\ armed' = IF over THEN armed \ {"gameplay"} ELSE armed
               /\ doomed' = doomed \cup SessionsToClose(over, decided \ final)
               /\ endWait' = IF over THEN Barrier ELSE {}
               /\ cleanup' = IF over THEN "waiting" ELSE "none"
          /\ forfeited' = forfeited \cup Forfeits
          /\ grace' = [p \in Human |-> IF p \in LapsedGraces THEN 0 ELSE grace[p]]
          /\ graceDue' = graceDue \ LapsedGraces
          /\ UNCHANGED due
    /\ UNCHANGED <<registered, removed, players, matchVars, client, sessionVars, reserved,
                   cause, idle, absent>>

\* The worker of scheduleGameEndCleanup: it waits for closeDone of every
\* captured session, then finishGameEnd removes the room and its registration.
FinishGameEnd ==
    /\ cleanup = "waiting"
    /\ \A s \in endWait : phase[s] = "closed"
    /\ cleanup' = "done"
    /\ IF registered /\ ~removed /\ ending
       THEN RemoveRoom(CurrentSessions) /\ registered' = FALSE
       ELSE UNCHANGED <<registered, removed, armed, due, client, reserved, cause, doomed>>
    /\ UNCHANGED <<ending, players, matchVars, sessionVars, graceVars, fired, idle,
                   absent, dead, final, endWait, forfeited>>

-----------------------------------------------------------------------------
(* The clock. *)

\* A one-shot deadline passes.
DeadlinePasses(t) ==
    /\ t \in armed \cap OneShot
    /\ t \notin due
    /\ due' = due \cup {t}
    /\ UNCHANGED <<roomVars, matchVars, client, sessionVars, reserved, cause, doomed,
                   graceVars, armed, fired, idle, absent, playVars>>

\* A ticker delivers to its worker, which has not taken the lock yet.
Fire(t) ==
    /\ t \in armed
    /\ t \notin fired
    /\ t \in OneShot => t \in due
    /\ fired' = fired \cup {t}
    /\ UNCHANGED <<roomVars, matchVars, client, sessionVars, reserved, cause, doomed,
                   graceVars, armed, due, idle, absent, playVars>>

GracePasses(p) ==
    /\ ~removed
    /\ grace[p] # 0 /\ p \notin graceDue
    /\ graceDue' = graceDue \cup {p}
    /\ UNCHANGED <<roomVars, matchVars, client, sessionVars, reserved, cause, doomed,
                   grace, armed, due, fired, idle, absent, playVars>>

\* The room TTLs (5 and 10 minutes) are longer than every deadline (10 to 30 s).
TTLPasses ==
    /\ ~removed /\ ~ending
    /\ IF match = "started"
       THEN /\ absent = "counting"
            /\ \A p \in Human : grace[p] # 0 => p \in graceDue
            /\ absent' = "elapsed"
            /\ UNCHANGED idle
       ELSE /\ ~idle /\ armed \subseteq due
            /\ idle' = TRUE
            /\ UNCHANGED absent
    /\ UNCHANGED <<roomVars, matchVars, client, sessionVars, reserved, cause, doomed,
                   graceVars, armed, due, fired, playVars>>

-----------------------------------------------------------------------------

Handlers ==
    \/ \E p \in Human : \/ JoinMatchmaking(p) \/ AddPlayer(p)
                        \/ ReserveClient(p) \/ RollbackReservation(p) \/ AttachClient(p)
    \/ \E bs \in SUBSET Bot : AddBots(bs)
    \/ \E s \in Session : MarkReady(s)
    \/ DebugStart \/ DebugDelete

Workers ==
    \/ FillBots \/ ExpireAttachDeadline \/ ExpireReadyDeadline \/ TickCountdown
    \/ TickGame \/ FinishGameEnd \/ ExpireRoom \/ Unregister

SessionSteps ==
    \E s \in Session : \/ \E c \in {"reconnectable", "final"} : CloseSession(s, c)
                       \/ ReleaseClient(s)
                       \/ FinishClose(s)

Clock ==
    \/ \E t \in Timer : DeadlinePasses(t) \/ Fire(t)
    \/ \E p \in Human : GracePasses(p)
    \/ TTLPasses

Next == Handlers \/ Workers \/ SessionSteps \/ Clock

Spec == Init /\ [][Next]_vars
-----------------------------------------------------------------------------
(* Correctness. *)

TypeOK ==
    /\ registered \in BOOLEAN /\ removed \in BOOLEAN /\ ending \in BOOLEAN
    /\ match \in {"none", "matched", "loading", "starting", "started"}
    /\ countdown \in 0..Countdown
    /\ players \in SUBSET Participant
    /\ ready \in SUBSET Human
    /\ client \in [Human -> Gen]
    /\ generation \in [Human -> Gen]
    /\ reserved \in SUBSET Human
    /\ phase \in [Session -> {"absent", "open", "done", "released", "closed"}]
    /\ cause \in [Session -> {"none", "reconnectable", "final"}]
    /\ doomed \in SUBSET Session
    /\ grace \in [Human -> Gen]
    /\ graceDue \in SUBSET Human
    /\ armed \in SUBSET Timer
    /\ due \in SUBSET (armed \cap OneShot)
    /\ fired \in SUBSET Timer
    /\ idle \in BOOLEAN
    /\ absent \in {"no", "counting", "elapsed"}
    /\ dead \in SUBSET players
    /\ final \in SUBSET players
    /\ endWait \in SUBSET Session
    /\ cleanup \in {"none", "waiting", "done"}
    /\ forfeited \in SUBSET Human

\* While the room lives, an open session, or one whose close is not yet released,
\* is the player's current one: no reconnect ever overlaps the old session, so a
\* late releaseClient can never drop its successor.
OneLiveSession ==
    ~removed => \A s \in Session : phase[s] \in {"open", "done"} => client[s[1]] = s[2]

\* A reconnect grace is pending only for a player of a started match who has no
\* session, and for the generation that was lost last: a player who is back is
\* never eliminated for an old disconnect.
GraceMeansAbsent ==
    \A p \in Human : grace[p] # 0 =>
        client[p] = 0 /\ grace[p] = generation[p] /\ match = "started"

\* Every phase of a live room is driven by exactly the worker that can end it,
\* and a removed room has none left (armXLocked / detachXLocked are balanced);
\* nothing leaves its type on the way.
TimersMatchPhase ==
    /\ TypeOK
    /\ removed => armed = {}
    /\ ~removed => /\ "attach" \in armed <=> match = "matched" /\ Humans(players) # {}
                   /\ "ready" \in armed <=> match = "loading"
                   /\ "countdown" \in armed <=> match = "starting"
                   /\ "gameplay" \in armed <=> match = "started" /\ ~ending
                   /\ "botFill" \in armed => match = "none"

\* From Loading on, every human of the match is connected, and from Starting on
\* every human has acknowledged Ready: a disconnect before the start cancels.
PresentUntilPlay ==
    ~removed /\ match \in {"loading", "starting"} =>
        /\ Humans(players) \subseteq Connected
        /\ match = "starting" => Humans(players) \subseteq ready

\* A match is made for exactly MatchSize players, whatever joins, debug adds and
\* bot fills race for the last seats.
RosterExact == PreStartMatch => Cardinality(players) = MatchSize

\* The disconnected-room TTL of a started room runs exactly while nobody is
\* connected: an abandoned match is always reclaimed, a played one never is.
AbandonedRoomCountsDown ==
    ~removed /\ match = "started" => (Connected = {} <=> absent # "no")

\* When a match is over, every player of the room has a final result.
EndedMeansDecided == ending => final = players

\* A player with a final result never gets another session in this room, even
\* one whose reservation was taken before the result (reserve, decide, attach).
NoReattachAfterFinal == [][\A p \in Humans(final) : client'[p] \in {0, client[p]}]_vars

\* A room whose match ended is removed only once every session it ever had is
\* closed, so that no GameEnd is cut off: neither expiry nor the debug API nor a
\* disconnect takes it away earlier.
EndWaitsForSessions ==
    [][ending /\ ~removed /\ removed' =>
         \A s \in Session : phase[s] \in {"absent", "closed"}]_vars

\* Only a player who has no session, and whose grace has passed, is forfeited.
ForfeitsAreDue == \A p \in forfeited' \ forfeited : client[p] = 0 /\ p \in graceDue

\* A deadline is a deadline even when its worker is late: once it has passed,
\* neither an attach nor a Ready ACK moves the match on.
DeadlinesAreFinal ==
    /\ match = "matched" /\ match' \in {"loading", "starting"} => "attach" \notin due
    /\ match = "loading" /\ match' = "starting" => "ready" \notin due

\* No time limit is cut short by a worker that comes early, nor overrun because
\* its worker comes late: neither the reconnect grace nor the two deadlines.
TimeLimitsHold == [][ForfeitsAreDue /\ DeadlinesAreFinal]_vars

\* The room implements the phases it promises (MatchPhase).
AbstractPhase ==
    IF removed THEN "gone" ELSE IF ending THEN "ended"
    ELSE CASE match = "none" -> "gathering"
           [] match = "started" -> "playing"
           [] OTHER -> match
FullRoster == {r \in SUBSET Participant : Cardinality(r) = MatchSize}
Promise == INSTANCE MatchPhase WITH Player <- Participant, phase <- AbstractPhase,
                                    roster <- players
ImplementsMatchPhase == Promise!Spec

-----------------------------------------------------------------------------
(* Progress.  Workers run, sessions that are being closed finish closing     *)
(* (every close step is bounded by a timeout), and time passes; a request    *)
(* handler that holds a reservation attaches or rolls back.  Nothing is      *)
(* assumed of clients, operators, or the janitor.                            *)

Fairness ==
    /\ WF_vars(FillBots) /\ WF_vars(ExpireAttachDeadline) /\ WF_vars(ExpireReadyDeadline)
    /\ WF_vars(TickCountdown) /\ WF_vars(TickGame) /\ WF_vars(FinishGameEnd)
    /\ WF_vars(Unregister)
    /\ \A t \in Timer : WF_vars(DeadlinePasses(t)) /\ WF_vars(Fire(t))
    /\ \A p \in Human : WF_vars(GracePasses(p)) /\ WF_vars(RollbackReservation(p))
    /\ \A s \in Session : /\ WF_vars(CloseSession(s, "final"))
                          /\ WF_vars(ReleaseClient(s)) /\ WF_vars(FinishClose(s))

FairSpec == Spec /\ Fairness

\* A made match with a human in it is played or given up: nobody waits forever
\* for a player who never attaches or never acknowledges.
MatchResolves ==
    (~removed /\ PreStartMatch /\ Humans(players) # {}) ~> (removed \/ match = "started")

\* A finished match leaves the registry.
EndedRoomIsReleased == ending ~> ~registered

\* A lost player comes back, is forfeited, or the match is over.
GraceResolves ==
    \A p \in Human : (grace[p] # 0) ~> (grace[p] = 0 \/ ending \/ removed)
=============================================================================
