---------------------------- MODULE Matchmaking ----------------------------
(***************************************************************************)
(* Joining a match: the search of the registered rooms, the room a join    *)
(* opens when none accepts it, the room cap and the expired rooms evicted  *)
(* for it, the bot fill, player ids, and the debug requests that run       *)
(* beside it (src/internal/rooms/store.go, cleanup.go).                    *)
(*                                                                         *)
(* Joins and bot fills are serialised by matchmakingMu.  Everything else   *)
(* only takes Store.mu or a room's mutex, one section at a time, so each   *)
(* action is one such section and what a join read in an earlier section   *)
(* may no longer be true.  Shutdown is StoreShutdown's subject, what       *)
(* happens in a room after the match is made RoomLifecycle's.              *)
(***************************************************************************)
EXTENDS Naturals, FiniteSets, Sequences

CONSTANTS
    Joins,          \* joinMatchmakingRequest calls
    Creators,       \* debug createRoom calls
    Adders,         \* debug addPlayer calls
    Debug,          \* what else the debug API does: "bots", "start"
    Modes, DefaultMode, \* game modes; the one of a debug room
    Size,           \* MatchPlayerCount of a mode
    DebugCapacity,  \* debugRoomCapacity: the spawn points of the map
    MaxRooms,       \* maxActiveRooms
    Slots,          \* bound: rooms that are ever created
    None

ASSUME CallersAssumption ==
    /\ Joins \cap Creators = {} /\ Joins \cap Adders = {} /\ Creators \cap Adders = {}
    /\ None \notin Joins \cup Creators \cup Adders
ASSUME DebugAssumption == Debug \subseteq {"bots", "start"}
ASSUME ModesAssumption == DefaultMode \in Modes /\ Size \in [Modes -> Nat \ {0}]
ASSUME CapacityAssumption == DebugCapacity \in Nat \ {0} /\ MaxRooms \in Nat \ {0}
ASSUME BoundsAssumption ==
    /\ IsFiniteSet(Joins \cup Creators)
    /\ Slots \in Nat /\ Cardinality(Joins \cup Creators) <= Slots

VARIABLES
    mu,         \* the join that holds matchmakingMu
    playerIDs,  \* Store.playerIDs
    room,       \* every room; "matched" stands for every status after waiting
    call        \* how far each call is

vars == <<mu, playerIDs, room, call>>

Callers == Joins \cup Creators \cup Adders
Room == 1..Slots
Bot == "bot"

\* what holds a seat or a player id is a caller or a bot, never both
ASSUME HoldersAssumption == \A c \in Callers : c # Bot /\ c \notin Room \X Nat

Unused == [stage |-> "none", mode |-> DefaultMode, opener |-> "debug",
           seats |-> <<>>, phase |-> "waiting", fill |-> "none"]
Idle == [at |-> "idle", mode |-> DefaultMode, left |-> {}, target |-> 0,
         issued |-> FALSE, tries |-> 0, excused |-> {}, result |-> "none"]
Answer(result) == [Idle EXCEPT !.at = "answered", !.result = result]

\* in Store.rooms until unregistered
Registered == {r \in Room : room[r].stage \in {"live", "marked"}}

\* A player id, by who holds it: uniquePlayerIDLocked draws until it finds one
\* that is not in use, so no two holders are given the same.
IdAt(r, seats, i) == IF seats[i] = Bot THEN <<r, i>> ELSE seats[i]
SeatsOf(c) == UNION {{<<r, i>> : i \in {k \in DOMAIN room[r].seats : room[r].seats[k] = c}} : r \in Room}
SitsIn(c, r) == \E i \in DOMAIN room[r].seats : room[r].seats[i] = c
IdsOf(r, seats) == {IdAt(r, seats, i) : i \in DOMAIN seats}

Humans(rm) == {i \in DOMAIN rm.seats : rm.seats[i] # Bot}
IsFull(rm) == Len(rm.seats) = Size[rm.mode]

Init ==
    /\ mu = None /\ playerIDs = {}
    /\ room = [r \in Room |-> Unused]
    /\ call = [c \in Callers |-> Idle]

(***************************************************************************)
(* Rooms as values: what a section under room.mu makes of one.             *)
(***************************************************************************)
CanAccept(rm) ==
    /\ rm.stage = "live" /\ rm.phase = "waiting"
    /\ Len(rm.seats) < DebugCapacity /\ Len(rm.seats) < Size[rm.mode]

MarkMatchedIfFull(rm) == IF IsFull(rm) THEN [rm EXCEPT !.phase = "matched"] ELSE rm

\* Mutant of ArmBotFill: nobody starts the worker.
ArmNothing(rm) == rm

\* the one-shot fill worker, for the first human of a room that still waits
ArmBotFill(rm) ==
    IF rm.phase = "waiting" /\ Cardinality(Humans(rm)) = 1 /\ rm.fill # "armed"
    THEN [rm EXCEPT !.fill = "armed"] ELSE rm

DetachBotFill(rm) == [rm EXCEPT !.fill = IF @ = "armed" THEN "none" ELSE @]

WithSeats(rm, seats) == MarkMatchedIfFull([rm EXCEPT !.seats = @ \o seats])

Bots(n) == [i \in 1..n |-> Bot]
BotIds(r, n) == {<<r, Len(room[r].seats) + i>> : i \in 1..n}

Joined(rm, player) ==
    LET after == WithSeats(rm, <<player>>) IN
    IF Humans(rm) = {} THEN ArmBotFill(after)
    ELSE IF IsFull(after) THEN DetachBotFill(after) ELSE after

(***************************************************************************)
(* Removal, by a debug delete, the janitor, a deadline, a disconnect, the  *)
(* end of the game or a call at the cap: mark under room.mu, unregister    *)
(* under Store.mu, then give the ids back.                                 *)
(***************************************************************************)
Marked(r) == [room EXCEPT ![r] = [DetachBotFill(@) EXCEPT !.stage = "marked"]]

Remove(r) ==
    /\ room[r].stage = "live"
    /\ room' = Marked(r)
    /\ UNCHANGED <<mu, playerIDs, call>>

Unregister(r) ==
    /\ room[r].stage = "marked"
    /\ room' = [room EXCEPT ![r].stage = "unregistered"]
    /\ UNCHANGED <<mu, playerIDs, call>>

ReleaseRoomIds(r) ==
    /\ room[r].stage = "unregistered"
    /\ playerIDs' = playerIDs \ IdsOf(r, room[r].seats)
    /\ room' = [room EXCEPT ![r] = [Unused EXCEPT !.stage = "gone"]]
    /\ UNCHANGED <<mu, call>>

(***************************************************************************)
(* joinMatchmakingLocked.                                                  *)
(***************************************************************************)
Leave(c) == mu' = IF mu = c THEN None ELSE mu

\* Mutant of StartJoin: joins run side by side.
StartAnyJoin(q) ==
    /\ call[q].at = "idle"
    /\ \E mode \in Modes :
          call' = [call EXCEPT ![q] = [Idle EXCEPT !.at = "scan", !.mode = mode, !.left = Registered]]
    /\ UNCHANGED <<mu, playerIDs, room>>

\* the lock, then registeredRooms
StartJoin(q) ==
    /\ mu = None /\ call[q].at = "idle"
    /\ mu' = q
    /\ \E mode \in Modes :
          call' = [call EXCEPT ![q] = [Idle EXCEPT !.at = "scan", !.mode = mode, !.left = Registered]]
    /\ UNCHANGED <<playerIDs, room>>

\* one room of the snapshot, in map order
Look(q) ==
    /\ call[q].at = "scan"
    /\ \E r \in call[q].left :
          call' = IF room[r].mode = call[q].mode /\ CanAccept(room[r])
                  THEN [call EXCEPT ![q].at = IF call[q].issued THEN "try" ELSE "issue",
                                    ![q].target = r, ![q].left = @ \ {r}]
                  ELSE [call EXCEPT ![q].left = @ \ {r}]
    /\ UNCHANGED <<mu, playerIDs, room>>

IssueCredentials(q) ==
    /\ call[q].at = "issue"
    /\ \/ /\ playerIDs' = playerIDs \cup {q}
          /\ call' = [call EXCEPT ![q] = [@ EXCEPT !.at = "try", !.issued = TRUE]]
          /\ UNCHANGED mu
       \/ /\ call' = [call EXCEPT ![q] = Answer("error")]
          /\ Leave(q)
          /\ UNCHANGED playerIDs
    /\ UNCHANGED room

\* the room is looked at again: it may have filled or gone since
TryJoinRoom(q) ==
    /\ call[q].at = "try"
    /\ LET r == call[q].target IN
       IF CanAccept(room[r])
       THEN /\ room' = [room EXCEPT ![r] = Joined(@, q)]
            /\ call' = [call EXCEPT ![q] = Answer("joined")]
            /\ Leave(q)
       ELSE /\ call' = [call EXCEPT ![q] = [@ EXCEPT !.at = "scan", !.target = 0]]
            /\ UNCHANGED <<mu, room>>
    /\ UNCHANGED playerIDs

(***************************************************************************)
(* A new room, for a join or a debug create: one section of Store.mu.  At  *)
(* the cap the expired rooms are evicted and the creation is tried once    *)
(* more.  A join that fails gives its credentials back.                    *)
(***************************************************************************)
FirstUnused == CHOOSE r \in Room : room[r].stage = "none" /\ \A other \in 1..(r - 1) : room[other].stage # "none"

Refuse(c, result) ==
    IF call[c].issued
    THEN call' = [call EXCEPT ![c] = [@ EXCEPT !.at = "release", !.result = result]] /\ UNCHANGED mu
    ELSE call' = [call EXCEPT ![c] = Answer(result)] /\ Leave(c)

\* Mutant of AtCap: nothing is evicted.
AtCapAtOnce(c) ==
    /\ Cardinality(Registered) >= MaxRooms
    /\ Refuse(c, "cap")
    /\ UNCHANGED <<playerIDs, room>>

AtCap(c) ==
    /\ Cardinality(Registered) >= MaxRooms
    /\ IF call[c].tries = 0
       THEN call' = [call EXCEPT ![c] = [@ EXCEPT !.at = "full", !.tries = 1]] /\ UNCHANGED mu
       ELSE Refuse(c, "cap")
    /\ UNCHANGED <<playerIDs, room>>

OpenRoom(c) ==
    /\ Cardinality(Registered) < MaxRooms
    /\ LET opened == [Unused EXCEPT !.stage = "live"]
           ours == [opened EXCEPT !.mode = call[c].mode, !.opener = "match"]
       IN room' = [room EXCEPT ![FirstUnused] = IF c \in Joins THEN Joined(ours, c) ELSE opened]
    /\ playerIDs' = IF c \in Joins THEN playerIDs \cup {c} ELSE playerIDs
    /\ call' = [call EXCEPT ![c] = Answer("joined")]
    /\ Leave(c)

\* no room id, or no player id, could be drawn
OpenFails(c) ==
    /\ Cardinality(Registered) < MaxRooms
    /\ Refuse(c, "error")
    /\ UNCHANGED <<playerIDs, room>>

CreateRoom(c) ==
    /\ \/ call[c].at = "scan" /\ call[c].left = {}
       \/ c \in Creators /\ call[c].at = "idle"
       \/ call[c].at = "retry"
    /\ AtCap(c) \/ OpenRoom(c) \/ OpenFails(c)

Release(c) ==
    /\ call[c].at = "release"
    /\ playerIDs' = playerIDs \ {c}
    /\ call' = [call EXCEPT ![c] = Answer(@.result)]
    /\ Leave(c)
    /\ UNCHANGED room

(***************************************************************************)
(* detachExpiredRooms for a call at the cap.  isExpired reads clocks and   *)
(* connections this module does not have: the room is expired or it is     *)
(* not.  `excused` remembers the rooms this call had no reason to evict:   *)
(* not yet open when it began to look, or found unexpired.                 *)
(***************************************************************************)
StartEviction(c) ==
    /\ call[c].at = "full"
    /\ call' = [call EXCEPT ![c] = 
          [@ EXCEPT !.at = "evict", !.left = Registered, !.target = 0,
                    !.excused = {r \in Room : room[r].stage = "none"}]]
    /\ UNCHANGED <<mu, playerIDs, room>>

\* the room evicted last is unregistered and its ids are given back
EvictedLast(c) == call[c].target \in Room => room[call[c].target].stage = "gone"

Evict(c) ==
    /\ call[c].at = "evict" /\ EvictedLast(c)
    /\ \E r \in call[c].left :
          \/ /\ room[r].stage = "live"
             /\ room' = Marked(r)
             /\ call' = [call EXCEPT ![c].left = @ \ {r}, ![c].target = r]
          \/ /\ call' = [call EXCEPT ![c].left = @ \ {r}, ![c].target = 0,
                            ![c].excused = IF room[r].stage = "live" THEN @ \cup {r} ELSE @]
             /\ UNCHANGED room
    /\ UNCHANGED <<mu, playerIDs>>

FinishEviction(c) ==
    /\ call[c].at = "evict" /\ EvictedLast(c) /\ call[c].left = {}
    /\ call' = [call EXCEPT ![c] = [@ EXCEPT !.at = "retry", !.target = 0]]
    /\ UNCHANGED <<mu, playerIDs, room>>

(***************************************************************************)
(* fillMatchmakingBots, under matchmakingMu, Store.mu and room.mu at once. *)
(* The worker is detached before it is known whether ids and characters    *)
(* can be had, and is never started again.  A debug player may have        *)
(* filled, or overfilled, the room meanwhile.                              *)
(***************************************************************************)
\* Mutant of FillBots: a failed fill keeps the ids it reserved.
FillLeaksIds(r) ==
    /\ mu = None /\ room[r].fill = "armed"
    /\ LET n == Size[room[r].mode] - Len(room[r].seats) IN
       \/ /\ room' = [room EXCEPT ![r] = DetachBotFill(WithSeats(@, Bots(n)))]
          /\ playerIDs' = playerIDs \cup BotIds(r, n)
       \/ /\ n > 0
          /\ room' = [room EXCEPT ![r].fill = "failed"]
          /\ playerIDs' = playerIDs \cup BotIds(r, n)
    /\ UNCHANGED <<mu, call>>

FillBots(r) ==
    /\ mu = None /\ room[r].fill = "armed"
    /\ LET n == Size[room[r].mode] - Len(room[r].seats) IN
       \/ /\ room' = [room EXCEPT ![r] = DetachBotFill(WithSeats(@, Bots(n)))]
          /\ playerIDs' = playerIDs \cup BotIds(r, n)
       \/ /\ n > 0
          /\ room' = [room EXCEPT ![r].fill = "failed"]
          /\ UNCHANGED playerIDs
    /\ UNCHANGED <<mu, call>>

(***************************************************************************)
(* The rest of the debug API.  addPlayer draws its id before it looks at   *)
(* the room, does not mark the room matched and counts to DebugCapacity.   *)
(***************************************************************************)
StartAddPlayer(d) ==
    /\ call[d].at = "idle"
    /\ \E r \in Registered :
          \/ /\ playerIDs' = playerIDs \cup {d}
             /\ call' = [call EXCEPT ![d] =
                  [Idle EXCEPT !.at = "seat", !.issued = TRUE, !.target = r]]
          \/ /\ call' = [call EXCEPT ![d] = Answer("error")]
             /\ UNCHANGED playerIDs
    /\ UNCHANGED <<mu, room>>

AddPlayer(d) ==
    /\ call[d].at = "seat"
    /\ LET r == call[d].target IN
       IF room[r].stage = "live" /\ room[r].phase = "waiting" /\ Len(room[r].seats) < DebugCapacity
       THEN /\ room' = [room EXCEPT ![r].seats = Append(@, d)]
            /\ call' = [call EXCEPT ![d] = Answer("joined")]
       ELSE /\ call' = [call EXCEPT ![d] = [@ EXCEPT !.at = "release", !.result = "refused"]]
            /\ UNCHANGED room
    /\ UNCHANGED <<mu, playerIDs>>

AddBots(r) ==
    /\ "bots" \in Debug
    /\ room[r].stage = "live" /\ room[r].phase = "waiting"
    /\ \E n \in 1..(Size[room[r].mode] - Len(room[r].seats)) :
          LET after == WithSeats(room[r], Bots(n)) IN
          /\ room' = [room EXCEPT ![r] = IF IsFull(after) THEN DetachBotFill(after) ELSE after]
          /\ playerIDs' = playerIDs \cup BotIds(r, n)
    /\ UNCHANGED <<mu, call>>

StartRoom(r) ==
    /\ "start" \in Debug
    /\ room[r].stage = "live" /\ room[r].phase = "waiting" /\ room[r].seats # <<>>
    /\ room' = [room EXCEPT ![r] = [DetachBotFill(@) EXCEPT !.phase = "matched"]]
    /\ UNCHANGED <<mu, playerIDs, call>>

JoinStep(q) == Look(q) \/ IssueCredentials(q) \/ TryJoinRoom(q)
CreateStep(c) == CreateRoom(c) \/ StartEviction(c) \/ Evict(c) \/ FinishEviction(c)
RemovalStep(r) == Unregister(r) \/ ReleaseRoomIds(r)

Next ==
    \/ \E q \in Joins : StartJoin(q) \/ JoinStep(q)
    \/ \E c \in Joins \cup Creators : CreateStep(c)
    \/ \E d \in Adders : StartAddPlayer(d) \/ AddPlayer(d)
    \/ \E c \in Callers : Release(c)
    \/ \E r \in Room : Remove(r) \/ RemovalStep(r) \/ FillBots(r) \/ AddBots(r) \/ StartRoom(r)

Spec == Init /\ [][Next]_vars

(***************************************************************************)
(* Fairness: a call that has begun goes on, a removal that has begun is    *)
(* completed, a fill timer fires.  Calls, removals and debug requests may  *)
(* or may not come.                                                        *)
(***************************************************************************)
Fairness ==
    /\ \A q \in Joins : WF_vars(JoinStep(q) \/ CreateStep(q) \/ Release(q))
    /\ \A r \in Room : WF_vars(RemovalStep(r)) /\ WF_vars(FillBots(r))

FairSpec == Spec /\ Fairness

(***************************************************************************)
(* Properties.                                                             *)
(***************************************************************************)

Ids == Callers \cup (Room \X Nat)

TypeOK ==
    /\ mu \in Joins \cup {None}
    /\ playerIDs \subseteq Ids
    /\ room \in [Room -> [stage : {"none", "live", "marked", "unregistered", "gone"},
                          mode : Modes, opener : {"match", "debug"},
                          seats : Seq(Joins \cup Adders \cup {Bot}),
                          phase : {"waiting", "matched"},
                          fill : {"none", "armed", "failed"}]]
    /\ call \in [Callers -> [at : {"idle", "scan", "issue", "try", "full", "evict", "retry",
                                   "seat", "release", "answered"},
                             mode : Modes, left : SUBSET Room, target : Room \cup {0},
                             issued : BOOLEAN, tries : {0, 1}, excused : SUBSET Room,
                             result : {"none", "joined", "cap", "error", "refused"}]]

\* The set of ids in use, the seats and the calls in progress agree: an id is
\* in Store.playerIDs exactly while a seat of a room not yet torn down, or a
\* call that has not placed it, holds it, and a caller sits in a room only if
\* it was told so, and in one only.  Credentials are drawn in one section and
\* seated or given back in a later one, a whole room gives its ids back at
\* once, and a fill that fails half way must give back what it had reserved.
SeatsAndIdsAgree ==
    /\ TypeOK
    /\ playerIDs = (UNION {IdsOf(r, room[r].seats) : r \in Room}) \cup {c \in Callers : call[c].issued}
    /\ \A c \in Callers :
          Cardinality(SeatsOf(c)) <= IF call[c].result = "joined" THEN 1 ELSE 0

\* Two players who want the same mode are not left waiting in two rooms: of
\* the rooms of a mode a join would be accepted in, matchmaking has opened at
\* most one, although the search and the opening are sections of different
\* locks (matchmakingMu; debug rooms are opened without it).
NobodyWaitsApart ==
    \A mode \in Modes :
        Cardinality({r \in Room : room[r].mode = mode /\ room[r].opener = "match"
                                    /\ CanAccept(room[r])}) <= 1

\* A 409 for the room cap is deserved: the registry is full, and every room
\* in it was looked at by this call and found unexpired, or is being removed
\* by somebody else, or was opened after the call began to look.
RefusalIsHonest ==
    [][\A c \in Joins \cup Creators :
          call[c].result # "cap" /\ call'[c].result = "cap" =>
             /\ Cardinality(Registered) >= MaxRooms
             /\ \A r \in Registered : r \in call[c].excused \/ room[r].stage = "marked"]_vars

Waits(q) ==
    \E r \in Room :
        /\ room[r].stage = "live" /\ room[r].phase = "waiting" /\ room[r].fill # "failed"
        /\ SitsIn(q, r) /\ ~ \E d \in Adders : SitsIn(d, r)

\* A player who got a seat gets a match without anybody else coming: the room
\* is matched or started, or is removed, or the fill has failed (the one-shot
\* worker is not started again), or a debug player sits in it, whose presence
\* keeps the worker from being armed or overfills the room.
MatchComes == \A q \in Joins : Waits(q) ~> ~Waits(q)
=============================================================================
