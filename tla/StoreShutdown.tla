--------------------------- MODULE StoreShutdown ---------------------------
(***************************************************************************)
(* The store as the owner of rooms, workers and connections: rooms are     *)
(* created, matched, played and removed by requests, deadline workers, the *)
(* janitor, disconnects and GameEnd cleanup, while Shutdown closes the     *)
(* mutation gate, tears everything down and waits for it                   *)
(* (src/internal/rooms/cleanup.go, store.go, websocket.go).                *)
(*                                                                         *)
(* What happens inside a room is RoomLifecycle's subject; here a room is   *)
(* its phase, its armed workers and its connections.  What matters is who  *)
(* holds the mutation gate, who waits for whom, and what is left behind.   *)
(***************************************************************************)
EXTENDS Naturals, FiniteSets

CONSTANTS
    Room,       \* rooms that may be created
    Session,    \* connections that may be attached
    RoomOf,     \* the room a connection belongs to
    Scanners,   \* the scans that may happen: requests, the janitor
    ContextEnds, \* Shutdown has a context that ends; Close has not
    None        \* no room, no session

ASSUME RoomOfAssumption == RoomOf \in [Session -> Room]
ASSUME ScannersAssumption == Scanners \subseteq {"request", "janitor"}
ASSUME ContextAssumption == ContextEnds \in BOOLEAN
ASSUME NoneAssumption == None \notin Room /\ None \notin Session

VARIABLES
    closed,         \* Store.closed
    workersClosing, \* Store.workersClosing
    gate,           \* actors holding the shared side of mutationMu
    shutdown,       \* how far runShutdown is
    deadline,       \* the context of the shutdown owner is done
    joined,         \* the sessions runShutdown closes and waits for
    room,           \* phase of each room
    registered,     \* rooms in Store.rooms
    ids,            \* rooms whose player ids are in Store.playerIDs
    timer,          \* the worker of each kind of each room
    phase,          \* how far the close of each session is
    aborted,        \* sessions whose transport was aborted
    job             \* the teardown each actor is busy with

vars == <<closed, workersClosing, gate, shutdown, deadline, joined, room,
          registered, ids, timer, phase, aborted, job>>

(***************************************************************************)
(* The goroutines that tear something down.  A session is one of them: its *)
(* close callback, releaseClient, may have to cancel the whole match.      *)
(***************************************************************************)
Actor(kind, of) == [kind |-> kind, of |-> of]
Request == Actor("request", None)   \* debug delete, or a create at the cap
Reader == Actor("reader", None)     \* a Ready ACK that finds its deadline over
Janitor == Actor("janitor", None)
Detacher == Actor("detacher", None) \* detachRoomsForShutdown, run once
Watcher == Actor("watcher", None)   \* force-closes when the context is done
Deadline(r) == Actor("deadline", r)
Cleanup(r) == Actor("cleanup", r)
Release(s) == Actor("release", s)
Actors == {Request, Reader, Janitor, Detacher, Watcher}
            \cup {Deadline(r) : r \in Room} \cup {Cleanup(r) : r \in Room}
            \cup {Release(s) : s \in Session}

TimerKinds == {"botfill", "deadline", "countdown", "tick"}
Closing == {"onClose", "releasing", "transport"}
Finished == {"closed", "gone"}
Live(s) == phase[s] \in {"open"} \cup Closing

Idle == [at |-> "idle", room |-> None, left |-> {}, rooms |-> {}, todo |-> {}, cur |-> None]

TypeOK ==
    /\ closed \in BOOLEAN /\ workersClosing \in BOOLEAN /\ deadline \in BOOLEAN
    /\ gate \subseteq Actors
    /\ shutdown \in {"none", "gate", "launching", "janitor", "detach", "stop",
                     "close", "workers", "sessions", "watcher", "done"}
    /\ joined \subseteq Session /\ aborted \subseteq Session
    /\ room \in [Room -> {"absent", "waiting", "loading", "starting", "started", "ending", "removed"}]
    /\ registered \subseteq Room /\ ids \subseteq Room
    /\ timer \in [Room -> [TimerKinds -> {"none", "armed", "busy", "stopped"}]]
    /\ phase \in [Session -> {"unattached", "open"} \cup Closing \cup Finished]
    /\ job \in [Actors ->
          [at : {"idle", "scan", "unregister", "release", "close",
                 "schedule", "wait", "enter", "detached", "select", "force"},
           room : Room \cup {None}, left : SUBSET Room, rooms : SUBSET Room,
           todo : SUBSET Session, cur : Session \cup {None}]]
    /\ \A a \in Actors : job[a].cur \in job[a].todo \cup {None}

Init ==
    /\ closed = FALSE /\ workersClosing = FALSE /\ deadline = FALSE
    /\ gate = {} /\ shutdown = "none" /\ joined = {}
    /\ room = [r \in Room |-> "absent"]
    /\ registered = {} /\ ids = {}
    /\ timer = [r \in Room |-> [k \in TimerKinds |-> "none"]]
    /\ phase = [s \in Session |-> "unattached"]
    /\ aborted = {}
    /\ job = [a \in Actors |-> Idle]

shutdownVars == <<closed, workersClosing, shutdown, deadline, joined>>
roomVars == <<room, registered, ids, timer>>
sessionVars == <<phase, aborted>>

(***************************************************************************)
(* beginMutation: blocked while Shutdown waits for or holds the gate,      *)
(* refused once the store is closed.                                       *)
(***************************************************************************)
GateOpen == shutdown \notin {"gate", "launching"}
MayMutate == GateOpen /\ ~closed

\* launchRoomWorker starts nothing once the workers are being joined
Launched(r, k) == IF workersClosing THEN "none" ELSE "armed"

StopAllButCountdown(t) ==
    [k \in TimerKinds |-> IF t[k] = "armed" /\ k # "countdown" THEN "stopped" ELSE t[k]]

\* resources.stop, or a detach followed by stop: the worker sees its channel closed
StopTimers(t) == [k \in TimerKinds |-> IF t[k] = "armed" THEN "stopped" ELSE t[k]]

\* room.clients: a session stays in it until its close callback has the room
Clients(r) == {s \in Session : RoomOf[s] = r /\ phase[s] \in {"open", "onClose"}}

(***************************************************************************)
(* Rooms and connections while the store is open.                          *)
(***************************************************************************)
CreateWhenClosed(r) ==
    /\ GateOpen /\ room[r] = "absent"
    /\ room' = [room EXCEPT ![r] = "waiting"]
    /\ registered' = registered \cup {r}
    /\ ids' = ids \cup {r}
    /\ timer' = [timer EXCEPT ![r]["botfill"] = Launched(r, "botfill")]
    /\ UNCHANGED <<shutdownVars, gate, sessionVars, job>>

\* a matchmaking room with its first human, in one section of Store.mu
CreateRoom(r) ==
    /\ MayMutate /\ room[r] = "absent"
    /\ room' = [room EXCEPT ![r] = "waiting"]
    /\ registered' = registered \cup {r}
    /\ ids' = ids \cup {r}
    /\ timer' = [timer EXCEPT ![r]["botfill"] = Launched(r, "botfill")]
    /\ UNCHANGED <<shutdownVars, gate, sessionVars, job>>

\* a human join or an API bot completes the match
MatchRoom(r) ==
    /\ MayMutate /\ room[r] = "waiting"
    /\ room' = [room EXCEPT ![r] = "loading"]
    /\ timer' = [timer EXCEPT ![r] =
                   [StopTimers(@) EXCEPT !["deadline"] = Launched(r, "deadline")]]
    /\ UNCHANGED <<shutdownVars, gate, registered, ids, sessionVars, job>>

FillBots(r) ==
    /\ timer[r]["botfill"] = "armed"
    /\ \/ /\ MayMutate /\ room[r] = "waiting"
          /\ room' = [room EXCEPT ![r] = "loading"]
          /\ timer' = [timer EXCEPT ![r]["botfill"] = "none",
                                    ![r]["deadline"] = Launched(r, "deadline")]
       \/ /\ GateOpen    \* closed, too late, or no ids to be had
          /\ timer' = [timer EXCEPT ![r]["botfill"] = "none"]
          /\ UNCHANGED room
    /\ UNCHANGED <<shutdownVars, gate, registered, ids, sessionVars, job>>

\* the last Ready ACK
ReadyRoom(r) ==
    /\ MayMutate /\ room[r] = "loading"
    /\ room' = [room EXCEPT ![r] = "starting"]
    /\ timer' = [timer EXCEPT ![r] =
                   [StopTimers(@) EXCEPT !["countdown"] = Launched(r, "countdown")]]
    /\ UNCHANGED <<shutdownVars, gate, registered, ids, sessionVars, job>>

\* startRoom of the debug API, in any phase before the start
DebugStart(r) ==
    /\ MayMutate /\ room[r] \in {"waiting", "loading", "starting"}
    /\ room' = [room EXCEPT ![r] = "started"]
    /\ timer' = [timer EXCEPT ![r] =
                   [StopTimers(@) EXCEPT !["tick"] = Launched(r, "tick")]]
    /\ UNCHANGED <<shutdownVars, gate, registered, ids, sessionVars, job>>

\* the countdown worker starts the match; it does not take the gate
StartRoom(r) ==
    /\ timer[r]["countdown"] = "armed"
    /\ timer' = [timer EXCEPT ![r]["countdown"] = "none",
                              ![r]["tick"] = IF room[r] = "starting"
                                             THEN Launched(r, "tick") ELSE @]
    /\ room' = [room EXCEPT ![r] = IF @ = "starting" THEN "started" ELSE @]
    /\ UNCHANGED <<shutdownVars, gate, registered, ids, sessionVars, job>>

\* the terminal tick; its worker still has to schedule the cleanup
EndGame(r) ==
    /\ room[r] = "started" /\ timer[r]["tick"] = "armed"
    /\ room' = [room EXCEPT ![r] = "ending"]
    /\ timer' = [timer EXCEPT ![r]["tick"] = "busy"]
    /\ job' = [job EXCEPT ![Cleanup(r)] = [Idle EXCEPT !.at = "schedule", !.todo = Clients(r)]]
    /\ UNCHANGED <<shutdownVars, gate, registered, ids, sessionVars>>

\* workers whose stop channel is closed leave their loops
WorkersExit(r) ==
    /\ \E k \in TimerKinds : timer[r][k] = "stopped"
    /\ timer' = [timer EXCEPT ![r] =
                   [k \in TimerKinds |-> IF @[k] = "stopped" THEN "none" ELSE @[k]]]
    /\ UNCHANGED <<shutdownVars, gate, room, registered, ids, sessionVars, job>>

AttachClient(s) ==
    /\ MayMutate /\ phase[s] = "unattached"
    /\ room[RoomOf[s]] \in {"waiting", "loading", "starting", "started"}
    /\ phase' = [phase EXCEPT ![s] = "open"]
    /\ UNCHANGED <<shutdownVars, gate, roomVars, aborted, job>>

(***************************************************************************)
(* The close of a session: closeOnce runs the close callback, then the     *)
(* transport close; everyone else who closes it waits.                     *)
(***************************************************************************)
StartClose(s) == [phase EXCEPT ![s] = IF @ = "open" THEN "onClose" ELSE @]

\* peer close, read, write or ping failure, control overflow
PeerCloses(s) ==
    /\ phase[s] = "open"
    /\ phase' = StartClose(s)
    /\ UNCHANGED <<shutdownVars, gate, roomVars, aborted, job>>

\* the writer closes after GameEnd
TerminalCloses(s) == room[RoomOf[s]] = "ending" /\ PeerCloses(s)

ReleaseWithoutIds(s) ==
    /\ phase[s] = "onClose" /\ job[Release(s)] = Idle
    /\ IF room[RoomOf[s]] \in {"loading", "starting"}
       THEN /\ phase' = [phase EXCEPT ![s] = "releasing"]
            /\ room' = [room EXCEPT ![RoomOf[s]] = "removed"]
            /\ registered' = registered \ {RoomOf[s]}
            /\ job' = [job EXCEPT ![Release(s)] =
                 [Idle EXCEPT !.at = "close", !.rooms = {RoomOf[s]},
                              !.todo = Clients(RoomOf[s]) \ {s}]]
       ELSE /\ phase' = [phase EXCEPT ![s] = "transport"]
            /\ UNCHANGED <<room, registered, job>>
    /\ UNCHANGED <<shutdownVars, gate, ids, timer, aborted>>

ReleaseAgain(s) ==
    /\ phase[s] = "onClose" /\ job[Release(s)] = Idle
    /\ phase' = [phase EXCEPT ![s] = "releasing"]
    /\ room' = [room EXCEPT ![RoomOf[s]] = "removed"]
    /\ job' = [job EXCEPT ![Release(s)] =
         [Idle EXCEPT !.at = "unregister", !.room = RoomOf[s], !.rooms = {RoomOf[s]},
                      !.todo = {t \in Session \ {s} : RoomOf[t] = RoomOf[s] /\ Live(t)}]]
    /\ UNCHANGED <<shutdownVars, gate, registered, ids, timer, aborted>>

\* releaseClient: a disconnect before the start cancels the match
ReleaseClient(s) ==
    /\ phase[s] = "onClose" /\ job[Release(s)] = Idle
    /\ IF room[RoomOf[s]] \in {"loading", "starting"}
       THEN /\ phase' = [phase EXCEPT ![s] = "releasing"]
            /\ room' = [room EXCEPT ![RoomOf[s]] = "removed"]
            /\ job' = [job EXCEPT ![Release(s)] =
                 [Idle EXCEPT !.at = "unregister", !.room = RoomOf[s], !.rooms = {RoomOf[s]},
                              !.todo = Clients(RoomOf[s]) \ {s}]]
       ELSE /\ phase' = [phase EXCEPT ![s] = "transport"]
            /\ UNCHANGED <<room, job>>
    /\ UNCHANGED <<shutdownVars, gate, registered, ids, timer, aborted>>

\* conn.Close returns: the close handshake is over or has timed out
FinishClose(s) ==
    /\ phase[s] = "transport"
    /\ phase' = [phase EXCEPT ![s] = "closed"]
    /\ UNCHANGED <<shutdownVars, gate, roomVars, aborted, job>>

FinishAborted(s) == s \in aborted /\ FinishClose(s)

\* monitorClientSession: writer and heartbeat are done, the session is forgotten
ForgetSession(s) ==
    /\ phase[s] = "closed"
    /\ phase' = [phase EXCEPT ![s] = "gone"]
    /\ UNCHANGED <<shutdownVars, gate, roomVars, aborted, job>>

(***************************************************************************)
(* Teardown jobs.  A scan visits the rooms it found registered; a room it  *)
(* may take is marked removed, then unregistered, then its player ids are  *)
(* released.  The workers are stopped and the sessions closed after that,  *)
(* one after the other.                                                    *)
(***************************************************************************)
Leave(a) == gate \ {a}

Scanning(a) == a \in {Request, Janitor, Detacher}

BeginRequest ==
    /\ "request" \in Scanners
    /\ MayMutate /\ job[Request] = Idle
    /\ \E targets \in ({registered} \cup {{r} : r \in registered}) \ {{}} :
          job' = [job EXCEPT ![Request] = [Idle EXCEPT !.at = "scan", !.left = targets]]
    /\ gate' = gate \cup {Request}
    /\ UNCHANGED <<shutdownVars, roomVars, sessionVars>>

\* janitorStop ends the loop; a tick that wins against it is one taken before
JanitorTick ==
    /\ "janitor" \in Scanners
    /\ job[Janitor] = Idle /\ registered # {}
    /\ shutdown \in {"none", "gate", "launching"}
    /\ job' = [job EXCEPT ![Janitor] = [Idle EXCEPT !.at = "scan", !.left = registered]]
    /\ UNCHANGED <<shutdownVars, gate, roomVars, sessionVars>>

\* a finished match is only taken by Shutdown; the janitor takes what is expired
MayTake(a, r) == room[r] # "removed" /\ (a = Detacher \/ room[r] # "ending")
MustTake(a, r) == MayTake(a, r) /\ a # Janitor

ScanRoom(a, r) ==
    /\ job[a].at = "scan" /\ r \in job[a].left
    /\ \/ /\ MayTake(a, r)
          /\ room' = [room EXCEPT ![r] = "removed"]
          /\ job' = [job EXCEPT ![a].at = "unregister", ![a].room = r, ![a].left = @ \ {r},
                                ![a].rooms = @ \cup {r}, ![a].todo = @ \cup Clients(r)]
       \/ /\ ~MustTake(a, r)
          /\ job' = [job EXCEPT ![a].left = @ \ {r}]
          /\ UNCHANGED room
    /\ UNCHANGED <<shutdownVars, gate, registered, ids, timer, sessionVars>>

\* resources.stop for the rooms of a job
Stopped(rooms) == [r \in Room |-> IF r \in rooms THEN StopTimers(timer[r]) ELSE timer[r]]

\* a request leaves the gate before it stops and closes anything
FinishScan(a) ==
    /\ job[a].at = "scan" /\ job[a].left = {}
    /\ gate' = Leave(a)
    /\ IF a = Detacher
       THEN /\ job' = [job EXCEPT ![a].at = "detached"]
            /\ UNCHANGED timer
       ELSE /\ job' = [job EXCEPT ![a] = IF @.todo = {} THEN Idle ELSE [@ EXCEPT !.at = "close"]]
            /\ timer' = Stopped(job[a].rooms)
    /\ UNCHANGED <<shutdownVars, room, registered, ids, sessionVars>>

Unregister(a) ==
    /\ job[a].at = "unregister"
    /\ registered' = registered \ {job[a].room}
    /\ job' = [job EXCEPT ![a].at = "release"]
    /\ UNCHANGED <<shutdownVars, gate, room, ids, timer, sessionVars>>

\* outside a scan, closeWithCause follows at once
ReleaseIds(a) ==
    /\ job[a].at = "release"
    /\ ids' = ids \ {job[a].room}
    /\ job' = [job EXCEPT ![a] =
                 [@ EXCEPT !.at = IF Scanning(a) THEN "scan" ELSE "close", !.room = None]]
    /\ timer' = IF Scanning(a) THEN timer ELSE Stopped(job[a].rooms)
    /\ UNCHANGED <<shutdownVars, gate, room, registered, sessionVars>>

CloseNext(a) ==
    /\ job[a].at = "close" /\ job[a].cur = None
    /\ \E s \in job[a].todo :
          /\ phase' = StartClose(s)
          /\ job' = [job EXCEPT ![a].cur = s]
    /\ UNCHANGED <<shutdownVars, gate, roomVars, aborted>>

CloseReturns(a) ==
    /\ job[a].at = "close" /\ job[a].cur # None /\ phase[job[a].cur] \in Finished
    /\ job' = [job EXCEPT ![a].cur = None, ![a].todo = @ \ {job[a].cur}]
    /\ UNCHANGED <<shutdownVars, gate, roomVars, sessionVars>>

FinishKeepsGate(a) ==
    /\ job[a].at = "close" /\ job[a].todo = {}
    /\ job' = [job EXCEPT ![a] = Idle]
    /\ timer' = IF a.kind = "deadline" THEN [timer EXCEPT ![a.of]["deadline"] = "none"] ELSE timer
    /\ phase' = IF a.kind = "release" THEN [phase EXCEPT ![a.of] = "transport"] ELSE phase
    /\ UNCHANGED <<shutdownVars, gate, room, registered, ids, aborted>>

\* the end of a job: a worker exits, a close callback goes on to its transport
FinishJob(a) ==
    /\ job[a].at = "close" /\ job[a].todo = {}
    /\ job' = [job EXCEPT ![a] = Idle]
    /\ gate' = Leave(a)
    /\ timer' = IF a.kind = "deadline" THEN [timer EXCEPT ![a.of]["deadline"] = "none"] ELSE timer
    /\ phase' = IF a.kind = "release" THEN [phase EXCEPT ![a.of] = "transport"] ELSE phase
    /\ UNCHANGED <<shutdownVars, room, registered, ids, aborted>>

(***************************************************************************)
(* Jobs that remove and unregister in one step, under Store.mu, and keep   *)
(* the gate until the sessions are closed.                                 *)
(***************************************************************************)
TakeRoom(a, r) ==
    /\ room' = [room EXCEPT ![r] = "removed"]
    /\ registered' = registered \ {r}
    /\ gate' = gate \cup {a}
    /\ job' = [job EXCEPT ![a] = [Idle EXCEPT !.at = "release", !.room = r,
                                              !.rooms = {r}, !.todo = Clients(r)]]

\* the attach or Ready deadline worker; a late one finds nothing to do
ExpireDeadline(r) ==
    /\ timer[r]["deadline"] = "armed"
    /\ \/ /\ MayMutate /\ room[r] = "loading"
          /\ TakeRoom(Deadline(r), r)
          /\ timer' = [timer EXCEPT ![r]["deadline"] = "busy"]
       \/ /\ GateOpen /\ (closed \/ room[r] # "loading")
          /\ timer' = [timer EXCEPT ![r]["deadline"] = "none"]
          /\ UNCHANGED <<room, registered, gate, job>>
    /\ UNCHANGED <<shutdownVars, ids, sessionVars>>

\* markClientReady past the deadline, before the worker got to run
LateReady(r) ==
    /\ MayMutate /\ job[Reader] = Idle /\ room[r] = "loading"
    /\ \E s \in Clients(r) : phase[s] = "open"
    /\ TakeRoom(Reader, r)
    /\ UNCHANGED <<shutdownVars, ids, timer, sessionVars>>

\* scheduleGameEndCleanup; the tick worker then sees its stop channel
ScheduleCleanup(r) ==
    /\ job[Cleanup(r)].at = "schedule"
    /\ job' = [job EXCEPT ![Cleanup(r)] =
                 IF Launched(r, "cleanup") = "armed" THEN [@ EXCEPT !.at = "wait"] ELSE Idle]
    /\ timer' = [timer EXCEPT ![r]["tick"] = "none"]
    /\ UNCHANGED <<shutdownVars, gate, room, registered, ids, sessionVars>>

AwaitSessions(r) ==
    /\ job[Cleanup(r)].at = "wait"
    /\ \A s \in job[Cleanup(r)].todo : phase[s] \in Finished
    /\ job' = [job EXCEPT ![Cleanup(r)].at = "enter"]
    /\ UNCHANGED <<shutdownVars, gate, roomVars, sessionVars>>

FinishGameEnd(r) ==
    /\ job[Cleanup(r)].at = "enter" /\ GateOpen
    /\ IF closed \/ r \notin registered \/ room[r] # "ending"
       THEN /\ job' = [job EXCEPT ![Cleanup(r)] = Idle]
            /\ UNCHANGED <<room, registered, gate>>
       ELSE TakeRoom(Cleanup(r), r)
    /\ UNCHANGED <<shutdownVars, ids, timer, sessionVars>>

JobStep(a) == job[a] # Idle /\
    \/ \E r \in Room : ScanRoom(a, r)
    \/ FinishScan(a) \/ Unregister(a) \/ ReleaseIds(a)
    \/ CloseNext(a) \/ CloseReturns(a) \/ FinishJob(a)

CleanupStep(r) == job[Cleanup(r)] # Idle /\ (ScheduleCleanup(r) \/ AwaitSessions(r) \/ FinishGameEnd(r))

(***************************************************************************)
(* runShutdown and its watcher.                                            *)
(***************************************************************************)
WorkersLive ==
    \/ \E r \in Room, k \in TimerKinds : timer[r][k] # "none"
    \/ \E r \in Room : job[Cleanup(r)] # Idle

Shutdown ==
    /\ shutdown = "none"
    /\ shutdown' = "gate"
    /\ UNCHANGED <<closed, workersClosing, deadline, joined, gate, roomVars, sessionVars, job>>

ContextDone ==
    /\ ContextEnds /\ shutdown # "none" /\ ~deadline
    /\ deadline' = TRUE
    /\ UNCHANGED <<closed, workersClosing, shutdown, joined, gate, roomVars, sessionVars, job>>

\* the exclusive gate: closed, the active sessions, then workersClosing
CloseStore ==
    /\ shutdown = "gate" /\ gate = {}
    /\ closed' = TRUE
    /\ joined' = {s \in Session : Live(s) \/ phase[s] = "closed"}
    /\ shutdown' = "launching"
    /\ UNCHANGED <<workersClosing, deadline, gate, roomVars, sessionVars, job>>

StopLaunching ==
    /\ shutdown = "launching"
    /\ workersClosing' = TRUE
    /\ shutdown' = "janitor"
    /\ job' = [job EXCEPT ![Watcher].at = "select"]
    /\ UNCHANGED <<closed, deadline, joined, gate, roomVars, sessionVars>>

JoinJanitor ==
    /\ shutdown = "janitor" /\ job[Janitor] = Idle
    /\ shutdown' = "detach"
    /\ UNCHANGED <<closed, workersClosing, deadline, joined, gate, roomVars, sessionVars, job>>

\* detachOnce: the first of the two callers detaches, the other one waits
DetachRooms ==
    /\ shutdown = "detach" \/ (job[Watcher].at = "select" /\ deadline)
    /\ job[Detacher] = Idle
    /\ job' = [job EXCEPT ![Detacher] = [Idle EXCEPT !.at = "scan", !.left = registered]]
    /\ UNCHANGED <<shutdownVars, gate, roomVars, sessionVars>>

StopDetached ==
    /\ shutdown = "detach" /\ job[Detacher].at = "detached"
    /\ timer' = Stopped(job[Detacher].rooms)
    /\ shutdown' = "close"
    /\ joined' = joined \cup job[Detacher].todo
    /\ UNCHANGED <<closed, workersClosing, deadline, gate, room, registered, ids, sessionVars, job>>

\* closeClientSessionsInParallelWithCause
CloseAll ==
    /\ shutdown = "close"
    /\ phase' = [s \in Session |-> IF s \in joined THEN StartClose(s)[s] ELSE phase[s]]
    /\ shutdown' = "workers"
    /\ UNCHANGED <<closed, workersClosing, deadline, joined, gate, roomVars, aborted, job>>

\* the parallel closes have returned, then workerWG.Wait
JoinWorkers ==
    /\ shutdown = "workers"
    /\ \A s \in joined : phase[s] \in Finished
    /\ ~WorkersLive
    /\ shutdown' = "sessions"
    /\ UNCHANGED <<closed, workersClosing, deadline, joined, gate, roomVars, sessionVars, job>>

\* close, writer, heartbeat and monitor of every session
JoinSessions ==
    /\ shutdown = "sessions"
    /\ \A s \in joined : phase[s] = "gone"
    /\ shutdown' = "watcher"
    /\ UNCHANGED <<closed, workersClosing, deadline, joined, gate, roomVars, sessionVars, job>>

\* watchStop is closed: a watcher that is force-closing finishes first
JoinWatcher ==
    /\ shutdown = "watcher"
    /\ job[Watcher] = Idle \/ job[Watcher].at = "select"
    /\ job' = [job EXCEPT ![Watcher] = Idle]
    /\ shutdown' = "done"
    /\ UNCHANGED <<closed, workersClosing, deadline, joined, gate, roomVars, sessionVars>>

WatcherFires ==
    /\ job[Watcher].at = "select" /\ deadline /\ job[Detacher].at = "detached"
    /\ job' = [job EXCEPT ![Watcher] = [Idle EXCEPT !.at = "force",
                 !.todo = {s \in Session : Live(s) \/ phase[s] = "closed"}]]
    /\ UNCHANGED <<shutdownVars, gate, roomVars, sessionVars>>

\* forceCloseWithCause: start the close, wait for its transport part, abort it
ForceNext ==
    /\ job[Watcher].at = "force" /\ job[Watcher].cur = None
    /\ \E s \in job[Watcher].todo :
          /\ phase' = StartClose(s)
          /\ job' = [job EXCEPT ![Watcher].cur = s]
    /\ UNCHANGED <<shutdownVars, gate, roomVars, aborted>>

AbortTransport ==
    /\ job[Watcher].at = "force"
    /\ LET s == job[Watcher].cur IN
       /\ s # None /\ phase[s] \in {"transport"} \cup Finished
       /\ aborted' = IF phase[s] = "transport" THEN aborted \cup {s} ELSE aborted
       /\ job' = [job EXCEPT ![Watcher].cur = None, ![Watcher].todo = @ \ {s}]
    /\ UNCHANGED <<shutdownVars, gate, roomVars, phase>>

WatcherReturns ==
    /\ job[Watcher].at = "force" /\ job[Watcher].todo = {}
    /\ job' = [job EXCEPT ![Watcher] = Idle]
    /\ UNCHANGED <<shutdownVars, gate, roomVars, sessionVars>>

ShutdownStep ==
    CloseStore \/ StopLaunching \/ JoinJanitor \/ StopDetached \/ CloseAll
      \/ JoinWorkers \/ JoinSessions \/ JoinWatcher
WatcherStep == WatcherFires \/ ForceNext \/ AbortTransport \/ WatcherReturns

RoomStep(r) ==
    CreateRoom(r) \/ MatchRoom(r) \/ FillBots(r) \/ ReadyRoom(r) \/ DebugStart(r)
      \/ StartRoom(r) \/ EndGame(r) \/ ExpireDeadline(r) \/ LateReady(r)
      \/ CleanupStep(r) \/ WorkersExit(r)

SessionStep(s) ==
    AttachClient(s) \/ PeerCloses(s) \/ ReleaseClient(s) \/ FinishClose(s) \/ ForgetSession(s)

Next ==
    \/ \E r \in Room : RoomStep(r)
    \/ \E s \in Session : SessionStep(s)
    \/ BeginRequest \/ JanitorTick
    \/ \E a \in Actors : JobStep(a)
    \/ Shutdown \/ ContextDone \/ DetachRooms \/ ShutdownStep \/ WatcherStep

Spec == Init /\ [][Next]_vars

(***************************************************************************)
(* Fairness: goroutines that can run do, the writer of a finished match    *)
(* closes its session, and (GracefulSpec only) a transport close ends, as  *)
(* the library bounds both halves of the close handshake.  Requests,       *)
(* disconnects, the janitor, timers, Shutdown and its deadline may or may  *)
(* not happen.                                                             *)
(***************************************************************************)
Fairness ==
    /\ \A a \in Actors : WF_vars(JobStep(a))
    /\ \A r \in Room : WF_vars(CleanupStep(r)) /\ WF_vars(WorkersExit(r))
    /\ \A s \in Session :
          /\ WF_vars(TerminalCloses(s)) /\ WF_vars(ReleaseClient(s))
          /\ WF_vars(FinishAborted(s)) /\ WF_vars(ForgetSession(s))
    /\ WF_vars(DetachRooms) /\ WF_vars(ShutdownStep) /\ WF_vars(WatcherStep)

AbortOnlySpec == Spec /\ Fairness
GracefulSpec == AbortOnlySpec /\ \A s \in Session : WF_vars(FinishClose(s))

(***************************************************************************)
(* Properties.                                                             *)
(***************************************************************************)

\* Player ids are neither lost nor given back early: a registered room owns
\* its ids, and ids without a registered room are about to be released by
\* the one actor that removed the room (store.go removeRegisteredRoomIfSame,
\* releasePlayerIDs and the three orders in which they are called).
IdsFollowRooms ==
    /\ registered \subseteq ids
    /\ \A r \in ids \ registered :
          Cardinality({a \in Actors : job[a].room = r /\ job[a].at = "release"}) = 1

\* A room leaves the registry exactly when one actor takes it: a removed room
\* that is still registered is being unregistered by a running job, so no
\* interleaving of expiry, deletes, deadlines, disconnects and Shutdown
\* leaves a dead room behind that counts against the cap.
RemovedRoomsLeave ==
    \A r \in Room : room[r] = "removed" /\ r \in registered
        => \E a \in Actors : job[a].room = r /\ job[a].at = "unregister"

\* Whatever a removal has still to undo, one actor and only one will undo it:
\* expiry, deletes, deadlines, disconnects and Shutdown neither leave a room
\* or its ids to each other nor undo them twice.
TeardownIsOwned == TypeOK /\ IdsFollowRooms /\ RemovedRoomsLeave

\* When Shutdown returns nothing is left: no room registered, no player id
\* taken, no worker, no connection that is not completely closed, nobody
\* holding the gate (cleanup.go runShutdown; architecture.md:82).
ShutdownLeavesNothing ==
    shutdown = "done" =>
        /\ registered = {} /\ ids = {} /\ gate = {}
        /\ ~WorkersLive
        /\ \A s \in Session : phase[s] \in {"unattached", "gone"}

\* Shutdown returns: the gate, the janitor, workers that wait for sessions,
\* sessions that close other sessions and the watcher never wait for each
\* other in a circle.
ShutdownTerminates == shutdown = "gate" ~> shutdown = "done"

\* Every close that began ends, whoever closes whom: closeOnce makes a second
\* closer wait for the first one, and releaseClient closes other sessions
\* from inside a close (websocket.go closeWithCause, releaseClient).
CloseReturnsToAll == \A s \in Session : phase[s] = "onClose" ~> phase[s] = "gone"

\* A removed room keeps neither connections nor workers: whoever removed it
\* closes the sessions it had and stops its workers.
RemovedRoomDrains ==
    \A r \in Room : room[r] = "removed" ~>
        /\ \A k \in TimerKinds : timer[r][k] = "none"
        /\ \A s \in Session : RoomOf[s] = r => phase[s] \in {"unattached", "gone"}

\* The documented deadline: a graceful close in progress is interrupted, so
\* Shutdown returns although no transport closes by itself ("Deadline에는
\* WebSocket accept 때 캡처한 underlying net.Conn을 직접 닫아 이미 진행 중인
\* graceful close를 중단합니다", protocol.md:504).
DeadlineEndsShutdown == deadline ~> shutdown = "done"
=============================================================================
