------------------------ MODULE StoreShutdown_proofs -------------------------
(***************************************************************************)
(* Proofs about StoreShutdown, for every set of rooms and connections:     *)
(* each removal is undone by one actor and only one, and when Shutdown     *)
(* returns nothing is left.                                                *)
(***************************************************************************)
EXTENDS StoreShutdown, FiniteSetTheorems, TLAPS

-----------------------------------------------------------------------------
(* Who owes what: the invariant behind TeardownIsOwned.                      *)

Owing == {"unregister", "release"}

\* An actor that owes the rest of a removal has a removed room, whose ids
\* nobody has given back and that is registered until it unregisters it.
OwnersFit ==
    \A a \in Actors : job[a].at \in Owing =>
        /\ job[a].room \in Room /\ room[job[a].room] = "removed" /\ job[a].room \in ids
        /\ job[a].at = "unregister" <=> job[a].room \in registered

OneOwner ==
    \A a, b \in Actors :
        job[a].at \in Owing /\ job[b].at \in Owing /\ job[a].room = job[b].room => a = b

RoomsOwned ==
    \A r \in Room :
        /\ room[r] = "absent" => r \notin ids
        /\ room[r] \notin {"absent", "removed"} => r \in registered
        /\ r \in registered => r \in ids
        /\ room[r] = "removed" /\ r \in ids => \E a \in Actors : job[a].room = r /\ job[a].at \in Owing

Owned == OwnersFit /\ OneOwner /\ RoomsOwned

\* What each actor may be busy with.
JobFits(a) ==
    /\ \A r \in job[a].left : room[r] # "absent"
    /\ a.kind \in {"deadline", "cleanup"} /\ job[a].at \in Owing => job[a].room = a.of
    /\ job[a].at = "scan" => a.kind \in {"request", "janitor", "detacher"}
    /\ a.kind = "watcher" => job[a].at \in {"idle", "select", "force"}
    /\ a.kind = "detacher" => job[a].at \in {"idle", "scan", "detached"} \cup Owing
JobsFit == \A a \in Actors : JobFits(a)

TeardownInv == TypeOK /\ Owned /\ JobsFit

-----------------------------------------------------------------------------
(* How far Shutdown is: the invariant behind ShutdownLeavesNothing.          *)

ClosedInTime ==
    /\ closed <=> shutdown \notin {"none", "gate"}
    /\ closed => gate = {} /\ \A s \in Session : phase[s] \notin {"unattached", "gone"} => s \in joined

\* A request holds the gate while it removes rooms, a worker or a late Ready
\* until it has closed the sessions too.
HoldsGate(a) ==
    /\ a.kind = "request" /\ job[a].at \in Owing \cup {"scan"} => a \in gate
    /\ a.kind \in {"reader", "deadline", "cleanup"} /\ job[a].at \in Owing => a \in gate
GateHeld == \A a \in Actors : HoldsGate(a)

\* releaseClient runs inside the close of its session
ReleasesClose == \A s \in Session : job[Release(s)] # Idle => phase[s] = "releasing"

JanitorJoined ==
    shutdown \notin {"none", "gate", "launching", "janitor"} => job[Janitor] = Idle

\* The detach leaves no room that nobody removes.
Detached ==
    /\ job[Detacher] # Idle =>
          /\ closed
          /\ \A r \in registered : room[r] = "removed" \/ (job[Detacher].at # "detached" /\ r \in job[Detacher].left)
    /\ job[Watcher] # Idle => closed
    /\ shutdown \in {"close", "workers", "sessions", "watcher", "done"} => job[Detacher].at = "detached"

Joined ==
    /\ shutdown \in {"sessions", "watcher", "done"} => ~WorkersLive
    /\ shutdown \in {"watcher", "done"} => \A s \in joined : phase[s] = "gone"

ShutdownInv == ClosedInTime /\ GateHeld /\ ReleasesClose /\ JanitorJoined /\ Detached /\ Joined

-----------------------------------------------------------------------------
(* Actors and types.                                                         *)

LEMMA ActorKinds ==
    /\ Request \in Actors /\ Request.kind = "request"
    /\ Reader \in Actors /\ Reader.kind = "reader"
    /\ Janitor \in Actors /\ Janitor.kind = "janitor"
    /\ Detacher \in Actors /\ Detacher.kind = "detacher"
    /\ Watcher \in Actors /\ Watcher.kind = "watcher"
    /\ \A r \in Room : /\ Deadline(r) \in Actors /\ Deadline(r).kind = "deadline" /\ Deadline(r).of = r
                       /\ Cleanup(r) \in Actors /\ Cleanup(r).kind = "cleanup" /\ Cleanup(r).of = r
    /\ \A s \in Session : Release(s) \in Actors /\ Release(s).kind = "release" /\ Release(s).of = s
  BY DEF Actors, Actor, Request, Reader, Janitor, Detacher, Watcher, Deadline, Cleanup, Release

LEMMA ActorCases ==
    ASSUME NEW a \in Actors
    PROVE  /\ a.kind = "request" => a = Request
           /\ a.kind = "reader" => a = Reader
           /\ a.kind = "janitor" => a = Janitor
           /\ a.kind = "detacher" => a = Detacher
           /\ a.kind = "watcher" => a = Watcher
           /\ a.kind = "deadline" => a.of \in Room /\ a = Deadline(a.of)
           /\ a.kind = "cleanup" => a.of \in Room /\ a = Cleanup(a.of)
           /\ a.kind = "release" => a.of \in Session /\ a = Release(a.of)
           /\ a.kind \in {"request", "reader", "janitor", "detacher", "watcher",
                          "deadline", "cleanup", "release"}
  BY DEF Actors, Actor, Request, Reader, Janitor, Detacher, Watcher, Deadline, Cleanup, Release

RoomPhase == {"absent", "waiting", "loading", "starting", "started", "ending", "removed"}
SessionPhase == {"unattached", "open"} \cup Closing \cup Finished
Timers == [TimerKinds -> {"none", "armed", "busy", "stopped"}]
JobRecord == [at : {"idle", "scan", "unregister", "release", "close",
                    "schedule", "wait", "enter", "detached", "select", "force"},
              room : Room \cup {None}, left : SUBSET Room, rooms : SUBSET Room,
              todo : SUBSET Session, cur : Session \cup {None}]
Jobs == {x \in JobRecord : x.cur \in x.todo \cup {None}}
Stages == {"none", "gate", "launching", "janitor", "detach", "stop",
           "close", "workers", "sessions", "watcher", "done"}

ShutdownTypes ==
    /\ closed \in BOOLEAN /\ workersClosing \in BOOLEAN /\ deadline \in BOOLEAN
    /\ shutdown \in Stages /\ joined \subseteq Session
RoomTypes ==
    /\ room \in [Room -> RoomPhase] /\ registered \subseteq Room /\ ids \subseteq Room
    /\ timer \in [Room -> Timers]
SessionTypes == phase \in [Session -> SessionPhase] /\ aborted \subseteq Session
JobTypes == gate \subseteq Actors /\ job \in [Actors -> Jobs]

LEMMA Types == TypeOK <=> ShutdownTypes /\ RoomTypes /\ SessionTypes /\ JobTypes
  <1>1. job \in [Actors -> Jobs] <=>
           job \in [Actors -> JobRecord] /\ \A a \in Actors : job[a].cur \in job[a].todo \cup {None}
    BY DEF Jobs
  <1>2. QED
    BY <1>1 DEF TypeOK, ShutdownTypes, RoomTypes, SessionTypes, JobTypes, RoomPhase, SessionPhase,
               Timers, JobRecord, Stages

LEMMA TypesNext ==
    ASSUME ShutdownTypes', RoomTypes', SessionTypes', JobTypes'
    PROVE  TypeOK'
  <1>1. job' \in [Actors -> Jobs] <=>
           job' \in [Actors -> JobRecord] /\ \A a \in Actors : job'[a].cur \in job'[a].todo \cup {None}
    BY DEF Jobs
  <1>2. QED
    BY <1>1 DEF TypeOK, ShutdownTypes, RoomTypes, SessionTypes, JobTypes, RoomPhase, SessionPhase,
               Timers, JobRecord, Stages

LEMMA IdleType == Idle \in Jobs /\ Idle.at = "idle" /\ Idle.left = {}
  BY DEF Idle, Jobs, JobRecord

LEMMA TimerTypes ==
    ASSUME NEW t \in Timers
    PROVE  /\ StopTimers(t) \in Timers
           /\ \A k \in TimerKinds, v \in {"none", "armed", "busy"} :
                 [t EXCEPT ![k] = v] \in Timers /\ [StopTimers(t) EXCEPT ![k] = v] \in Timers
           /\ [k \in TimerKinds |-> IF t[k] = "stopped" THEN "none" ELSE t[k]] \in Timers
  BY DEF StopTimers, Timers

LEMMA StoppedType ==
    ASSUME RoomTypes, NEW rooms PROVE Stopped(rooms) \in [Room -> Timers]
  BY TimerTypes DEF Stopped, RoomTypes

LEMMA LaunchedType == \A r, k : Launched(r, k) \in {"none", "armed"}
  BY DEF Launched

LEMMA StartCloseType ==
    ASSUME SessionTypes, NEW s
    PROVE  /\ StartClose(s) \in [Session -> SessionPhase]
           /\ \A t \in Session : \/ StartClose(s)[t] = phase[t]
                                 \/ t = s /\ phase[t] = "open" /\ StartClose(s)[t] = "onClose"
  BY DEF StartClose, SessionTypes, SessionPhase, Closing

-----------------------------------------------------------------------------
(* What a step means for the removals in progress.                           *)

OthersKeepJobs(a) == \A b \in Actors \ {a} : job'[b] = job[b]

LEMMA OneJob ==
    ASSUME JobTypes, NEW a \in Actors, NEW x \in Jobs, job' = [job EXCEPT ![a] = x]
    PROVE  job' \in [Actors -> Jobs] /\ job'[a] = x /\ OthersKeepJobs(a)
  BY DEF JobTypes, OthersKeepJobs

\* Nobody takes up a removal or gets on with one.
OwersStay ==
    \A a \in Actors : job'[a].at \in Owing \/ job[a].at \in Owing =>
        job'[a].at = job[a].at /\ job'[a].room = job[a].room
RoomsStay ==
    \A r \in Room : room'[r] = room[r] \/ (room[r] \notin {"absent", "removed"}
                                            /\ room'[r] \notin {"absent", "removed"})

LEMMA OwnedKept ==
    ASSUME Owned, OwersStay, RoomsStay, UNCHANGED <<registered, ids>>
    PROVE  Owned'
  <1>1. OwnersFit'
    BY DEF Owned, OwnersFit, OwersStay, RoomsStay
  <1>2. OneOwner'
    BY DEF Owned, OneOwner, OwersStay
  <1>3. RoomsOwned'
    BY DEF Owned, RoomsOwned, OwersStay, RoomsStay
  <1>4. QED
    BY <1>1, <1>2, <1>3 DEF Owned

\* An actor takes a room that nobody has taken.
LEMMA OwnedTaken ==
    ASSUME RoomTypes, Owned, NEW a \in Actors, NEW r \in Room, job[a].at \notin Owing,
           room[r] \notin {"absent", "removed"},
           room' = [room EXCEPT ![r] = "removed"], UNCHANGED ids,
           OthersKeepJobs(a), job'[a].room = r,
           \/ job'[a].at = "unregister" /\ UNCHANGED registered
           \/ job'[a].at = "release" /\ registered' = registered \ {r}
    PROVE  Owned'
  <1>1. room'[r] = "removed" /\ \A t \in Room \ {r} : room'[t] = room[t]
    BY DEF RoomTypes
  <1>2. r \in registered /\ r \in ids
    BY DEF Owned, RoomsOwned
  <1>3. \A b \in Actors : job[b].at \in Owing => b # a /\ job[b].room # r /\ job'[b] = job[b]
    BY DEF Owned, OwnersFit, OthersKeepJobs
  <1>4. \A b \in Actors : b # a => job'[b] = job[b]
    BY DEF OthersKeepJobs
  <1>5. job'[a].at \in Owing /\ (job'[a].at = "unregister" <=> r \in registered')
    BY <1>2 DEF Owing
  <1>6. \A t \in Room : t # r => (t \in registered' <=> t \in registered)
    OBVIOUS
  <1>7. OwnersFit'
    <2> SUFFICES ASSUME NEW b \in Actors, job'[b].at \in Owing
                 PROVE  /\ job'[b].room \in Room /\ room'[job'[b].room] = "removed" /\ job'[b].room \in ids'
                        /\ job'[b].at = "unregister" <=> job'[b].room \in registered'
      BY DEF OwnersFit
    <2>1. CASE b = a
      BY <1>1, <1>2, <1>5, <2>1
    <2>2. CASE b # a
      BY <1>1, <1>3, <1>4, <1>6, <2>2 DEF Owned, OwnersFit
    <2>3. QED
      BY <2>1, <2>2
  <1>8. OneOwner'
    BY <1>3, <1>4 DEF Owned, OneOwner
  <1>9. RoomsOwned'
    <2> SUFFICES ASSUME NEW t \in Room
                 PROVE  /\ room'[t] = "absent" => t \notin ids'
                        /\ room'[t] \notin {"absent", "removed"} => t \in registered'
                        /\ t \in registered' => t \in ids'
                        /\ room'[t] = "removed" /\ t \in ids' =>
                              \E b \in Actors : job'[b].room = t /\ job'[b].at \in Owing
      BY DEF RoomsOwned
    <2>1. CASE t = r
      BY <1>1, <1>2, <1>5, <2>1
    <2>2. CASE t # r
      BY <1>1, <1>3, <1>6, <2>2 DEF Owned, RoomsOwned
    <2>3. QED
      BY <2>1, <2>2
  <1>10. QED
    BY <1>7, <1>8, <1>9 DEF Owned

LEMMA OwnedUnregistered ==
    ASSUME Owned, NEW a \in Actors, job[a].at = "unregister",
           registered' = registered \ {job[a].room}, UNCHANGED <<room, ids>>,
           OthersKeepJobs(a), job'[a].room = job[a].room, job'[a].at = "release"
    PROVE  Owned'
  <1>1. \A b \in Actors : b # a => job'[b] = job[b]
    BY DEF OthersKeepJobs
  <1>2. \A b \in Actors : job[b].at \in Owing /\ b # a => job[b].room # job[a].room
    BY DEF Owned, OneOwner, Owing
  <1>3. OwnersFit'
    BY <1>1, <1>2 DEF Owned, OwnersFit, Owing
  <1>4. OneOwner'
    BY <1>1, <1>2 DEF Owned, OneOwner, Owing
  <1>5. room[job[a].room] = "removed"
    BY DEF Owned, OwnersFit, Owing
  <1>6. RoomsOwned'
    BY <1>1, <1>5 DEF Owned, RoomsOwned, Owing
  <1>7. QED
    BY <1>3, <1>4, <1>6 DEF Owned

LEMMA OwnedReleased ==
    ASSUME Owned, NEW a \in Actors, job[a].at = "release",
           ids' = ids \ {job[a].room}, UNCHANGED <<room, registered>>,
           OthersKeepJobs(a), job'[a].at \notin Owing
    PROVE  Owned'
  <1>1. \A b \in Actors : b # a => job'[b] = job[b]
    BY DEF OthersKeepJobs
  <1>2. \A b \in Actors : job[b].at \in Owing /\ b # a => job[b].room # job[a].room
    BY DEF Owned, OneOwner, Owing
  <1>3. /\ room[job[a].room] = "removed" /\ job[a].room \notin registered
    BY DEF Owned, OwnersFit, Owing
  <1>4. OwnersFit'
    BY <1>1, <1>2 DEF Owned, OwnersFit
  <1>5. OneOwner'
    BY <1>1 DEF Owned, OneOwner
  <1>6. RoomsOwned'
    <2> SUFFICES ASSUME NEW t \in Room
                 PROVE  /\ room[t] = "absent" => t \notin ids'
                        /\ room[t] \notin {"absent", "removed"} => t \in registered
                        /\ t \in registered => t \in ids'
                        /\ room[t] = "removed" /\ t \in ids' =>
                              \E b \in Actors : job'[b].room = t /\ job'[b].at \in Owing
      BY DEF RoomsOwned
    <2>1. CASE t = job[a].room
      BY <1>3, <2>1
    <2>2. CASE t # job[a].room
      BY <1>1, <2>2 DEF Owned, RoomsOwned
    <2>3. QED
      BY <2>1, <2>2
  <1>7. QED
    BY <1>4, <1>5, <1>6 DEF Owned

\* Jobs, when one actor moves or none does.
NoRoomVanishes == \A r \in Room : room[r] # "absent" => room'[r] # "absent"

LEMMA JobsFitStep ==
    ASSUME JobTypes, JobsFit, NoRoomVanishes, NEW a \in Actors, OthersKeepJobs(a), JobFits(a)'
    PROVE  JobsFit'
  <1> SUFFICES ASSUME NEW b \in Actors, b # a PROVE JobFits(b)'
    BY DEF JobsFit
  <1>1. job'[b] = job[b] /\ job[b].left \subseteq Room
    BY DEF OthersKeepJobs, JobTypes, Jobs, JobRecord
  <1>2. QED
    BY <1>1 DEF JobsFit, JobFits, NoRoomVanishes

LEMMA JobsFitKept ==
    ASSUME JobTypes, JobsFit, NoRoomVanishes, UNCHANGED job PROVE JobsFit'
  <1>1. \A b \in Actors : job[b].left \subseteq Room
    BY DEF JobTypes, Jobs, JobRecord
  <1>2. QED
    BY <1>1 DEF JobsFit, JobFits, NoRoomVanishes

-----------------------------------------------------------------------------
(* The steps, by what they do to a removal.                                  *)

StoreTypes == ShutdownTypes /\ RoomTypes /\ SessionTypes

\* No removal is touched.
LEMMA StepKeeps ==
    ASSUME TeardownInv, RoomsStay, UNCHANGED <<registered, ids, job>>,
           StoreTypes', gate' \subseteq Actors
    PROVE  TeardownInv'
  <1>1. JobTypes /\ NoRoomVanishes /\ OwersStay
    BY Types DEF TeardownInv, NoRoomVanishes, RoomsStay, OwersStay
  <1>2. Owned'
    BY <1>1, OwnedKept DEF TeardownInv
  <1>3. JobsFit'
    BY <1>1, JobsFitKept DEF TeardownInv
  <1>4. JobTypes'
    BY <1>1 DEF JobTypes
  <1>5. QED
    BY <1>2, <1>3, <1>4, TypesNext DEF TeardownInv, StoreTypes

\* An actor goes on with a job, but not with a removal.
LEMMA StepWorks ==
    ASSUME TeardownInv, RoomsStay, UNCHANGED <<registered, ids>>,
           NEW a \in Actors, NEW x \in Jobs, job' = [job EXCEPT ![a] = x],
           job[a].at \notin Owing, x.at \notin Owing, JobFits(a)',
           StoreTypes', gate' \subseteq Actors
    PROVE  TeardownInv'
  <1>1. JobTypes /\ NoRoomVanishes
    BY Types DEF TeardownInv, NoRoomVanishes, RoomsStay
  <1>2. job' \in [Actors -> Jobs] /\ job'[a] = x /\ OthersKeepJobs(a)
    BY <1>1, OneJob
  <1>3. OwersStay
    BY <1>2 DEF OwersStay, OthersKeepJobs
  <1>4. Owned'
    BY <1>3, OwnedKept DEF TeardownInv
  <1>5. JobsFit'
    BY <1>1, <1>2, JobsFitStep DEF TeardownInv
  <1>6. JobTypes'
    BY <1>2 DEF JobTypes
  <1>7. QED
    BY <1>4, <1>5, <1>6, TypesNext DEF TeardownInv, StoreTypes

\* An actor takes a room.
LEMMA StepTakes ==
    ASSUME TeardownInv, NEW a \in Actors, NEW r \in Room, NEW x \in Jobs,
           job' = [job EXCEPT ![a] = x], job[a].at \notin Owing, x.room = r, JobFits(a)',
           room[r] \notin {"absent", "removed"}, room' = [room EXCEPT ![r] = "removed"],
           \/ x.at = "unregister" /\ UNCHANGED registered
           \/ x.at = "release" /\ registered' = registered \ {r},
           UNCHANGED ids, ShutdownTypes', SessionTypes', timer' \in [Room -> Timers],
           gate' \subseteq Actors
    PROVE  TeardownInv'
  <1>1. JobTypes /\ RoomTypes
    BY Types DEF TeardownInv
  <1>2. job' \in [Actors -> Jobs] /\ job'[a] = x /\ OthersKeepJobs(a)
    BY <1>1, OneJob
  <1>3. NoRoomVanishes /\ RoomTypes'
    BY <1>1 DEF RoomTypes, NoRoomVanishes, RoomPhase
  <1>4. Owned'
    BY <1>1, <1>2, OwnedTaken DEF TeardownInv
  <1>5. JobsFit'
    BY <1>1, <1>2, <1>3, JobsFitStep DEF TeardownInv
  <1>6. JobTypes'
    BY <1>2 DEF JobTypes
  <1>7. QED
    BY <1>3, <1>4, <1>5, <1>6, TypesNext DEF TeardownInv

-----------------------------------------------------------------------------
(* Rooms and connections.                                                    *)

LEMMA CreateRoomOwned ==
    ASSUME TeardownInv, NEW r \in Room, CreateRoom(r) PROVE TeardownInv'
  <1>1. ShutdownTypes /\ RoomTypes /\ SessionTypes /\ JobTypes
    BY Types DEF TeardownInv
  <1>2. ShutdownTypes' /\ SessionTypes' /\ JobTypes'
    BY <1>1 DEF CreateRoom, ShutdownTypes, SessionTypes, JobTypes, shutdownVars, sessionVars
  <1>3. [timer[r] EXCEPT !["botfill"] = Launched(r, "botfill")] \in Timers
    BY <1>1, TimerTypes, LaunchedType DEF RoomTypes, TimerKinds
  <1>4. timer' = [timer EXCEPT ![r] = [timer[r] EXCEPT !["botfill"] = Launched(r, "botfill")]]
    BY DEF CreateRoom
  <1>5. RoomTypes'
    BY <1>1, <1>3, <1>4 DEF CreateRoom, RoomTypes, RoomPhase
  <1>6. /\ room[r] = "absent" /\ room'[r] = "waiting"
        /\ \A t \in Room \ {r} : room'[t] = room[t]
        /\ registered' = registered \cup {r} /\ ids' = ids \cup {r} /\ job' = job
    BY <1>1 DEF CreateRoom, RoomTypes
  <1>7. r \notin ids /\ \A a \in Actors : job[a].at \in Owing => job[a].room # r
    BY <1>6 DEF TeardownInv, Owned, OwnersFit, RoomsOwned
  <1>8. OwnersFit'
    BY <1>6, <1>7 DEF TeardownInv, Owned, OwnersFit
  <1>9. OneOwner'
    BY <1>6 DEF TeardownInv, Owned, OneOwner
  <1>10. RoomsOwned'
    <2> SUFFICES ASSUME NEW t \in Room
                 PROVE  /\ room'[t] = "absent" => t \notin ids'
                        /\ room'[t] \notin {"absent", "removed"} => t \in registered'
                        /\ t \in registered' => t \in ids'
                        /\ room'[t] = "removed" /\ t \in ids' =>
                              \E b \in Actors : job'[b].room = t /\ job'[b].at \in Owing
      BY DEF RoomsOwned
    <2>1. CASE t = r
      BY <1>6, <2>1
    <2>2. CASE t # r
      BY <1>6, <2>2 DEF TeardownInv, Owned, RoomsOwned
    <2>3. QED
      BY <2>1, <2>2
  <1>11. NoRoomVanishes
    BY <1>6 DEF NoRoomVanishes
  <1>12. JobsFit'
    BY <1>1, <1>6, <1>11, JobsFitKept DEF TeardownInv
  <1>13. QED
    BY <1>2, <1>5, <1>8, <1>9, <1>10, <1>12, TypesNext DEF TeardownInv, Owned

\* A room between its creation and its end changes phase, or only its workers.
LEMMA RoomPhasesOwned ==
    ASSUME TeardownInv, NEW r \in Room,
           NEW p \in RoomPhase \ {"absent", "removed"}, NEW t \in Timers,
           p = room[r] \/ room[r] \notin {"absent", "removed"},
           room' = [room EXCEPT ![r] = p], timer' = [timer EXCEPT ![r] = t],
           UNCHANGED <<shutdownVars, gate, registered, ids, sessionVars, job>>
    PROVE  TeardownInv'
  <1>1. ShutdownTypes /\ RoomTypes /\ SessionTypes /\ JobTypes
    BY Types DEF TeardownInv
  <1>2. StoreTypes' /\ gate' \subseteq Actors
    BY <1>1 DEF StoreTypes, ShutdownTypes, RoomTypes, SessionTypes, JobTypes, shutdownVars, sessionVars
  <1>3. RoomsStay
    BY <1>1 DEF RoomsStay, RoomTypes
  <1>4. QED
    BY <1>2, <1>3, StepKeeps

LEMMA TimersOwned ==
    ASSUME TeardownInv, timer' \in [Room -> Timers],
           UNCHANGED <<shutdownVars, gate, room, registered, ids, sessionVars, job>>
    PROVE  TeardownInv'
  <1>1. ShutdownTypes /\ RoomTypes /\ SessionTypes /\ JobTypes
    BY Types DEF TeardownInv
  <1>2. StoreTypes' /\ gate' \subseteq Actors
    BY <1>1 DEF StoreTypes, ShutdownTypes, RoomTypes, SessionTypes, JobTypes, shutdownVars, sessionVars
  <1>3. RoomsStay
    BY DEF RoomsStay
  <1>4. QED
    BY <1>2, <1>3, StepKeeps

LEMMA PhasesOwned ==
    ASSUME TeardownInv, SessionTypes', UNCHANGED <<shutdownVars, gate, roomVars, job>>
    PROVE  TeardownInv'
  <1>1. ShutdownTypes /\ RoomTypes /\ SessionTypes /\ JobTypes
    BY Types DEF TeardownInv
  <1>2. StoreTypes' /\ gate' \subseteq Actors
    BY <1>1 DEF StoreTypes, ShutdownTypes, RoomTypes, JobTypes, shutdownVars, roomVars
  <1>3. RoomsStay /\ UNCHANGED <<registered, ids>>
    BY DEF RoomsStay, roomVars
  <1>4. QED
    BY <1>2, <1>3, StepKeeps

LEMMA RoomProgressOwned ==
    ASSUME TeardownInv, NEW r \in Room,
           \/ MatchRoom(r) \/ FillBots(r) \/ ReadyRoom(r) \/ DebugStart(r)
           \/ StartRoom(r) \/ WorkersExit(r)
    PROVE  TeardownInv'
  <1>1. room \in [Room -> RoomPhase] /\ timer \in [Room -> Timers] /\ timer[r] \in Timers
    BY Types DEF TeardownInv, RoomTypes
  <1>2. \A k \in TimerKinds :
           /\ [StopTimers(timer[r]) EXCEPT ![k] = Launched(r, k)] \in Timers
           /\ [timer[r] EXCEPT ![k] = "none"] \in Timers
           /\ [timer[r] EXCEPT ![k] = Launched(r, k)] \in Timers
    BY <1>1, TimerTypes, LaunchedType
  <1>3. CASE MatchRoom(r)
    BY <1>1, <1>2, <1>3, RoomPhasesOwned DEF MatchRoom, RoomPhase, TimerKinds
  <1>4. CASE ReadyRoom(r)
    BY <1>1, <1>2, <1>4, RoomPhasesOwned DEF ReadyRoom, RoomPhase, TimerKinds
  <1>5. CASE DebugStart(r)
    BY <1>1, <1>2, <1>5, RoomPhasesOwned DEF DebugStart, RoomPhase, TimerKinds
  <1>6. CASE FillBots(r)
    <2> DEFINE t == [[timer[r] EXCEPT !["botfill"] = "none"] EXCEPT !["deadline"] = Launched(r, "deadline")]
    <2>1. t \in Timers
      BY <1>2, TimerTypes, LaunchedType DEF TimerKinds
    <2>2. CASE room[r] = "waiting" /\ room' = [room EXCEPT ![r] = "loading"]
                 /\ timer' = [timer EXCEPT ![r] = t]
      <3> HIDE DEF t
      <3> QED
        BY <1>6, <2>1, <2>2, RoomPhasesOwned DEF FillBots, RoomPhase
    <2>3. CASE room' = room /\ timer' = [timer EXCEPT ![r] = [timer[r] EXCEPT !["botfill"] = "none"]]
      BY <1>1, <1>2, <1>6, <2>3, TimersOwned DEF FillBots, TimerKinds
    <2>4. QED
      BY <1>1, <1>6, <2>2, <2>3 DEF FillBots
  <1>7. CASE StartRoom(r)
    <2> DEFINE u == [timer[r] EXCEPT !["countdown"] = "none"]
               t == [u EXCEPT !["tick"] = Launched(r, "tick")]
    <2>1. u \in Timers /\ t \in Timers
      BY <1>2, TimerTypes, LaunchedType DEF TimerKinds
    <2>2. \/ /\ room[r] = "starting" /\ room' = [room EXCEPT ![r] = "started"]
             /\ timer' = [timer EXCEPT ![r] = t]
          \/ room' = room /\ timer' = [timer EXCEPT ![r] = u]
      BY <1>1, <1>7 DEF StartRoom, Timers, TimerKinds
    <2> HIDE DEF u, t
    <2>3. UNCHANGED <<shutdownVars, gate, registered, ids, sessionVars, job>>
      BY <1>7 DEF StartRoom
    <2>4. timer' = [timer EXCEPT ![r] = u] => timer' \in [Room -> Timers]
      BY <1>1, <2>1
    <2>5. QED
      BY <2>1, <2>2, <2>3, <2>4, RoomPhasesOwned, TimersOwned DEF RoomPhase
  <1>8. CASE WorkersExit(r)
    BY <1>1, <1>8, TimerTypes, TimersOwned DEF WorkersExit
  <1>9. QED
    BY <1>3, <1>4, <1>5, <1>6, <1>7, <1>8

LEMMA ClientsType == \A r : Clients(r) \subseteq Session
  BY DEF Clients

\* A fresh job
LEMMA FreshJob ==
    ASSUME NEW at \in {"scan", "unregister", "release", "close", "schedule", "force"},
           NEW r \in Room \cup {None}, NEW left \in SUBSET Room, NEW rooms \in SUBSET Room,
           NEW todo \in SUBSET Session
    PROVE  /\ [Idle EXCEPT !.at = at, !.room = r, !.left = left, !.rooms = rooms, !.todo = todo] \in Jobs
           /\ [Idle EXCEPT !.at = at, !.room = r, !.rooms = rooms, !.todo = todo] \in Jobs
           /\ [Idle EXCEPT !.at = at, !.left = left] \in Jobs
           /\ [Idle EXCEPT !.at = at, !.todo = todo] \in Jobs
  BY DEF Idle, Jobs, JobRecord

\* A job that is under way
LEMMA JobMoves ==
    ASSUME NEW j \in Jobs, NEW at \in {"scan", "release", "close", "wait", "enter", "detached", "select"}
    PROVE  /\ [j EXCEPT !.at = at] \in Jobs
           /\ [j EXCEPT !.at = at].at = at /\ [j EXCEPT !.at = at].room = j.room
           /\ [j EXCEPT !.at = at].left = j.left /\ [j EXCEPT !.at = at].todo = j.todo
  BY DEF Jobs, JobRecord

LEMMA JobDropsRoom ==
    ASSUME NEW j \in Jobs, NEW at \in {"scan", "close"}
    PROVE  LET x == [j EXCEPT !.at = at, !.room = None]
           IN  x \in Jobs /\ x.at = at /\ x.left = j.left
  BY DEF Jobs, JobRecord

LEMMA JobVisits ==
    ASSUME NEW j \in Jobs, NEW r \in Room
    PROVE  LET x == [j EXCEPT !.left = j.left \ {r}]
           IN  x \in Jobs /\ x.at = j.at /\ x.left = j.left \ {r}
  BY DEF Jobs, JobRecord

LEMMA JobTakes ==
    ASSUME NEW j \in Jobs, NEW r \in Room, NEW more \in SUBSET Session
    PROVE  LET x == [j EXCEPT !.at = "unregister", !.room = r, !.left = j.left \ {r},
                              !.rooms = j.rooms \cup {r}, !.todo = j.todo \cup more]
           IN  x \in Jobs /\ x.at = "unregister" /\ x.room = r /\ x.left = j.left \ {r}
  BY DEF Jobs, JobRecord

LEMMA JobCloses ==
    ASSUME NEW j \in Jobs, NEW c \in j.todo
    PROVE  LET x == [j EXCEPT !.cur = c]
           IN  x \in Jobs /\ x.at = j.at /\ x.left = j.left
  BY DEF Jobs, JobRecord

LEMMA JobClosed ==
    ASSUME NEW j \in Jobs, NEW c
    PROVE  LET x == [j EXCEPT !.cur = None, !.todo = j.todo \ {c}]
           IN  x \in Jobs /\ x.at = j.at /\ x.left = j.left
  BY DEF Jobs, JobRecord

LEMMA EndGameOwned ==
    ASSUME TeardownInv, NEW r \in Room, EndGame(r) PROVE TeardownInv'
  <1>1. /\ ShutdownTypes /\ RoomTypes /\ SessionTypes /\ JobTypes
        /\ Cleanup(r) \in Actors /\ Cleanup(r).kind = "cleanup"
    BY Types, ActorKinds DEF TeardownInv
  <1> DEFINE x == [Idle EXCEPT !.at = "schedule", !.todo = Clients(r)]
  <1>2. x \in Jobs /\ x.at = "schedule" /\ x.left = {}
    BY FreshJob, ClientsType, IdleType DEF Idle
  <1>3. job' = [job EXCEPT ![Cleanup(r)] = x]
    BY DEF EndGame
  <1> HIDE DEF x
  <1>4. [timer[r] EXCEPT !["tick"] = "busy"] \in Timers
    BY <1>1, TimerTypes DEF RoomTypes, TimerKinds
  <1>5. RoomTypes'
    BY <1>1, <1>4 DEF EndGame, RoomTypes, RoomPhase
  <1>6. StoreTypes' /\ gate' \subseteq Actors /\ UNCHANGED <<registered, ids>>
    BY <1>1, <1>5 DEF EndGame, StoreTypes, ShutdownTypes, SessionTypes, JobTypes, shutdownVars, sessionVars
  <1>7. RoomsStay
    BY <1>1 DEF EndGame, RoomsStay, RoomTypes
  <1>8. job'[Cleanup(r)] = x
    BY <1>1, <1>2, <1>3, OneJob
  <1>9. JobFits(Cleanup(r))'
    BY <1>1, <1>2, <1>8 DEF JobFits, Owing
  <1>10. CASE job[Cleanup(r)].at \notin Owing
    BY <1>1, <1>2, <1>3, <1>6, <1>7, <1>9, <1>10, StepWorks DEF Owing
  <1>11. CASE job[Cleanup(r)].at \in Owing
    <2>1. Cleanup(r).of = r
      BY ActorKinds
    <2>2. job[Cleanup(r)].room = r
      BY <1>1, <1>11, <2>1 DEF TeardownInv, JobsFit, JobFits
    <2>3. room[r] = "removed"
      BY <1>1, <1>11, <2>2 DEF TeardownInv, Owned, OwnersFit
    <2>4. QED
      BY <2>3 DEF EndGame
  <1>12. QED
    BY <1>10, <1>11

LEMMA SessionPhasesOwned ==
    ASSUME TeardownInv, NEW s \in Session,
           AttachClient(s) \/ PeerCloses(s) \/ FinishClose(s) \/ ForgetSession(s)
    PROVE  TeardownInv'
  <1>1. SessionTypes
    BY Types DEF TeardownInv
  <1>2. CASE AttachClient(s)
    BY <1>1, <1>2, PhasesOwned DEF AttachClient, SessionTypes, SessionPhase
  <1>3. CASE PeerCloses(s)
    <2>1. SessionTypes'
      BY <1>1, <1>3, StartCloseType DEF PeerCloses, SessionTypes
    <2>2. QED
      BY <1>3, <2>1, PhasesOwned DEF PeerCloses
  <1>4. CASE FinishClose(s)
    BY <1>1, <1>4, PhasesOwned DEF FinishClose, SessionTypes, SessionPhase, Finished
  <1>5. CASE ForgetSession(s)
    BY <1>1, <1>5, PhasesOwned DEF ForgetSession, SessionTypes, SessionPhase, Finished
  <1>6. QED
    BY <1>2, <1>3, <1>4, <1>5

\* A disconnect before the start takes the room of the session.
LEMMA ReleaseClientOwned ==
    ASSUME TeardownInv, NEW s \in Session, ReleaseClient(s) PROVE TeardownInv'
  <1>1. /\ ShutdownTypes /\ RoomTypes /\ SessionTypes /\ JobTypes
        /\ Release(s) \in Actors /\ Release(s).kind = "release"
        /\ RoomOf[s] \in Room
    BY Types, ActorKinds, RoomOfAssumption DEF TeardownInv
  <1>2. SessionTypes'
    BY <1>1 DEF ReleaseClient, SessionTypes, SessionPhase, Closing, sessionVars
  <1>3. CASE room[RoomOf[s]] \in {"loading", "starting"}
    <2> DEFINE r == RoomOf[s]
               x == [Idle EXCEPT !.at = "unregister", !.room = r, !.rooms = {r},
                                 !.todo = Clients(r) \ {s}]
    <2>1. x \in Jobs
      <3>1. r \in Room \cup {None} /\ {r} \in SUBSET Room /\ Clients(r) \ {s} \in SUBSET Session
        BY <1>1, ClientsType
      <3> HIDE DEF r
      <3>2. QED
        BY <3>1, FreshJob
    <2>2. x.at = "unregister" /\ x.room = r /\ x.left = {}
      BY DEF Idle
    <2>3. /\ job' = [job EXCEPT ![Release(s)] = x] /\ room' = [room EXCEPT ![r] = "removed"]
          /\ job[Release(s)] = Idle
          /\ UNCHANGED <<shutdownVars, gate, registered, ids, timer>>
      BY <1>3 DEF ReleaseClient
    <2> HIDE DEF x
    <2>4. JobFits(Release(s))'
      BY <1>1, <2>1, <2>2, <2>3, OneJob DEF JobFits
    <2>5. job[Release(s)].at \notin Owing
      BY <2>3, IdleType DEF Owing
    <2>6. ShutdownTypes' /\ timer' \in [Room -> Timers] /\ gate' \subseteq Actors
      BY <1>1, <2>3 DEF ShutdownTypes, RoomTypes, JobTypes, shutdownVars
    <2>7. QED
      BY <1>1, <1>2, <1>3, <2>1, <2>2, <2>3, <2>4, <2>5, <2>6, StepTakes
  <1>4. CASE room[RoomOf[s]] \notin {"loading", "starting"}
    BY <1>2, <1>4, PhasesOwned DEF ReleaseClient, roomVars
  <1>5. QED
    BY <1>3, <1>4

-----------------------------------------------------------------------------
(* Teardown jobs.                                                            *)

\* A job that is not a removal starts, goes on or ends; the rooms stay.
LEMMA WorkOwned ==
    ASSUME TeardownInv, NEW a \in Actors, NEW x \in Jobs, job' = [job EXCEPT ![a] = x],
           job[a].at \notin Owing, x.at \notin Owing,
           \A r \in x.left : room[r] # "absent",
           x.at = "scan" => a.kind \in {"request", "janitor", "detacher"},
           a.kind = "watcher" => x.at \in {"idle", "select", "force"},
           a.kind = "detacher" => x.at \in {"idle", "scan", "detached"},
           UNCHANGED <<room, registered, ids>>, timer' \in [Room -> Timers],
           ShutdownTypes', SessionTypes', gate' \subseteq Actors
    PROVE  TeardownInv'
  <1>1. RoomTypes /\ JobTypes
    BY Types DEF TeardownInv
  <1>2. StoreTypes'
    BY <1>1 DEF StoreTypes, RoomTypes
  <1>3. job'[a] = x
    BY <1>1, OneJob
  <1>4. JobFits(a)'
    BY <1>3 DEF JobFits
  <1>5. RoomsStay
    BY DEF RoomsStay
  <1>6. QED
    BY <1>2, <1>4, <1>5, StepWorks

LEMMA ScanRoomOwned ==
    ASSUME TeardownInv, NEW a \in Actors, NEW r \in Room, ScanRoom(a, r) PROVE TeardownInv'
  <1>1. /\ ShutdownTypes /\ RoomTypes /\ SessionTypes /\ JobTypes /\ job[a] \in Jobs
        /\ job[a].left \subseteq Room
    BY Types DEF TeardownInv, JobTypes, Jobs, JobRecord
  <1>2. /\ ShutdownTypes' /\ SessionTypes' /\ timer' \in [Room -> Timers] /\ gate' \subseteq Actors
        /\ UNCHANGED <<registered, ids>>
    BY <1>1 DEF ScanRoom, ShutdownTypes, SessionTypes, RoomTypes, JobTypes, shutdownVars, sessionVars
  <1>3. /\ job[a].at = "scan" /\ job[a].at \notin Owing /\ r \in job[a].left
        /\ a.kind \in {"request", "janitor", "detacher"}
        /\ \A t \in job[a].left : room[t] # "absent"
    BY DEF ScanRoom, TeardownInv, JobsFit, JobFits, Owing
  <1>4. CASE /\ MayTake(a, r) /\ room' = [room EXCEPT ![r] = "removed"]
             /\ job' = [job EXCEPT ![a].at = "unregister", ![a].room = r, ![a].left = @ \ {r},
                                   ![a].rooms = @ \cup {r}, ![a].todo = @ \cup Clients(r)]
    <2> DEFINE x == [job[a] EXCEPT !.at = "unregister", !.room = r, !.left = job[a].left \ {r},
                                   !.rooms = job[a].rooms \cup {r},
                                   !.todo = job[a].todo \cup Clients(r)]
    <2>1. Clients(r) \in SUBSET Session
      BY ClientsType
    <2>2. x \in Jobs /\ x.at = "unregister" /\ x.room = r /\ x.left = job[a].left \ {r}
      BY <1>1, <2>1, JobTakes
    <2>3. job' = [job EXCEPT ![a] = x]
      BY <1>1, <1>4 DEF JobTypes, Jobs, JobRecord
    <2> HIDE DEF x
    <2>4. room[r] \notin {"absent", "removed"}
      BY <1>3, <1>4 DEF MayTake
    <2>5. job'[a] = x
      BY <1>1, <2>2, <2>3, OneJob
    <2>6. JobFits(a)'
      BY <1>1, <1>3, <1>4, <2>2, <2>5 DEF JobFits, Owing, RoomTypes
    <2>7. QED
      BY <1>2, <1>3, <1>4, <2>2, <2>3, <2>4, <2>6, StepTakes
  <1>5. CASE UNCHANGED room /\ job' = [job EXCEPT ![a].left = @ \ {r}]
    <2> DEFINE x == [job[a] EXCEPT !.left = job[a].left \ {r}]
    <2>1. x \in Jobs /\ x.at = job[a].at /\ x.left = job[a].left \ {r}
      BY <1>1, JobVisits
    <2>2. job' = [job EXCEPT ![a] = x]
      BY <1>1, <1>5 DEF JobTypes, Jobs, JobRecord
    <2> HIDE DEF x
    <2>3. QED
      BY <1>2, <1>3, <1>5, <2>1, <2>2, WorkOwned
  <1>6. QED
    BY <1>4, <1>5 DEF ScanRoom

LEMMA JobFacts ==
    ASSUME TeardownInv, NEW a \in Actors
    PROVE  /\ ShutdownTypes /\ RoomTypes /\ SessionTypes /\ JobTypes
           /\ job[a] \in Jobs /\ job[a].left \subseteq Room /\ job[a].todo \subseteq Session
           /\ \A r \in job[a].left : room[r] # "absent"
           /\ job[a].at = "scan" => a.kind \in {"request", "janitor", "detacher"}
           /\ a.kind = "watcher" => job[a].at \in {"idle", "select", "force"}
           /\ a.kind = "detacher" => job[a].at \in {"idle", "scan", "detached"} \cup Owing
  BY Types DEF TeardownInv, JobTypes, Jobs, JobRecord, JobsFit, JobFits

LEMMA FinishScanOwned ==
    ASSUME TeardownInv, NEW a \in Actors, FinishScan(a) PROVE TeardownInv'
  <1>1. /\ ShutdownTypes' /\ SessionTypes' /\ gate' \subseteq Actors
        /\ UNCHANGED <<room, registered, ids>>
    BY JobFacts DEF FinishScan, Leave, ShutdownTypes, SessionTypes, JobTypes, shutdownVars, sessionVars
  <1>2. timer' \in [Room -> Timers]
    BY JobFacts, StoppedType DEF FinishScan, RoomTypes
  <1>3. job[a].at = "scan" /\ job[a].at \notin Owing /\ job[a].left = {} /\ a.kind # "watcher"
    BY JobFacts DEF FinishScan, Owing
  <1>4. CASE a = Detacher
    <2> DEFINE x == [job[a] EXCEPT !.at = "detached"]
    <2>1. x \in Jobs /\ x.at = "detached" /\ x.left = {}
      BY <1>3, JobFacts, JobMoves
    <2>2. job' = [job EXCEPT ![a] = x]
      BY <1>4 DEF FinishScan
    <2> HIDE DEF x
    <2>3. QED
      BY <1>1, <1>2, <1>3, <2>1, <2>2, WorkOwned DEF Owing
  <1>5. CASE a # Detacher
    <2> DEFINE x == IF job[a].todo = {} THEN Idle ELSE [job[a] EXCEPT !.at = "close"]
    <2>1. x \in Jobs /\ x.at \in {"idle", "close"} /\ x.left = {}
      BY <1>3, JobFacts, IdleType, JobMoves
    <2>2. job' = [job EXCEPT ![a] = x]
      BY <1>5 DEF FinishScan
    <2>3. a.kind # "detacher"
      BY <1>5, ActorCases
    <2> HIDE DEF x
    <2>4. QED
      BY <1>1, <1>2, <1>3, <2>1, <2>2, <2>3, WorkOwned DEF Owing
  <1>6. QED
    BY <1>4, <1>5

LEMMA UnregisterOwned ==
    ASSUME TeardownInv, NEW a \in Actors, Unregister(a) PROVE TeardownInv'
  <1> DEFINE x == [job[a] EXCEPT !.at = "release"]
  <1>1. x \in Jobs /\ x.at = "release" /\ x.room = job[a].room /\ x.left = job[a].left
    BY JobFacts, JobMoves
  <1>2. job' = [job EXCEPT ![a] = x]
    BY DEF Unregister
  <1> HIDE DEF x
  <1>3. job' \in [Actors -> Jobs] /\ job'[a] = x /\ OthersKeepJobs(a)
    BY <1>1, <1>2, JobFacts, OneJob
  <1>4. Owned'
    BY <1>1, <1>3, OwnedUnregistered DEF Unregister, TeardownInv
  <1>5. JobFits(a)'
    BY <1>1, <1>3 DEF Unregister, TeardownInv, JobsFit, JobFits, Owing
  <1>6. JobsFit'
    BY <1>3, <1>5, JobFacts, JobsFitStep DEF Unregister, TeardownInv, NoRoomVanishes
  <1>7. ShutdownTypes' /\ RoomTypes' /\ SessionTypes' /\ JobTypes'
    BY <1>3, JobFacts DEF Unregister, ShutdownTypes, RoomTypes, SessionTypes, JobTypes, shutdownVars, sessionVars
  <1>8. QED
    BY <1>4, <1>6, <1>7, TypesNext DEF TeardownInv

LEMMA ReleaseIdsOwned ==
    ASSUME TeardownInv, NEW a \in Actors, ReleaseIds(a) PROVE TeardownInv'
  <1> DEFINE next == IF Scanning(a) THEN "scan" ELSE "close"
             x == [job[a] EXCEPT !.at = next, !.room = None]
  <1>1. next \in {"scan", "close"}
    OBVIOUS
  <1>2. job' = [job EXCEPT ![a] = x]
    BY DEF ReleaseIds
  <1>3. next = "scan" <=> Scanning(a)
    OBVIOUS
  <1> HIDE DEF next
  <1>4. x \in Jobs /\ x.at = next /\ x.left = job[a].left
    <2>1. job[a] \in Jobs
      BY JobFacts
    <2>2. QED
      BY <1>1, <2>1, JobDropsRoom
  <1> HIDE DEF x
  <1>5. job' \in [Actors -> Jobs] /\ job'[a] = x /\ OthersKeepJobs(a)
    BY <1>2, <1>4, JobFacts, OneJob
  <1>6. Owned'
    BY <1>1, <1>4, <1>5, OwnedReleased DEF ReleaseIds, TeardownInv, Owing
  <1>7. /\ next = "scan" => a.kind \in {"request", "janitor", "detacher"}
        /\ a.kind = "detacher" => next = "scan"
    BY <1>1, <1>3, ActorCases, ActorKinds DEF Scanning
  <1>8. a.kind # "watcher"
    BY JobFacts DEF ReleaseIds
  <1>9. JobFits(a)'
    BY <1>1, <1>4, <1>5, <1>7, <1>8, JobFacts DEF ReleaseIds, JobFits, Owing
  <1>10. JobsFit'
    BY <1>5, <1>9, JobFacts, JobsFitStep DEF ReleaseIds, TeardownInv, NoRoomVanishes
  <1>11. timer' \in [Room -> Timers]
    BY JobFacts, StoppedType DEF ReleaseIds, RoomTypes
  <1>12. ShutdownTypes' /\ RoomTypes' /\ SessionTypes' /\ JobTypes'
    BY <1>5, <1>11, JobFacts
       DEF ReleaseIds, ShutdownTypes, RoomTypes, SessionTypes, JobTypes, shutdownVars, sessionVars
  <1>13. QED
    BY <1>6, <1>10, <1>12, TypesNext DEF TeardownInv

LEMMA ClosesOwned ==
    ASSUME TeardownInv, NEW a \in Actors, CloseNext(a) \/ CloseReturns(a) \/ FinishJob(a)
    PROVE  TeardownInv'
  <1>1. /\ job[a].at = "close" /\ job[a].at \notin Owing /\ a.kind \notin {"watcher", "detacher"}
        /\ UNCHANGED <<room, registered, ids>>
    BY JobFacts DEF CloseNext, CloseReturns, FinishJob, Owing, roomVars
  <1>2. ShutdownTypes' /\ gate' \subseteq Actors
    BY JobFacts DEF CloseNext, CloseReturns, FinishJob, Leave, ShutdownTypes, JobTypes, shutdownVars
  <1>3. CASE CloseNext(a)
    <2>1. PICK s \in job[a].todo : phase' = StartClose(s) /\ job' = [job EXCEPT ![a].cur = s]
      BY <1>3 DEF CloseNext
    <2> DEFINE x == [job[a] EXCEPT !.cur = s]
    <2>2. x \in Jobs /\ x.at = "close" /\ x.left = job[a].left
      BY <1>1, JobFacts, JobCloses
    <2>3. job' = [job EXCEPT ![a] = x]
      BY <2>1
    <2> HIDE DEF x
    <2>4. SessionTypes' /\ timer' \in [Room -> Timers]
      BY <1>3, <2>1, JobFacts, StartCloseType DEF CloseNext, SessionTypes, RoomTypes, roomVars
    <2>5. QED
      BY <1>1, <1>2, <2>2, <2>3, <2>4, JobFacts, WorkOwned DEF Owing
  <1>4. CASE CloseReturns(a)
    <2> DEFINE x == [job[a] EXCEPT !.cur = None, !.todo = job[a].todo \ {job[a].cur}]
    <2>1. x \in Jobs /\ x.at = "close" /\ x.left = job[a].left
      BY <1>1, JobFacts, JobClosed
    <2>2. job' = [job EXCEPT ![a] = x]
      BY <1>4, JobFacts DEF CloseReturns, JobTypes, Jobs, JobRecord
    <2> HIDE DEF x
    <2>3. SessionTypes' /\ timer' \in [Room -> Timers]
      BY <1>4, JobFacts DEF CloseReturns, SessionTypes, RoomTypes, roomVars, sessionVars
    <2>4. QED
      BY <1>1, <1>2, <2>1, <2>2, <2>3, JobFacts, WorkOwned DEF Owing
  <1>5. CASE FinishJob(a)
    <2>1. job' = [job EXCEPT ![a] = Idle]
      BY <1>5 DEF FinishJob
    <2>2. SessionTypes'
      BY <1>5, JobFacts, ActorCases DEF FinishJob, SessionTypes, SessionPhase, Closing
    <2>3. timer' \in [Room -> Timers]
      <3>1. CASE a.kind = "deadline"
        <4>1. a.of \in Room /\ timer[a.of] \in Timers
          BY <3>1, ActorCases, JobFacts DEF RoomTypes
        <4>2. [timer[a.of] EXCEPT !["deadline"] = "none"] \in Timers
          BY <4>1, TimerTypes DEF TimerKinds
        <4>3. QED
          BY <1>5, <3>1, <4>1, <4>2, JobFacts DEF FinishJob, RoomTypes
      <3>2. CASE a.kind # "deadline"
        BY <1>5, <3>2, JobFacts DEF FinishJob, RoomTypes
      <3>3. QED
        BY <3>1, <3>2
    <2>4. QED
      BY <1>1, <1>2, <2>1, <2>2, <2>3, IdleType, WorkOwned DEF Owing
  <1>6. QED
    BY <1>3, <1>4, <1>5

LEMMA JobStepOwned ==
    ASSUME TeardownInv, NEW a \in Actors, JobStep(a) PROVE TeardownInv'
  BY ScanRoomOwned, FinishScanOwned, UnregisterOwned, ReleaseIdsOwned, ClosesOwned DEF JobStep

LEMMA ScansOwned ==
    ASSUME TeardownInv, BeginRequest \/ JanitorTick \/ DetachRooms PROVE TeardownInv'
  <1>1. /\ ShutdownTypes /\ RoomTypes /\ SessionTypes /\ JobTypes
        /\ Request \in Actors /\ Janitor \in Actors /\ Detacher \in Actors
        /\ Request.kind = "request" /\ Janitor.kind = "janitor" /\ Detacher.kind = "detacher"
        /\ registered \subseteq Room
        /\ \A r \in registered : room[r] # "absent"
        /\ Idle.at \notin Owing
    BY Types, ActorKinds, IdleType DEF TeardownInv, RoomTypes, Owned, RoomsOwned, Owing
  <1>2. /\ ShutdownTypes' /\ SessionTypes' /\ gate' \subseteq Actors
        /\ UNCHANGED <<room, registered, ids>> /\ timer' \in [Room -> Timers]
    BY <1>1 DEF BeginRequest, JanitorTick, DetachRooms, ShutdownTypes, SessionTypes, RoomTypes,
                JobTypes, shutdownVars, roomVars, sessionVars
  <1> DEFINE x(left) == [Idle EXCEPT !.at = "scan", !.left = left]
  <1>3. \A left \in SUBSET Room : x(left) \in Jobs /\ x(left).at = "scan" /\ x(left).left = left
    BY FreshJob DEF Idle
  <1>4. CASE BeginRequest
    <2>1. PICK targets \in ({registered} \cup {{r} : r \in registered}) \ {{}} :
             job' = [job EXCEPT ![Request] = x(targets)]
      BY <1>4 DEF BeginRequest
    <2>2. targets \subseteq registered /\ targets \subseteq Room /\ job[Request] = Idle
      BY <1>1, <1>4 DEF BeginRequest
    <2>3. x(targets) \in Jobs /\ x(targets).at = "scan" /\ x(targets).left = targets
      BY <1>3, <2>2
    <2> HIDE DEF x
    <2>4. QED
      BY <1>1, <1>2, <2>1, <2>2, <2>3, WorkOwned DEF Owing
  <1>5. x(registered) \in Jobs /\ x(registered).at = "scan" /\ x(registered).left = registered
    BY <1>1, <1>3
  <1>6. CASE JanitorTick
    <2>1. job' = [job EXCEPT ![Janitor] = x(registered)] /\ job[Janitor] = Idle
      BY <1>6 DEF JanitorTick
    <2> HIDE DEF x
    <2>2. QED
      BY <1>1, <1>2, <1>5, <2>1, WorkOwned DEF Owing
  <1>7. CASE DetachRooms
    <2>1. job' = [job EXCEPT ![Detacher] = x(registered)] /\ job[Detacher] = Idle
      BY <1>7 DEF DetachRooms
    <2> HIDE DEF x
    <2>2. QED
      BY <1>1, <1>2, <1>5, <2>1, WorkOwned DEF Owing
  <1>8. QED
    BY <1>4, <1>6, <1>7

\* Taken and unregistered in one section of Store.mu
LEMMA TakeRoomOwned ==
    ASSUME TeardownInv, NEW a \in Actors, NEW r \in Room, TakeRoom(a, r),
           job[a].at \notin Owing, room[r] \notin {"absent", "removed"},
           a.kind \in {"reader", "deadline", "cleanup"},
           a.kind \in {"deadline", "cleanup"} => a.of = r,
           UNCHANGED <<shutdownVars, ids, sessionVars>>, timer' \in [Room -> Timers]
    PROVE  TeardownInv'
  <1>1. ShutdownTypes' /\ SessionTypes' /\ gate' \subseteq Actors /\ JobTypes
    BY Types DEF TeardownInv, TakeRoom, ShutdownTypes, SessionTypes, JobTypes, shutdownVars, sessionVars
  <1> DEFINE x == [Idle EXCEPT !.at = "release", !.room = r, !.rooms = {r}, !.todo = Clients(r)]
  <1>2. x \in Jobs
    <2>1. r \in Room \cup {None} /\ {r} \in SUBSET Room /\ Clients(r) \in SUBSET Session
      BY ClientsType
    <2>2. QED
      BY <2>1, FreshJob
  <1>3. x.at = "release" /\ x.room = r /\ x.left = {}
    BY DEF Idle
  <1>4. job' = [job EXCEPT ![a] = x] /\ room' = [room EXCEPT ![r] = "removed"] /\ registered' = registered \ {r}
    BY DEF TakeRoom
  <1> HIDE DEF x
  <1>5. job'[a] = x
    BY <1>1, <1>2, <1>4, OneJob
  <1>6. JobFits(a)'
    BY <1>3, <1>5 DEF JobFits
  <1>7. UNCHANGED ids
    OBVIOUS
  <1>8. QED
    BY <1>1, <1>2, <1>3, <1>4, <1>6, <1>7, StepTakes

LEMMA DeadlineIdle ==
    ASSUME TeardownInv, NEW r \in Room, room[r] = "loading"
    PROVE  job[Deadline(r)].at \notin Owing
  <1>1. Deadline(r) \in Actors /\ Deadline(r).kind = "deadline" /\ Deadline(r).of = r
    BY ActorKinds
  <1>2. job[Deadline(r)].at \in Owing => job[Deadline(r)].room = r
    BY <1>1 DEF TeardownInv, JobsFit, JobFits
  <1>3. QED
    BY <1>1, <1>2 DEF TeardownInv, Owned, OwnersFit

LEMMA ExpireDeadlineOwned ==
    ASSUME TeardownInv, NEW r \in Room, ExpireDeadline(r) PROVE TeardownInv'
  <1>1. /\ RoomTypes /\ Deadline(r) \in Actors
        /\ Deadline(r).kind = "deadline" /\ Deadline(r).of = r
    BY Types, ActorKinds DEF TeardownInv
  <1>2. timer' \in [Room -> Timers]
    <2>1. timer[r] \in Timers
      BY <1>1 DEF RoomTypes
    <2>2. /\ [timer[r] EXCEPT !["deadline"] = "busy"] \in Timers
          /\ [timer[r] EXCEPT !["deadline"] = "none"] \in Timers
      BY <2>1, TimerTypes DEF TimerKinds
    <2>3. QED
      BY <1>1, <2>2 DEF ExpireDeadline, RoomTypes
  <1>3. CASE room[r] = "loading" /\ TakeRoom(Deadline(r), r)
    BY <1>1, <1>2, <1>3, DeadlineIdle, TakeRoomOwned DEF ExpireDeadline
  <1>4. CASE UNCHANGED <<room, registered, gate, job>>
    BY <1>2, <1>4, TimersOwned DEF ExpireDeadline
  <1>5. QED
    BY <1>3, <1>4 DEF ExpireDeadline

LEMMA LateReadyOwned ==
    ASSUME TeardownInv, NEW r \in Room, LateReady(r) PROVE TeardownInv'
  <1>1. timer' \in [Room -> Timers]
    BY Types DEF TeardownInv, RoomTypes, LateReady
  <1>2. Reader \in Actors /\ Reader.kind = "reader" /\ job[Reader].at \notin Owing
    BY ActorKinds, IdleType DEF LateReady, Owing
  <1>3. QED
    BY <1>1, <1>2, TakeRoomOwned DEF LateReady

LEMMA CleanupStepOwned ==
    ASSUME TeardownInv, NEW r \in Room, CleanupStep(r) PROVE TeardownInv'
  <1>1. /\ ShutdownTypes /\ RoomTypes /\ SessionTypes /\ JobTypes
        /\ Cleanup(r) \in Actors /\ Cleanup(r).kind = "cleanup" /\ Cleanup(r).of = r
        /\ job[Cleanup(r)] \in Jobs /\ \A t \in job[Cleanup(r)].left : room[t] # "absent"
    BY ActorKinds, JobFacts
  <1>2. CASE ScheduleCleanup(r)
    <2> DEFINE x == IF Launched(r, "cleanup") = "armed" THEN [job[Cleanup(r)] EXCEPT !.at = "wait"] ELSE Idle
    <2>1. x \in Jobs /\ x.at \in {"wait", "idle"} /\ x.left \subseteq job[Cleanup(r)].left
      <3>1. [job[Cleanup(r)] EXCEPT !.at = "wait"] \in Jobs
        BY <1>1, JobMoves
      <3>2. /\ [job[Cleanup(r)] EXCEPT !.at = "wait"].at = "wait"
            /\ [job[Cleanup(r)] EXCEPT !.at = "wait"].left = job[Cleanup(r)].left
        BY <1>1, JobMoves
      <3>3. QED
        BY <3>1, <3>2, IdleType
    <2>2. job' = [job EXCEPT ![Cleanup(r)] = x]
      BY <1>2 DEF ScheduleCleanup
    <2> HIDE DEF x
    <2>3. [timer[r] EXCEPT !["tick"] = "none"] \in Timers
      BY <1>1, TimerTypes DEF RoomTypes, TimerKinds
    <2>4. timer' \in [Room -> Timers]
      BY <1>1, <1>2, <2>3 DEF ScheduleCleanup, RoomTypes
    <2>5. /\ ShutdownTypes' /\ SessionTypes' /\ gate' \subseteq Actors
          /\ UNCHANGED <<room, registered, ids>> /\ job[Cleanup(r)].at = "schedule"
      BY <1>1, <1>2 DEF ScheduleCleanup, ShutdownTypes, SessionTypes, JobTypes, shutdownVars, sessionVars
    <2>6. QED
      BY <1>1, <2>1, <2>2, <2>4, <2>5, WorkOwned DEF Owing
  <1>3. CASE AwaitSessions(r)
    <2> DEFINE x == [job[Cleanup(r)] EXCEPT !.at = "enter"]
    <2>1. x \in Jobs /\ x.at = "enter" /\ x.left = job[Cleanup(r)].left
      BY <1>1, JobMoves
    <2>2. job' = [job EXCEPT ![Cleanup(r)] = x]
      BY <1>3 DEF AwaitSessions
    <2> HIDE DEF x
    <2>3. /\ ShutdownTypes' /\ SessionTypes' /\ gate' \subseteq Actors /\ timer' \in [Room -> Timers]
          /\ UNCHANGED <<room, registered, ids>> /\ job[Cleanup(r)].at = "wait"
      BY <1>1, <1>3 DEF AwaitSessions, ShutdownTypes, RoomTypes, SessionTypes, JobTypes,
                        shutdownVars, roomVars, sessionVars
    <2>4. QED
      BY <1>1, <2>1, <2>2, <2>3, WorkOwned DEF Owing
  <1>4. CASE FinishGameEnd(r)
    <2>1. /\ UNCHANGED <<shutdownVars, ids, timer, sessionVars>>
          /\ job[Cleanup(r)].at = "enter" /\ job[Cleanup(r)].at \notin Owing
          /\ timer' \in [Room -> Timers]
      BY <1>1, <1>4 DEF FinishGameEnd, Owing, RoomTypes
    <2>2. CASE room[r] = "ending" /\ TakeRoom(Cleanup(r), r)
      BY <1>1, <2>1, <2>2, TakeRoomOwned
    <2>3. CASE job' = [job EXCEPT ![Cleanup(r)] = Idle] /\ UNCHANGED <<room, registered, gate>>
      <3>1. ShutdownTypes' /\ SessionTypes' /\ gate' \subseteq Actors
        BY <1>1, <2>1, <2>3 DEF ShutdownTypes, SessionTypes, JobTypes, shutdownVars, sessionVars
      <3>2. UNCHANGED <<room, registered, ids>>
        BY <2>1, <2>3
      <3>3. QED
        BY <1>1, <2>1, <2>3, <3>1, <3>2, IdleType, WorkOwned DEF Owing
    <2>4. QED
      BY <1>4, <2>2, <2>3 DEF FinishGameEnd
  <1>5. QED
    BY <1>2, <1>3, <1>4 DEF CleanupStep

-----------------------------------------------------------------------------
(* Shutdown and its watcher, and the theorem.                                *)

LEMMA WatcherOwned ==
    ASSUME TeardownInv, StopLaunching \/ JoinWatcher \/ WatcherStep PROVE TeardownInv'
  <1>1. /\ ShutdownTypes /\ RoomTypes /\ SessionTypes /\ JobTypes
        /\ Watcher \in Actors /\ Watcher.kind = "watcher"
        /\ job[Watcher] \in Jobs /\ \A r \in job[Watcher].left : room[r] # "absent"
        /\ job[Watcher].at \in {"idle", "select", "force"} /\ job[Watcher].at \notin Owing
    <2>1. Watcher \in Actors /\ Watcher.kind = "watcher"
      BY ActorKinds
    <2>2. QED
      BY <2>1, JobFacts DEF Owing
  <1>2. /\ ShutdownTypes' /\ gate' \subseteq Actors /\ timer' \in [Room -> Timers]
        /\ UNCHANGED <<room, registered, ids>>
    BY <1>1 DEF StopLaunching, JoinWatcher, WatcherStep, WatcherFires, ForceNext, AbortTransport,
                WatcherReturns, ShutdownTypes, Stages, RoomTypes, JobTypes, shutdownVars, roomVars
  <1>3. SessionTypes'
    <2>1. CASE StopLaunching \/ JoinWatcher \/ WatcherFires \/ WatcherReturns
      BY <1>1, <2>1 DEF StopLaunching, JoinWatcher, WatcherFires, WatcherReturns, SessionTypes, sessionVars
    <2>2. CASE ForceNext
      BY <1>1, <2>2, StartCloseType DEF ForceNext, SessionTypes
    <2>3. CASE AbortTransport
      <3>1. job[Watcher].cur \in Session \cup {None}
        BY <1>1 DEF Jobs, JobRecord
      <3>2. QED
        BY <1>1, <2>3, <3>1 DEF AbortTransport, SessionTypes
    <2>4. QED
      BY <2>1, <2>2, <2>3 DEF WatcherStep
  <1>4. CASE StopLaunching
    <2> DEFINE x == [job[Watcher] EXCEPT !.at = "select"]
    <2>1. x \in Jobs /\ x.at = "select" /\ x.left = job[Watcher].left
      BY <1>1, JobMoves
    <2>2. job' = [job EXCEPT ![Watcher] = x]
      BY <1>4 DEF StopLaunching
    <2> HIDE DEF x
    <2>3. QED
      BY <1>1, <1>2, <1>3, <2>1, <2>2, WorkOwned DEF Owing
  <1>5. CASE JoinWatcher \/ WatcherReturns
    <2>1. job' = [job EXCEPT ![Watcher] = Idle]
      BY <1>5 DEF JoinWatcher, WatcherReturns
    <2>2. QED
      BY <1>1, <1>2, <1>3, <2>1, IdleType, WorkOwned DEF Owing
  <1>6. CASE WatcherFires
    <2> DEFINE todo == {s \in Session : Live(s) \/ phase[s] = "closed"}
               x == [Idle EXCEPT !.at = "force", !.todo = todo]
    <2>1. job' = [job EXCEPT ![Watcher] = x]
      BY <1>6 DEF WatcherFires
    <2>2. todo \in SUBSET Session
      OBVIOUS
    <2> HIDE DEF todo
    <2>3. x \in Jobs /\ x.at = "force" /\ x.left = {}
      BY <2>2, FreshJob DEF Idle
    <2> HIDE DEF x
    <2>4. QED
      BY <1>1, <1>2, <1>3, <2>1, <2>3, WorkOwned DEF Owing
  <1>7. CASE ForceNext
    <2>1. PICK s \in job[Watcher].todo : job' = [job EXCEPT ![Watcher].cur = s]
      BY <1>7 DEF ForceNext
    <2> DEFINE x == [job[Watcher] EXCEPT !.cur = s]
    <2>2. x \in Jobs /\ x.at = job[Watcher].at /\ x.left = job[Watcher].left
      BY <1>1, JobCloses
    <2>3. job' = [job EXCEPT ![Watcher] = x]
      BY <2>1
    <2> HIDE DEF x
    <2>4. QED
      BY <1>1, <1>2, <1>3, <2>2, <2>3, WorkOwned DEF Owing
  <1>8. CASE AbortTransport
    <2> DEFINE x == [job[Watcher] EXCEPT !.cur = None, !.todo = job[Watcher].todo \ {job[Watcher].cur}]
    <2>1. x \in Jobs /\ x.at = job[Watcher].at /\ x.left = job[Watcher].left
      BY <1>1, JobClosed
    <2>2. job' = [job EXCEPT ![Watcher] = x]
      BY <1>1, <1>8 DEF AbortTransport, JobTypes, Jobs, JobRecord
    <2> HIDE DEF x
    <2>3. QED
      BY <1>1, <1>2, <1>3, <2>1, <2>2, WorkOwned DEF Owing
  <1>9. QED
    BY <1>4, <1>5, <1>6, <1>7, <1>8 DEF WatcherStep

LEMMA StagesOwned ==
    ASSUME TeardownInv,
           \/ Shutdown \/ ContextDone \/ CloseStore \/ JoinJanitor \/ StopDetached
           \/ CloseAll \/ JoinWorkers \/ JoinSessions
    PROVE  TeardownInv'
  <1>1. ShutdownTypes /\ RoomTypes /\ SessionTypes /\ JobTypes
    BY Types DEF TeardownInv
  <1>2. job[Detacher].todo \subseteq Session
    BY ActorKinds, JobFacts
  <1>3. ShutdownTypes'
    BY <1>1, <1>2 DEF Shutdown, ContextDone, CloseStore, JoinJanitor, StopDetached, CloseAll,
                      JoinWorkers, JoinSessions, ShutdownTypes, Stages
  <1>4. SessionTypes'
    BY <1>1, StartCloseType DEF Shutdown, ContextDone, CloseStore, JoinJanitor, StopDetached, CloseAll,
                      JoinWorkers, JoinSessions, SessionTypes, sessionVars
  <1>5. timer' \in [Room -> Timers]
    BY <1>1, StoppedType DEF Shutdown, ContextDone, CloseStore, JoinJanitor, StopDetached, CloseAll,
                      JoinWorkers, JoinSessions, RoomTypes, roomVars
  <1>6. UNCHANGED <<gate, room, registered, ids, job>>
    BY DEF Shutdown, ContextDone, CloseStore, JoinJanitor, StopDetached, CloseAll, JoinWorkers,
           JoinSessions, roomVars
  <1>7. StoreTypes' /\ gate' \subseteq Actors /\ RoomsStay
    BY <1>1, <1>3, <1>4, <1>5, <1>6 DEF StoreTypes, RoomTypes, JobTypes, RoomsStay
  <1>8. QED
    BY <1>6, <1>7, StepKeeps

LEMMA TeardownInit == Init => TeardownInv
  <1> SUFFICES ASSUME Init PROVE TeardownInv
    OBVIOUS
  <1>1. TypeOK
    BY IdleType, Types DEF Init, ShutdownTypes, RoomTypes, SessionTypes, JobTypes, Stages, RoomPhase,
                           SessionPhase, Timers
  <1>2. \A a \in Actors : job[a].at \notin Owing
    BY IdleType DEF Init, Owing
  <1>3. Owned
    BY <1>2 DEF Init, Owned, OwnersFit, OneOwner, RoomsOwned
  <1>4. JobsFit
    BY IdleType DEF Init, JobsFit, JobFits, Owing
  <1>5. QED
    BY <1>1, <1>3, <1>4 DEF TeardownInv

LEMMA TeardownStep == TeardownInv /\ [Next]_vars => TeardownInv'
  <1> SUFFICES ASSUME TeardownInv, [Next]_vars PROVE TeardownInv'
    OBVIOUS
  <1>1. ASSUME NEW r \in Room, RoomStep(r) PROVE TeardownInv'
    BY <1>1, CreateRoomOwned, RoomProgressOwned, EndGameOwned, ExpireDeadlineOwned, LateReadyOwned,
       CleanupStepOwned DEF RoomStep
  <1>2. ASSUME NEW s \in Session, SessionStep(s) PROVE TeardownInv'
    BY <1>2, SessionPhasesOwned, ReleaseClientOwned DEF SessionStep
  <1>3. ASSUME NEW a \in Actors, JobStep(a) PROVE TeardownInv'
    BY <1>3, JobStepOwned
  <1>4. CASE BeginRequest \/ JanitorTick \/ DetachRooms
    BY <1>4, ScansOwned
  <1>5. CASE Shutdown \/ ContextDone \/ ShutdownStep \/ WatcherStep
    BY <1>5, StagesOwned, WatcherOwned DEF ShutdownStep
  <1>6. CASE UNCHANGED vars
    <2>1. StoreTypes' /\ gate' \subseteq Actors /\ RoomsStay
      BY <1>6, Types DEF TeardownInv, StoreTypes, ShutdownTypes, RoomTypes, SessionTypes, JobTypes,
                         RoomsStay, vars
    <2>2. QED
      BY <1>6, <2>1, StepKeeps DEF vars
  <1>7. QED
    BY <1>1, <1>2, <1>3, <1>4, <1>5, <1>6 DEF Next

\* Every reachable state satisfies the invariant: types, ownership of
\* removals, and what each goroutine may be busy with.
THEOREM TeardownInvariant == Spec => []TeardownInv
  BY TeardownInit, TeardownStep, PTL DEF Spec

LEMMA TeardownIsExact == TeardownInv => TeardownIsOwned
  <1> SUFFICES ASSUME TeardownInv PROVE TeardownIsOwned
    OBVIOUS
  <1>1. registered \subseteq ids
    BY Types DEF TeardownInv, RoomTypes, Owned, RoomsOwned
  <1>2. ASSUME NEW r \in ids \ registered
        PROVE  Cardinality({a \in Actors : job[a].room = r /\ job[a].at = "release"}) = 1
    <2>1. r \in Room /\ room[r] \in RoomPhase
      BY Types DEF TeardownInv, RoomTypes
    <2>2. room[r] = "removed"
      BY <1>2, <2>1 DEF TeardownInv, Owned, RoomsOwned
    <2>3. PICK a \in Actors : job[a].room = r /\ job[a].at \in Owing
      BY <1>2, <2>1, <2>2 DEF TeardownInv, Owned, RoomsOwned
    <2>4. job[a].at = "release"
      BY <1>2, <2>3 DEF TeardownInv, Owned, OwnersFit, Owing
    <2>5. {b \in Actors : job[b].room = r /\ job[b].at = "release"} = {a}
      BY <2>3, <2>4 DEF TeardownInv, Owned, OneOwner, Owing
    <2>6. QED
      BY <2>5, FS_Singleton
  <1>3. ASSUME NEW r \in Room, room[r] = "removed", r \in registered
        PROVE  \E a \in Actors : job[a].room = r /\ job[a].at = "unregister"
    <2>1. PICK a \in Actors : job[a].room = r /\ job[a].at \in Owing
      BY <1>1, <1>3 DEF TeardownInv, Owned, RoomsOwned
    <2>2. QED
      BY <1>3, <2>1 DEF TeardownInv, Owned, OwnersFit
  <1>4. QED
    BY <1>1, <1>2, <1>3 DEF TeardownIsOwned, IdsFollowRooms, RemovedRoomsLeave, TeardownInv

\* Whatever a removal has still to undo, exactly one goroutine will undo it,
\* for every set of rooms and connections and every mixture of requests,
\* deadlines, disconnects, the janitor, GameEnd and Shutdown.
THEOREM TeardownIsOwnedAlways == Spec => []TeardownIsOwned
  BY TeardownInvariant, TeardownIsExact, PTL

-----------------------------------------------------------------------------
(* What a step of one actor leaves alone of Shutdown's bookkeeping.          *)

SessionsMove(a) ==
    \A s \in Session :
        \/ phase'[s] = phase[s]
        \/ phase[s] \in {"open", "onClose", "transport", "closed"}
        \/ phase[s] = "unattached" /\ ~closed
        \/ phase[s] = "releasing" /\ a = Release(s)
WorkersRest == closed /\ ~WorkersLive => ~WorkersLive'
RemovedStays == \A r \in Room : room[r] = "removed" => room'[r] = "removed"
NothingRegistered == closed => registered' \subseteq registered

ActorFrame(a) ==
    /\ UNCHANGED <<closed, shutdown, joined>>
    /\ OthersKeepJobs(a)
    /\ gate \ {a} \subseteq gate' /\ (closed => gate' \subseteq gate)
    /\ SessionsMove(a) /\ WorkersRest /\ RemovedStays /\ NothingRegistered

LEMMA DetachedKept ==
    ASSUME Detached, UNCHANGED <<closed, shutdown>>, job'[Detacher] = job[Detacher],
           job'[Watcher] = job[Watcher] \/ closed, registered \subseteq Room,
           RemovedStays, NothingRegistered
    PROVE  Detached'
  BY DEF Detached, RemovedStays, NothingRegistered

LEMMA ActorStep ==
    ASSUME TeardownInv, ShutdownInv, NEW a \in Actors, ActorFrame(a), HoldsGate(a)',
           a.kind = "release" => job'[a] = Idle \/ phase'[a.of] = "releasing",
           a.kind = "janitor" => job'[a] = Idle \/ shutdown \in {"none", "gate", "launching", "janitor"},
           a.kind = "watcher" => closed,
           a = Detacher => Detached'
    PROVE  ShutdownInv'
  <1>1. \A b \in Actors : b # a => job'[b] = job[b]
    BY DEF ActorFrame, OthersKeepJobs
  <1>2. ClosedInTime'
    BY DEF ShutdownInv, ClosedInTime, ActorFrame, SessionsMove
  <1>3. GateHeld'
    <2> SUFFICES ASSUME NEW b \in Actors, b # a PROVE HoldsGate(b)'
      BY DEF GateHeld
    <2>1. HoldsGate(b)
      BY DEF ShutdownInv, GateHeld
    <2>2. job'[b] = job[b] /\ (b \in gate => b \in gate')
      BY <1>1 DEF ActorFrame
    <2>3. QED
      BY <2>1, <2>2 DEF HoldsGate
  <1>4. ReleasesClose'
    <2> SUFFICES ASSUME NEW s \in Session, job'[Release(s)] # Idle PROVE phase'[s] = "releasing"
      BY DEF ReleasesClose
    <2>1. Release(s) \in Actors /\ Release(s).kind = "release" /\ Release(s).of = s
      BY ActorKinds
    <2>2. CASE a = Release(s)
      BY <2>1, <2>2
    <2>3. CASE a # Release(s)
      <3>1. job[Release(s)] # Idle /\ phase[s] = "releasing"
        BY <1>1, <2>1, <2>3 DEF ShutdownInv, ReleasesClose
      <3>2. QED
        BY <2>3, <3>1 DEF ActorFrame, SessionsMove
    <2>4. QED
      BY <2>2, <2>3
  <1>5. JanitorJoined'
    <2>1. Janitor \in Actors /\ Janitor.kind = "janitor" /\ shutdown' = shutdown
      BY ActorKinds DEF ActorFrame
    <2>2. CASE a = Janitor
      BY <2>1, <2>2 DEF JanitorJoined
    <2>3. CASE a # Janitor
      BY <1>1, <2>1, <2>3 DEF ShutdownInv, JanitorJoined
    <2>4. QED
      BY <2>2, <2>3
  <1>6. Detached'
    <2>1. CASE a = Detacher
      BY <2>1
    <2>2. CASE a # Detacher
      <3>1. job'[Detacher] = job[Detacher] /\ (job'[Watcher] = job[Watcher] \/ closed)
        BY <1>1, <2>2, ActorKinds
      <3>2. registered \subseteq Room
        BY Types DEF TeardownInv, RoomTypes
      <3>3. QED
        BY <3>1, <3>2, DetachedKept DEF ShutdownInv, ActorFrame
    <2>3. QED
      BY <2>1, <2>2
  <1>7. Joined'
    <2>1. shutdown \in {"sessions", "watcher", "done"} => closed
      BY DEF ShutdownInv, ClosedInTime
    <2>2. shutdown \in {"sessions", "watcher", "done"} => ~WorkersLive'
      BY <2>1 DEF ShutdownInv, Joined, ActorFrame, WorkersRest
    <2>3. shutdown \in {"watcher", "done"} => \A s \in joined : phase'[s] = "gone"
      <3> SUFFICES ASSUME shutdown \in {"watcher", "done"}, NEW s \in joined PROVE phase'[s] = "gone"
        OBVIOUS
      <3>1. s \in Session /\ phase[s] = "gone"
        BY Types DEF TeardownInv, ShutdownTypes, ShutdownInv, Joined
      <3>2. QED
        BY <3>1 DEF ActorFrame, SessionsMove
    <2>4. shutdown' = shutdown /\ joined' = joined
      BY DEF ActorFrame
    <2>5. QED
      BY <2>2, <2>3, <2>4 DEF Joined
  <1>8. QED
    BY <1>2, <1>3, <1>4, <1>5, <1>6, <1>7 DEF ShutdownInv

\* A step of no actor in particular
LEMMA QuietStep ==
    ASSUME TeardownInv, ShutdownInv, UNCHANGED <<closed, shutdown, joined, gate, job>>,
           SessionsMove(Request), WorkersRest, RemovedStays, NothingRegistered
    PROVE  ShutdownInv'
  <1>1. Request \in Actors /\ Request.kind = "request"
    BY ActorKinds
  <1>2. ActorFrame(Request)
    BY DEF ActorFrame, OthersKeepJobs
  <1>3. HoldsGate(Request)'
    <2>1. HoldsGate(Request)
      BY <1>1 DEF ShutdownInv, GateHeld
    <2>2. QED
      BY <2>1 DEF HoldsGate
  <1>4. Request # Detacher
    BY ActorKinds
  <1>5. QED
    BY <1>1, <1>2, <1>3, <1>4, ActorStep

LEMMA ArmedIsLive ==
    ASSUME NEW r \in Room
    PROVE  /\ \A k \in TimerKinds : timer[r][k] # "none" => WorkersLive
           /\ job[Cleanup(r)] # Idle => WorkersLive
  BY DEF WorkersLive

\* Workers at rest stay so when timers are only stopped and nobody starts a cleanup.
LEMMA WorkersStayAtRest ==
    ASSUME \A r \in Room, k \in TimerKinds : timer[r][k] = "none" => timer'[r][k] = "none",
           \A r \in Room : job[Cleanup(r)] = Idle => job'[Cleanup(r)] = Idle
    PROVE  WorkersRest
  BY DEF WorkersRest, WorkersLive

LEMMA StoppedStay ==
    ASSUME NEW rooms
    PROVE  \A r \in Room, k \in TimerKinds : timer[r][k] = "none" => Stopped(rooms)[r][k] = "none"
  BY DEF Stopped, StopTimers

LEMMA ClosesMove ==
    ASSUME SessionTypes, NEW s, phase' = StartClose(s), NEW a PROVE SessionsMove(a)
  BY StartCloseType DEF SessionsMove

LEMMA SameSessionsMove == ASSUME UNCHANGED phase, NEW a PROVE SessionsMove(a)
  BY DEF SessionsMove

-----------------------------------------------------------------------------
(* The actions and the bookkeeping of Shutdown.                              *)

LEMMA RoomProgressKept ==
    ASSUME TeardownInv, ShutdownInv, NEW r \in Room,
           \/ CreateRoom(r) \/ MatchRoom(r) \/ FillBots(r) \/ ReadyRoom(r) \/ DebugStart(r)
           \/ StartRoom(r) \/ WorkersExit(r)
    PROVE  ShutdownInv'
  <1>1. room \in [Room -> RoomPhase] /\ timer \in [Room -> Timers]
    BY Types DEF TeardownInv, RoomTypes
  <1>2. UNCHANGED <<closed, shutdown, joined, gate, job, phase>>
    BY DEF CreateRoom, MatchRoom, FillBots, ReadyRoom, DebugStart, StartRoom, WorkersExit,
           shutdownVars, sessionVars
  <1>3. RemovedStays
    BY <1>1 DEF CreateRoom, MatchRoom, FillBots, ReadyRoom, DebugStart, StartRoom, WorkersExit, RemovedStays
  <1>4. NothingRegistered
    BY DEF CreateRoom, MatchRoom, FillBots, ReadyRoom, DebugStart, StartRoom, WorkersExit,
           NothingRegistered, MayMutate
  <1>5. closed => \E k \in TimerKinds : timer[r][k] # "none"
    BY DEF CreateRoom, MatchRoom, FillBots, ReadyRoom, DebugStart, StartRoom, WorkersExit, MayMutate,
           TimerKinds
  <1>6. WorkersRest
    BY <1>5, ArmedIsLive DEF WorkersRest
  <1>7. SessionsMove(Request)
    BY <1>2, SameSessionsMove
  <1>8. QED
    BY <1>2, <1>3, <1>4, <1>6, <1>7, QuietStep

LEMMA EndGameKept ==
    ASSUME TeardownInv, ShutdownInv, NEW r \in Room, EndGame(r) PROVE ShutdownInv'
  <1>1. /\ room \in [Room -> RoomPhase] /\ JobTypes
        /\ Cleanup(r) \in Actors /\ Cleanup(r).kind = "cleanup" /\ Cleanup(r) # Detacher
    BY Types, ActorKinds DEF TeardownInv, RoomTypes
  <1> DEFINE x == [Idle EXCEPT !.at = "schedule", !.todo = Clients(r)]
  <1>2. x \in Jobs /\ x.at = "schedule"
    BY FreshJob, ClientsType DEF Idle
  <1>3. job' = [job EXCEPT ![Cleanup(r)] = x]
    BY DEF EndGame
  <1> HIDE DEF x
  <1>4. OthersKeepJobs(Cleanup(r)) /\ job'[Cleanup(r)] = x
    BY <1>1, <1>2, <1>3, OneJob
  <1>5. UNCHANGED <<closed, shutdown, joined, gate, phase, registered>>
    BY DEF EndGame, shutdownVars, sessionVars
  <1>6. RemovedStays
    BY <1>1 DEF EndGame, RemovedStays
  <1>7. WorkersRest
    BY ArmedIsLive DEF EndGame, WorkersRest, TimerKinds
  <1>8. ActorFrame(Cleanup(r))
    BY <1>4, <1>5, <1>6, <1>7, SameSessionsMove DEF ActorFrame, NothingRegistered
  <1>9. HoldsGate(Cleanup(r))'
    BY <1>1, <1>2, <1>4 DEF HoldsGate, Owing
  <1>10. QED
    BY <1>1, <1>8, <1>9, ActorStep

LEMMA SessionPhasesKept ==
    ASSUME TeardownInv, ShutdownInv, NEW s \in Session,
           AttachClient(s) \/ PeerCloses(s) \/ FinishClose(s) \/ ForgetSession(s)
    PROVE  ShutdownInv'
  <1>1. SessionTypes
    BY Types DEF TeardownInv
  <1>2. UNCHANGED <<closed, shutdown, joined, gate, job, room, registered, timer>>
    BY DEF AttachClient, PeerCloses, FinishClose, ForgetSession, shutdownVars, roomVars
  <1>3. SessionsMove(Request)
    <2>1. CASE PeerCloses(s)
      BY <1>1, <2>1, ClosesMove DEF PeerCloses
    <2>2. CASE AttachClient(s) \/ FinishClose(s) \/ ForgetSession(s)
      BY <1>1, <2>2 DEF AttachClient, FinishClose, ForgetSession, SessionsMove, SessionTypes, MayMutate
    <2>3. QED
      BY <2>1, <2>2
  <1>4. WorkersRest /\ RemovedStays /\ NothingRegistered
    BY <1>2, WorkersStayAtRest DEF RemovedStays, NothingRegistered
  <1>5. QED
    BY <1>2, <1>3, <1>4, QuietStep

LEMMA ReleaseClientKept ==
    ASSUME TeardownInv, ShutdownInv, NEW s \in Session, ReleaseClient(s) PROVE ShutdownInv'
  <1>1. /\ RoomTypes /\ SessionTypes /\ JobTypes
        /\ Release(s) \in Actors /\ Release(s).kind = "release" /\ Release(s).of = s
        /\ Release(s) # Detacher /\ RoomOf[s] \in Room
    BY Types, ActorKinds, RoomOfAssumption DEF TeardownInv
  <1>2. UNCHANGED <<closed, shutdown, joined, gate, registered, timer>>
    BY DEF ReleaseClient, shutdownVars
  <1>3. SessionsMove(Release(s)) /\ (job'[Release(s)] = Idle \/ phase'[s] = "releasing")
    BY <1>1 DEF ReleaseClient, SessionsMove, SessionTypes
  <1>4. OthersKeepJobs(Release(s))
    <2>1. CASE UNCHANGED job
      BY <2>1 DEF OthersKeepJobs
    <2>2. CASE job' # job
      BY <1>1, <2>2 DEF ReleaseClient, OthersKeepJobs, JobTypes
    <2>3. QED
      BY <2>1, <2>2
  <1>5. RemovedStays /\ NothingRegistered
    BY <1>1, <1>2 DEF ReleaseClient, RemovedStays, NothingRegistered, RoomTypes
  <1>6. \A r \in Room : Cleanup(r) \in Actors /\ Cleanup(r) # Release(s)
    BY <1>1, ActorKinds
  <1>7. WorkersRest
    BY <1>2, <1>4, <1>6, WorkersStayAtRest DEF OthersKeepJobs
  <1>8. ActorFrame(Release(s))
    BY <1>2, <1>3, <1>4, <1>5, <1>7 DEF ActorFrame
  <1>9. HoldsGate(Release(s))'
    BY <1>1 DEF HoldsGate
  <1>10. QED
    BY <1>1, <1>3, <1>8, <1>9, ActorStep

\* A room is taken under the gate.
LEMMA TakeRoomKept ==
    ASSUME TeardownInv, ShutdownInv, NEW a \in Actors, NEW r \in Room, TakeRoom(a, r),
           ~closed, a.kind \in {"reader", "deadline", "cleanup"},
           UNCHANGED <<shutdownVars, ids, sessionVars>>
    PROVE  ShutdownInv'
  <1>1. RoomTypes /\ JobTypes /\ a # Detacher
    BY Types, ActorKinds DEF TeardownInv
  <1>2. OthersKeepJobs(a)
    BY <1>1 DEF TakeRoom, OthersKeepJobs, JobTypes
  <1>3. UNCHANGED <<closed, shutdown, joined, phase>>
    BY DEF shutdownVars, sessionVars
  <1>4. RemovedStays /\ NothingRegistered /\ WorkersRest
    BY <1>1 DEF TakeRoom, RemovedStays, NothingRegistered, WorkersRest, RoomTypes
  <1>5. a \in gate' /\ gate \subseteq gate'
    BY DEF TakeRoom
  <1>6. ActorFrame(a)
    BY <1>2, <1>3, <1>4, <1>5, SameSessionsMove DEF ActorFrame
  <1>7. HoldsGate(a)'
    BY <1>5 DEF HoldsGate
  <1>8. QED
    BY <1>1, <1>6, <1>7, ActorStep

LEMMA ExpireDeadlineKept ==
    ASSUME TeardownInv, ShutdownInv, NEW r \in Room, ExpireDeadline(r) PROVE ShutdownInv'
  <1>1. Deadline(r) \in Actors /\ Deadline(r).kind = "deadline"
    BY ActorKinds
  <1>2. CASE MayMutate /\ TakeRoom(Deadline(r), r)
    BY <1>1, <1>2, TakeRoomKept DEF ExpireDeadline, MayMutate
  <1>3. CASE UNCHANGED <<room, registered, gate, job>>
    <2>1. UNCHANGED <<closed, shutdown, joined, phase>>
      BY DEF ExpireDeadline, shutdownVars, sessionVars
    <2>2. WorkersRest
      BY ArmedIsLive DEF ExpireDeadline, WorkersRest, TimerKinds
    <2>3. RemovedStays /\ NothingRegistered /\ SessionsMove(Request)
      BY <1>3, <2>1, SameSessionsMove DEF RemovedStays, NothingRegistered
    <2>4. QED
      BY <1>3, <2>1, <2>2, <2>3, QuietStep
  <1>4. QED
    BY <1>2, <1>3 DEF ExpireDeadline

LEMMA LateReadyKept ==
    ASSUME TeardownInv, ShutdownInv, NEW r \in Room, LateReady(r) PROVE ShutdownInv'
  <1>1. Reader \in Actors /\ Reader.kind = "reader"
    BY ActorKinds
  <1>2. QED
    BY <1>1, TakeRoomKept DEF LateReady, MayMutate

LEMMA CleanupStepKept ==
    ASSUME TeardownInv, ShutdownInv, NEW r \in Room, CleanupStep(r) PROVE ShutdownInv'
  <1>1. /\ JobTypes /\ Cleanup(r) \in Actors /\ Cleanup(r).kind = "cleanup"
        /\ Cleanup(r) # Detacher /\ job[Cleanup(r)] \in Jobs
    BY JobFacts, ActorKinds
  <1>2. WorkersRest
    BY ArmedIsLive DEF CleanupStep, WorkersRest
  <1>3. CASE FinishGameEnd(r) /\ TakeRoom(Cleanup(r), r) /\ ~closed
    BY <1>1, <1>3, TakeRoomKept DEF FinishGameEnd
  <1>4. CASE /\ UNCHANGED <<shutdownVars, gate, room, registered, sessionVars>>
             /\ OthersKeepJobs(Cleanup(r)) /\ job'[Cleanup(r)].at \notin Owing
    <2>1. RemovedStays /\ NothingRegistered /\ SessionsMove(Cleanup(r))
      BY <1>4, SameSessionsMove DEF RemovedStays, NothingRegistered, sessionVars
    <2>2. ActorFrame(Cleanup(r))
      BY <1>2, <1>4, <2>1 DEF ActorFrame, shutdownVars
    <2>3. HoldsGate(Cleanup(r))'
      BY <1>1, <1>4 DEF HoldsGate
    <2>4. QED
      BY <1>1, <2>2, <2>3, ActorStep
  <1>5. CASE ScheduleCleanup(r)
    <2>1. UNCHANGED <<shutdownVars, gate, room, registered, sessionVars>>
      BY <1>5 DEF ScheduleCleanup
    <2>2. OthersKeepJobs(Cleanup(r)) /\ job'[Cleanup(r)].at \in {"wait", "idle"}
      BY <1>1, <1>5, IdleType DEF ScheduleCleanup, OthersKeepJobs, JobTypes, Jobs, JobRecord
    <2>3. QED
      BY <1>4, <2>1, <2>2 DEF Owing
  <1>6. CASE AwaitSessions(r)
    <2>1. UNCHANGED <<shutdownVars, gate, room, registered, sessionVars>>
      BY <1>6 DEF AwaitSessions, roomVars
    <2>2. OthersKeepJobs(Cleanup(r)) /\ job'[Cleanup(r)].at = "enter"
      BY <1>1, <1>6 DEF AwaitSessions, OthersKeepJobs, JobTypes, Jobs, JobRecord
    <2>3. QED
      BY <1>4, <2>1, <2>2 DEF Owing
  <1>7. CASE FinishGameEnd(r) /\ job' = [job EXCEPT ![Cleanup(r)] = Idle] /\ UNCHANGED <<room, registered, gate>>
    <2>1. UNCHANGED <<shutdownVars, gate, room, registered, sessionVars>>
      BY <1>7 DEF FinishGameEnd
    <2>2. OthersKeepJobs(Cleanup(r)) /\ job'[Cleanup(r)] = Idle
      BY <1>1, <1>7, IdleType, OneJob
    <2>3. QED
      BY <1>4, <2>1, <2>2, IdleType DEF Owing
  <1>8. QED
    BY <1>3, <1>5, <1>6, <1>7 DEF CleanupStep, FinishGameEnd

\* A teardown job goes on.
LEMMA WorkKept ==
    ASSUME TeardownInv, ShutdownInv, NEW a \in Actors, job[a] # Idle,
           UNCHANGED <<closed, shutdown, joined>>, OthersKeepJobs(a), HoldsGate(a)',
           gate \ {a} \subseteq gate', gate' \subseteq gate, registered' \subseteq registered,
           RemovedStays, SessionsMove(a),
           a.kind = "release" => job'[a] = Idle \/ phase'[a.of] = phase[a.of],
           \A r \in Room, k \in TimerKinds : timer[r][k] = "none" => timer'[r][k] = "none",
           a = Detacher => Detached'
    PROVE  ShutdownInv'
  <1>1. WorkersRest
    <2>1. CASE a.kind = "cleanup"
      BY <2>1, ActorCases, ArmedIsLive DEF WorkersRest
    <2>2. CASE a.kind # "cleanup"
      <3>1. \A r \in Room : Cleanup(r) \in Actors /\ Cleanup(r) # a
        BY <2>2, ActorKinds
      <3>2. QED
        BY <3>1, WorkersStayAtRest DEF OthersKeepJobs
    <2>3. QED
      BY <2>1, <2>2
  <1>2. ActorFrame(a)
    BY <1>1 DEF ActorFrame, NothingRegistered
  <1>3. a.kind = "release" => phase[a.of] = "releasing"
    BY ActorCases DEF ShutdownInv, ReleasesClose
  <1>4. a.kind = "janitor" => shutdown \in {"none", "gate", "launching", "janitor"}
    BY ActorCases DEF ShutdownInv, JanitorJoined
  <1>5. a.kind = "watcher" => closed
    BY ActorCases DEF ShutdownInv, Detached
  <1>6. QED
    BY <1>2, <1>3, <1>4, <1>5, ActorStep

LEMMA ScanRoomKept ==
    ASSUME TeardownInv, ShutdownInv, NEW a \in Actors, NEW r \in Room,
           job[a] # Idle, ScanRoom(a, r)
    PROVE  ShutdownInv'
  <1>1. /\ RoomTypes /\ JobTypes /\ job[a] \in Jobs /\ job[a].at = "scan"
        /\ a.kind \in {"request", "janitor", "detacher"}
    BY JobFacts DEF ScanRoom
  <1>2. UNCHANGED <<closed, shutdown, joined, gate, registered, timer, phase>>
    BY DEF ScanRoom, shutdownVars, sessionVars
  <1>3. RemovedStays
    BY <1>1 DEF ScanRoom, RemovedStays, RoomTypes
  <1>4. OthersKeepJobs(a)
    BY <1>1 DEF ScanRoom, OthersKeepJobs, JobTypes
  <1>5. HoldsGate(a)'
    BY <1>1, <1>2 DEF ShutdownInv, GateHeld, HoldsGate, Owing
  <1>6. a = Detacher => Detached'
    <2> SUFFICES ASSUME a = Detacher PROVE Detached'
      OBVIOUS
    <2>1. job'[a].left = job[a].left \ {r} /\ job'[a].at # "detached"
      BY <1>1 DEF ScanRoom, JobTypes, Jobs, JobRecord
    <2>2. room'[r] = "removed"
      BY <1>1 DEF ScanRoom, MustTake, MayTake, RoomTypes, Janitor, Detacher, Actor
    <2>3. closed /\ \A t \in registered : room[t] = "removed" \/ t \in job[a].left
      BY DEF ShutdownInv, Detached
    <2>4. \A t \in registered : room'[t] = "removed" \/ t \in job'[a].left
      BY <1>1, <1>3, <2>1, <2>2, <2>3 DEF RemovedStays, RoomTypes
    <2>5. job'[Watcher] = job[Watcher]
      BY <1>4, ActorKinds DEF OthersKeepJobs
    <2>6. shutdown \notin {"close", "workers", "sessions", "watcher", "done"}
      BY <1>1 DEF ShutdownInv, Detached
    <2>7. QED
      BY <1>2, <2>1, <2>3, <2>4, <2>5, <2>6 DEF Detached
  <1>7. QED
    BY <1>1, <1>2, <1>3, <1>4, <1>5, <1>6, SameSessionsMove, WorkKept

LEMMA FinishScanKept ==
    ASSUME TeardownInv, ShutdownInv, NEW a \in Actors, job[a] # Idle, FinishScan(a)
    PROVE  ShutdownInv'
  <1>1. /\ RoomTypes /\ JobTypes /\ job[a] \in Jobs /\ job[a].at = "scan" /\ job[a].left = {}
        /\ a.kind \in {"request", "janitor", "detacher"}
    BY JobFacts DEF FinishScan
  <1>2. UNCHANGED <<closed, shutdown, joined, room, registered, phase>> /\ gate' = gate \ {a}
    BY DEF FinishScan, Leave, shutdownVars, sessionVars
  <1>3. RemovedStays
    BY <1>2 DEF RemovedStays
  <1>4. OthersKeepJobs(a) /\ job'[a].at \in {"idle", "close", "detached"}
    BY <1>1, IdleType DEF FinishScan, OthersKeepJobs, JobTypes, Jobs, JobRecord
  <1>5. HoldsGate(a)'
    BY <1>4 DEF HoldsGate, Owing
  <1>6. \A r \in Room, k \in TimerKinds : timer[r][k] = "none" => timer'[r][k] = "none"
    BY StoppedStay DEF FinishScan
  <1>7. a = Detacher => Detached'
    <2> SUFFICES ASSUME a = Detacher PROVE Detached'
      OBVIOUS
    <2>1. job'[a].at = "detached"
      BY <1>1 DEF FinishScan, JobTypes, Jobs, JobRecord
    <2>2. closed /\ \A t \in registered : room[t] = "removed"
      BY <1>1 DEF ShutdownInv, Detached
    <2>3. job'[Watcher] = job[Watcher]
      BY <1>4, ActorKinds DEF OthersKeepJobs
    <2>4. QED
      BY <1>2, <2>1, <2>2, <2>3 DEF Detached
  <1>8. QED
    BY <1>1, <1>2, <1>3, <1>4, <1>5, <1>6, <1>7, SameSessionsMove, WorkKept

LEMMA ReleasingJob ==
    ASSUME TeardownInv, NEW a \in Actors, Unregister(a) \/ ReleaseIds(a)
    PROVE  /\ OthersKeepJobs(a) /\ job'[a].left = job[a].left
           /\ job'[a].at \in {"release", "scan", "close"}
           /\ Scanning(a) => job'[a].at \in {"release", "scan"}
  <1>1. JobTypes /\ job[a] \in Jobs
    BY JobFacts
  <1>2. CASE Unregister(a)
    BY <1>1, <1>2 DEF Unregister, OthersKeepJobs, JobTypes, Jobs, JobRecord
  <1>3. CASE ReleaseIds(a)
    <2> DEFINE next == IF Scanning(a) THEN "scan" ELSE "close"
               x == [job[a] EXCEPT !.at = next, !.room = None]
    <2>1. next \in {"scan", "close"} /\ (Scanning(a) => next = "scan")
      OBVIOUS
    <2>2. job' = [job EXCEPT ![a] = x]
      BY <1>3 DEF ReleaseIds
    <2> HIDE DEF next
    <2>3. x \in Jobs /\ x.at = next /\ x.left = job[a].left
      BY <1>1, <2>1, JobDropsRoom
    <2> HIDE DEF x
    <2>4. QED
      BY <1>1, <2>1, <2>2, <2>3, OneJob
  <1>4. QED
    BY <1>2, <1>3

LEMMA UnregisterKept ==
    ASSUME TeardownInv, ShutdownInv, NEW a \in Actors, job[a] # Idle,
           Unregister(a) \/ ReleaseIds(a)
    PROVE  ShutdownInv'
  <1>1. RoomTypes /\ JobTypes /\ job[a] \in Jobs /\ job[a].at \in Owing
    BY JobFacts DEF Unregister, ReleaseIds, Owing
  <1>2. UNCHANGED <<closed, shutdown, joined, gate, room, phase>> /\ registered' \subseteq registered
    BY DEF Unregister, ReleaseIds, shutdownVars, sessionVars
  <1>3. RemovedStays
    BY <1>2 DEF RemovedStays
  <1>4. OthersKeepJobs(a) /\ job'[a].left = job[a].left
    BY ReleasingJob
  <1>5. HoldsGate(a)'
    BY <1>1, <1>2 DEF ShutdownInv, GateHeld, HoldsGate
  <1>6. \A r \in Room, k \in TimerKinds : timer[r][k] = "none" => timer'[r][k] = "none"
    BY StoppedStay DEF Unregister, ReleaseIds
  <1>7. a = Detacher => Detached'
    <2> SUFFICES ASSUME a = Detacher PROVE Detached'
      OBVIOUS
    <2>1. job'[a].at \in {"release", "scan"}
      BY ReleasingJob DEF Scanning
    <2>2. closed /\ \A t \in registered : room[t] = "removed" \/ t \in job[a].left
      BY DEF ShutdownInv, Detached
    <2>3. job'[Watcher] = job[Watcher]
      BY <1>4, ActorKinds DEF OthersKeepJobs
    <2>4. shutdown \notin {"close", "workers", "sessions", "watcher", "done"}
      BY <1>1 DEF ShutdownInv, Detached, Owing
    <2>5. QED
      BY <1>2, <1>4, <2>1, <2>2, <2>3, <2>4 DEF Detached
  <1>8. QED
    BY <1>1, <1>2, <1>3, <1>4, <1>5, <1>6, <1>7, SameSessionsMove, WorkKept

LEMMA ClosesKept ==
    ASSUME TeardownInv, ShutdownInv, NEW a \in Actors, job[a] # Idle,
           CloseNext(a) \/ CloseReturns(a) \/ FinishJob(a)
    PROVE  ShutdownInv'
  <1>1. /\ RoomTypes /\ SessionTypes /\ JobTypes /\ job[a] \in Jobs /\ job[a].at = "close"
        /\ a # Detacher
    BY JobFacts, ActorKinds DEF CloseNext, CloseReturns, FinishJob, Owing
  <1>2. /\ UNCHANGED <<closed, shutdown, joined, room, registered>>
        /\ gate \ {a} \subseteq gate' /\ gate' \subseteq gate
    BY DEF CloseNext, CloseReturns, FinishJob, Leave, shutdownVars, roomVars
  <1>3. RemovedStays
    BY <1>2 DEF RemovedStays
  <1>4. OthersKeepJobs(a) /\ job'[a].at \in {"idle", "close"}
    BY <1>1, IdleType DEF CloseNext, CloseReturns, FinishJob, OthersKeepJobs, JobTypes, Jobs, JobRecord
  <1>5. HoldsGate(a)'
    BY <1>4 DEF HoldsGate, Owing
  <1>6. \A r \in Room, k \in TimerKinds : timer[r][k] = "none" => timer'[r][k] = "none"
    <2>1. \A r \in Room : timer[r] \in Timers
      BY <1>1 DEF RoomTypes
    <2>2. QED
      BY <1>1, <2>1 DEF CloseNext, CloseReturns, FinishJob, roomVars, RoomTypes, Timers
  <1>7. a.kind = "release" => a.of \in Session /\ a = Release(a.of) /\ phase[a.of] = "releasing"
    BY ActorCases DEF ShutdownInv, ReleasesClose
  <1>8. SessionsMove(a) /\ (a.kind = "release" => job'[a] = Idle \/ phase'[a.of] = phase[a.of])
    <2>1. CASE CloseNext(a)
      <3>1. PICK s \in job[a].todo : phase' = StartClose(s)
        BY <2>1 DEF CloseNext
      <3>2. QED
        BY <1>1, <1>7, <3>1, ClosesMove, StartCloseType
    <2>2. CASE CloseReturns(a)
      BY <2>2, SameSessionsMove DEF CloseReturns, sessionVars
    <2>3. CASE FinishJob(a)
      BY <1>1, <1>7, <2>3 DEF FinishJob, SessionsMove, SessionTypes, JobTypes
    <2>4. QED
      BY <2>1, <2>2, <2>3
  <1>9. QED
    BY <1>1, <1>2, <1>3, <1>4, <1>5, <1>6, <1>8, WorkKept

LEMMA JobStepKept ==
    ASSUME TeardownInv, ShutdownInv, NEW a \in Actors, JobStep(a) PROVE ShutdownInv'
  BY ScanRoomKept, FinishScanKept, UnregisterKept, ClosesKept DEF JobStep

LEMMA ScansKept ==
    ASSUME TeardownInv, ShutdownInv, BeginRequest \/ JanitorTick \/ DetachRooms
    PROVE  ShutdownInv'
  <1>1. /\ JobTypes /\ Request \in Actors /\ Janitor \in Actors /\ Detacher \in Actors
        /\ Request.kind = "request" /\ Janitor.kind = "janitor" /\ Detacher.kind = "detacher"
        /\ \A r \in Room : Cleanup(r) \in Actors /\ Cleanup(r).kind = "cleanup"
    BY Types, ActorKinds DEF TeardownInv
  <1>2. /\ UNCHANGED <<closed, shutdown, joined, phase, room, registered, timer>>
        /\ gate \subseteq gate'
    BY DEF BeginRequest, JanitorTick, DetachRooms, shutdownVars, roomVars, sessionVars
  <1>3. RemovedStays /\ NothingRegistered /\ \A a : SessionsMove(a)
    BY <1>2, SameSessionsMove DEF RemovedStays, NothingRegistered
  <1>4. ASSUME NEW a \in {Request, Janitor, Detacher}, OthersKeepJobs(a) PROVE WorkersRest
    <2>1. \A r \in Room : job'[Cleanup(r)] = job[Cleanup(r)]
      BY <1>1, <1>4 DEF OthersKeepJobs
    <2>2. QED
      BY <1>2, <2>1, WorkersStayAtRest
  <1>5. CASE BeginRequest
    <2>1. /\ OthersKeepJobs(Request) /\ ~closed /\ Request \in gate'
          /\ Request # Detacher
      BY <1>1, <1>5 DEF BeginRequest, MayMutate, OthersKeepJobs, JobTypes
    <2>2. ActorFrame(Request)
      BY <1>2, <1>3, <1>4, <2>1 DEF ActorFrame
    <2>3. HoldsGate(Request)'
      BY <1>1, <2>1 DEF HoldsGate
    <2>4. QED
      BY <1>1, <2>1, <2>2, <2>3, ActorStep
  <1>6. CASE JanitorTick
    <2>1. /\ OthersKeepJobs(Janitor) /\ gate' = gate /\ Janitor # Detacher
          /\ shutdown \in {"none", "gate", "launching"}
      BY <1>1, <1>6 DEF JanitorTick, OthersKeepJobs, JobTypes
    <2>2. ActorFrame(Janitor)
      BY <1>2, <1>3, <1>4, <2>1 DEF ActorFrame
    <2>3. HoldsGate(Janitor)'
      BY <1>1 DEF HoldsGate
    <2>4. QED
      BY <1>1, <2>1, <2>2, <2>3, ActorStep
  <1>7. CASE DetachRooms
    <2>1. /\ OthersKeepJobs(Detacher) /\ gate' = gate
          /\ job[Detacher] = Idle /\ job'[Detacher].at = "scan" /\ job'[Detacher].left = registered
      BY <1>1, <1>7 DEF DetachRooms, OthersKeepJobs, JobTypes, Idle
    <2>2. ActorFrame(Detacher)
      BY <1>2, <1>3, <1>4, <2>1 DEF ActorFrame
    <2>3. HoldsGate(Detacher)'
      BY <1>1 DEF HoldsGate
    <2>4. closed
      BY <1>7, IdleType DEF DetachRooms, ShutdownInv, ClosedInTime, Detached
    <2>5. shutdown \notin {"close", "workers", "sessions", "watcher", "done"}
      BY <2>1, IdleType DEF ShutdownInv, Detached
    <2>6. Detached'
      BY <1>2, <2>1, <2>4, <2>5 DEF Detached
    <2>7. QED
      BY <1>1, <2>2, <2>3, <2>6, ActorStep
  <1>8. QED
    BY <1>5, <1>6, <1>7

LEMMA WatcherKept ==
    ASSUME TeardownInv, ShutdownInv, WatcherStep PROVE ShutdownInv'
  <1>1. /\ JobTypes /\ SessionTypes /\ Watcher \in Actors /\ Watcher.kind = "watcher" /\ Watcher # Detacher
        /\ \A r \in Room : Cleanup(r) \in Actors /\ Cleanup(r).kind = "cleanup"
    BY Types, ActorKinds DEF TeardownInv
  <1>2. /\ UNCHANGED <<closed, shutdown, joined, gate, room, registered, timer>>
        /\ OthersKeepJobs(Watcher) /\ job[Watcher] # Idle
    BY <1>1, IdleType DEF WatcherStep, WatcherFires, ForceNext, AbortTransport, WatcherReturns,
                OthersKeepJobs, JobTypes, shutdownVars, roomVars
  <1>3. SessionsMove(Watcher)
    <2>1. CASE ForceNext
      BY <1>1, <2>1, ClosesMove DEF ForceNext
    <2>2. CASE WatcherFires \/ AbortTransport \/ WatcherReturns
      BY <2>2, SameSessionsMove DEF WatcherFires, AbortTransport, WatcherReturns, sessionVars
    <2>3. QED
      BY <2>1, <2>2 DEF WatcherStep
  <1>4. RemovedStays /\ NothingRegistered
    BY <1>2 DEF RemovedStays, NothingRegistered
  <1>5. WorkersRest
    <2>1. \A r \in Room : job'[Cleanup(r)] = job[Cleanup(r)]
      BY <1>1, <1>2 DEF OthersKeepJobs
    <2>2. QED
      BY <1>2, <2>1, WorkersStayAtRest
  <1>6. ActorFrame(Watcher)
    BY <1>2, <1>3, <1>4, <1>5 DEF ActorFrame
  <1>7. HoldsGate(Watcher)' /\ closed
    BY <1>1, <1>2 DEF HoldsGate, ShutdownInv, Detached
  <1>8. QED
    BY <1>1, <1>6, <1>7, ActorStep

\* The stages of runShutdown touch no actor but the watcher.
LEMMA StagesKept ==
    ASSUME TeardownInv, ShutdownInv, Shutdown \/ ShutdownStep PROVE ShutdownInv'
  <1>1. /\ ShutdownTypes /\ SessionTypes /\ JobTypes
        /\ Watcher \in Actors /\ Watcher.kind = "watcher"
    BY Types, ActorKinds DEF TeardownInv
  <1>2. /\ OthersKeepJobs(Watcher) /\ UNCHANGED <<gate, room, registered>>
        /\ job' = job \/ StopLaunching \/ JoinWatcher
    BY <1>1 DEF Shutdown, ShutdownStep, CloseStore, StopLaunching, JoinJanitor, StopDetached, CloseAll,
                JoinWorkers, JoinSessions, JoinWatcher, roomVars, OthersKeepJobs, JobTypes
  <1>3. \A s \in Session :
           \/ phase'[s] = phase[s]
           \/ shutdown = "close" /\ phase[s] = "open" /\ phase'[s] = "onClose" /\ s \in joined
    <2>1. CASE CloseAll
      BY <1>1, <2>1, StartCloseType DEF CloseAll
    <2>2. CASE ~CloseAll
      BY <2>2 DEF Shutdown, ShutdownStep, CloseStore, StopLaunching, JoinJanitor, StopDetached,
                  JoinWorkers, JoinSessions, JoinWatcher, sessionVars
    <2>3. QED
      BY <2>1, <2>2
  <1>4. /\ \A r \in Room : job'[Cleanup(r)] = job[Cleanup(r)]
        /\ \A s \in Session : job'[Release(s)] = job[Release(s)]
        /\ job'[Janitor] = job[Janitor] /\ job'[Detacher] = job[Detacher]
    BY <1>1, <1>2, ActorKinds DEF OthersKeepJobs
  <1>5. GateHeld'
    <2> SUFFICES ASSUME NEW a \in Actors PROVE HoldsGate(a)'
      BY DEF GateHeld
    <2>1. HoldsGate(a)
      BY DEF ShutdownInv, GateHeld
    <2>2. CASE a = Watcher
      BY <1>1, <2>2 DEF HoldsGate
    <2>3. CASE a # Watcher
      BY <1>2, <2>1, <2>3 DEF HoldsGate, OthersKeepJobs
    <2>4. QED
      BY <2>2, <2>3
  <1>6. ReleasesClose'
    <2> SUFFICES ASSUME NEW s \in Session, job'[Release(s)] # Idle PROVE phase'[s] = "releasing"
      BY DEF ReleasesClose
    <2>1. phase[s] = "releasing"
      BY <1>4 DEF ShutdownInv, ReleasesClose
    <2>2. QED
      BY <1>3, <2>1
  <1>7. JanitorJoined'
    BY <1>4 DEF ShutdownInv, JanitorJoined, Shutdown, ShutdownStep, CloseStore, StopLaunching, JoinJanitor,
                StopDetached, CloseAll, JoinWorkers, JoinSessions, JoinWatcher
  <1>8. ClosedInTime'
    <2>1. CASE CloseStore
      BY <1>1, <1>2, <2>1 DEF CloseStore, ClosedInTime, sessionVars, SessionTypes, SessionPhase, Live,
                              Closing, Finished
    <2>2. CASE ~CloseStore
      <3>1. closed' = closed /\ joined \subseteq joined'
        BY <2>2 DEF Shutdown, ShutdownStep, StopLaunching, JoinJanitor, StopDetached, CloseAll,
                    JoinWorkers, JoinSessions, JoinWatcher
      <3>2. shutdown' \in {"none", "gate"} <=> shutdown \in {"none", "gate"}
        BY <2>2 DEF Shutdown, ShutdownStep, StopLaunching, JoinJanitor, StopDetached, CloseAll,
                    JoinWorkers, JoinSessions, JoinWatcher
      <3>3. QED
        BY <1>2, <1>3, <3>1, <3>2 DEF ShutdownInv, ClosedInTime
    <2>3. QED
      BY <2>1, <2>2
  <1>9. Detached'
    <2>1. closed => closed'
      BY DEF Shutdown, ShutdownStep, CloseStore, StopLaunching, JoinJanitor, StopDetached, CloseAll,
             JoinWorkers, JoinSessions, JoinWatcher
    <2>2. job'[Watcher] # Idle => closed'
      BY <1>2, <2>1 DEF ShutdownInv, Detached, ClosedInTime, StopLaunching, JoinWatcher
    <2>3. shutdown' \in {"close", "workers", "sessions", "watcher", "done"} => job[Detacher].at = "detached"
      BY DEF ShutdownInv, Detached, Shutdown, ShutdownStep, CloseStore, StopLaunching, JoinJanitor,
             StopDetached, CloseAll, JoinWorkers, JoinSessions, JoinWatcher
    <2>4. QED
      BY <1>2, <1>4, <2>1, <2>2, <2>3 DEF ShutdownInv, Detached
  <1>10. Joined'
    <2>1. WorkersLive' = WorkersLive \/ StopDetached
      <3>1. CASE ~StopDetached
        <4>1. timer' = timer
          BY <3>1 DEF Shutdown, ShutdownStep, CloseStore, StopLaunching, JoinJanitor, CloseAll,
                      JoinWorkers, JoinSessions, JoinWatcher, roomVars
        <4>2. QED
          BY <1>4, <4>1 DEF WorkersLive
      <3>2. QED
        BY <3>1
    <2>2. shutdown' \in {"sessions", "watcher", "done"} => ~WorkersLive'
      BY <2>1 DEF ShutdownInv, Joined, Shutdown, ShutdownStep, CloseStore, StopLaunching, JoinJanitor,
                  StopDetached, CloseAll, JoinWorkers, JoinSessions, JoinWatcher
    <2>3. shutdown' \in {"watcher", "done"} => joined' = joined /\ \A s \in joined : phase[s] = "gone"
      BY DEF ShutdownInv, Joined, Shutdown, ShutdownStep, CloseStore, StopLaunching, JoinJanitor,
                  StopDetached, CloseAll, JoinWorkers, JoinSessions, JoinWatcher
    <2>4. joined \subseteq Session
      BY <1>1 DEF ShutdownTypes
    <2>5. QED
      BY <1>3, <2>2, <2>3, <2>4 DEF Joined
  <1>11. QED
    BY <1>5, <1>6, <1>7, <1>8, <1>9, <1>10 DEF ShutdownInv

LEMMA ShutdownInit == Init => ShutdownInv
  <1> SUFFICES ASSUME Init PROVE ShutdownInv
    OBVIOUS
  <1>1. \A a \in Actors : job[a] = Idle
    BY DEF Init
  <1>2. job[Janitor] = Idle /\ job[Detacher] = Idle /\ job[Watcher] = Idle
    BY <1>1, ActorKinds
  <1>3. GateHeld
    BY <1>1, IdleType DEF GateHeld, HoldsGate, Owing
  <1>4. ReleasesClose
    BY <1>1, ActorKinds DEF ReleasesClose
  <1>5. QED
    BY <1>2, <1>3, <1>4 DEF Init, ShutdownInv, ClosedInTime, JanitorJoined, Detached, Joined

LEMMA ShutdownInvStep == TeardownInv /\ ShutdownInv /\ [Next]_vars => ShutdownInv'
  <1> SUFFICES ASSUME TeardownInv, ShutdownInv, [Next]_vars PROVE ShutdownInv'
    OBVIOUS
  <1>1. ASSUME NEW r \in Room, RoomStep(r) PROVE ShutdownInv'
    BY <1>1, RoomProgressKept, EndGameKept, ExpireDeadlineKept, LateReadyKept, CleanupStepKept DEF RoomStep
  <1>2. ASSUME NEW s \in Session, SessionStep(s) PROVE ShutdownInv'
    BY <1>2, SessionPhasesKept, ReleaseClientKept DEF SessionStep
  <1>3. ASSUME NEW a \in Actors, JobStep(a) PROVE ShutdownInv'
    BY <1>3, JobStepKept
  <1>4. CASE BeginRequest \/ JanitorTick \/ DetachRooms
    BY <1>4, ScansKept
  <1>5. CASE Shutdown \/ ShutdownStep
    BY <1>5, StagesKept
  <1>6. CASE WatcherStep
    BY <1>6, WatcherKept
  <1>7. CASE ContextDone \/ UNCHANGED vars
    <2>1. UNCHANGED <<closed, shutdown, joined, gate, job, phase, room, registered, timer>>
      BY <1>7 DEF ContextDone, roomVars, sessionVars, vars
    <2>2. SessionsMove(Request) /\ WorkersRest /\ RemovedStays /\ NothingRegistered
      BY <2>1, SameSessionsMove, WorkersStayAtRest DEF RemovedStays, NothingRegistered
    <2>3. QED
      BY <2>1, <2>2, QuietStep
  <1>8. QED
    BY <1>1, <1>2, <1>3, <1>4, <1>5, <1>6, <1>7 DEF Next

\* Every reachable state satisfies the bookkeeping of Shutdown.
THEOREM ShutdownInvariant == Spec => []ShutdownInv
  BY TeardownInvariant, TeardownInit, TeardownStep, ShutdownInit, ShutdownInvStep, PTL DEF Spec

LEMMA NothingIsLeft == TeardownInv /\ ShutdownInv => ShutdownLeavesNothing
  <1> SUFFICES ASSUME TeardownInv, ShutdownInv, shutdown = "done"
               PROVE  /\ registered = {} /\ ids = {} /\ gate = {} /\ ~WorkersLive
                      /\ \A s \in Session : phase[s] \in {"unattached", "gone"}
    BY DEF ShutdownLeavesNothing
  <1>1. closed /\ gate = {} /\ ~WorkersLive /\ job[Janitor] = Idle /\ job[Detacher].at = "detached"
    BY DEF ShutdownInv, ClosedInTime, JanitorJoined, Detached, Joined
  <1>2. \A s \in Session : phase[s] \in {"unattached", "gone"}
    BY <1>1 DEF ShutdownInv, ClosedInTime, Joined
  <1>3. \A s \in Session : job[Release(s)] = Idle
    BY <1>2 DEF ShutdownInv, ReleasesClose
  <1>4. ASSUME NEW a \in Actors PROVE job[a].at \notin Owing
    <2>1. CASE a.kind \in {"request", "reader", "deadline", "cleanup"}
      BY <1>1, <2>1 DEF ShutdownInv, GateHeld, HoldsGate
    <2>2. CASE a.kind \in {"janitor", "release"}
      BY <1>1, <1>3, <2>2, ActorCases, IdleType DEF Owing
    <2>3. CASE a.kind \in {"detacher", "watcher"}
      BY <1>1, <2>3, ActorCases, JobFacts DEF Owing
    <2>4. QED
      BY <2>1, <2>2, <2>3, ActorCases
  <1>5. ids \subseteq Room /\ registered \subseteq ids
    BY Types DEF TeardownInv, RoomTypes, Owned, RoomsOwned
  <1>6. ASSUME NEW r \in ids PROVE FALSE
    <2>1. r \in registered => room[r] = "removed"
      BY <1>1, IdleType DEF ShutdownInv, Detached
    <2>2. room[r] = "removed"
      BY <1>5, <1>6, <2>1 DEF TeardownInv, Owned, RoomsOwned
    <2>3. QED
      BY <1>4, <1>5, <1>6, <2>2 DEF TeardownInv, Owned, RoomsOwned
  <1>7. QED
    BY <1>1, <1>2, <1>5, <1>6

\* When Shutdown returns nothing is left, for every set of rooms and
\* connections and whatever else was going on when it was called.
THEOREM ShutdownLeavesNothingAlways == Spec => []ShutdownLeavesNothing
  BY TeardownInvariant, ShutdownInvariant, NothingIsLeft, PTL
=============================================================================
