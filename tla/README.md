# Server-CrawlStars: formal models

TLA+ models of the Go game server in this repository, the TLC runs that check
them on small instances, and TLAPS proofs of every safety property of them. The
server keeps everything in memory: rooms of a few players, one WebSocket per
human, a 30 Hz tick per room, an in-process store. Its difficulty is not in any
one function but in who may run between two of them: request handlers, five
kinds of room worker, a janitor, session readers, writers and close callbacks,
and a shutdown that has to end all of them.

Source paths below are relative to `src/`.

## 1. Inventory of the system

| Component | Code | State it keeps | Operations |
|---|---|---|---|
| Room lifecycle and client sessions | `internal/rooms/store.go`, `websocket.go`, `cleanup.go` | `roomState` under `room.mu`: players, bots, matchmaking and match state, tickers, reserved and open clients, generations, pending disconnects, results, removal flags | join, debug player/bots/start, bot fill, reserve, attach, rollback, release, Ready, countdown tick, game tick, GameEnd cleanup, expiry, deletion |
| Match results | `internal/rooms/game_end.go` | none (rules) | results of a snapshot, is the match over |
| Attach and Ready deadlines | `internal/rooms/ready_deadline.go` | two one-shot workers and two absolute times per room | arm, fire, expire, cancel the match |
| Client session outbox | `internal/rooms/websocket.go` | control FIFO, latest-only snapshot slot, deferred snapshot, terminal slot, `reliablePending`, `done` | enqueue snapshot / approval / terminal / event / error, writer loop, close |
| Store registry, ids, shutdown | `internal/rooms/store.go`, `cleanup.go` | `rooms`, `playerIDs`, sessions, `mutationMu` gate, `closed`, `workersClosing`, wait groups | create, find, remove, janitor scan, Shutdown with a deadline watcher |
| Matchmaking | `internal/rooms/store.go`, `cleanup.go` | `matchmakingMu`; `rooms` and `playerIDs` of the store, seats and fill worker of each room | search the rooms, re-check and take a seat, open a room under the cap, evict expired rooms, fill with bots |
| Tick inputs and combat | `internal/simulation/*.go`, `internal/rooms/websocket.go` | latest input per player, unit state: charges, recharge, burst, dash, skill, last client tick, HP | `setInput`, merge, `State.Step` |
| Movement, projectiles, collisions | `internal/simulation` | positions, projectiles and how far each has flown, tombstones | move, separate, hit, emit, destroy, prune |
| Bots | `internal/rooms/bot*.go` | per-bot cadence, exploration goal, path cache | input of a tick, A* search |
| Gauges and lifecycle logs | `internal/rooms/observer.go`, `websocket.go` | store-wide transition queue and sequence numbers, a lifecycle FIFO per session | enqueue, drain, publish, complete |
| Join rate limiter | `internal/rooms/rate_limit.go` | token buckets per key | allow, sweep |
| HTTP handlers, messages, identity | `internal/rooms/handler.go`, `messages.go`, `identity.go` | none | decode, call the store, encode |
| Game configuration and maps | `internal/simulation/game_config.go`, `map_*.go`, `server-config/` | immutable | load, validate |
| Server process, metrics, health, docs | `cmd/`, `internal/observability`, `health`, `docs` | process-wide | wiring, endpoints |

`PROJECT.json` lists them with their files and what of each is modelled.

How they interact:

- **Locks.** `Store.mutationMu` is a gate: everything that changes the store
  holds its shared side and `Shutdown` takes its exclusive side once, to close
  it. `matchmakingMu` serialises joins and bot fills. `Store.mu` guards the registry, `room.mu` one room, `enqueueMu` one
  session's queues. Sessions are closed outside `room.mu` — but in a few places
  while the gate is held, which is what the finding in section 6 is about.
- **Callbacks.** `closeWithCause` runs a session's `onClose` (`releaseClient`)
  inside its `closeOnce`; that callback may cancel a match and close the other
  sessions of the room, whose callbacks do the same.
- **Workers.** A room has up to five: matchmaking timeout (one-shot), attach
  deadline, Ready deadline, countdown, game tick, besides a GameEnd cleanup.
  Each takes `room.mu` when its ticker delivers and has to notice that it is
  late.
- **Messages.** The room hands snapshots, approvals and the terminal pair to
  each session's outbox without blocking; the writer goroutine is the only one
  that touches the connection's outgoing side.
- **Reports.** A lifecycle change is numbered under the core locks and published
  afterwards, by whichever goroutine becomes the drainer.

What makes each component correct, in one line each:

- a player has at most one live session, the newest; grace, forfeits and results
  agree with it; phases only move forward; deadlines are absolute;
- everybody has a result when the match ends, in every mode;
- a snapshot that approves a skill is never skipped, ticks arrive in order, the
  newest one arrives, GameEnd is last and then the session closes;
- a registered room owns its ids, a removed room leaves no worker, no session
  and no id behind, and `Shutdown` returns;
- what a snapshot announces to the client (attack ready, skill ready, next
  charge) is what the next ticks do, a press is not lost between ticks, a burst
  fires on schedule;
- players who want the same mode meet in one room, a seat leads to a match, a
  refusal for the room cap is deserved, an id has exactly one holder;
- a projectile flies its range and is shown destroyed for exactly 30 snapshots;
- every step of a bot's path is one of a shortest way, also when it is cached;
- a gauge never lags behind a call that has returned, unless a callback panicked
  on that change or a later one; connection logs stay in order, and nobody waits
  forever for a publication.

## 2. Modules

| Module | Models | Composition |
|---|---|---|
| `GameEnd` | result rules of the three modes, as operators | used by `RoomLifecycle` and `Combat` |
| `MatchPhase` | abstract: what a room promises about roster and phase | implemented by `RoomLifecycle` |
| `RoomLifecycle` | one room from creation to removal, at lock granularity | extends `GameEnd` |
| `SnapshotFeed` | abstract: what a connected client may count on | implemented by `ClientOutbox` |
| `ClientOutbox` | one session's queues, writer and closers | |
| `StoreShutdown` | gate, workers, registry, ids, sessions, janitor, Shutdown | |
| `Combat` | setInput, merge of inputs and the discrete part of `State.Step` | instances `GameEnd` |
| `Observation` | both publication queues and their drainers | |
| `Matchmaking` | joins over several rooms, the cap, eviction, bot fill, ids, the debug API | |
| `Projectiles` | flight, hits, melee damage, emission and tombstones of `State.Step` | |
| `BotPath` | the A* search as operators, and the distances it is measured by | used by `BotNavigation` |
| `BotNavigation` | one bot's path cache and exploration over many ticks | extends `BotPath` |
| `RoomLifecycle_proofs`, `ClientOutbox_proofs`, `Matchmaking_proofs`, `StoreShutdown_proofs`, `Observation_proofs`, `Combat_proofs`, `Projectiles_proofs`, `BotNavigation_proofs` | the theorems (section 5) | each extends its module and `TLAPS` |
| `MC*` | constants for TLC | |

### RoomLifecycle

Each action is one critical section of `room.mu`, or one step outside it, so
interleavings are those of the code.

| Variables | Code |
|---|---|
| `registered`, `removed`, `ending` | membership in `Store.rooms`, `room.removed`, `room.ending` |
| `match`, `countdown`, `players`, `ready` | `matchStatus` (`started` is also `Status`), `countdown`, `Players`, `readyPlayers` |
| `client`, `generation`, `reserved` | `clients`, `connectionGenerations`, `reservations` |
| `phase`, `cause`, `doomed`, `endWait`, `cleanup` | how far each session's close is, why, who is about to be closed, and the GameEnd cleanup worker |
| `grace`, `graceDue`, `forfeited` | `reconnectGraces`, their `expiresAt`, and a history variable |
| `armed`, `due`, `fired` | the room's tickers, deadlines that have passed, workers that received a tick |
| `idle`, `absent` | the idle TTL since `lastActivityAt`; `disconnectedAt` |
| `dead`, `final` | deaths reported by the simulation, `finalizedGameEndResults` |

A deadline is armed, becomes due (`DeadlinePasses`), is delivered (`Fire`), and
its worker then takes the lock (`ExpireAttachDeadline`, `ExpireReadyDeadline`,
`FillBots`), so a handler may run between any two of these. The absolute check
in `reserveClient`, `attachClient` and `markReady` sees "due", not "fired". A
session goes through open, done (`CloseSession`), released (`ReleaseClient`, its
`onClose`) and closed (`FinishClose`, `closeDone`). The idle TTL is a choice
the environment may make (`TTLPasses`): inputs only postpone it.

### ClientOutbox

A producer's critical section under `enqueueMu` is one step, each receive of the
writer is one step, and a network write spans two steps between which anything
may happen. A payload is its tick (0 for payloads without one). `received` and
`over` in the refinement are what was written to the connection. Closers are the
peer, the room, the heartbeat and the writer itself; between starting to close
and `done` being closed there is a step (`StartClosing`, `CloseDone`).

### StoreShutdown

What happens inside a room is left to `RoomLifecycle`; here a room is its phase,
its armed workers and its connections. An actor is a goroutine: a request, a
session reader, the janitor, the deadline workers, the GameEnd cleanup, a
session's release callback, Shutdown and its watcher. An actor that tears rooms
down is a small record: the rooms it has taken, the sessions it still has to
close, whether it holds the gate and what it does when it is done. The three
orders in which the code unregisters a room, releases its ids and closes its
sessions are kept apart.

### Combat

One tick is one action: for every player the stored input is taken, merged with
bot input, prepared, applied, and timed state advances in the order of
`State.Step`. Between ticks `SetInput` stores inputs as `setInput` does (stale
client ticks refused, a press kept when newer movement overwrites it) and
players leave and return. Positions are abstracted: which attack meets whom is a
choice among the pairs that the rules allow, and a hit that matters kills. An
unsequenced input with no press is equal to no input.

### Observation

A thread is the part of a goroutine that reports one change: attach, disconnect,
create or remove a room. It takes a transition number with the core change
(`Commit`), then goes through the session's FIFO and the store's queue. Whoever
finds no drainer drains; the others park.

A goroutine that took several changes under the lock is a chain of threads
(`before`, chosen by `Join`): it reports them in the order in which it took them
(`Turn`), as the loop of `publishDisconnectedClients` and the room's publication
after it do; only `releaseClient` publishes the room's removal before the
disconnections it took first. A callback of the Observer or of the Logger may
panic. The drainer of the store's queue catches the Observer's panic, with or
without the gauge set (`spoiled` keeps which change it was), publishes the rest
of the queue and re-raises; a session's drainer does the same for its queue.
Then the goroutine unwinds: the changes it had not come to are never reported
(`Drop`), unless they are threads of their own, as in Shutdown, which captures
each callback. `net/http` recovers a panic in a handler; elsewhere an
unrecovered one ends the process, and there is nothing left to promise.

### Matchmaking

`joinMatchmakingLocked` as its critical sections: the snapshot of the registered
rooms (`StartJoin`), a look at one room (`Look`), drawing credentials
(`IssueCredentials`), the second look and the seat (`TryJoinRoom`), and the
creation under `Store.mu` (`CreateRoom`), which at the cap evicts the expired
rooms one by one (`StartEviction`, `Evict`, `FinishEviction`) and is tried once
more. Any of these may fail; a failed join gives its id back in a section of its
own (`Release`). A removal marks the room, unregisters it and gives its ids
back, three sections of three locks. `mu` is held from `StartJoin` to the
answer, as `matchmakingMu` is; a bot fill needs it free. The debug API
(`CreateRoom` for a creator, `AddPlayer`, `AddBots`, `StartRoom`) does not take
it. Whether a room is expired is a choice at the moment it is looked at. The
room's phases after the match is made are `RoomLifecycle`'s, the closed store
`StoreShutdown`'s.

### Projectiles

One tick is one action in the order of `State.Step`: the shots in flight move
one after another, each cut to what is left of its range, then destroyed by a
wall, by the first player it may damage among those it overlaps, or by its
range; then the living attack, and a due shot of a running burst may leave in
the same tick as what its owner fires, before it; melee damage is done at once;
new shots are appended in owner order; the tick counter moves and tombstones are pruned. What
a shot meets is a choice per shot and tick. `moved` and `ended` are the two maps
`projectileRuntime` and `projectileDestroyedAt`; `shown` is a history variable
that counts snapshots.

### BotPath, BotNavigation

`BotPath` runs `firstBotPathStep` pop by pop on sets: the open nodes, `gScore`,
`cameFrom`, the heap's order (f, h, y, x) and the walk back to the first step.
`BotNavigation` is one bot's `botControllerState` from tick to tick. A position
is a tile. `Head` is `cachedBotPathDirection`: hit the cache, or search and
store. `Explore` keeps or replaces the destination, `Chase` goes to any tile (a
target's or a retreat's), `Cornered` and `Dodge` are the ticks without a goal.
Afterwards the bot has followed its step, is still in its tile, or, disturbed, is
in any tile next to it.

## 3. Runs

Deadlock checking is off except in `BotNavigation`: a room is removed, a match
ends, a session closes, and bounded counters stop, so behaviours legitimately
end. What must not stop is stated as liveness instead. A bot always has a next
tick, so there it is on.

| Run | Question | Instance |
|---|---|---|
| `RoomDuel` | one live session, grace, timers, roster, barrier, abandoned rooms, removal, time limits, and refinement of `MatchPhase` | 2 humans, 1 bot, match of 2, debug capacity 3, countdown 2, 2 connections per player, symmetric players |
| `RoomSolo` | players decided one by one, and liveness of a room | 2 humans, 1 bot, match of 3, solo, countdown 1, 1 connection each, no symmetry |
| `Outbox` | order, completeness and liveness of what a client receives; refinement of `SnapshotFeed` | control queue of 2, 5 ticks, 3 plain payloads |
| `OutboxMalformed` | violated: see section 6 | 2 ticks, 2 plain payloads |
| `Shutdown` | ids, registry, nothing left when Shutdown returns | 1 room, 2 connections, requests and janitor, a context that may end |
| `ShutdownJoins` | nobody waits in a circle | 1 room, 2 connections, janitor, no deadline |
| `ShutdownDeadline` | violated: see section 6 | 1 room, 2 connections, no scans |
| `Combat` | what clients predict is what ticks do | a human and a bot against a bot, three lineups, 4 ticks |
| `Observation` | gauges, logs and waiters | one connection, one room, one panic |
| `Matchmaking` | who meets whom, ids, the cap, and that a match comes | 2 joins for a duel, 1 debug room, 1 debug player, debug bots and start, room cap 2, debug capacity 3, 3 rooms ever |
| `Projectiles` | books about shots, and how long they are shown | one player against two, 2 hit points, a single shot and a volley of two, 2 shots, retention 2, 7 ticks |
| `BotNavigation` | cached steps lead to the goal, exploring ends | four maps: a detour that begins backwards, a notch, two unreachable halves, one tile |

Why the bounds are enough for the cases they are meant to reach:

- *Two connections per player* are needed and enough for a stale release, a
  lapsed grace and a re-attach to meet; the third would be a second copy of the
  second. Two humans give the cancelled match whose sessions close each other.
  A countdown of 2 distinguishes the first tick from the last.
  Debug capacity above the match size lets the debug API overfill a waiting
  room: a human, a bot and a debug player for two seats.
- *Solo* needs three players so that one can be decided while two play on. With
  one connection each, an early loser tries to attach for the first time after
  the result (a debug start does not wait for anyone); the theorem
  `NoReattachAfterFinalAlways` covers any number of connections.
- *Outbox*: a control queue of 2 can be full of one approval and one event,
  which is where approvals fall back to the snapshot slot; 5 ticks let a
  deferred snapshot be replaced and another approval follow before GameEnd.
- *Shutdown*: two connections in one room suffice for a close that runs another
  close. With a single room a scan visits one room; the removal steps of
  different rooms share only the gate and the id set, which are modelled per
  room.
- *Combat*: recharge, cooldown and dash of 3 ticks with offsets 0,1,2 and 0,2 let
  every timer run out and overlap with a burst inside 4 ticks; the two client
  ticks make an input stale, equal or newer.
- *Matchmaking*: the lock makes a third join wait for one of the two; two are
  what it takes to open two rooms at once, to fill one between the look and the
  seat, and to meet at the cap. A cap of 2 is reached by a debug room and a
  join's, so that the other join evicts; 3 rooms let one be opened afterwards.
- *Projectiles*: a range of two whole steps, and one of two and a half; 2 hit
  points so that one single shot, both of a volley, or two melee hits kill; 7
  ticks are a shot's life and its tombstone's, with later shots beside it.
  Retention is 30 in the code; the arithmetic is the same at 2.
- *BotNavigation*: the wall makes the first step lead away from the goal and
  opens tiles twice; the notch has a way round that is one row long; in the
  split map half of the hash's choices are unreachable; on the single tile the
  only destination is where the bot stands. Targets may be anywhere at any tick,
  so every pair of a cached and a wanted goal occurs.
- *Observation*: four threads cover both queues, a drainer of each, and waiters;
  a goroutine may carry the disconnection and the removal, in either order. One
  panic is enough to spoil a change, to drop the next one of its goroutine, and
  to have a later one make good what was spoiled.

`RoomDuel` uses symmetry over humans and bots, which is sound because every
definition treats them alike and team assignment is the identity; it checks no
liveness. No other run uses symmetry.

The properties, and what would break them:

| Property | Says |
|---|---|
| `OneLiveSession` | a session of a live room that is open or not yet released is its player's current one, so a late release cannot drop a successor |
| `GraceMeansAbsent` | a pending grace belongs to an absent player and to the connection lost last |
| `TimeLimitsHold` | nobody is forfeited who has a session or is still in grace, and no attach or Ready ACK moves the match on after its deadline, however late the worker |
| `NoReattachAfterFinal` | a decided player gets no further session, even with an old reservation |
| `TimersMatchPhase` | every phase has exactly the worker that can end it, a removed room has none |
| `PresentUntilPlay` | from loading on every human is connected, from starting on every human is ready |
| `RosterExact` | a made match has exactly its number of players before it starts |
| `AbandonedRoomCountsDown` | a started room counts towards removal exactly while nobody is connected |
| `EndedMeansDecided` | when a match is over everyone has a result |
| `EndWaitsForSessions` | an ended room is removed only after all of its sessions are closed |
| `MatchResolves`, `EndedRoomIsReleased`, `GraceResolves` | nobody waits forever |
| `QueuesAgree` | the approval counter counts the approvals in the queue and in the writer's hands; a snapshot is parked in one place, the right one |
| `ControlBeforeGameEnd`, `ImplementsFeed` | accepted payloads precede GameEnd; ticks in order, approvals never skipped |
| `LatestArrives`, `TerminalCloses` | the newest snapshot and the end arrive or the session closes |
| `TeardownIsOwned` | a registered room owns its ids; ids without a room have exactly one actor about to release them, and a removed room that is still registered is being unregistered |
| `ShutdownLeavesNothing` | when Shutdown returns no room is registered, no id taken, no worker live, no session attached, and nobody holds the gate |
| `ShutdownTerminates`, `CloseReturnsToAll`, `RemovedRoomDrains` | no circular waits, no forgotten worker |
| `PressSurvives` | a sequenced press that waits for the tick is not erased by newer movement |
| `PressesArePredictable` | a press succeeds exactly when the announced ready ticks say so |
| `ChargePromiseKept` | the announced next-charge tick is when the charge arrives |
| `BurstOnSchedule` | a running burst has emitted exactly its due shots |
| `BotFindsCharge` | a bot's cadence never presses without a charge |
| `GaugesCoverReturned`, `LifecycleInOrder`, `PublishReturns` | reports are complete, ordered and finish |
| `SeatsAndIdsAgree` | an id is taken exactly while a seat or a call that has not placed it holds it; a caller has at most one seat, and only if told so |
| `NobodyWaitsApart` | of a mode's rooms that a join would be accepted in, matchmaking opened at most one |
| `RefusalIsHonest` | a join refused at the cap found every registered room unexpired, or opened later, or being removed |
| `MatchComes` | a seated player gets a match or the room goes, without anyone else coming; not after a failed fill or beside a debug player, which the code does not serve |
| `BooksAgree` | a flying shot is in `projectileRuntime` only, a destroyed one in `projectileDestroyedAt` only, and a flight ends in the tick that reaches its range |
| `ShownThenGone` | a shot leaves the list only after exactly the promised number of snapshots as destroyed |
| `StepsLeadThere` | a bot's step, cached or not, is to a neighbouring tile one nearer to its goal; it stands still only if there is no way |
| `ExplorationEnds` | a bot left alone reaches its exploration goal or gives it up |

One invariant of a module also conjoins its `TypeOK` (`TimersMatchPhase`,
`QueuesAgree`, `TeardownIsOwned`, `BurstOnSchedule`, `GaugesCoverReturned`,
`SeatsAndIdsAgree`).

For each of them `PROJECT.json` holds a mutant: a plausible error in the
modelled code (a dropped guard, a missing reset, a swapped order) under which
TLC reports the property violated.

## 4. Fairness

- **RoomLifecycle**: weak fairness of workers whose tickers deliver, of time
  passing, of rollback (it is deferred in the handler) and of a close that has
  begun or was ordered by the room. A goroutine that is ready runs and a Go
  ticker delivers. Nothing is assumed of clients, operators or the janitor.
- **ClientOutbox**: weak fairness of the writer's steps and of finishing a
  close. A write ends because the code gives it a timeout; it may fail.
- **StoreShutdown**: weak fairness of every goroutine's steps. `GracefulSpec`
  adds that a graceful WebSocket close returns, which the library bounds by its
  own timeouts. `AbortOnlySpec` leaves that out, to ask what the deadline alone
  achieves.
- **Observation**: weak fairness of every thread that has committed its change:
  its goroutine goes on to the report, and callbacks take a finite time or panic.

- **Matchmaking**: weak fairness of a call that has begun, of a removal that has
  begun, and of a fill worker whose timer delivers. Nothing is assumed of new
  joins, of removals that have not begun, or of the debug API.
- **BotNavigation**: the match ticks on, and an undisturbed bot that steers the
  same way tick after tick arrives in the next tile (`Arrive`): the code first
  centres it on the axis it is not moving along, so that no corner stops it.

`Combat` and `Projectiles` have no liveness property and no fairness.

## 5. Proofs

Every invariant and every action property that a run checks is also a theorem,
and so are both refinements: it holds for all values of the constants that meet
the assumptions of its module. Each module's argument is the same: an inductive
invariant, one lemma per action, and the property as a consequence. TLC finds
each of these invariants true on the instances of the module's runs, except
those of `Matchmaking` and `Projectiles`, which quantify over all the numbers.

### The room: `RoomLifecycle_proofs`

For every finite set of humans and bots, every match size of at least two, any
debug capacity, countdown and number of connections, and each of the three
modes. The assumptions are `SizesAssumption`, `PlayersAssumption` and
`ModeAssumption` (disjoint finite players, positive sizes, a team for everyone).

| Theorem | Rests on |
|---|---|
| `TypeCorrect` | `TypeOK` is inductive (`TypeInit`, `TypeStep`) |
| `OneLiveSessionAlways`, `GraceMeansAbsentAlways`, `NoReattachAfterFinalAlways` | `SessionInv` |
| `EndedMeansDecidedAlways`, `EndWaitsForSessionsAlways` | `EndInv`, or a step lemma on top of it |
| `TimeLimitsHoldAlways` | `ForfeitsAreDueAlways` (from `SessionInv`) and `DeadlinesAreFinalAlways` (from `EndInv`) |
| `RosterExactAlways` | `RosterInv` |
| `RoomImplementsMatchPhase` | `EndInv` and `EveryStepIsAPhaseStep` |
| `TimersMatchPhaseAlways` | `TimerInv` |
| `PresentUntilPlayAlways` | `PresentInv` |
| `AbandonedRoomCountsDownAlways` | `AbandonInv` |

- `SessionInv` strengthens `OneLiveSession` by what the code relies on without
  saying so: the current session of a player is its latest generation, a removed
  room has no clients, generations not yet used are absent, and a reservation
  exists only where no session is open. Without the last, an attach that follows
  a reservation could meet another open session, so `OneLiveSession` alone is
  not inductive.
- `EndInv` adds to `TypeOK` that an ending room was started
  (`EndingIsStarted`), that it is decided (`EndedMeansDecided`), and that its
  cleanup waits for every session that is not closed (`WaitsForAll`). The tick's
  step rests on two lemmas about the rules: results belong to players of the
  snapshot (`ResultsInSnapshot`) and once a match should end everyone has a
  result (`EveryoneDecidedAtEnd`), proved per mode.
- `RosterInv` is `EndInv` with `RosterExact`; both it and the refinement follow
  from `EveryStepIsAPhaseStep`, which classifies every action of the room by what
  it does to phase and roster.
- The refinement maps every action to a phase step or a stutter; the interesting
  ones are those that fill a room and may go through several phases at once
  because everybody is attached and ready already.
- `TimerInv` is `EndInv` and, per phase, which workers are armed (`Balanced`),
  including one thing `TimersMatchPhase` does not say: a gathering room without
  humans has no bot fill armed. Without it, a room that fills up would not be
  known to have its fill detached.
- `PresentInv` and `AbandonInv` are the properties with `TypeOK`. What makes
  them inductive is the order inside each critical section, so their lemmas
  follow a session from the map of clients to the phase it lets begin, and back.

### One session: `ClientOutbox_proofs`

For every capacity of the control queue and every number of ticks
(`OutboxAssumption`). `QueuesAgreeAlways`, `ControlBeforeGameEndAlways` and
`OutboxImplementsFeed` rest on `OutboxInv`: the writer's place fits the command
in its hand (`WriterFits`), GameEnd is in one place (`HandoffOnce`), the
approval counter is exact while the writer runs (`CounterExact`), a snapshot is
parked in one place (`ParkedInOnePlace`), what the client is owed is in the
queue or the writer's hand (`OwedIsHeld`), and everything between the client and
the room is in tick order (`InOrder`). `OwedIsHeld` has one exception that the
code makes: the approval that found the queue full, for which the room closes
the session and hands it nothing more (`Rejected`).

### Joins: `Matchmaking_proofs`

For every number of joins, debug creators and players, every set of modes and
sizes, every cap, and any number of rooms that allows each call its own. The
assumptions are those of `Matchmaking`; `HoldersAssumption` says that callers,
bots and bot ids are told apart.

- `SeatsAndIdsAgreeAlways` rests on `SeatInv`: what each call holds at each of
  its sections (`CallsFit`), rooms are opened in order by calls that are
  answered (`UsedInOrder`, `UnusedIsEmpty`), an id is taken exactly while
  someone holds it (`IdsInUse`), and seats are told to their owners and single
  (`SeatIsTold`, `OneSeatEach`).
- `NobodyWaitsApartAlways` rests on `SeatInv` and `WaitInv`: joins work under
  the lock (`Serialised`), and a working join still has before it every room of
  its mode that would accept it (`NothingMissed`), so that the one that opens a
  room knows there is none.
- `RefusalIsHonestAlways` adds to those `EvictionSeen`: at the cap, every room
  that is registered is still to be looked at, unexpired, on its way out, or
  opened since.

### Shutdown: `StoreShutdown_proofs`

For every set of rooms and connections, with or without requests, janitor and
context end. `TeardownIsOwnedAlways` rests on `TeardownInv`: each removal that
is not complete has one owner, whose room is removed and still has its ids
(`Owned`), and each goroutine is busy only with its own kind of job (`JobsFit`).
`ShutdownLeavesNothingAlways` rests on that and `ShutdownInv`: the closed gate is
empty (`ClosedInTime`, `GateHeld`), a release runs inside its close
(`ReleasesClose`), and what a stage of Shutdown has waited for stays done
(`JanitorJoined`, `Detached`, `Joined`).

### Reports: `Observation_proofs`

For every set of sessions and rooms and any number of panics.
`GaugesCoverReturnedAlways` says: a change that was reported is on its gauge, or
a callback panicked on it or on a later one of its kind; and when every
goroutine is done, the gauge holds the last committed value, unless a panic
spoiled or dropped the very last change. Without panics both exceptions are
empty. `LifecycleInOrderAlways` says that no disconnection is logged before its
connection and that without panics every reported event is logged.

Both rest on `ObservationInv`: where the two entries of a session's queue are,
given the places of its two threads, and that only a panic drops a thread
(`SessionsInv`); that a transition inside `publish` is published, queued or in
the drainer's hand (`Tracked`); that what was published is shown or spoiled
(`Shown`); that numbers follow the commits and the newest transition of a kind
carries its counter (`Ordered`).

### Ticks: `Combat_proofs`

For every line-up, every set of players, charges, recharge, cooldown and dash of
at least one tick, and any schedules that start at 0 and strictly increase, as
`validateProjectileSchedule` demands (`CombatAssumption`).
`BurstOnScheduleAlways`, `ChargePromiseKeptAlways` and
`PressesArePredictableAlways` rest on `CombatInv`: charges within their maximum,
a recharge that is not over, a dash that ends in the tick it announces, a burst
between the shot that is out and the one that is due. `PressSurvivesAlways`
follows from the steps alone.

`BotFindsChargeAlways` rests on `BotsInv`, which relates a bot's next attack tick
to its unit's charges and recharge. It has a hypothesis: the last offset of the
attack's schedule is below `RechargeTicks`. The shipped configuration has
offsets up to 15 and a recharge of 30 ticks
(`server-config/game-config.json`), but the validation only demands a
positive recharge: with a burst longer than a recharge, a bot's cadence would
press before its charge is there.

### Shots: `Projectiles_proofs`

For any number of players and shots, and every speed, range, damage and
retention of at least one (`ProjectilesAssumption`). `BooksAgreeAlways` rests on
`BooksInv`: the list is sorted by id and birth, the two maps have exactly the
flying and the destroyed ids, a flying shot has flown its age times its speed
and is younger than its flight, a destroyed one ended within it.
`ShownThenGoneAlways` adds the history: a destroyed shot was shown once for every
tick since (`ShownInv`).

### Bots: `BotNavigation_proofs`

For every finite, non-empty set of tiles as a map, connected or not
(`GridsAssumption`): there is no bound on size or shape.

- `FirstStepIsShortest` is the correctness of `firstBotPathStep`: its result is a
  neighbour of the start that is one nearer to the goal, or no step if no way
  leads there. It rests on `SearchInv`, which holds after every pop: a score is
  the length of a way (`Scored`), `cameFrom` leads back along it (`Traced`), a
  tile that is done has looked at its neighbours (`Explored`) and no open node
  promises less (`Settled`). The last needs that the Manhattan distance never
  falls by more than one in a step (`Triangle`); it is why a tile that is done is
  never opened again, so that `4 * Cardinality(grid) + 1` pops always suffice
  (`SearchEnds`, by `Work`). While a way is left to find, a tile on a shortest
  one is open (`TightOpen`), so the goal is popped at its distance.
- What distances are (`Measured`) is proved from their definition: within
  `Cardinality(grid) - 1` steps one has reached all one can (`Saturation`).
- `StepsLeadThereAlways` rests on `NavInv`: the cached first step is what a
  search from there would find.

### Induction

The prover cannot instantiate an induction theorem that takes an operator. Where
a definition is a recursive function over `0..n` (the shots of a tick, the pops
of a search, the widening of a neighbourhood), `Projectiles_proofs` and
`BotNavigation_proofs` derive what they need from the well-foundedness of `<`:
`Least` (a non-empty set of numbers has a least one), `UpTo` (induction over
`0..n` for a set instead of a predicate) and `Recursion` (the function exists).

### Model-checked only

All liveness, because fairness and `ENABLED` are outside what the prover
supports: `MatchResolves`, `EndedRoomIsReleased`, `GraceResolves`,
`LatestArrives`, `TerminalCloses`, `ShutdownTerminates`, `CloseReturnsToAll`,
`RemovedRoomDrains`, `PublishReturns`, `MatchComes`, `ExplorationEnds`; and the
two violations of section 6. No module declares a recursive operator, so nothing
is lost to that.

## 6. Findings

- **A malformed frame after the terminal handoff closes the session**
  (`OutboxMalformed`). `ai-docs/architecture.md:314` says the connection is kept.
  Once GameEnd is queued, `enqueueControlMessage` refuses the error reply and
  the read loop (`internal/rooms/websocket.go:804`) closes the session with
  cause `peer_close`, possibly before the writer has sent GameEnd.
- **The Shutdown deadline may not be in force yet** (`ShutdownDeadline`).
  `ai-docs/protocol.md:504` says the deadline closes the underlying connection
  and interrupts a graceful close in progress. A Ready or attach deadline worker
  (`internal/rooms/ready_deadline.go:42`) and a Ready ACK that cancels the match
  close sessions while they hold the mutation gate; `runShutdown`
  (`internal/rooms/cleanup.go:42`) waits for that gate before it starts the
  watcher that acts at the deadline. In that window Shutdown takes as long as
  the graceful closes do. The WebSocket library bounds them, so Shutdown still
  returns (`ShutdownTerminates` holds under `GracefulSpec`).

A note that is not a finding of a run: the list of deliberately absent features
in `ai-docs/architecture.md` still names a reconnect grace, which the code has.

## 7. What is not modelled, and why

- Positions. Movement, separation, dashes, the teleport of a skill, overlap and
  line-of-sight tests, dodging and target choice are floating-point geometry.
  `Combat` and `Projectiles` replace them by a choice, among what the rules
  allow, of who is hit, killed, bumped or stopped: more outcomes than the
  geometry has, so a property that holds here holds for every map and flight.
  `BotNavigation` takes the tile of a position and forgets the rest.
- The join rate limiter: one mutex, a map of token buckets and two formulas. Its
  clock is read before the lock; that hazard is listed without a property.
- HTTP decoding, JSON layout, wording and logging carry no property here.
- The heartbeat's timing: its close is one of the closers of a session.
- The idle TTL's clock: it may pass at any time when it applies.
- The WebSocket library: only that a graceful close returns, or does when the
  connection is aborted.
- A difference between `room.lastPlayers` and the players of `State`: one
  critical section of `room.mu` advances the one and copies it to the other, and
  `setInput` takes the same lock, so `Combat` has one client tick for both.
- Configuration loading, server wiring, metrics registration, static documents.
- `StoreShutdown` has one room in its runs; several rooms are in `Matchmaking`,
  without shutdown.

## 8. Plan

Done, in this order: `GameEnd`, `MatchPhase` and `RoomLifecycle` with its
proofs, `SnapshotFeed` and `ClientOutbox`, `StoreShutdown`, `Combat`,
`Observation`, `Matchmaking`, `Projectiles`, `BotPath` and `BotNavigation`.

Then proofs of the safety properties of all of them.

Next:

1. The rate limiter: clock readings taken before the lock and applied out of
   order to refill and sweep.
2. The teleport of a skill, in the tick its projectile hits: where it may lead and
   what it interrupts.
3. `GameEnd` on its own: what the results of a snapshot promise in each mode
   beyond the completeness that `EveryoneDecidedAtEnd` proves.
