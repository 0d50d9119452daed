--------------------------- MODULE BotNavigation ---------------------------
(***************************************************************************)
(* How one bot finds its way: the controller state that outlives a tick,   *)
(* that is the destination it explores and the cached first step of its    *)
(* last path, while targets appear, move and vanish, projectiles have to   *)
(* be dodged and other players stand in the way                            *)
(* (src/internal/rooms/bot_controller.go, bot_pathfinding.go, bot.go).     *)
(*                                                                         *)
(* A position is the tile it is in.  Several ticks may pass before a bot   *)
(* that follows its path is in the next tile: it steers to the middle of   *)
(* its own tile first.                                                     *)
(***************************************************************************)
EXTENDS BotPath

CONSTANTS Grids     \* the maps to explore

ASSUME GridsAssumption == \A g \in Grids : g \subseteq Nat \X Nat /\ IsFiniteSet(g) /\ g # {}

VARIABLES
    ground,    \* the tiles of the map a player may stand on
    pos,     \* the tile the bot is in
    cache,   \* cachedPathStart, cachedPathGoal and cachedPathNext, if any
    dest,    \* exploreDestination, if any
    aim,     \* where the last tick wanted the bot to go, if anywhere
    step,    \* the tile its MoveDir led to, if a path was found
    calm     \* nobody comes near the bot any more

vars == <<ground, pos, cache, dest, aim, step, calm>>

Nowhere == <<>>
NoCache == <<>>
Path(start, goal, next) == [start |-> start, goal |-> goal, next |-> next]

\* firstBotPathStep from every tile to every other, beside the distance it is
\* measured by: a set, so that it is worked out once and not at every tick
WaysTo(goal, g) ==
    {[start |-> start, goal |-> goal, grid |-> g, next |-> FirstStep(g, start, goal),
      length |-> Distances(g, goal)[start]] : start \in g \ {goal}}

Ways == UNION {UNION {WaysTo(goal, g) : goal \in g} : g \in Grids}

Way(start, goal) == CHOOSE w \in Ways : w.start = start /\ w.goal = goal /\ w.grid = ground

Distance(start, goal) == IF start = goal THEN 0 ELSE Way(start, goal).length
Reachable(start, goal) == Distance(start, goal) < Far(ground)

Init ==
    /\ ground \in Grids /\ pos \in ground
    /\ cache = NoCache /\ dest = Nowhere /\ aim = Nowhere /\ step = NoStep
    /\ calm = FALSE

-----------------------------------------------------------------------------
(* cachedBotPathDirection from the bot's tile to a goal.                    *)

\* Mutant of CacheHit: whom the bot went for is not looked at.
CacheHitForStart(goal) == cache # NoCache /\ cache.start = pos

CacheHit(goal) == cache # NoCache /\ cache.start = pos /\ cache.goal = goal

StepTo(goal) ==
    IF goal = pos THEN pos
    ELSE IF CacheHit(goal) THEN cache.next ELSE Way(pos, goal).next

CacheAfter(goal) ==
    IF goal = pos \/ StepTo(goal) = NoStep THEN NoCache
    ELSE IF CacheHit(goal) THEN cache ELSE Path(pos, goal, StepTo(goal))

Head(goal) ==
    /\ aim' = goal
    /\ step' = StepTo(goal)
    /\ cache' = CacheAfter(goal)

-----------------------------------------------------------------------------
(* botExploreDirection: a destination is kept until the bot is there, or    *)
(* until no way leads to it.  selectBotExploreTile hashes room, bot and     *)
(* epoch into a choice among the passable tiles, not the bot's own one if   *)
(* there is another; the walled-in ones are among them.                     *)

Candidates == IF ground = {pos} THEN ground ELSE ground \ {pos}

Destinations ==
    (IF dest = Nowhere THEN {} ELSE {dest}) \cup (IF dest \in {Nowhere, pos} THEN Candidates ELSE {})

\* a newly selected destination invalidates the cache
HeadAnew(goal) ==
    /\ aim' = goal
    /\ step' = IF goal = pos THEN pos ELSE Way(pos, goal).next
    /\ cache' = IF step' \in {pos, NoStep} THEN NoCache ELSE Path(pos, goal, step')

\* Mutant of DestAfter: a destination that cannot be reached is kept.
DestKept(goal, found) == goal

DestAfter(goal, found) == IF found = NoStep THEN Nowhere ELSE goal

Explore ==
    /\ \E goal \in Destinations :
          /\ IF goal = dest THEN Head(goal) ELSE HeadAnew(goal)
          /\ dest' = DestAfter(goal, step')
    /\ UNCHANGED <<ground, calm>>

\* with a target in sight: its tile, or a tile to retreat to
Chase ==
    /\ \E goal \in ground : Head(goal)
    /\ UNCHANGED <<ground, dest, calm>>

\* retreatGoal finds no tile the bot could back off to
Cornered ==
    /\ aim' = Nowhere /\ step' = NoStep /\ cache' = NoCache
    /\ UNCHANGED <<ground, dest, calm>>

\* botDodgeDirection comes first and leaves the controller state alone
Dodge ==
    /\ aim' = Nowhere /\ step' = NoStep
    /\ UNCHANGED <<ground, cache, dest, calm>>

-----------------------------------------------------------------------------
(* Where the bot is when the next tick looks: it follows its step or has    *)
(* not left its tile yet, or dodging, avoidBotPlayerCollisions or another   *)
(* player led it elsewhere.                                                 *)

Follow == pos' \in IF step' = NoStep THEN {pos} ELSE {pos, step'}
Astray == pos' \in {t \in ground : Gap(t[1], pos[1]) <= 1 /\ Gap(t[2], pos[2]) <= 1}

Disturbed ==
    /\ ~calm
    /\ (Explore \/ Chase \/ Cornered \/ Dodge) /\ Astray

Undisturbed == Explore /\ Follow

Quiet ==
    /\ ~calm /\ calm' = TRUE
    /\ aim' = Nowhere /\ step' = NoStep
    /\ UNCHANGED <<ground, pos, cache, dest>>

Next == Undisturbed \/ Disturbed \/ Quiet

Spec == Init /\ [][Next]_vars

(***************************************************************************)
(* Fairness: the match ticks on, and steering the same way tick after tick *)
(* brings an undisturbed bot into the tile its step leads to.              *)
(***************************************************************************)
Arrive == Undisturbed /\ pos' = IF step' = NoStep THEN pos ELSE step'

FairSpec == Spec /\ WF_vars(Arrive)

-----------------------------------------------------------------------------
(* Properties.                                                             *)

\* Every step a bot takes to a goal, cached or searched for, is to a tile it
\* may stand on, next to its own and one nearer to this goal; and it stands
\* still for want of a way only if there is none.
StepsLeadThere ==
    [][LET goal == aim' IN
       goal # Nowhere =>
          IF goal = pos THEN step' = pos
          ELSE IF Reachable(pos, goal)
               THEN /\ step' \in Neighbors(ground, pos)
                    /\ Distance(step', goal) + 1 = Distance(pos, goal)
               ELSE step' = NoStep]_vars

\* A bot that is left alone does not explore the same place for ever without
\* getting there, nor stand before one it cannot reach.
ExplorationEnds == calm ~> dest \in {Nowhere, pos}
=============================================================================
