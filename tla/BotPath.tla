------------------------------ MODULE BotPath ------------------------------
(***************************************************************************)
(* The bots' search for a way over the tiles of a map: the A* of           *)
(* firstBotPathStep, pop by pop, and the distances it is measured by       *)
(* (src/internal/rooms/bot_pathfinding.go).  A grid is the set of tiles a  *)
(* player may stand on, a tile the pair of its x and y.                    *)
(***************************************************************************)
EXTENDS Naturals, FiniteSets

Gap(a, b) == IF a < b THEN b - a ELSE a - b
Manhattan(s, t) == Gap(s[1], t[1]) + Gap(s[2], t[2])

\* botNeighborDeltas and botTilePassable
Neighbors(grid, t) == {n \in grid : Manhattan(n, t) = 1}

-----------------------------------------------------------------------------
(* botOpenHeap: nodes by f, then h, then y, then x.                         *)

F(node, goal) == node.g + Manhattan(node.tile, goal)

Before(a, b, goal) ==
    LET h(node) == Manhattan(node.tile, goal)
    IN  \/ F(a, goal) < F(b, goal)
        \/ F(a, goal) = F(b, goal) /\ h(a) < h(b)
        \/ F(a, goal) = F(b, goal) /\ h(a) = h(b)
             /\ (a.tile[2] < b.tile[2] \/ (a.tile[2] = b.tile[2] /\ a.tile[1] < b.tile[1]))

First(open, goal) == CHOOSE a \in open : \A b \in open \ {a} : Before(a, b, goal)

-----------------------------------------------------------------------------
(* The search: the open nodes, gScore, cameFrom.  A tile reached again on a *)
(* shorter way is opened again, and its older node skipped when it comes.   *)

Opened(start) ==
    [open |-> {[tile |-> start, g |-> 0]}, score |-> [t \in {start} |-> 0],
     from |-> [t \in {} |-> start], found |-> FALSE]

Expand(s, grid, node) ==
    LET better == {n \in Neighbors(grid, node.tile) : n \in DOMAIN s.score => node.g + 1 < s.score[n]} IN
    [s EXCEPT !.open = (@ \ {node}) \cup {[tile |-> n, g |-> node.g + 1] : n \in better},
              !.score = [t \in DOMAIN @ \cup better |-> IF t \in better THEN node.g + 1 ELSE @[t]],
              !.from = [t \in DOMAIN @ \cup better |-> IF t \in better THEN node.tile ELSE @[t]]]

PopNext(s, grid, goal) ==
    LET node == First(s.open, goal) IN
    IF s.open = {} \/ s.found THEN s
    ELSE IF node.g # s.score[node.tile] THEN [s EXCEPT !.open = @ \ {node}]
    ELSE IF node.tile = goal THEN [s EXCEPT !.found = TRUE]
    ELSE Expand(s, grid, node)

\* a tile is opened at most once for each of its neighbours, and once as start
Pops(grid) == 4 * Cardinality(grid) + 1

Search(grid, start, goal) ==
    LET run[n \in 0..Pops(grid)] ==
            IF n = 0 THEN Opened(start) ELSE PopNext(run[n - 1], grid, goal)
    IN  run[Pops(grid)]

\* botFirstStepTile: from the goal back to the tile whose parent is the start
Back(s, start, t) == IF s.from[t] = start THEN t ELSE s.from[t]

FirstStepTile(s, grid, start, goal) ==
    LET back[n \in 0..Cardinality(grid)] == IF n = 0 THEN goal ELSE Back(s, start, back[n - 1])
    IN  back[Cardinality(grid)]

NoStep == <<>>

FirstStep(grid, start, goal) ==
    LET s == Search(grid, start, goal) IN
    IF s.found THEN FirstStepTile(s, grid, start, goal) ELSE NoStep

-----------------------------------------------------------------------------
(* What it is measured by: the tiles within n steps of a goal, and from     *)
(* them the distance, or Far for a tile from which there is no way.         *)

Far(grid) == Cardinality(grid)

Wider(grid, tiles) == tiles \cup UNION {Neighbors(grid, t) : t \in tiles}

Distances(grid, goal) ==
    LET within[n \in 0..Far(grid)] == IF n = 0 THEN {goal} ELSE Wider(grid, within[n - 1])
        reached(t) == {n \in 0..Far(grid) : t \in within[n]}
    IN  [t \in grid |-> IF reached(t) = {} THEN Far(grid)
                        ELSE CHOOSE n \in reached(t) : \A m \in reached(t) : n <= m]
=============================================================================
