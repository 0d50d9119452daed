---------------------------- MODULE Projectiles ----------------------------
(***************************************************************************)
(* The projectiles of one match, tick by tick: flight, walls, hits and     *)
(* range, the damage they and melee attacks do, the shots a tick adds, and *)
(* the destroyed shots that stay in the snapshots for a while              *)
(* (src/internal/simulation/simulation.go, normal_attack.go, melee.go).    *)
(*                                                                         *)
(* There are no positions here.  Which shots meet a wall and whom they     *)
(* overlap is a choice at every tick, distances are whole numbers, and     *)
(* who may attack when is Combat's subject.                                *)
(***************************************************************************)
EXTENDS Naturals, Sequences, FiniteSets

CONSTANTS
    N,          \* players 1..N, in the order of their ids
    FreeForAll, \* teamBehavior of the mode
    TeamOf,
    MaxHP, MeleeDamage,
    Kinds,      \* ways to shoot
    Count,      \* projectiles a kind emits in one tick
    Damage,     \* damagePerHit
    Speed,      \* distance per tick
    Reach,      \* maxDistance: the range of the attack
    Retention,  \* projectileTombstoneRetentionTicks
    MaxTick,    \* bound: ticks of the match
    MaxShots    \* bound: shots of the match

Players == 1..N

ASSUME ProjectilesAssumption ==
    /\ N \in Nat /\ FreeForAll \in BOOLEAN /\ DOMAIN TeamOf = Players
    /\ MaxHP \in Nat \ {0} /\ MeleeDamage \in Nat \ {0} /\ Retention \in Nat \ {0}
    /\ Count \in [Kinds -> Nat \ {0}] /\ Damage \in [Kinds -> Nat \ {0}]
    /\ Speed \in [Kinds -> Nat \ {0}] /\ Reach \in [Kinds -> Nat \ {0}]
    /\ MaxTick \in Nat /\ MaxShots \in Nat

VARIABLES
    tick,   \* State.tick, the tick of the last snapshot
    hp,     \* HP of each player; 0 is IsDead
    list,   \* State.projectiles, in order
    moved,  \* projectileRuntime: how far each shot has flown
    ended,  \* projectileDestroyedAt
    seq,    \* nextProjectileSeq
    shown   \* history: snapshots each destroyed shot in the list was in

vars == <<tick, hp, list, moved, ended, seq, shown>>

\* The id of a shot carries the snapshot tick it was emitted for, its owner
\* and its sequence number; the last one tells shots apart.
Shot == [id : 1..MaxShots, born : Nat, owner : Players, kind : Kinds, destroyed : BOOLEAN]
Ids(shots) == {shots[i].id : i \in DOMAIN shots}

\* a Go map with an entry set or deleted
Put(map, key, value) == [k \in DOMAIN map \cup {key} |-> IF k = key THEN value ELSE map[k]]
Without(map, key) == [k \in DOMAIN map \ {key} |-> map[k]]

Init ==
    /\ tick = 0 /\ seq = 0
    /\ hp = [p \in Players |-> MaxHP]
    /\ list = <<>>
    /\ moved = <<>> /\ ended = <<>> /\ shown = <<>>

\* CanPlayerDamage; no mode has friendly fire
CanDamage(owner, target, health) ==
    owner # target /\ health[target] > 0 /\ (FreeForAll \/ TeamOf[owner] # TeamOf[target])

Hurt(health, p, amount) == [health EXCEPT ![p] = IF @ > amount THEN @ - amount ELSE 0]

Smallest(ps) == CHOOSE p \in ps : \A q \in ps : p <= q

-----------------------------------------------------------------------------
(* moveProjectiles: the shots one after the other, on the state w of the    *)
(* tick in progress.                                                        *)

\* markProjectileDestroyed: the first snapshot it is shown in is the next one
Destroy(w, i) ==
    [w EXCEPT !.list[i].destroyed = TRUE, !.ended = Put(@, w.list[i].id, tick + 1)]

\* the player of the smallest id the owner may damage, among those it overlaps
Hit(w, i, near) ==
    LET targets == {p \in near : CanDamage(w.list[i].owner, p, w.hp)} IN
    IF targets = {} THEN w
    ELSE Destroy([w EXCEPT !.hp = Hurt(@, Smallest(targets), Damage[w.list[i].kind])], i)

\* Mutant of ReachesRange: the shot that just reaches its range flies on.
ReachesRangeLate(shot, distance) == Reach[shot.kind] - distance < Speed[shot.kind]

\* the last step is cut to what is left of the range
ReachesRange(shot, distance) == Reach[shot.kind] - distance <= Speed[shot.kind]

StepLength(shot, distance) ==
    IF ReachesRange(shot, distance) THEN Reach[shot.kind] - distance ELSE Speed[shot.kind]

FlyOne(w, i, meets) ==
    LET shot == w.list[i]
        distance == w.moved[shot.id]
        flown == [w EXCEPT !.moved[shot.id] = distance + StepLength(shot, distance)]
        met == IF meets.wall THEN Destroy(flown, i) ELSE Hit(flown, i, meets.near)
        over == IF ~met.list[i].destroyed /\ ReachesRange(shot, distance) THEN Destroy(met, i) ELSE met
    IN  IF over.list[i].destroyed THEN [over EXCEPT !.moved = Without(@, shot.id)] ELSE over

\* what each shot in flight meets: a wall, or the players it overlaps
Flying == {i \in DOMAIN list : ~list[i].destroyed}
Meeting == [wall : {TRUE}, near : {{}}] \cup [wall : {FALSE}, near : SUBSET Players]
Meetings == {meets \in [Flying -> Meeting] : \A i \in Flying : list[i].owner \notin meets[i].near}

Flown(meets) ==
    LET fly[i \in 0..Len(list)] ==
            IF i = 0 THEN [hp |-> hp, list |-> list, moved |-> moved, ended |-> ended]
            ELSE IF i \in Flying THEN FlyOne(fly[i - 1], i, meets[i]) ELSE fly[i - 1]
    IN  fly[Len(list)]

MoveProjectiles == {Flown(meets) : meets \in Meetings}

-----------------------------------------------------------------------------
(* The attacks of the tick, each by a player who is alive after the flight. *)
(* All melee damage is done at once, so two players may kill each other;    *)
(* the shots of one who dies are still emitted, in the order of the owners. *)
(* A shot of a running burst goes before what its owner fires in that tick. *)
(* Kinds for which MaxShots leaves no room are not tried.                   *)

Attacks(w) ==
    LET Fits == {k \in Kinds : seq + Count[k] <= MaxShots}
        Melee == {"melee"} \X Players
        Shoot == {"shoot"} \X Fits
        Both == {"both"} \X {k \in Fits : Count[k] = 1} \X Fits
    IN  {does \in [Players -> {<<"rest">>} \cup Melee \cup Shoot \cup Both] :
            \A p \in Players :
                /\ does[p] # <<"rest">> => w.hp[p] > 0
                /\ does[p] \in Melee => CanDamage(p, does[p][2], w.hp)}

MeleeDamaged(health, does) ==
    LET Strikes(p) == Cardinality({q \in Players : does[q] = <<"melee", p>>}) IN
    [p \in Players |-> Hurt(health, p, Strikes(p) * MeleeDamage)[p]]

Volley(p, k) == [i \in 1..Count[k] |-> [owner |-> p, kind |-> k]]
Fired(p, what) ==
    CASE what[1] = "shoot" -> Volley(p, what[2])
      [] what[1] = "both"  -> Volley(p, what[2]) \o Volley(p, what[3])
      [] OTHER -> <<>>

Emitted(does) ==
    LET from[p \in 0..N] == IF p = 0 THEN <<>> ELSE from[p - 1] \o Fired(p, does[p])
    IN  [i \in DOMAIN from[N] |->
            [id |-> seq + i, born |-> tick + 1, owner |-> from[N][i].owner,
             kind |-> from[N][i].kind, destroyed |-> FALSE]]

-----------------------------------------------------------------------------
(* pruneExpiredProjectileTombstones, after State.tick has moved on.         *)

\* Mutant of Kept: one snapshot too many.
KeptLonger(w, shot) == ~shot.destroyed \/ (tick + 1) - w.ended[shot.id] <= Retention

Kept(w, shot) == ~shot.destroyed \/ (tick + 1) - w.ended[shot.id] < Retention

Pruned(w, shots) ==
    LET keep[i \in 0..Len(shots)] ==
            IF i = 0 THEN <<>>
            ELSE IF Kept(w, shots[i]) THEN Append(keep[i - 1], shots[i]) ELSE keep[i - 1]
    IN  keep[Len(shots)]

Step ==
    /\ tick < MaxTick
    /\ \E w \in MoveProjectiles : \E does \in Attacks(w) :
       LET shots == Emitted(does)
           remaining == Pruned(w, w.list \o shots)
       IN  /\ seq + Len(shots) <= MaxShots
           /\ hp' = MeleeDamaged(w.hp, does)
           /\ list' = remaining
           /\ moved' = [id \in DOMAIN w.moved \cup Ids(shots) |->
                            IF id \in Ids(shots) THEN 0 ELSE w.moved[id]]
           /\ ended' = [id \in DOMAIN w.ended \cap Ids(remaining) |-> w.ended[id]]
           /\ shown' = [id \in DOMAIN w.ended \cap Ids(remaining) |->
                            IF id \in DOMAIN shown THEN shown[id] + 1 ELSE 1]
           /\ seq' = seq + Len(shots)
    /\ tick' = tick + 1

\* EliminatePlayers: forfeits, between two ticks
Eliminate ==
    /\ \E ps \in SUBSET {p \in Players : hp[p] > 0} \ {{}} :
          hp' = [p \in Players |-> IF p \in ps THEN 0 ELSE hp[p]]
    /\ UNCHANGED <<tick, list, moved, ended, seq, shown>>

Next == Step \/ Eliminate

Spec == Init /\ [][Next]_vars

-----------------------------------------------------------------------------
(* Properties.                                                             *)

CeilDiv(a, b) == (a + b - 1) \div b

\* The three books kept about a shot agree: one that flies has an entry in
\* projectileRuntime only, one destroyed has an entry in projectileDestroyedAt
\* only, none that has left the list has either; and a shot that meets nothing
\* flies its range exactly, at its speed, ending in the tick that reaches it.
BooksAgree ==
    /\ hp \in [Players -> 0..MaxHP]
    /\ list \in Seq(Shot)
    /\ \A i, j \in DOMAIN list : i < j => list[i].id < list[j].id /\ list[i].born <= list[j].born
    /\ DOMAIN moved = {list[i].id : i \in Flying}
    /\ DOMAIN ended = {list[i].id : i \in DOMAIN list \ Flying}
    /\ \A i \in DOMAIN list :
          LET shot == list[i]
              flight == CeilDiv(Reach[shot.kind], Speed[shot.kind])
          IN  IF shot.destroyed
              THEN ended[shot.id] \in (shot.born + 1)..(shot.born + flight)
              ELSE /\ moved[shot.id] = (tick - shot.born) * Speed[shot.kind]
                   /\ tick - shot.born < flight

\* A destroyed shot is in exactly Retention snapshots, the first one being
\* that of the tick it was destroyed in, and a shot leaves the list in no
\* other way: a client that misses snapshots in between still learns of it
\* (architecture.md:210, decisions.md:843; destroyedAt is counted from the
\* tick in progress, the pruning from the one just finished).
ShownThenGone ==
    [][/\ \A i \in DOMAIN list :
             list[i].id \notin Ids(list') => shown[list[i].id] = Retention
       /\ \A id \in DOMAIN shown' : shown'[id] <= Retention]_vars
=============================================================================
