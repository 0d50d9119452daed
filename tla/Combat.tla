------------------------------- MODULE Combat -------------------------------
(***************************************************************************)
(* What a tick of the authoritative simulation does to one match: the      *)
(* inputs that clients store between two ticks (setInput), the bots'       *)
(* attack cadence (tickRoomState, mergedTickInputsAtTick) and State.Step   *)
(* with its charges, bursts, dashes, skills and deaths.                    *)
(*                                                                         *)
(* Positions are abstracted: which projectile, melee attack or obstacle    *)
(* meets whom is a choice among the pairs that the rules allow, and every  *)
(* hit that matters kills (a hit that does not changes nothing here).      *)
(***************************************************************************)
EXTENDS Naturals, Sequences, FiniteSets

CONSTANTS Humans, Bots,
          Lineups,        \* the character assignments to explore
          Mode, TeamOf, Teams,
          MaxCharges,     \* [Characters -> Nat], normalAttack.maxCharges
          RechargeTicks,  \* normalAttack.rechargeTicks
          CooldownTicks,  \* skill.cooldownTicks
          DashTicks,      \* reloadDash.dashDurationTicks
          AttackOffsets, SkillOffsets, \* emissionOffsetsTicks of colt
          MaxTick,        \* bound: ticks of the match
          MaxClientTick   \* bound: ClientTick of an input

Players == Humans \cup Bots
Characters == {"shelly", "colt", "lily"}

\* validateProjectileSchedule: offsets start at 0 and strictly increase.
Schedule(offsets) ==
    /\ offsets \in Seq(Nat) /\ offsets # <<>> /\ offsets[1] = 0
    /\ \A i, j \in 1..Len(offsets) : i < j => offsets[i] < offsets[j]

ASSUME CombatAssumption ==
    /\ Humans \cap Bots = {} /\ IsFiniteSet(Players)
    /\ Lineups \subseteq [Players -> Characters]
    /\ MaxCharges \in [Characters -> Nat \ {0}]
    /\ RechargeTicks \in Nat \ {0} /\ CooldownTicks \in Nat \ {0} /\ DashTicks \in Nat \ {0}
    /\ Schedule(AttackOffsets) /\ Schedule(SkillOffsets)
    /\ MaxTick \in Nat /\ MaxClientTick \in Nat

VARIABLES
    tick,       \* State.tick, also the tick of the last snapshot
    character,  \* CharacterType of each player
    unit,       \* the players, attackStates, dashStates and burstStates of State
    armed,      \* owners who emitted a projectile, which may still be flying
    pending,    \* room.pendingInputs
    present,    \* the humans whose session is in room.clients
    botNext     \* room.nextBotAttackTicks, 0 for a missing entry

vars == <<tick, character, unit, armed, pending, present, botNext>>

Outcomes == INSTANCE GameEnd

Dead == {p \in Players : unit[p].dead}
Ended == Outcomes!ShouldEnd(Mode, Players, Dead, TeamOf, Teams)
Finalized(p) == p \in DOMAIN Outcomes!Results(Mode, Players, Dead, TeamOf, Teams)

\* CanPlayerDamage without the death of the target; no mode has friendly fire.
CanHurt(owner, target) == owner # target /\ (Mode = "solo" \/ TeamOf[owner] # TeamOf[target])

-----------------------------------------------------------------------------
(* An input: its ClientTick (0 is unsequenced), the buttons pressed, and    *)
(* whether AttackDir is not zero, which only a press makes matter.  An      *)
(* unsequenced input without a press acts like no input at all.             *)

Buttons == {"attack", "skill"}
NoInput == [client |-> 0, press |-> {}, aimed |-> FALSE]
InputCommand == {in \in [client : 0..MaxClientTick, press : SUBSET Buttons, aimed : BOOLEAN] :
                     in.press = {} => ~in.aimed}

\* Mutant of Merged: a newer movement drops the press.
MergedPlain(old, new) == new

\* setInput: a newer input without a press keeps the press that waits.
Merged(old, new) ==
    IF new.client > 0 /\ old.client > 0 /\ old.press # {} /\ new.press = {}
    THEN [old EXCEPT !.client = new.client]
    ELSE new

StorableInput(p, in) ==
    in.client > 0 => in.client > unit[p].ack
                     /\ (pending[p].client > 0 => in.client > pending[p].client)

SetInput(p) ==
    /\ p \in present /\ ~Ended /\ ~Finalized(p)
    /\ \E in \in InputCommand :
        /\ StorableInput(p, in)
        /\ pending' = [pending EXCEPT ![p] = Merged(@, in)]
    /\ UNCHANGED <<tick, character, unit, armed, present, botNext>>

\* releaseClient and, while the player has no result yet, a new session.
Leave(p) ==
    /\ p \in present /\ ~Ended
    /\ present' = present \ {p}
    /\ pending' = [pending EXCEPT ![p] = NoInput]
    /\ UNCHANGED <<tick, character, unit, armed, botNext>>

Return(p) ==
    /\ p \in Humans \ present /\ ~Ended /\ ~Finalized(p)
    /\ present' = present \cup {p}
    /\ UNCHANGED <<tick, character, unit, armed, pending, botNext>>

-----------------------------------------------------------------------------
(* The phases of Step, as functions of the state x of one player of         *)
(* character c at the tick t that the step produces.                        *)

NoDash == [left |-> 0, ready |-> 0]
NoBurst == [kind |-> "none", at |-> 0, next |-> 0]
Unit == [dead : BOOLEAN, charges : Nat, recharge : Nat,
         dash : [left : Nat, ready : Nat],
         burst : [kind : {"none", "attack", "skill"}, at : Nat, next : Nat],
         ready : Nat,                     \* SkillReadyTick
         ack : Nat,                       \* LastProcessedClientTick
         did : {"none", "attack", "skill"}] \* PressedAttack or PressedSkill of the snapshot

Fresh(c) == [dead |-> FALSE, charges |-> MaxCharges[c], recharge |-> 0, dash |-> NoDash,
             burst |-> NoBurst, ready |-> 0, ack |-> 0, did |-> "none"]

Offsets(kind) == IF kind = "attack" THEN AttackOffsets ELSE SkillOffsets
Count(kind) == Len(Offsets(kind))
Dashing(x) == x.dash # NoDash
Bursting(x) == x.burst # NoBurst
Killed(x) == [x EXCEPT !.dead = TRUE]

\* clearPlayerDash after a death (EliminatePlayers, stepTimedDashes, projection).
Grounded(x) == IF x.dead THEN [x EXCEPT !.dash = NoDash] ELSE x

\* rechargeAttackCharges, after the press flags are cleared
Recharged(x, c) ==
    LET ticks == x.recharge + 1
        total == x.charges + ticks \div RechargeTicks
    IN  IF x.charges >= MaxCharges[c] \/ total >= MaxCharges[c]
        THEN [x EXCEPT !.charges = MaxCharges[c], !.recharge = 0, !.did = "none"]
        ELSE [x EXCEPT !.charges = total, !.recharge = ticks % RechargeTicks, !.did = "none"]

\* Mutant of ShotDue: the schedule starts one shot late.
ShotDueLate(x, t) ==
    /\ Bursting(x) /\ ~x.dead
    /\ x.burst.next < Count(x.burst.kind)
    /\ t = x.burst.at + Offsets(x.burst.kind)[x.burst.next + 1] + 1

\* collectDueBurstEmissions: the next shot leaves exactly at its tick.
ShotDue(x, t) ==
    /\ Bursting(x) /\ ~x.dead
    /\ x.burst.next < Count(x.burst.kind)
    /\ t = x.burst.at + Offsets(x.burst.kind)[x.burst.next + 1]

AfterShot(x, t) ==
    IF x.dead THEN [x EXCEPT !.burst = NoBurst]
    ELSE IF ShotDue(x, t) THEN [x EXCEPT !.burst.next = @ + 1] ELSE x

\* prepareInput
Accepts(x, in) == ~x.dead /\ (in.client > 0 => in.client > x.ack)
Prepared(x, in) ==
    IF Accepts(x, in) /\ in.client > 0 THEN [x EXCEPT !.ack = in.client] ELSE x

Pressed(x, in, button) == Accepts(x, in) /\ button \in in.press /\ in.aimed

\* tryApproveSkill where prepareTimedDashes or applyPreparedInput reach it
SkillApproved(x, in, t) == Pressed(x, in, "skill") /\ ~Dashing(x) /\ t >= x.ready

\* dispatchApprovedSkill; a new burst replaces a running one.
WithSkill(x, c, t) ==
    LET used == [x EXCEPT !.did = "skill", !.ready = t + CooldownTicks]
    IN  CASE c = "shelly" -> [used EXCEPT !.charges = MaxCharges[c], !.recharge = 0,
                                          !.dash = [left |-> DashTicks, ready |-> t + DashTicks]]
          [] c = "colt"   -> [used EXCEPT !.burst = [kind |-> "skill", at |-> t, next |-> 1]]
          [] c = "lily"   -> used

\* Mutant of AttackApproved: a burst does not refuse the next attack.
AttackApprovedTwice(x, in, t) ==
    /\ Pressed(x, in, "attack") /\ ~SkillApproved(x, in, t) /\ ~Dashing(x)
    /\ x.charges > 0

\* applyPreparedInput, approveProjectileAttack, approveMeleeAttack: a running
\* burst refuses the next one before a charge is consumed.
AttackApproved(x, in, t) ==
    /\ Pressed(x, in, "attack") /\ ~SkillApproved(x, in, t) /\ ~Dashing(x)
    /\ ~Bursting(x) /\ x.charges > 0

\* Mutant of WithAttack: consuming a charge restarts the recharge.
WithAttackRestart(x, c, t) ==
    [x EXCEPT !.did = "attack", !.charges = @ - 1, !.recharge = 0,
              !.burst = IF c = "colt" THEN [kind |-> "attack", at |-> t, next |-> 1] ELSE @]

WithAttack(x, c, t) ==
    [x EXCEPT !.did = "attack", !.charges = @ - 1,
              !.burst = IF c = "colt" THEN [kind |-> "attack", at |-> t, next |-> 1] ELSE @]

Applied(x, in, c, t) ==
    CASE SkillApproved(x, in, t)  -> WithSkill(x, c, t)
      [] AttackApproved(x, in, t) -> WithAttack(x, c, t)
      [] OTHER                    -> x

\* stepTimedDashes of a live player; bumped is a collision of this tick.
Dashed(x, bumped) ==
    IF ~Dashing(x) THEN x
    ELSE IF x.dash.left = 1 \/ bumped THEN [x EXCEPT !.dash = NoDash]
    ELSE [x EXCEPT !.dash.left = @ - 1]

\* finishCompletedBursts
Finished(x) ==
    IF Bursting(x) /\ x.burst.next >= Count(x.burst.kind)
    THEN [x EXCEPT !.burst = NoBurst] ELSE x

-----------------------------------------------------------------------------
Init ==
    /\ tick = 0
    /\ character \in Lineups
    /\ unit = [p \in Players |-> Fresh(character[p])]
    /\ armed = {}
    /\ pending = [p \in Humans |-> NoInput]
    /\ present = Humans
    /\ botNext = [b \in Bots |-> 0]

\* A live bot attacks a live foe once its cadence allows; ClientTick stays 0.
MayAttack(b, dead) ==
    /\ b \notin dead /\ tick + 1 >= botNext[b]
    /\ \E q \in Players \ dead : CanHurt(b, q)

BotInput(attacks) == [client |-> 0, press |-> IF attacks THEN {"attack"} ELSE {}, aimed |-> attacks]

\* Mutant of Cadence: one tick early.
CadenceEarly(b, x) ==
    IF x.did = "attack" THEN tick + RechargeTicks ELSE botNext[b]

\* tickRoomState: the next attack of a bot whose attack the snapshot shows.
Cadence(b, x) ==
    IF x.did = "attack" THEN tick + 1 + RechargeTicks ELSE botNext[b]

\* Everything Step does to a player before bodies meet: in is its input, fallen
\* says that it forfeits or is shot in this tick.
Acted(p, in, fallen) ==
    LET loaded == Recharged(unit[p], character[p])
        struck == IF fallen THEN Killed(loaded) ELSE loaded
        shooter == AfterShot(Grounded(struck), tick + 1)
    IN  [Applied(shooter, in, character[p], tick + 1) EXCEPT !.ack = Prepared(shooter, in).ack]

\* ... and after that: dashes move and may bump, melee attacks cut.
Settled(x, bumped, cut) ==
    LET dashed == Dashed(Grounded(x), bumped)
    IN  Grounded(Finished(IF cut THEN Killed(dashed) ELSE dashed))

\* tickRoomState.  forfeits: players whose grace expired; attackers: the bots
\* that press; shot, cut, bumped: projectile deaths, melee deaths, dash contacts.
Tick ==
    /\ tick < MaxTick /\ ~Ended
    /\ \E forfeits \in SUBSET (Humans \ present) :
       LET lost == Dead \cup forfeits
       IN  \E attackers \in SUBSET {b \in Bots : MayAttack(b, lost)},
              shot \in SUBSET {p \in Players \ lost : \E q \in armed : CanHurt(q, p)} :
           LET fallen == lost \cup shot
               in(p) == IF p \in Humans THEN pending[p] ELSE BotInput(p \in attackers)
               acted == [p \in Players |-> Acted(p, in(p), p \in fallen)]
               slashers == {p \in Players : character[p] = "lily" /\ acted[p].did = "attack"}
               emitters == {p \in Players :
                    \/ p \notin fallen /\ ShotDue(unit[p], tick + 1)
                    \/ acted[p].did = "attack" /\ character[p] # "lily"
                    \/ acted[p].did = "skill" /\ character[p] # "shelly"}
           IN  \E bumped \in SUBSET {p \in Players : Dashing(acted[p])},
                  cut \in SUBSET {p \in Players \ fallen : \E q \in slashers : CanHurt(q, p)} :
                 /\ unit' = [p \in Players |-> Settled(acted[p], p \in bumped, p \in cut)]
                 /\ armed' = armed \cup emitters
                 /\ botNext' = [b \in Bots |-> IF b \in lost THEN 0 ELSE Cadence(b, acted[b])]
    /\ tick' = tick + 1
    /\ pending' = [p \in Humans |-> NoInput]
    /\ UNCHANGED <<character, present>>

Next ==
    \/ \E p \in Humans : SetInput(p) \/ Leave(p) \/ Return(p)
    \/ Tick

Spec == Init /\ [][Next]_vars

-----------------------------------------------------------------------------
(* The public fields of a snapshot (projectAttackStateToPlayers).           *)

AttackReadyTick(p) ==
    LET x == unit[p]
    IN  IF Bursting(x) /\ ~x.dead
        THEN x.burst.at + Offsets(x.burst.kind)[Count(x.burst.kind)] + 1
        ELSE x.dash.ready

NextAttackChargeTick(p) ==
    LET x == unit[p]
    IN  IF x.charges >= MaxCharges[character[p]] THEN 0
        ELSE tick + RechargeTicks - x.recharge

-----------------------------------------------------------------------------
(* A press of a sequenced input waits for the tick, until its client        *)
(* presses again or sends an unsequenced input: movement never erases it    *)
(* (setInput merges, rooms/websocket.go).                                   *)
PressSurvives ==
    [][\A p \in Humans \cap present' :
            LET old == pending[p]
                new == pending'[p]
            IN  tick' = tick /\ old.client > 0 /\ old.press # {} /\ new.client > 0 =>
                    new.press # {}]_vars

(* The state of the match has its type, and its parts agree: a stored input *)
(* is newer than what the simulation has processed (so Step never drops it  *)
(* as old), the dead do not dash, and a dash ends at its ready tick.        *)
TypeOK ==
    /\ tick \in 0..MaxTick /\ character \in [Players -> Characters]
    /\ unit \in [Players -> Unit] /\ armed \subseteq Players
    /\ pending \in [Humans -> InputCommand] /\ present \subseteq Humans
    /\ botNext \in [Bots -> Nat]
    /\ \A p \in Humans : pending[p].client > 0 => pending[p].client > unit[p].ack
    /\ \A p \in Players :
        /\ unit[p].charges <= MaxCharges[character[p]] /\ unit[p].recharge < RechargeTicks
        /\ unit[p].dead => ~Dashing(unit[p])
        /\ Dashing(unit[p]) => unit[p].dash.ready = tick + unit[p].dash.left + 1

(* The burst of a live player is never ahead of nor behind its schedule: it *)
(* has emitted exactly the shots whose tick has come, and it is forgotten   *)
(* with its last shot (a shot that missed its tick would block the burst,   *)
(* and the owner's attacks, for ever).                                      *)
BurstOnSchedule ==
    /\ TypeOK
    /\ \A p \in Players : LET b == unit[p].burst IN
           Bursting(unit[p]) /\ ~unit[p].dead =>
               /\ b.next = Cardinality({i \in 1..Count(b.kind) : b.at + Offsets(b.kind)[i] <= tick})
               /\ b.next < Count(b.kind)

(* The snapshot predicts the next tick exactly.  An aimed skill press is    *)
(* approved if and only if SkillReadyTick has come and the player is not    *)
(* dashing; an aimed attack press if and only if no skill takes its place,  *)
(* AttackReadyTick has come and a charge is there or promised for that tick.*)
PressesArePredictable ==
    [][tick' = tick + 1 => \A p \in Humans :
        LET in == pending[p]
            skill == "skill" \in in.press /\ unit[p].ready <= tick' /\ ~Dashing(unit[p])
            attack == /\ "attack" \in in.press /\ ~skill
                      /\ AttackReadyTick(p) <= tick'
                      /\ unit[p].charges > 0 \/ NextAttackChargeTick(p) = tick'
        IN  in.aimed /\ ~unit'[p].dead =>
                unit'[p].did = CASE skill -> "skill" [] attack -> "attack" [] OTHER -> "none"]_vars

(* A charge promised for a tick arrives at that tick, neither earlier nor   *)
(* later, whatever is fired in between; only a reload dash, which refills   *)
(* all charges, ends the wait sooner.                                       *)
ChargePromiseKept ==
    [][tick' = tick + 1 => \A p \in Players :
        LET promised == NextAttackChargeTick(p)
            spent == IF unit'[p].did = "attack" THEN 1 ELSE 0
            reloads == unit'[p].did = "skill" /\ character[p] = "shelly"
        IN  promised # 0 /\ ~reloads =>
                IF promised = tick' THEN unit'[p].charges + spent = unit[p].charges + 1
                ELSE unit'[p].charges + spent = unit[p].charges
                     /\ NextAttackChargeTick(p)' = promised]_vars

(* When a bot's cadence lets it attack, its attack goes through: the charge *)
(* is back and no burst of its own is running (two clocks of different      *)
(* goroutines' state, nextBotAttackTicks of the room and attackStates of    *)
(* the simulation, agree).                                                  *)
BotFindsCharge ==
    \A b \in Bots : ~unit[b].dead /\ tick + 1 >= botNext[b] =>
        /\ Recharged(unit[b], character[b]).charges = MaxCharges[character[b]]
        /\ ~Bursting(unit[b])
=============================================================================
