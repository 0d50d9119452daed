---------------------------- MODULE Combat_proofs ----------------------------
(***************************************************************************)
(* Proofs about Combat, for every line-up, configuration and match length: *)
(* bursts, charges and presses are where the snapshots promise.            *)
(***************************************************************************)
EXTENDS Combat, FiniteSetTheorems, TLAPS

-----------------------------------------------------------------------------
(* What holds of the state x of one player of character c at tick t.         *)

ChargeFits(x, c) == x.charges <= MaxCharges[c] /\ x.recharge < RechargeTicks

\* end is the tick at which a dash with nothing left is over.
DashFits(x, end) ==
    /\ Dashing(x) => x.dash.left > 0 /\ x.dash.ready = end + x.dash.left
    /\ x.dead => ~Dashing(x)

\* The shots 1..next of a burst are out and the others are due later.
ShotsFit(b, t) ==
    /\ b.kind \in {"attack", "skill"} /\ b.next \in 1..Count(b.kind)
    /\ b.at + Offsets(b.kind)[b.next] <= t
    /\ b.next < Count(b.kind) => t < b.at + Offsets(b.kind)[b.next + 1]
BurstFits(x, t) ==
    Bursting(x) /\ ~x.dead => ShotsFit(x.burst, t) /\ x.burst.next < Count(x.burst.kind)

UnitFits(x, c, t) ==
    x \in Unit /\ ChargeFits(x, c) /\ DashFits(x, t + 1) /\ BurstFits(x, t)

CombatInv ==
    TypeOK /\ \A p \in Players : UnitFits(unit[p], character[p], tick)

-----------------------------------------------------------------------------
(* The phases of Step.                                                       *)

LEMMA Schedules ==
    ASSUME NEW kind
    PROVE  /\ Count(kind) \in Nat \ {0} /\ Offsets(kind)[1] = 0
           /\ \A i \in 1..Count(kind) : Offsets(kind)[i] \in Nat
           /\ \A i, j \in 1..Count(kind) : i < j => Offsets(kind)[i] < Offsets(kind)[j]
  <1>1. Schedule(Offsets(kind))
    BY CombatAssumption DEF Offsets
  <1>2. Offsets(kind) \in Seq(Nat) /\ Offsets(kind) # <<>>
    BY <1>1 DEF Schedule
  <1>3. Len(Offsets(kind)) \in Nat \ {0} /\ \A i \in 1..Len(Offsets(kind)) : Offsets(kind)[i] \in Nat
    BY <1>2
  <1>4. QED
    BY <1>1, <1>3 DEF Schedule, Count

LEMMA RechargeDivision ==
    ASSUME NEW n \in 1..RechargeTicks
    PROVE  /\ n = RechargeTicks => n \div RechargeTicks = 1 /\ n % RechargeTicks = 0
           /\ n # RechargeTicks => n \div RechargeTicks = 0 /\ n % RechargeTicks = n
  <1>1. RechargeTicks \in Nat \ {0}
    BY CombatAssumption
  <1>2. QED
    BY <1>1

\* What recharging leaves alone, and the three things it does to the charges
LEMMA RechargedFields ==
    ASSUME NEW x \in Unit, NEW c \in Characters, ChargeFits(x, c)
    PROVE  LET y == Recharged(x, c)
           IN  /\ y \in Unit /\ ChargeFits(y, c) /\ y.did = "none"
               /\ y.dead = x.dead /\ y.dash = x.dash /\ y.burst = x.burst
               /\ y.ready = x.ready /\ y.ack = x.ack
               /\ x.charges = MaxCharges[c] => y.charges = MaxCharges[c] /\ y.recharge = 0
               /\ x.charges < MaxCharges[c] /\ x.recharge + 1 = RechargeTicks =>
                     y.charges = x.charges + 1 /\ y.recharge = 0
               /\ x.charges < MaxCharges[c] /\ x.recharge + 1 # RechargeTicks =>
                     y.charges = x.charges /\ y.recharge = x.recharge + 1
  <1>1. /\ MaxCharges[c] \in Nat \ {0} /\ RechargeTicks \in Nat \ {0}
        /\ x.charges \in Nat /\ x.recharge \in Nat
        /\ x.charges <= MaxCharges[c] /\ x.recharge < RechargeTicks
    BY CombatAssumption DEF Unit, ChargeFits
  <1> DEFINE ticks == x.recharge + 1
             total == x.charges + ticks \div RechargeTicks
  <1>2. /\ ticks \in 1..RechargeTicks
        /\ ticks = RechargeTicks => total = x.charges + 1 /\ ticks % RechargeTicks = 0
        /\ ticks # RechargeTicks => total = x.charges /\ ticks % RechargeTicks = ticks
    BY <1>1, RechargeDivision
  <1>3. Recharged(x, c) =
           IF x.charges >= MaxCharges[c] \/ total >= MaxCharges[c]
           THEN [x EXCEPT !.charges = MaxCharges[c], !.recharge = 0, !.did = "none"]
           ELSE [x EXCEPT !.charges = total, !.recharge = ticks % RechargeTicks, !.did = "none"]
    BY DEF Recharged
  <1> HIDE DEF ticks, total
  <1>4. ticks = x.recharge + 1
    BY DEF ticks
  <1> DEFINE y == Recharged(x, c)
  <1>5. \A m, r \in Nat : [x EXCEPT !.charges = m, !.recharge = r, !.did = "none"] \in Unit
    BY DEF Unit
  <1>6. /\ y \in Unit /\ y.did = "none"
        /\ y.dead = x.dead /\ y.dash = x.dash /\ y.burst = x.burst /\ y.ready = x.ready /\ y.ack = x.ack
        /\ \/ /\ y.charges = MaxCharges[c] /\ y.recharge = 0
              /\ x.charges >= MaxCharges[c] \/ total >= MaxCharges[c]
           \/ /\ y.charges = total /\ y.recharge = ticks % RechargeTicks
              /\ ~(x.charges >= MaxCharges[c] \/ total >= MaxCharges[c])
    <2>1. CASE x.charges >= MaxCharges[c] \/ total >= MaxCharges[c]
      <3>1. y = [x EXCEPT !.charges = MaxCharges[c], !.recharge = 0, !.did = "none"]
        BY <1>3, <2>1
      <3> HIDE DEF y
      <3>2. y \in Unit
        BY <1>1, <1>5, <3>1
      <3>3. /\ y.dead = x.dead /\ y.dash = x.dash /\ y.burst = x.burst /\ y.ready = x.ready
            /\ y.ack = x.ack /\ y.did = "none" /\ y.charges = MaxCharges[c] /\ y.recharge = 0
        BY <3>1 DEF Unit
      <3>4. QED
        BY <2>1, <3>2, <3>3
    <2>2. CASE ~(x.charges >= MaxCharges[c] \/ total >= MaxCharges[c])
      <3>1. y = [x EXCEPT !.charges = total, !.recharge = ticks % RechargeTicks, !.did = "none"]
        BY <1>3, <2>2
      <3>2. total \in Nat /\ ticks % RechargeTicks \in Nat
        BY <1>1, <1>2
      <3> HIDE DEF y
      <3>3. y \in Unit
        BY <1>5, <3>1, <3>2
      <3>4. /\ y.dead = x.dead /\ y.dash = x.dash /\ y.burst = x.burst /\ y.ready = x.ready
            /\ y.ack = x.ack /\ y.did = "none"
            /\ y.charges = total /\ y.recharge = ticks % RechargeTicks
        BY <3>1 DEF Unit
      <3>5. QED
        BY <2>2, <3>3, <3>4
    <2>3. QED
      BY <2>1, <2>2
  <1> HIDE DEF y
  <1>7. /\ y.charges <= MaxCharges[c] /\ y.recharge < RechargeTicks
        /\ x.charges = MaxCharges[c] => y.charges = MaxCharges[c] /\ y.recharge = 0
        /\ x.charges < MaxCharges[c] /\ x.recharge + 1 = RechargeTicks =>
              y.charges = x.charges + 1 /\ y.recharge = 0
        /\ x.charges < MaxCharges[c] /\ x.recharge + 1 # RechargeTicks =>
              y.charges = x.charges /\ y.recharge = x.recharge + 1
    BY <1>1, <1>2, <1>4, <1>6
  <1>8. QED
    BY <1>6, <1>7 DEF y, ChargeFits

\* The player who acts: recharged, perhaps struck, its next shot perhaps out.
Shooter(x, c, fallen, t) ==
    LET loaded == Recharged(x, c)
        struck == IF fallen THEN Killed(loaded) ELSE loaded
    IN  AfterShot(Grounded(struck), t)

LEMMA ShooterFields ==
    ASSUME NEW x \in Unit, NEW c \in Characters, ChargeFits(x, c), NEW fallen \in BOOLEAN, NEW t
    PROVE  LET y == Recharged(x, c)
               s == Shooter(x, c, fallen, t)
           IN  /\ s \in Unit /\ s.charges = y.charges /\ s.recharge = y.recharge
               /\ s.ready = x.ready /\ s.ack = x.ack /\ s.did = "none"
               /\ s.dead <=> x.dead \/ fallen
               /\ s.dash = IF s.dead THEN NoDash ELSE x.dash
               /\ s.burst = IF s.dead THEN NoBurst
                            ELSE IF ShotDue(x, t) THEN [x.burst EXCEPT !.next = @ + 1] ELSE x.burst
  <1> DEFINE y == Recharged(x, c)
             s == Shooter(x, c, fallen, t)
             struck == IF fallen THEN Killed(y) ELSE y
             g == Grounded(struck)
  <1>1. /\ y \in Unit /\ y.did = "none"
        /\ y.dead = x.dead /\ y.dash = x.dash /\ y.burst = x.burst /\ y.ready = x.ready /\ y.ack = x.ack
    BY RechargedFields
  <1>2. s = AfterShot(g, t)
    BY DEF Shooter
  <1> HIDE DEF y, s
  <1>3. /\ struck \in Unit /\ (struck.dead <=> x.dead \/ fallen)
        /\ struck.charges = y.charges /\ struck.recharge = y.recharge /\ struck.ready = x.ready
        /\ struck.ack = x.ack /\ struck.did = "none" /\ struck.dash = x.dash /\ struck.burst = x.burst
    <2>1. CASE fallen
      BY <1>1, <2>1 DEF Killed, Unit
    <2>2. CASE ~fallen
      BY <1>1, <2>2
    <2>3. QED
      BY <2>1, <2>2
  <1> HIDE DEF struck
  <1>4. /\ g \in Unit /\ g.dead = struck.dead
        /\ g.charges = y.charges /\ g.recharge = y.recharge /\ g.ready = x.ready
        /\ g.ack = x.ack /\ g.did = "none" /\ g.burst = x.burst
        /\ g.dash = IF g.dead THEN NoDash ELSE x.dash
    <2>1. CASE struck.dead
      BY <1>3, <2>1 DEF Grounded, NoDash, Unit
    <2>2. CASE ~struck.dead
      BY <1>3, <2>2 DEF Grounded
    <2>3. QED
      BY <2>1, <2>2
  <1> HIDE DEF g
  <1>5. ~g.dead => (ShotDue(g, t) <=> ShotDue(x, t))
    BY <1>3, <1>4 DEF ShotDue, Bursting
  <1>6. CASE g.dead
    <2>1. s = [g EXCEPT !.burst = NoBurst]
      BY <1>2, <1>6 DEF AfterShot
    <2>2. QED
      BY <1>3, <1>4, <1>6, <2>1 DEF NoBurst, Unit, y, s
  <1>7. CASE ~g.dead /\ ShotDue(x, t)
    <2>1. s = [g EXCEPT !.burst.next = @ + 1]
      BY <1>2, <1>5, <1>7 DEF AfterShot
    <2>2. s.burst = [g.burst EXCEPT !.next = @ + 1] /\ s.dead = g.dead /\ s.dash = g.dash
          /\ s.charges = g.charges /\ s.recharge = g.recharge /\ s.ready = g.ready
          /\ s.ack = g.ack /\ s.did = g.did
      BY <1>4, <2>1 DEF Unit
    <2>3. s \in Unit
      BY <1>4, <2>1 DEF Unit
    <2>4. QED
      BY <1>3, <1>4, <1>7, <2>2, <2>3 DEF y, s
  <1>8. CASE ~g.dead /\ ~ShotDue(x, t)
    <2>1. s = g
      BY <1>2, <1>5, <1>8 DEF AfterShot
    <2>2. QED
      BY <1>3, <1>4, <1>8, <2>1 DEF y, s
  <1>9. QED
    BY <1>6, <1>7, <1>8

\* What the player does: a skill, an attack, or nothing.
Act(s, in, c, t) == [Applied(s, in, c, t) EXCEPT !.ack = Prepared(s, in).ack]

NewBurst(kind, t) == [kind |-> kind, at |-> t, next |-> 1]

UsesSkill(s, y, c, t) ==
    /\ y.did = "skill" /\ y.ready = t + CooldownTicks
    /\ c = "shelly" => y.charges = MaxCharges[c] /\ y.recharge = 0
    /\ c # "shelly" => y.charges = s.charges /\ y.recharge = s.recharge
    /\ y.dash = IF c = "shelly" THEN [left |-> DashTicks, ready |-> t + DashTicks] ELSE s.dash
    /\ y.burst = IF c = "colt" THEN NewBurst("skill", t) ELSE s.burst
UsesAttack(s, y, c, t) ==
    /\ y.did = "attack" /\ y.charges = s.charges - 1 /\ y.recharge = s.recharge
    /\ y.dash = s.dash /\ y.burst = IF c = "colt" THEN NewBurst("attack", t) ELSE s.burst
DoesNothing(s, y) ==
    y.did = "none" /\ y.charges = s.charges /\ y.recharge = s.recharge /\ y.dash = s.dash /\ y.burst = s.burst

LEMMA WithSkillFields ==
    ASSUME NEW s \in Unit, NEW c \in Characters, NEW t \in Nat
    PROVE  LET y == WithSkill(s, c, t) IN y \in Unit /\ y.dead = s.dead /\ UsesSkill(s, y, c, t)
  <1> DEFINE y == WithSkill(s, c, t)
             used == [s EXCEPT !.did = "skill", !.ready = t + CooldownTicks]
             dash == [left |-> DashTicks, ready |-> t + DashTicks]
             burst == [kind |-> "skill", at |-> t, next |-> 1]
  <1>1. /\ CooldownTicks \in Nat /\ DashTicks \in Nat /\ MaxCharges[c] \in Nat
        /\ dash \in [left : Nat, ready : Nat]
        /\ burst \in [kind : {"none", "attack", "skill"}, at : Nat, next : Nat]
    BY CombatAssumption
  <1>2. used \in Unit
    <2>1. t + CooldownTicks \in Nat
      BY <1>1
    <2>2. \A n \in Nat : [s EXCEPT !.did = "skill", !.ready = n] \in Unit
      BY DEF Unit
    <2>3. QED
      BY <2>1, <2>2
  <1>3. /\ used.dead = s.dead /\ used.charges = s.charges /\ used.recharge = s.recharge
        /\ used.dash = s.dash /\ used.burst = s.burst
        /\ used.did = "skill" /\ used.ready = t + CooldownTicks
    BY DEF Unit
  <1>4. CASE c = "shelly"
    <2>1. y = [used EXCEPT !.charges = MaxCharges[c], !.recharge = 0, !.dash = dash]
      BY <1>4 DEF WithSkill
    <2> HIDE DEF y, used, dash
    <2>2. y \in Unit
      BY <1>1, <1>2, <2>1 DEF Unit
    <2>3. /\ y.dead = used.dead /\ y.did = used.did /\ y.ready = used.ready /\ y.burst = used.burst
          /\ y.charges = MaxCharges[c] /\ y.recharge = 0 /\ y.dash = dash
      BY <1>2, <2>1 DEF Unit
    <2>4. QED
      BY <1>3, <1>4, <2>2, <2>3 DEF UsesSkill, y, dash
  <1>5. CASE c = "colt"
    <2>1. y = [used EXCEPT !.burst = burst]
      BY <1>5 DEF WithSkill
    <2> HIDE DEF y, used, burst
    <2>2. y \in Unit
      BY <1>1, <1>2, <2>1 DEF Unit
    <2>3. /\ y.dead = used.dead /\ y.did = used.did /\ y.ready = used.ready /\ y.dash = used.dash
          /\ y.charges = used.charges /\ y.recharge = used.recharge /\ y.burst = burst
      BY <1>2, <2>1 DEF Unit
    <2>4. QED
      BY <1>3, <1>5, <2>2, <2>3 DEF UsesSkill, NewBurst, y, burst
  <1>6. CASE c = "lily"
    <2>1. y = used
      BY <1>6 DEF WithSkill
    <2> HIDE DEF y, used
    <2>2. QED
      BY <1>2, <1>3, <1>6, <2>1 DEF UsesSkill, y
  <1>7. QED
    BY <1>4, <1>5, <1>6 DEF Characters

LEMMA WithAttackFields ==
    ASSUME NEW s \in Unit, NEW c \in Characters, NEW t \in Nat, s.charges > 0
    PROVE  LET y == WithAttack(s, c, t)
           IN  y \in Unit /\ y.dead = s.dead /\ y.ready = s.ready /\ UsesAttack(s, y, c, t)
  <1> DEFINE y == WithAttack(s, c, t)
             burst == IF c = "colt" THEN NewBurst("attack", t) ELSE s.burst
  <1>1. s.charges - 1 \in Nat /\ burst \in [kind : {"none", "attack", "skill"}, at : Nat, next : Nat]
    BY DEF Unit, NewBurst
  <1>2. y = [s EXCEPT !.did = "attack", !.charges = s.charges - 1, !.burst = burst]
    BY DEF WithAttack, NewBurst
  <1> HIDE DEF y, burst
  <1>3. y \in Unit
    BY <1>1, <1>2 DEF Unit
  <1>4. /\ y.dead = s.dead /\ y.ready = s.ready /\ y.did = "attack" /\ y.charges = s.charges - 1
        /\ y.recharge = s.recharge /\ y.dash = s.dash /\ y.burst = burst
    BY <1>2 DEF Unit
  <1>5. QED
    BY <1>3, <1>4 DEF UsesAttack, y, burst

LEMMA ActFields ==
    ASSUME NEW s \in Unit, NEW c \in Characters, NEW t \in Nat, NEW in, in.client \in Nat, s.did = "none"
    PROVE  LET y == Act(s, in, c, t)
           IN  /\ y \in Unit /\ y.dead = s.dead
               /\ SkillApproved(s, in, t) => UsesSkill(s, y, c, t)
               /\ AttackApproved(s, in, t) => UsesAttack(s, y, c, t)
               /\ ~SkillApproved(s, in, t) /\ ~AttackApproved(s, in, t) => DoesNothing(s, y)
  <1> DEFINE a == Applied(s, in, c, t)
             ack == Prepared(s, in).ack
             y == Act(s, in, c, t)
  <1>1. ack \in Nat
    BY DEF Prepared, Unit
  <1>2. /\ a \in Unit /\ a.dead = s.dead
        /\ SkillApproved(s, in, t) => UsesSkill(s, a, c, t)
        /\ AttackApproved(s, in, t) => UsesAttack(s, a, c, t)
        /\ ~SkillApproved(s, in, t) /\ ~AttackApproved(s, in, t) => DoesNothing(s, a)
    <2>1. AttackApproved(s, in, t) => ~SkillApproved(s, in, t) /\ s.charges > 0
      BY DEF AttackApproved
    <2>2. CASE SkillApproved(s, in, t)
      <3>1. a = WithSkill(s, c, t)
        BY <2>2, <2>1 DEF Applied
      <3> HIDE DEF a
      <3>2. QED
        BY <2>1, <2>2, <3>1, WithSkillFields
    <2>3. CASE AttackApproved(s, in, t)
      <3>1. a = WithAttack(s, c, t)
        BY <2>3, <2>1 DEF Applied
      <3> HIDE DEF a
      <3>2. QED
        BY <2>1, <2>3, <3>1, WithAttackFields
    <2>4. CASE ~SkillApproved(s, in, t) /\ ~AttackApproved(s, in, t)
      <3>1. a = s
        BY <2>4 DEF Applied
      <3> HIDE DEF a
      <3>2. QED
        BY <2>4, <3>1 DEF DoesNothing
    <2>5. QED
      BY <2>2, <2>3, <2>4
  <1>3. y = [a EXCEPT !.ack = ack]
    BY DEF Act
  <1> HIDE DEF a, ack, y
  <1>4. y \in Unit
    BY <1>1, <1>2, <1>3 DEF Unit
  <1>5. /\ y.dead = a.dead /\ y.ready = a.ready /\ y.did = a.did /\ y.charges = a.charges
        /\ y.recharge = a.recharge /\ y.dash = a.dash /\ y.burst = a.burst
    BY <1>2, <1>3 DEF Unit
  <1>6. QED
    BY <1>2, <1>4, <1>5 DEF UsesSkill, UsesAttack, DoesNothing, y

\* What is left when bodies have met
LEMMA SettledFields ==
    ASSUME NEW x \in Unit, NEW bumped \in BOOLEAN, NEW cut \in BOOLEAN, Dashing(x) => x.dash.left > 0
    PROVE  LET y == Settled(x, bumped, cut)
           IN  /\ y \in Unit /\ (y.dead <=> x.dead \/ cut) /\ y.did = x.did
               /\ y.charges = x.charges /\ y.recharge = x.recharge
               /\ y.dead => y.dash = NoDash
               /\ y.dash = NoDash \/ (Dashing(x) /\ x.dash.left > 1 /\ y.dash = [x.dash EXCEPT !.left = @ - 1])
               /\ y.burst = IF Bursting(x) /\ x.burst.next >= Count(x.burst.kind) THEN NoBurst ELSE x.burst
  <1> DEFINE g == Grounded(x)
             d == Dashed(g, bumped)
             k == IF cut THEN Killed(d) ELSE d
             f == Finished(k)
             y == Settled(x, bumped, cut)
  <1>1. y = Grounded(f)
    BY DEF Settled
  <1>2. /\ g \in Unit /\ g.dead = x.dead /\ g.did = x.did /\ g.charges = x.charges
        /\ g.recharge = x.recharge /\ g.burst = x.burst /\ g.dash \in {NoDash, x.dash}
    BY DEF Grounded, NoDash, Unit
  <1> HIDE DEF g, y
  <1>3. /\ d \in Unit /\ d.dead = x.dead /\ d.did = x.did /\ d.charges = x.charges
        /\ d.recharge = x.recharge /\ d.burst = x.burst
        /\ d.dash = NoDash \/ (Dashing(x) /\ x.dash.left > 1 /\ d.dash = [x.dash EXCEPT !.left = @ - 1])
    <2>1. CASE ~Dashing(g)
      BY <1>2, <2>1 DEF Dashed, Dashing
    <2>2. CASE Dashing(g) /\ (g.dash.left = 1 \/ bumped)
      <3>1. d = [g EXCEPT !.dash = NoDash]
        BY <2>2 DEF Dashed
      <3>2. NoDash \in [left : Nat, ready : Nat]
        BY DEF NoDash
      <3> HIDE DEF d
      <3>3. d \in Unit
        BY <1>2, <3>1, <3>2 DEF Unit
      <3>4. d.dash = NoDash /\ d.dead = g.dead /\ d.did = g.did /\ d.charges = g.charges
            /\ d.recharge = g.recharge /\ d.burst = g.burst
        BY <1>2, <3>1 DEF Unit
      <3>5. QED
        BY <1>2, <3>3, <3>4
    <2>3. CASE Dashing(g) /\ ~(g.dash.left = 1 \/ bumped)
      <3>1. d = [g EXCEPT !.dash.left = @ - 1]
        BY <2>3 DEF Dashed
      <3>2. g.dash = x.dash /\ Dashing(x)
        BY <1>2, <2>3 DEF Dashing
      <3>3. x.dash.left \in Nat /\ x.dash.left > 1 /\ x.dash \in [left : Nat, ready : Nat]
        BY <2>3, <3>2 DEF Unit
      <3> DEFINE dash == [x.dash EXCEPT !.left = @ - 1]
      <3>4. dash \in [left : Nat, ready : Nat]
        BY <3>3
      <3>5. d = [g EXCEPT !.dash = dash]
        BY <3>1, <3>2
      <3> HIDE DEF d, dash
      <3>6. d \in Unit
        BY <1>2, <3>4, <3>5 DEF Unit
      <3>7. d.dash = dash /\ d.dead = g.dead /\ d.did = g.did /\ d.charges = g.charges
            /\ d.recharge = g.recharge /\ d.burst = g.burst
        BY <1>2, <3>5 DEF Unit
      <3>8. QED
        BY <1>2, <3>2, <3>3, <3>6, <3>7 DEF dash
    <2>4. QED
      BY <2>1, <2>2, <2>3
  <1> HIDE DEF d
  <1>4. /\ k \in Unit /\ (k.dead <=> x.dead \/ cut) /\ k.did = d.did /\ k.charges = d.charges
        /\ k.recharge = d.recharge /\ k.burst = d.burst /\ k.dash = d.dash
    BY <1>3 DEF Killed, Unit
  <1> HIDE DEF k
  <1>5. /\ f \in Unit /\ f.dead = k.dead /\ f.did = d.did /\ f.charges = d.charges
        /\ f.recharge = d.recharge /\ f.dash = d.dash
        /\ f.burst = IF Bursting(x) /\ x.burst.next >= Count(x.burst.kind) THEN NoBurst ELSE x.burst
    <2>1. Bursting(k) /\ k.burst.next >= Count(k.burst.kind) <=> Bursting(x) /\ x.burst.next >= Count(x.burst.kind)
      BY <1>3, <1>4 DEF Bursting
    <2>2. NoBurst \in [kind : {"none", "attack", "skill"}, at : Nat, next : Nat]
      BY DEF NoBurst
    <2>3. CASE Bursting(k) /\ k.burst.next >= Count(k.burst.kind)
      <3>1. f = [k EXCEPT !.burst = NoBurst]
        BY <2>3 DEF Finished
      <3> HIDE DEF f
      <3>2. f \in Unit
        BY <1>4, <2>2, <3>1 DEF Unit
      <3>3. f.dead = k.dead /\ f.did = k.did /\ f.charges = k.charges /\ f.recharge = k.recharge
            /\ f.dash = k.dash /\ f.burst = NoBurst
        BY <1>4, <3>1 DEF Unit
      <3>4. QED
        BY <1>4, <2>1, <2>3, <3>2, <3>3
    <2>4. CASE ~(Bursting(k) /\ k.burst.next >= Count(k.burst.kind))
      BY <1>3, <1>4, <2>1, <2>4 DEF Finished
    <2>5. QED
      BY <2>3, <2>4
  <1> HIDE DEF f
  <1>6. /\ y \in Unit /\ y.dead = f.dead /\ y.did = f.did /\ y.charges = f.charges
        /\ y.recharge = f.recharge /\ y.burst = f.burst
        /\ y.dash = IF f.dead THEN NoDash ELSE f.dash
    BY <1>1, <1>5 DEF Grounded, NoDash, Unit
  <1>7. QED
    BY <1>3, <1>4, <1>5, <1>6 DEF y

-----------------------------------------------------------------------------
(* One tick of one player.                                                   *)

LEMMA ShotsFitNext ==
    ASSUME NEW b \in [kind : {"none", "attack", "skill"}, at : Nat, next : Nat], NEW t \in Nat,
           ShotsFit(b, t), b.next < Count(b.kind)
    PROVE  LET due == t + 1 = b.at + Offsets(b.kind)[b.next + 1]
           IN  /\ due => ShotsFit([b EXCEPT !.next = @ + 1], t + 1)
               /\ ~due => ShotsFit(b, t + 1)
  <1> DEFINE n == b.next
             o == Offsets(b.kind)
             e == [b EXCEPT !.next = @ + 1]
  <1>1. /\ Count(b.kind) \in Nat \ {0} /\ \A i \in 1..Count(b.kind) : o[i] \in Nat
        /\ \A i, j \in 1..Count(b.kind) : i < j => o[i] < o[j]
    BY Schedules
  <1>2. /\ b.kind \in {"attack", "skill"} /\ n \in 1..Count(b.kind) /\ n < Count(b.kind)
        /\ b.at + o[n] <= t /\ t < b.at + o[n + 1] /\ b.at \in Nat /\ n \in Nat
    BY DEF ShotsFit
  <1>3. n + 1 \in 1..Count(b.kind) /\ o[n + 1] \in Nat /\ o[n] \in Nat
    BY <1>1, <1>2
  <1>4. e.kind = b.kind /\ e.at = b.at /\ e.next = n + 1
    OBVIOUS
  <1> HIDE DEF n, o, e
  <1>5. ASSUME t + 1 = b.at + o[n + 1] PROVE ShotsFit(e, t + 1)
    <2>1. n + 1 < Count(b.kind) => o[n + 2] \in Nat /\ o[n + 1] < o[n + 2] /\ (n + 1) + 1 = n + 2
      <3>1. n + 1 < Count(b.kind) => n + 2 \in 1..Count(b.kind) /\ n + 1 < n + 2 /\ (n + 1) + 1 = n + 2
        BY <1>1, <1>2
      <3>2. QED
        BY <1>1, <1>3, <3>1
    <2>2. n + 1 < Count(b.kind) => t + 1 < b.at + o[(n + 1) + 1]
      BY <1>2, <1>3, <1>5, <2>1
    <2>3. QED
      BY <1>2, <1>3, <1>4, <1>5, <2>2 DEF ShotsFit, o
  <1>6. ASSUME t + 1 # b.at + o[n + 1] PROVE ShotsFit(b, t + 1)
    <2>1. b.at + o[n] <= t + 1 /\ t + 1 < b.at + o[n + 1]
      BY <1>2, <1>3, <1>6
    <2>2. QED
      BY <1>2, <2>1 DEF ShotsFit, o, n
  <1>7. QED
    BY <1>5, <1>6 DEF e, o, n

LEMMA NewBurstFits ==
    ASSUME NEW kind \in {"attack", "skill"}, NEW t \in Nat
    PROVE  ShotsFit(NewBurst(kind, t), t)
  <1> DEFINE b == NewBurst(kind, t)
             o == Offsets(kind)
  <1>1. b.kind = kind /\ b.at = t /\ b.next = 1
    BY DEF NewBurst
  <1>2. /\ Count(kind) \in Nat \ {0} /\ o[1] = 0 /\ \A i \in 1..Count(kind) : o[i] \in Nat
        /\ \A i, j \in 1..Count(kind) : i < j => o[i] < o[j]
    BY Schedules
  <1> HIDE DEF b, o
  <1>3. 1 \in 1..Count(kind) /\ (1 < Count(kind) => 2 \in 1..Count(kind) /\ 1 < 2 /\ 1 + 1 = 2)
    BY <1>2
  <1>4. t + o[1] <= t /\ (1 < Count(kind) => t < t + o[1 + 1])
    BY <1>2, <1>3
  <1>5. QED
    BY <1>1, <1>3, <1>4 DEF ShotsFit, b, o

\* The state of a player after Step, from the state x before it
After(x, c, in, fallen, bumped, cut, t) ==
    Settled(Act(Shooter(x, c, fallen, t), in, c, t), bumped, cut)

LEMMA PlayerFits ==
    ASSUME NEW c \in Characters, NEW n \in Nat, NEW x, UnitFits(x, c, n), NEW in, in.client \in Nat,
           NEW fallen \in BOOLEAN, NEW bumped \in BOOLEAN, NEW cut \in BOOLEAN
    PROVE  UnitFits(After(x, c, in, fallen, bumped, cut, n + 1), c, n + 1)
  <1> DEFINE t == n + 1
             r == Recharged(x, c)
             s == Shooter(x, c, fallen, t)
             y == Act(s, in, c, t)
             z == After(x, c, in, fallen, bumped, cut, t)
  <1>1. t \in Nat /\ x \in Unit /\ ChargeFits(x, c) /\ DashFits(x, t) /\ BurstFits(x, n)
    BY DEF UnitFits
  <1>2. ChargeFits(r, c) /\ r \in Unit
    BY <1>1, RechargedFields
  <1>3. /\ s \in Unit /\ s.charges = r.charges /\ s.recharge = r.recharge
        /\ s.did = "none"
        /\ s.dead <=> x.dead \/ fallen
        /\ s.dash = IF s.dead THEN NoDash ELSE x.dash
        /\ s.burst = IF s.dead THEN NoBurst
                     ELSE IF ShotDue(x, t) THEN [x.burst EXCEPT !.next = @ + 1] ELSE x.burst
    BY <1>1, ShooterFields
  <1> HIDE DEF r, s
  <1>4. /\ y \in Unit /\ y.dead = s.dead
        /\ SkillApproved(s, in, t) => UsesSkill(s, y, c, t)
        /\ AttackApproved(s, in, t) => UsesAttack(s, y, c, t)
        /\ ~SkillApproved(s, in, t) /\ ~AttackApproved(s, in, t) => DoesNothing(s, y)
    BY <1>1, <1>3, ActFields
  <1> HIDE DEF y
  <1>5. SkillApproved(s, in, t) \/ AttackApproved(s, in, t) => ~s.dead
    BY DEF SkillApproved, AttackApproved, Pressed, Accepts
  <1>6. ChargeFits(y, c)
    <2>1. /\ s.charges \in Nat /\ MaxCharges[c] \in Nat /\ RechargeTicks \in Nat \ {0}
          /\ s.charges <= MaxCharges[c] /\ s.recharge < RechargeTicks
      BY <1>2, <1>3, CombatAssumption DEF ChargeFits, Unit
    <2>2. CASE SkillApproved(s, in, t)
      BY <1>4, <2>1, <2>2 DEF UsesSkill, ChargeFits
    <2>3. CASE AttackApproved(s, in, t)
      BY <1>4, <2>1, <2>3 DEF UsesAttack, ChargeFits
    <2>4. CASE ~SkillApproved(s, in, t) /\ ~AttackApproved(s, in, t)
      BY <1>4, <2>1, <2>4 DEF DoesNothing, ChargeFits
    <2>5. QED
      BY <2>2, <2>3, <2>4
  <1>7. DashFits(y, t)
    <2>1. DashFits(s, t)
      BY <1>1, <1>3 DEF DashFits, Dashing
    <2>2. CASE SkillApproved(s, in, t)
      <3>1. DashTicks \in Nat \ {0}
        BY CombatAssumption
      <3>2. CASE c = "shelly"
        <4>1. y.dash = [left |-> DashTicks, ready |-> t + DashTicks]
          BY <1>4, <2>2, <3>2 DEF UsesSkill
        <4>2. y.dash.left > 0 /\ y.dash.ready = t + y.dash.left /\ ~y.dead
          BY <1>4, <1>5, <2>2, <3>1, <4>1
        <4>3. QED
          BY <4>2 DEF DashFits
      <3>3. CASE c # "shelly"
        BY <1>4, <2>1, <2>2, <3>3 DEF UsesSkill, DashFits, Dashing
      <3>4. QED
        BY <3>2, <3>3
    <2>3. CASE AttackApproved(s, in, t)
      BY <1>4, <2>1, <2>3 DEF UsesAttack, DashFits, Dashing
    <2>4. CASE ~SkillApproved(s, in, t) /\ ~AttackApproved(s, in, t)
      BY <1>4, <2>1, <2>4 DEF DoesNothing, DashFits, Dashing
    <2>5. QED
      BY <2>2, <2>3, <2>4
  <1>8. Bursting(y) /\ ~y.dead => ShotsFit(y.burst, t)
    <2>1. Bursting(s) /\ ~s.dead => ShotsFit(s.burst, t)
      <3>1. SUFFICES ASSUME Bursting(s), ~s.dead PROVE ShotsFit(s.burst, t)
        OBVIOUS
      <3>2. /\ ~x.dead /\ Bursting(x)
            /\ s.burst = IF ShotDue(x, t) THEN [x.burst EXCEPT !.next = @ + 1] ELSE x.burst
        BY <1>3, <3>1 DEF Bursting, ShotDue
      <3>3. ShotsFit(x.burst, n) /\ x.burst.next < Count(x.burst.kind)
        BY <1>1, <3>2 DEF BurstFits
      <3>4. x.burst \in [kind : {"none", "attack", "skill"}, at : Nat, next : Nat]
        BY <1>1 DEF Unit
      <3>5. ShotDue(x, t) <=> t = x.burst.at + Offsets(x.burst.kind)[x.burst.next + 1]
        BY <3>2, <3>3 DEF ShotDue
      <3>6. QED
        BY <3>2, <3>3, <3>4, <3>5, ShotsFitNext
    <2>2. CASE SkillApproved(s, in, t)
      BY <1>1, <1>4, <1>5, <2>1, <2>2, NewBurstFits DEF UsesSkill, Bursting
    <2>3. CASE AttackApproved(s, in, t)
      BY <1>1, <1>4, <1>5, <2>1, <2>3, NewBurstFits DEF UsesAttack, Bursting
    <2>4. CASE ~SkillApproved(s, in, t) /\ ~AttackApproved(s, in, t)
      BY <1>4, <2>1, <2>4 DEF DoesNothing, Bursting
    <2>5. QED
      BY <2>2, <2>3, <2>4
  <1>9. Dashing(y) => y.dash.left > 0
    BY <1>7 DEF DashFits
  <1>10. /\ z \in Unit /\ (z.dead <=> y.dead \/ cut)
         /\ z.charges = y.charges /\ z.recharge = y.recharge
         /\ z.dead => z.dash = NoDash
         /\ z.dash = NoDash \/ (Dashing(y) /\ y.dash.left > 1 /\ z.dash = [y.dash EXCEPT !.left = @ - 1])
         /\ z.burst = IF Bursting(y) /\ y.burst.next >= Count(y.burst.kind) THEN NoBurst ELSE y.burst
    BY <1>4, <1>9, SettledFields DEF After, s, y
  <1> HIDE DEF z
  <1>11. ChargeFits(z, c)
    BY <1>6, <1>10 DEF ChargeFits
  <1>12. DashFits(z, t + 1)
    <2>1. y.dash \in [left : Nat, ready : Nat]
      BY <1>4 DEF Unit
    <2>2. CASE z.dash = NoDash
      BY <2>2 DEF DashFits, Dashing
    <2>3. CASE Dashing(y) /\ y.dash.left > 1 /\ z.dash = [y.dash EXCEPT !.left = @ - 1]
      <3>1. z.dash.left = y.dash.left - 1 /\ z.dash.ready = y.dash.ready /\ y.dash.ready = t + y.dash.left
        BY <1>7, <2>1, <2>3 DEF DashFits
      <3>2. z.dash.left > 0 /\ z.dash.ready = (t + 1) + z.dash.left
        BY <1>1, <2>1, <2>3, <3>1
      <3>3. QED
        BY <1>10, <3>2 DEF DashFits, Dashing
    <2>4. QED
      BY <1>10, <2>2, <2>3
  <1>13. BurstFits(z, t)
    <2>1. SUFFICES ASSUME Bursting(z), ~z.dead PROVE ShotsFit(z.burst, t) /\ z.burst.next < Count(z.burst.kind)
      BY DEF BurstFits
    <2>2. ~y.dead /\ Bursting(y) /\ z.burst = y.burst /\ ~(y.burst.next >= Count(y.burst.kind))
      BY <1>10, <2>1 DEF Bursting
    <2>3. y.burst.next \in Nat /\ Count(y.burst.kind) \in Nat
      BY <1>4, Schedules DEF Unit
    <2>4. QED
      BY <1>8, <2>2, <2>3
  <1>14. QED
    BY <1>10, <1>11, <1>12, <1>13 DEF UnitFits, z, t

-----------------------------------------------------------------------------
(* The steps.                                                                *)

InputOf(p, attackers) == IF p \in Humans THEN pending[p] ELSE BotInput(p \in attackers)
ActedOf(p, attackers, fallen) ==
    Act(Shooter(unit[p], character[p], p \in fallen, tick + 1), InputOf(p, attackers), character[p], tick + 1)

\* A tick, player by player
TicksTo(forfeits, attackers, fallen, bumped, cut) ==
    /\ Dead \subseteq fallen
    /\ \A b \in attackers : tick + 1 >= botNext[b] /\ ~unit[b].dead
    /\ unit' = [p \in Players |-> Settled(ActedOf(p, attackers, fallen), p \in bumped, p \in cut)]
    /\ botNext' = [b \in Bots |-> IF b \in Dead \cup forfeits THEN 0
                                  ELSE Cadence(b, ActedOf(b, attackers, fallen))]

\* Tick once it is settled who forfeits, attacks and is shot
TickGiven(lost, attackers, shot) ==
    LET fallen == lost \cup shot
        acted == [p \in Players |->
            Acted(p, IF p \in Humans THEN pending[p] ELSE BotInput(p \in attackers), p \in fallen)]
        slashers == {p \in Players : character[p] = "lily" /\ acted[p].did = "attack"}
        emitters == {p \in Players :
             \/ p \notin fallen /\ ShotDue(unit[p], tick + 1)
             \/ acted[p].did = "attack" /\ character[p] # "lily"
             \/ acted[p].did = "skill" /\ character[p] # "shelly"}
    IN  \E bumped \in SUBSET {p \in Players : Dashing(acted[p])},
           cut \in SUBSET {p \in Players \ fallen : \E q \in slashers : CanHurt(q, p)} :
          /\ unit' = [p \in Players |-> Settled(acted[p], p \in bumped, p \in cut)]
          /\ armed' = armed \cup emitters
          /\ botNext' = [b \in Bots |-> IF b \in lost THEN 0 ELSE Cadence(b, acted[b])]

LEMMA TickShape ==
    ASSUME TypeOK, Tick
    PROVE  /\ tick < MaxTick /\ tick' = tick + 1 /\ UNCHANGED <<character, present>>
           /\ pending' = [p \in Humans |-> NoInput] /\ armed' \subseteq Players
           /\ \E forfeits \in SUBSET Humans,
                 attackers \in SUBSET Bots, fallen, bumped, cut \in SUBSET Players :
                   TicksTo(forfeits, attackers, fallen, bumped, cut)
  <1>1. /\ tick < MaxTick /\ tick' = tick + 1 /\ UNCHANGED <<character, present>>
        /\ pending' = [p \in Humans |-> NoInput]
    BY DEF Tick
  <1>2. PICK forfeits \in SUBSET (Humans \ present) :
          \E attackers \in SUBSET {b \in Bots : MayAttack(b, Dead \cup forfeits)},
             shot \in SUBSET {p \in Players \ (Dead \cup forfeits) : \E q \in armed : CanHurt(q, p)} :
                TickGiven(Dead \cup forfeits, attackers, shot)
    BY DEF Tick, TickGiven
  <1> DEFINE lost == Dead \cup forfeits
  <1>3. PICK attackers \in SUBSET {b \in Bots : MayAttack(b, lost)},
             shot \in SUBSET Players : TickGiven(lost, attackers, shot)
    BY <1>2
  <1> DEFINE fallen == lost \cup shot
             acted == [p \in Players |->
                 Acted(p, IF p \in Humans THEN pending[p] ELSE BotInput(p \in attackers), p \in fallen)]
  <1>4. \A p \in Players : acted[p] = ActedOf(p, attackers, fallen)
    BY DEF Acted, ActedOf, Act, Shooter, InputOf
  <1>5. PICK bumped \in SUBSET Players, cut \in SUBSET Players :
           /\ unit' = [p \in Players |-> Settled(acted[p], p \in bumped, p \in cut)]
           /\ armed' \ armed \subseteq Players
           /\ botNext' = [b \in Bots |-> IF b \in lost THEN 0 ELSE Cadence(b, acted[b])]
    <2>1. PICK bumped \in SUBSET {p \in Players : Dashing(acted[p])}, cut \in SUBSET (Players \ fallen) :
             /\ unit' = [p \in Players |-> Settled(acted[p], p \in bumped, p \in cut)]
             /\ armed' = armed \cup {p \in Players :
                   \/ p \notin fallen /\ ShotDue(unit[p], tick + 1)
                   \/ acted[p].did = "attack" /\ character[p] # "lily"
                   \/ acted[p].did = "skill" /\ character[p] # "shelly"}
             /\ botNext' = [b \in Bots |-> IF b \in lost THEN 0 ELSE Cadence(b, acted[b])]
      BY <1>3, Zenon DEF TickGiven
    <2> HIDE DEF acted
    <2>2. QED
      BY <2>1
  <1> HIDE DEF acted
  <1>6. fallen \in SUBSET Players /\ Dead \subseteq fallen
    <2>1. Dead \subseteq Players /\ Humans \subseteq Players
      BY DEF Dead, Players
    <2>2. QED
      BY <2>1
  <1>7. \A b \in attackers : tick + 1 >= botNext[b] /\ ~unit[b].dead
    BY DEF MayAttack, Dead, Players
  <1>8. unit' = [p \in Players |-> Settled(ActedOf(p, attackers, fallen), p \in bumped, p \in cut)]
    BY <1>4, <1>5
  <1>9. botNext' = [b \in Bots |-> IF b \in lost THEN 0 ELSE Cadence(b, ActedOf(b, attackers, fallen))]
    <2>1. Bots \subseteq Players
      BY DEF Players
    <2>2. QED
      BY <1>4, <1>5, <2>1
  <1>10. armed' \subseteq Players
    BY <1>5 DEF TypeOK
  <1>11. TicksTo(forfeits, attackers, fallen, bumped, cut)
    BY <1>6, <1>7, <1>8, <1>9 DEF TicksTo
  <1>12. forfeits \in SUBSET Humans /\ attackers \in SUBSET Bots
    OBVIOUS
  <1> HIDE DEF fallen
  <1>13. QED
    BY <1>1, <1>6, <1>10, <1>11, <1>12

LEMMA InputTypes ==
    ASSUME TypeOK, NEW p \in Players, NEW attackers
    PROVE  InputOf(p, attackers).client \in Nat
  <1>1. CASE p \in Humans
    <2>1. pending[p] \in InputCommand
      BY <1>1 DEF TypeOK
    <2>2. pending[p].client \in 0..MaxClientTick
      BY <2>1 DEF InputCommand
    <2>3. QED
      BY <1>1, <2>2, CombatAssumption DEF InputOf
  <1>2. CASE p \notin Humans
    BY <1>2 DEF InputOf, BotInput
  <1>3. QED
    BY <1>1, <1>2

\* Step leaves every player fit.
LEMMA TickFits ==
    ASSUME CombatInv, NEW forfeits, NEW attackers, NEW fallen, NEW bumped, NEW cut,
           TicksTo(forfeits, attackers, fallen, bumped, cut), tick' = tick + 1, character' = character,
           NEW p \in Players
    PROVE  /\ UnitFits(unit'[p], character'[p], tick')
           /\ unit'[p] = After(unit[p], character[p], InputOf(p, attackers), p \in fallen,
                               p \in bumped, p \in cut, tick + 1)
  <1>1. /\ TypeOK /\ tick \in Nat /\ character[p] \in Characters
        /\ UnitFits(unit[p], character[p], tick)
    BY CombatAssumption DEF CombatInv, TypeOK
  <1>2. unit'[p] = After(unit[p], character[p], InputOf(p, attackers), p \in fallen,
                        p \in bumped, p \in cut, tick + 1)
    BY DEF TicksTo, ActedOf, After
  <1>3. /\ InputOf(p, attackers).client \in Nat
        /\ (p \in fallen) \in BOOLEAN /\ (p \in bumped) \in BOOLEAN /\ (p \in cut) \in BOOLEAN
    BY <1>1, InputTypes
  <1> DEFINE x == unit[p]
             c == character[p]
             in == InputOf(p, attackers)
  <1>4. \A f, d, k \in BOOLEAN : UnitFits(After(x, c, in, f, d, k, tick + 1), c, tick + 1)
    <2> HIDE DEF x, c, in
    <2>1. QED
      BY <1>1, <1>3, PlayerFits DEF x, c, in
  <1> HIDE DEF x, c, in
  <1>5. UnitFits(After(x, c, in, p \in fallen, p \in bumped, p \in cut, tick + 1), c, tick + 1)
    BY <1>3, <1>4, Zenon
  <1>6. QED
    BY <1>2, <1>5 DEF x, c, in

LEMMA TickTypes == ASSUME CombatInv, Tick PROVE CombatInv'
  <1>1. TypeOK /\ tick \in 0..MaxTick /\ MaxTick \in Nat
    BY CombatAssumption DEF CombatInv, TypeOK
  <1>2. /\ tick < MaxTick /\ tick' = tick + 1 /\ character' = character /\ present' = present
        /\ pending' = [p \in Humans |-> NoInput] /\ armed' \subseteq Players
    BY <1>1, TickShape
  <1>3. PICK forfeits \in SUBSET Humans, attackers \in SUBSET Bots, fallen \in SUBSET Players,
             bumped \in SUBSET Players, cut \in SUBSET Players :
                TicksTo(forfeits, attackers, fallen, bumped, cut)
    BY <1>1, TickShape
  <1>4. \A p \in Players : UnitFits(unit'[p], character'[p], tick')
    BY <1>2, <1>3, TickFits
  <1>5. unit' \in [Players -> Unit]
    <2>1. unit' = [p \in Players |-> unit'[p]]
      BY <1>3 DEF TicksTo
    <2>2. \A p \in Players : unit'[p] \in Unit
      BY <1>4 DEF UnitFits
    <2>3. QED
      BY <2>1, <2>2
  <1>6. botNext' \in [Bots -> Nat]
    <2>1. RechargeTicks \in Nat /\ \A b \in Bots : botNext[b] \in Nat
      BY <1>1, CombatAssumption DEF TypeOK
    <2>2. \A b \in Bots : Cadence(b, ActedOf(b, attackers, fallen)) \in Nat
      BY <1>1, <2>1 DEF Cadence
    <2>3. QED
      BY <1>3, <2>2 DEF TicksTo
  <1>7. /\ pending' \in [Humans -> InputCommand]
        /\ \A p \in Humans : ~(pending'[p].client > 0)
    <2>1. NoInput \in InputCommand /\ NoInput.client = 0
      BY CombatAssumption DEF NoInput, InputCommand
    <2>2. QED
      BY <1>2, <2>1
  <1>8. \A p \in Players :
          /\ unit'[p].charges <= MaxCharges[character'[p]] /\ unit'[p].recharge < RechargeTicks
          /\ unit'[p].dead => ~Dashing(unit'[p])
          /\ Dashing(unit'[p]) => unit'[p].dash.ready = tick' + unit'[p].dash.left + 1
    <2>1. ASSUME NEW p \in Players
          PROVE  Dashing(unit'[p]) => unit'[p].dash.ready = tick' + unit'[p].dash.left + 1
      <3>1. unit'[p].dash.left \in Nat
        BY <1>5 DEF Unit
      <3>2. Dashing(unit'[p]) => unit'[p].dash.ready = (tick' + 1) + unit'[p].dash.left
        BY <1>4 DEF UnitFits, DashFits
      <3>3. QED
        BY <1>1, <1>2, <3>1, <3>2
    <2>2. QED
      BY <1>4, <2>1 DEF UnitFits, ChargeFits, DashFits
  <1>9. tick' \in 0..MaxTick /\ character' \in [Players -> Characters] /\ present' \subseteq Humans
    BY <1>1, <1>2 DEF TypeOK
  <1>10. TypeOK'
    BY <1>2, <1>5, <1>6, <1>7, <1>8, <1>9 DEF TypeOK
  <1>11. QED
    BY <1>4, <1>10 DEF CombatInv

LEMMA MergedTypes ==
    ASSUME NEW old \in InputCommand, NEW new \in InputCommand
    PROVE  Merged(old, new) \in InputCommand /\ Merged(old, new).client = new.client
  <1>1. CASE new.client > 0 /\ old.client > 0 /\ old.press # {} /\ new.press = {}
    <2>1. Merged(old, new) = [old EXCEPT !.client = new.client]
      BY <1>1 DEF Merged
    <2>2. QED
      BY <1>1, <2>1 DEF InputCommand
  <1>2. CASE ~(new.client > 0 /\ old.client > 0 /\ old.press # {} /\ new.press = {})
    BY <1>2 DEF Merged
  <1>3. QED
    BY <1>1, <1>2

LEMMA CombatInit == Init => CombatInv
  <1> SUFFICES ASSUME Init PROVE CombatInv
    OBVIOUS
  <1>1. character \in [Players -> Characters] /\ RechargeTicks \in Nat \ {0}
    BY CombatAssumption DEF Init
  <1>2. ASSUME NEW c \in Characters
        PROVE  /\ Fresh(c) \in Unit /\ Fresh(c).charges = MaxCharges[c] /\ Fresh(c).recharge = 0
               /\ Fresh(c).dash = NoDash /\ Fresh(c).burst = NoBurst /\ MaxCharges[c] \in Nat
               /\ Fresh(c).ack = 0
    BY CombatAssumption DEF Fresh, Unit, NoDash, NoBurst
  <1>3. ASSUME NEW p \in Players PROVE UnitFits(unit[p], character[p], tick)
    <2>1. unit[p] = Fresh(character[p]) /\ character[p] \in Characters
      BY <1>1 DEF Init
    <2>2. QED
      BY <1>1, <1>2, <2>1 DEF UnitFits, ChargeFits, DashFits, BurstFits, Dashing, Bursting
  <1>4. NoInput \in InputCommand /\ NoInput.client = 0
    BY CombatAssumption DEF NoInput, InputCommand
  <1>5. unit \in [Players -> Unit] /\ \A p \in Players : ~Dashing(unit[p])
    BY <1>1, <1>2 DEF Init, Dashing
  <1>6. \A p \in Humans : ~(pending[p].client > 0)
    BY <1>4 DEF Init
  <1>7. QED
    BY <1>1, <1>3, <1>4, <1>5, <1>6, CombatAssumption DEF CombatInv, TypeOK, Init, UnitFits, ChargeFits

LEMMA CombatStep == CombatInv /\ [Next]_vars => CombatInv'
  <1> SUFFICES ASSUME CombatInv, [Next]_vars PROVE CombatInv'
    OBVIOUS
  <1>1. TypeOK /\ \A p \in Players : UnitFits(unit[p], character[p], tick)
    BY DEF CombatInv
  <1>2. ASSUME NEW p \in Humans, SetInput(p) PROVE CombatInv'
    <2>1. PICK in \in InputCommand :
             StorableInput(p, in) /\ pending' = [pending EXCEPT ![p] = Merged(@, in)]
      BY <1>2 DEF SetInput
    <2>2. pending[p] \in InputCommand
      BY <1>1 DEF TypeOK
    <2>3. Merged(pending[p], in) \in InputCommand /\ Merged(pending[p], in).client = in.client
      BY <2>2, MergedTypes
    <2>4. /\ pending' \in [Humans -> InputCommand]
          /\ \A q \in Humans : pending'[q].client > 0 => pending'[q].client > unit[q].ack
      BY <1>1, <2>1, <2>3 DEF TypeOK, StorableInput
    <2>5. QED
      BY <1>1, <1>2, <2>4 DEF SetInput, CombatInv, TypeOK
  <1>3. ASSUME NEW p \in Humans, Leave(p) PROVE CombatInv'
    <2>1. NoInput \in InputCommand /\ NoInput.client = 0
      BY CombatAssumption DEF NoInput, InputCommand
    <2>2. /\ pending' \in [Humans -> InputCommand]
          /\ \A q \in Humans : pending'[q].client > 0 => pending'[q].client > unit[q].ack
      BY <1>1, <1>3, <2>1 DEF TypeOK, Leave
    <2>3. QED
      BY <1>1, <1>3, <2>2 DEF Leave, CombatInv, TypeOK
  <1>4. ASSUME NEW p \in Humans, Return(p) PROVE CombatInv'
    BY <1>1, <1>4 DEF Return, CombatInv, TypeOK
  <1>5. CASE Tick
    BY <1>5, TickTypes
  <1>6. CASE UNCHANGED vars
    BY <1>1, <1>6 DEF vars, CombatInv, TypeOK
  <1>7. QED
    BY <1>2, <1>3, <1>4, <1>5, <1>6 DEF Next

(* Types, charges within their maximum, dashes that end when they say, and   *)
(* bursts between the shot that is out and the one that is due (State.Step). *)
THEOREM CombatInvariant == Spec => []CombatInv
  <1>1. QED
    BY CombatInit, CombatStep, PTL DEF Spec

LEMMA ShotsCounted ==
    ASSUME NEW b \in [kind : {"none", "attack", "skill"}, at : Nat, next : Nat], NEW t \in Nat,
           ShotsFit(b, t)
    PROVE  b.next = Cardinality({i \in 1..Count(b.kind) : b.at + Offsets(b.kind)[i] <= t})
  <1> DEFINE n == b.next
             o == Offsets(b.kind)
  <1>1. /\ Count(b.kind) \in Nat \ {0} /\ \A i \in 1..Count(b.kind) : o[i] \in Nat
        /\ \A i, j \in 1..Count(b.kind) : i < j => o[i] < o[j]
    BY Schedules
  <1>2. /\ n \in 1..Count(b.kind) /\ b.at + o[n] <= t /\ b.at \in Nat /\ n \in Nat
        /\ n < Count(b.kind) => t < b.at + o[n + 1]
    BY DEF ShotsFit
  <1> HIDE DEF n, o
  <1>3. ASSUME NEW i \in 1..Count(b.kind) PROVE b.at + o[i] <= t <=> i \in 1..n
    <2>1. CASE i < n
      BY <1>1, <1>2, <2>1
    <2>2. CASE i = n
      BY <1>1, <1>2, <2>2
    <2>3. CASE i = n + 1
      BY <1>1, <1>2, <2>3
    <2>4. CASE i > n + 1
      <3>1. n + 1 \in 1..Count(b.kind) /\ n + 1 < i /\ n < Count(b.kind)
        BY <1>1, <1>2, <2>4
      <3>2. o[n + 1] < o[i] /\ o[n + 1] \in Nat /\ o[i] \in Nat
        BY <1>1, <3>1
      <3>3. QED
        BY <1>2, <2>4, <3>1, <3>2
    <2>5. QED
      BY <1>2, <2>1, <2>2, <2>3, <2>4
  <1>4. {i \in 1..Count(b.kind) : b.at + o[i] <= t} = 1..n
    BY <1>1, <1>2, <1>3
  <1>5. Cardinality(1..n) = n
    BY <1>2, FS_Interval
  <1>6. QED
    BY <1>4, <1>5 DEF n, o

LEMMA OnSchedule == CombatInv => BurstOnSchedule
  <1> SUFFICES ASSUME CombatInv PROVE BurstOnSchedule
    OBVIOUS
  <1>1. ASSUME NEW p \in Players, Bursting(unit[p]), ~unit[p].dead
        PROVE  LET b == unit[p].burst
               IN  /\ b.next = Cardinality({i \in 1..Count(b.kind) : b.at + Offsets(b.kind)[i] <= tick})
                   /\ b.next < Count(b.kind)
    <2>1. tick \in Nat /\ unit[p].burst \in [kind : {"none", "attack", "skill"}, at : Nat, next : Nat]
      BY CombatAssumption DEF CombatInv, TypeOK, Unit
    <2>2. ShotsFit(unit[p].burst, tick) /\ unit[p].burst.next < Count(unit[p].burst.kind)
      BY <1>1 DEF CombatInv, UnitFits, BurstFits
    <2>3. QED
      BY <2>1, <2>2, ShotsCounted
  <1>2. QED
    BY <1>1 DEF BurstOnSchedule, CombatInv

(* A running burst has emitted exactly the shots whose tick has come, and    *)
(* is forgotten with its last one (collectDueBurstEmissions).                *)
THEOREM BurstOnScheduleAlways == Spec => []BurstOnSchedule
  <1>1. QED
    BY CombatInvariant, OnSchedule, PTL

-----------------------------------------------------------------------------
(* What a press does, in terms of the state before the tick.                 *)

TakesSkill(x, in, t) ==
    /\ in.client > 0 => in.client > x.ack
    /\ "skill" \in in.press /\ in.aimed /\ ~Dashing(x) /\ t >= x.ready
TakesAttack(x, c, in, t) ==
    /\ in.client > 0 => in.client > x.ack
    /\ "attack" \in in.press /\ in.aimed /\ ~TakesSkill(x, in, t)
    /\ ~Dashing(x) /\ ~Bursting(x) /\ Recharged(x, c).charges > 0

\* Step took x to z at tick t; live: the player could act in it.
Acts(x, c, in, live, z, t) ==
    LET r == Recharged(x, c)
    IN  /\ z.dead \/ live
        /\ live /\ TakesSkill(x, in, t) =>
              /\ z.did = "skill"
              /\ c # "shelly" => z.charges = r.charges /\ z.recharge = r.recharge
        /\ live /\ TakesAttack(x, c, in, t) =>
              /\ z.did = "attack" /\ z.charges = r.charges - 1 /\ z.recharge = r.recharge
              /\ z.burst \in {NoBurst, NewBurst("attack", t)}
        /\ ~(live /\ (TakesSkill(x, in, t) \/ TakesAttack(x, c, in, t))) =>
              /\ z.did = "none" /\ z.charges = r.charges /\ z.recharge = r.recharge
              /\ Bursting(z) /\ ~z.dead =>
                    Bursting(x) /\ z.burst.kind = x.burst.kind /\ z.burst.at = x.burst.at

LEMMA AfterFields ==
    ASSUME NEW c \in Characters, NEW n \in Nat, NEW x, UnitFits(x, c, n), NEW in, in.client \in Nat,
           NEW fallen \in BOOLEAN, NEW bumped \in BOOLEAN, NEW cut \in BOOLEAN
    PROVE  LET z == After(x, c, in, fallen, bumped, cut, n + 1)
           IN  /\ Acts(x, c, in, ~x.dead /\ ~fallen, z, n + 1)
               /\ z.did = Act(Shooter(x, c, fallen, n + 1), in, c, n + 1).did
  <1> DEFINE t == n + 1
             r == Recharged(x, c)
             s == Shooter(x, c, fallen, t)
             y == Act(s, in, c, t)
             z == After(x, c, in, fallen, bumped, cut, t)
             live == ~x.dead /\ ~fallen
  <1>1. t \in Nat /\ x \in Unit /\ ChargeFits(x, c) /\ DashFits(x, t) /\ BurstFits(x, n)
    BY DEF UnitFits
  <1>2. x.burst \in [kind : {"none", "attack", "skill"}, at : Nat, next : Nat]
    BY <1>1 DEF Unit
  <1>3. /\ s \in Unit /\ s.charges = r.charges /\ s.recharge = r.recharge
        /\ s.ready = x.ready /\ s.ack = x.ack /\ s.did = "none"
        /\ s.dead <=> x.dead \/ fallen
        /\ s.dash = IF s.dead THEN NoDash ELSE x.dash
        /\ s.burst = IF s.dead THEN NoBurst
                     ELSE IF ShotDue(x, t) THEN [x.burst EXCEPT !.next = @ + 1] ELSE x.burst
    BY <1>1, ShooterFields
  <1> HIDE DEF s
  <1>4. /\ y \in Unit /\ y.dead = s.dead
        /\ SkillApproved(s, in, t) => UsesSkill(s, y, c, t)
        /\ AttackApproved(s, in, t) => UsesAttack(s, y, c, t)
        /\ ~SkillApproved(s, in, t) /\ ~AttackApproved(s, in, t) => DoesNothing(s, y)
    BY <1>1, <1>3, ActFields
  <1> HIDE DEF y
  <1>5. ~s.dead => /\ s.dash = x.dash /\ (Bursting(s) <=> Bursting(x))
                  /\ s.burst.kind = x.burst.kind /\ s.burst.at = x.burst.at
    <2>1. CASE s.dead
      BY <2>1
    <2>2. CASE ~s.dead /\ ShotDue(x, t)
      <3>1. s.burst = [x.burst EXCEPT !.next = @ + 1]
        BY <1>3, <2>2
      <3>2. s.burst.next # 0 /\ s.burst.kind = x.burst.kind /\ s.burst.at = x.burst.at
        BY <1>2, <3>1
      <3>3. Bursting(s) /\ Bursting(x)
        BY <2>2, <3>2 DEF Bursting, NoBurst, ShotDue
      <3>4. QED
        BY <1>3, <2>2, <3>2, <3>3
    <2>3. CASE ~s.dead /\ ~ShotDue(x, t)
      BY <1>3, <2>3 DEF Bursting
    <2>4. QED
      BY <2>1, <2>2, <2>3
  <1> HIDE DEF r
  <1>6. /\ SkillApproved(s, in, t) <=> live /\ TakesSkill(x, in, t)
        /\ AttackApproved(s, in, t) <=> live /\ TakesAttack(x, c, in, t)
    <2>1. CASE s.dead
      BY <1>3, <2>1 DEF SkillApproved, AttackApproved, Pressed, Accepts
    <2>2. CASE ~s.dead
      <3>1. live /\ (Dashing(s) <=> Dashing(x))
        BY <1>3, <1>5, <2>2 DEF Dashing
      <3>2. SkillApproved(s, in, t) <=> TakesSkill(x, in, t)
        BY <1>3, <2>2, <3>1 DEF SkillApproved, Pressed, Accepts, TakesSkill
      <3>3. AttackApproved(s, in, t) <=> TakesAttack(x, c, in, t)
        BY <1>3, <1>5, <2>2, <3>1, <3>2 DEF AttackApproved, Pressed, Accepts, TakesAttack, r
      <3>4. QED
        BY <3>1, <3>2, <3>3
    <2>3. QED
      BY <2>1, <2>2
  <1>7. Dashing(y) => y.dash.left > 0
    <2>1. DashTicks > 0
      BY CombatAssumption
    <2>2. Dashing(s) => s.dash.left > 0
      BY <1>1, <1>3 DEF DashFits, Dashing
    <2>3. CASE SkillApproved(s, in, t)
      BY <1>4, <2>1, <2>2, <2>3 DEF UsesSkill, Dashing
    <2>4. CASE AttackApproved(s, in, t)
      BY <1>4, <2>2, <2>4 DEF UsesAttack, Dashing
    <2>5. CASE ~SkillApproved(s, in, t) /\ ~AttackApproved(s, in, t)
      BY <1>4, <2>2, <2>5 DEF DoesNothing, Dashing
    <2>6. QED
      BY <2>3, <2>4, <2>5
  <1>8. /\ z \in Unit /\ (z.dead <=> y.dead \/ cut)
        /\ z.did = y.did /\ z.charges = y.charges /\ z.recharge = y.recharge
        /\ z.burst = IF Bursting(y) /\ y.burst.next >= Count(y.burst.kind) THEN NoBurst ELSE y.burst
    <2>1. z = Settled(y, bumped, cut)
      BY DEF After, s, y
    <2> HIDE DEF z
    <2>2. /\ Settled(y, bumped, cut) \in Unit /\ (Settled(y, bumped, cut).dead <=> y.dead \/ cut)
          /\ Settled(y, bumped, cut).did = y.did
          /\ Settled(y, bumped, cut).charges = y.charges /\ Settled(y, bumped, cut).recharge = y.recharge
          /\ Settled(y, bumped, cut).burst
                = IF Bursting(y) /\ y.burst.next >= Count(y.burst.kind) THEN NoBurst ELSE y.burst
      <3>1. y \in Unit /\ bumped \in BOOLEAN /\ cut \in BOOLEAN
        BY <1>4
      <3>2. LET w == Settled(y, bumped, cut)
            IN  /\ w \in Unit /\ (w.dead <=> y.dead \/ cut) /\ w.did = y.did
                /\ w.charges = y.charges /\ w.recharge = y.recharge
                /\ w.dead => w.dash = NoDash
                /\ w.dash = NoDash \/ (Dashing(y) /\ y.dash.left > 1 /\ w.dash = [y.dash EXCEPT !.left = @ - 1])
                /\ w.burst = IF Bursting(y) /\ y.burst.next >= Count(y.burst.kind) THEN NoBurst ELSE y.burst
        BY <3>1, <1>7, SettledFields
      <3>3. QED
        BY <3>2, Zenon
    <2>3. QED
      BY <2>1, <2>2, Zenon
  <1> HIDE DEF z, live
  <1>9. z.dead <=> x.dead \/ fallen \/ cut
    BY <1>3, <1>4, <1>8
  <1>10. live /\ TakesSkill(x, in, t) =>
           z.did = "skill" /\ (c # "shelly" => z.charges = r.charges /\ z.recharge = r.recharge)
    BY <1>3, <1>4, <1>6, <1>8 DEF UsesSkill
  <1>11. ASSUME live, TakesAttack(x, c, in, t)
         PROVE  /\ z.did = "attack" /\ z.charges = r.charges - 1 /\ z.recharge = r.recharge
                /\ z.burst \in {NoBurst, NewBurst("attack", t)}
    <2>1. UsesAttack(s, y, c, t) /\ ~s.dead /\ ~Bursting(s)
      BY <1>4, <1>6, <1>11 DEF AttackApproved, Pressed, Accepts
    <2>2. s.burst = NoBurst
      BY <2>1 DEF Bursting
    <2>3. y.burst \in {NoBurst, NewBurst("attack", t)}
      BY <2>1, <2>2 DEF UsesAttack
    <2>4. QED
      BY <1>3, <1>8, <2>1, <2>3 DEF UsesAttack
  <1>12. ASSUME ~(live /\ (TakesSkill(x, in, t) \/ TakesAttack(x, c, in, t)))
         PROVE  /\ z.did = "none" /\ z.charges = r.charges /\ z.recharge = r.recharge
                /\ Bursting(z) /\ ~z.dead =>
                      Bursting(x) /\ z.burst.kind = x.burst.kind /\ z.burst.at = x.burst.at
    <2>1. DoesNothing(s, y)
      BY <1>4, <1>6, <1>12
    <2>2. Bursting(z) => z.burst = y.burst
      BY <1>8 DEF Bursting
    <2>3. QED
      BY <1>3, <1>4, <1>5, <1>8, <2>1, <2>2 DEF DoesNothing, Bursting
  <1>13. QED
    <2>1. z.did = Act(Shooter(x, c, fallen, t), in, c, t).did
      BY <1>8 DEF s, y
    <2>2. Acts(x, c, in, live, z, t)
      BY <1>9, <1>10, <1>11, <1>12 DEF Acts, r, live
    <2>3. QED
      BY <2>1, <2>2 DEF z, live

LEMMA TickActs ==
    ASSUME CombatInv, NEW forfeits, NEW attackers, NEW fallen, NEW bumped, NEW cut,
           TicksTo(forfeits, attackers, fallen, bumped, cut), tick' = tick + 1, character' = character,
           NEW p \in Players
    PROVE  \E live \in BOOLEAN :
             /\ live => ~unit[p].dead
             /\ Acts(unit[p], character[p], InputOf(p, attackers), live, unit'[p], tick + 1)
             /\ unit'[p].did = ActedOf(p, attackers, fallen).did
  <1>1. /\ tick \in Nat /\ character[p] \in Characters /\ UnitFits(unit[p], character[p], tick)
        /\ InputOf(p, attackers).client \in Nat
        /\ (p \in fallen) \in BOOLEAN /\ (p \in bumped) \in BOOLEAN /\ (p \in cut) \in BOOLEAN
    BY CombatAssumption, InputTypes DEF CombatInv, TypeOK
  <1> DEFINE x == unit[p]
             c == character[p]
             in == InputOf(p, attackers)
             z == unit'[p]
             live == ~x.dead /\ ~(p \in fallen)
  <1>2. z = After(x, c, in, p \in fallen, p \in bumped, p \in cut, tick + 1)
    BY TickFits
  <1>3. \A f, d, k \in BOOLEAN :
          LET w == After(x, c, in, f, d, k, tick + 1)
          IN  /\ Acts(x, c, in, ~x.dead /\ ~f, w, tick + 1)
              /\ w.did = Act(Shooter(x, c, f, tick + 1), in, c, tick + 1).did
    <2> HIDE DEF x, c, in
    <2>1. QED
      BY <1>1, AfterFields DEF x, c, in
  <1> HIDE DEF x, c, in, z
  <1>4. LET w == After(x, c, in, p \in fallen, p \in bumped, p \in cut, tick + 1)
        IN  /\ Acts(x, c, in, live, w, tick + 1)
            /\ w.did = Act(Shooter(x, c, p \in fallen, tick + 1), in, c, tick + 1).did
    BY <1>1, <1>3, Zenon
  <1>5. /\ Acts(x, c, in, live, z, tick + 1)
        /\ z.did = Act(Shooter(x, c, p \in fallen, tick + 1), in, c, tick + 1).did
    BY <1>2, <1>4, Zenon
  <1>6. live \in BOOLEAN /\ (live => ~unit[p].dead)
    BY DEF x
  <1>7. z.did = ActedOf(p, attackers, fallen).did
    BY <1>5, Zenon DEF ActedOf, x, c, in
  <1> HIDE DEF live
  <1>8. QED
    BY <1>5, <1>6, <1>7 DEF x, c, in, z

-----------------------------------------------------------------------------
(* Charges: NextAttackChargeTick as a function of the player's state.        *)

NextCharge(x, c, n) ==
    IF x.charges >= MaxCharges[c] THEN 0 ELSE n + RechargeTicks - x.recharge

LEMMA ChargeArrives ==
    ASSUME NEW c \in Characters, NEW n \in Nat, NEW x, UnitFits(x, c, n), NEW in, NEW live \in BOOLEAN,
           NEW z \in Unit, Acts(x, c, in, live, z, n + 1),
           NextCharge(x, c, n) # 0, ~(z.did = "skill" /\ c = "shelly")
    PROVE  LET spent == IF z.did = "attack" THEN 1 ELSE 0
           IN  IF NextCharge(x, c, n) = n + 1 THEN z.charges + spent = x.charges + 1
               ELSE /\ z.charges + spent = x.charges
                    /\ NextCharge(z, c, n + 1) = NextCharge(x, c, n)
  <1> DEFINE r == Recharged(x, c)
             spent == IF z.did = "attack" THEN 1 ELSE 0
  <1>1. x \in Unit /\ ChargeFits(x, c)
    BY DEF UnitFits
  <1>2. /\ MaxCharges[c] \in Nat \ {0} /\ RechargeTicks \in Nat \ {0}
        /\ x.charges \in Nat /\ x.recharge \in Nat /\ z.charges \in Nat /\ z.recharge \in Nat
        /\ x.charges <= MaxCharges[c] /\ x.recharge < RechargeTicks
    BY <1>1, CombatAssumption DEF Unit, ChargeFits
  <1>3. x.charges < MaxCharges[c] /\ NextCharge(x, c, n) = n + RechargeTicks - x.recharge
    BY <1>2 DEF NextCharge
  <1>4. /\ x.recharge + 1 = RechargeTicks => r.charges = x.charges + 1 /\ r.recharge = 0
        /\ x.recharge + 1 # RechargeTicks => r.charges = x.charges /\ r.recharge = x.recharge + 1
    BY <1>1, <1>3, RechargedFields
  <1> HIDE DEF r
  <1>5. z.charges + spent = r.charges /\ z.recharge = r.recharge
    <2>0. r.charges \in Nat
      BY <1>2, <1>4
    <2>1. CASE live /\ TakesSkill(x, in, n + 1)
      <3>1. z.did = "skill" /\ (c # "shelly" => z.charges = r.charges /\ z.recharge = r.recharge)
        BY <2>1 DEF Acts, r
      <3>2. QED
        BY <1>2, <3>1
    <2>2. CASE live /\ TakesAttack(x, c, in, n + 1)
      <3>1. z.did = "attack" /\ z.charges = r.charges - 1 /\ z.recharge = r.recharge
        BY <2>2 DEF Acts, r
      <3>2. QED
        BY <1>2, <2>0, <3>1
    <2>3. CASE ~(live /\ (TakesSkill(x, in, n + 1) \/ TakesAttack(x, c, in, n + 1)))
      <3>1. z.did = "none" /\ z.charges = r.charges /\ z.recharge = r.recharge
        BY <2>3 DEF Acts, r
      <3>2. QED
        BY <1>2, <3>1
    <2>4. QED
      BY <2>1, <2>2, <2>3
  <1>6. NextCharge(x, c, n) = n + 1 <=> x.recharge + 1 = RechargeTicks
    BY <1>2, <1>3
  <1>7. CASE x.recharge + 1 = RechargeTicks
    BY <1>4, <1>5, <1>6, <1>7
  <1>8. CASE x.recharge + 1 # RechargeTicks
    <2>1. z.charges + spent = x.charges /\ z.recharge = x.recharge + 1
      BY <1>4, <1>5, <1>8
    <2>2. z.charges < MaxCharges[c]
      BY <1>2, <1>3, <2>1
    <2>3. NextCharge(z, c, n + 1) = (n + 1) + RechargeTicks - (x.recharge + 1)
      BY <1>2, <2>1, <2>2 DEF NextCharge
    <2>4. NextCharge(z, c, n + 1) = NextCharge(x, c, n)
      BY <1>2, <1>3, <2>3
    <2>5. QED
      BY <1>6, <1>8, <2>1, <2>4
  <1>9. QED
    BY <1>7, <1>8

LEMMA ChargeStep ==
    ASSUME CombatInv, [Next]_vars, tick' = tick + 1, NEW p \in Players
    PROVE  LET promised == NextAttackChargeTick(p)
               spent == IF unit'[p].did = "attack" THEN 1 ELSE 0
               reloads == unit'[p].did = "skill" /\ character[p] = "shelly"
           IN  promised # 0 /\ ~reloads =>
                   IF promised = tick' THEN unit'[p].charges + spent = unit[p].charges + 1
                   ELSE unit'[p].charges + spent = unit[p].charges
                        /\ NextAttackChargeTick(p)' = promised
  <1>1. /\ tick \in Nat /\ TypeOK /\ character[p] \in Characters /\ UnitFits(unit[p], character[p], tick)
    BY CombatAssumption DEF CombatInv, TypeOK
  <1>2. Tick
    BY <1>1 DEF Next, SetInput, Leave, Return, vars
  <1>3. character' = character
    BY <1>1, <1>2, TickShape
  <1>4. PICK forfeits, attackers, fallen, bumped, cut : TicksTo(forfeits, attackers, fallen, bumped, cut)
    BY <1>1, <1>2, TickShape
  <1>5. UnitFits(unit'[p], character'[p], tick')
    BY <1>3, <1>4, TickFits
  <1>6. PICK live \in BOOLEAN :
          Acts(unit[p], character[p], InputOf(p, attackers), live, unit'[p], tick + 1)
    BY <1>3, <1>4, TickActs
  <1>7. /\ NextAttackChargeTick(p) = NextCharge(unit[p], character[p], tick)
        /\ NextAttackChargeTick(p)' = NextCharge(unit'[p], character[p], tick + 1)
    BY <1>3 DEF NextAttackChargeTick, NextCharge
  <1>8. unit'[p] \in Unit
    BY <1>5 DEF UnitFits
  <1>9. QED
    BY <1>1, <1>6, <1>7, <1>8, ChargeArrives

(* A charge promised for a tick arrives at that tick, neither earlier nor    *)
(* later, whatever the player fires in between (rechargeAttackCharges,       *)
(* NextAttackChargeTick of the snapshot).                                    *)
THEOREM ChargePromiseKeptAlways == Spec => ChargePromiseKept
  <1>1. CombatInv /\ [Next]_vars =>
          [tick' = tick + 1 => \A p \in Players :
             LET promised == NextAttackChargeTick(p)
                 spent == IF unit'[p].did = "attack" THEN 1 ELSE 0
                 reloads == unit'[p].did = "skill" /\ character[p] = "shelly"
             IN  promised # 0 /\ ~reloads =>
                     IF promised = tick' THEN unit'[p].charges + spent = unit[p].charges + 1
                     ELSE unit'[p].charges + spent = unit[p].charges
                          /\ NextAttackChargeTick(p)' = promised]_vars
    BY ChargeStep
  <1>2. QED
    BY <1>1, CombatInvariant, PTL DEF Spec, ChargePromiseKept

-----------------------------------------------------------------------------
(* Presses: what the snapshot says of the next tick.                         *)

ReadyToAttack(x) ==
    IF Bursting(x) /\ ~x.dead THEN x.burst.at + Offsets(x.burst.kind)[Count(x.burst.kind)] + 1
    ELSE x.dash.ready

\* AttackReadyTick comes when neither a burst nor a dash is under way.
LEMMA ReadyWhenFree ==
    ASSUME NEW c, NEW n \in Nat, NEW x, UnitFits(x, c, n), ~x.dead
    PROVE  ReadyToAttack(x) <= n + 1 <=> ~Dashing(x) /\ ~Bursting(x)
  <1> DEFINE b == x.burst
             last == Offsets(b.kind)[Count(b.kind)]
  <1>1. /\ b \in [kind : {"none", "attack", "skill"}, at : Nat, next : Nat]
        /\ x.dash \in [left : Nat, ready : Nat]
        /\ DashFits(x, n + 1) /\ BurstFits(x, n)
    BY DEF UnitFits, Unit
  <1>2. CASE Bursting(x)
    <2>1. ShotsFit(b, n) /\ b.next < Count(b.kind)
      BY <1>1, <1>2 DEF BurstFits
    <2>2. /\ Count(b.kind) \in Nat \ {0} /\ \A i \in 1..Count(b.kind) : Offsets(b.kind)[i] \in Nat
          /\ \A i, j \in 1..Count(b.kind) : i < j => Offsets(b.kind)[i] < Offsets(b.kind)[j]
      BY Schedules
    <2>3. b.next + 1 \in 1..Count(b.kind) /\ b.at \in Nat /\ n < b.at + Offsets(b.kind)[b.next + 1]
      BY <1>1, <2>1, <2>2 DEF ShotsFit
    <2>4. Offsets(b.kind)[b.next + 1] <= last /\ last \in Nat /\ Offsets(b.kind)[b.next + 1] \in Nat
      <3>1. CASE b.next + 1 = Count(b.kind)
        BY <2>2, <2>3, <3>1
      <3>2. CASE b.next + 1 < Count(b.kind)
        <4>1. Count(b.kind) \in 1..Count(b.kind)
          BY <2>2
        <4>2. Offsets(b.kind)[b.next + 1] < last
          BY <2>2, <2>3, <3>2, <4>1
        <4>3. QED
          BY <2>2, <2>3, <4>1, <4>2
      <3>3. QED
        BY <2>2, <2>3, <3>1, <3>2
    <2>5. ReadyToAttack(x) = b.at + last + 1
      BY <1>2 DEF ReadyToAttack
    <2> HIDE DEF last, b
    <2>6. ~(ReadyToAttack(x) <= n + 1)
      BY <2>3, <2>4, <2>5
    <2>7. QED
      BY <1>2, <2>6
  <1>3. CASE ~Bursting(x) /\ Dashing(x)
    <2>1. ReadyToAttack(x) = (n + 1) + x.dash.left /\ x.dash.left > 0 /\ x.dash.left \in Nat
      BY <1>1, <1>3 DEF ReadyToAttack, DashFits
    <2>2. QED
      BY <1>3, <2>1
  <1>4. CASE ~Bursting(x) /\ ~Dashing(x)
    BY <1>4 DEF ReadyToAttack, Dashing, NoDash
  <1>5. QED
    BY <1>2, <1>3, <1>4

LEMMA ChargedWhenPromised ==
    ASSUME NEW c \in Characters, NEW n \in Nat, NEW x, UnitFits(x, c, n)
    PROVE  Recharged(x, c).charges > 0 <=> x.charges > 0 \/ NextCharge(x, c, n) = n + 1
  <1> DEFINE r == Recharged(x, c)
  <1>1. x \in Unit /\ ChargeFits(x, c)
    BY DEF UnitFits
  <1>2. /\ MaxCharges[c] \in Nat \ {0} /\ RechargeTicks \in Nat \ {0}
        /\ x.charges \in Nat /\ x.recharge \in Nat
        /\ x.charges <= MaxCharges[c] /\ x.recharge < RechargeTicks
    BY <1>1, CombatAssumption DEF Unit, ChargeFits
  <1>3. /\ x.charges = MaxCharges[c] => r.charges = MaxCharges[c]
        /\ x.charges < MaxCharges[c] /\ x.recharge + 1 = RechargeTicks => r.charges = x.charges + 1
        /\ x.charges < MaxCharges[c] /\ x.recharge + 1 # RechargeTicks => r.charges = x.charges
    BY <1>1, RechargedFields
  <1> HIDE DEF r
  <1>4. CASE x.charges = MaxCharges[c]
    BY <1>2, <1>3, <1>4 DEF r
  <1>5. CASE x.charges < MaxCharges[c]
    <2>1. NextCharge(x, c, n) = n + 1 <=> x.recharge + 1 = RechargeTicks
      BY <1>2, <1>5 DEF NextCharge
    <2>2. QED
      BY <1>2, <1>3, <1>5, <2>1 DEF r
  <1>6. QED
    BY <1>2, <1>4, <1>5

LEMMA PressStep ==
    ASSUME CombatInv, [Next]_vars, tick' = tick + 1, NEW p \in Humans
    PROVE  LET in == pending[p]
               skill == "skill" \in in.press /\ unit[p].ready <= tick' /\ ~Dashing(unit[p])
               attack == /\ "attack" \in in.press /\ ~skill
                         /\ AttackReadyTick(p) <= tick'
                         /\ unit[p].charges > 0 \/ NextAttackChargeTick(p) = tick'
           IN  in.aimed /\ ~unit'[p].dead =>
                   unit'[p].did = CASE skill -> "skill" [] attack -> "attack" [] OTHER -> "none"
  <1> DEFINE x == unit[p]
             c == character[p]
             in == pending[p]
             skill == "skill" \in in.press /\ x.ready <= tick' /\ ~Dashing(x)
             attack == /\ "attack" \in in.press /\ ~skill
                       /\ AttackReadyTick(p) <= tick'
                       /\ x.charges > 0 \/ NextAttackChargeTick(p) = tick'
  <1>1. /\ tick \in Nat /\ TypeOK /\ p \in Players /\ c \in Characters /\ UnitFits(x, c, tick)
        /\ in.client > 0 => in.client > x.ack
    BY CombatAssumption DEF CombatInv, TypeOK, Players
  <1>2. Tick
    BY <1>1 DEF Next, SetInput, Leave, Return, vars
  <1>3. character' = character
    BY <1>1, <1>2, TickShape
  <1>4. PICK forfeits, attackers, fallen, bumped, cut : TicksTo(forfeits, attackers, fallen, bumped, cut)
    BY <1>1, <1>2, TickShape
  <1>5. PICK live \in BOOLEAN : (live => ~x.dead) /\ Acts(x, c, in, live, unit'[p], tick + 1)
    <2>1. InputOf(p, attackers) = in
      BY DEF InputOf
    <2>2. QED
      BY <1>1, <1>3, <1>4, <2>1, TickActs
  <1>6. AttackReadyTick(p) = ReadyToAttack(x) /\ NextAttackChargeTick(p) = NextCharge(x, c, tick)
    BY DEF AttackReadyTick, ReadyToAttack, NextAttackChargeTick, NextCharge
  <1>7. x.ready \in Nat
    BY <1>1 DEF UnitFits, Unit
  <1> HIDE DEF x, c, in
  <1>8. ASSUME in.aimed, ~unit'[p].dead
        PROVE  unit'[p].did = CASE skill -> "skill" [] attack -> "attack" [] OTHER -> "none"
    <2>1. live /\ ~x.dead
      BY <1>5, <1>8 DEF Acts
    <2>2. skill <=> TakesSkill(x, in, tick + 1)
      BY <1>1, <1>7, <1>8 DEF TakesSkill
    <2>3. ReadyToAttack(x) <= tick + 1 <=> ~Dashing(x) /\ ~Bursting(x)
      BY <1>1, <2>1, ReadyWhenFree
    <2>4. Recharged(x, c).charges > 0 <=> x.charges > 0 \/ NextCharge(x, c, tick) = tick + 1
      BY <1>1, ChargedWhenPromised
    <2> HIDE DEF skill
    <2>5. attack => ~skill
      OBVIOUS
    <2>6. attack <=> TakesAttack(x, c, in, tick + 1)
      BY <1>1, <1>6, <1>8, <2>2, <2>3, <2>4 DEF TakesAttack
    <2> HIDE DEF attack
    <2>7. CASE skill
      BY <1>5, <2>1, <2>2, <2>7, <2>5 DEF Acts
    <2>8. CASE attack /\ ~skill
      BY <1>5, <2>1, <2>6, <2>8 DEF Acts
    <2>9. CASE ~attack /\ ~skill
      BY <1>5, <2>1, <2>2, <2>6, <2>9 DEF Acts
    <2>10. QED
      BY <2>7, <2>8, <2>9
  <1>9. QED
    BY <1>8 DEF x, in

(* An aimed press is approved exactly when the ticks and charges of the last *)
(* snapshot say so (prepareTimedDashes, applyPreparedInput,                  *)
(* projectAttackStateToPlayers).                                             *)
THEOREM PressesArePredictableAlways == Spec => PressesArePredictable
  <1>1. CombatInv /\ [Next]_vars =>
          [tick' = tick + 1 => \A p \in Humans :
             LET in == pending[p]
                 skill == "skill" \in in.press /\ unit[p].ready <= tick' /\ ~Dashing(unit[p])
                 attack == /\ "attack" \in in.press /\ ~skill
                           /\ AttackReadyTick(p) <= tick'
                           /\ unit[p].charges > 0 \/ NextAttackChargeTick(p) = tick'
             IN  in.aimed /\ ~unit'[p].dead =>
                     unit'[p].did = CASE skill -> "skill" [] attack -> "attack" [] OTHER -> "none"]_vars
    BY PressStep
  <1>2. QED
    BY <1>1, CombatInvariant, PTL DEF Spec, PressesArePredictable

LEMMA SurvivalStep ==
    ASSUME CombatInv, [Next]_vars, tick' = tick, NEW p \in Humans \cap present',
           pending[p].client > 0, pending[p].press # {}, pending'[p].client > 0
    PROVE  pending'[p].press # {}
  <1>1. TypeOK /\ tick \in Nat /\ pending \in [Humans -> InputCommand]
    BY CombatAssumption DEF CombatInv, TypeOK
  <1>2. ASSUME NEW q \in Humans, SetInput(q) PROVE pending'[p].press # {}
    <2>1. PICK in \in InputCommand : pending' = [pending EXCEPT ![q] = Merged(pending[q], in)]
      BY <1>2 DEF SetInput
    <2>2. CASE q = p
      <3>1. pending'[p] = Merged(pending[p], in) /\ pending[p] \in InputCommand
        BY <1>1, <2>1, <2>2
      <3>2. pending'[p].client = in.client
        BY <3>1, MergedTypes
      <3>3. CASE in.press = {}
        <4>1. pending'[p] = [pending[p] EXCEPT !.client = in.client]
          BY <3>1, <3>2, <3>3 DEF Merged
        <4>2. QED
          BY <3>1, <4>1 DEF InputCommand
      <3>4. CASE in.press # {}
        BY <3>1, <3>4 DEF Merged
      <3>5. QED
        BY <3>3, <3>4
    <2>3. CASE q # p
      BY <1>1, <2>1, <2>3
    <2>4. QED
      BY <2>2, <2>3
  <1>3. ASSUME NEW q \in Humans, Leave(q) PROVE pending'[p].press # {}
    BY <1>1, <1>3 DEF Leave
  <1>4. ASSUME NEW q \in Humans, Return(q) PROVE pending'[p].press # {}
    BY <1>4 DEF Return
  <1>5. ~Tick
    BY <1>1 DEF Tick
  <1>6. CASE UNCHANGED vars
    BY <1>6 DEF vars
  <1>7. QED
    BY <1>2, <1>3, <1>4, <1>5, <1>6 DEF Next

(* No movement that arrives between two ticks erases a press that waits for  *)
(* the next one (setInput).                                                  *)
THEOREM PressSurvivesAlways == Spec => PressSurvives
  <1>1. CombatInv /\ [Next]_vars =>
          [\A p \in Humans \cap present' :
             LET old == pending[p]
                 new == pending'[p]
             IN  tick' = tick /\ old.client > 0 /\ old.press # {} /\ new.client > 0 =>
                     new.press # {}]_vars
    BY SurvivalStep
  <1>2. QED
    BY <1>1, CombatInvariant, PTL DEF Spec, PressSurvives

-----------------------------------------------------------------------------
(* Bots: nextBotAttackTicks of the room and the charges of the simulation.   *)

\* b: a bot, ready to attack again at tick next; x: its state at tick n.
BotFits(x, c, next, n) ==
    ~x.dead =>
        /\ \/ x.charges = MaxCharges[c]
           \/ x.charges + 1 = MaxCharges[c] /\ next + x.recharge = n + RechargeTicks
        /\ Bursting(x) => x.burst.kind = "attack" /\ next = x.burst.at + RechargeTicks

BotsInv == CombatInv /\ \A b \in Bots : BotFits(unit[b], character[b], botNext[b], tick)

\* A bot that may attack has all its charges once Step has recharged it.
LEMMA BotCharged ==
    ASSUME NEW c \in Characters, NEW n \in Nat, NEW x, UnitFits(x, c, n), NEW next \in Nat,
           BotFits(x, c, next, n), ~x.dead
    PROVE  LET r == Recharged(x, c)
           IN  /\ n + 1 >= next => r.charges = MaxCharges[c] /\ r.recharge = 0
               /\ \/ r.charges = MaxCharges[c]
                  \/ r.charges + 1 = MaxCharges[c] /\ next + r.recharge = n + 1 + RechargeTicks
  <1> DEFINE r == Recharged(x, c)
  <1>1. x \in Unit /\ ChargeFits(x, c)
    BY DEF UnitFits
  <1>2. /\ MaxCharges[c] \in Nat \ {0} /\ RechargeTicks \in Nat \ {0}
        /\ x.charges \in Nat /\ x.recharge \in Nat
        /\ x.charges <= MaxCharges[c] /\ x.recharge < RechargeTicks
    BY <1>1, CombatAssumption DEF Unit, ChargeFits
  <1>3. /\ x.charges = MaxCharges[c] => r.charges = MaxCharges[c] /\ r.recharge = 0
        /\ x.charges < MaxCharges[c] /\ x.recharge + 1 = RechargeTicks =>
              r.charges = x.charges + 1 /\ r.recharge = 0
        /\ x.charges < MaxCharges[c] /\ x.recharge + 1 # RechargeTicks =>
              r.charges = x.charges /\ r.recharge = x.recharge + 1
    BY <1>1, RechargedFields
  <1> HIDE DEF r
  <1>4. CASE x.charges = MaxCharges[c]
    BY <1>3, <1>4 DEF r
  <1>5. CASE x.charges + 1 = MaxCharges[c] /\ next + x.recharge = n + RechargeTicks
    <2>1. CASE x.recharge + 1 = RechargeTicks
      BY <1>2, <1>3, <1>5, <2>1 DEF r
    <2>2. CASE x.recharge + 1 # RechargeTicks
      <3>1. r.charges = x.charges /\ r.recharge = x.recharge + 1 /\ ~(n + 1 >= next)
        BY <1>2, <1>3, <1>5, <2>2
      <3>2. QED
        BY <1>2, <1>5, <3>1 DEF r
    <2>3. QED
      BY <2>1, <2>2
  <1>6. QED
    BY <1>4, <1>5 DEF BotFits

\* One tick of a bot, whose input presses nothing but attack
LEMMA BotActs ==
    ASSUME NEW c \in Characters, NEW n \in Nat, NEW x, UnitFits(x, c, n), NEW next \in Nat,
           BotFits(x, c, next, n), NEW in, "skill" \notin in.press,
           "attack" \in in.press => n + 1 >= next,
           NEW live \in BOOLEAN, live => ~x.dead, NEW z \in Unit, Acts(x, c, in, live, z, n + 1)
    PROVE  BotFits(z, c, IF z.did = "attack" THEN n + 1 + RechargeTicks ELSE next, n + 1)
  <1> DEFINE r == Recharged(x, c)
             then == IF z.did = "attack" THEN n + 1 + RechargeTicks ELSE next
  <1>1. SUFFICES ASSUME ~z.dead
                 PROVE  /\ \/ z.charges = MaxCharges[c]
                           \/ z.charges + 1 = MaxCharges[c] /\ then + z.recharge = n + 1 + RechargeTicks
                        /\ Bursting(z) => z.burst.kind = "attack" /\ then = z.burst.at + RechargeTicks
    BY DEF BotFits
  <1>2. live /\ ~x.dead /\ ~TakesSkill(x, in, n + 1)
    BY <1>1 DEF Acts, TakesSkill
  <1>3. /\ n + 1 >= next => r.charges = MaxCharges[c] /\ r.recharge = 0
        /\ \/ r.charges = MaxCharges[c]
           \/ r.charges + 1 = MaxCharges[c] /\ next + r.recharge = n + 1 + RechargeTicks
    BY <1>2, BotCharged
  <1>4. MaxCharges[c] \in Nat \ {0} /\ RechargeTicks \in Nat \ {0}
    BY CombatAssumption
  <1> HIDE DEF r
  <1>5. CASE TakesAttack(x, c, in, n + 1)
    <2>1. /\ z.did = "attack" /\ z.charges = r.charges - 1 /\ z.recharge = r.recharge
          /\ z.burst \in {NoBurst, NewBurst("attack", n + 1)}
      BY <1>2, <1>5 DEF Acts, r
    <2>2. r.charges = MaxCharges[c] /\ r.recharge = 0
      BY <1>3, <1>5 DEF TakesAttack
    <2>3. then = n + 1 + RechargeTicks
      BY <2>1
    <2>4. Bursting(z) => z.burst.kind = "attack" /\ z.burst.at = n + 1
      BY <2>1 DEF Bursting, NewBurst
    <2> HIDE DEF then
    <2>5. QED
      BY <1>4, <2>1, <2>2, <2>3, <2>4
  <1>6. CASE ~TakesAttack(x, c, in, n + 1)
    <2>1. /\ z.did = "none" /\ z.charges = r.charges /\ z.recharge = r.recharge
          /\ Bursting(z) => Bursting(x) /\ z.burst.kind = x.burst.kind /\ z.burst.at = x.burst.at
      BY <1>1, <1>2, <1>6 DEF Acts, r
    <2>2. then = next
      BY <2>1
    <2> HIDE DEF then
    <2>3. QED
      BY <1>2, <1>3, <2>1, <2>2 DEF BotFits
  <1>7. QED
    BY <1>5, <1>6

LEMMA BotsInit == Init => BotsInv
  <1> SUFFICES ASSUME Init PROVE BotsInv
    OBVIOUS
  <1>1. CombatInv
    BY CombatInit
  <1>2. ASSUME NEW b \in Bots PROVE BotFits(unit[b], character[b], botNext[b], tick)
    <2>1. unit[b] = Fresh(character[b])
      BY DEF Init, Players
    <2>2. unit[b].charges = MaxCharges[character[b]] /\ unit[b].burst = NoBurst
      BY <2>1 DEF Fresh
    <2>3. QED
      BY <2>2 DEF BotFits, Bursting
  <1>3. QED
    BY <1>1, <1>2 DEF BotsInv

LEMMA BotsTick == ASSUME BotsInv, Tick, NEW b \in Bots
                  PROVE  BotFits(unit'[b], character'[b], botNext'[b], tick')
  <1> DEFINE x == unit[b]
             c == character[b]
  <1>1. /\ tick \in Nat /\ TypeOK /\ b \in Players /\ b \notin Humans /\ c \in Characters
        /\ UnitFits(x, c, tick) /\ botNext[b] \in Nat /\ CombatInv
        /\ BotFits(x, c, botNext[b], tick)
    BY CombatAssumption DEF BotsInv, CombatInv, TypeOK, Players
  <1>2. tick' = tick + 1 /\ character' = character
    BY <1>1, TickShape
  <1>3. PICK forfeits \in SUBSET Humans, attackers \in SUBSET Bots, fallen, bumped, cut \in SUBSET Players :
          TicksTo(forfeits, attackers, fallen, bumped, cut)
    BY <1>1, TickShape
  <1>4. unit'[b] \in Unit
    BY <1>1, <1>2, <1>3, TickFits DEF UnitFits
  <1>5. PICK live \in BOOLEAN :
          /\ live => ~x.dead
          /\ Acts(x, c, InputOf(b, attackers), live, unit'[b], tick + 1)
          /\ unit'[b].did = ActedOf(b, attackers, fallen).did
    BY <1>1, <1>2, <1>3, TickActs
  <1> DEFINE in == InputOf(b, attackers)
             z == unit'[b]
             next == IF z.did = "attack" THEN tick + 1 + RechargeTicks ELSE botNext[b]
  <1>6. "skill" \notin in.press /\ ("attack" \in in.press => tick + 1 >= botNext[b])
    <2>1. in = BotInput(b \in attackers)
      BY <1>1 DEF InputOf
    <2>2. in.press = IF b \in attackers THEN {"attack"} ELSE {}
      BY <2>1 DEF BotInput
    <2>3. b \in attackers => tick + 1 >= botNext[b]
      BY <1>3 DEF TicksTo
    <2> HIDE DEF in
    <2>4. QED
      BY <2>2, <2>3
  <1>7. ~z.dead => botNext'[b] = next
    <2>1. SUFFICES ASSUME ~z.dead PROVE botNext'[b] = next
      OBVIOUS
    <2>2. ~x.dead
      BY <1>5, <2>1 DEF Acts
    <2>3. b \notin Dead \cup forfeits
      BY <1>1, <1>3, <2>2 DEF Dead
    <2>4. botNext'[b] = Cadence(b, ActedOf(b, attackers, fallen))
      BY <1>3, <2>3 DEF TicksTo
    <2>5. QED
      BY <1>5, <2>4 DEF Cadence
  <1> HIDE DEF in, z, x, c, next
  <1>8. BotFits(z, c, next, tick + 1)
    BY <1>1, <1>4, <1>5, <1>6, BotActs DEF in, z, next
  <1>9. QED
    BY <1>2, <1>7, <1>8 DEF BotFits, z, c

LEMMA BotsStep == BotsInv /\ [Next]_vars => BotsInv'
  <1> SUFFICES ASSUME BotsInv, [Next]_vars PROVE BotsInv'
    OBVIOUS
  <1>1. CombatInv'
    BY CombatStep DEF BotsInv
  <1>2. ASSUME NEW b \in Bots PROVE BotFits(unit'[b], character'[b], botNext'[b], tick')
    <2>1. CASE Tick
      BY <2>1, BotsTick
    <2>2. CASE UNCHANGED <<tick, character, unit, botNext>>
      BY <2>2 DEF BotsInv
    <2>3. QED
      BY <2>1, <2>2 DEF Next, SetInput, Leave, Return, vars
  <1>3. QED
    BY <1>1, <1>2 DEF BotsInv

LEMMA BotsFindCharge ==
    ASSUME AttackOffsets[Len(AttackOffsets)] < RechargeTicks, BotsInv
    PROVE  BotFindsCharge
  <1>1. SUFFICES ASSUME NEW b \in Bots, ~unit[b].dead, tick + 1 >= botNext[b]
                 PROVE  /\ Recharged(unit[b], character[b]).charges = MaxCharges[character[b]]
                        /\ ~Bursting(unit[b])
    BY DEF BotFindsCharge
  <1> DEFINE x == unit[b]
             c == character[b]
  <1>2. /\ tick \in Nat /\ c \in Characters /\ UnitFits(x, c, tick) /\ botNext[b] \in Nat
        /\ BotFits(x, c, botNext[b], tick)
    BY CombatAssumption DEF BotsInv, CombatInv, TypeOK, Players
  <1> HIDE DEF x, c
  <1>3. Recharged(x, c).charges = MaxCharges[c]
    BY <1>1, <1>2, BotCharged DEF x
  <1>4. ASSUME Bursting(x) PROVE FALSE
    <2> DEFINE last == Len(AttackOffsets)
    <2>1. /\ x.burst.kind = "attack" /\ botNext[b] = x.burst.at + RechargeTicks
          /\ ShotsFit(x.burst, tick) /\ x.burst.next < Count(x.burst.kind) /\ x.burst.at \in Nat
      BY <1>1, <1>2, <1>4 DEF BotFits, UnitFits, BurstFits, Unit, x
    <2>2. /\ last \in Nat \ {0} /\ \A i \in 1..last : AttackOffsets[i] \in Nat
          /\ \A i, j \in 1..last : i < j => AttackOffsets[i] < AttackOffsets[j]
      <3>1. Offsets("attack") = AttackOffsets /\ Count("attack") = last
        BY DEF Offsets, Count
      <3>2. QED
        BY <3>1, Schedules
    <2>3. x.burst.next + 1 \in 1..last /\ tick < x.burst.at + AttackOffsets[x.burst.next + 1]
      BY <2>1, <2>2 DEF ShotsFit, Offsets, Count
    <2>4. AttackOffsets[x.burst.next + 1] <= AttackOffsets[last] /\ last \in 1..last
      BY <2>2, <2>3
    <2> HIDE DEF last
    <2>5. /\ AttackOffsets[last] < RechargeTicks /\ RechargeTicks \in Nat
          /\ AttackOffsets[last] \in Nat /\ AttackOffsets[x.burst.next + 1] \in Nat
      BY <2>2, <2>3, <2>4, CombatAssumption DEF last
    <2>6. x.burst.at \in Nat /\ tick + 1 <= x.burst.at + AttackOffsets[last]
      BY <1>2, <2>1, <2>3, <2>4, <2>5
    <2>7. tick + 1 >= x.burst.at + RechargeTicks /\ tick \in Nat
      BY <1>1, <1>2, <2>1
    <2>8. QED
      BY <2>5, <2>6, <2>7
  <1>5. QED
    BY <1>3, <1>4 DEF x, c

(* The cadence that the room keeps for a bot never runs ahead of what the    *)
(* simulation has ready for it, when a burst is over within a recharge       *)
(* (tickRoomState, mergedTickInputsAtTick, rechargeAttackCharges).           *)
THEOREM BotFindsChargeAlways ==
    ASSUME AttackOffsets[Len(AttackOffsets)] < RechargeTicks
    PROVE  Spec => []BotFindsCharge
  <1>1. BotsInv => BotFindsCharge
    BY BotsFindCharge
  <1>2. QED
    BY <1>1, BotsInit, BotsStep, PTL DEF Spec
=============================================================================
