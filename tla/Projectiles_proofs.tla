-------------------------- MODULE Projectiles_proofs --------------------------
(***************************************************************************)
(* Proofs about Projectiles, for every number of players and shots and for *)
(* every range, speed and damage: the books about a shot agree, and one    *)
(* that is destroyed is shown for exactly as long as promised.             *)
(***************************************************************************)
EXTENDS Projectiles, FiniteSetTheorems, SequenceTheorems, WellFoundedInduction, TLAPS

-----------------------------------------------------------------------------
(* Induction over 0..n, from the least counterexample.                       *)

LEMMA Least ==
    ASSUME NEW S \in SUBSET Nat, S # {}
    PROVE  \E x \in S : \A y \in S : ~(y < x)
  <1> DEFINE R == {rr \in Nat \X Nat : rr[1] < rr[2]}
  <1>1. IsWellFoundedOn(R, Nat)
    BY NatLessThanWellFounded DEF OpToRel
  <1> HIDE DEF R
  <1>2. \E x \in S : \A y \in S : ~(<<y, x>> \in R)
    BY <1>1, WFMin
  <1>3. \A x, y \in Nat : <<y, x>> \in R <=> y < x
    BY DEF R
  <1>4. QED
    BY <1>2, <1>3

LEMMA UpTo ==
    ASSUME NEW n \in Nat, NEW S, 0 \in S, \A i \in 0..n : i < n /\ i \in S => i + 1 \in S
    PROVE  0..n \subseteq S
  <1>1. SUFFICES ASSUME (0..n) \ S # {} PROVE FALSE
    OBVIOUS
  <1>2. PICK x \in (0..n) \ S : \A y \in (0..n) \ S : ~(y < x)
    <2>1. (0..n) \ S \in SUBSET Nat
      OBVIOUS
    <2>2. QED
      BY <1>1, <2>1, Least
  <1>3. x # 0 /\ x - 1 \in 0..n /\ x - 1 < n /\ (x - 1) + 1 = x /\ x - 1 < x
    BY <1>2
  <1>4. x - 1 \in S
    BY <1>2, <1>3
  <1>5. QED
    BY <1>2, <1>3, <1>4

-----------------------------------------------------------------------------
(* The three loops.  A recursive function is a CHOOSE; that it exists is     *)
(* shown once for all of them, with the loop as a parameter.                 *)

Start == [hp |-> hp, list |-> list, moved |-> moved, ended |-> ended]
FlyNext(meets, i, w) == IF i \in Flying THEN FlyOne(w, i, meets[i]) ELSE w
KeepNext(w, shots, i, kept) == IF Kept(w, shots[i]) THEN Append(kept, shots[i]) ELSE kept
EmitNext(does, p, from) == from \o Fired(p, does[p])

NextOf(loop, x, y, i, v) ==
    CASE loop = "fly"  -> FlyNext(x, i, v)
      [] loop = "keep" -> KeepNext(x, y, i, v)
      [] loop = "emit" -> EmitNext(x, i, v)

Unfolds(loop, x, y, start, f, n) ==
    f = [i \in 0..n |-> IF i = 0 THEN start ELSE NextOf(loop, x, y, i, f[i - 1])]

LEMMA Recursion ==
    ASSUME NEW loop, NEW x, NEW y, NEW start, NEW n \in Nat
    PROVE  \E f : Unfolds(loop, x, y, start, f, n)
  <1> DEFINE S == {m \in 0..n : \E f : Unfolds(loop, x, y, start, f, m)}
  <1>1. 0 \in S
    <2>1. Unfolds(loop, x, y, start, [i \in 0..0 |-> start], 0)
      BY DEF Unfolds
    <2>2. 0 \in 0..n
      OBVIOUS
    <2>3. QED
      BY <2>1, <2>2, Zenon
  <1>2. ASSUME NEW m \in 0..n, m < n, m \in S PROVE m + 1 \in S
    <2>1. PICK f : Unfolds(loop, x, y, start, f, m)
      BY <1>2
    <2> DEFINE G(i, v) == NextOf(loop, x, y, i, v)
               g == [i \in 0..(m + 1) |-> IF i = m + 1 THEN G(m + 1, f[m]) ELSE f[i]]
    <2>2. f = [i \in 0..m |-> IF i = 0 THEN start ELSE G(i, f[i - 1])]
      BY <2>1, Zenon DEF Unfolds
    <2> HIDE DEF G
    <2>3. \A i \in 0..m : g[i] = f[i]
      OBVIOUS
    <2>4. ASSUME NEW i \in 0..(m + 1) PROVE g[i] = IF i = 0 THEN start ELSE G(i, g[i - 1])
      <3>1. CASE i = 0
        <4>1. f[0] = start /\ g[0] = f[0]
          BY <2>2, <2>3
        <4>2. QED
          BY <3>1, <4>1
      <3>2. CASE i = m + 1
        <4>1. g[i] = G(m + 1, f[m]) /\ g[m] = f[m] /\ i - 1 = m /\ i # 0
          BY <2>3, <3>2
        <4>2. QED
          BY <3>2, <4>1
      <3>3. CASE i # 0 /\ i # m + 1
        <4>1. i \in 0..m /\ i - 1 \in 0..m
          BY <3>3
        <4>2. f[i] = G(i, f[i - 1])
          BY <2>2, <3>3, <4>1
        <4>3. QED
          BY <2>3, <3>3, <4>1, <4>2
      <3>4. QED
        BY <3>1, <3>2, <3>3
    <2>5. g = [i \in 0..(m + 1) |-> IF i = 0 THEN start ELSE G(i, g[i - 1])]
      BY <2>4
    <2> HIDE DEF g
    <2>6. Unfolds(loop, x, y, start, g, m + 1)
      BY <2>5, Zenon DEF Unfolds, G
    <2>7. m + 1 \in 0..n
      BY <1>2
    <2>8. QED
      BY <2>6, <2>7, Zenon
  <1> HIDE DEF S
  <1>3. 0..n \subseteq S
    BY <1>1, <1>2, UpTo
  <1>4. n \in S
    BY <1>3
  <1>5. QED
    BY <1>4, Zenon DEF S

\* The shots after the first i of them have moved
Fly(meets) ==
    CHOOSE fly : fly = [i \in 0..Len(list) |->
        IF i = 0 THEN Start
        ELSE IF i \in Flying THEN FlyOne(fly[i - 1], i, meets[i]) ELSE fly[i - 1]]

LEMMA FlySteps ==
    ASSUME NEW meets, Len(list) \in Nat
    PROVE  /\ Flown(meets) = Fly(meets)[Len(list)]
           /\ Fly(meets)[0] = Start
           /\ \A i \in 0..Len(list) : i # 0 => Fly(meets)[i] = FlyNext(meets, i, Fly(meets)[i - 1])
  <1> DEFINE n == Len(list)
             f == Fly(meets)
  <1>1. Flown(meets) = f[n]
    BY Zenon DEF Flown, Fly, Start
  <1>2. \A g : Unfolds("fly", meets, 0, Start, g, n) <=>
                 g = [i \in 0..n |-> IF i = 0 THEN Start ELSE FlyNext(meets, i, g[i - 1])]
    BY DEF Unfolds, NextOf
  <1>3. PICK g : g = [i \in 0..n |-> IF i = 0 THEN Start ELSE FlyNext(meets, i, g[i - 1])]
    BY <1>2, Recursion
  <1>4. f = [i \in 0..n |-> IF i = 0 THEN Start ELSE FlyNext(meets, i, f[i - 1])]
    BY <1>3, Zenon DEF Fly, FlyNext
  <1> HIDE DEF f
  <1>5. f[0] = Start /\ \A i \in 0..n : i # 0 => f[i] = FlyNext(meets, i, f[i - 1])
    BY <1>4
  <1>6. QED
    BY <1>1, <1>5 DEF f

\* The shots kept of the first i
Keep(w, shots) ==
    CHOOSE keep : keep = [i \in 0..Len(shots) |->
        IF i = 0 THEN <<>>
        ELSE IF Kept(w, shots[i]) THEN Append(keep[i - 1], shots[i]) ELSE keep[i - 1]]

LEMMA KeepSteps ==
    ASSUME NEW w, NEW shots, Len(shots) \in Nat
    PROVE  /\ Pruned(w, shots) = Keep(w, shots)[Len(shots)]
           /\ Keep(w, shots)[0] = <<>>
           /\ \A i \in 0..Len(shots) : i # 0 =>
                 Keep(w, shots)[i] = KeepNext(w, shots, i, Keep(w, shots)[i - 1])
  <1> DEFINE n == Len(shots)
             f == Keep(w, shots)
  <1>1. Pruned(w, shots) = f[n]
    BY Zenon DEF Pruned, Keep
  <1>2. \A g : Unfolds("keep", w, shots, <<>>, g, n) <=>
                 g = [i \in 0..n |-> IF i = 0 THEN <<>> ELSE KeepNext(w, shots, i, g[i - 1])]
    BY DEF Unfolds, NextOf
  <1>3. PICK g : g = [i \in 0..n |-> IF i = 0 THEN <<>> ELSE KeepNext(w, shots, i, g[i - 1])]
    BY <1>2, Recursion
  <1>4. f = [i \in 0..n |-> IF i = 0 THEN <<>> ELSE KeepNext(w, shots, i, f[i - 1])]
    BY <1>3, Zenon DEF Keep, KeepNext
  <1> HIDE DEF f
  <1>5. f[0] = <<>> /\ \A i \in 0..n : i # 0 => f[i] = KeepNext(w, shots, i, f[i - 1])
    BY <1>4
  <1>6. QED
    BY <1>1, <1>5 DEF f

\* What the first p players shoot
Emit(does) ==
    CHOOSE from : from = [p \in 0..N |->
        IF p = 0 THEN <<>> ELSE from[p - 1] \o Fired(p, does[p])]

LEMMA EmitSteps ==
    ASSUME NEW does
    PROVE  /\ Emitted(does) = [i \in DOMAIN Emit(does)[N] |->
                 [id |-> seq + i, born |-> tick + 1, owner |-> Emit(does)[N][i].owner,
                  kind |-> Emit(does)[N][i].kind, destroyed |-> FALSE]]
           /\ Emit(does)[0] = <<>>
           /\ \A p \in 0..N : p # 0 => Emit(does)[p] = EmitNext(does, p, Emit(does)[p - 1])
  <1> DEFINE f == Emit(does)
  <1>1. Emitted(does) = [i \in DOMAIN f[N] |->
             [id |-> seq + i, born |-> tick + 1, owner |-> f[N][i].owner,
              kind |-> f[N][i].kind, destroyed |-> FALSE]]
    BY Zenon DEF Emitted, Emit
  <1>2. \A g : Unfolds("emit", does, 0, <<>>, g, N) <=>
                 g = [p \in 0..N |-> IF p = 0 THEN <<>> ELSE EmitNext(does, p, g[p - 1])]
    BY DEF Unfolds, NextOf
  <1>3. N \in Nat
    BY ProjectilesAssumption
  <1>4. PICK g : g = [p \in 0..N |-> IF p = 0 THEN <<>> ELSE EmitNext(does, p, g[p - 1])]
    BY <1>2, <1>3, Recursion
  <1>5. f = [p \in 0..N |-> IF p = 0 THEN <<>> ELSE EmitNext(does, p, f[p - 1])]
    BY <1>4, Zenon DEF Emit, EmitNext
  <1> HIDE DEF f
  <1>6. f[0] = <<>> /\ \A p \in 0..N : p # 0 => f[p] = EmitNext(does, p, f[p - 1])
    BY <1>3, <1>5
  <1>7. QED
    BY <1>1, <1>6 DEF f

-----------------------------------------------------------------------------
(* One shot moves.                                                           *)

Health == [Players -> 0..MaxHP]
Book == UNION {[ids -> Nat] : ids \in SUBSET (1..MaxShots)}
State == [hp : Health, list : Seq(Shot), moved : Book, ended : Book]

Marked(shot) == [shot EXCEPT !.destroyed = TRUE]

LEMMA BookShape ==
    ASSUME NEW f
    PROVE  f \in Book <=> DOMAIN f \in SUBSET (1..MaxShots) /\ f \in [DOMAIN f -> Nat]
  <1>1. ASSUME f \in Book PROVE DOMAIN f \in SUBSET (1..MaxShots) /\ f \in [DOMAIN f -> Nat]
    <2>1. PICK ids \in SUBSET (1..MaxShots) : f \in [ids -> Nat]
      BY <1>1 DEF Book
    <2>2. QED
      BY <2>1
  <1>2. ASSUME DOMAIN f \in SUBSET (1..MaxShots), f \in [DOMAIN f -> Nat] PROVE f \in Book
    BY <1>2, Zenon DEF Book
  <1>3. QED
    BY <1>1, <1>2

LEMMA BookKept ==
    ASSUME NEW f \in Book, NEW id \in 1..MaxShots, NEW n \in Nat
    PROVE  Put(f, id, n) \in Book /\ Without(f, id) \in Book /\ [f EXCEPT ![id] = n] \in Book
  <1>1. DOMAIN f \in SUBSET (1..MaxShots) /\ f \in [DOMAIN f -> Nat]
    BY BookShape
  <1>2. /\ DOMAIN Put(f, id, n) = DOMAIN f \cup {id} /\ Put(f, id, n) \in [DOMAIN f \cup {id} -> Nat]
        /\ DOMAIN Without(f, id) = DOMAIN f \ {id} /\ Without(f, id) \in [DOMAIN f \ {id} -> Nat]
    BY <1>1 DEF Put, Without
  <1>3. DOMAIN [f EXCEPT ![id] = n] = DOMAIN f /\ [f EXCEPT ![id] = n] \in [DOMAIN f -> Nat]
    BY <1>1
  <1>4. QED
    BY <1>1, <1>2, <1>3, BookShape

LEMMA Hurting ==
    ASSUME NEW health \in Health, NEW p, NEW amount \in Nat
    PROVE  Hurt(health, p, amount) \in Health
  <1>1. MaxHP \in Nat
    BY ProjectilesAssumption
  <1>2. CASE p \in Players
    <2>1. health[p] \in 0..MaxHP
      BY <1>2 DEF Health
    <2>2. (IF health[p] > amount THEN health[p] - amount ELSE 0) \in 0..MaxHP
      BY <1>1, <2>1
    <2>3. QED
      BY <1>2, <2>2 DEF Health, Hurt
  <1>3. CASE p \notin Players
    BY <1>3 DEF Health, Hurt
  <1>4. QED
    BY <1>2, <1>3

LEMMA Destroying ==
    ASSUME tick \in Nat, NEW w \in State, NEW i \in DOMAIN w.list
    PROVE  LET z == Destroy(w, i)
           IN  /\ z \in State /\ z.hp = w.hp /\ z.moved = w.moved
               /\ z.list = [w.list EXCEPT ![i] = Marked(w.list[i])]
               /\ z.ended = Put(w.ended, w.list[i].id, tick + 1)
  <1> DEFINE shots == [w.list EXCEPT ![i] = Marked(w.list[i])]
             book == Put(w.ended, w.list[i].id, tick + 1)
             z == Destroy(w, i)
  <1>1. w.list \in Seq(Shot) /\ w.ended \in Book /\ w.list[i] \in Shot
    BY DEF State
  <1>2. w.list[i].id \in 1..MaxShots /\ Marked(w.list[i]) \in Shot
    BY <1>1 DEF Shot, Marked
  <1>3. shots \in Seq(Shot)
    BY <1>1, <1>2, ExceptSeq
  <1>4. book \in Book
    <2>1. tick + 1 \in Nat
      OBVIOUS
    <2>2. QED
      BY <1>1, <1>2, <2>1, BookKept
  <1>5. z = [w EXCEPT !.list = shots, !.ended = book]
    BY DEF Destroy, Marked, State
  <1> HIDE DEF z, shots, book
  <1>6. /\ z \in State /\ z.hp = w.hp /\ z.moved = w.moved /\ z.list = shots /\ z.ended = book
    BY <1>3, <1>4, <1>5 DEF State
  <1>7. QED
    BY <1>6 DEF z, shots, book

\* The shot flies on in w, or it is destroyed.
LEMMA Hitting ==
    ASSUME tick \in Nat, NEW w \in State, NEW i \in DOMAIN w.list, NEW near
    PROVE  LET z == Hit(w, i, near)
           IN  /\ z \in State /\ z.moved = w.moved
               /\ \/ z.list = w.list /\ z.ended = w.ended
                  \/ /\ z.list = [w.list EXCEPT ![i] = Marked(w.list[i])]
                     /\ z.ended = Put(w.ended, w.list[i].id, tick + 1)
  <1> DEFINE targets == {p \in near : CanDamage(w.list[i].owner, p, w.hp)}
             health == Hurt(w.hp, Smallest(targets), Damage[w.list[i].kind])
             hurt == [w EXCEPT !.hp = health]
             z == Hit(w, i, near)
  <1>1. z = IF targets = {} THEN w ELSE Destroy(hurt, i)
    BY DEF Hit
  <1>2. health \in Health
    <2>1. w.hp \in Health /\ w.list \in Seq(Shot)
      BY DEF State
    <2>2. w.list[i] \in Shot
      BY <2>1
    <2>3. w.list[i].kind \in Kinds
      BY <2>2 DEF Shot
    <2>4. Damage[w.list[i].kind] \in Nat
      BY <2>3, ProjectilesAssumption
    <2>5. QED
      BY <2>1, <2>4, Hurting
  <1> HIDE DEF health, targets, z
  <1>3. /\ hurt \in State /\ hurt.list = w.list /\ hurt.moved = w.moved /\ hurt.ended = w.ended
    BY <1>2 DEF State
  <1> HIDE DEF hurt
  <1>4. CASE targets = {}
    BY <1>1, <1>4 DEF z
  <1>5. CASE targets # {}
    <2>1. z = Destroy(hurt, i)
      BY <1>1, <1>5
    <2>2. /\ z \in State /\ z.moved = hurt.moved
          /\ z.list = [hurt.list EXCEPT ![i] = Marked(hurt.list[i])]
          /\ z.ended = Put(hurt.ended, hurt.list[i].id, tick + 1)
      BY <1>3, <2>1, Destroying
    <2>3. QED
      BY <1>3, <2>2 DEF z
  <1>6. QED
    BY <1>4, <1>5

LEMMA Moving ==
    ASSUME tick \in Nat, NEW w \in State, NEW i \in DOMAIN w.list, ~w.list[i].destroyed,
           w.list[i].id \in DOMAIN w.moved, NEW meets,
           w.moved[w.list[i].id] <= Reach[w.list[i].kind]
    PROVE  LET z == FlyOne(w, i, meets)
               shot == w.list[i]
               distance == w.moved[shot.id]
           IN  /\ z \in State
               /\ \/ /\ z.list = [w.list EXCEPT ![i] = Marked(shot)]
                     /\ z.moved = Without(w.moved, shot.id)
                     /\ z.ended = Put(w.ended, shot.id, tick + 1)
                  \/ /\ ~ReachesRange(shot, distance)
                     /\ z.list = w.list /\ z.ended = w.ended
                     /\ z.moved = [w.moved EXCEPT ![shot.id] = distance + Speed[shot.kind]]
  <1> DEFINE shot == w.list[i]
             distance == w.moved[shot.id]
             far == [w.moved EXCEPT ![shot.id] = distance + StepLength(shot, distance)]
             flown == [w EXCEPT !.moved = far]
             met == IF meets.wall THEN Destroy(flown, i) ELSE Hit(flown, i, meets.near)
             over == IF ~met.list[i].destroyed /\ ReachesRange(shot, distance) THEN Destroy(met, i) ELSE met
             z == FlyOne(w, i, meets)
  <1>1. /\ w.list \in Seq(Shot) /\ w.moved \in Book /\ w.ended \in Book /\ w.hp \in Health
        /\ shot \in Shot /\ shot.id \in 1..MaxShots /\ shot.kind \in Kinds
    <2>1. w.list \in Seq(Shot) /\ w.moved \in Book /\ w.ended \in Book /\ w.hp \in Health
      BY DEF State
    <2>2. shot \in Shot
      BY <2>1
    <2> HIDE DEF shot
    <2>3. QED
      BY <2>1, <2>2 DEF Shot
  <1>2. Reach[shot.kind] \in Nat /\ Speed[shot.kind] \in Nat /\ distance \in Nat
    BY <1>1, BookShape, ProjectilesAssumption
  <1>3. distance + StepLength(shot, distance) \in Nat
    BY <1>2 DEF StepLength
  <1>4. far \in Book
    BY <1>1, <1>3, BookKept
  <1>5. flown \in State /\ flown.list = w.list /\ flown.ended = w.ended /\ flown.moved = far
    <2> HIDE DEF far
    <2>1. QED
      BY <1>4 DEF State
  <1>6. z = IF over.list[i].destroyed THEN [over EXCEPT !.moved = Without(over.moved, shot.id)] ELSE over
    BY DEF FlyOne, State
  <1>7. [w.list EXCEPT ![i] = Marked(shot)][i].destroyed /\ ~shot.destroyed
    BY <1>1 DEF Marked, Shot
  <1> DEFINE shots == [w.list EXCEPT ![i] = Marked(shot)]
             book == Put(w.ended, shot.id, tick + 1)
  <1>8. Without(far, shot.id) = Without(w.moved, shot.id)
    BY <1>1, BookShape DEF Without
  <1>9. ~ReachesRange(shot, distance) => far = [w.moved EXCEPT ![shot.id] = distance + Speed[shot.kind]]
    BY DEF StepLength
  <1> HIDE DEF z, flown, far
  <1>10. /\ met \in State /\ met.moved = far
         /\ \/ met.list = w.list /\ met.ended = w.ended
            \/ met.list = shots /\ met.ended = book
    <2>1. i \in DOMAIN flown.list
      BY <1>5
    <2>2. CASE meets.wall
      <3>1. met = Destroy(flown, i)
        BY <2>2
      <3> HIDE DEF met
      <3>2. QED
        BY <1>5, <2>1, <3>1, Destroying
    <2>3. CASE ~meets.wall
      <3>1. met = Hit(flown, i, meets.near)
        BY <2>3
      <3> HIDE DEF met
      <3>2. QED
        BY <1>5, <2>1, <3>1, Hitting
    <2>4. QED
      BY <2>2, <2>3
  <1> HIDE DEF met, shots, book
  <1>11. /\ over \in State /\ over.moved = far
         /\ \/ over.list = w.list /\ over.ended = w.ended /\ ~ReachesRange(shot, distance)
            \/ over.list = shots /\ over.ended = book
    <2>1. shots[i].destroyed /\ ~w.list[i].destroyed
      BY <1>7 DEF shots
    <2>2. CASE ~met.list[i].destroyed /\ ReachesRange(shot, distance)
      <3>1. over = Destroy(met, i) /\ met.list = w.list /\ met.ended = w.ended
        BY <1>10, <2>1, <2>2
      <3> HIDE DEF over
      <3>2. QED
        BY <1>10, <3>1, Destroying DEF shots, book
    <2>3. CASE ~(~met.list[i].destroyed /\ ReachesRange(shot, distance))
      <3>1. over = met
        BY <2>3
      <3> HIDE DEF over
      <3>2. QED
        BY <1>10, <2>1, <2>3, <3>1
    <2>4. QED
      BY <2>2, <2>3
  <1> HIDE DEF over
  <1>12. CASE over.list = shots /\ over.ended = book
    <2>1. z = [over EXCEPT !.moved = Without(over.moved, shot.id)]
      BY <1>6, <1>7, <1>12 DEF shots
    <2>2. Without(over.moved, shot.id) = Without(w.moved, shot.id) /\ Without(w.moved, shot.id) \in Book
      BY <1>1, <1>8, <1>11, BookKept
    <2>3. z \in State /\ z.list = over.list /\ z.ended = over.ended /\ z.moved = Without(w.moved, shot.id)
      BY <1>11, <2>1, <2>2 DEF State
    <2>4. QED
      BY <1>12, <2>3 DEF shots, book, z
  <1>13. CASE over.list = w.list /\ over.ended = w.ended /\ ~ReachesRange(shot, distance)
    <2>1. z = over
      BY <1>6, <1>7, <1>13
    <2>2. QED
      BY <1>9, <1>11, <1>13, <2>1 DEF z
  <1>14. QED
    BY <1>11, <1>12, <1>13

-----------------------------------------------------------------------------
(* All shots move.                                                           *)

Flight(shot) == CeilDiv(Reach[shot.kind], Speed[shot.kind])
Sorted(shots) ==
    \A i, j \in DOMAIN shots : i < j => shots[i].id < shots[j].id /\ shots[i].born <= shots[j].born
FlyingIds(shots) == {shots[j].id : j \in {i \in DOMAIN shots : ~shots[i].destroyed}}
GoneIds(shots) == {shots[j].id : j \in {i \in DOMAIN shots : shots[i].destroyed}}

\* The two books about a shot of the list, after the snapshot of tick t
ShotFits(shot, m, e, t) ==
    IF shot.destroyed THEN e[shot.id] \in (shot.born + 1)..(shot.born + Flight(shot)) /\ e[shot.id] <= t
    ELSE m[shot.id] = (t - shot.born) * Speed[shot.kind] /\ t - shot.born < Flight(shot)

\* What holds of a list and its books before and after every phase of the tick
Books(l, m, e, last, t) ==
    /\ l \in Seq(Shot) /\ m \in Book /\ e \in Book
    /\ Sorted(l) /\ \A i \in DOMAIN l : l[i].id <= last /\ l[i].born <= t
    /\ DOMAIN m = FlyingIds(l) /\ DOMAIN e = GoneIds(l)
    /\ \A i \in DOMAIN l : ShotFits(l[i], m, e, t)

BooksInv ==
    /\ tick \in Nat /\ seq \in 0..MaxShots /\ hp \in Health
    /\ Books(list, moved, ended, seq, tick)

\* In w shot j of the list has moved if it is one of 1..n, else it is where it was.
ShotFlown(w, n, j) ==
    LET shot == list[j]
    IN  /\ w.list[j] \in {shot, Marked(shot)}
        /\ shot.destroyed => w.ended[shot.id] = ended[shot.id]
        /\ ~shot.destroyed /\ j <= n => ShotFits(w.list[j], w.moved, w.ended, tick + 1)
        /\ ~shot.destroyed /\ j <= n /\ w.list[j].destroyed => w.ended[shot.id] = tick + 1
        /\ ~shot.destroyed /\ j > n => w.list[j] = shot /\ w.moved[shot.id] = moved[shot.id]
FlownFits(w, n) ==
    /\ w \in State /\ DOMAIN w.list = DOMAIN list
    /\ DOMAIN w.moved = FlyingIds(w.list) /\ DOMAIN w.ended = GoneIds(w.list)
    /\ \A j \in DOMAIN list : ShotFlown(w, n, j)

LEMMA Division ==
    ASSUME NEW r \in Nat \ {0}, NEW s \in Nat \ {0}, NEW d \in Nat
    PROVE  /\ CeilDiv(r, s) \in Nat \ {0}
           /\ (d + 1) * s = d * s + s /\ d * s \in Nat
           /\ r - d * s > s => d + 1 < CeilDiv(r, s)
           /\ d < CeilDiv(r, s) => d * s < r
  <1> DEFINE a == r + s - 1
             q == a \div s
  <1>1. a \in Nat /\ a >= s
    OBVIOUS
  <1>2. q \in Nat /\ q * s <= a /\ a < (q + 1) * s
    BY <1>1
  <1>3. (d + 1) * s = d * s + s /\ (q + 1) * s = q * s + s /\ d * s \in Nat /\ q * s \in Nat
    BY <1>2
  <1>4. \A m, n \in Nat : m <= n => m * s <= n * s
    OBVIOUS
  <1>5. CeilDiv(r, s) = q
    BY DEF CeilDiv
  <1> HIDE DEF q
  <1>6. q # 0
    BY <1>1, <1>2, <1>3
  <1>7. ASSUME r - d * s > s PROVE d + 1 < q
    <2>1. SUFFICES ASSUME q <= d + 1 PROVE FALSE
      BY <1>2
    <2>2. q * s <= (d + 1) * s
      BY <1>2, <1>4, <2>1
    <2>3. QED
      BY <1>2, <1>3, <1>7, <2>2
  <1>8. ASSUME d < q PROVE d * s < r
    <2>1. (d + 1) * s <= q * s
      BY <1>2, <1>4, <1>8
    <2>2. QED
      BY <1>2, <1>3, <2>1
  <1>9. QED
    BY <1>2, <1>3, <1>5, <1>6, <1>7, <1>8

LEMMA Distinct ==
    ASSUME NEW shots \in Seq(Shot), Sorted(shots), NEW i \in DOMAIN shots, NEW j \in DOMAIN shots,
           shots[i].id = shots[j].id
    PROVE  i = j
  <1>1. shots[i] \in Shot /\ i \in Nat /\ j \in Nat
    OBVIOUS
  <1>2. shots[i].id \in Nat
    BY <1>1 DEF Shot
  <1>3. QED
    BY <1>1, <1>2 DEF Sorted

\* What is true of a shot of the list, whoever it belongs to
LEMMA ShotFacts ==
    ASSUME BooksInv, NEW j \in DOMAIN list
    PROVE  LET shot == list[j]
           IN  /\ shot \in Shot /\ shot.id \in 1..MaxShots /\ shot.born \in Nat /\ shot.destroyed \in BOOLEAN
               /\ Marked(shot) \in Shot /\ Marked(shot).destroyed
               /\ Marked(shot).id = shot.id /\ Marked(shot).born = shot.born
               /\ Marked(shot).kind = shot.kind /\ Flight(Marked(shot)) = Flight(shot)
               /\ shot.destroyed => Marked(shot) = shot
               /\ Reach[shot.kind] \in Nat \ {0} /\ Speed[shot.kind] \in Nat \ {0}
               /\ Flight(shot) \in Nat \ {0}
  <1> DEFINE shot == list[j]
  <1>1. shot \in Shot
    BY DEF BooksInv, Books
  <1> HIDE DEF shot
  <1>2. /\ shot.id \in 1..MaxShots /\ shot.born \in Nat /\ shot.destroyed \in BOOLEAN /\ shot.kind \in Kinds
        /\ Marked(shot) \in Shot /\ Marked(shot).destroyed
        /\ Marked(shot).id = shot.id /\ Marked(shot).born = shot.born
        /\ Marked(shot).kind = shot.kind
        /\ shot.destroyed => Marked(shot) = shot
    BY <1>1 DEF Shot, Marked
  <1>3. Reach[shot.kind] \in Nat \ {0} /\ Speed[shot.kind] \in Nat \ {0}
    BY <1>2, ProjectilesAssumption
  <1>4. Flight(shot) \in Nat \ {0}
    BY <1>3, Division DEF Flight
  <1>5. QED
    BY <1>1, <1>2, <1>3, <1>4 DEF shot, Flight

\* A shot that moves changes nothing for the others.
LEMMA OthersFlown ==
    ASSUME BooksInv, NEW i \in DOMAIN list, NEW w, FlownFits(w, i - 1), NEW z,
           NEW j \in DOMAIN list, j # i, z.list[j] = w.list[j],
           \A id \in DOMAIN w.ended : id # list[i].id => z.ended[id] = w.ended[id],
           \A id \in DOMAIN w.moved : id # list[i].id => z.moved[id] = w.moved[id]
    PROVE  ShotFlown(z, i, j)
  <1> DEFINE shot == list[j]
  <1>1. /\ list \in Seq(Shot) /\ Len(list) \in Nat /\ DOMAIN list = 1..Len(list) /\ Sorted(list)
        /\ DOMAIN w.list = DOMAIN list
        /\ DOMAIN w.moved = FlyingIds(w.list) /\ DOMAIN w.ended = GoneIds(w.list)
        /\ ShotFlown(w, i - 1, j)
    BY DEF BooksInv, Books, FlownFits
  <1>2. shot.id # list[i].id
    BY <1>1, Distinct
  <1>3. /\ Marked(shot).id = shot.id /\ Marked(shot).destroyed
        /\ Marked(shot).born = shot.born /\ Marked(shot).kind = shot.kind
    BY ShotFacts
  <1> HIDE DEF shot
  <1>4. w.list[j] \in {shot, Marked(shot)}
    BY <1>1 DEF ShotFlown, shot
  <1>5. w.list[j].id = shot.id
    BY <1>3, <1>4
  <1>6. /\ w.list[j].destroyed => shot.id \in DOMAIN w.ended /\ z.ended[shot.id] = w.ended[shot.id]
        /\ ~w.list[j].destroyed => shot.id \in DOMAIN w.moved /\ z.moved[shot.id] = w.moved[shot.id]
    <2>1. w.list[j].destroyed => shot.id \in GoneIds(w.list)
      BY <1>1, <1>5 DEF GoneIds
    <2>2. ~w.list[j].destroyed => shot.id \in FlyingIds(w.list)
      BY <1>1, <1>5 DEF FlyingIds
    <2>3. QED
      BY <1>1, <1>2, <2>1, <2>2
  <1>7. shot.destroyed => w.list[j].destroyed
    BY <1>3, <1>4
  <1>8. ShotFits(w.list[j], w.moved, w.ended, tick + 1) => ShotFits(z.list[j], z.moved, z.ended, tick + 1)
    BY <1>5, <1>6 DEF ShotFits
  <1>9. (j <= i => j <= i - 1) /\ (j > i => j > i - 1)
    BY <1>1
  <1>10. /\ shot.destroyed => z.ended[shot.id] = ended[shot.id]
         /\ ~shot.destroyed /\ j <= i => ShotFits(z.list[j], z.moved, z.ended, tick + 1)
         /\ ~shot.destroyed /\ j <= i /\ z.list[j].destroyed => z.ended[shot.id] = tick + 1
         /\ ~shot.destroyed /\ j > i => z.list[j] = shot /\ z.moved[shot.id] = moved[shot.id]
    BY <1>1, <1>6, <1>7, <1>8, <1>9 DEF ShotFlown, shot
  <1>11. QED
    BY <1>4, <1>10 DEF ShotFlown, shot

LEMMA FlyFits ==
    ASSUME BooksInv, NEW meets, NEW i \in DOMAIN list, NEW w, FlownFits(w, i - 1)
    PROVE  FlownFits(FlyNext(meets, i, w), i)
  <1> DEFINE z == FlyNext(meets, i, w)
             shot == list[i]
  <1>1. /\ tick \in Nat /\ list \in Seq(Shot) /\ Len(list) \in Nat /\ DOMAIN list = 1..Len(list)
        /\ Sorted(list) /\ \A j \in DOMAIN list : ShotFits(list[j], moved, ended, tick)
        /\ \A j \in DOMAIN list : list[j].born <= tick
    BY DEF BooksInv, Books
  <1>2. /\ w \in State /\ DOMAIN w.list = DOMAIN list
        /\ DOMAIN w.moved = FlyingIds(w.list) /\ DOMAIN w.ended = GoneIds(w.list)
        /\ \A j \in DOMAIN list : ShotFlown(w, i - 1, j)
    BY DEF FlownFits
  <1>3. w.list \in Seq(Shot) /\ w.moved \in Book /\ w.ended \in Book
    BY <1>2 DEF State
  <1>4. CASE i \notin Flying
    <2>1. z = w /\ shot.destroyed
      BY <1>4 DEF FlyNext, Flying
    <2>2. ShotFlown(z, i, i)
      <3>1. ShotFlown(w, i - 1, i)
        BY DEF FlownFits
      <3>2. QED
        BY <2>1, <3>1 DEF ShotFlown
    <2> HIDE DEF z
    <2>3. ASSUME NEW j \in DOMAIN list, j # i PROVE ShotFlown(z, i, j)
      BY <2>1, <2>3, OthersFlown
    <2>4. QED
      BY <1>2, <2>1, <2>2, <2>3 DEF FlownFits, z
  <1>5. CASE i \in Flying
    <2> DEFINE distance == w.moved[shot.id]
               d == tick - shot.born
               s == Speed[shot.kind]
               r == Reach[shot.kind]
    <2>1. ~shot.destroyed /\ w.list[i] = shot /\ w.moved[shot.id] = moved[shot.id] /\ shot.id \in DOMAIN w.moved
      <3>1. ~shot.destroyed /\ i > i - 1
        BY <1>1, <1>5 DEF Flying
      <3>2. w.list[i] = shot /\ w.moved[shot.id] = moved[shot.id]
        BY <1>2, <3>1 DEF ShotFlown
      <3>3. shot.id \in FlyingIds(w.list)
        BY <1>2, <3>1, <3>2 DEF FlyingIds
      <3>4. QED
        BY <1>2, <3>1, <3>2, <3>3
    <2>2. /\ shot \in Shot /\ shot.id \in 1..MaxShots /\ shot.born \in Nat
          /\ r \in Nat \ {0} /\ s \in Nat \ {0} /\ Flight(shot) \in Nat \ {0}
      BY ShotFacts
    <2>3. d \in Nat /\ distance = d * s /\ d < Flight(shot)
      BY <1>1, <2>1, <2>2 DEF ShotFits
    <2> HIDE DEF d, s, r, distance
    <2>4. /\ distance \in Nat /\ distance <= r /\ distance + s = (d + 1) * s
          /\ r - distance > s => d + 1 < Flight(shot)
      <3>1. Flight(shot) = CeilDiv(r, s)
        BY DEF Flight, r, s
      <3>2. /\ (d + 1) * s = d * s + s /\ d * s \in Nat
            /\ r - d * s > s => d + 1 < CeilDiv(r, s)
            /\ d < CeilDiv(r, s) => d * s < r
        BY <2>2, <2>3, Division
      <3>3. QED
        BY <2>2, <2>3, <3>1, <3>2
    <2>5. ReachesRange(shot, distance) <=> ~(r - distance > s)
      BY <2>2, <2>4 DEF ReachesRange, r, s
    <2>6. z = FlyOne(w, i, meets[i])
      BY <1>5 DEF FlyNext
    <2> HIDE DEF z, shot
    <2>7. /\ z \in State
          /\ \/ /\ z.list = [w.list EXCEPT ![i] = Marked(shot)]
                /\ z.moved = Without(w.moved, shot.id)
                /\ z.ended = Put(w.ended, shot.id, tick + 1)
             \/ /\ ~ReachesRange(shot, distance)
                /\ z.list = w.list /\ z.ended = w.ended
                /\ z.moved = [w.moved EXCEPT ![shot.id] = distance + s]
      <3>1. /\ i \in DOMAIN w.list /\ ~w.list[i].destroyed /\ w.list[i].id \in DOMAIN w.moved
            /\ w.moved[w.list[i].id] <= Reach[w.list[i].kind]
        BY <1>2, <2>1, <2>4 DEF r, distance, shot
      <3>2. LET y == FlyOne(w, i, meets[i])
                sh == w.list[i]
                dist == w.moved[sh.id]
            IN  /\ y \in State
                /\ \/ /\ y.list = [w.list EXCEPT ![i] = Marked(sh)]
                      /\ y.moved = Without(w.moved, sh.id)
                      /\ y.ended = Put(w.ended, sh.id, tick + 1)
                   \/ /\ ~ReachesRange(sh, dist)
                      /\ y.list = w.list /\ y.ended = w.ended
                      /\ y.moved = [w.moved EXCEPT ![sh.id] = dist + Speed[sh.kind]]
        <4>1. tick \in Nat /\ w \in State
          BY <1>1, <1>2
        <4>2. QED
          BY <3>1, <4>1, Moving
      <3>3. w.list[i] = shot /\ w.moved[shot.id] = distance /\ Speed[shot.kind] = s
        BY <2>1 DEF s, distance
      <3> DEFINE P(y) ==
                    /\ y \in State
                    /\ \/ /\ y.list = [w.list EXCEPT ![i] = Marked(shot)]
                          /\ y.moved = Without(w.moved, shot.id)
                          /\ y.ended = Put(w.ended, shot.id, tick + 1)
                       \/ /\ ~ReachesRange(shot, distance)
                          /\ y.list = w.list /\ y.ended = w.ended
                          /\ y.moved = [w.moved EXCEPT ![shot.id] = distance + s]
      <3>4. P(FlyOne(w, i, meets[i]))
        BY <3>2, <3>3, Zenon
      <3> HIDE DEF P
      <3>5. P(z)
        BY <2>6, <3>4
      <3>6. QED
        BY <3>5 DEF P
    <2>8. (tick + 1) - shot.born = d + 1
      <3>1. tick \in Nat /\ shot.born \in Nat
        BY <1>1, <2>2
      <3>2. QED
        BY <3>1 DEF d
    <2>9. \A j \in DOMAIN list : j # i => list[j].id # shot.id
      BY <1>1, Distinct DEF shot
    <2>10. i <= i /\ ~(i > i)
      BY <1>1
    <2>11. \A j \in DOMAIN list : w.list[j].id = list[j].id
      BY <1>2, ShotFacts DEF ShotFlown
    <2>12. ASSUME z.list = [w.list EXCEPT ![i] = Marked(shot)],
                  z.moved = Without(w.moved, shot.id),
                  z.ended = Put(w.ended, shot.id, tick + 1)
           PROVE  FlownFits(z, i)
      <3>1. /\ Marked(shot).destroyed /\ Marked(shot).id = shot.id /\ Marked(shot).born = shot.born
            /\ Flight(Marked(shot)) = Flight(shot)
        BY ShotFacts DEF shot
      <3>2. /\ DOMAIN z.list = DOMAIN list /\ z.list[i] = Marked(shot)
            /\ \A j \in DOMAIN list : j # i => z.list[j] = w.list[j]
        BY <1>2, <1>3, <2>12
      <3>3. DOMAIN z.moved = FlyingIds(z.list)
        <4>1. DOMAIN z.moved = FlyingIds(w.list) \ {shot.id}
          BY <1>2, <2>12 DEF Without
        <4>2. FlyingIds(z.list) = FlyingIds(w.list) \ {shot.id}
          BY <1>2, <2>1, <2>9, <2>11, <3>1, <3>2 DEF FlyingIds
        <4>3. QED
          BY <4>1, <4>2
      <3>4. DOMAIN z.ended = GoneIds(z.list)
        <4>1. DOMAIN z.ended = GoneIds(w.list) \cup {shot.id}
          BY <1>2, <2>12 DEF Put
        <4>2. GoneIds(z.list) = GoneIds(w.list) \cup {shot.id}
          BY <1>2, <2>1, <2>9, <2>11, <3>1, <3>2 DEF GoneIds
        <4>3. QED
          BY <4>1, <4>2
      <3>5. /\ z.ended[shot.id] = tick + 1
            /\ \A id \in DOMAIN w.ended : id # shot.id => z.ended[id] = w.ended[id]
            /\ \A id \in DOMAIN w.moved : id # shot.id => z.moved[id] = w.moved[id]
        BY <2>12 DEF Put, Without
      <3>6. ShotFits(z.list[i], z.moved, z.ended, tick + 1)
        <4>1. tick + 1 \in (shot.born + 1)..(shot.born + Flight(shot)) /\ tick + 1 <= tick + 1
          BY <1>1, <2>2, <2>3 DEF d
        <4>2. QED
          BY <3>1, <3>2, <3>5, <4>1 DEF ShotFits
      <3>7. ShotFlown(z, i, i)
        BY <2>1, <2>10, <3>2, <3>5, <3>6 DEF ShotFlown, shot
      <3>8. ASSUME NEW j \in DOMAIN list, j # i PROVE ShotFlown(z, i, j)
        BY <3>2, <3>5, <3>8, OthersFlown DEF shot
      <3>9. QED
        BY <2>7, <3>2, <3>3, <3>4, <3>7, <3>8 DEF FlownFits
    <2>13. ASSUME ~ReachesRange(shot, distance), z.list = w.list, z.ended = w.ended,
                  z.moved = [w.moved EXCEPT ![shot.id] = distance + s]
           PROVE  FlownFits(z, i)
      <3>1. /\ DOMAIN z.moved = DOMAIN w.moved /\ z.moved[shot.id] = distance + s
            /\ \A id \in DOMAIN w.moved : id # shot.id => z.moved[id] = w.moved[id]
        BY <2>1, <2>13
      <3>2. ShotFits(shot, z.moved, z.ended, tick + 1)
        <4>1. z.moved[shot.id] = ((tick + 1) - shot.born) * s /\ (tick + 1) - shot.born < Flight(shot)
          BY <2>4, <2>5, <2>8, <2>13, <3>1
        <4>2. QED
          BY <2>1, <4>1 DEF ShotFits, s
      <3>3. ShotFlown(z, i, i)
        BY <2>1, <2>10, <2>13, <3>2 DEF ShotFlown, shot
      <3>4. ASSUME NEW j \in DOMAIN list, j # i PROVE ShotFlown(z, i, j)
        BY <2>13, <3>1, <3>4, OthersFlown DEF shot
      <3>5. QED
        BY <1>2, <2>7, <2>13, <3>1, <3>3, <3>4 DEF FlownFits
    <2>14. FlownFits(z, i)
      BY <2>7, <2>12, <2>13
    <2>15. QED
      BY <2>14 DEF z
  <1>6. QED
    BY <1>4, <1>5

LEMMA AllFlown ==
    ASSUME BooksInv, NEW meets
    PROVE  FlownFits(Flown(meets), Len(list))
  <1> DEFINE n == Len(list)
             S == {i \in 0..n : FlownFits(Fly(meets)[i], i)}
  <1>1. /\ n \in Nat /\ DOMAIN list = 1..n /\ list \in Seq(Shot)
        /\ hp \in Health /\ moved \in Book /\ ended \in Book
        /\ DOMAIN moved = FlyingIds(list) /\ DOMAIN ended = GoneIds(list)
    BY DEF BooksInv, Books
  <1>2. /\ Flown(meets) = Fly(meets)[n]
        /\ Fly(meets)[0] = Start
        /\ \A i \in 0..n : i # 0 => Fly(meets)[i] = FlyNext(meets, i, Fly(meets)[i - 1])
    BY <1>1, FlySteps
  <1>3. FlownFits(Start, 0)
    <2>1. Start \in State /\ Start.list = list /\ Start.moved = moved /\ Start.ended = ended
      BY <1>1 DEF Start, State
    <2>2. \A j \in DOMAIN list : j > 0 /\ ~(j <= 0)
      BY <1>1
    <2>3. \A j \in DOMAIN list : ShotFlown(Start, 0, j)
      BY <2>1, <2>2 DEF ShotFlown
    <2>4. QED
      BY <1>1, <2>1, <2>3 DEF FlownFits
  <1>4. 0 \in S
    BY <1>1, <1>2, <1>3
  <1>5. ASSUME NEW i \in 0..n, i < n, i \in S PROVE i + 1 \in S
    <2>1. i + 1 \in DOMAIN list /\ (i + 1) - 1 = i /\ i + 1 \in 0..n /\ i + 1 # 0
      BY <1>1, <1>5
    <2>2. Fly(meets)[i + 1] = FlyNext(meets, i + 1, Fly(meets)[i])
      BY <1>2, <2>1
    <2>3. FlownFits(Fly(meets)[i], i)
      BY <1>5
    <2>4. FlownFits(FlyNext(meets, i + 1, Fly(meets)[i]), i + 1)
      BY <2>1, <2>3, FlyFits
    <2>5. QED
      BY <2>1, <2>2, <2>4
  <1> HIDE DEF S
  <1>6. 0..n \subseteq S
    <2> HIDE DEF n
    <2>1. QED
      BY <1>1, <1>4, <1>5, UpTo
  <1>7. n \in S
    BY <1>1, <1>6
  <1>8. QED
    BY <1>2, <1>7 DEF S

-----------------------------------------------------------------------------
(* The shots a tick adds.                                                    *)

Doing(does) ==
    does \in [Players -> {<<"rest">>} \cup ({"melee"} \X Players) \cup ({"shoot"} \X Kinds)
                         \cup ({"both"} \X Kinds \X Kinds)]
NewShot == [owner : Players, kind : Kinds]

LEMMA FiredFits ==
    ASSUME NEW does, Doing(does), NEW p \in Players
    PROVE  Fired(p, does[p]) \in Seq(NewShot)
  <1>1. Count \in [Kinds -> Nat \ {0}]
    BY ProjectilesAssumption
  <1>2. ASSUME NEW k \in Kinds PROVE Volley(p, k) \in Seq(NewShot)
    <2>1. [owner |-> p, kind |-> k] \in NewShot /\ Count[k] \in Nat
      BY <1>1 DEF NewShot
    <2>2. QED
      BY <2>1 DEF Volley
  <1> DEFINE what == does[p]
  <1>3. /\ what[1] = "shoot" => what[2] \in Kinds
        /\ what[1] = "both" => what[2] \in Kinds /\ what[3] \in Kinds
    BY DEF Doing
  <1> HIDE DEF what
  <1>4. CASE what[1] = "shoot"
    <2>1. Fired(p, what) = Volley(p, what[2])
      BY <1>4 DEF Fired
    <2>2. QED
      BY <1>2, <1>3, <1>4, <2>1 DEF what
  <1>5. CASE what[1] = "both"
    <2>1. Fired(p, what) = Volley(p, what[2]) \o Volley(p, what[3])
      BY <1>5 DEF Fired
    <2>2. Volley(p, what[2]) \in Seq(NewShot) /\ Volley(p, what[3]) \in Seq(NewShot)
      BY <1>2, <1>3, <1>5
    <2>3. Volley(p, what[2]) \o Volley(p, what[3]) \in Seq(NewShot)
      BY <2>2
    <2>4. QED
      BY <2>1, <2>3 DEF what
  <1>6. CASE what[1] \notin {"shoot", "both"}
    <2>1. Fired(p, what) = <<>>
      BY <1>6 DEF Fired
    <2>2. QED
      BY <2>1 DEF what
  <1>7. QED
    BY <1>4, <1>5, <1>6

LEMMA EmitFits ==
    ASSUME NEW does, Doing(does)
    PROVE  Emit(does)[N] \in Seq(NewShot)
  <1> DEFINE S == {p \in 0..N : Emit(does)[p] \in Seq(NewShot)}
  <1>1. N \in Nat /\ Count \in [Kinds -> Nat \ {0}]
    BY ProjectilesAssumption
  <1>2. /\ Emit(does)[0] = <<>>
        /\ \A p \in 0..N : p # 0 => Emit(does)[p] = EmitNext(does, p, Emit(does)[p - 1])
    BY EmitSteps
  <1>3. 0 \in S
    <2>1. <<>> \in Seq(NewShot) /\ 0 \in 0..N
      BY <1>1
    <2>2. QED
      BY <1>2, <2>1
  <1>4. ASSUME NEW q \in 0..N, q < N, q \in S PROVE q + 1 \in S
    <2> DEFINE p == q + 1
               from == Emit(does)[q]
               more == Fired(p, does[p])
    <2>1. p \in Players /\ p \in 0..N /\ p # 0 /\ p - 1 = q
      BY <1>1, <1>4 DEF Players
    <2>2. from \in Seq(NewShot) /\ Emit(does)[p] = from \o more
      BY <1>2, <1>4, <2>1 DEF EmitNext
    <2>3. more \in Seq(NewShot)
      BY <2>1, FiredFits
    <2> HIDE DEF from, more
    <2>4. from \o more \in Seq(NewShot)
      BY <2>2, <2>3
    <2>5. QED
      BY <2>1, <2>2, <2>4
  <1> HIDE DEF S
  <1>5. 0..N \subseteq S /\ N \in 0..N
    BY <1>1, <1>3, <1>4, UpTo
  <1>6. QED
    BY <1>5 DEF S

LEMMA Emission ==
    ASSUME BooksInv, NEW does, Doing(does), seq + Len(Emitted(does)) <= MaxShots
    PROVE  LET shots == Emitted(does)
           IN  /\ shots \in Seq(Shot)
               /\ \A i \in DOMAIN shots :
                     shots[i].id = seq + i /\ shots[i].born = tick + 1 /\ ~shots[i].destroyed
  <1> DEFINE from == Emit(does)[N]
             shots == Emitted(does)
             Made(i) == [id |-> seq + i, born |-> tick + 1, owner |-> from[i].owner,
                         kind |-> from[i].kind, destroyed |-> FALSE]
  <1>1. from \in Seq(NewShot) /\ Len(from) \in Nat /\ DOMAIN from = 1..Len(from)
    BY EmitFits
  <1>2. shots = [i \in 1..Len(from) |-> Made(i)]
    BY <1>1, EmitSteps
  <1> HIDE DEF from, shots
  <1>3. Len(shots) = Len(from) /\ DOMAIN shots = 1..Len(from)
    BY <1>1, <1>2
  <1>4. seq \in Nat /\ tick \in Nat /\ MaxShots \in Nat /\ seq + Len(from) <= MaxShots
    BY <1>3, ProjectilesAssumption DEF BooksInv, Books, shots
  <1>5. ASSUME NEW i \in 1..Len(from) PROVE Made(i) \in Shot
    <2>1. from[i] \in NewShot /\ seq + i \in 1..MaxShots /\ tick + 1 \in Nat
      BY <1>1, <1>4
    <2>2. QED
      BY <2>1 DEF NewShot, Shot
  <1>6. shots \in Seq(Shot)
    <2> HIDE DEF Made
    <2>1. QED
      BY <1>1, <1>2, <1>5
  <1>7. \A i \in DOMAIN shots :
           shots[i].id = seq + i /\ shots[i].born = tick + 1 /\ ~shots[i].destroyed
    BY <1>2, <1>3
  <1>8. QED
    BY <1>6, <1>7 DEF shots

-----------------------------------------------------------------------------
(* The shots a snapshot keeps.                                               *)

\* kept holds, in order, those of the first n shots that stay.
KeptOf(w, shots, n, kept) ==
    /\ kept \in Seq(Shot) /\ Sorted(kept)
    /\ \A a \in DOMAIN kept : \E k \in 1..n : kept[a] = shots[k] /\ Kept(w, shots[k])
    /\ \A k \in 1..n : Kept(w, shots[k]) => \E a \in DOMAIN kept : kept[a] = shots[k]

LEMMA KeepFits ==
    ASSUME NEW w, NEW shots \in Seq(Shot), Sorted(shots), NEW n \in Nat, n + 1 \in DOMAIN shots,
           NEW kept, KeptOf(w, shots, n, kept)
    PROVE  KeptOf(w, shots, n + 1, KeepNext(w, shots, n + 1, kept))
  <1> DEFINE m == n + 1
             more == KeepNext(w, shots, m, kept)
  <1>1. /\ kept \in Seq(Shot) /\ Len(kept) \in Nat /\ DOMAIN kept = 1..Len(kept) /\ Sorted(kept)
        /\ \A a \in DOMAIN kept : \E k \in 1..n : kept[a] = shots[k] /\ Kept(w, shots[k])
        /\ \A k \in 1..n : Kept(w, shots[k]) => \E a \in DOMAIN kept : kept[a] = shots[k]
    BY DEF KeptOf
  <1>2. m \in DOMAIN shots /\ \A k \in 1..m : k \in 1..n \/ k = m
    OBVIOUS
  <1>3. \A k \in 1..n : k \in DOMAIN shots /\ k < m /\ k \in 1..m
    OBVIOUS
  <1>4. m \in 1..m /\ shots[m] \in Shot
    BY <1>2
  <1> HIDE DEF m
  <1>5. CASE Kept(w, shots[m])
    <2> DEFINE l == Len(kept)
    <2>1. more = Append(kept, shots[m])
      BY <1>5 DEF KeepNext
    <2> HIDE DEF more
    <2>2. /\ more \in Seq(Shot) /\ Len(more) = l + 1 /\ DOMAIN more = 1..(l + 1)
          /\ \A a \in 1..l : more[a] = kept[a]
          /\ more[l + 1] = shots[m]
      BY <1>1, <1>4, <2>1, AppendProperties
    <2>3. \A a \in 1..(l + 1) : a \in 1..l \/ a = l + 1
      BY <1>1
    <2>4. Sorted(more)
      <3>1. SUFFICES ASSUME NEW a \in DOMAIN more, NEW b \in DOMAIN more, a < b
                     PROVE  more[a].id < more[b].id /\ more[a].born <= more[b].born
        BY DEF Sorted
      <3>2. a \in 1..l
        BY <1>1, <2>2, <3>1
      <3>3. CASE b \in 1..l
        BY <1>1, <2>2, <3>1, <3>2, <3>3 DEF Sorted
      <3>4. CASE b = l + 1
        <4>1. PICK k \in 1..n : kept[a] = shots[k]
          BY <1>1, <3>2
        <4>2. shots[k].id < shots[m].id /\ shots[k].born <= shots[m].born
          BY <1>2, <1>3 DEF Sorted
        <4>3. QED
          BY <2>2, <3>2, <3>4, <4>1, <4>2
      <3>5. QED
        BY <2>2, <2>3, <3>3, <3>4
    <2>5. ASSUME NEW a \in DOMAIN more PROVE \E k \in 1..m : more[a] = shots[k] /\ Kept(w, shots[k])
      <3>1. CASE a \in 1..l
        BY <1>1, <1>3, <2>2, <3>1
      <3>2. CASE a = l + 1
        BY <1>4, <1>5, <2>2, <3>2
      <3>3. QED
        BY <2>2, <2>3, <3>1, <3>2
    <2>6. ASSUME NEW k \in 1..m, Kept(w, shots[k]) PROVE \E a \in DOMAIN more : more[a] = shots[k]
      <3>1. CASE k \in 1..n
        <4>1. PICK a \in DOMAIN kept : kept[a] = shots[k]
          BY <1>1, <2>6, <3>1
        <4>2. a \in DOMAIN more /\ more[a] = shots[k]
          BY <1>1, <2>2, <4>1
        <4>3. QED
          BY <4>2
      <3>2. CASE k = m
        <4>1. l + 1 \in DOMAIN more /\ more[l + 1] = shots[k]
          BY <1>1, <2>2, <3>2
        <4>2. QED
          BY <4>1
      <3>3. QED
        BY <1>2, <3>1, <3>2
    <2>7. QED
      BY <2>2, <2>4, <2>5, <2>6 DEF KeptOf, more, m
  <1>6. CASE ~Kept(w, shots[m])
    <2>1. more = kept
      BY <1>6 DEF KeepNext
    <2> HIDE DEF more
    <2>2. KeptOf(w, shots, m, kept)
      BY <1>1, <1>2, <1>3, <1>6 DEF KeptOf
    <2>3. QED
      BY <2>1, <2>2 DEF more, m
  <1>7. QED
    BY <1>5, <1>6

LEMMA Pruning ==
    ASSUME NEW w, NEW shots \in Seq(Shot), Sorted(shots)
    PROVE  KeptOf(w, shots, Len(shots), Pruned(w, shots))
  <1> DEFINE n == Len(shots)
             S == {i \in 0..n : KeptOf(w, shots, i, Keep(w, shots)[i])}
  <1>1. n \in Nat /\ DOMAIN shots = 1..n
    OBVIOUS
  <1>2. /\ Pruned(w, shots) = Keep(w, shots)[n]
        /\ Keep(w, shots)[0] = <<>>
        /\ \A i \in 0..n : i # 0 => Keep(w, shots)[i] = KeepNext(w, shots, i, Keep(w, shots)[i - 1])
    BY <1>1, KeepSteps
  <1>3. 0 \in S
    <2>1. KeptOf(w, shots, 0, <<>>)
      BY DEF KeptOf, Sorted
    <2>2. QED
      BY <1>1, <1>2, <2>1
  <1>4. ASSUME NEW i \in 0..n, i < n, i \in S PROVE i + 1 \in S
    <2>1. i + 1 \in DOMAIN shots /\ (i + 1) - 1 = i /\ i + 1 \in 0..n /\ i + 1 # 0 /\ i \in Nat
      BY <1>1, <1>4
    <2>2. Keep(w, shots)[i + 1] = KeepNext(w, shots, i + 1, Keep(w, shots)[i])
      BY <1>2, <2>1
    <2>3. KeptOf(w, shots, i, Keep(w, shots)[i])
      BY <1>4
    <2>4. KeptOf(w, shots, i + 1, KeepNext(w, shots, i + 1, Keep(w, shots)[i]))
      BY <2>1, <2>3, KeepFits
    <2>5. QED
      BY <2>1, <2>2, <2>4
  <1> HIDE DEF S
  <1>5. 0..n \subseteq S
    <2> HIDE DEF n
    <2>1. QED
      BY <1>1, <1>3, <1>4, UpTo
  <1>6. n \in S
    BY <1>1, <1>5
  <1>7. QED
    BY <1>2, <1>6 DEF S

-----------------------------------------------------------------------------
(* A tick.                                                                   *)

LEMMA FlightBooks ==
    ASSUME BooksInv, NEW w, FlownFits(w, Len(list))
    PROVE  Books(w.list, w.moved, w.ended, seq, tick + 1)
  <1>1. /\ tick \in Nat /\ list \in Seq(Shot) /\ Len(list) \in Nat /\ DOMAIN list = 1..Len(list)
        /\ Sorted(list) /\ \A j \in DOMAIN list : ShotFits(list[j], moved, ended, tick)
        /\ \A j \in DOMAIN list : list[j].id <= seq /\ list[j].born <= tick
    BY DEF BooksInv, Books
  <1>2. /\ w \in State /\ DOMAIN w.list = DOMAIN list
        /\ DOMAIN w.moved = FlyingIds(w.list) /\ DOMAIN w.ended = GoneIds(w.list)
        /\ \A j \in DOMAIN list : ShotFlown(w, Len(list), j)
    BY DEF FlownFits
  <1>3. w.list \in Seq(Shot) /\ w.moved \in Book /\ w.ended \in Book
    BY <1>2 DEF State
  <1>4. ASSUME NEW j \in DOMAIN list
        PROVE  /\ w.list[j].id = list[j].id /\ w.list[j].born = list[j].born
               /\ ShotFits(w.list[j], w.moved, w.ended, tick + 1)
    <2> DEFINE shot == list[j]
    <2>1. /\ Marked(shot).id = shot.id /\ Marked(shot).destroyed /\ Marked(shot).born = shot.born
          /\ shot.destroyed => Marked(shot) = shot
          /\ shot.born \in Nat /\ Flight(shot) \in Nat
      BY ShotFacts
    <2>2. w.list[j] \in {shot, Marked(shot)} /\ j <= Len(list)
      BY <1>1, <1>2 DEF ShotFlown
    <2>3. CASE shot.destroyed
      <3>1. w.list[j] = shot /\ w.ended[shot.id] = ended[shot.id]
        BY <1>2, <2>1, <2>2, <2>3 DEF ShotFlown
      <3>2. ended[shot.id] \in (shot.born + 1)..(shot.born + Flight(shot)) /\ ended[shot.id] <= tick
        BY <1>1, <2>3 DEF ShotFits
      <3>3. ended[shot.id] <= tick + 1
        BY <1>1, <2>1, <3>2
      <3>4. QED
        BY <2>3, <3>1, <3>2, <3>3 DEF ShotFits
    <2>4. CASE ~shot.destroyed
      BY <1>2, <2>1, <2>2, <2>4 DEF ShotFlown
    <2>5. QED
      BY <2>3, <2>4
  <1>5. Sorted(w.list)
    BY <1>1, <1>2, <1>4 DEF Sorted
  <1>6. ASSUME NEW j \in DOMAIN list PROVE w.list[j].id <= seq /\ w.list[j].born <= tick + 1
    <2>1. list[j].born \in Nat
      BY ShotFacts
    <2>2. QED
      BY <1>1, <1>4, <2>1
  <1>7. QED
    BY <1>2, <1>3, <1>4, <1>5, <1>6 DEF Books

\* The new shots and their entries
Added(m, shots) ==
    [id \in DOMAIN m \cup Ids(shots) |-> IF id \in Ids(shots) THEN 0 ELSE m[id]]

LEMMA EmissionBooks ==
    ASSUME NEW t \in Nat, NEW l, NEW m, NEW e, seq \in Nat, Books(l, m, e, seq, t),
           NEW shots \in Seq(Shot),
           \A i \in DOMAIN shots : shots[i].id = seq + i /\ shots[i].born = t /\ ~shots[i].destroyed
    PROVE  Books(l \o shots, Added(m, shots), e, seq + Len(shots), t)
  <1> DEFINE all == l \o shots
             n == Len(l)
             k == Len(shots)
             more == Added(m, shots)
  <1>1. /\ l \in Seq(Shot) /\ m \in Book /\ e \in Book /\ Sorted(l)
        /\ \A i \in DOMAIN l : l[i].id <= seq /\ l[i].born <= t /\ ShotFits(l[i], m, e, t)
        /\ DOMAIN m = FlyingIds(l) /\ DOMAIN e = GoneIds(l)
    BY DEF Books
  <1>2. n \in Nat /\ k \in Nat /\ DOMAIN l = 1..n /\ DOMAIN shots = 1..k
    BY <1>1
  <1>3. /\ all \in Seq(Shot) /\ DOMAIN all = 1..(n + k)
        /\ \A i \in 1..n : i \in DOMAIN all /\ all[i] = l[i]
        /\ \A i \in 1..k : n + i \in DOMAIN all /\ all[n + i] = shots[i]
    <2>1. /\ all \in Seq(Shot) /\ Len(all) = n + k
          /\ \A i \in 1..(n + k) : all[i] = IF i <= n THEN l[i] ELSE shots[i - n]
      BY <1>1, ConcatProperties
    <2>2. DOMAIN all = 1..(n + k)
      BY <2>1
    <2> HIDE DEF all, n, k
    <2>3. \A i \in 1..n : i \in 1..(n + k) /\ i <= n
      BY <1>2
    <2>4. \A i \in 1..k : n + i \in 1..(n + k) /\ ~(n + i <= n) /\ (n + i) - n = i
      BY <1>2
    <2>5. QED
      BY <2>1, <2>2, <2>3, <2>4
  <1>4. \A a \in DOMAIN all : a \in 1..n \/ \E i \in 1..k : a = n + i
    <2> SUFFICES ASSUME NEW a \in 1..(n + k), a \notin 1..n PROVE \E i \in 1..k : a = n + i
      BY <1>3
    <2>1. a - n \in 1..k /\ a = n + (a - n)
      BY <1>2
    <2>2. QED
      BY <2>1
  <1> HIDE DEF all, n, k, more
  <1>5. \A i \in 1..n : l[i] \in Shot /\ l[i].id \in Nat /\ l[i].born \in Nat /\ l[i].id \in 1..MaxShots
    <2>1. \A i \in 1..n : l[i] \in Shot
      BY <1>1, <1>2
    <2>2. QED
      BY <2>1 DEF Shot
  <1>6. \A i \in 1..k : shots[i].id \in 1..MaxShots /\ shots[i].kind \in Kinds /\ shots[i] \in Shot
    <2>1. \A i \in 1..k : shots[i] \in Shot
      BY <1>2
    <2>2. QED
      BY <2>1 DEF Shot
  <1>7. Sorted(all)
    <2> SUFFICES ASSUME NEW a \in DOMAIN all, NEW b \in DOMAIN all, a < b
                 PROVE  all[a].id < all[b].id /\ all[a].born <= all[b].born
      BY DEF Sorted
    <2>1. CASE a \in 1..n /\ b \in 1..n
      BY <1>1, <1>2, <1>3, <2>1 DEF Sorted
    <2>2. ASSUME a \in 1..n, NEW i \in 1..k, b = n + i
          PROVE  all[a].id < all[b].id /\ all[a].born <= all[b].born
      <3>1. all[b].id = seq + i /\ all[b].born = t
        BY <1>2, <1>3, <2>2
      <3>2. all[a].id <= seq /\ all[a].born <= t /\ all[a].id \in Nat
        BY <1>1, <1>2, <1>3, <1>5, <2>2
      <3>3. QED
        BY <3>1, <3>2
    <2>3. ASSUME NEW j \in 1..k, a = n + j, NEW i \in 1..k, b = n + i
          PROVE  all[a].id < all[b].id /\ all[a].born <= all[b].born
      <3>1. all[b].id = seq + i /\ all[b].born = t /\ all[a].id = seq + j /\ all[a].born = t
        BY <1>2, <1>3, <2>3
      <3>2. QED
        BY <1>2, <2>3, <3>1
    <2>4. ASSUME NEW j \in 1..k, a = n + j PROVE b \notin 1..n
      BY <1>2, <2>4
    <2>5. QED
      BY <1>4, <2>1, <2>2, <2>3, <2>4
  <1>8. ASSUME NEW a \in DOMAIN all PROVE all[a].id <= seq + k /\ all[a].born <= t
    <2>1. CASE a \in 1..n
      <3>1. all[a].id <= seq /\ all[a].born <= t /\ all[a].id \in Nat
        BY <1>1, <1>2, <1>3, <1>5, <2>1
      <3>2. QED
        BY <1>2, <3>1
    <2>2. ASSUME NEW i \in 1..k, a = n + i PROVE all[a].id <= seq + k /\ all[a].born <= t
      <3>1. all[a].id = seq + i /\ all[a].born = t
        BY <1>2, <1>3, <2>2
      <3>2. QED
        BY <1>2, <3>1
    <2>3. QED
      BY <1>4, <2>1, <2>2
  <1>9. /\ DOMAIN more = DOMAIN m \cup Ids(shots)
        /\ \A id \in Ids(shots) : more[id] = 0
        /\ \A id \in DOMAIN m : id \notin Ids(shots) => more[id] = m[id]
    BY DEF more, Added
  <1>10. \A i \in 1..n : l[i].id \notin Ids(shots)
    <2> SUFFICES ASSUME NEW i \in 1..n, NEW j \in 1..k, l[i].id = shots[j].id PROVE FALSE
      BY <1>2 DEF Ids
    <2>1. l[i].id <= seq /\ l[i].id = seq + j
      BY <1>1, <1>2
    <2>2. QED
      BY <1>2, <2>1
  <1>11. DOMAIN more = FlyingIds(all)
    <2>1. ASSUME NEW id \in DOMAIN more PROVE id \in FlyingIds(all)
      <3>1. CASE id \in DOMAIN m
        <4>1. PICK i \in 1..n : id = l[i].id /\ ~l[i].destroyed
          BY <1>1, <1>2, <3>1 DEF FlyingIds
        <4>2. QED
          BY <1>3, <4>1 DEF FlyingIds
      <3>2. CASE id \in Ids(shots)
        <4>1. PICK i \in 1..k : id = shots[i].id /\ ~shots[i].destroyed
          BY <1>2, <3>2 DEF Ids
        <4>2. n + i \in DOMAIN all /\ all[n + i] = shots[i]
          BY <1>3
        <4>3. QED
          BY <4>1, <4>2 DEF FlyingIds
      <3>3. QED
        BY <1>9, <2>1, <3>1, <3>2
    <2>2. ASSUME NEW a \in DOMAIN all, ~all[a].destroyed PROVE all[a].id \in DOMAIN more
      <3>1. CASE a \in 1..n
        BY <1>1, <1>2, <1>3, <1>9, <2>2, <3>1 DEF FlyingIds
      <3>2. ASSUME NEW i \in 1..k, a = n + i PROVE all[a].id \in DOMAIN more
        BY <1>2, <1>3, <1>9, <3>2 DEF Ids
      <3>3. QED
        BY <1>4, <3>1, <3>2
    <2>3. QED
      BY <2>1, <2>2 DEF FlyingIds
  <1>12. DOMAIN e = GoneIds(all)
    <2>1. ASSUME NEW id \in DOMAIN e PROVE id \in GoneIds(all)
      <3>1. PICK i \in 1..n : id = l[i].id /\ l[i].destroyed
        BY <1>1, <1>2, <2>1 DEF GoneIds
      <3>2. QED
        BY <1>3, <3>1 DEF GoneIds
    <2>2. ASSUME NEW a \in DOMAIN all, all[a].destroyed PROVE all[a].id \in DOMAIN e
      <3>1. a \in 1..n
        BY <1>2, <1>3, <1>4, <2>2
      <3>2. QED
        BY <1>1, <1>2, <1>3, <2>2, <3>1 DEF GoneIds
    <2>3. QED
      BY <2>1, <2>2 DEF GoneIds
  <1>13. more \in Book
    <2>1. DOMAIN m \in SUBSET (1..MaxShots) /\ m \in [DOMAIN m -> Nat]
      BY <1>1, BookShape
    <2>2. Ids(shots) \in SUBSET (1..MaxShots)
      BY <1>2, <1>6 DEF Ids
    <2>3. DOMAIN more \in SUBSET (1..MaxShots) /\ more \in [DOMAIN more -> Nat]
      BY <2>1, <2>2 DEF more, Added
    <2>4. QED
      BY <2>3, BookShape
  <1>14. ASSUME NEW a \in DOMAIN all PROVE ShotFits(all[a], more, e, t)
    <2>1. CASE a \in 1..n
      <3>1. all[a] = l[a] /\ ShotFits(l[a], m, e, t) /\ l[a].id \notin Ids(shots)
        BY <1>1, <1>2, <1>3, <1>10, <2>1
      <3>2. ~l[a].destroyed => l[a].id \in DOMAIN m
        BY <1>1, <1>2, <2>1 DEF FlyingIds
      <3>3. ~l[a].destroyed => more[l[a].id] = m[l[a].id]
        BY <1>9, <3>1, <3>2
      <3>4. QED
        BY <3>1, <3>3 DEF ShotFits
    <2>2. ASSUME NEW i \in 1..k, a = n + i PROVE ShotFits(all[a], more, e, t)
      <3>1. all[a] = shots[i] /\ ~shots[i].destroyed /\ shots[i].born = t /\ shots[i].id \in Ids(shots)
        BY <1>2, <1>3, <2>2 DEF Ids
      <3>2. more[shots[i].id] = 0 /\ t - t = 0
        BY <1>9, <3>1
      <3> DEFINE r == Reach[shots[i].kind]
                 s == Speed[shots[i].kind]
      <3>3. r \in Nat \ {0} /\ s \in Nat \ {0}
        BY <1>6, ProjectilesAssumption
      <3>4. Flight(shots[i]) = CeilDiv(r, s)
        BY DEF Flight
      <3> HIDE DEF r, s
      <3>5. CeilDiv(r, s) \in Nat \ {0}
        BY <3>3, Division
      <3>6. 0 * s = 0
        BY <3>3
      <3>7. t - t < Flight(shots[i]) /\ 0 < Flight(shots[i])
        BY <3>2, <3>4, <3>5
      <3>8. ShotFits(shots[i], more, e, t)
        BY <3>1, <3>2, <3>6, <3>7 DEF ShotFits, s
      <3>9. QED
        BY <3>1, <3>8
    <2>3. QED
      BY <1>4, <2>1, <2>2
  <1>15. QED
    BY <1>1, <1>3, <1>7, <1>8, <1>11, <1>12, <1>13, <1>14 DEF Books, all, more, k

LEMMA PruningBooks ==
    ASSUME NEW t, NEW all, NEW m, NEW e, NEW last, Books(all, m, e, last, t),
           NEW w, NEW kept, KeptOf(w, all, Len(all), kept)
    PROVE  Books(kept, m, [id \in DOMAIN e \cap Ids(kept) |-> e[id]], last, t)
  <1> DEFINE less == [id \in DOMAIN e \cap Ids(kept) |-> e[id]]
  <1>1. /\ all \in Seq(Shot) /\ m \in Book /\ e \in Book /\ Sorted(all)
        /\ \A i \in DOMAIN all : all[i].id <= last /\ all[i].born <= t /\ ShotFits(all[i], m, e, t)
        /\ DOMAIN m = FlyingIds(all) /\ DOMAIN e = GoneIds(all)
        /\ DOMAIN all = 1..Len(all)
    BY DEF Books
  <1>2. /\ kept \in Seq(Shot) /\ Sorted(kept)
        /\ \A a \in DOMAIN kept : \E k \in DOMAIN all : kept[a] = all[k]
        /\ \A k \in DOMAIN all : ~all[k].destroyed => \E a \in DOMAIN kept : kept[a] = all[k]
    BY <1>1 DEF KeptOf, Kept
  <1>3. DOMAIN m = FlyingIds(kept)
    <2>1. ASSUME NEW a \in DOMAIN kept, ~kept[a].destroyed PROVE kept[a].id \in FlyingIds(all)
      BY <1>2, <2>1 DEF FlyingIds
    <2>2. ASSUME NEW k \in DOMAIN all, ~all[k].destroyed PROVE all[k].id \in FlyingIds(kept)
      BY <1>2, <2>2 DEF FlyingIds
    <2>3. FlyingIds(kept) = FlyingIds(all)
      BY <2>1, <2>2 DEF FlyingIds
    <2>4. QED
      BY <1>1, <2>3
  <1>4. DOMAIN less = DOMAIN e \cap Ids(kept) /\ \A id \in DOMAIN less : less[id] = e[id]
    OBVIOUS
  <1> HIDE DEF less
  <1>5. DOMAIN less = GoneIds(kept)
    <2>1. ASSUME NEW a \in DOMAIN kept, kept[a].destroyed PROVE kept[a].id \in DOMAIN less
      <3>1. kept[a].id \in GoneIds(all) /\ kept[a].id \in Ids(kept)
        BY <1>2, <2>1 DEF GoneIds, Ids
      <3>2. QED
        BY <1>1, <1>4, <3>1
    <2>2. ASSUME NEW id \in DOMAIN less PROVE id \in GoneIds(kept)
      <3>1. PICK k \in DOMAIN all : id = all[k].id /\ all[k].destroyed
        BY <1>1, <1>4, <2>2 DEF GoneIds
      <3>2. PICK a \in DOMAIN kept : id = kept[a].id
        BY <1>4, <2>2 DEF Ids
      <3>3. PICK j \in DOMAIN all : kept[a] = all[j]
        BY <1>2
      <3>4. j = k
        BY <1>1, <3>1, <3>2, <3>3, Distinct
      <3>5. QED
        BY <3>1, <3>2, <3>3, <3>4 DEF GoneIds
    <2>3. QED
      BY <2>1, <2>2 DEF GoneIds
  <1>6. less \in Book
    <2>1. DOMAIN e \in SUBSET (1..MaxShots) /\ e \in [DOMAIN e -> Nat]
      BY <1>1, BookShape
    <2>2. DOMAIN less \in SUBSET (1..MaxShots) /\ less \in [DOMAIN less -> Nat]
      BY <1>4, <2>1 DEF less
    <2>3. QED
      BY <2>2, BookShape
  <1>7. ASSUME NEW a \in DOMAIN kept
        PROVE  kept[a].id <= last /\ kept[a].born <= t /\ ShotFits(kept[a], m, less, t)
    <2>1. PICK k \in DOMAIN all : kept[a] = all[k]
      BY <1>2
    <2>2. kept[a].id <= last /\ kept[a].born <= t /\ ShotFits(kept[a], m, e, t)
      BY <1>1, <2>1
    <2>3. kept[a].destroyed => less[kept[a].id] = e[kept[a].id]
      BY <1>4, <1>5 DEF GoneIds
    <2>4. QED
      BY <2>2, <2>3 DEF ShotFits
  <1>8. QED
    BY <1>1, <1>2, <1>3, <1>5, <1>6, <1>7 DEF Books, less

LEMMA MeleeHealth ==
    ASSUME NEW health \in Health, NEW does
    PROVE  MeleeDamaged(health, does) \in Health
  <1> DEFINE Strikes(p) == Cardinality({q \in Players : does[q] = <<"melee", p>>})
  <1>1. N \in Nat /\ MeleeDamage \in Nat
    BY ProjectilesAssumption
  <1>2. IsFiniteSet(Players)
    BY <1>1, FS_Interval DEF Players
  <1>3. ASSUME NEW p \in Players PROVE Hurt(health, p, Strikes(p) * MeleeDamage)[p] \in 0..MaxHP
    <2>1. IsFiniteSet({q \in Players : does[q] = <<"melee", p>>})
      BY <1>2, FS_Subset
    <2>2. Strikes(p) \in Nat
      BY <2>1, FS_CardinalityType
    <2> HIDE DEF Strikes
    <2>3. Strikes(p) * MeleeDamage \in Nat
      BY <1>1, <2>2
    <2>4. Hurt(health, p, Strikes(p) * MeleeDamage) \in Health
      BY <2>3, Hurting
    <2>5. QED
      BY <2>4 DEF Health
  <1>4. MeleeDamaged(health, does) = [p \in Players |-> Hurt(health, p, Strikes(p) * MeleeDamage)[p]]
    BY Zenon DEF MeleeDamaged
  <1> HIDE DEF Strikes
  <1>5. QED
    BY <1>3, <1>4 DEF Health

\* What a tick does, phase by phase
Ticked(w, does) ==
    LET shots == Emitted(does)
        all == w.list \o shots
    IN  /\ FlownFits(w, Len(list)) /\ Doing(does)
        /\ all \in Seq(Shot) /\ seq + Len(shots) \in 0..MaxShots
        /\ Books(all, Added(w.moved, shots), w.ended, seq + Len(shots), tick + 1)
        /\ KeptOf(w, all, Len(all), list')
        /\ hp' = MeleeDamaged(w.hp, does)
        /\ moved' = Added(w.moved, shots)
        /\ ended' = [id \in DOMAIN w.ended \cap Ids(list') |-> w.ended[id]]
        /\ shown' = [id \in DOMAIN w.ended \cap Ids(list') |->
                         IF id \in DOMAIN shown THEN shown[id] + 1 ELSE 1]
        /\ seq' = seq + Len(shots)
        /\ tick' = tick + 1

LEMMA StepPhases ==
    ASSUME BooksInv, Step
    PROVE  \E w, does : Ticked(w, does)
  <1>1. PICK w \in MoveProjectiles : \E does \in Attacks(w) :
           LET shots == Emitted(does)
               remaining == Pruned(w, w.list \o shots)
           IN  /\ seq + Len(shots) <= MaxShots
               /\ hp' = MeleeDamaged(w.hp, does)
               /\ list' = remaining
               /\ moved' = [id \in DOMAIN w.moved \cup Ids(shots) |->
                                IF id \in Ids(shots) THEN 0 ELSE w.moved[id]]
               /\ ended' = [id \in DOMAIN w.ended \cap Ids(remaining) |-> w.ended[id]]
               /\ shown' = [id \in DOMAIN w.ended \cap Ids(remaining) |->
                                IF id \in DOMAIN shown THEN shown[id] + 1 ELSE 1]
               /\ seq' = seq + Len(shots)
    BY Zenon DEF Step
  <1>2. PICK does \in Attacks(w) :
           LET shots == Emitted(does)
               remaining == Pruned(w, w.list \o shots)
           IN  /\ seq + Len(shots) <= MaxShots
               /\ hp' = MeleeDamaged(w.hp, does)
               /\ list' = remaining
               /\ moved' = [id \in DOMAIN w.moved \cup Ids(shots) |->
                                IF id \in Ids(shots) THEN 0 ELSE w.moved[id]]
               /\ ended' = [id \in DOMAIN w.ended \cap Ids(remaining) |-> w.ended[id]]
               /\ shown' = [id \in DOMAIN w.ended \cap Ids(remaining) |->
                                IF id \in DOMAIN shown THEN shown[id] + 1 ELSE 1]
               /\ seq' = seq + Len(shots)
    BY <1>1, Zenon
  <1> DEFINE shots == Emitted(does)
             all == w.list \o shots
  <1>3. FlownFits(w, Len(list))
    BY AllFlown DEF MoveProjectiles
  <1>4. Doing(does)
    BY DEF Attacks, Doing
  <1>5. /\ seq + Len(shots) <= MaxShots /\ list' = Pruned(w, all) /\ moved' = Added(w.moved, shots)
        /\ hp' = MeleeDamaged(w.hp, does) /\ seq' = seq + Len(shots)
        /\ ended' = [id \in DOMAIN w.ended \cap Ids(list') |-> w.ended[id]]
        /\ shown' = [id \in DOMAIN w.ended \cap Ids(list') |->
                         IF id \in DOMAIN shown THEN shown[id] + 1 ELSE 1]
    BY <1>2, Zenon DEF Added
  <1>6. /\ shots \in Seq(Shot)
        /\ \A i \in DOMAIN shots :
              shots[i].id = seq + i /\ shots[i].born = tick + 1 /\ ~shots[i].destroyed
    BY <1>4, <1>5, Emission
  <1> HIDE DEF shots
  <1>7. Books(w.list, w.moved, w.ended, seq, tick + 1)
    BY <1>3, FlightBooks
  <1>8. tick + 1 \in Nat /\ seq \in Nat /\ MaxShots \in Nat /\ Len(shots) \in Nat
    BY <1>6, ProjectilesAssumption DEF BooksInv
  <1>9. Books(all, Added(w.moved, shots), w.ended, seq + Len(shots), tick + 1)
    BY <1>6, <1>7, <1>8, EmissionBooks
  <1>10. all \in Seq(Shot) /\ Sorted(all)
    BY <1>9 DEF Books
  <1> HIDE DEF all
  <1>11. KeptOf(w, all, Len(all), list')
    BY <1>5, <1>10, Pruning
  <1>12. seq + Len(shots) \in 0..MaxShots
    BY <1>5, <1>8
  <1>13. tick' = tick + 1
    BY DEF Step
  <1>14. QED
    BY <1>3, <1>4, <1>5, <1>9, <1>10, <1>11, <1>12, <1>13, Zenon DEF Ticked, all, shots

LEMMA StepBooks ==
    ASSUME BooksInv, Step
    PROVE  BooksInv'
  <1>1. PICK w, does : Ticked(w, does)
    BY StepPhases
  <1> DEFINE shots == Emitted(does)
             all == w.list \o shots
             kept == list'
             e == w.ended
  <1>2. /\ Books(all, moved', e, seq', tick') /\ KeptOf(w, all, Len(all), kept)
        /\ ended' = [id \in DOMAIN e \cap Ids(kept) |-> e[id]]
        /\ hp' = MeleeDamaged(w.hp, does) /\ seq' \in 0..MaxShots /\ tick' = tick + 1
        /\ w \in State
    BY <1>1, Zenon DEF Ticked, FlownFits
  <1> HIDE DEF all, e
  <1>3. Books(kept, moved', [id \in DOMAIN e \cap Ids(kept) |-> e[id]], seq', tick')
    BY <1>2, PruningBooks
  <1>4. Books(list', moved', ended', seq', tick')
    BY <1>2, <1>3, Zenon
  <1>5. w.hp \in Health
    BY <1>2 DEF State
  <1>6. hp' \in Health
    BY <1>2, <1>5, MeleeHealth
  <1>7. tick' \in Nat
    BY <1>2 DEF BooksInv
  <1>8. QED
    BY <1>2, <1>4, <1>6, <1>7, Zenon DEF BooksInv, Books, Sorted, FlyingIds, GoneIds, ShotFits, Flight, Health, Book

LEMMA EliminateBooks ==
    ASSUME BooksInv, Eliminate
    PROVE  BooksInv'
  <1>1. PICK ps : hp' = [p \in Players |-> IF p \in ps THEN 0 ELSE hp[p]]
    BY Zenon DEF Eliminate
  <1>2. hp' \in Health
    BY <1>1, ProjectilesAssumption DEF BooksInv, Health
  <1>3. tick' = tick /\ list' = list /\ moved' = moved /\ ended' = ended /\ seq' = seq
    BY DEF Eliminate
  <1>4. /\ Books(list', moved', ended', seq', tick')
        /\ tick' \in Nat /\ seq' \in 0..MaxShots
    BY <1>3 DEF BooksInv
  <1>5. QED
    BY <1>2, <1>4, Zenon DEF BooksInv, Books, Sorted, FlyingIds, GoneIds, ShotFits, Flight, Health, Book

LEMMA StutterBooks ==
    ASSUME BooksInv, UNCHANGED vars
    PROVE  BooksInv'
  <1>1. /\ hp' = hp /\ tick' = tick /\ list' = list /\ moved' = moved
        /\ ended' = ended /\ seq' = seq
    BY DEF vars
  <1>2. /\ Books(list', moved', ended', seq', tick')
        /\ tick' \in Nat /\ seq' \in 0..MaxShots /\ hp' \in Health
    BY <1>1 DEF BooksInv
  <1>3. QED
    BY <1>2, Zenon DEF BooksInv, Books, Sorted, FlyingIds, GoneIds, ShotFits, Flight, Health, Book

LEMMA InitBooks ==
    ASSUME Init
    PROVE  BooksInv
  <1>1. /\ tick = 0 /\ seq = 0 /\ hp = [p \in Players |-> MaxHP]
        /\ list = <<>> /\ moved = <<>> /\ ended = <<>>
    BY DEF Init
  <1>2. MaxHP \in Nat /\ MaxShots \in Nat
    BY ProjectilesAssumption
  <1>3. hp \in Health /\ tick \in Nat /\ seq \in 0..MaxShots
    BY <1>1, <1>2 DEF Health
  <1>4. /\ <<>> \in Seq(Shot) /\ DOMAIN <<>> = {} /\ Sorted(<<>>)
        /\ FlyingIds(<<>>) = {} /\ GoneIds(<<>>) = {}
    BY DEF Sorted, FlyingIds, GoneIds
  <1>5. <<>> \in Book
    <2>1. <<>> \in [{} -> Nat]
      OBVIOUS
    <2>2. QED
      BY <2>1, Zenon DEF Book
  <1>6. Books(<<>>, <<>>, <<>>, 0, 0)
    BY <1>4, <1>5 DEF Books
  <1>7. QED
    BY <1>1, <1>3, <1>6 DEF BooksInv

\* The inductive invariant: BooksAgree, and that no shot was born, nor
\* destroyed, in a snapshot that has not been made, and no id is ahead of the
\* sequence.
THEOREM BooksInvariant == Spec => []BooksInv
  <1>1. ASSUME BooksInv, [Next]_vars PROVE BooksInv'
    <2>1. CASE Step
      BY <1>1, <2>1, StepBooks
    <2>2. CASE Eliminate
      BY <1>1, <2>2, EliminateBooks
    <2>3. CASE UNCHANGED vars
      BY <1>1, <2>3, StutterBooks
    <2>4. QED
      BY <1>1, <2>1, <2>2, <2>3 DEF Next
  <1>2. QED
    BY InitBooks, <1>1, PTL DEF Spec

\* The three books kept about a shot agree at every tick: what flies has a
\* runtime entry at the distance its age gives, what was destroyed has the
\* tick it ended in, within its range, and nothing else has either.
THEOREM BooksAgreeAlways == Spec => []BooksAgree
  <1>1. ASSUME BooksInv PROVE BooksAgree
    <2>1. /\ list \in Seq(Shot) /\ Sorted(list) /\ hp \in [Players -> 0..MaxHP]
          /\ DOMAIN moved = FlyingIds(list) /\ DOMAIN ended = GoneIds(list)
          /\ \A i \in DOMAIN list : ShotFits(list[i], moved, ended, tick)
      BY <1>1 DEF BooksInv, Books, Health
    <2>2. FlyingIds(list) = {list[i].id : i \in Flying}
      BY DEF FlyingIds, Flying
    <2>3. GoneIds(list) = {list[i].id : i \in DOMAIN list \ Flying}
      BY DEF GoneIds, Flying
    <2>4. \A i, j \in DOMAIN list : i < j => list[i].id < list[j].id /\ list[i].born <= list[j].born
      BY <2>1, Zenon DEF Sorted
    <2>5. \A i \in DOMAIN list :
              LET shot == list[i]
                  flight == CeilDiv(Reach[shot.kind], Speed[shot.kind])
              IN  IF shot.destroyed
                  THEN ended[shot.id] \in (shot.born + 1)..(shot.born + flight)
                  ELSE /\ moved[shot.id] = (tick - shot.born) * Speed[shot.kind]
                       /\ tick - shot.born < flight
      BY <2>1, Zenon DEF ShotFits, Flight
    <2>6. QED
      BY <2>1, <2>2, <2>3, <2>4, <2>5, Zenon DEF BooksAgree
  <1>2. QED
    BY BooksInvariant, <1>1, PTL

-----------------------------------------------------------------------------
(* How long a destroyed shot is shown.                                       *)

\* Every destroyed shot has been shown since the tick it ended in.
ShownInv ==
    /\ BooksInv
    /\ DOMAIN shown = DOMAIN ended
    /\ \A id \in DOMAIN shown : shown[id] = (tick + 1) - ended[id] /\ shown[id] <= Retention

\* The tick a shot of the list is destroyed in, if it is after the flight
LEMMA EndedIn ==
    ASSUME ShownInv, NEW w, FlownFits(w, Len(list)), NEW j \in DOMAIN list, w.list[j].destroyed
    PROVE  LET id == list[j].id
           IN  /\ w.list[j].id = id /\ id \in DOMAIN w.ended /\ w.ended[id] \in Nat
               /\ list[j].destroyed => id \in DOMAIN shown /\ w.ended[id] = ended[id]
               /\ ~list[j].destroyed => id \notin DOMAIN shown /\ w.ended[id] = tick + 1
  <1> DEFINE shot == list[j]
             id == shot.id
  <1>1. /\ list \in Seq(Shot) /\ Len(list) \in Nat /\ DOMAIN list = 1..Len(list) /\ Sorted(list)
        /\ DOMAIN shown = GoneIds(list) /\ BooksInv
    BY DEF ShownInv, BooksInv, Books
  <1>2. /\ w \in State /\ DOMAIN w.list = DOMAIN list /\ DOMAIN w.ended = GoneIds(w.list)
        /\ ShotFlown(w, Len(list), j)
    BY DEF FlownFits
  <1>3. Marked(shot).id = id
    BY <1>1, ShotFacts
  <1>4. w.list[j].id = id
    BY <1>2, <1>3 DEF ShotFlown
  <1>5. id \in DOMAIN w.ended
    BY <1>2, <1>4 DEF GoneIds
  <1>6. w.ended[id] \in Nat
    BY <1>2, <1>5, BookShape DEF State
  <1>7. CASE shot.destroyed
    BY <1>1, <1>2, <1>4, <1>5, <1>6, <1>7 DEF GoneIds, ShotFlown
  <1>8. CASE ~shot.destroyed
    <2>1. w.ended[id] = tick + 1
      <3>1. j <= Len(list)
        BY <1>1
      <3>2. QED
        BY <1>2, <1>8, <3>1 DEF ShotFlown
    <2>2. ASSUME id \in GoneIds(list) PROVE FALSE
      <3>1. PICK k \in DOMAIN list : list[k].id = id /\ list[k].destroyed
        BY <2>2 DEF GoneIds
      <3>2. k = j
        BY <1>1, <3>1, Distinct
      <3>3. QED
        BY <1>8, <3>1, <3>2
    <2>3. QED
      BY <1>1, <1>4, <1>5, <1>6, <1>8, <2>1, <2>2
  <1>9. QED
    BY <1>7, <1>8

LEMMA StepShown ==
    ASSUME ShownInv, Step
    PROVE  /\ DOMAIN shown' = DOMAIN ended'
           /\ \A id \in DOMAIN shown' :
                 shown'[id] = (tick' + 1) - ended'[id] /\ shown'[id] <= Retention
           /\ \A i \in DOMAIN list :
                 list[i].id \notin Ids(list') => shown[list[i].id] = Retention
  <1>1. PICK w, does : Ticked(w, does)
    BY StepPhases DEF ShownInv
  <1> DEFINE shots == Emitted(does)
             all == w.list \o shots
  <1>2. /\ FlownFits(w, Len(list)) /\ all \in Seq(Shot) /\ KeptOf(w, all, Len(all), list')
        /\ Books(all, Added(w.moved, shots), w.ended, seq + Len(shots), tick + 1)
        /\ ended' = [id \in DOMAIN w.ended \cap Ids(list') |-> w.ended[id]]
        /\ shown' = [id \in DOMAIN w.ended \cap Ids(list') |->
                         IF id \in DOMAIN shown THEN shown[id] + 1 ELSE 1]
        /\ tick' = tick + 1
    BY <1>1 DEF Ticked
  <1>3. /\ tick \in Nat /\ Retention \in Nat \ {0} /\ Len(list) \in Nat /\ DOMAIN list = 1..Len(list)
        /\ list \in Seq(Shot) /\ Sorted(list)
        /\ \A id \in DOMAIN shown : shown[id] = (tick + 1) - ended[id] /\ shown[id] <= Retention
    BY ProjectilesAssumption DEF ShownInv, BooksInv, Books
  <1>4. /\ w.list \in Seq(Shot) /\ DOMAIN w.list = DOMAIN list /\ DOMAIN w.ended = GoneIds(w.list)
    BY <1>2 DEF FlownFits, State
  <1>5. \A j \in DOMAIN list : j \in 1..Len(all) /\ all[j] = w.list[j]
    <2>1. shots \in Seq(Shot)
      BY <1>1, <1>3, Emission DEF Ticked, ShownInv, BooksInv
    <2> HIDE DEF shots
    <2>2. QED
      BY <1>3, <1>4, <2>1, ConcatProperties
  <1> HIDE DEF all, shots
  <1>6. DOMAIN shown' = DOMAIN ended'
    BY <1>2
  <1>7. ASSUME NEW id \in DOMAIN shown'
        PROVE  shown'[id] = (tick' + 1) - ended'[id] /\ shown'[id] <= Retention
    <2>1. id \in DOMAIN w.ended /\ id \in Ids(list') /\ ended'[id] = w.ended[id]
      BY <1>2, <1>7
    <2>2. PICK j \in DOMAIN list : w.list[j].id = id /\ w.list[j].destroyed
      BY <1>4, <2>1 DEF GoneIds
    <2>3. /\ list[j].id = id /\ w.ended[id] \in Nat
          /\ list[j].destroyed => id \in DOMAIN shown /\ w.ended[id] = ended[id]
          /\ ~list[j].destroyed => id \notin DOMAIN shown /\ w.ended[id] = tick + 1
      BY <1>2, <2>2, EndedIn
    <2>4. shown'[id] = (tick' + 1) - ended'[id]
      <3>1. CASE list[j].destroyed
        <4>1. id \in DOMAIN shown /\ ended'[id] = ended[id] /\ ended[id] \in Nat
          BY <2>1, <2>3, <3>1
        <4>2. shown'[id] = shown[id] + 1
          BY <1>2, <2>1, <4>1
        <4>3. shown[id] = (tick + 1) - ended[id]
          BY <1>3, <4>1
        <4>4. QED
          BY <1>2, <1>3, <4>1, <4>2, <4>3
      <3>2. CASE ~list[j].destroyed
        BY <1>2, <1>3, <1>7, <2>1, <2>3, <3>2
      <3>3. QED
        BY <3>1, <3>2
    <2>5. (tick + 1) - w.ended[id] < Retention
      <3>1. PICK a \in DOMAIN list' : list'[a].id = id
        BY <2>1 DEF Ids
      <3>2. PICK k \in 1..Len(all) : list'[a] = all[k] /\ Kept(w, all[k])
        BY <1>2, <3>1 DEF KeptOf
      <3>3. all[j].id = id /\ all[j].destroyed /\ j \in DOMAIN all
        BY <1>2, <1>5, <2>2
      <3>4. Sorted(all) /\ k \in DOMAIN all
        BY <1>2 DEF Books
      <3>5. k = j
        BY <1>2, <3>1, <3>2, <3>3, <3>4, Distinct
      <3>6. QED
        BY <3>2, <3>3, <3>5 DEF Kept
    <2>6. QED
      BY <1>2, <1>3, <2>1, <2>3, <2>4, <2>5
  <1>8. ASSUME NEW i \in DOMAIN list, list[i].id \notin Ids(list')
        PROVE  shown[list[i].id] = Retention
    <2>1. all[i] = w.list[i] /\ i \in 1..Len(all)
      BY <1>5
    <2>2. w.list[i].id = list[i].id
      <3>1. Marked(list[i]).id = list[i].id
        BY ShotFacts DEF ShownInv
      <3>2. QED
        BY <1>2, <3>1 DEF FlownFits, ShotFlown
    <2>3. ~Kept(w, all[i])
      <3>1. SUFFICES ASSUME Kept(w, all[i]) PROVE FALSE
        OBVIOUS
      <3>2. PICK a \in DOMAIN list' : list'[a] = all[i]
        BY <1>2, <2>1, <3>1 DEF KeptOf
      <3>3. QED
        BY <1>8, <2>1, <2>2, <3>2 DEF Ids
    <2>4. w.list[i].destroyed /\ ~((tick + 1) - w.ended[list[i].id] < Retention)
      BY <2>1, <2>2, <2>3 DEF Kept
    <2>5. /\ w.ended[list[i].id] \in Nat
          /\ list[i].destroyed => list[i].id \in DOMAIN shown /\ w.ended[list[i].id] = ended[list[i].id]
          /\ ~list[i].destroyed => w.ended[list[i].id] = tick + 1
      BY <1>2, <2>4, EndedIn
    <2>6. list[i].destroyed
      BY <1>3, <2>4, <2>5
    <2>7. QED
      BY <1>3, <2>4, <2>5, <2>6
  <1>9. QED
    BY <1>6, <1>7, <1>8

\* What EliminatePlayers, or a stutter, leaves alone
LEMMA NothingShown ==
    ASSUME ShownInv, UNCHANGED <<tick, list, ended, shown>>, BooksInv'
    PROVE  ShownInv' /\ \A i \in DOMAIN list : list[i].id \in Ids(list')
  <1>1. ShownInv'
    BY DEF ShownInv
  <1>2. QED
    BY <1>1 DEF Ids

\* A destroyed shot is in exactly Retention snapshots, from that of the tick
\* it was destroyed in, and a shot leaves the list in no other way.
THEOREM ShownThenGoneAlways == Spec => ShownThenGone
  <1> DEFINE Shows ==
                 /\ \A i \in DOMAIN list :
                       list[i].id \notin Ids(list') => shown[list[i].id] = Retention
                 /\ \A id \in DOMAIN shown' : shown'[id] <= Retention
  <1>1. Init => ShownInv
    <2> SUFFICES ASSUME Init PROVE ShownInv
      OBVIOUS
    <2>1. BooksInv
      BY InitBooks
    <2>2. shown = <<>> /\ ended = <<>> /\ DOMAIN <<>> = {}
      BY DEF Init
    <2>3. QED
      BY <2>1, <2>2 DEF ShownInv
  <1>2. ASSUME ShownInv, [Next]_vars PROVE ShownInv' /\ Shows
    <2>1. CASE Step
      <3>1. BooksInv'
        BY <1>2, <2>1, StepBooks DEF ShownInv
      <3>2. /\ DOMAIN shown' = DOMAIN ended'
            /\ \A id \in DOMAIN shown' :
                  shown'[id] = (tick' + 1) - ended'[id] /\ shown'[id] <= Retention
            /\ \A i \in DOMAIN list :
                  list[i].id \notin Ids(list') => shown[list[i].id] = Retention
        BY <1>2, <2>1, StepShown
      <3>3. QED
        BY <3>1, <3>2 DEF ShownInv
    <2>2. CASE Eliminate \/ UNCHANGED vars
      <3>1. UNCHANGED <<tick, list, ended, shown>>
        BY <2>2 DEF Eliminate, vars
      <3>2. BooksInv'
        <4>1. BooksInv /\ UNCHANGED <<tick, list, ended, shown>>
          BY <1>2, <3>1 DEF ShownInv
        <4>2. CASE Eliminate
          BY <4>1, <4>2, EliminateBooks
        <4>3. CASE UNCHANGED vars
          BY <4>1, <4>3, StutterBooks
        <4>4. QED
          BY <2>2, <4>2, <4>3
      <3>3. ShownInv' /\ \A i \in DOMAIN list : list[i].id \in Ids(list')
        BY <1>2, <3>1, <3>2, NothingShown
      <3>4. QED
        BY <3>3 DEF ShownInv
    <2>3. QED
      BY <1>2, <2>1, <2>2 DEF Next
  <1>3. Spec => [][Shows]_vars
    BY <1>1, <1>2, PTL DEF Spec
  <1>4. QED
    BY <1>3, Zenon DEF ShownThenGone
=============================================================================
