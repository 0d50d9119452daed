------------------------ MODULE BotNavigation_proofs -------------------------
(***************************************************************************)
(* Proofs about BotNavigation and the search it rests on: on every map the *)
(* first step that A* finds is the first of a shortest way, and a bot that *)
(* follows its cache takes no other.                                       *)
(***************************************************************************)
EXTENDS BotNavigation, FiniteSetTheorems, WellFoundedInduction, TLAPS

-----------------------------------------------------------------------------
(* Induction over 0..n, from the least counterexample.                       *)

LEMMA Least ==
    ASSUME NEW S \in SUBSET Nat, S # {}
    PROVE  \E x \in S : \A y \in S : ~(y < x)
  <1> DEFINE R == {rr \in Nat \X Nat : rr[1] < rr[2]}
  <1>1. IsWellFoundedOn(R, Nat)
    BY NatLessThanWellFounded DEF OpToRel
  <1> HIDE DEF R
  <1>2. \E x \in S : \A y \in S : ~(<<y, x>> \in R)
    BY <1>1, WFMin
  <1>3. \A x, y \in Nat : <<y, x>> \in R <=> y < x
    BY DEF R
  <1>4. QED
    BY <1>2, <1>3

LEMMA UpTo ==
    ASSUME NEW n \in Nat, NEW S, 0 \in S, \A i \in 0..n : i < n /\ i \in S => i + 1 \in S
    PROVE  0..n \subseteq S
  <1>1. SUFFICES ASSUME (0..n) \ S # {} PROVE FALSE
    OBVIOUS
  <1>2. PICK x \in (0..n) \ S : \A y \in (0..n) \ S : ~(y < x)
    <2>1. (0..n) \ S \in SUBSET Nat
      OBVIOUS
    <2>2. QED
      BY <1>1, <2>1, Least
  <1>3. x # 0 /\ x - 1 \in 0..n /\ x - 1 < n /\ (x - 1) + 1 = x /\ x - 1 < x
    BY <1>2
  <1>4. x - 1 \in S
    BY <1>2, <1>3
  <1>5. QED
    BY <1>2, <1>3, <1>4

-----------------------------------------------------------------------------
(* Functions that are defined step by step along 0..n exist.                 *)

NextOf(loop, x, y, v) ==
    CASE loop = "wider" -> Wider(x, v)
      [] loop = "pop"   -> PopNext(v, x, y)
      [] loop = "back"  -> Back(x, y, v)

Unfolds(loop, x, y, start, f, n) ==
    f = [i \in 0..n |-> IF i = 0 THEN start ELSE NextOf(loop, x, y, f[i - 1])]

LEMMA Recursion ==
    ASSUME NEW loop, NEW x, NEW y, NEW start, NEW n \in Nat
    PROVE  \E f : Unfolds(loop, x, y, start, f, n)
  <1> DEFINE S == {m \in 0..n : \E f : Unfolds(loop, x, y, start, f, m)}
  <1>1. 0 \in S
    <2>1. Unfolds(loop, x, y, start, [i \in 0..0 |-> start], 0)
      BY DEF Unfolds
    <2>2. 0 \in 0..n
      OBVIOUS
    <2>3. QED
      BY <2>1, <2>2, Zenon
  <1>2. ASSUME NEW m \in 0..n, m < n, m \in S PROVE m + 1 \in S
    <2>1. PICK f : Unfolds(loop, x, y, start, f, m)
      BY <1>2
    <2> DEFINE G(v) == NextOf(loop, x, y, v)
               g == [i \in 0..(m + 1) |-> IF i = m + 1 THEN G(f[m]) ELSE f[i]]
    <2>2. f = [i \in 0..m |-> IF i = 0 THEN start ELSE G(f[i - 1])]
      BY <2>1, Zenon DEF Unfolds
    <2> HIDE DEF G
    <2>3. \A i \in 0..m : g[i] = f[i]
      OBVIOUS
    <2>4. ASSUME NEW i \in 0..(m + 1) PROVE g[i] = IF i = 0 THEN start ELSE G(g[i - 1])
      <3>1. CASE i = 0
        <4>1. f[0] = start /\ g[0] = f[0]
          BY <2>2, <2>3
        <4>2. QED
          BY <3>1, <4>1
      <3>2. CASE i = m + 1
        <4>1. g[i] = G(f[m]) /\ g[m] = f[m] /\ i - 1 = m /\ i # 0
          BY <2>3, <3>2
        <4>2. QED
          BY <3>2, <4>1
      <3>3. CASE i # 0 /\ i # m + 1
        <4>1. i \in 0..m /\ i - 1 \in 0..m
          BY <3>3
        <4>2. f[i] = G(f[i - 1])
          BY <2>2, <3>3, <4>1
        <4>3. QED
          BY <2>3, <3>3, <4>1, <4>2
      <3>4. QED
        BY <3>1, <3>2, <3>3
    <2>5. g = [i \in 0..(m + 1) |-> IF i = 0 THEN start ELSE G(g[i - 1])]
      BY <2>4
    <2> HIDE DEF g
    <2>6. Unfolds(loop, x, y, start, g, m + 1)
      BY <2>5, Zenon DEF Unfolds, G
    <2>7. m + 1 \in 0..n
      BY <1>2
    <2>8. QED
      BY <2>6, <2>7, Zenon
  <1> HIDE DEF S
  <1>3. 0..n \subseteq S
    BY <1>1, <1>2, UpTo
  <1>4. n \in S
    BY <1>3
  <1>5. QED
    BY <1>4, Zenon DEF S

\* The tiles within n steps of the goal
Within(grid, goal) ==
    CHOOSE within : within = [n \in 0..Far(grid) |->
        IF n = 0 THEN {goal} ELSE Wider(grid, within[n - 1])]
Reached(grid, goal, t) == {n \in 0..Far(grid) : t \in Within(grid, goal)[n]}

LEMMA WithinSteps ==
    ASSUME NEW grid, NEW goal, Far(grid) \in Nat
    PROVE  /\ Distances(grid, goal) =
                 [t \in grid |-> IF Reached(grid, goal, t) = {} THEN Far(grid)
                                 ELSE CHOOSE n \in Reached(grid, goal, t) :
                                         \A m \in Reached(grid, goal, t) : n <= m]
           /\ Within(grid, goal)[0] = {goal}
           /\ \A n \in 0..Far(grid) : n # 0 =>
                 Within(grid, goal)[n] = Wider(grid, Within(grid, goal)[n - 1])
  <1> DEFINE k == Far(grid)
             f == Within(grid, goal)
  <1>1. Distances(grid, goal) =
                 [t \in grid |-> IF Reached(grid, goal, t) = {} THEN k
                                 ELSE CHOOSE n \in Reached(grid, goal, t) :
                                         \A m \in Reached(grid, goal, t) : n <= m]
    BY Zenon DEF Distances, Reached, Within
  <1>2. \A h : Unfolds("wider", grid, 0, {goal}, h, k) <=>
                 h = [n \in 0..k |-> IF n = 0 THEN {goal} ELSE Wider(grid, h[n - 1])]
    BY DEF Unfolds, NextOf
  <1>3. PICK h : h = [n \in 0..k |-> IF n = 0 THEN {goal} ELSE Wider(grid, h[n - 1])]
    BY <1>2, Recursion
  <1>4. f = [n \in 0..k |-> IF n = 0 THEN {goal} ELSE Wider(grid, f[n - 1])]
    BY <1>3, Zenon DEF Within
  <1>5. 0 \in 0..k /\ k = Far(grid)
    OBVIOUS
  <1> HIDE DEF f, k
  <1>6. f[0] = {goal}
    BY <1>4, <1>5
  <1>7. ASSUME NEW n \in 0..k, n # 0 PROVE f[n] = Wider(grid, f[n - 1])
    BY <1>4, <1>7
  <1>8. QED
    BY <1>1, <1>5, <1>6, <1>7 DEF f

\* The search after n pops
Run(grid, start, goal) ==
    CHOOSE run : run = [n \in 0..Pops(grid) |->
        IF n = 0 THEN Opened(start) ELSE PopNext(run[n - 1], grid, goal)]

LEMMA RunSteps ==
    ASSUME NEW grid, NEW start, NEW goal, Pops(grid) \in Nat
    PROVE  /\ Search(grid, start, goal) = Run(grid, start, goal)[Pops(grid)]
           /\ Run(grid, start, goal)[0] = Opened(start)
           /\ \A n \in 0..Pops(grid) : n # 0 =>
                 Run(grid, start, goal)[n] = PopNext(Run(grid, start, goal)[n - 1], grid, goal)
  <1> DEFINE k == Pops(grid)
             f == Run(grid, start, goal)
  <1>1. Search(grid, start, goal) = f[k]
    BY Zenon DEF Search, Run
  <1>2. \A h : Unfolds("pop", grid, goal, Opened(start), h, k) <=>
                 h = [n \in 0..k |-> IF n = 0 THEN Opened(start) ELSE PopNext(h[n - 1], grid, goal)]
    BY DEF Unfolds, NextOf
  <1>3. PICK h : h = [n \in 0..k |-> IF n = 0 THEN Opened(start) ELSE PopNext(h[n - 1], grid, goal)]
    BY <1>2, Recursion
  <1>4. f = [n \in 0..k |-> IF n = 0 THEN Opened(start) ELSE PopNext(f[n - 1], grid, goal)]
    BY <1>3, Zenon DEF Run
  <1>5. 0 \in 0..k /\ k = Pops(grid)
    OBVIOUS
  <1> HIDE DEF f, k
  <1>6. f[0] = Opened(start)
    BY <1>4, <1>5
  <1>7. ASSUME NEW n \in 0..k, n # 0 PROVE f[n] = PopNext(f[n - 1], grid, goal)
    BY <1>4, <1>7
  <1>8. QED
    BY <1>1, <1>5, <1>6, <1>7 DEF f

\* The walk back from the goal
Walk(s, grid, start, goal) ==
    CHOOSE back : back = [n \in 0..Cardinality(grid) |->
        IF n = 0 THEN goal ELSE Back(s, start, back[n - 1])]

LEMMA WalkSteps ==
    ASSUME NEW s, NEW grid, NEW start, NEW goal, Cardinality(grid) \in Nat
    PROVE  /\ FirstStepTile(s, grid, start, goal) = Walk(s, grid, start, goal)[Cardinality(grid)]
           /\ Walk(s, grid, start, goal)[0] = goal
           /\ \A n \in 0..Cardinality(grid) : n # 0 =>
                 Walk(s, grid, start, goal)[n] = Back(s, start, Walk(s, grid, start, goal)[n - 1])
  <1> DEFINE k == Cardinality(grid)
             f == Walk(s, grid, start, goal)
  <1>1. FirstStepTile(s, grid, start, goal) = f[k]
    BY Zenon DEF FirstStepTile, Walk
  <1>2. \A h : Unfolds("back", s, start, goal, h, k) <=>
                 h = [n \in 0..k |-> IF n = 0 THEN goal ELSE Back(s, start, h[n - 1])]
    BY DEF Unfolds, NextOf
  <1>3. PICK h : h = [n \in 0..k |-> IF n = 0 THEN goal ELSE Back(s, start, h[n - 1])]
    BY <1>2, Recursion
  <1>4. f = [n \in 0..k |-> IF n = 0 THEN goal ELSE Back(s, start, f[n - 1])]
    BY <1>3, Zenon DEF Walk
  <1>5. 0 \in 0..k /\ k = Cardinality(grid)
    OBVIOUS
  <1> HIDE DEF f, k
  <1>6. f[0] = goal
    BY <1>4, <1>5
  <1>7. ASSUME NEW n \in 0..k, n # 0 PROVE f[n] = Back(s, start, f[n - 1])
    BY <1>4, <1>7
  <1>8. QED
    BY <1>1, <1>5, <1>6, <1>7 DEF f

-----------------------------------------------------------------------------
(* Tiles.                                                                    *)

Grid(g) == g \subseteq Nat \X Nat /\ IsFiniteSet(g) /\ g # {}

LEMMA Metric ==
    ASSUME NEW s \in Nat \X Nat, NEW t \in Nat \X Nat
    PROVE  /\ Manhattan(s, t) \in Nat /\ Manhattan(s, t) = Manhattan(t, s)
           /\ Manhattan(s, s) = 0
  BY DEF Manhattan, Gap

LEMMA Triangle ==
    ASSUME NEW s \in Nat \X Nat, NEW t \in Nat \X Nat, NEW u \in Nat \X Nat
    PROVE  Manhattan(s, u) <= Manhattan(s, t) + Manhattan(t, u)
  <1>1. ASSUME NEW a \in Nat, NEW b \in Nat, NEW c \in Nat
        PROVE  Gap(a, c) <= Gap(a, b) + Gap(b, c) /\ Gap(a, b) \in Nat
    BY DEF Gap
  <1>2. /\ s[1] \in Nat /\ s[2] \in Nat /\ t[1] \in Nat /\ t[2] \in Nat
        /\ u[1] \in Nat /\ u[2] \in Nat
    OBVIOUS
  <1>3. /\ Gap(s[1], u[1]) <= Gap(s[1], t[1]) + Gap(t[1], u[1])
        /\ Gap(s[2], u[2]) <= Gap(s[2], t[2]) + Gap(t[2], u[2])
        /\ Gap(s[1], u[1]) \in Nat /\ Gap(s[1], t[1]) \in Nat /\ Gap(t[1], u[1]) \in Nat
        /\ Gap(s[2], u[2]) \in Nat /\ Gap(s[2], t[2]) \in Nat /\ Gap(t[2], u[2]) \in Nat
    BY <1>1, <1>2
  <1>4. QED
    BY <1>3 DEF Manhattan

LEMMA NextTo ==
    ASSUME NEW g, Grid(g), NEW t \in g, NEW n \in Neighbors(g, t)
    PROVE  n \in g /\ t \in Neighbors(g, n) /\ Manhattan(n, t) = 1 /\ n # t
  <1>1. n \in g /\ Manhattan(n, t) = 1 /\ n \in Nat \X Nat /\ t \in Nat \X Nat
    BY DEF Neighbors, Grid
  <1>2. Manhattan(t, n) = 1 /\ n # t
    BY <1>1, Metric
  <1>3. QED
    BY <1>1, <1>2 DEF Neighbors

LEMMA FourNeighbors ==
    ASSUME NEW g, Grid(g), NEW t \in g
    PROVE  IsFiniteSet(Neighbors(g, t)) /\ Cardinality(Neighbors(g, t)) \in 0..4
  <1> DEFINE x == t[1]
             y == t[2]
             a == <<x + 1, y>>
             b == <<x, y + 1>>
             c == <<x - 1, y>>
             d == <<x, y - 1>>
             four == {a, b, c, d}
  <1>1. t \in Nat \X Nat
    BY DEF Grid
  <1>2. ASSUME NEW n \in Neighbors(g, t) PROVE n \in four
    <2>1. n \in Nat \X Nat /\ Gap(n[1], x) + Gap(n[2], y) = 1
      BY DEF Neighbors, Grid, Manhattan
    <2>2. n = <<n[1], n[2]>> /\ n[1] \in Nat /\ n[2] \in Nat /\ x \in Nat /\ y \in Nat
      BY <1>1, <2>1
    <2>3. \/ n[1] = x + 1 /\ n[2] = y
          \/ n[1] = x /\ n[2] = y + 1
          \/ n[1] = x - 1 /\ n[2] = y
          \/ n[1] = x /\ n[2] = y - 1
      BY <2>1, <2>2 DEF Gap
    <2>4. QED
      BY <2>2, <2>3
  <1> HIDE DEF a, b, c, d
  <1>3. IsFiniteSet(four) /\ Cardinality(four) \in Nat /\ Cardinality(four) <= 4
    <2>1. IsFiniteSet({a}) /\ Cardinality({a}) \in 0..1
      <3>1. IsFiniteSet({a}) /\ Cardinality({a}) = 1
        BY FS_Singleton
      <3>2. QED
        BY <3>1
    <2>2. IsFiniteSet({a, b}) /\ Cardinality({a, b}) \in 0..2
      <3>1. {a, b} = {a} \cup {b}
        OBVIOUS
      <3>2. QED
        BY <2>1, <3>1, FS_AddElement
    <2>3. IsFiniteSet({a, b, c}) /\ Cardinality({a, b, c}) \in 0..3
      <3>1. {a, b, c} = {a, b} \cup {c}
        OBVIOUS
      <3>2. QED
        BY <2>2, <3>1, FS_AddElement
    <2>4. four = {a, b, c} \cup {d}
      OBVIOUS
    <2>5. QED
      BY <2>3, <2>4, FS_AddElement
  <1>4. Neighbors(g, t) \subseteq four
    BY <1>2
  <1> HIDE DEF four
  <1>5. QED
    BY <1>3, <1>4, FS_Subset, FS_CardinalityType

-----------------------------------------------------------------------------
(* Distances.                                                                *)

Closed(g, tiles) == \A t \in tiles : Neighbors(g, t) \subseteq tiles

LEMMA Widening ==
    ASSUME NEW g, Grid(g), NEW goal \in g
    PROVE  LET W == Within(g, goal)
           IN  /\ Far(g) \in Nat \ {0} /\ W[0] = {goal}
               /\ \A n \in 0..Far(g) : W[n] \subseteq g
               /\ \A n \in 0..Far(g) : n < Far(g) =>
                     /\ W[n] \subseteq W[n + 1]
                     /\ \A t \in g : t \in W[n + 1] <=>
                           t \in W[n] \/ \E u \in W[n] : t \in Neighbors(g, u)
  <1> DEFINE W == Within(g, goal)
             S == {n \in 0..Far(g) : W[n] \subseteq g}
  <1>1. Far(g) \in Nat \ {0}
    BY FS_CardinalityType, FS_EmptySet DEF Far, Grid
  <1>2. W[0] = {goal} /\ \A n \in 0..Far(g) : n # 0 => W[n] = Wider(g, W[n - 1])
    BY <1>1, WithinSteps
  <1> HIDE DEF W
  <1>3. \A tiles : Neighbors(g, goal) \subseteq g /\ \A t \in tiles : Neighbors(g, t) \subseteq g
    BY DEF Neighbors
  <1>4. ASSUME NEW n \in 0..Far(g), n < Far(g) PROVE n + 1 \in 0..Far(g) /\ W[n + 1] = Wider(g, W[n])
    <2>1. n + 1 \in 0..Far(g) /\ n + 1 # 0 /\ (n + 1) - 1 = n
      BY <1>1, <1>4
    <2>2. QED
      BY <1>2, <2>1
  <1>5. 0 \in S
    BY <1>1, <1>2
  <1>6. ASSUME NEW n \in 0..Far(g), n < Far(g), n \in S PROVE n + 1 \in S
    BY <1>3, <1>4, <1>6 DEF Wider
  <1> HIDE DEF S
  <1>7. 0..Far(g) \subseteq S
    BY <1>1, <1>5, <1>6, UpTo
  <1>8. \A n \in 0..Far(g) : W[n] \subseteq g
    BY <1>7 DEF S
  <1>9. ASSUME NEW n \in 0..Far(g), n < Far(g)
        PROVE  /\ W[n] \subseteq W[n + 1]
               /\ \A t \in g : t \in W[n + 1] <=> t \in W[n] \/ \E u \in W[n] : t \in Neighbors(g, u)
    BY <1>4, <1>9 DEF Wider
  <1>10. QED
    BY <1>1, <1>2, <1>8, <1>9 DEF W

\* The tiles within one step less than there are tiles are all one can reach.
LEMMA Saturation ==
    ASSUME NEW g, Grid(g), NEW goal \in g
    PROVE  Closed(g, Within(g, goal)[Far(g) - 1])
  <1> DEFINE W == Within(g, goal)
             k == Far(g)
             S == {n \in 0..(k - 1) : Closed(g, W[n]) \/ Cardinality(W[n]) >= n + 1}
  <1>1. /\ k \in Nat \ {0} /\ W[0] = {goal}
        /\ \A n \in 0..k : W[n] \subseteq g
        /\ \A n \in 0..k : n < k =>
              /\ W[n] \subseteq W[n + 1]
              /\ \A t \in g : t \in W[n + 1] <=> t \in W[n] \/ \E u \in W[n] : t \in Neighbors(g, u)
    BY Widening
  <1>2. IsFiniteSet(g) /\ k = Cardinality(g)
    BY DEF Grid, Far
  <1> HIDE DEF W, k
  <1>3. \A n \in 0..k : IsFiniteSet(W[n]) /\ Cardinality(W[n]) \in Nat
    BY <1>1, <1>2, FS_Subset, FS_CardinalityType
  <1>4. 0 \in S
    <2>1. Cardinality({goal}) = 1
      <3>1. {goal} = {} \cup {goal}
        OBVIOUS
      <3>2. QED
        BY <3>1, FS_EmptySet, FS_AddElement
    <2>2. QED
      BY <1>1, <2>1
  <1>5. ASSUME NEW n \in 0..(k - 1), n < k - 1, n \in S PROVE n + 1 \in S
    <2>1. n \in 0..k /\ n < k /\ n + 1 \in 0..(k - 1) /\ n + 1 \in 0..k
      BY <1>1, <1>5
    <2>2. CASE Closed(g, W[n])
      <3>1. W[n + 1] = W[n]
        <4>1. W[n + 1] \subseteq g
          BY <1>1, <2>1
        <4>2. QED
          BY <1>1, <2>1, <2>2, <4>1 DEF Closed
      <3>2. QED
        BY <2>1, <2>2, <3>1
    <2>3. CASE ~Closed(g, W[n])
      <3>1. PICK u \in W[n], t \in g : t \in Neighbors(g, u) /\ t \notin W[n]
        BY <2>3 DEF Closed, Neighbors
      <3>2. W[n] \cup {t} \subseteq W[n + 1]
        BY <1>1, <2>1, <3>1
      <3>3. Cardinality(W[n] \cup {t}) = Cardinality(W[n]) + 1
        BY <1>3, <2>1, <3>1, FS_AddElement
      <3>4. Cardinality(W[n] \cup {t}) <= Cardinality(W[n + 1])
        BY <1>3, <2>1, <3>2, FS_Subset
      <3>5. Cardinality(W[n]) >= n + 1
        BY <1>5, <2>3
      <3>6. QED
        BY <1>3, <2>1, <3>3, <3>4, <3>5
    <2>4. QED
      BY <2>2, <2>3
  <1> HIDE DEF S
  <1>6. k - 1 \in S
    <2>1. k - 1 \in Nat /\ k - 1 \in 0..(k - 1)
      BY <1>1
    <2>2. QED
      BY <1>4, <1>5, <2>1, UpTo
  <1>7. CASE Cardinality(W[k - 1]) >= (k - 1) + 1
    <2>1. W[k - 1] \subseteq g /\ Cardinality(W[k - 1]) \in Nat
      BY <1>1, <1>3
    <2>2. Cardinality(W[k - 1]) <= Cardinality(g) /\ Cardinality(g) \in Nat
      BY <1>2, <2>1, FS_Subset, FS_CardinalityType
    <2>3. Cardinality(g) = Cardinality(W[k - 1])
      BY <1>1, <1>2, <1>7, <2>1, <2>2
    <2>4. g = W[k - 1]
      BY <1>2, <2>1, <2>3, FS_Subset
    <2>5. Closed(g, g)
      BY DEF Closed, Neighbors
    <2>6. QED
      BY <2>4, <2>5 DEF W, k
  <1>8. QED
    BY <1>6, <1>7 DEF S, W, k

LEMMA Nearest ==
    ASSUME NEW g, Grid(g), NEW goal \in g, NEW t \in g
    PROVE  LET d == Distances(g, goal)[t]
           IN  /\ d \in 0..Far(g)
               /\ \A n \in 0..Far(g) : t \in Within(g, goal)[n] => d <= n
               /\ d < Far(g) => t \in Within(g, goal)[d]
  <1> DEFINE d == Distances(g, goal)[t]
             R == Reached(g, goal, t)
  <1>1. Far(g) \in Nat \ {0}
    BY Widening
  <1>2. d = IF R = {} THEN Far(g) ELSE CHOOSE n \in R : \A m \in R : n <= m
    <2>1. Distances(g, goal) =
             [u \in g |-> IF Reached(g, goal, u) = {} THEN Far(g)
                          ELSE CHOOSE n \in Reached(g, goal, u) :
                                  \A m \in Reached(g, goal, u) : n <= m]
      BY <1>1, WithinSteps
    <2>2. QED
      BY <2>1, Zenon
  <1>3. R \in SUBSET Nat /\ R \subseteq 0..Far(g)
    BY DEF Reached
  <1>4. \A n \in 0..Far(g) : n \in R <=> t \in Within(g, goal)[n]
    BY DEF Reached
  <1> HIDE DEF R, d
  <1>5. CASE R = {}
    BY <1>1, <1>2, <1>4, <1>5 DEF d
  <1>6. CASE R # {}
    <2>1. \E n \in R : \A m \in R : ~(m < n)
      BY <1>3, <1>6, Least
    <2>2. \E n \in R : \A m \in R : n <= m
      BY <1>3, <2>1
    <2>3. d \in R /\ \A m \in R : d <= m
      BY <1>2, <1>6, <2>2
    <2>4. QED
      BY <1>3, <1>4, <2>3 DEF d
  <1>7. QED
    BY <1>5, <1>6

\* What the search needs to know of the distance d to the goal
Metre(g, goal, d) ==
    /\ \A t \in g : d[t] \in 0..Far(g) /\ (d[t] = 0 <=> t = goal)
    /\ \A t \in g : \A u \in Neighbors(g, t) : d[u] <= d[t] + 1 /\ (d[t] < Far(g) => d[u] < Far(g))
    /\ \A t \in g : d[t] # 0 /\ d[t] < Far(g) => \E u \in Neighbors(g, t) : d[u] + 1 = d[t]
    /\ \A t \in g : d[t] < Far(g) => Manhattan(t, goal) <= d[t]

LEMMA Measured ==
    ASSUME NEW g, Grid(g), NEW goal \in g
    PROVE  Metre(g, goal, Distances(g, goal)) /\ Far(g) \in Nat \ {0}
  <1> DEFINE W == Within(g, goal)
             k == Far(g)
             d == Distances(g, goal)
  <1>1. /\ k \in Nat \ {0} /\ W[0] = {goal}
        /\ \A n \in 0..k : W[n] \subseteq g
        /\ \A n \in 0..k : n < k =>
              /\ W[n] \subseteq W[n + 1]
              /\ \A t \in g : t \in W[n + 1] <=> t \in W[n] \/ \E u \in W[n] : t \in Neighbors(g, u)
    BY Widening
  <1>2. Closed(g, W[k - 1])
    BY Saturation
  <1>3. /\ \A t \in g : d[t] \in 0..k
        /\ \A t \in g : \A n \in 0..k : t \in W[n] => d[t] <= n
        /\ \A t \in g : d[t] < k => t \in W[d[t]]
    BY Nearest
  <1> HIDE DEF W, k, d
  <1>4. ASSUME NEW t \in g PROVE d[t] \in 0..k /\ (d[t] = 0 <=> t = goal)
    <2>1. 0 \in 0..k /\ 0 < k
      BY <1>1
    <2>2. goal \in W[0]
      BY <1>1
    <2>3. d[goal] <= 0
      BY <1>3, <2>1, <2>2
    <2>4. d[t] = 0 => t \in W[0]
      BY <1>3, <2>1
    <2>5. QED
      BY <1>1, <1>3, <2>3, <2>4
  <1>5. ASSUME NEW t \in g, NEW u \in Neighbors(g, t)
        PROVE  d[u] <= d[t] + 1 /\ (d[t] < k => d[u] < k)
    <2>1. u \in g
      BY DEF Neighbors
    <2>2. CASE d[t] < k
      <3>1. t \in W[d[t]] /\ d[t] \in 0..k /\ d[t] + 1 \in 0..k
        BY <1>1, <1>3, <2>2
      <3>2. u \in W[d[t] + 1]
        BY <1>1, <2>1, <2>2, <3>1
      <3>3. d[u] <= d[t] + 1
        BY <1>3, <2>1, <3>1, <3>2
      <3>4. CASE d[t] = k - 1
        <4>1. u \in W[k - 1]
          BY <1>2, <3>1, <3>4 DEF Closed
        <4>2. d[u] <= k - 1
          BY <1>1, <1>3, <2>1, <4>1
        <4>3. QED
          BY <1>1, <1>3, <2>1, <3>3, <4>2
      <3>5. QED
        BY <1>1, <1>3, <2>1, <2>2, <3>3, <3>4
    <2>3. CASE ~(d[t] < k)
      BY <1>1, <1>3, <2>1, <2>3
    <2>4. QED
      BY <2>2, <2>3
  <1>6. ASSUME NEW t \in g, d[t] # 0, d[t] < k PROVE \E u \in Neighbors(g, t) : d[u] + 1 = d[t]
    <2> DEFINE n == d[t] - 1
    <2>1. n \in 0..k /\ n < k /\ n + 1 = d[t] /\ n < d[t]
      BY <1>1, <1>3, <1>6
    <2> HIDE DEF n
    <2>2. t \in W[n + 1]
      BY <1>3, <1>6, <2>1
    <2>3. t \notin W[n]
      BY <1>1, <1>3, <2>1
    <2>4. PICK u \in W[n] : t \in Neighbors(g, u)
      BY <1>1, <2>1, <2>2, <2>3
    <2>5. u \in g /\ u \in Neighbors(g, t)
      <3>1. u \in g
        BY <1>1, <2>1, <2>4
      <3>2. QED
        BY <2>4, <3>1, NextTo
    <2>6. d[u] <= n /\ d[u] \in 0..k
      BY <1>3, <2>1, <2>4, <2>5
    <2>7. d[t] <= d[u] + 1
      BY <1>5, <2>4, <2>5
    <2>8. d[u] \in Nat /\ d[t] \in Nat
      BY <1>3, <2>5
    <2>9. d[u] + 1 = d[t]
      BY <2>1, <2>6, <2>7, <2>8
    <2>10. QED
      BY <2>5, <2>9
  <1>7. \A n \in 0..k : \A t \in W[n] : Manhattan(t, goal) <= n
    <2> DEFINE S == {n \in 0..k : \A t \in W[n] : Manhattan(t, goal) <= n}
    <2>1. goal \in Nat \X Nat /\ \A t \in g : t \in Nat \X Nat
      BY DEF Grid
    <2>2. 0 \in S
      BY <1>1, <2>1, Metric
    <2>3. ASSUME NEW n \in 0..k, n < k, n \in S PROVE n + 1 \in S
      <3>1. ASSUME NEW t \in W[n + 1] PROVE Manhattan(t, goal) <= n + 1
        <4>1. t \in g /\ n + 1 \in 0..k
          BY <1>1, <2>3
        <4>2. CASE t \in W[n]
          <5>1. Manhattan(t, goal) <= n /\ Manhattan(t, goal) \in Nat
            BY <2>1, <2>3, <4>1, <4>2, Metric
          <5>2. QED
            BY <5>1
        <4>3. CASE t \notin W[n]
          <5>1. PICK u \in W[n] : t \in Neighbors(g, u)
            BY <1>1, <2>3, <4>1, <4>3
          <5>2. u \in g /\ Manhattan(t, u) = 1 /\ Manhattan(u, goal) <= n
            BY <1>1, <2>3, <5>1 DEF Neighbors
          <5>3. Manhattan(t, goal) <= Manhattan(t, u) + Manhattan(u, goal)
            BY <2>1, <4>1, <5>2, Triangle
          <5>4. Manhattan(t, goal) \in Nat /\ Manhattan(u, goal) \in Nat
            BY <2>1, <4>1, <5>2, Metric
          <5>5. QED
            BY <5>2, <5>3, <5>4
        <4>4. QED
          BY <4>2, <4>3
      <3>2. n + 1 \in 0..k
        BY <1>1, <2>3
      <3>3. QED
        BY <3>1, <3>2
    <2> HIDE DEF S
    <2>4. 0..k \subseteq S
      BY <1>1, <2>2, <2>3, UpTo
    <2>5. QED
      BY <2>4 DEF S
  <1>8. \A t \in g : d[t] < k => Manhattan(t, goal) <= d[t]
    BY <1>3, <1>7
  <1>9. QED
    BY <1>1, <1>4, <1>5, <1>6, <1>8 DEF Metre, d, k

-----------------------------------------------------------------------------
(* The heap.                                                                 *)

Node(t, n) == [tile |-> t, g |-> n]
Nodes(g) == [tile : g, g : Nat]

LEMMA LeastOf ==
    ASSUME NEW S, S # {}, NEW f, \A o \in S : f[o] \in Nat
    PROVE  \E a \in S : \A b \in S : f[a] <= f[b]
  <1> DEFINE values == {f[o] : o \in S}
  <1>1. values \in SUBSET Nat /\ values # {}
    OBVIOUS
  <1>2. PICK v \in values : \A w \in values : ~(w < v)
    BY <1>1, Least
  <1>3. PICK a \in S : f[a] = v
    OBVIOUS
  <1>4. ASSUME NEW b \in S PROVE f[a] <= f[b]
    <2>1. f[b] \in values /\ f[a] \in Nat /\ f[b] \in Nat
      OBVIOUS
    <2>2. QED
      BY <1>2, <1>3, <2>1
  <1>5. QED
    BY <1>4

LEMMA NodeFacts ==
    ASSUME NEW g, Grid(g), NEW goal \in g, NEW o \in Nodes(g)
    PROVE  /\ o.tile \in g /\ o.tile \in Nat \X Nat /\ o.g \in Nat /\ o = Node(o.tile, o.g)
           /\ o.tile[1] \in Nat /\ o.tile[2] \in Nat /\ o.tile = <<o.tile[1], o.tile[2]>>
           /\ Manhattan(o.tile, goal) \in Nat /\ F(o, goal) \in Nat
           /\ F(o, goal) = o.g + Manhattan(o.tile, goal)
  <1>1. o.tile \in g /\ o.g \in Nat /\ o = Node(o.tile, o.g)
    BY DEF Nodes, Node
  <1>2. o.tile \in Nat \X Nat /\ goal \in Nat \X Nat
    BY <1>1 DEF Grid
  <1>3. Manhattan(o.tile, goal) \in Nat
    BY <1>2, Metric
  <1>4. F(o, goal) = o.g + Manhattan(o.tile, goal)
    BY DEF F
  <1>5. o.tile[1] \in Nat /\ o.tile[2] \in Nat /\ o.tile = <<o.tile[1], o.tile[2]>>
    BY <1>2
  <1>6. QED
    BY <1>1, <1>2, <1>3, <1>4, <1>5

\* Two nodes are always in an order, so the heap has a first one.
LEMMA FirstIsLeast ==
    ASSUME NEW g, Grid(g), NEW goal \in g, NEW open \in SUBSET Nodes(g), open # {}
    PROVE  /\ First(open, goal) \in open
           /\ \A b \in open : F(First(open, goal), goal) <= F(b, goal)
  <1> DEFINE h(o) == Manhattan(o.tile, goal)
             f == [o \in open |-> F(o, goal)]
             As == {a \in open : \A b \in open : f[a] <= f[b]}
             hs == [o \in open |-> h(o)]
             Bs == {a \in As : \A b \in As : hs[a] <= hs[b]}
             y == [o \in open |-> o.tile[2]]
             Cs == {a \in Bs : \A b \in Bs : y[a] <= y[b]}
             x == [o \in open |-> o.tile[1]]
  <1>1. \A o \in open : /\ o.tile \in Nat \X Nat /\ o.g \in Nat /\ o = Node(o.tile, o.g)
                        /\ o.tile = <<o.tile[1], o.tile[2]>>
                        /\ f[o] \in Nat /\ hs[o] \in Nat /\ y[o] \in Nat /\ x[o] \in Nat
                        /\ f[o] = F(o, goal) /\ f[o] = o.g + hs[o] /\ hs[o] = h(o)
                        /\ y[o] = o.tile[2] /\ x[o] = o.tile[1]
    BY NodeFacts
  <1> HIDE DEF f, hs, y, x
  <1>2. As # {}
    BY <1>1, LeastOf
  <1>3. Bs # {}
    BY <1>1, <1>2, LeastOf
  <1>4. Cs # {}
    BY <1>1, <1>3, LeastOf
  <1>5. PICK a \in Cs : \A b \in Cs : x[a] <= x[b]
    BY <1>1, <1>4, LeastOf
  <1>6. a \in open /\ a \in As /\ a \in Bs
    OBVIOUS
  <1>7. ASSUME NEW b \in open, b # a PROVE Before(a, b, goal)
    <2>1. \/ f[a] < f[b]
          \/ f[a] = f[b] /\ b \in As
      BY <1>1, <1>6
    <2>2. ASSUME b \in As PROVE hs[a] < hs[b] \/ (hs[a] = hs[b] /\ b \in Bs)
      <3>1. \A c \in As : hs[a] <= hs[c]
        BY <1>6
      <3>2. hs[a] \in Nat /\ hs[b] \in Nat
        BY <1>1, <1>6
      <3>3. hs[a] = hs[b] => b \in Bs
        BY <2>2, <3>1
      <3>4. hs[a] <= hs[b]
        BY <2>2, <3>1
      <3> HIDE DEF As, Bs, Cs
      <3>5. QED
        BY <3>2, <3>3, <3>4
    <2>3. ASSUME b \in Bs PROVE y[a] < y[b] \/ (y[a] = y[b] /\ b \in Cs)
      <3>1. \A c \in Bs : y[a] <= y[c]
        BY <1>6
      <3>2. y[a] \in Nat /\ y[b] \in Nat
        BY <1>1, <1>6
      <3>3. y[a] = y[b] => b \in Cs
        BY <2>3, <3>1
      <3>4. y[a] <= y[b]
        BY <2>3, <3>1
      <3> HIDE DEF As, Bs, Cs
      <3>5. QED
        BY <3>2, <3>3, <3>4
    <2>4. b \in Cs => x[a] <= x[b]
      BY <1>5
    <2>5. f[a] = f[b] /\ hs[a] = hs[b] /\ y[a] = y[b] => x[a] # x[b]
      <3>1. SUFFICES ASSUME f[a] = f[b], hs[a] = hs[b], y[a] = y[b], x[a] = x[b] PROVE FALSE
        OBVIOUS
      <3>2. a.tile = b.tile
        BY <1>1, <1>6, <3>1
      <3>3. a.g = b.g
        <4>1. /\ f[a] = a.g + hs[a] /\ f[b] = b.g + hs[b]
              /\ a.g \in Nat /\ b.g \in Nat /\ hs[a] \in Nat
          BY <1>1, <1>6
        <4>2. \A p, q, r \in Nat : p + r = q + r => p = q
          OBVIOUS
        <4>3. a.g + hs[a] = b.g + hs[a]
          BY <3>1, <4>1, Zenon
        <4>4. QED
          BY <4>1, <4>2, <4>3
      <3>4. a = Node(a.tile, a.g) /\ b = Node(b.tile, b.g)
        BY <1>1, <1>6
      <3>5. QED
        BY <1>7, <3>2, <3>3, <3>4
    <2>6. \/ f[a] < f[b]
          \/ f[a] = f[b] /\ hs[a] < hs[b]
          \/ f[a] = f[b] /\ hs[a] = hs[b] /\ (y[a] < y[b] \/ (y[a] = y[b] /\ x[a] < x[b]))
      <3>1. x[a] \in Nat /\ x[b] \in Nat
        BY <1>1, <1>6
      <3>2. QED
        BY <2>1, <2>2, <2>3, <2>4, <2>5, <3>1
    <2>7. /\ f[a] = F(a, goal) /\ f[b] = F(b, goal)
          /\ hs[a] = Manhattan(a.tile, goal) /\ hs[b] = Manhattan(b.tile, goal)
          /\ y[a] = a.tile[2] /\ y[b] = b.tile[2] /\ x[a] = a.tile[1] /\ x[b] = b.tile[1]
      BY <1>1, <1>6
    <2>8. QED
      BY <2>6, <2>7 DEF Before
  <1>8. \E c \in open : \A b \in open \ {c} : Before(c, b, goal)
    BY <1>6, <1>7
  <1>9. First(open, goal) \in open /\ \A b \in open \ {First(open, goal)} : Before(First(open, goal), b, goal)
    BY <1>8 DEF First
  <1>10. ASSUME NEW c \in open, NEW b \in open, Before(c, b, goal) PROVE F(c, goal) <= F(b, goal)
    <2>1. F(c, goal) \in Nat /\ F(b, goal) \in Nat
      BY <1>1
    <2>2. QED
      BY <1>10, <2>1 DEF Before
  <1>11. ASSUME NEW b \in open PROVE F(First(open, goal), goal) <= F(b, goal)
    <2>1. CASE b = First(open, goal)
      <3>1. F(b, goal) \in Nat
        BY <1>1
      <3>2. QED
        BY <2>1, <3>1
    <2>2. CASE b # First(open, goal)
      BY <1>9, <1>10, <2>2
    <2>3. QED
      BY <2>1, <2>2
  <1>12. QED
    BY <1>9, <1>11

-----------------------------------------------------------------------------
(* What is true of the search after every pop.                               *)

Shaped(s, g) ==
    /\ s = [open |-> s.open, score |-> s.score, from |-> s.from, found |-> s.found]
    /\ s.open \subseteq Nodes(g) /\ IsFiniteSet(s.open) /\ s.found \in BOOLEAN
    /\ DOMAIN s.score \subseteq g /\ s.score \in [DOMAIN s.score -> Nat]
    /\ \A o \in s.open : o.tile \in DOMAIN s.score /\ s.score[o.tile] <= o.g

\* The tiles whose neighbours have been looked at, by their best way so far
Done(s) == {t \in DOMAIN s.score : Node(t, s.score[t]) \notin s.open}

\* A score is the length of a way from the start.
Scored(s, g, d, start) ==
    /\ start \in DOMAIN s.score /\ s.score[start] = 0
    /\ \A t \in DOMAIN s.score : d[start] <= s.score[t] + d[t] /\ (d[t] < Far(g) => d[start] < Far(g))

\* cameFrom leads back along such a way.
Traced(s, g, start) ==
    \A t \in DOMAIN s.score \ {start} :
        /\ t \in DOMAIN s.from /\ s.from[t] \in DOMAIN s.score
        /\ t \in Neighbors(g, s.from[t]) /\ s.score[s.from[t]] + 1 <= s.score[t]

\* No neighbour of a tile that is done is unknown or farther than through it.
Explored(s, g, goal) ==
    \A t \in Done(s) :
        t # goal /\ \A v \in Neighbors(g, t) : v \in DOMAIN s.score /\ s.score[v] <= s.score[t] + 1

\* Nothing that is open promises a shorter way than what is done.
Settled(s, goal) ==
    \A t \in Done(s) : \A o \in s.open : s.score[t] + Manhattan(t, goal) <= F(o, goal)

Shortest(s, d, start, goal) ==
    s.found => goal \in DOMAIN s.score /\ s.score[goal] <= d[start]

SearchInv(s, g, d, start, goal) ==
    /\ Shaped(s, g) /\ Scored(s, g, d, start) /\ Traced(s, g, start)
    /\ Explored(s, g, goal) /\ Settled(s, goal) /\ Shortest(s, d, start, goal)

\* What is left to do: the open nodes, and four for every tile that is not done
Work(s, g) == Cardinality(s.open) + 4 * Cardinality(g \ Done(s))

Better(s, g, x) == {n \in Neighbors(g, x.tile) : n \in DOMAIN s.score => x.g + 1 < s.score[n]}
Pushed(s, g, x) == {Node(n, x.g + 1) : n \in Better(s, g, x)}

LEMMA Pushes ==
    ASSUME NEW s, NEW g, Grid(g), NEW x \in Nodes(g)
    PROVE  /\ IsFiniteSet(Pushed(s, g, x)) /\ Cardinality(Pushed(s, g, x)) \in 0..4
           /\ Pushed(s, g, x) \subseteq Nodes(g) /\ Better(s, g, x) \subseteq g
           /\ x.tile \notin Better(s, g, x)
  <1> DEFINE S == Better(s, g, x)
             T == Pushed(s, g, x)
             f == [n \in S |-> Node(n, x.g + 1)]
  <1>1. x.tile \in g /\ x.g \in Nat
    BY DEF Nodes
  <1>2. S \subseteq Neighbors(g, x.tile) /\ S \subseteq g
    BY DEF Better, Neighbors
  <1>3. IsFiniteSet(S) /\ Cardinality(S) \in 0..4
    <2>1. IsFiniteSet(Neighbors(g, x.tile)) /\ Cardinality(Neighbors(g, x.tile)) \in 0..4
      BY <1>1, FourNeighbors
    <2>2. IsFiniteSet(S) /\ Cardinality(S) <= Cardinality(Neighbors(g, x.tile))
      BY <1>2, <2>1, FS_Subset
    <2>3. Cardinality(S) \in Nat
      BY <2>2, FS_CardinalityType
    <2>4. QED
      BY <2>1, <2>2, <2>3
  <1>4. T = {f[n] : n \in S}
    BY DEF Pushed
  <1> HIDE DEF S
  <1>5. f \in Surjection(S, T)
    BY <1>4 DEF Surjection
  <1>6. IsFiniteSet(T) /\ Cardinality(T) <= Cardinality(S)
    BY <1>3, <1>5, FS_Surjection
  <1>7. Cardinality(T) \in Nat
    BY <1>6, FS_CardinalityType
  <1>8. T \subseteq Nodes(g)
    BY <1>1, <1>2 DEF Pushed, Node, Nodes, S
  <1>9. x.tile \notin S
    BY <1>1, <1>2, NextTo
  <1>10. QED
    BY <1>2, <1>3, <1>6, <1>7, <1>8, <1>9 DEF S

\* z is s after x was popped and its neighbours were looked at.
Grown(z, s, g, x) ==
    /\ Shaped(z, g) /\ z.found = s.found
    /\ z.open = (s.open \ {x}) \cup Pushed(s, g, x)
    /\ DOMAIN z.score = DOMAIN s.score \cup Better(s, g, x)
    /\ \A t \in Better(s, g, x) : z.score[t] = x.g + 1 /\ z.from[t] = x.tile
    /\ \A t \in DOMAIN s.score : t \notin Better(s, g, x) => z.score[t] = s.score[t]
    /\ \A t \in DOMAIN s.from : t \notin Better(s, g, x) => z.from[t] = s.from[t]
    /\ DOMAIN z.from = DOMAIN s.from \cup Better(s, g, x)

LEMMA Expanding ==
    ASSUME NEW s, NEW g, Grid(g), Shaped(s, g), NEW x \in s.open
    PROVE  Grown(Expand(s, g, x), s, g, x)
  <1> DEFINE z == Expand(s, g, x)
             better == Better(s, g, x)
             open == (s.open \ {x}) \cup Pushed(s, g, x)
             score == [t \in DOMAIN s.score \cup better |->
                          IF t \in better THEN x.g + 1 ELSE s.score[t]]
             from == [t \in DOMAIN s.from \cup better |->
                          IF t \in better THEN x.tile ELSE s.from[t]]
  <1>1. /\ s = [open |-> s.open, score |-> s.score, from |-> s.from, found |-> s.found]
        /\ s.open \subseteq Nodes(g) /\ IsFiniteSet(s.open) /\ s.found \in BOOLEAN
        /\ DOMAIN s.score \subseteq g /\ s.score \in [DOMAIN s.score -> Nat]
        /\ \A o \in s.open : o.tile \in DOMAIN s.score /\ s.score[o.tile] <= o.g
    BY DEF Shaped
  <1>2. x \in Nodes(g) /\ x.g \in Nat /\ x.tile \in g
    BY <1>1 DEF Nodes
  <1>3. z = [s EXCEPT !.open = open, !.score = score, !.from = from]
    BY Zenon DEF Expand, Better, Pushed, Node
  <1>4. /\ IsFiniteSet(Pushed(s, g, x)) /\ Pushed(s, g, x) \subseteq Nodes(g)
        /\ better \subseteq g /\ x.tile \notin better
    BY <1>2, Pushes
  <1>5. z = [open |-> open, score |-> score, from |-> from, found |-> s.found]
    <2> HIDE DEF open, score, from, z
    <2>1. QED
      BY <1>1, <1>3
  <1>6. z.open = open /\ z.score = score /\ z.from = from /\ z.found = s.found
    <2> HIDE DEF open, score, from, z
    <2>1. QED
      BY <1>5
  <1>7. /\ DOMAIN score = DOMAIN s.score \cup better
        /\ \A t \in better : score[t] = x.g + 1
        /\ \A t \in DOMAIN s.score : t \notin better => score[t] = s.score[t]
    OBVIOUS
  <1>8. /\ DOMAIN from = DOMAIN s.from \cup better
        /\ \A t \in better : from[t] = x.tile
        /\ \A t \in DOMAIN s.from : t \notin better => from[t] = s.from[t]
    OBVIOUS
  <1>9. score \in [DOMAIN s.score \cup better -> Nat] /\ DOMAIN s.score \cup better \subseteq g
    BY <1>1, <1>2, <1>4
  <1>10. open \subseteq Nodes(g) /\ IsFiniteSet(open)
    <2>1. IsFiniteSet(s.open \ {x})
      BY <1>1, FS_RemoveElement
    <2>2. QED
      BY <1>1, <1>4, <2>1, FS_Union
  <1>11. ASSUME NEW o \in open PROVE o.tile \in DOMAIN score /\ score[o.tile] <= o.g
    <2>1. CASE o \in Pushed(s, g, x)
      <3>1. PICK n \in better : o = Node(n, x.g + 1)
        BY <2>1 DEF Pushed
      <3>2. o.tile = n /\ o.g = x.g + 1
        BY <3>1 DEF Node
      <3>3. score[n] = x.g + 1 /\ n \in DOMAIN score
        BY <1>7
      <3>4. QED
        BY <1>2, <3>2, <3>3
    <2>2. CASE o \in s.open
      <3>1. o.tile \in DOMAIN s.score /\ s.score[o.tile] <= o.g /\ o.g \in Nat /\ s.score[o.tile] \in Nat
        BY <1>1, <2>2 DEF Nodes
      <3>2. o.tile \in better => x.g + 1 < s.score[o.tile]
        BY <3>1 DEF Better
      <3>3. QED
        BY <1>2, <1>7, <3>1, <3>2
    <2>3. QED
      BY <2>1, <2>2
  <1>12. Shaped(z, g)
    <2> HIDE DEF open, score, from, z, better
    <2>1. QED
      BY <1>1, <1>5, <1>6, <1>7, <1>9, <1>10, <1>11 DEF Shaped
  <1>13. QED
    <2> HIDE DEF score, from, z, better
    <2>1. QED
      BY <1>6, <1>7, <1>8, <1>12, Zenon DEF z, better, Grown

LEMMA GrownScores ==
    ASSUME NEW s, NEW g, Grid(g), Shaped(s, g), NEW x \in s.open, NEW z, Grown(z, s, g, x)
    PROVE  /\ x \in Nodes(g) /\ x.g \in Nat /\ x.tile \in g /\ x.tile \in DOMAIN s.score
           /\ \A t \in DOMAIN s.score :
                 /\ t \in g /\ s.score[t] \in Nat /\ t \in DOMAIN z.score
                 /\ z.score[t] \in Nat /\ z.score[t] <= s.score[t]
  <1>1. /\ s.open \subseteq Nodes(g) /\ DOMAIN s.score \subseteq g /\ s.score \in [DOMAIN s.score -> Nat]
        /\ \A o \in s.open : o.tile \in DOMAIN s.score
    BY DEF Shaped
  <1>2. x \in Nodes(g) /\ x.g \in Nat /\ x.tile \in g /\ x.tile \in DOMAIN s.score
    BY <1>1 DEF Nodes
  <1>3. ASSUME NEW t \in DOMAIN s.score
        PROVE  /\ t \in g /\ s.score[t] \in Nat /\ t \in DOMAIN z.score
               /\ z.score[t] \in Nat /\ z.score[t] <= s.score[t]
    <2>1. t \in g /\ s.score[t] \in Nat /\ t \in DOMAIN z.score
      BY <1>1 DEF Grown
    <2>2. CASE t \in Better(s, g, x)
      <3>1. z.score[t] = x.g + 1 /\ x.g + 1 < s.score[t]
        BY <2>1, <2>2 DEF Grown, Better
      <3>2. QED
        BY <1>2, <2>1, <3>1
    <2>3. CASE t \notin Better(s, g, x)
      BY <2>1, <2>3 DEF Grown
    <2>4. QED
      BY <2>2, <2>3
  <1>4. QED
    BY <1>2, <1>3

LEMMA ExpandKeepsWays ==
    ASSUME NEW g, Grid(g), NEW goal \in g, NEW d, Metre(g, goal, d), NEW start \in g, NEW s,
           Shaped(s, g), Scored(s, g, d, start), Traced(s, g, start),
           NEW x \in s.open, x.g = s.score[x.tile], NEW z, Grown(z, s, g, x)
    PROVE  Scored(z, g, d, start) /\ Traced(z, g, start)
  <1> DEFINE better == Better(s, g, x)
  <1>1. /\ x.g \in Nat /\ x.tile \in g /\ x.tile \in DOMAIN s.score
        /\ \A t \in DOMAIN s.score :
              /\ t \in g /\ s.score[t] \in Nat /\ t \in DOMAIN z.score
              /\ z.score[t] \in Nat /\ z.score[t] <= s.score[t]
    BY GrownScores
  <1>2. /\ DOMAIN z.score = DOMAIN s.score \cup better
        /\ \A t \in better : z.score[t] = x.g + 1 /\ z.from[t] = x.tile
        /\ \A t \in DOMAIN s.score : t \notin better => z.score[t] = s.score[t]
        /\ \A t \in DOMAIN s.from : t \notin better => z.from[t] = s.from[t]
        /\ DOMAIN z.from = DOMAIN s.from \cup better
    BY DEF Grown
  <1>3. x.tile \notin better /\ better \subseteq g
    <2>1. x \in Nodes(g)
      BY DEF Shaped
    <2>2. QED
      BY <2>1, Pushes
  <1>4. \A t \in better : t \in Neighbors(g, x.tile) /\ x.tile \in Neighbors(g, t)
    <2>1. \A t \in better : t \in Neighbors(g, x.tile)
      BY DEF Better
    <2>2. QED
      BY <1>1, <2>1, NextTo
  <1>5. \A t \in g : d[t] \in Nat /\ \A u \in Neighbors(g, t) : d[u] <= d[t] + 1 /\ (d[t] < Far(g) => d[u] < Far(g))
    BY DEF Metre
  <1>6. start \in DOMAIN z.score /\ z.score[start] = 0
    <2>1. start \in DOMAIN s.score /\ s.score[start] = 0
      BY DEF Scored
    <2>2. start \notin better
      BY <1>1, <2>1 DEF Better
    <2>3. QED
      BY <1>2, <2>1, <2>2
  <1> HIDE DEF better
  <1>7. ASSUME NEW t \in DOMAIN z.score
        PROVE  d[start] <= z.score[t] + d[t] /\ (d[t] < Far(g) => d[start] < Far(g))
    <2>1. CASE t \in better
      <3>1. d[start] <= x.g + d[x.tile] /\ (d[x.tile] < Far(g) => d[start] < Far(g))
        BY <1>1 DEF Scored
      <3>2. d[x.tile] <= d[t] + 1 /\ (d[t] < Far(g) => d[x.tile] < Far(g))
        BY <1>3, <1>4, <1>5, <2>1
      <3>3. d[start] \in Nat /\ d[t] \in Nat /\ d[x.tile] \in Nat /\ z.score[t] = x.g + 1
        BY <1>1, <1>2, <1>3, <1>5, <2>1
      <3>4. QED
        BY <1>1, <3>1, <3>2, <3>3
    <2>2. CASE t \notin better
      BY <1>2, <2>2 DEF Scored
    <2>3. QED
      BY <2>1, <2>2
  <1>8. ASSUME NEW t \in DOMAIN z.score \ {start}
        PROVE  /\ t \in DOMAIN z.from /\ z.from[t] \in DOMAIN z.score
               /\ t \in Neighbors(g, z.from[t]) /\ z.score[z.from[t]] + 1 <= z.score[t]
    <2>1. CASE t \in better
      <3>1. z.from[t] = x.tile /\ z.score[t] = x.g + 1 /\ t \in DOMAIN z.from
        BY <1>2, <2>1
      <3>2. z.score[x.tile] = x.g /\ x.tile \in DOMAIN z.score
        BY <1>1, <1>2, <1>3
      <3>3. QED
        BY <1>1, <1>4, <2>1, <3>1, <3>2
    <2>2. CASE t \notin better
      <3>1. /\ t \in DOMAIN s.from /\ s.from[t] \in DOMAIN s.score
            /\ t \in Neighbors(g, s.from[t]) /\ s.score[s.from[t]] + 1 <= s.score[t]
            /\ t \in DOMAIN s.score
        BY <1>2, <2>2 DEF Traced
      <3>2. z.from[t] = s.from[t] /\ z.score[t] = s.score[t] /\ t \in DOMAIN z.from
        BY <1>2, <2>2, <3>1
      <3>3. /\ z.score[s.from[t]] <= s.score[s.from[t]] /\ s.from[t] \in DOMAIN z.score
            /\ z.score[s.from[t]] \in Nat /\ s.score[s.from[t]] \in Nat /\ s.score[t] \in Nat
        BY <1>1, <3>1
      <3>4. QED
        BY <3>1, <3>2, <3>3
    <2>3. QED
      BY <2>1, <2>2
  <1>9. QED
    BY <1>6, <1>7, <1>8 DEF Scored, Traced

\* One more tile is done, and stays so: a tile that is done is never found
\* nearer, because the heap pops by a heuristic that no step outruns.
LEMMA ExpandDone ==
    ASSUME NEW g, Grid(g), NEW goal \in g, NEW s, Shaped(s, g), Settled(s, goal),
           NEW x \in s.open, x.g = s.score[x.tile], NEW z, Grown(z, s, g, x)
    PROVE  /\ Done(z) = Done(s) \cup {x.tile} /\ x.tile \notin Done(s)
           /\ \A t \in Done(z) : t \in DOMAIN s.score /\ t \notin Better(s, g, x)
           /\ \A o \in Pushed(s, g, x) : F(x, goal) <= F(o, goal)
  <1> DEFINE better == Better(s, g, x)
             new == Pushed(s, g, x)
  <1>1. /\ x \in Nodes(g) /\ x.g \in Nat /\ x.tile \in g /\ x.tile \in DOMAIN s.score
        /\ \A t \in DOMAIN s.score : t \in g /\ s.score[t] \in Nat /\ t \in DOMAIN z.score
    BY GrownScores
  <1>2. /\ DOMAIN z.score = DOMAIN s.score \cup better
        /\ z.open = (s.open \ {x}) \cup new
        /\ \A t \in better : z.score[t] = x.g + 1
        /\ \A t \in DOMAIN s.score : t \notin better => z.score[t] = s.score[t]
    BY DEF Grown
  <1>3. x.tile \notin better /\ better \subseteq g
    BY <1>1, Pushes
  <1>4. x = Node(x.tile, s.score[x.tile])
    BY <1>1, NodeFacts
  <1>5. x.tile \notin Done(s)
    BY <1>4 DEF Done
  <1>6. \A t \in g : Manhattan(t, goal) \in Nat
    BY Metric DEF Grid
  <1>7. F(x, goal) = x.g + Manhattan(x.tile, goal) /\ F(x, goal) \in Nat
    BY <1>1, NodeFacts
  <1>8. ASSUME NEW n \in better PROVE F(x, goal) <= (x.g + 1) + Manhattan(n, goal)
    <2>1. n \in g /\ Manhattan(x.tile, n) = 1
      <3>1. n \in g /\ n \in Neighbors(g, x.tile)
        BY <1>3 DEF Better
      <3>2. x.tile \in Neighbors(g, n)
        BY <1>1, <3>1, NextTo
      <3>3. QED
        BY <3>1, <3>2, NextTo
    <2>2. Manhattan(x.tile, goal) <= Manhattan(x.tile, n) + Manhattan(n, goal)
      BY <1>1, <2>1, Triangle DEF Grid
    <2>3. QED
      BY <1>1, <1>6, <1>7, <2>1, <2>2
  <1>9. ASSUME NEW o \in new PROVE F(x, goal) <= F(o, goal)
    <2>1. PICK n \in better : o = Node(n, x.g + 1)
      BY DEF Pushed
    <2>2. F(o, goal) = (x.g + 1) + Manhattan(n, goal)
      BY <2>1 DEF F, Node
    <2>3. QED
      BY <1>8, <2>1, <2>2
  <1>10. ASSUME NEW t \in Done(s) PROVE t \in DOMAIN s.score /\ t \notin better
    <2>1. t \in DOMAIN s.score /\ t \in g /\ s.score[t] \in Nat
      BY <1>1 DEF Done
    <2>2. s.score[t] + Manhattan(t, goal) <= F(x, goal)
      BY DEF Settled
    <2>3. SUFFICES ASSUME t \in better PROVE FALSE
      BY <2>1
    <2>4. x.g + 1 < s.score[t]
      BY <2>1, <2>3 DEF Better
    <2>5. F(x, goal) <= (x.g + 1) + Manhattan(t, goal)
      BY <1>8, <2>3
    <2>6. QED
      BY <1>1, <1>6, <1>7, <2>1, <2>2, <2>4, <2>5
  <1>11. \A o \in new : o.tile \in better
    BY DEF Pushed, Node
  <1>12. \A t, k : Node(t, k).tile = t /\ Node(t, k).g = k
    BY DEF Node
  <1> HIDE DEF better, new
  <1>13. ASSUME NEW t \in DOMAIN s.score, t \notin better
         PROVE  t \in Done(z) <=> t \in Done(s) \/ t = x.tile
    <2>1. z.score[t] = s.score[t] /\ t \in DOMAIN z.score
      BY <1>1, <1>2, <1>13
    <2>2. Node(t, s.score[t]) \notin new
      BY <1>11, <1>12, <1>13
    <2>3. Node(t, s.score[t]) = x <=> t = x.tile
      BY <1>4, <1>12
    <2>4. QED
      BY <1>2, <2>1, <2>2, <2>3 DEF Done
  <1>14. ASSUME NEW t \in better PROVE t \notin Done(z)
    <2>1. z.score[t] = x.g + 1
      BY <1>2
    <2>2. Node(t, x.g + 1) \in new
      BY DEF new, better, Pushed
    <2>3. QED
      BY <1>2, <2>1, <2>2 DEF Done
  <1>15. \A t \in Done(z) : t \in DOMAIN s.score /\ t \notin better
    BY <1>2, <1>14 DEF Done
  <1>16. Done(z) = Done(s) \cup {x.tile}
    BY <1>1, <1>3, <1>10, <1>13, <1>15
  <1>17. QED
    BY <1>5, <1>9, <1>15, <1>16 DEF better, new

LEMMA ExpandKeepsFront ==
    ASSUME NEW g, Grid(g), NEW goal \in g, NEW s, Shaped(s, g), Explored(s, g, goal), Settled(s, goal),
           NEW x \in s.open, x.g = s.score[x.tile], x.tile # goal,
           \A b \in s.open : F(x, goal) <= F(b, goal), NEW z, Grown(z, s, g, x)
    PROVE  Explored(z, g, goal) /\ Settled(z, goal)
  <1> DEFINE better == Better(s, g, x)
             new == Pushed(s, g, x)
  <1>1. /\ x \in Nodes(g) /\ x.g \in Nat /\ x.tile \in g /\ x.tile \in DOMAIN s.score
        /\ \A t \in DOMAIN s.score :
              /\ t \in g /\ s.score[t] \in Nat /\ t \in DOMAIN z.score
              /\ z.score[t] \in Nat /\ z.score[t] <= s.score[t]
    BY GrownScores
  <1>2. /\ z.open = (s.open \ {x}) \cup new
        /\ \A t \in better : z.score[t] = x.g + 1 /\ t \in DOMAIN z.score
        /\ \A t \in DOMAIN s.score : t \notin better => z.score[t] = s.score[t]
    BY DEF Grown
  <1>3. /\ Done(z) = Done(s) \cup {x.tile}
        /\ \A t \in Done(z) : t \in DOMAIN s.score /\ t \notin better
        /\ \A o \in new : F(x, goal) <= F(o, goal)
    BY ExpandDone
  <1>4. x.tile \in Done(z) /\ z.score[x.tile] = x.g
    BY <1>1, <1>2, <1>3
  <1>5. \A v \in Neighbors(g, x.tile) : v \notin better => v \in DOMAIN s.score /\ ~(x.g + 1 < s.score[v])
    BY DEF Better
  <1>6. F(x, goal) = x.g + Manhattan(x.tile, goal) /\ F(x, goal) \in Nat
    BY <1>1, NodeFacts
  <1>7. \A o \in z.open : F(o, goal) \in Nat
    <2>1. \A o \in z.open : o \in Nodes(g)
      BY DEF Grown, Shaped
    <2>2. QED
      BY <2>1, NodeFacts
  <1>8. \A t \in g : Manhattan(t, goal) \in Nat
    BY Metric DEF Grid
  <1> HIDE DEF better, new
  <1>9. ASSUME NEW t \in Done(z)
        PROVE  t # goal /\ \A v \in Neighbors(g, t) : v \in DOMAIN z.score /\ z.score[v] <= z.score[t] + 1
    <2>1. t \in DOMAIN s.score /\ t \notin better /\ z.score[t] = s.score[t] /\ s.score[t] \in Nat
      BY <1>1, <1>2, <1>3
    <2>2. CASE t \in Done(s)
      <3>1. t # goal
        BY <2>2 DEF Explored
      <3>2. ASSUME NEW v \in Neighbors(g, t) PROVE v \in DOMAIN z.score /\ z.score[v] <= z.score[t] + 1
        <4>1. v \in DOMAIN s.score /\ s.score[v] <= s.score[t] + 1
          BY <2>2 DEF Explored
        <4>2. QED
          BY <1>1, <2>1, <4>1
      <3>3. QED
        BY <3>1, <3>2
    <2>3. CASE t = x.tile
      <3>1. ASSUME NEW v \in Neighbors(g, t) PROVE v \in DOMAIN z.score /\ z.score[v] <= z.score[t] + 1
        <4>1. CASE v \in better
          BY <1>1, <1>2, <1>4, <2>3, <4>1
        <4>2. CASE v \notin better
          <5>1. v \in DOMAIN s.score /\ ~(x.g + 1 < s.score[v])
            BY <1>5, <2>3, <4>2
          <5>2. v \in DOMAIN z.score /\ z.score[v] <= s.score[v] /\ s.score[v] \in Nat /\ z.score[v] \in Nat
            BY <1>1, <5>1
          <5>3. QED
            BY <1>1, <1>4, <2>3, <5>1, <5>2
        <4>3. QED
          BY <4>1, <4>2
      <3>2. QED
        BY <2>3, <3>1
    <2>4. QED
      BY <1>3, <2>2, <2>3
  <1>10. ASSUME NEW t \in Done(z), NEW o \in z.open
         PROVE  z.score[t] + Manhattan(t, goal) <= F(o, goal)
    <2>1. t \in DOMAIN s.score /\ t \in g /\ t \notin better /\ z.score[t] = s.score[t] /\ s.score[t] \in Nat
      BY <1>1, <1>2, <1>3
    <2>2. F(x, goal) <= F(o, goal)
      BY <1>2, <1>3
    <2>3. z.score[t] + Manhattan(t, goal) <= F(x, goal)
      <3>1. CASE t \in Done(s)
        BY <2>1, <3>1 DEF Settled
      <3>2. CASE t = x.tile
        BY <1>4, <1>6, <3>2
      <3>3. QED
        BY <1>3, <3>1, <3>2
    <2>4. QED
      BY <1>6, <1>7, <1>8, <2>1, <2>2, <2>3
  <1>11. QED
    BY <1>9, <1>10 DEF Explored, Settled

LEMMA ExpandWorks ==
    ASSUME NEW g, Grid(g), NEW goal \in g, NEW s, Shaped(s, g), Settled(s, goal),
           NEW x \in s.open, x.g = s.score[x.tile], NEW z, Grown(z, s, g, x)
    PROVE  Work(s, g) \in Nat /\ Work(z, g) \in Nat /\ Work(z, g) < Work(s, g)
  <1> DEFINE new == Pushed(s, g, x)
  <1>1. x \in Nodes(g) /\ x.tile \in g
    BY GrownScores
  <1>2. Done(z) = Done(s) \cup {x.tile} /\ x.tile \notin Done(s)
    BY ExpandDone
  <1>3. IsFiniteSet(new) /\ Cardinality(new) \in 0..4
    BY <1>1, Pushes
  <1>4. IsFiniteSet(s.open) /\ z.open = (s.open \ {x}) \cup new /\ IsFiniteSet(g)
    BY DEF Shaped, Grown, Grid
  <1> HIDE DEF new
  <1>5. /\ IsFiniteSet(s.open \ {x}) /\ Cardinality(s.open \ {x}) = Cardinality(s.open) - 1
        /\ Cardinality(s.open) \in Nat /\ Cardinality(s.open \ {x}) \in Nat
    BY <1>4, FS_RemoveElement, FS_CardinalityType
  <1>6. Cardinality(z.open) \in Nat /\ Cardinality(z.open) <= Cardinality(s.open \ {x}) + 4
    <2> DEFINE rest == s.open \ {x}
    <2>1. /\ IsFiniteSet(z.open)
          /\ Cardinality(z.open) = Cardinality(rest) + Cardinality(new) - Cardinality(rest \cap new)
      <3>1. z.open = rest \cup new /\ IsFiniteSet(rest) /\ IsFiniteSet(new)
        BY <1>3, <1>4, <1>5
      <3> HIDE DEF rest
      <3>2. QED
        BY <3>1, FS_Union
    <2>2. IsFiniteSet((s.open \ {x}) \cap new)
      BY <1>3, <1>5, FS_Intersection
    <2>3. Cardinality((s.open \ {x}) \cap new) \in Nat /\ Cardinality(z.open) \in Nat
      BY <2>1, <2>2, FS_CardinalityType
    <2>4. QED
      BY <1>3, <1>5, <2>1, <2>3
  <1>7. g \ Done(z) = (g \ Done(s)) \ {x.tile} /\ x.tile \in g \ Done(s)
    BY <1>1, <1>2
  <1>8. IsFiniteSet(g \ Done(s))
    BY <1>4, FS_Difference
  <1>9. /\ Cardinality(g \ Done(z)) = Cardinality(g \ Done(s)) - 1
        /\ Cardinality(g \ Done(s)) \in Nat /\ Cardinality(g \ Done(z)) \in Nat
    <2> DEFINE left == g \ Done(s)
    <2>1. g \ Done(z) = left \ {x.tile} /\ x.tile \in left /\ IsFiniteSet(left)
      BY <1>7, <1>8
    <2> HIDE DEF left
    <2>2. IsFiniteSet(left \ {x.tile}) /\ Cardinality(left \ {x.tile}) = Cardinality(left) - 1
      BY <2>1, FS_RemoveElement
    <2>3. Cardinality(left) \in Nat /\ Cardinality(left \ {x.tile}) \in Nat
      BY <2>1, <2>2, FS_CardinalityType
    <2>4. QED
      BY <2>1, <2>2, <2>3 DEF left
  <1>10. QED
    BY <1>5, <1>6, <1>9 DEF Work

\* While a way is left to find, some tile on a shortest one is open.
LEMMA TightOpen ==
    ASSUME NEW g, Grid(g), NEW goal \in g, NEW d, Metre(g, goal, d), NEW start \in g, d[start] < Far(g),
           NEW s, SearchInv(s, g, d, start, goal), Far(g) \in Nat
    PROVE  \E o \in s.open : F(o, goal) <= d[start]
  <1> DEFINE tight == {t \in DOMAIN s.score : s.score[t] + d[t] = d[start]}
  <1>1. /\ DOMAIN s.score \subseteq g /\ \A t \in DOMAIN s.score : s.score[t] \in Nat
    BY DEF SearchInv, Shaped
  <1>2. /\ start \in DOMAIN s.score /\ s.score[start] = 0
        /\ \A t \in DOMAIN s.score : d[start] <= s.score[t] + d[t]
    BY DEF SearchInv, Scored
  <1>3. \A t \in g : d[t] \in Nat /\ (d[t] = 0 <=> t = goal)
    BY DEF Metre
  <1>4. start \in tight
    BY <1>2, <1>3
  <1>5. \A t \in tight : t \in DOMAIN s.score /\ t \in g /\ s.score[t] + d[t] = d[start] /\ d[t] \in Nat
    BY <1>1, <1>3
  <1>6. PICK a \in tight : \A b \in tight : d[a] <= d[b]
    BY <1>4, <1>5, LeastOf
  <1>7. d[a] < Far(g) /\ s.score[a] \in Nat /\ d[start] \in Nat
    <2>1. s.score[a] \in Nat /\ s.score[a] + d[a] = d[start] /\ d[a] \in Nat /\ d[start] \in Nat
      BY <1>1, <1>3, <1>5
    <2>2. QED
      BY <2>1
  <1>8. a \notin Done(s)
    <2>1. SUFFICES ASSUME a \in Done(s) PROVE FALSE
      OBVIOUS
    <2>2. a # goal /\ \A v \in Neighbors(g, a) : v \in DOMAIN s.score /\ s.score[v] <= s.score[a] + 1
      BY <2>1 DEF SearchInv, Explored
    <2>3. PICK u \in Neighbors(g, a) : d[u] + 1 = d[a]
      BY <1>3, <1>5, <1>7, <2>2 DEF Metre
    <2>4. /\ u \in DOMAIN s.score /\ s.score[u] <= s.score[a] + 1 /\ s.score[u] \in Nat
          /\ d[start] <= s.score[u] + d[u]
      BY <1>1, <1>2, <2>2
    <2>5. d[u] \in Nat /\ d[a] \in Nat /\ s.score[a] + d[a] = d[start]
      BY <1>1, <1>3, <1>5, <2>4
    <2>6. s.score[u] + d[u] = d[start]
      BY <1>7, <2>3, <2>4, <2>5
    <2>7. d[a] <= d[u]
      BY <1>6, <2>4, <2>6
    <2>8. QED
      BY <2>3, <2>5, <2>7
  <1>9. Node(a, s.score[a]) \in s.open
    BY <1>5, <1>8 DEF Done
  <1>10. F(Node(a, s.score[a]), goal) = s.score[a] + Manhattan(a, goal)
    BY DEF F, Node
  <1>11. Manhattan(a, goal) <= d[a] /\ Manhattan(a, goal) \in Nat
    <2>1. Manhattan(a, goal) <= d[a]
      BY <1>5, <1>7 DEF Metre
    <2>2. QED
      BY <1>5, <2>1, Metric DEF Grid
  <1>12. s.score[a] + Manhattan(a, goal) <= d[start]
    BY <1>5, <1>7, <1>11
  <1>13. QED
    BY <1>9, <1>10, <1>12

LEMMA PopKeeps ==
    ASSUME NEW g, Grid(g), NEW goal \in g, NEW d, Metre(g, goal, d), NEW start \in g, Far(g) \in Nat,
           NEW s, SearchInv(s, g, d, start, goal), ~s.found, s.open # {}
    PROVE  LET z == PopNext(s, g, goal)
           IN  /\ SearchInv(z, g, d, start, goal)
               /\ Work(s, g) \in Nat /\ Work(z, g) \in Nat /\ (z.found \/ Work(z, g) < Work(s, g))
  <1> DEFINE x == First(s.open, goal)
             z == PopNext(s, g, goal)
  <1>1. /\ Shaped(s, g) /\ Scored(s, g, d, start) /\ Traced(s, g, start)
        /\ Explored(s, g, goal) /\ Settled(s, goal)
    BY DEF SearchInv
  <1>2. /\ s = [open |-> s.open, score |-> s.score, from |-> s.from, found |-> s.found]
        /\ s.open \subseteq Nodes(g) /\ IsFiniteSet(s.open)
        /\ DOMAIN s.score \subseteq g /\ s.score \in [DOMAIN s.score -> Nat]
        /\ \A o \in s.open : o.tile \in DOMAIN s.score /\ s.score[o.tile] <= o.g
    BY <1>1 DEF Shaped
  <1>3. x \in s.open /\ \A b \in s.open : F(x, goal) <= F(b, goal)
    BY <1>2, FirstIsLeast
  <1>4. /\ x \in Nodes(g) /\ x.tile \in g /\ x.g \in Nat /\ F(x, goal) = x.g + Manhattan(x.tile, goal)
        /\ Manhattan(x.tile, goal) \in Nat
    BY <1>2, <1>3, NodeFacts
  <1>5. z = IF x.g # s.score[x.tile] THEN [s EXCEPT !.open = s.open \ {x}]
            ELSE IF x.tile = goal THEN [s EXCEPT !.found = TRUE]
            ELSE Expand(s, g, x)
    BY Zenon DEF PopNext
  <1>6. IsFiniteSet(g) /\ IsFiniteSet(g \ Done(s)) /\ Cardinality(g \ Done(s)) \in Nat
    BY FS_Difference, FS_CardinalityType DEF Grid
  <1>7. Work(s, g) \in Nat
    BY <1>2, <1>6, FS_CardinalityType DEF Work
  <1> HIDE DEF x, z
  <1>8. CASE x.g # s.score[x.tile]
    <2>1. z = [s EXCEPT !.open = s.open \ {x}]
      BY <1>5, <1>8
    <2>2. z = [open |-> s.open \ {x}, score |-> s.score, from |-> s.from, found |-> s.found]
      BY <1>2, <2>1
    <2>3. z.open = s.open \ {x} /\ z.score = s.score /\ z.from = s.from /\ z.found = s.found
      BY <2>2
    <2>4. IsFiniteSet(s.open \ {x}) /\ Cardinality(s.open \ {x}) = Cardinality(s.open) - 1
      BY <1>2, <1>3, FS_RemoveElement
    <2>5. Cardinality(s.open) \in Nat /\ Cardinality(s.open \ {x}) \in Nat
      BY <1>2, <2>4, FS_CardinalityType
    <2>6. Done(z) = Done(s)
      <3>1. \A t : Node(t, s.score[t]) # x
        BY <1>8 DEF Node
      <3>2. \A t : Node(t, s.score[t]) \in z.open <=> Node(t, s.score[t]) \in s.open
        BY <2>3, <3>1
      <3>3. QED
        BY <2>3, <3>2 DEF Done
    <2>7. Shaped(z, g)
      <3>1. z = [open |-> z.open, score |-> z.score, from |-> z.from, found |-> z.found]
        BY <2>2, <2>3
      <3>2. s.found \in BOOLEAN
        BY <1>1 DEF Shaped
      <3>3. QED
        BY <1>2, <2>3, <2>4, <3>1, <3>2 DEF Shaped
    <2>8. Scored(z, g, d, start) /\ Traced(z, g, start)
      BY <1>1, <2>3 DEF Scored, Traced
    <2>9. Explored(z, g, goal) /\ Settled(z, goal)
      BY <1>1, <2>3, <2>6 DEF Explored, Settled
    <2>10. Shortest(z, d, start, goal)
      BY <2>3 DEF Shortest
    <2>11. Work(z, g) \in Nat /\ Work(z, g) < Work(s, g)
      BY <1>6, <2>3, <2>4, <2>5, <2>6 DEF Work
    <2>12. QED
      BY <1>7, <2>7, <2>8, <2>9, <2>10, <2>11 DEF SearchInv, z
  <1>9. CASE x.g = s.score[x.tile] /\ x.tile = goal
    <2>1. z = [s EXCEPT !.found = TRUE]
      BY <1>5, <1>9
    <2>2. z = [open |-> s.open, score |-> s.score, from |-> s.from, found |-> TRUE]
      BY <1>2, <2>1
    <2>3. z.open = s.open /\ z.score = s.score /\ z.from = s.from /\ z.found = TRUE
      BY <2>2
    <2>4. Done(z) = Done(s)
      BY <2>3 DEF Done
    <2>5. Shaped(z, g)
      <3>1. z = [open |-> z.open, score |-> z.score, from |-> z.from, found |-> z.found]
        BY <2>2, <2>3
      <3>2. QED
        BY <1>2, <2>3, <3>1 DEF Shaped
    <2>6. Scored(z, g, d, start) /\ Traced(z, g, start)
      BY <1>1, <2>3 DEF Scored, Traced
    <2>7. Explored(z, g, goal) /\ Settled(z, goal)
      BY <1>1, <2>3, <2>4 DEF Explored, Settled
    <2>8. goal \in DOMAIN s.score /\ s.score[goal] = x.g
      BY <1>2, <1>3, <1>9
    <2>9. d[start] < Far(g)
      <3>1. d[goal] = 0 /\ Far(g) # 0
        BY FS_EmptySet, FS_CardinalityType DEF Metre, Far, Grid
      <3>2. QED
        BY <1>1, <2>8, <3>1 DEF Scored
    <2>10. PICK o \in s.open : F(o, goal) <= d[start]
      BY <2>9, TightOpen
    <2>11. F(x, goal) <= F(o, goal) /\ F(o, goal) \in Nat /\ d[start] \in Nat
      <3>1. F(o, goal) \in Nat
        BY <1>2, NodeFacts
      <3>2. d[start] \in Nat
        BY DEF Metre
      <3>3. QED
        BY <1>3, <3>1, <3>2
    <2>12. s.score[goal] <= d[start]
      BY <1>4, <2>8, <2>10, <2>11
    <2>13. Shortest(z, d, start, goal)
      BY <2>3, <2>8, <2>12 DEF Shortest
    <2>14. Work(z, g) \in Nat
      BY <1>7, <2>3, <2>4 DEF Work
    <2>15. QED
      BY <1>7, <2>3, <2>5, <2>6, <2>7, <2>13, <2>14 DEF SearchInv, z
  <1>10. CASE x.g = s.score[x.tile] /\ x.tile # goal
    <2>1. z = Expand(s, g, x)
      BY <1>5, <1>10
    <2>2. Grown(z, s, g, x)
      BY <1>1, <1>3, <2>1, Expanding
    <2>3. Scored(z, g, d, start) /\ Traced(z, g, start)
      BY <1>1, <1>3, <1>10, <2>2, ExpandKeepsWays
    <2>4. Explored(z, g, goal) /\ Settled(z, goal)
      BY <1>1, <1>3, <1>10, <2>2, ExpandKeepsFront
    <2>5. Work(z, g) \in Nat /\ Work(z, g) < Work(s, g)
      BY <1>1, <1>3, <1>10, <2>2, ExpandWorks
    <2>6. Shaped(z, g) /\ Shortest(z, d, start, goal)
      BY <2>2 DEF Grown, Shortest
    <2>7. QED
      BY <1>7, <2>3, <2>4, <2>5, <2>6 DEF SearchInv, z
  <1>11. QED
    BY <1>8, <1>9, <1>10

LEMMA Opening ==
    ASSUME NEW g, Grid(g), NEW goal \in g, NEW d, Metre(g, goal, d), NEW start \in g
    PROVE  /\ SearchInv(Opened(start), g, d, start, goal)
           /\ Work(Opened(start), g) = Pops(g) /\ Pops(g) \in Nat
  <1> DEFINE s == Opened(start)
  <1>1. /\ s.open = {Node(start, 0)} /\ s.score = [t \in {start} |-> 0]
        /\ s.from = [t \in {} |-> start] /\ s.found = FALSE
        /\ s = [open |-> s.open, score |-> s.score, from |-> s.from, found |-> s.found]
    BY DEF Opened, Node
  <1> HIDE DEF s
  <1>2. DOMAIN s.score = {start} /\ s.score[start] = 0 /\ s.score \in [DOMAIN s.score -> Nat]
    BY <1>1
  <1>3. Done(s) = {}
    BY <1>1, <1>2 DEF Done
  <1>4. IsFiniteSet(s.open) /\ Cardinality(s.open) = 1
    BY <1>1, FS_Singleton
  <1>5. Shaped(s, g)
    <2>1. s.open \subseteq Nodes(g) /\ \A o \in s.open : o.tile = start /\ o.g = 0
      BY <1>1 DEF Nodes, Node
    <2>2. \A o \in s.open : o.tile \in DOMAIN s.score /\ s.score[o.tile] <= o.g
      BY <1>2, <2>1
    <2>3. DOMAIN s.score \subseteq g /\ s.found \in BOOLEAN
      BY <1>1, <1>2
    <2>4. s = [open |-> s.open, score |-> s.score, from |-> s.from, found |-> s.found]
      BY <1>1
    <2>5. QED
      BY <1>2, <1>4, <2>1, <2>2, <2>3, <2>4 DEF Shaped
  <1>6. Scored(s, g, d, start)
    <2>1. d[start] \in Nat
      BY DEF Metre
    <2>2. QED
      BY <1>2, <2>1 DEF Scored
  <1>7. Traced(s, g, start) /\ Explored(s, g, goal) /\ Settled(s, goal) /\ Shortest(s, d, start, goal)
    BY <1>1, <1>2, <1>3 DEF Traced, Explored, Settled, Shortest
  <1>8. g \ Done(s) = g /\ Cardinality(g) \in Nat
    BY <1>3, FS_CardinalityType DEF Grid
  <1>9. Work(s, g) = Pops(g) /\ Pops(g) \in Nat
    <2>1. Work(s, g) = 1 + 4 * Cardinality(g)
      BY <1>4, <1>8 DEF Work
    <2>2. Pops(g) = 4 * Cardinality(g) + 1
      BY DEF Pops
    <2> DEFINE c == Cardinality(g)
    <2>3. c \in Nat /\ Work(s, g) = 1 + 4 * c /\ Pops(g) = 4 * c + 1
      BY <1>8, <2>1, <2>2
    <2> HIDE DEF c
    <2>4. QED
      BY <2>3
  <1>10. QED
    BY <1>5, <1>6, <1>7, <1>9 DEF SearchInv, s

\* The bound on the pops is enough: every search ends.
LEMMA SearchEnds ==
    ASSUME NEW g, Grid(g), NEW goal \in g, NEW d, Metre(g, goal, d), NEW start \in g
    PROVE  LET s == Search(g, start, goal)
           IN  SearchInv(s, g, d, start, goal) /\ (s.found \/ s.open = {})
  <1> DEFINE run == Run(g, start, goal)
             k == Pops(g)
             S == {n \in 0..k : /\ SearchInv(run[n], g, d, start, goal)
                                /\ Work(run[n], g) \in Nat
                                /\ \/ run[n].found \/ run[n].open = {}
                                   \/ Work(run[n], g) + n <= k}
  <1>1. /\ SearchInv(Opened(start), g, d, start, goal)
        /\ Work(Opened(start), g) = k /\ k \in Nat
    BY Opening
  <1>2. /\ Search(g, start, goal) = run[k] /\ run[0] = Opened(start)
        /\ \A n \in 0..k : n # 0 => run[n] = PopNext(run[n - 1], g, goal)
    BY <1>1, RunSteps
  <1>3. Far(g) \in Nat
    BY FS_CardinalityType DEF Far, Grid
  <1> HIDE DEF run, k
  <1>4. 0 \in S
    BY <1>1, <1>2
  <1>5. ASSUME NEW n \in 0..k, n < k, n \in S PROVE n + 1 \in S
    <2> DEFINE s == run[n]
               z == run[n + 1]
    <2>1. n + 1 \in 0..k /\ n + 1 # 0 /\ (n + 1) - 1 = n
      BY <1>1, <1>5
    <2>2. z = PopNext(s, g, goal)
      BY <1>2, <2>1
    <2>3. /\ SearchInv(s, g, d, start, goal) /\ Work(s, g) \in Nat
          /\ s.found \/ s.open = {} \/ Work(s, g) + n <= k
      <3>1. n \in S
        BY <1>5
      <3>2. QED
        BY <3>1, Zenon
    <2>4. CASE s.found \/ s.open = {}
      <3>1. z = s
        BY <2>2, <2>4 DEF PopNext
      <3>2. QED
        BY <2>1, <2>3, <2>4, <3>1
    <2>5. CASE ~s.found /\ s.open # {}
      <3>1. Work(s, g) + n <= k
        BY <2>3, <2>5
      <3> HIDE DEF s, z
      <3>2. /\ SearchInv(z, g, d, start, goal)
            /\ Work(z, g) \in Nat /\ (z.found \/ Work(z, g) < Work(s, g))
        BY <1>3, <2>2, <2>3, <2>5, PopKeeps
      <3>3. z.found \/ Work(z, g) + (n + 1) <= k
        BY <1>1, <2>3, <3>1, <3>2
      <3>4. QED
        BY <2>1, <3>2, <3>3 DEF z
    <2>6. QED
      BY <2>4, <2>5
  <1> HIDE DEF S
  <1>6. k \in S
    <2>1. k \in 0..k
      BY <1>1
    <2>2. QED
      BY <1>1, <1>4, <1>5, <2>1, UpTo
  <1>7. SearchInv(run[k], g, d, start, goal)
    BY <1>6 DEF S
  <1>8. Work(run[k], g) + k <= k => run[k].open = {}
    <2>1. SUFFICES ASSUME Work(run[k], g) + k <= k PROVE run[k].open = {}
      OBVIOUS
    <2>2. Work(run[k], g) = 0
      BY <1>1, <1>6, <2>1 DEF S
    <2>3. IsFiniteSet(run[k].open) /\ Cardinality(run[k].open) \in Nat
      BY <1>7, FS_CardinalityType DEF SearchInv, Shaped
    <2>4. Cardinality(g \ Done(run[k])) \in Nat
      BY FS_Difference, FS_CardinalityType DEF Grid
    <2>5. Cardinality(run[k].open) = 0
      BY <2>2, <2>3, <2>4 DEF Work
    <2>6. QED
      BY <2>3, <2>5, FS_EmptySet
  <1>9. QED
    BY <1>2, <1>6, <1>7, <1>8 DEF S

\* botFirstStepTile walks a shortest way back to the tile next to the start.
LEMMA WalkBack ==
    ASSUME NEW g, Grid(g), NEW goal \in g, NEW d, Metre(g, goal, d), NEW start \in g, start # goal,
           NEW s, SearchInv(s, g, d, start, goal), goal \in DOMAIN s.score, s.score[goal] = d[start],
           d[start] < Far(g)
    PROVE  LET b == FirstStepTile(s, g, start, goal)
           IN  b \in Neighbors(g, start) /\ d[b] + 1 = d[start]
  <1> DEFINE walk == Walk(s, g, start, goal)
             k == Cardinality(g)
             S == {n \in 0..k : /\ walk[n] \in DOMAIN s.score \ {start}
                                /\ s.score[walk[n]] + d[walk[n]] = d[start]
                                /\ s.score[walk[n]] = 1 \/ s.score[walk[n]] + n = d[start]}
  <1>1. k \in Nat /\ k = Far(g)
    BY FS_CardinalityType DEF Far, Grid
  <1>2. /\ FirstStepTile(s, g, start, goal) = walk[k] /\ walk[0] = goal
        /\ \A n \in 0..k : n # 0 => walk[n] = Back(s, start, walk[n - 1])
    BY <1>1, WalkSteps
  <1>3. /\ DOMAIN s.score \subseteq g /\ \A t \in DOMAIN s.score : s.score[t] \in Nat
        /\ start \in DOMAIN s.score /\ s.score[start] = 0
        /\ \A t \in DOMAIN s.score : d[start] <= s.score[t] + d[t]
    BY DEF SearchInv, Shaped, Scored
  <1>4. \A t \in DOMAIN s.score \ {start} :
           /\ s.from[t] \in DOMAIN s.score /\ t \in Neighbors(g, s.from[t])
           /\ s.score[s.from[t]] + 1 <= s.score[t]
    BY DEF SearchInv, Traced
  <1>5. \A t \in g : d[t] \in Nat /\ \A u \in Neighbors(g, t) : d[u] <= d[t] + 1
    BY DEF Metre
  <1>6. d[goal] = 0
    BY DEF Metre
  <1> HIDE DEF walk, k
  <1>7. ASSUME NEW b \in DOMAIN s.score \ {start}, s.score[b] + d[b] = d[start]
        PROVE  LET p == s.from[b]
               IN  /\ p \in DOMAIN s.score /\ b \in Neighbors(g, p)
                   /\ s.score[p] + d[p] = d[start] /\ s.score[p] + 1 = s.score[b]
    <2> DEFINE p == s.from[b]
    <2>1. p \in DOMAIN s.score /\ b \in Neighbors(g, p) /\ s.score[p] + 1 <= s.score[b]
      BY <1>4
    <2>2. p \in g /\ b \in g /\ p \in Neighbors(g, b)
      <3>1. p \in g /\ b \in g
        BY <1>3, <2>1
      <3>2. QED
        BY <2>1, <3>1, NextTo
    <2> HIDE DEF p
    <2>3. d[p] <= d[b] + 1 /\ d[p] \in Nat /\ d[b] \in Nat /\ d[start] \in Nat
      BY <1>5, <2>2
    <2>4. d[start] <= s.score[p] + d[p] /\ s.score[p] \in Nat /\ s.score[b] \in Nat
      BY <1>3, <2>1
    <2>5. s.score[p] + d[p] = d[start] /\ s.score[p] + 1 = s.score[b]
      BY <1>7, <2>1, <2>3, <2>4
    <2>6. QED
      BY <2>1, <2>5 DEF p
  <1>8. \A t \in DOMAIN s.score \ {start} : s.score[t] >= 1
    BY <1>3, <1>4
  <1>9. 0 \in S
    <2>1. 0 \in 0..k /\ d[start] \in Nat
      BY <1>1, <1>5
    <2>2. QED
      BY <1>2, <1>6, <2>1
  <1>10. ASSUME NEW n \in 0..k, n < k, n \in S PROVE n + 1 \in S
    <2> DEFINE b == walk[n]
               p == s.from[b]
    <2>1. n + 1 \in 0..k /\ n + 1 # 0 /\ (n + 1) - 1 = n
      BY <1>1, <1>10
    <2>2. walk[n + 1] = IF p = start THEN b ELSE p
      BY <1>2, <2>1 DEF Back
    <2>3. /\ b \in DOMAIN s.score \ {start} /\ s.score[b] + d[b] = d[start]
          /\ s.score[b] = 1 \/ s.score[b] + n = d[start]
      BY <1>10
    <2>4. /\ p \in DOMAIN s.score
          /\ s.score[p] + d[p] = d[start] /\ s.score[p] + 1 = s.score[b]
      BY <1>7, <2>3
    <2> HIDE DEF b, p
    <2>5. CASE p = start
      <3>1. s.score[b] = 1
        BY <1>3, <2>4, <2>5
      <3>2. QED
        BY <2>1, <2>2, <2>3, <2>5, <3>1
    <2>6. CASE p # start
      <3>1. s.score[p] >= 1 /\ s.score[p] \in Nat /\ d[start] \in Nat
        BY <1>3, <1>5, <1>8, <2>4, <2>6
      <3>2. s.score[b] # 1
        BY <2>4, <3>1
      <3>3. s.score[p] + (n + 1) = d[start]
        BY <2>3, <2>4, <3>1, <3>2
      <3>4. QED
        BY <2>1, <2>2, <2>4, <2>6, <3>3
    <2>7. QED
      BY <2>5, <2>6
  <1> HIDE DEF S
  <1>11. k \in S
    <2>1. k \in 0..k
      BY <1>1
    <2>2. QED
      BY <1>1, <1>9, <1>10, <2>1, UpTo
  <1> DEFINE b == walk[k]
  <1>12. /\ b \in DOMAIN s.score \ {start} /\ s.score[b] + d[b] = d[start]
         /\ s.score[b] = 1 \/ s.score[b] + k = d[start]
    BY <1>11 DEF S
  <1> HIDE DEF b
  <1>13. s.score[b] = 1
    <2>1. s.score[b] \in Nat /\ d[start] \in Nat /\ d[start] < k
      BY <1>1, <1>3, <1>5, <1>12
    <2>2. QED
      BY <1>1, <1>12, <2>1
  <1>14. s.from[b] = start /\ b \in Neighbors(g, s.from[b])
    <2>1. s.from[b] \in DOMAIN s.score /\ s.score[s.from[b]] + 1 = 1 /\ b \in Neighbors(g, s.from[b])
      BY <1>7, <1>12, <1>13
    <2>2. QED
      BY <1>3, <1>8, <2>1
  <1>15. d[b] + 1 = d[start]
    <2>1. d[b] \in Nat
      BY <1>3, <1>5, <1>12
    <2>2. QED
      BY <1>12, <1>13, <2>1
  <1>16. QED
    BY <1>2, <1>14, <1>15 DEF b

\* A*, as the code pops, skips and reopens, finds the first step of a shortest
\* way to the goal, and none only when no way leads there.
THEOREM FirstStepIsShortest ==
    ASSUME NEW g, Grid(g), NEW goal \in g, NEW start \in g, start # goal
    PROVE  LET d == Distances(g, goal)
               b == FirstStep(g, start, goal)
           IN  IF d[start] < Far(g) THEN b \in Neighbors(g, start) /\ d[b] + 1 = d[start]
               ELSE b = NoStep
  <1> DEFINE d == Distances(g, goal)
             s == Search(g, start, goal)
  <1>1. Metre(g, goal, d) /\ Far(g) \in Nat \ {0}
    BY Measured
  <1> HIDE DEF d
  <1>2. SearchInv(s, g, d, start, goal) /\ (s.found \/ s.open = {})
    BY <1>1, SearchEnds
  <1>3. FirstStep(g, start, goal) = IF s.found THEN FirstStepTile(s, g, start, goal) ELSE NoStep
    BY Zenon DEF FirstStep
  <1> HIDE DEF s
  <1>4. CASE s.found
    <2>1. goal \in DOMAIN s.score /\ s.score[goal] <= d[start]
      BY <1>2, <1>4 DEF SearchInv, Shortest
    <2>2. d[goal] = 0 /\ d[start] \in Nat
      BY <1>1 DEF Metre
    <2>3. /\ d[start] <= s.score[goal] + d[goal] /\ (d[goal] < Far(g) => d[start] < Far(g))
          /\ s.score[goal] \in Nat
      BY <1>2, <2>1 DEF SearchInv, Scored, Shaped
    <2>4. d[start] < Far(g) /\ s.score[goal] = d[start]
      BY <1>1, <2>1, <2>2, <2>3
    <2>5. LET b == FirstStepTile(s, g, start, goal)
          IN  b \in Neighbors(g, start) /\ d[b] + 1 = d[start]
      BY <1>1, <1>2, <2>1, <2>4, WalkBack
    <2>6. QED
      BY <1>3, <1>4, <2>4, <2>5 DEF d
  <1>5. CASE ~s.found
    <2>1. ~(d[start] < Far(g))
      <3>1. SUFFICES ASSUME d[start] < Far(g) PROVE FALSE
        OBVIOUS
      <3>2. \E o \in s.open : F(o, goal) <= d[start]
        BY <1>1, <1>2, <3>1, TightOpen
      <3>3. QED
        BY <1>2, <1>5, <3>2
    <2>2. QED
      BY <1>3, <1>5, <2>1 DEF d
  <1>6. QED
    BY <1>4, <1>5

-----------------------------------------------------------------------------
(* The bot.                                                                  *)

CacheHolds ==
    cache = NoCache \/ \E start, goal \in ground :
        start # goal /\ cache = Path(start, goal, FirstStep(ground, start, goal))

\* What a tick leaves behind: the cache is what a search from there would find.
NavInv ==
    /\ ground \in Grids /\ pos \in ground
    /\ dest \in ground \cup {Nowhere} /\ CacheHolds

LEMMA WayIs ==
    ASSUME ground \in Grids, NEW start \in ground, NEW goal \in ground, start # goal
    PROVE  /\ Way(start, goal).next = FirstStep(ground, start, goal)
           /\ Way(start, goal).length = Distances(ground, goal)[start]
  <1> DEFINE P(w) == w.start = start /\ w.goal = goal /\ w.grid = ground
             v == [start |-> start, goal |-> goal, grid |-> ground,
                   next |-> FirstStep(ground, start, goal),
                   length |-> Distances(ground, goal)[start]]
  <1>1. v \in WaysTo(goal, ground) /\ P(v)
    BY DEF WaysTo
  <1>2. v \in Ways
    <2> HIDE DEF v
    <2>1. v \in UNION {WaysTo(to, ground) : to \in ground}
      BY <1>1
    <2>2. QED
      BY <2>1 DEF Ways
  <1>3. ASSUME NEW w \in Ways, P(w) PROVE w = v
    <2>1. PICK g \in Grids : w \in UNION {WaysTo(to, g) : to \in g}
      BY <1>3 DEF Ways
    <2>2. PICK to \in g : w \in WaysTo(to, g)
      BY <2>1
    <2>3. PICK s \in g \ {to} : w = [start |-> s, goal |-> to, grid |-> g,
                                       next |-> FirstStep(g, s, to), length |-> Distances(g, to)[s]]
      BY <2>2 DEF WaysTo
    <2>4. s = start /\ to = goal /\ g = ground
      BY <1>3, <2>3
    <2>5. QED
      BY <2>3, <2>4
  <1>4. Way(start, goal) = CHOOSE w \in Ways : P(w)
    BY Zenon DEF Way
  <1>5. Way(start, goal) \in Ways /\ P(Way(start, goal))
    <2> HIDE DEF P, v
    <2>1. QED
      BY <1>1, <1>2, <1>4
  <1>6. Way(start, goal) = v
    BY <1>3, <1>5
  <1>7. QED
    BY <1>6

LEMMA MapFacts ==
    ASSUME ground \in Grids
    PROVE  Grid(ground) /\ NoStep \notin ground /\ Nowhere \notin ground
  <1>1. Grid(ground)
    BY GridsAssumption DEF Grid
  <1>2. QED
    BY <1>1 DEF Grid, NoStep, Nowhere

LEMMA DistanceIs ==
    ASSUME ground \in Grids, NEW start \in ground, NEW goal \in ground
    PROVE  Distance(start, goal) = Distances(ground, goal)[start]
  <1>1. Grid(ground)
    BY MapFacts
  <1>2. Distances(ground, goal)[goal] = 0
    BY <1>1, Measured DEF Metre
  <1>3. QED
    BY <1>2, WayIs DEF Distance

\* How the bot may steer to a goal
Steered(goal, to) ==
    IF goal = pos THEN to = pos
    ELSE IF Reachable(pos, goal)
         THEN to \in Neighbors(ground, pos) /\ Distance(to, goal) + 1 = Distance(pos, goal)
         ELSE to = NoStep

LEMMA SearchSteers ==
    ASSUME NavInv, NEW goal \in ground, goal # pos
    PROVE  /\ Steered(goal, FirstStep(ground, pos, goal))
           /\ FirstStep(ground, pos, goal) \in ground \cup {NoStep}
           /\ FirstStep(ground, pos, goal) # pos
  <1> DEFINE b == FirstStep(ground, pos, goal)
             d == Distances(ground, goal)
  <1>1. Grid(ground) /\ ground \in Grids /\ pos \in ground /\ NoStep \notin ground
    BY MapFacts DEF NavInv
  <1>2. IF d[pos] < Far(ground) THEN b \in Neighbors(ground, pos) /\ d[b] + 1 = d[pos] ELSE b = NoStep
    BY <1>1, FirstStepIsShortest
  <1> HIDE DEF b
  <1>3. Distance(pos, goal) = d[pos]
    BY <1>1, DistanceIs
  <1>4. CASE d[pos] < Far(ground)
    <2>1. b \in ground /\ b # pos
      BY <1>1, <1>2, <1>4, NextTo
    <2>2. Distance(b, goal) = d[b]
      BY <1>1, <2>1, DistanceIs
    <2> HIDE DEF d
    <2>3. Reachable(pos, goal)
      BY <1>3, <1>4 DEF Reachable
    <2>4. Steered(goal, b)
      BY <1>2, <1>3, <1>4, <2>2, <2>3 DEF Steered
    <2>5. QED
      BY <2>1, <2>4 DEF b
  <1>5. CASE ~(d[pos] < Far(ground))
    <2>1. b = NoStep /\ ~Reachable(pos, goal)
      BY <1>2, <1>3, <1>5 DEF Reachable
    <2>2. Steered(goal, b) /\ b # pos
      BY <1>1, <2>1 DEF Steered
    <2>3. QED
      BY <2>1, <2>2 DEF b
  <1>6. QED
    BY <1>4, <1>5

LEMMA CacheSteers ==
    ASSUME NavInv, NEW goal \in ground, goal # pos, CacheHit(goal)
    PROVE  cache.next = FirstStep(ground, pos, goal)
  <1>1. cache # NoCache /\ cache.start = pos /\ cache.goal = goal
    BY DEF CacheHit
  <1>2. PICK a \in ground, b \in ground : cache = Path(a, b, FirstStep(ground, a, b))
    BY <1>1 DEF NavInv, CacheHolds
  <1>3. cache.start = a /\ cache.goal = b /\ cache.next = FirstStep(ground, a, b)
    BY <1>2 DEF Path
  <1>4. QED
    BY <1>1, <1>3

\* What every way of heading for a goal has in common
Headed(goal) ==
    /\ aim' = goal
    /\ step' = IF goal = pos THEN pos ELSE FirstStep(ground, pos, goal)
    /\ \/ cache' = NoCache \/ cache' = cache
       \/ goal # pos /\ cache' = Path(pos, goal, FirstStep(ground, pos, goal))

LEMMA HeadIs ==
    ASSUME NavInv, NEW goal \in ground, Head(goal) \/ HeadAnew(goal)
    PROVE  Headed(goal)
  <1>1. ground \in Grids /\ pos \in ground
    BY DEF NavInv
  <1>2. goal # pos => Way(pos, goal).next = FirstStep(ground, pos, goal)
    BY <1>1, WayIs
  <1>3. goal # pos /\ CacheHit(goal) => cache.next = FirstStep(ground, pos, goal)
    BY CacheSteers
  <1>4. StepTo(goal) = IF goal = pos THEN pos ELSE FirstStep(ground, pos, goal)
    BY <1>2, <1>3 DEF StepTo
  <1>5. CASE Head(goal)
    BY <1>4, <1>5 DEF Head, CacheAfter, Headed
  <1>6. CASE HeadAnew(goal)
    BY <1>2, <1>6 DEF HeadAnew, Headed
  <1>7. QED
    BY <1>5, <1>6

LEMMA HeadedSteers ==
    ASSUME NavInv, NEW goal \in ground, Headed(goal), ground' = ground
    PROVE  Steered(aim', step') /\ step' \in ground \cup {NoStep} /\ CacheHolds'
  <1>1. pos \in ground
    BY DEF NavInv
  <1>2. goal # pos => /\ Steered(goal, FirstStep(ground, pos, goal))
                      /\ FirstStep(ground, pos, goal) \in ground \cup {NoStep}
    BY SearchSteers
  <1>3. Steered(aim', step') /\ step' \in ground \cup {NoStep}
    <2>1. CASE goal = pos
      BY <1>1, <2>1 DEF Headed, Steered
    <2>2. CASE goal # pos
      BY <1>2, <2>2 DEF Headed
    <2>3. QED
      BY <2>1, <2>2
  <1>4. CacheHolds'
    <2>1. \/ cache' = NoCache \/ cache' = cache
          \/ goal # pos /\ cache' = Path(pos, goal, FirstStep(ground, pos, goal))
      BY DEF Headed
    <2>2. \/ cache' = NoCache
          \/ \E start, to \in ground : start # to /\ cache' = Path(start, to, FirstStep(ground, start, to))
      BY <1>1, <2>1 DEF NavInv, CacheHolds
    <2>3. QED
      BY <2>2 DEF CacheHolds
  <1>5. QED
    BY <1>3, <1>4

\* What a tick decides, wherever the bot is then led
LEMMA Decides ==
    ASSUME NavInv, Explore \/ Chase \/ Cornered \/ Dodge
    PROVE  /\ ground' = ground /\ CacheHolds' /\ dest' \in ground \cup {Nowhere}
           /\ step' \in ground \cup {NoStep} /\ (aim' # Nowhere => Steered(aim', step'))
  <1>1. /\ ground \in Grids /\ pos \in ground /\ dest \in ground \cup {Nowhere} /\ CacheHolds
    BY DEF NavInv
  <1>2. CASE Explore
    <2>1. PICK goal \in Destinations : /\ IF goal = dest THEN Head(goal) ELSE HeadAnew(goal)
                                       /\ dest' = DestAfter(goal, step')
      BY <1>2 DEF Explore
    <2>2. goal \in ground
      BY <1>1, <2>1 DEF Destinations, Candidates
    <2>3. ground' = ground
      BY <1>2 DEF Explore
    <2>4. Headed(goal)
      BY <2>1, <2>2, HeadIs
    <2>5. dest' \in ground \cup {Nowhere}
      BY <2>1, <2>2 DEF DestAfter
    <2>6. QED
      BY <2>2, <2>3, <2>4, <2>5, HeadedSteers
  <1>3. CASE Chase
    <2>1. PICK goal \in ground : Head(goal)
      BY <1>3 DEF Chase
    <2>2. ground' = ground /\ dest' = dest
      BY <1>3 DEF Chase
    <2>3. Headed(goal)
      BY <2>1, HeadIs
    <2>4. QED
      BY <1>1, <2>2, <2>3, HeadedSteers
  <1>4. CASE Cornered
    BY <1>1, <1>4 DEF Cornered, CacheHolds
  <1>5. CASE Dodge
    BY <1>1, <1>5 DEF Dodge, CacheHolds
  <1>6. QED
    BY <1>2, <1>3, <1>4, <1>5

LEMMA NavStep ==
    ASSUME NavInv, [Next]_vars
    PROVE  /\ NavInv'
           /\ UNCHANGED vars \/ (aim' # Nowhere => Steered(aim', step'))
  <1>1. ground \in Grids /\ pos \in ground /\ dest \in ground \cup {Nowhere} /\ CacheHolds
    BY DEF NavInv
  <1>2. CASE Undisturbed
    <2>1. /\ ground' = ground /\ CacheHolds' /\ dest' \in ground \cup {Nowhere}
          /\ step' \in ground \cup {NoStep} /\ (aim' # Nowhere => Steered(aim', step'))
      BY <1>2, Decides DEF Undisturbed
    <2>2. pos' \in ground
      BY <1>1, <1>2, <2>1 DEF Undisturbed, Follow
    <2>3. QED
      BY <1>1, <2>1, <2>2 DEF NavInv
  <1>3. CASE Disturbed
    <2>1. /\ ground' = ground /\ CacheHolds' /\ dest' \in ground \cup {Nowhere}
          /\ (aim' # Nowhere => Steered(aim', step'))
      BY <1>3, Decides DEF Disturbed
    <2>2. pos' \in ground
      BY <1>3 DEF Disturbed, Astray
    <2>3. QED
      BY <1>1, <2>1, <2>2 DEF NavInv
  <1>4. CASE Quiet
    BY <1>1, <1>4 DEF Quiet, NavInv, CacheHolds
  <1>5. CASE UNCHANGED vars
    BY <1>1, <1>5 DEF vars, NavInv, CacheHolds
  <1>6. QED
    BY <1>2, <1>3, <1>4, <1>5 DEF Next

\* The cached first step is always the one a search would find now.
THEOREM NavInvariant == Spec => []NavInv
  <1>1. Init => NavInv
    BY DEF Init, NavInv, CacheHolds
  <1>2. NavInv /\ [Next]_vars => NavInv'
    BY NavStep
  <1>3. QED
    BY <1>1, <1>2, PTL DEF Spec

\* Every step to a goal, cached or searched for, is the first of a shortest way
\* there, and the bot stands still for want of a way only if there is none.
THEOREM StepsLeadThereAlways == Spec => StepsLeadThere
  <1>1. NavInv /\ [Next]_vars =>
           [LET goal == aim' IN
            goal # Nowhere =>
               IF goal = pos THEN step' = pos
               ELSE IF Reachable(pos, goal)
                    THEN /\ step' \in Neighbors(ground, pos)
                         /\ Distance(step', goal) + 1 = Distance(pos, goal)
                    ELSE step' = NoStep]_vars
    <2>1. SUFFICES ASSUME NavInv, [Next]_vars, ~UNCHANGED vars, aim' # Nowhere PROVE Steered(aim', step')
      BY Zenon DEF Steered
    <2>2. QED
      BY <2>1, NavStep
  <1>2. QED
    BY <1>1, NavInvariant, PTL DEF Spec, StepsLeadThere
=============================================================================
