------------------------------ MODULE AimProofs ------------------------------
(***************************************************************************)
(* The enemy that shoots down the player's lane is the lowest of the       *)
(* nearest column, for a formation of any size, with any losses.  The two  *)
(* searches of Aim are recursive functions on an interval of numbers; that *)
(* such a function exists, and what it computes, is proved here with the   *)
(* least number for which it would be wrong.                               *)
(***************************************************************************)
EXTENDS Aim, PatrolProofs

\* What holds of 0 and is handed on from each number to the next holds of all.
LEMMA StepByStep ==
  ASSUME NEW N \in Nat, NEW T, 0 \in T,
         \A n \in 1..N : n - 1 \in T => n \in T
  PROVE  \A n \in 0..N : n \in T
  <1> DEFINE wrong == (0..N) \ T
  <1> SUFFICES ASSUME wrong # {} PROVE FALSE
    OBVIOUS
  <1>1. wrong \in SUBSET Nat /\ IsFiniteSet(wrong)
    <2>1. IsFiniteSet(0..N)
      BY FS_Interval
    <2> QED BY <2>1, FS_Subset
  <1>2. PICK least \in wrong : \A n \in wrong : least <= n
    BY <1>1, LeastElement
  <1>3. least \in 1..N /\ least - 1 \in T
    <2>1. least # 0 /\ least \in 0..N
      OBVIOUS
    <2>2. least \in 1..N /\ least - 1 \in 0..N /\ ~(least <= least - 1)
      BY <2>1
    <2>3. least - 1 \notin wrong
      BY <1>2, <2>2
    <2> QED BY <2>2, <2>3
  <1> QED BY <1>3

\* f starts with first and takes each value from the one before, up to N.
Follows(f, N, first, G) == f[0] = first /\ \A n \in 1..N : f[n] = G[n][f[n - 1]]

\* Such a function exists.
LEMMA RecursionDefines ==
  ASSUME NEW N, NEW S, NEW first, NEW G,
         N \in Nat, first \in S, G \in [1..N -> [S -> S]]
  PROVE  \E f \in [0..N -> S] : Follows(f, N, first, G)
  <1> DEFINE T == {k \in 0..N : \E f \in [0..k -> S] : Follows(f, k, first, G)}
  <1>1. 0 \in T
    <2> DEFINE f == [i \in 0..0 |-> first]
    <2>1. f \in [0..0 -> S] /\ Follows(f, 0, first, G)
      BY DEF Follows
    <2> HIDE DEF f
    <2> QED BY <2>1
  <1>2. ASSUME NEW n \in 1..N, n - 1 \in T PROVE n \in T
    <2>0. n - 1 \in 0..N /\ n \in 0..N /\ (n - 1) + 1 = n
      OBVIOUS
    <2>1. PICK g \in [0..(n - 1) -> S] : Follows(g, n - 1, first, G)
      BY <1>2
    <2> DEFINE f == [i \in 0..n |-> IF i = n THEN G[n][g[n - 1]] ELSE g[i]]
    <2>2. g[n - 1] \in S /\ G[n][g[n - 1]] \in S
      OBVIOUS
    <2>3. \A i \in 0..n : i # n => i \in 0..(n - 1)
      OBVIOUS
    <2>4. f \in [0..n -> S]
      BY <2>2, <2>3
    <2>5. f[0] = first
      BY <2>1, <2>3 DEF Follows
    <2>6. ASSUME NEW i \in 1..n PROVE f[i] = G[i][f[i - 1]]
      <3>1. i \in 0..n /\ i - 1 \in 0..(n - 1) /\ i - 1 \in 0..n /\ i - 1 # n
        OBVIOUS
      <3>2. f[i - 1] = g[i - 1]
        BY <3>1
      <3>3. CASE i = n
        BY <3>1, <3>2, <3>3
      <3>4. CASE i # n
        <4>1. i \in 1..(n - 1) /\ f[i] = g[i]
          BY <3>1, <3>4
        <4> QED BY <2>1, <3>2, <4>1 DEF Follows
      <3> QED BY <3>3, <3>4
    <2>7. Follows(f, n, first, G)
      BY <2>5, <2>6 DEF Follows
    <2> HIDE DEF f
    <2> QED BY <2>0, <2>4, <2>7
  <1>3. N \in T
    <2> HIDE DEF T
    <2>1. \A n \in 0..N : n \in T
      BY <1>1, <1>2, StepByStep
    <2> QED BY <2>1
  <1> QED BY <1>3

\* The array has an index for every spot of the formation.
LEMMA SpotIndex ==
  ASSUME NEW row \in Rows, NEW col \in Columns
  PROVE  \E i \in 0..(NUM_ROWS * NUM_COLS - 1) : Spot(i) = <<row, col>>
  <1> DEFINE i == row * NUM_COLS + col
  <1>1. /\ NUM_COLS \in Nat \ {0} /\ NUM_ROWS \in Nat \ {0}
        /\ row \in Nat /\ col \in Nat /\ col < NUM_COLS /\ row + 1 <= NUM_ROWS
    BY PatrolAssumption DEF Rows, Columns
  <1>2. i \div NUM_COLS = row /\ i % NUM_COLS = col
    BY <1>1
  <1>3. i \in 0..(NUM_ROWS * NUM_COLS - 1)
    <2>1. (row + 1) * NUM_COLS <= NUM_ROWS * NUM_COLS
      BY <1>1
    <2>2. i < (row + 1) * NUM_COLS
      BY <1>1
    <2>3. i \in Nat /\ NUM_ROWS * NUM_COLS \in Nat
      BY <1>1
    <2> QED BY <1>1, <2>1, <2>2, <2>3
  <1> QED BY <1>2, <1>3 DEF Spot

\* What the search over the array knows after it has looked at some spots: the
\* nearest of their enemies, unless there is none.
Nearest(px, seen, found) ==
  \/ seen = {} /\ found = [leastDistance |-> FarAway, closestLane |-> 0]
  \/ \E e \in seen : /\ found = [leastDistance |-> Distance(px, e), closestLane |-> e[2]]
                     /\ \A f \in seen : Distance(px, e) <= Distance(px, f)

LEMMA DistanceIsNat ==
  ASSUME PatrolInv, NEW px \in Int, NEW e \in enemies
  PROVE  X(e) \in Int /\ Distance(px, e) \in Nat
  <1>1. X(e) \in Int
    BY WithinFormation
  <1>2. ASSUME NEW d \in Int PROVE d * d \in Nat
    OBVIOUS
  <1>3. px - X(e) \in Int
    BY <1>1
  <1> QED BY <1>1, <1>2, <1>3 DEF Distance

\* Looking at one more spot keeps that.
LEMMA LookAtSpot ==
  ASSUME PatrolInv, NEW px \in Int, \A e \in enemies : Distance(px, e) < FarAway,
         NEW seen \in SUBSET enemies, NEW found, Nearest(px, seen, found),
         NEW e \in enemies
  PROVE  Nearest(px, seen \cup {e},
           IF Distance(px, e) < found.leastDistance
           THEN [leastDistance |-> Distance(px, e), closestLane |-> e[2]]
           ELSE found)
  <1>1. \A f \in enemies : Distance(px, f) \in Nat
    BY DistanceIsNat
  <1>2. CASE seen = {} /\ found = [leastDistance |-> FarAway, closestLane |-> 0]
    BY <1>1, <1>2 DEF Nearest
  <1>3. ASSUME NEW d \in seen,
               found = [leastDistance |-> Distance(px, d), closestLane |-> d[2]],
               \A f \in seen : Distance(px, d) <= Distance(px, f)
        PROVE  Nearest(px, seen \cup {e},
                 IF Distance(px, e) < found.leastDistance
                 THEN [leastDistance |-> Distance(px, e), closestLane |-> e[2]]
                 ELSE found)
    <2>1. found.leastDistance = Distance(px, d)
      BY <1>3
    <2>2. CASE Distance(px, e) < Distance(px, d)
      <3>1. \A f \in seen \cup {e} : Distance(px, e) <= Distance(px, f)
        BY <1>1, <1>3, <2>2
      <3> QED BY <2>1, <2>2, <3>1 DEF Nearest
    <2>3. CASE ~(Distance(px, e) < Distance(px, d))
      <3>1. \A f \in seen \cup {e} : Distance(px, d) <= Distance(px, f)
        BY <1>1, <1>3, <2>3
      <3> QED BY <1>3, <2>1, <2>3, <3>1 DEF Nearest
    <2> QED BY <2>2, <2>3
  <1> QED BY <1>2, <1>3 DEF Nearest

\* The search over the whole array finds the nearest of all enemies in view.
LEMMA ScanFindsNearest ==
  ASSUME PatrolInv, NEW px \in Int \cup {NaN},
         \A e \in InView(px) : Distance(px, e) < FarAway
  PROVE  Nearest(px, InView(px), Scan(px))
  <1>0. InView(px) \subseteq enemies /\ (InView(px) # {} => px \in Int /\ InView(px) = enemies)
    BY DEF InView
  <1> DEFINE N == NUM_ROWS * NUM_COLS
             S == [leastDistance : Nat, closestLane : Nat]
             first == [leastDistance |-> FarAway, closestLane |-> 0]
             Look(n, m) ==
               LET e == Spot(n - 1)
               IN  IF e \in InView(px) /\ Distance(px, e) < m.leastDistance
                   THEN [leastDistance |-> Distance(px, e), closestLane |-> e[2]]
                   ELSE m
             G == [n \in 1..N |-> [m \in S |-> Look(n, m)]]
             nearest[n \in 0..N] == IF n = 0 THEN first ELSE Look(n, nearest[n - 1])
  <1>1. N \in Nat /\ N # 0
    BY PatrolAssumption
  <1>2. first \in S
    BY AimAssumption
  <1>3. ASSUME NEW n \in 1..N, NEW m \in S PROVE Look(n, m) \in S
    <2>1. CASE Spot(n - 1) \in InView(px)
      <3>1. Distance(px, Spot(n - 1)) \in Nat /\ Spot(n - 1)[2] \in Nat
        BY <1>0, <2>1, DistanceIsNat, PatrolAssumption DEF PatrolInv, Columns
      <3> QED BY <3>1
    <2>2. CASE Spot(n - 1) \notin InView(px)
      BY <2>2
    <2> QED BY <2>1, <2>2
  <1> HIDE DEF N, S, Look
  <1>4. G \in [1..N -> [S -> S]]
    BY <1>3
  <1>5. PICK f \in [0..N -> S] : Follows(f, N, first, G)
    <2> HIDE DEF G, first, nearest
    <2> QED BY <1>1, <1>2, <1>4, RecursionDefines
  <1>6. \A n \in 1..N : f[n] = Look(n, f[n - 1])
    <2>1. \A n \in 1..N : n - 1 \in 0..N
      BY <1>1
    <2> QED BY <1>5, <2>1 DEF Follows
  <1>7. f = [n \in 0..N |-> IF n = 0 THEN first ELSE Look(n, f[n - 1])]
    <2>1. \A n \in 0..N : n # 0 => n \in 1..N
      BY <1>1
    <2>2. \A n \in 0..N : f[n] = IF n = 0 THEN first ELSE Look(n, f[n - 1])
      BY <1>5, <1>6, <2>1 DEF Follows
    <2> QED BY <2>2
  <1>8. nearest = [n \in 0..N |-> IF n = 0 THEN first ELSE Look(n, nearest[n - 1])]
    <2>1. \E g : g = [n \in 0..N |-> IF n = 0 THEN first ELSE Look(n, g[n - 1])]
      BY <1>7
    <2> QED BY <2>1
  <1>9. Scan(px) = nearest[N]
    BY DEF Scan, N, Look
  <1> HIDE DEF nearest, first
  <1> DEFINE Seen(n) == {e \in InView(px) : \E i \in 0..(n - 1) : Spot(i) = e}
             T == {n \in 0..N : Nearest(px, Seen(n), nearest[n])}
  <1>10. 0 \in T
    <2>1. Seen(0) = {} /\ nearest[0] = first
      BY <1>1, <1>8
    <2> QED BY <1>1, <2>1 DEF Nearest, first
  <1>11. ASSUME NEW n \in 1..N, n - 1 \in T PROVE n \in T
    <2>1. n \in 0..N /\ n # 0 /\ n - 1 \in 0..N /\ nearest[n] = Look(n, nearest[n - 1])
      BY <1>1, <1>8
    <2>2. \A i : i \in 0..(n - 1) <=> i \in 0..((n - 1) - 1) \/ i = n - 1
      BY <2>1
    <2>3. CASE Spot(n - 1) \in InView(px)
      <3>1. Seen(n) = Seen(n - 1) \cup {Spot(n - 1)}
        BY <2>2, <2>3
      <3>2. Nearest(px, Seen(n - 1), nearest[n - 1]) /\ Seen(n - 1) \in SUBSET enemies
        BY <1>0, <1>11
      <3>3. Nearest(px, Seen(n), Look(n, nearest[n - 1]))
        <4> HIDE DEF Seen
        <4>1. px \in Int /\ InView(px) = enemies
          BY <1>0, <2>3
        <4> QED BY <2>3, <3>1, <3>2, <4>1, LookAtSpot DEF Look
      <3> QED BY <2>1, <3>3
    <2>4. CASE Spot(n - 1) \notin InView(px)
      <3>1. Seen(n) = Seen(n - 1)
        BY <2>2, <2>4
      <3> QED BY <1>11, <2>1, <2>4, <3>1 DEF Look
    <2> QED BY <2>3, <2>4
  <1>12. N \in T
    <2> HIDE DEF T
    <2>1. \A n \in 0..N : n \in T
      BY <1>1, <1>10, <1>11, StepByStep
    <2> QED BY <1>1, <2>1
  <1>13. Seen(N) = InView(px)
    <2>1. ASSUME NEW e \in InView(px) PROVE \E i \in 0..(N - 1) : Spot(i) = e
      <3>1. e = <<e[1], e[2]>> /\ e[1] \in Rows /\ e[2] \in Columns
        BY <1>0 DEF PatrolInv
      <3> QED BY <3>1, SpotIndex DEF N
    <2> QED BY <2>1
  <1> QED BY <1>9, <1>12, <1>13

\* The search up a column with an enemy ends at the lowest enemy in it.
LEMMA LowestInLane ==
  ASSUME PatrolInv, NEW d \in enemies
  PROVE  \E row \in Rows :
           /\ LowestIn(d[2]) = <<row, d[2]>> /\ <<row, d[2]>> \in enemies
           /\ \A q \in Rows : <<q, d[2]>> \in enemies => q <= row
  <1> DEFINE N == NUM_ROWS - 1
             lane == d[2]
             S == (Rows \X Columns) \cup {Spot(0)}
             At(row, otherwise) ==
               IF <<row, lane>> \in enemies THEN <<row, lane>> ELSE otherwise
             first == At(0, Spot(0))
             G == [row \in 1..N |-> [s \in S |-> At(row, s)]]
             upFrom[row \in Rows] ==
               IF <<row, lane>> \in enemies THEN <<row, lane>>
               ELSE IF row = 0 THEN Spot(0) ELSE upFrom[row - 1]
  <1>1. N \in Nat /\ Rows = 0..N /\ 1..N \subseteq Rows /\ 0 \in Rows /\ N \in Rows
    BY PatrolAssumption DEF Rows
  <1>2. lane \in Columns /\ d[1] \in Rows /\ d = <<d[1], lane>>
    BY DEF PatrolInv
  <1>3. first \in S
    BY <1>1, <1>2
  <1>4. G \in [1..N -> [S -> S]]
    BY <1>1, <1>2
  <1>5. PICK f \in [0..N -> S] : Follows(f, N, first, G)
    <2> HIDE DEF N, S, G, first, upFrom
    <2> QED BY <1>1, <1>3, <1>4, RecursionDefines
  <1> HIDE DEF N, S
  <1>6. f = [row \in Rows |-> IF <<row, lane>> \in enemies THEN <<row, lane>>
                              ELSE IF row = 0 THEN Spot(0) ELSE f[row - 1]]
    <2>1. f[0] = first /\ \A row \in 1..N : f[row] = At(row, f[row - 1])
      <3>1. \A row \in 1..N : row - 1 \in 0..N
        BY <1>1
      <3> QED BY <1>5, <3>1 DEF Follows
    <2>2. \A row \in Rows : row # 0 => row \in 1..N
      BY <1>1
    <2>3. \A row \in Rows : f[row] = IF <<row, lane>> \in enemies THEN <<row, lane>>
                                     ELSE IF row = 0 THEN Spot(0) ELSE f[row - 1]
      BY <2>1, <2>2
    <2> QED BY <1>1, <2>3
  <1>7. upFrom = [row \in Rows |-> IF <<row, lane>> \in enemies THEN <<row, lane>>
                                   ELSE IF row = 0 THEN Spot(0) ELSE upFrom[row - 1]]
    <2>1. \E g : g = [row \in Rows |-> IF <<row, lane>> \in enemies THEN <<row, lane>>
                                       ELSE IF row = 0 THEN Spot(0) ELSE g[row - 1]]
      BY <1>6
    <2> QED BY <2>1
  <1>8. LowestIn(lane) = upFrom[N]
    BY DEF LowestIn, N
  <1> HIDE DEF upFrom, lane
  <1> DEFINE Found(n) ==
               \/ \A q \in 0..n : <<q, lane>> \notin enemies
               \/ \E row \in 0..n :
                    /\ upFrom[n] = <<row, lane>> /\ <<row, lane>> \in enemies
                    /\ \A q \in 0..n : <<q, lane>> \in enemies => q <= row
             T == {n \in 0..N : Found(n)}
  <1>9. 0 \in T
    <2>1. CASE <<0, lane>> \in enemies
      <3>1. upFrom[0] = <<0, lane>>
        BY <1>1, <1>7, <2>1
      <3> QED BY <1>1, <2>1, <3>1
    <2>2. CASE <<0, lane>> \notin enemies
      BY <1>1, <2>2
    <2> QED BY <2>1, <2>2
  <1>10. ASSUME NEW n \in 1..N, n - 1 \in T PROVE n \in T
    <2>1. n \in 0..N /\ n \in Rows /\ n # 0 /\ n \in 0..n
      BY <1>1
    <2>2. \A q : q \in 0..n <=> q \in 0..(n - 1) \/ q = n
      BY <2>1
    <2>3. CASE <<n, lane>> \in enemies
      <3>1. upFrom[n] = <<n, lane>>
        BY <1>7, <2>1, <2>3
      <3>2. \A q \in 0..n : q <= n
        BY <2>1
      <3> QED BY <2>1, <2>3, <3>1, <3>2
    <2>4. CASE <<n, lane>> \notin enemies
      <3>1. upFrom[n] = upFrom[n - 1]
        BY <1>7, <2>1, <2>4
      <3>2. Found(n - 1)
        BY <1>10
      <3>3. Found(n)
        BY <2>2, <2>4, <3>1, <3>2
      <3> QED BY <2>1, <3>3
    <2> QED BY <2>3, <2>4
  <1>11. Found(N)
    <2> HIDE DEF T
    <2>1. \A n \in 0..N : n \in T
      BY <1>1, <1>9, <1>10, StepByStep
    <2>2. N \in 0..N
      BY <1>1
    <2>3. N \in T
      BY <2>1, <2>2
    <2> QED BY <2>3 DEF T
  <1>12. PICK row \in 0..N :
           /\ upFrom[N] = <<row, lane>> /\ <<row, lane>> \in enemies
           /\ \A q \in 0..N : <<q, lane>> \in enemies => q <= row
    BY <1>1, <1>2, <1>11
  <1> QED BY <1>1, <1>8, <1>12 DEF lane
-----------------------------------------------------------------------------
\* As far as an enemy may be from the player, the search starts with more.
InSight ==
  \A px \in PlayerPlaces \ {NaN}, x \in Int :
    LeftBound < x + ENEMY_WIDTH /\ x < RightBound + BoundWidth
      => (px - x) * (px - x) < FarAway

LEMMA Squares == \A a, b \in Nat : a * a <= b * b => a <= b
  <1> SUFFICES ASSUME NEW a \in Nat, NEW b \in Nat, a * a <= b * b, b < a PROVE FALSE
    OBVIOUS
  <1>1. b * b <= b * a /\ b * a < a * a
    OBVIOUS
  <1> QED BY <1>1

LEMMA AimIsRight == ASSUME InSight, PatrolInv PROVE AimsAtNearest
  <1> SUFFICES ASSUME NEW px \in PlayerPlaces
               PROVE  LET s == LaneShooter(px)
                          Gap(e) == IF px > X(e) THEN px - X(e) ELSE X(e) - px
                          Below(e) == e[2] = s[2] /\ e[1] > s[1]
                      IN  /\ FindsNobody(px) <=> enemies = {} \/ px = NaN
                          /\ ~FindsNobody(px) =>
                               /\ s \in enemies
                               /\ \A e \in enemies : Gap(s) <= Gap(e) /\ ~Below(e)
    BY DEF AimsAtNearest
  <1> DEFINE s == LaneShooter(px)
             Gap(e) == IF px > X(e) THEN px - X(e) ELSE X(e) - px
             Below(e) == e[2] = s[2] /\ e[1] > s[1]
  <1>1. CASE enemies = {} \/ px = NaN
    <2>1. px \in Int \cup {NaN} /\ InView(px) = {}
      BY <1>1, AimAssumption DEF InView
    <2>2. Nearest(px, {}, Scan(px))
      BY <2>1, ScanFindsNearest
    <2> QED BY <1>1, <2>2 DEF Nearest, FindsNobody
  <1>2. CASE enemies # {} /\ px # NaN
    <2>1. px \in Int /\ FarAway \in Nat
      BY <1>2, AimAssumption
    <2>2. \A e \in enemies : X(e) \in Int /\ Distance(px, e) \in Nat
      BY <2>1, DistanceIsNat
    <2>3. \A e \in enemies : Distance(px, e) < FarAway
      BY <1>2, <2>2 DEF InSight, Distance, PatrolInv, NeverPastBounds
    <2>4. Nearest(px, enemies, Scan(px))
      BY <1>2, <2>1, <2>3, ScanFindsNearest DEF InView
    <2>5. PICK d \in enemies :
            /\ Scan(px) = [leastDistance |-> Distance(px, d), closestLane |-> d[2]]
            /\ \A e \in enemies : Distance(px, d) <= Distance(px, e)
      BY <1>2, <2>4 DEF Nearest
    <2>6. ~FindsNobody(px)
      BY <2>1, <2>2, <2>3, <2>5 DEF FindsNobody
    <2>7. PICK row \in Rows :
            /\ s = <<row, d[2]>> /\ s \in enemies
            /\ \A q \in Rows : <<q, d[2]>> \in enemies => q <= row
      <3>1. s = LowestIn(d[2])
        BY <2>5 DEF LaneShooter
      <3> HIDE DEF s
      <3> QED BY <3>1, LowestInLane
    <2>8. ASSUME NEW e \in enemies PROVE ~Below(e)
      <3>1. e[1] \in Rows /\ e = <<e[1], e[2]>>
        BY DEF PatrolInv
      <3>2. row \in Nat /\ e[1] \in Nat
        BY <3>1, PatrolAssumption DEF Rows
      <3> SUFFICES ASSUME e[2] = d[2] PROVE e[1] <= row
        BY <2>7, <3>2
      <3> QED BY <2>7, <3>1
    <2>9. ASSUME NEW e \in enemies PROVE Gap(s) <= Gap(e)
      <3>1. X(s) = X(d)
        BY <2>7 DEF X
      <3>2. \A f \in enemies :
              Gap(f) \in Nat /\ Distance(px, f) = Gap(f) * Gap(f)
        <4> SUFFICES ASSUME NEW f \in enemies
                     PROVE  Gap(f) \in Nat /\ Distance(px, f) = Gap(f) * Gap(f)
          OBVIOUS
        <4>1. X(f) \in Int
          BY <2>2
        <4>2. (px - X(f)) * (px - X(f)) = (X(f) - px) * (X(f) - px)
          BY <2>1, <4>1
        <4> QED BY <2>1, <4>1, <4>2 DEF Distance
      <3>3. Distance(px, d) <= Distance(px, e)
        BY <2>5
      <3>4. Gap(d) <= Gap(e)
        <4> HIDE DEF Gap
        <4> QED BY <3>2, <3>3, Squares
      <3> QED BY <3>1, <3>4
    <2> QED BY <1>2, <2>6, <2>7, <2>8, <2>9
  <1> QED BY <1>1, <1>2

\* Wherever the player is and whoever was shot, the enemy that shoots down the
\* lane is the lowest of the nearest column: for any formation that cannot
\* pass its bounds, and a player who is always in sight or nowhere.
THEOREM ShootsFromNearest ==
  ASSUME \A n \in DOMAIN Reach : Reach[n] < ENEMY_WIDTH + BoundWidth, InSight
  PROVE  Spec => []AimsAtNearest
  <1>1. PatrolInv /\ [Next]_vars => PatrolInv'
    BY PatrolNext
  <1>2. PatrolInv => AimsAtNearest
    BY AimIsRight
  <1> QED BY PatrolInit, <1>1, <1>2, PTL DEF Spec
=============================================================================
