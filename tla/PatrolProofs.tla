---------------------------- MODULE PatrolProofs ----------------------------
(***************************************************************************)
(* The formation cannot pass a bound when the farthest it moves in a frame *)
(* is shorter than an enemy and the bound together.                        *)
(***************************************************************************)
EXTENDS Patrol, FiniteSetTheorems, WellFoundedInduction, TLAPS

\* What the steps of the patrol preserve.
PatrolInv ==
  /\ isMovingRight \in BOOLEAN
  /\ enemies \subseteq Rows \X Columns
  /\ left \in Int
  /\ NeverPastBounds

\* The speed of the formation is looked up at a count it has.
LEMMA ReachOfEnemies ==
  ASSUME enemies \subseteq Rows \X Columns, enemies # {}
  PROVE  Cardinality(enemies) \in DOMAIN Reach /\ Reach[Cardinality(enemies)] \in Nat
  <1>1. IsFiniteSet(Rows) /\ Cardinality(Rows) = NUM_ROWS
    BY FS_Interval, PatrolAssumption DEF Rows
  <1>2. IsFiniteSet(Columns) /\ Cardinality(Columns) = NUM_COLS
    BY FS_Interval, PatrolAssumption DEF Columns
  <1>3. IsFiniteSet(Rows \X Columns) /\ Cardinality(Rows \X Columns) = NUM_ROWS * NUM_COLS
    BY <1>1, <1>2, FS_Product
  <1>4. IsFiniteSet(enemies) /\ Cardinality(enemies) <= NUM_ROWS * NUM_COLS
    BY <1>3, FS_Subset
  <1>5. Cardinality(enemies) \in Nat /\ Cardinality(enemies) # 0
    BY <1>4, FS_CardinalityType, FS_EmptySet
  <1>6. Cardinality(enemies) \in 1..NUM_ROWS * NUM_COLS
    BY <1>4, <1>5, PatrolAssumption
  <1> QED BY <1>6, PatrolAssumption

\* A non-empty finite set of natural numbers has a least element: the one with
\* the smallest set of elements up to it.
LEMMA LeastElement ==
  ASSUME NEW S \in SUBSET Nat, S # {}, IsFiniteSet(S)
  PROVE  \E least \in S : \A n \in S : least <= n
  <1> DEFINE upTo(x) == {n \in S : n <= x}
             family == {upTo(x) : x \in S}
  <1>1. family \subseteq FiniteSubsetsOf(S) /\ family # {}
    <2>1. \A x \in S : upTo(x) \in SUBSET S
      OBVIOUS
    <2>2. \A T \in SUBSET S : T \in FiniteSubsetsOf(S)
      BY FS_FiniteSubsetsOfFinite
    <2> QED BY <2>1, <2>2
  <1>2. IsWellFoundedOn(StrictSubsetOrdering(S), FiniteSubsetsOf(S))
    BY FS_StrictSubsetOrderingWellFounded
  <1>3. PICK T \in family : \A U \in family : ~(<<U, T>> \in StrictSubsetOrdering(S))
    <2> HIDE DEF family
    <2> QED BY <1>1, <1>2, WFMin
  <1>4. PICK least \in S : T = upTo(least)
    OBVIOUS
  <1>5. ASSUME NEW n \in S PROVE least <= n
    <2> SUFFICES ASSUME n < least PROVE FALSE
      OBVIOUS
    <2>0. n \in Nat /\ least \in Nat
      OBVIOUS
    <2>1. upTo(n) \subseteq upTo(least) /\ least \in upTo(least) /\ least \notin upTo(n)
      <3>1. ASSUME NEW m \in upTo(n) PROVE m \in upTo(least)
        <4>1. m \in S /\ m \in Nat /\ m <= n
          OBVIOUS
        <4> QED BY <4>1, <2>0
      <3>2. least \in upTo(least) /\ least \notin upTo(n)
        BY <2>0
      <3> QED BY <3>1, <3>2
    <2>2. <<upTo(n), upTo(least)>> \in StrictSubsetOrdering(S)
      BY <2>1 DEF StrictSubsetOrdering
    <2>3. upTo(n) \in family
      OBVIOUS
    <2> QED BY <1>3, <1>4, <2>2, <2>3
  <1> QED BY <1>5

\* With an enemy on the board, one of the enemies is foremost.
LEMMA ForemostExists ==
  ASSUME isMovingRight \in BOOLEAN, enemies \subseteq Rows \X Columns, enemies # {}
  PROVE  \E e \in enemies : Foremost(e)
  <1>1. \A e \in enemies : e[2] \in 0..(NUM_COLS - 1)
    BY DEF Columns
  <1>0. ASSUME NEW S \in SUBSET (0..(NUM_COLS - 1)) PROVE IsFiniteSet(S)
    <2>1. IsFiniteSet(0..(NUM_COLS - 1))
      BY FS_Interval, PatrolAssumption
    <2> QED BY <2>1, FS_Subset
  <1>2. CASE isMovingRight
    <2> DEFINE ahead == {NUM_COLS - 1 - e[2] : e \in enemies}
    <2>0. ahead \subseteq 0..(NUM_COLS - 1)
      BY <1>1, PatrolAssumption
    <2>1. ahead \in SUBSET Nat /\ ahead # {} /\ IsFiniteSet(ahead)
      BY <2>0, <1>0
    <2>2. PICK least \in ahead : \A n \in ahead : least <= n
      BY <2>1, LeastElement
    <2>3. PICK e \in enemies : least = NUM_COLS - 1 - e[2]
      BY <2>2
    <2>4. ASSUME NEW f \in enemies PROVE e[2] >= f[2]
      <3>1. NUM_COLS - 1 - e[2] <= NUM_COLS - 1 - f[2]
        BY <2>2, <2>3
      <3> QED BY <3>1, <1>1, PatrolAssumption
    <2> QED BY <1>2, <2>4 DEF Foremost
  <1>3. CASE ~isMovingRight
    <2> DEFINE cols == {e[2] : e \in enemies}
    <2>0. cols \subseteq 0..(NUM_COLS - 1)
      BY <1>1
    <2>1. cols \in SUBSET Nat /\ cols # {} /\ IsFiniteSet(cols)
      BY <2>0, <1>0
    <2>2. PICK least \in cols : \A n \in cols : least <= n
      BY <2>1, LeastElement
    <2>3. PICK e \in enemies : least = e[2]
      BY <2>2
    <2>4. ASSUME NEW f \in enemies PROVE e[2] <= f[2]
      BY <2>2, <2>3
    <2> QED BY <1>3, <2>4 DEF Foremost
  <1> QED BY <1>2, <1>3

LEMMA PatrolInit == Init => PatrolInv
  <1> SUFFICES ASSUME Init PROVE PatrolInv
    OBVIOUS
  <1>1. ASSUME NEW e \in enemies
        PROVE  X(e) + ENEMY_WIDTH > LeftBound /\ X(e) < RightBound + BoundWidth
    <2>1. e[2] \in 0..(NUM_COLS - 1)
      BY DEF Init, Columns
    <2>2. X(e) >= Start /\ X(e) <= Start + 50 * (NUM_COLS - 1)
      BY <2>1, PatrolAssumption DEF Init, X
    <2> QED BY <2>1, <2>2, PatrolAssumption DEF X, Init
  <1> QED BY <1>1, PatrolAssumption DEF Init, PatrolInv, NeverPastBounds

\* Moving towards a bound that the foremost enemy does not touch leaves every
\* enemy on the near side of both bounds.
LEMMA SidewaysKeeps ==
  ASSUME \A n \in DOMAIN Reach : Reach[n] < ENEMY_WIDTH + BoundWidth,
         PatrolInv, Sideways
  PROVE  PatrolInv'
  <1> USE DEF PatrolInv
  <1>1. PICK distance \in 0..Reach[Cardinality(enemies)] :
          left' = IF isMovingRight THEN left + distance ELSE left - distance
    BY DEF Sideways
  <1>2. distance \in Nat /\ distance < ENEMY_WIDTH + BoundWidth
    BY ReachOfEnemies, PatrolAssumption DEF Sideways
  <1>3. left' \in Int
    BY <1>1, <1>2
  <1>4. enemies' \subseteq enemies
    BY DEF Sideways, Losses
  <1>5. PICK front \in enemies : Foremost(front)
    BY ForemostExists DEF Sideways
  <1>6. ASSUME NEW e \in enemies
        PROVE  X(e)' + ENEMY_WIDTH > LeftBound /\ X(e)' < RightBound + BoundWidth
    <2>1. e[2] \in Int /\ front[2] \in Int
      BY PatrolAssumption DEF Columns
    <2>0. X(e) \in Int /\ X(front) \in Int
      BY <2>1 DEF X
    <2>2. X(e) + ENEMY_WIDTH > LeftBound /\ X(e) < RightBound + BoundWidth
          /\ X(front) + ENEMY_WIDTH > LeftBound /\ X(front) < RightBound + BoundWidth
      BY DEF NeverPastBounds
    <2>3. CASE isMovingRight
      <3>1. X(front) + ENEMY_WIDTH <= RightBound
        BY <1>5, <2>1, <2>2, <2>3, PatrolAssumption DEF Sideways, AtBound, Touches, X
      <3>2. X(e) <= X(front)
        BY <1>5, <2>1, <2>3 DEF Foremost, X
      <3>3. X(e)' = X(e) + distance
        BY <1>1, <1>2, <2>1, <2>3 DEF X
      <3> QED BY <1>2, <2>0, <2>2, <3>1, <3>2, <3>3, PatrolAssumption
    <2>4. CASE ~isMovingRight
      <3>1. X(front) >= LeftBound + BoundWidth
        BY <1>5, <2>1, <2>2, <2>4, PatrolAssumption DEF Sideways, AtBound, Touches, X
      <3>2. X(e) >= X(front)
        BY <1>5, <2>1, <2>4 DEF Foremost, X
      <3>3. X(e)' = X(e) - distance
        BY <1>1, <1>2, <2>1, <2>4 DEF X
      <3> QED BY <1>2, <2>0, <2>2, <3>1, <3>2, <3>3, PatrolAssumption
    <2> QED BY <2>3, <2>4
  <1>7. NeverPastBounds'
    BY <1>4, <1>6 DEF NeverPastBounds, X
  <1> QED BY <1>3, <1>4, <1>7 DEF Sideways

LEMMA TurnKeeps == PatrolInv /\ Turn => PatrolInv'
  <1> SUFFICES ASSUME PatrolInv, Turn PROVE PatrolInv'
    OBVIOUS
  <1>1. enemies' \subseteq enemies
    BY DEF Turn, Losses
  <1>2. left' = left /\ isMovingRight' \in BOOLEAN
    BY DEF Turn
  <1> QED BY <1>1, <1>2 DEF PatrolInv, NeverPastBounds, X

LEMMA PatrolNext ==
  ASSUME \A n \in DOMAIN Reach : Reach[n] < ENEMY_WIDTH + BoundWidth,
         PatrolInv, [Next]_vars
  PROVE  PatrolInv'
  <1>1. CASE Turn
    BY <1>1, TurnKeeps
  <1>2. CASE Sideways
    BY <1>2, SidewaysKeeps
  <1>3. CASE NobodyToMove \/ UNCHANGED vars
    BY <1>3 DEF NobodyToMove, vars, PatrolInv, NeverPastBounds, X
  <1> QED BY <1>1, <1>2, <1>3 DEF Next

\* No enemy gets behind a bound, whatever the size of the formation and of
\* the window and whoever is shot, when no frame moves an enemy by more than
\* itself and the bound.
THEOREM EnemiesStayBetween ==
  ASSUME \A n \in DOMAIN Reach : Reach[n] < ENEMY_WIDTH + BoundWidth
  PROVE  Spec => []NeverPastBounds
  <1>1. PatrolInv /\ [Next]_vars => PatrolInv'
    BY PatrolNext
  <1>2. PatrolInv => NeverPastBounds
    BY DEF PatrolInv
  <1> QED BY PatrolInit, <1>1, <1>2, PTL DEF Spec
-----------------------------------------------------------------------------
\* After a turn the formation stands where the enemy that touched a bound saw
\* it: not further from that bound than it is wide itself.
TurnedInv ==
  step = "down" =>
    IF isMovingRight THEN left < LeftBound + BoundWidth
    ELSE left + 50 * (NUM_COLS - 1) + ENEMY_WIDTH > RightBound

\* Every enemy is between the first column and the last.
LEMMA WithinFormation ==
  ASSUME PatrolInv, NEW e \in enemies
  PROVE  X(e) \in Int /\ left <= X(e) /\ X(e) <= left + 50 * (NUM_COLS - 1)
  <1>1. e[2] \in 0..(NUM_COLS - 1)
    BY DEF PatrolInv, Columns
  <1> QED BY <1>1, PatrolAssumption DEF PatrolInv, X

LEMMA TurnTurns == ASSUME PatrolInv, Turn PROVE TurnedInv'
  <1>1. /\ left' = left /\ isMovingRight' = ~isMovingRight /\ isMovingRight \in BOOLEAN
    BY DEF Turn, PatrolInv
  <1>2. PICK e \in enemies : Touches(X(e), IF isMovingRight THEN RightBound ELSE LeftBound)
    BY DEF Turn, AtBound
  <1>3. X(e) \in Int /\ left <= X(e) /\ X(e) <= left + 50 * (NUM_COLS - 1)
    BY WithinFormation
  <1>4. left \in Int /\ 50 * (NUM_COLS - 1) \in Nat
    BY PatrolAssumption DEF PatrolInv
  <1>5. CASE isMovingRight
    <2>1. X(e) + ENEMY_WIDTH > RightBound
      BY <1>2, <1>5 DEF Touches
    <2>2. left + 50 * (NUM_COLS - 1) + ENEMY_WIDTH > RightBound
      BY <1>3, <1>4, <2>1, PatrolAssumption
    <2> QED BY <1>1, <1>5, <2>2 DEF TurnedInv
  <1>6. CASE ~isMovingRight
    <2>1. X(e) < LeftBound + BoundWidth
      BY <1>2, <1>6 DEF Touches
    <2>2. left < LeftBound + BoundWidth
      BY <1>3, <1>4, <2>1, PatrolAssumption
    <2> QED BY <1>1, <1>6, <2>2 DEF TurnedInv
  <1> QED BY <1>5, <1>6

\* With room between the bounds for the formation, it is not at the other
\* bound when it has turned at one.
LEMMA NotAtBothBounds ==
  ASSUME LeftBound + BoundWidth + 50 * (NUM_COLS - 1) + ENEMY_WIDTH <= RightBound,
         PatrolInv, TurnedInv, step = "down"
  PROVE  ~Turn
  <1> SUFFICES ASSUME Turn PROVE FALSE
    OBVIOUS
  <1>1. PICK e \in enemies : Touches(X(e), IF isMovingRight THEN RightBound ELSE LeftBound)
    BY DEF Turn, AtBound
  <1>2. X(e) \in Int /\ left <= X(e) /\ X(e) <= left + 50 * (NUM_COLS - 1)
    BY WithinFormation
  <1> QED BY <1>1, <1>2, PatrolAssumption DEF Touches, TurnedInv, PatrolInv

\* The formation comes down once at an edge and then moves away from it,
\* wherever the bounds are that leave it room and whoever is shot meanwhile.
THEOREM TurnsOnce ==
  ASSUME \A n \in DOMAIN Reach : Reach[n] < ENEMY_WIDTH + BoundWidth,
         LeftBound + BoundWidth + 50 * (NUM_COLS - 1) + ENEMY_WIDTH <= RightBound
  PROVE  Spec => DescendsOnce
  <1>1. Init => PatrolInv /\ TurnedInv
    BY PatrolInit DEF Init, TurnedInv
  <1>2. PatrolInv /\ [Next]_vars => PatrolInv'
    BY PatrolNext
  <1>3. ASSUME PatrolInv, TurnedInv, [Next]_vars PROVE TurnedInv'
    <2>1. CASE Sideways
      BY <2>1 DEF Sideways, TurnedInv
    <2>2. CASE NobodyToMove \/ UNCHANGED vars
      BY <1>3, <2>2 DEF NobodyToMove, vars, TurnedInv
    <2> QED BY <1>3, <2>1, <2>2, TurnTurns DEF Next
  <1>4. ASSUME PatrolInv, TurnedInv, [Next]_vars
        PROVE  [step = "down" => step' # "down"]_vars
    <2> SUFFICES ASSUME Next, step = "down" PROVE step' # "down"
      BY <1>4
    <2>1. ~Turn
      BY <1>4, NotAtBothBounds
    <2> QED BY <2>1 DEF Next, Sideways, NobodyToMove
  <1> QED BY <1>1, <1>2, <1>3, <1>4, PTL DEF Spec, DescendsOnce
=============================================================================
