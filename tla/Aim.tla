--------------------------------- MODULE Aim ---------------------------------
(***************************************************************************)
(* Which enemy shoots down the player's lane: the first half of            *)
(* makeEnemiesShoot, on the formation as the patrol moves it.  Game lets   *)
(* the lowest enemy of any column shoot; here the search is modelled that  *)
(* picks the column.                                                       *)
(***************************************************************************)
EXTENDS Patrol

CONSTANTS
  FarAway,        \* leastDistance before anything is found, 900000 in the code
  NaN,            \* the x coordinate of a player whom a script has sent nowhere
  PlayerPlaces    \* x coordinates the player may have

ASSUME AimAssumption ==
  /\ FarAway \in Nat
  /\ NaN \notin Int
  /\ PlayerPlaces \subseteq Int \cup {NaN}

\* The place of the enemy at an index of the array.
Spot(i) == <<i \div NUM_COLS, i % NUM_COLS>>

\* Mutant: the difference is not squared.
Difference(px, e) == px - X(e)

\* The square of the distance along the x axis.
Distance(px, e) == (px - X(e)) * (px - X(e))

\* The enemies that can be near: no distance from a NaN is less than another.
InView(px) == IF px = NaN THEN {} ELSE enemies

\* The nearest lane among the first n indices, the first of equals.
Scan(px) ==
  LET nearest[n \in 0..NUM_ROWS * NUM_COLS] ==
        IF n = 0 THEN [leastDistance |-> FarAway, closestLane |-> 0]
        ELSE LET e == Spot(n - 1)
             IN  IF e \in InView(px) /\ Distance(px, e) < nearest[n - 1].leastDistance
                 THEN [leastDistance |-> Distance(px, e), closestLane |-> e[2]]
                 ELSE nearest[n - 1]
  IN  nearest[NUM_ROWS * NUM_COLS]

FindsNobody(px) == Scan(px).leastDistance = FarAway

\* From the last row of the lane up to the first enemy; index 0 if there is none.
LowestIn(lane) ==
  LET upFrom[row \in Rows] ==
        IF <<row, lane>> \in enemies THEN <<row, lane>>
        ELSE IF row = 0 THEN Spot(0) ELSE upFrom[row - 1]
  IN  upFrom[NUM_ROWS - 1]

LaneShooter(px) == LowestIn(Scan(px).closestLane)

-----------------------------------------------------------------------------
\* Wherever the player is and however the formation is shot to pieces: as long
\* as an enemy is left one is found, it is on the board, no other enemy is
\* nearer along the x axis, and none is below it in its column.  A player at
\* NaN alone is fired at by nobody, as if "no enemies are alive anyway".
AimsAtNearest ==
  \A px \in PlayerPlaces :
    LET s == LaneShooter(px)
        Gap(e) == IF px > X(e) THEN px - X(e) ELSE X(e) - px
        Below(e) == e[2] = s[2] /\ e[1] > s[1]
    IN  /\ FindsNobody(px) <=> enemies = {} \/ px = NaN
        /\ ~FindsNobody(px) => /\ s \in enemies
                               /\ \A e \in enemies : Gap(s) <= Gap(e) /\ ~Below(e)
=============================================================================
