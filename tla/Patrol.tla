------------------------------- MODULE Patrol -------------------------------
(***************************************************************************)
(* The patrol of the enemies: which way doMovement sends the formation,    *)
(* frame by frame, while enemies are shot out of it.  Game leaves out      *)
(* where the enemies are; here their x coordinates are kept.  All enemies  *)
(* get the same moves, so the place of the first column says it all,       *)
(* whether an enemy is left in that column or not.  Lengths are pixels.    *)
(***************************************************************************)
EXTENDS Integers, FiniteSets

CONSTANTS
  NUM_ROWS, NUM_COLS,
  ENEMY_WIDTH,
  LeftBound, RightBound,  \* the left edges of the bounds
  BoundWidth,
  Start,                  \* where the first column stands at first
  Reach                   \* how far a frame may move n enemies, at most

Rows == 0..(NUM_ROWS - 1)
Columns == 0..(NUM_COLS - 1)

ASSUME PatrolAssumption ==
  /\ NUM_ROWS \in Nat \ {0} /\ NUM_COLS \in Nat \ {0}
  /\ ENEMY_WIDTH \in Nat /\ BoundWidth \in Nat
  /\ LeftBound \in Int /\ RightBound \in Int /\ Start \in Int
  /\ LeftBound < Start + ENEMY_WIDTH
  /\ Start + 50 * (NUM_COLS - 1) < RightBound + BoundWidth
  /\ Reach \in [1..NUM_ROWS * NUM_COLS -> Nat]

VARIABLES
  isMovingRight,
  enemies,       \* the spots <<row, column>> with an enemy
  left,          \* the x coordinate of the first column
  step           \* what the last frame raised: "none", "down" or "lateral"

vars == <<isMovingRight, enemies, left, step>>

\* The enemies of a column are 50 pixels from those of the next.
X(e) == left + 50 * e[2]

Init ==
  /\ isMovingRight = TRUE
  /\ enemies = Rows \X Columns
  /\ left = Start
  /\ step = "none"

\* Mutant: the search for the widest enemy ends at the other side.
Hindmost(e) ==
  \A f \in enemies : IF isMovingRight THEN e[2] <= f[2] ELSE e[2] >= f[2]

\* The enemy of the widest index on the side the formation moves to.
Foremost(e) ==
  \A f \in enemies : IF isMovingRight THEN e[2] >= f[2] ELSE e[2] <= f[2]

Touches(x, bound) == x < bound + BoundWidth /\ x + ENEMY_WIDTH > bound

\* Mutant: a bound counts whichever way the formation moves.
EitherBound == \E e \in enemies : Touches(X(e), LeftBound) \/ Touches(X(e), RightBound)

AtBound ==
  \E e \in enemies :
    Foremost(e) /\ Touches(X(e), IF isMovingRight THEN RightBound ELSE LeftBound)

\* The rest of the frame: the player's bullet hits enemies of one column, and
\* cleanUpObjects takes them off the board.
Losses ==
  \E col \in Columns : \E hit \in SUBSET (enemies \cap (Rows \X {col})) :
    enemies' = enemies \ hit

\* MOVE_DOWN for every enemy, and about.
Turn ==
  /\ AtBound
  /\ isMovingRight' = ~isMovingRight
  /\ step' = "down"
  /\ Losses
  /\ UNCHANGED left

\* MOVE_LAT for every enemy: the fewer are left, the faster they go.
Sideways ==
  /\ enemies # {}
  /\ ~AtBound
  /\ \E distance \in 0..Reach[Cardinality(enemies)] :
       left' = IF isMovingRight THEN left + distance ELSE left - distance
  /\ step' = "lateral"
  /\ Losses
  /\ UNCHANGED isMovingRight

NobodyToMove ==
  /\ enemies = {}
  /\ step' = "none"
  /\ UNCHANGED <<isMovingRight, enemies, left>>

Next == Turn \/ Sideways \/ NobodyToMove

Spec == Init /\ [][Next]_vars

\* The loop runs on, and again and again a frame counts and moves somebody.
Progress == Sideways /\ left' # left
FairSpec == Spec /\ WF_vars(Next) /\ SF_vars(Progress)

-----------------------------------------------------------------------------
\* No enemy ever gets behind one of the bounds, where nothing would turn the
\* formation any more: it would leave the window, and the match could not be
\* won.  A frame may move the enemies by most of their width, and the enemy at
\* the edge may be shot in the frame of the turn.
NeverPastBounds ==
  \A e \in enemies : X(e) + ENEMY_WIDTH > LeftBound /\ X(e) < RightBound + BoundWidth

\* The formation comes down once at an edge, and then moves away: it does not
\* come down in every frame for as long as it touches the bound.
DescendsOnce == [][step = "down" => step' # "down"]_vars

\* The patrol goes on: as long as an enemy is left, the formation comes to
\* both sides again and again.
PatrolGoesOn ==
  \A bound \in {LeftBound, RightBound} :
    []<>(enemies = {} \/ \E e \in enemies : Touches(X(e), bound))
=============================================================================
