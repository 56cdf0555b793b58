------------------------------ MODULE MCPatrol ------------------------------
(***************************************************************************)
(* Values for the constants of the patrol.                                 *)
(***************************************************************************)
EXTENDS Aim

\* 0.0666 s at A * B^n pixels per second, for n enemies.
FrameReach == <<33, 19, 11, 7, 4, 4>>

\* At both ends of the window, below the formation, beside it, and nowhere.
Places == {0, 75, 200, 740, NaN}
=============================================================================
