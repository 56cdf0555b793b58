------------------------------ MODULE MCFlight ------------------------------
(***************************************************************************)
(* Values for the constants of the flight: the sizes and the places of the *)
(* code, and frames whose length matters.                                  *)
(***************************************************************************)
EXTENDS Flight

Up == -1

\* The player's bullets start 45 pixels above the player, whose row is 750.
AbovePlayer == {7050}

\* A clock set back by as much as a short frame takes, no time at all, a fast
\* machine, moves just too short and just long enough to jump over the bound, the
\* longest frame that counts and the shortest that does not.
Frames == {-10, 0, 10, 309, 310, 333, 334}
=============================================================================
