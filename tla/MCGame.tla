------------------------------- MODULE MCGame -------------------------------
(***************************************************************************)
(* Values for the constants of the game.                                   *)
(***************************************************************************)
EXTENDS GameProperties

\* An uninitialised timestamp as it compares with 0, with the time of the
\* frame before (2) and with the time of this frame (3): before, equal,
\* between or after.
AnyStamp == {-1, 1, 4}
LateStamp == {4}

\* The clock goes on from the frame before, or may also be set back.
LaterOnly == {3}
EarlierToo == {1, 2, 3}
=============================================================================
