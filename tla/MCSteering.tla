----------------------------- MODULE MCSteering ------------------------------
(***************************************************************************)
(* Values for the constants of the steering: the window of the code in     *)
(* pixels, ticks of 1/20 s, so that a frame that counts is 0 or 1 tick     *)
(* long and moves the player by 0, 1, 12 or 50, and scripts of every kind. *)
(***************************************************************************)
EXTENDS Steering, TLC

Velocity(v) == [velocity |-> v, shield |-> Keep, throws |-> FALSE]
Shield(on) == [velocity |-> Keep, shield |-> on, throws |-> FALSE]
Throws == [velocity |-> Keep, shield |-> Keep, throws |-> TRUE]

\* The script of the repository; one that asks for too much outside of its
\* functions and leaves the shield alone; one that sets a velocity that is too
\* small and then throws, and lowers the shield; one with nothing but a shield
\* that fails; none.
EveryKind ==
  {[playerBehavior |-> Velocity(12), setInvincible |-> Shield(TRUE)],
   (TopLevel :> Velocity(100)) @@ [playerBehavior |-> Velocity(1)],
   [playerBehavior |-> [velocity |-> -3, shield |-> Keep, throws |-> TRUE],
    setInvincible |-> Shield(FALSE)],
   [setInvincible |-> Throws],
   Missing}

\* A script that divides zero by zero.
WithNaN == {[playerBehavior |-> Velocity(NaN)], Missing}
=============================================================================
