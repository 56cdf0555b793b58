---------------------------- MODULE FlightProofs ----------------------------
(***************************************************************************)
(* What holds of a bullet and its bound for all sizes, both directions and *)
(* every limit of the frames: a bullet escapes only by a jump at least as  *)
(* long as bullet and bound together, and an escaped one is lost for ever. *)
(***************************************************************************)
EXTENDS Flight, TLAPS

\* A move from clear of the bound on the near side to clear of it on the far
\* side is as long as the bullet and the bound together.
LEMMA LongMove ==
  ASSUME NEW top \in Int, NEW step \in Nat,
         ~Past(top), ~Touches(top), Past(top + Direction * step)
  PROVE  step >= Height + BoundHeight
  <1>1. CASE Direction = -1
    <2>1. top >= BoundTop + BoundHeight
      BY <1>1, FlightAssumption DEF Past, Touches
    <2>2. top + Direction * step = top - step
      BY <1>1
    <2>3. top - step + Height <= BoundTop
      BY <1>1, <2>2 DEF Past
    <2> QED BY <2>1, <2>3, FlightAssumption
  <1>2. CASE Direction = 1
    <2>1. top + Height <= BoundTop
      BY <1>2, FlightAssumption DEF Past, Touches
    <2>2. top + Direction * step = top + step
      BY <1>2
    <2>3. top + step >= BoundTop + BoundHeight
      BY <1>2, <2>2, FlightAssumption DEF Past
    <2> QED BY <2>1, <2>3, FlightAssumption
  <1> QED BY <1>1, <1>2, FlightAssumption

LEMMA FlightInit == Init => FlightInv
  <1> SUFFICES ASSUME Init PROVE FlightInv
    OBVIOUS
  <1>1. y \in Int /\ deltaT \in 0..FrameLimit
    BY FlightAssumption DEF Init
  <1>2. fired \in BOOLEAN /\ hit \in BOOLEAN /\ ~fired /\ ~hit
    BY DEF Init
  <1>3. phase = "input" /\ bullet = "none"
    BY DEF Init
  <1> QED BY <1>1, <1>2, <1>3 DEF FlightInv, TypeOK, Escaped

LEMMA FlightNext ==
  ASSUME FlightInv, [Next]_vars
  PROVE  FlightInv'
  <1> USE DEF FlightInv, TypeOK, Escaped
  <1>1. CASE BeginFrame
    <2>1. deltaT' \in 0..FrameLimit
      BY <1>1, FlightAssumption DEF BeginFrame, Clamped
    <2>2. fired' \in BOOLEAN /\ (fired' => bullet = "none")
      BY <1>1 DEF BeginFrame
    <2> QED BY <1>1, <2>1, <2>2 DEF BeginFrame, Past
  <1>2. CASE Collide
    <2>1. hit' \in BOOLEAN
      BY <1>2 DEF Collide
    <2>2. bullet = "flying" /\ ~hit' => ~Touches(y)
      BY <1>2 DEF Collide
    <2>3. Past(y) => ~hit'
      BY <1>2 DEF Collide
    <2> QED BY <1>2, <2>1, <2>2, <2>3 DEF Collide, Touches, Past
  <1>3. CASE Drain
    <2>1. CASE fired
      BY <1>3, <2>1, FlightAssumption DEF Drain
    <2>2. CASE ~fired
      <3>1. Moved \in Int
        BY FlightAssumption DEF Moved
      <3>2. y' \in Int
        BY <1>3, <2>2, <3>1 DEF Drain
      <3> QED BY <1>3, <2>2, <3>2 DEF Drain
    <2> QED BY <2>1, <2>2
  <1>4. CASE CleanUp
    BY <1>4 DEF CleanUp, Past
  <1>5. CASE UNCHANGED vars
    BY <1>5 DEF vars, Touches, Past
  <1> QED BY <1>1, <1>2, <1>3, <1>4, <1>5 DEF Next

\* The phases of a frame hand on what FlightInv says, whatever the sizes and the
\* limit: a bullet about to move is clear of the bound or has been hit, and a
\* shot is only pending for a free slot.
THEOREM FlightInductive == Spec => []FlightInv
  <1>1. FlightInv /\ [Next]_vars => FlightInv'
    BY FlightNext
  <1> QED BY FlightInit, <1>1, PTL DEF Spec

-----------------------------------------------------------------------------
LEMMA EscapeStep ==
  ASSUME FlightInv, Next, Escape
  PROVE  deltaT >= Height + BoundHeight /\ ~Touches(y)
  <1>1. bullet = "flying" /\ ~Past(y) /\ bullet' = "flying" /\ Past(y')
    BY DEF Escape, Escaped, Past
  <1>2. Drain
    <2>1. y' # y
      BY <1>1
    <2> QED BY <2>1 DEF Next, BeginFrame, Collide, CleanUp
  <1>3. ~fired /\ ~hit /\ phase = "drain"
    BY <1>1, <1>2 DEF Drain, FlightInv
  <1>4. ~Touches(y)
    BY <1>1, <1>3 DEF FlightInv
  <1>5. y' = y + Direction * deltaT
    BY <1>1, <1>2, <1>3 DEF Drain, Moved
  <1>6. y \in Int /\ deltaT \in Nat
    BY FlightAssumption DEF FlightInv, TypeOK
  <1> QED BY <1>1, <1>4, <1>5, <1>6, LongMove

\* However the lengths of the frames vary, a bullet gets behind its bound only by
\* one move as long as bullet and bound together, and never out of the bound.
THEOREM EscapesByJump == Spec => OnlyJumpsEscape
  <1>1. FlightInv /\ [Next]_vars
          => [Escape => deltaT >= Height + BoundHeight /\ ~Touches(y)]_vars
    BY EscapeStep
  <1> QED BY FlightInductive, <1>1, PTL DEF Spec, OnlyJumpsEscape

LEMMA EscapedStep ==
  ASSUME FlightInv, [Next]_vars, Escaped
  PROVE  Escaped'
  <1>1. bullet = "flying" /\ Past(y) /\ ~hit /\ ~fired
    BY DEF FlightInv, Escaped
  <1>2. bullet' = "flying" /\ y' = y
    BY <1>1 DEF Next, BeginFrame, Collide, Drain, Moved, CleanUp, vars
  <1> QED BY <1>1, <1>2 DEF Escaped, Past

\* A bullet behind its bound is never destroyed: its slot is taken for the rest
\* of the match, and whoever fired it never fires from that slot again.
THEOREM EscapedForEver == Spec => [](Escaped => []Escaped)
  <1>1. FlightInv /\ Escaped /\ [Next]_vars => Escaped'
    BY EscapedStep
  <1> QED BY FlightInductive, <1>1, PTL DEF Spec
=============================================================================
