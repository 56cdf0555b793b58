--------------------------- MODULE SteeringProofs ----------------------------
(***************************************************************************)
(* The proof that the player stays within reach, for every window, every   *)
(* range of velocities and every set of scripts that asks for numbers.     *)
(***************************************************************************)
EXTENDS Steering, SequenceTheorems, TLAPS

\* No script asks for a velocity that is no number.
NumbersOnly ==
  \A script \in Files : \A name \in DOMAIN script :
    script[name].velocity \in Int \cup {Keep}

\* What is called later was defined by some file.
GlobalsInv ==
  /\ file \in Files \cup {Broken}
  /\ \A name \in DOMAIN globals : globals[name].velocity \in Int \cup {Keep}

PlaceInv ==
  /\ x \in 0..RightEdge
  /\ from \in 0..RightEdge
  /\ playerVelocity \in MinVelocity..MaxVelocity
  /\ deltaT \in 0..FrameLimit
  /\ pending \subseteq {-1, 1}

\* Outside of the drain the player is where the frame found it.  In the drain
\* an event that is still pending has not moved the player yet: while left is
\* pending the player can only have gone right, and the other way round.
DrainInv ==
  /\ phase # "drain" => x = from /\ pending = {}
  /\ x - from <= playerVelocity * deltaT
  /\ from - x <= playerVelocity * deltaT
  /\ -1 \in pending => from <= x
  /\ 1 \in pending => x <= from

IInv == GlobalsInv /\ PlaceInv /\ DrainInv

-----------------------------------------------------------------------------
LEMMA ProductNat ==
  ASSUME NEW a \in Nat, NEW b \in Nat PROVE a * b \in Nat
OBVIOUS

\* How far a frame moves the player is a natural number.
LEMMA DistanceNat ==
  ASSUME PlaceInv PROVE playerVelocity * deltaT \in Nat
<1>1. playerVelocity \in Nat /\ deltaT \in Nat
  BY SteeringAssumption DEF PlaceInv
<1>2. QED
  BY <1>1, ProductNat

\* A number that a script asks for is brought within the limits.
LEMMA LimitedInRange ==
  ASSUME NEW v \in Int PROVE Limited(v) \in MinVelocity..MaxVelocity
<1>1. v # NaN
  BY SteeringAssumption
<1>2. MinVelocity \in Int /\ MaxVelocity \in Int /\ MinVelocity <= MaxVelocity
  BY SteeringAssumption
<1>3. QED
  BY <1>1, <1>2 DEF Limited

\* What any code of a script sets the velocity to is within the limits.
LEMMA SetsInRange ==
  ASSUME PlaceInv, NEW b, b.velocity \in Int \cup {Keep}, Sets(b)
  PROVE  playerVelocity' \in MinVelocity..MaxVelocity
<1>1. CASE b.velocity = Keep
  BY <1>1 DEF Sets, PlaceInv
<1>2. CASE b.velocity \in Int /\ b.velocity # Keep
  <2>1. playerVelocity' = Limited(b.velocity)
    BY <1>2 DEF Sets
  <2>2. QED
    BY <1>2, <2>1, LimitedInRange
<1>3. QED
  BY <1>1, <1>2

LEMMA EffectInRange ==
  ASSUME GlobalsInv, PlaceInv, NEW name, Effect(name)
  PROVE  playerVelocity' \in MinVelocity..MaxVelocity
<1>1. Behaviour(name).velocity \in Int \cup {Keep}
  BY DEF GlobalsInv, Behaviour, Uncallable
<1>2. QED
  BY <1>1, SetsInRange DEF Effect

LEMMA LoadInRange ==
  ASSUME NumbersOnly, GlobalsInv, PlaceInv, LoadScript
  PROVE  playerVelocity' \in MinVelocity..MaxVelocity
<1>1. file \in Files /\ Sets(OutsideFunctions(file))
  BY DEF LoadScript, Load, GlobalsInv
<1>2. OutsideFunctions(file).velocity \in Int \cup {Keep}
  BY <1>1 DEF OutsideFunctions, NumbersOnly
<1>3. QED
  BY <1>1, <1>2, SetsInRange

\* The functions of a new script replace those of the same name and join the rest.
LEMMA LoadKeepsNumbers ==
  ASSUME NumbersOnly, GlobalsInv, Load PROVE GlobalsInv'
<1>1. file \in Files /\ file' = file /\ globals' = Over(file, globals)
  BY DEF Load, Define, GlobalsInv
<1>2. ASSUME NEW name \in DOMAIN globals'
      PROVE  globals'[name].velocity \in Int \cup {Keep}
  <2>1. name \in DOMAIN file \cup DOMAIN globals
    BY <1>1, <1>2 DEF Over
  <2>2. CASE name \in DOMAIN file
    BY <1>1, <2>1, <2>2 DEF Over, NumbersOnly
  <2>3. CASE name \notin DOMAIN file
    BY <1>1, <2>1, <2>3 DEF Over, GlobalsInv
  <2>4. QED
    BY <2>2, <2>3
<1>3. QED
  BY <1>1, <1>2 DEF GlobalsInv

-----------------------------------------------------------------------------
\* Left: before it the player was not left of where the frame found it, so it
\* ends no further left than one move, put back at the edge or not.
LEMMA LeftStep ==
  ASSUME PlaceInv, DrainInv, HandleKey(-1) PROVE PlaceInv' /\ DrainInv'
<1> DEFINE d == playerVelocity * deltaT
<1>1. d \in Nat
  BY DistanceNat
<1>2. /\ phase = "drain" /\ phase' = phase /\ -1 \in pending
      /\ pending' = pending \ {-1} /\ from' = from /\ deltaT' = deltaT
      /\ playerVelocity' = playerVelocity
      /\ x' = PutBack(Moved(-1))
  BY DEF HandleKey, settings
<1>3. x \in Int /\ from \in Int /\ RightEdge \in Nat /\ playerVelocity \in Int
  BY SteeringAssumption DEF PlaceInv
<1>4. Moved(-1) = x - d
  <2>1. x # NaN /\ playerVelocity # NaN
    BY <1>3, SteeringAssumption
  <2>2. Moved(-1) = x + (-1) * d
    BY <2>1 DEF Moved
  <2>3. QED
    BY <1>1, <1>3, <2>2
<1> HIDE DEF d
<1>5. x' = IF x - d < 0 THEN 0 ELSE x - d
  <2>1. x - d \in Int /\ x - d # NaN /\ x - d <= RightEdge
    BY <1>1, <1>3, SteeringAssumption DEF PlaceInv
  <2>2. QED
    BY <1>2, <1>3, <1>4, <2>1 DEF PutBack
<1>6. from <= x /\ x - from <= d /\ (1 \in pending => x <= from)
  BY <1>2 DEF DrainInv, d
<1>7. PlaceInv'
  BY <1>1, <1>2, <1>3, <1>5 DEF PlaceInv
<1>8. /\ x' - from' <= d /\ from' - x' <= d
      /\ 1 \in pending' => x' <= from'
  BY <1>1, <1>2, <1>3, <1>5, <1>6 DEF PlaceInv
<1>9. (playerVelocity * deltaT)' = d
  BY <1>2 DEF d
<1>10. QED
  BY <1>2, <1>7, <1>8, <1>9 DEF DrainInv

\* Right: the mirror image.
LEMMA RightStep ==
  ASSUME PlaceInv, DrainInv, HandleKey(1) PROVE PlaceInv' /\ DrainInv'
<1> DEFINE d == playerVelocity * deltaT
<1>1. d \in Nat
  BY DistanceNat
<1>2. /\ phase = "drain" /\ phase' = phase /\ 1 \in pending
      /\ pending' = pending \ {1} /\ from' = from /\ deltaT' = deltaT
      /\ playerVelocity' = playerVelocity
      /\ x' = PutBack(Moved(1))
  BY DEF HandleKey, settings
<1>3. x \in Int /\ from \in Int /\ RightEdge \in Nat /\ playerVelocity \in Int
  BY SteeringAssumption DEF PlaceInv
<1>4. Moved(1) = x + d
  <2>1. x # NaN /\ playerVelocity # NaN
    BY <1>3, SteeringAssumption
  <2>2. Moved(1) = x + 1 * d
    BY <2>1 DEF Moved
  <2>3. QED
    BY <1>1, <1>3, <2>2
<1> HIDE DEF d
<1>5. x' = IF x + d > RightEdge THEN RightEdge ELSE x + d
  <2>1. x + d \in Int /\ x + d # NaN /\ x + d >= 0
    BY <1>1, <1>3, SteeringAssumption DEF PlaceInv
  <2>2. QED
    BY <1>2, <1>3, <1>4, <2>1 DEF PutBack
<1>6. x <= from /\ from - x <= d /\ (-1 \in pending => from <= x)
  BY <1>2 DEF DrainInv, d
<1>7. PlaceInv'
  BY <1>1, <1>2, <1>3, <1>5 DEF PlaceInv
<1>8. /\ x' - from' <= d /\ from' - x' <= d
      /\ -1 \in pending' => from' <= x'
  BY <1>1, <1>2, <1>3, <1>5, <1>6 DEF PlaceInv
<1>9. (playerVelocity * deltaT)' = d
  BY <1>2 DEF d
<1>10. QED
  BY <1>2, <1>7, <1>8, <1>9 DEF DrainInv

\* Where the velocity and the time may change, the player stands still.
LEMMA StandingStill ==
  ASSUME PlaceInv', phase' # "drain" \/ pending' \subseteq {-1, 1},
         x' = from', phase' # "drain" => pending' = {}
  PROVE  DrainInv'
<1>1. playerVelocity' * deltaT' \in Nat
  <2>1. playerVelocity' \in Nat /\ deltaT' \in Nat
    BY SteeringAssumption DEF PlaceInv
  <2>2. QED
    BY <2>1, ProductNat
<1>2. x' \in Int /\ from' \in Int
  BY SteeringAssumption DEF PlaceInv
<1>3. QED
  BY <1>1, <1>2 DEF DrainInv

-----------------------------------------------------------------------------
LEMMA InitInv == ASSUME Init PROVE IInv
<1>1. PlaceInv
  BY SteeringAssumption DEF Init, PlaceInv
<1>2. GlobalsInv
  BY DEF Init, ScriptInit, GlobalsInv, Missing
<1>3. playerVelocity * deltaT \in Nat
  BY <1>1, DistanceNat
<1>4. DrainInv
  BY <1>1, <1>3, SteeringAssumption DEF Init, DrainInv
<1>5. QED
  BY <1>1, <1>2, <1>4 DEF IInv

\* Every step keeps the invariant.
LEMMA StepInv ==
  ASSUME NumbersOnly, IInv, [Next]_vars PROVE IInv'
<1> USE DEF IInv
<1>1. CASE ReadClock
  <2>1. deltaT' \in 0..FrameLimit
    BY <1>1, SteeringAssumption DEF ReadClock, Counted
  <2>2. GlobalsInv' /\ PlaceInv'
    BY <1>1, <2>1 DEF ReadClock, GlobalsInv, PlaceInv, scriptVars, settings
  <2>3. phase' # "drain" /\ x' = from' /\ pending' = {}
    BY <1>1 DEF ReadClock, Go, DrainInv
  <2>4. QED
    BY <2>2, <2>3, StandingStill
<1>2. CASE LoadScript
  <2>1. GlobalsInv'
    BY <1>2, LoadKeepsNumbers DEF LoadScript
  <2>2. PlaceInv'
    BY <1>2, LoadInRange DEF LoadScript, PlaceInv, motionVars
  <2>3. phase' # "drain" /\ x' = from' /\ pending' = {}
    BY <1>2 DEF LoadScript, Go, DrainInv, motionVars
  <2>4. QED
    BY <2>1, <2>2, <2>3, StandingStill
<1>3. CASE ScriptFails
  <2>1. GlobalsInv' /\ PlaceInv'
    BY <1>3 DEF ScriptFails, GlobalsInv, PlaceInv, scriptVars, settings, motionVars
  <2>2. phase' # "drain" /\ x' = from' /\ pending' = {}
    BY <1>3 DEF ScriptFails, Go, DrainInv, motionVars
  <2>3. QED
    BY <2>1, <2>2, StandingStill
<1>4. CASE RunPlayerBehavior
  <2>1. GlobalsInv'
    BY <1>4 DEF RunPlayerBehavior, Run, GlobalsInv
  <2>2. playerVelocity' \in MinVelocity..MaxVelocity
    BY <1>4, EffectInRange DEF RunPlayerBehavior
  <2>3. PlaceInv'
    BY <1>4, <2>2 DEF RunPlayerBehavior, PlaceInv, motionVars
  <2>4. phase' # "drain" /\ x' = from' /\ pending' = {}
    BY <1>4 DEF RunPlayerBehavior, Go, DrainInv, motionVars
  <2>5. QED
    BY <2>1, <2>3, <2>4, StandingStill
<1>5. CASE RunSetInvincible
  <2>1. GlobalsInv'
    BY <1>5 DEF RunSetInvincible, Run, GlobalsInv
  <2>2. playerVelocity' \in MinVelocity..MaxVelocity
    BY <1>5, EffectInRange DEF RunSetInvincible
  <2>3. PlaceInv'
    BY <1>5, <2>2 DEF RunSetInvincible, PlaceInv, motionVars
  <2>4. phase' # "drain" /\ x' = from' /\ pending' = {}
    BY <1>5 DEF RunSetInvincible, Go, DrainInv, motionVars
  <2>5. QED
    BY <2>1, <2>3, <2>4, StandingStill
<1>6. CASE ReadInput
  <2>1. GlobalsInv' /\ PlaceInv'
    BY <1>6 DEF ReadInput, GlobalsInv, PlaceInv, scriptVars, settings
  <2>2. x' = from' /\ pending' \subseteq {-1, 1} /\ phase' = "drain"
    BY <1>6 DEF ReadInput, Go, DrainInv
  <2>3. QED
    BY <2>1, <2>2, StandingStill
<1>7. CASE \E direction \in {-1, 1} : HandleKey(direction)
  <2>1. GlobalsInv'
    BY <1>7 DEF HandleKey, GlobalsInv, scriptVars
  <2>2. HandleKey(-1) \/ HandleKey(1)
    BY <1>7
  <2>3. QED
    BY <2>1, <2>2, LeftStep, RightStep
<1>8. CASE EndFrame
  <2>1. GlobalsInv' /\ PlaceInv'
    BY <1>8 DEF EndFrame, GlobalsInv, PlaceInv, scriptVars, settings
  <2>2. phase' # "drain" /\ x' = from' /\ pending' = {}
    BY <1>8 DEF EndFrame, Go
  <2>3. QED
    BY <2>1, <2>2, StandingStill
<1>9. CASE Edit
  <2>1. GlobalsInv'
    BY <1>9 DEF Edit, EditFile, GlobalsInv
  <2>2. PlaceInv' /\ DrainInv'
    BY <1>9 DEF Edit, PlaceInv, DrainInv, settings, motionVars
  <2>3. QED
    BY <2>1, <2>2
<1>10. CASE UNCHANGED vars
  BY <1>10 DEF GlobalsInv, PlaceInv, DrainInv, vars, scriptVars, settings, motionVars
<1>11. QED
  BY <1>1, <1>2, <1>3, <1>4, <1>5, <1>6, <1>7, <1>8, <1>9, <1>10 DEF Next, Ended

\* The player stays in the window, and no frame takes it further than the
\* velocity in force allows, for every window, limits and scripts: whichever
\* keys are down and whichever event is handled first.
THEOREM WithinReach == ASSUME NumbersOnly PROVE Spec => []StaysInReach
<1>1. Init => IInv
  BY InitInv
<1>2. IInv /\ [Next]_vars => IInv'
  BY StepInv
<1>3. IInv => StaysInReach
  BY DEF IInv, PlaceInv, DrainInv, StaysInReach, InReach
<1>4. QED
  BY <1>1, <1>2, <1>3, PTL DEF Spec
-----------------------------------------------------------------------------
(***************************************************************************)
(* Types, for scripts of every kind: those that ask for what is no number  *)
(* included.                                                               *)
(***************************************************************************)
\* What a script asks for is a velocity again when it has been limited.
LEMMA LimitedIsVelocity ==
  ASSUME NEW v \in Velocities PROVE Limited(v) \in Velocities
<1>1. MinVelocity \in Int /\ MaxVelocity \in Int
  BY SteeringAssumption
<1>2. QED
  BY <1>1 DEF Limited, Velocities

LEMMA SetsKeepsTypes ==
  ASSUME TypeOK, NEW b \in Behaviours, Sets(b)
  PROVE  playerVelocity' \in Velocities /\ invincible' \in BOOLEAN
<1>1. b.velocity \in Velocities \cup {Keep} /\ b.shield \in BOOLEAN \cup {Keep}
  BY DEF Behaviours
<1>2. playerVelocity' \in Velocities
  <2>1. CASE b.velocity = Keep
    BY <2>1 DEF Sets, TypeOK
  <2>2. CASE b.velocity # Keep
    BY <1>1, <2>2, LimitedIsVelocity DEF Sets
  <2>3. QED
    BY <2>1, <2>2
<1>3. invincible' \in BOOLEAN
  BY <1>1 DEF Sets, TypeOK
<1>4. QED
  BY <1>2, <1>3

LEMMA EffectKeepsTypes ==
  ASSUME TypeOK, NEW name, Effect(name)
  PROVE  playerVelocity' \in Velocities /\ invincible' \in BOOLEAN
<1>1. Behaviour(name) \in Behaviours
  BY DEF TypeOK, Behaviour, Uncallable, Behaviours
<1>2. QED
  BY <1>1, SetsKeepsTypes DEF Effect

LEMMA LoadSetsTypes ==
  ASSUME TypeOK, LoadScript
  PROVE  playerVelocity' \in Velocities /\ invincible' \in BOOLEAN
<1>1. file \in Files /\ Sets(OutsideFunctions(file))
  BY DEF LoadScript, Load, TypeOK
<1>2. OutsideFunctions(file) \in Behaviours
  BY <1>1, FilesAssumption DEF OutsideFunctions, Behaviours
<1>3. QED
  BY <1>1, <1>2, SetsKeepsTypes

\* A key moves the player to a place, or nowhere that is a number.
LEMMA KeyKeepsTypes ==
  ASSUME TypeOK, NEW direction \in {-1, 1}, HandleKey(direction) PROVE x' \in Velocities
<1>1. deltaT \in Int /\ RightEdge \in Int
  BY SteeringAssumption DEF TypeOK
<1>2. Moved(direction) \in Velocities
  <2>1. CASE x = NaN \/ playerVelocity = NaN
    BY <2>1 DEF Moved, Velocities
  <2>2. CASE ~(x = NaN \/ playerVelocity = NaN)
    <3>1. x \in Int /\ playerVelocity \in Int
      BY <2>2 DEF TypeOK, Velocities
    <3>2. playerVelocity * deltaT \in Int
      BY <1>1, <3>1
    <3>3. QED
      BY <2>2, <3>1, <3>2 DEF Moved, Velocities
  <2>3. QED
    BY <2>1, <2>2
<1>3. QED
  BY <1>1, <1>2 DEF HandleKey, PutBack, Velocities

\* The functions of the new script and those that stay are functions.
LEMMA LoadKeepsTypes ==
  ASSUME TypeOK, Load
  PROVE  \A name \in DOMAIN globals' : globals'[name] \in Behaviours
<1>1. file \in Files /\ globals' = Over(file, globals)
  BY DEF Load, Define, TypeOK
<1>2. SUFFICES ASSUME NEW name \in DOMAIN globals' PROVE globals'[name] \in Behaviours
  OBVIOUS
<1>3. name \in DOMAIN file \cup DOMAIN globals
  BY <1>1 DEF Over
<1>4. CASE name \in DOMAIN file
  BY <1>1, <1>3, <1>4, FilesAssumption DEF Over
<1>5. CASE name \notin DOMAIN file
  BY <1>1, <1>3, <1>5 DEF Over, TypeOK
<1>6. QED
  BY <1>4, <1>5

LEMMA TypeInit == ASSUME Init PROVE TypeOK
<1>1. /\ deltaT \in 0..FrameLimit /\ StartX \in Int /\ DefaultVelocity \in Int
  BY SteeringAssumption DEF Init
<1>2. DOMAIN globals = {}
  BY DEF Init, ScriptInit, Missing
<1>3. QED
  BY <1>1, <1>2 DEF Init, ScriptInit, TypeOK, Velocities, Phases

LEMMA TypeNext == ASSUME TypeOK, [Next]_vars PROVE TypeOK'
<1>1. CASE ReadClock
  <2>1. deltaT' \in 0..FrameLimit
    BY <1>1, SteeringAssumption DEF ReadClock, Counted
  <2>2. QED
    BY <1>1, <2>1 DEF ReadClock, Go, TypeOK, Phases, scriptVars, settings
<1>2. CASE LoadScript
  <2>1. \A name \in DOMAIN globals' : globals'[name] \in Behaviours
    BY <1>2, LoadKeepsTypes DEF LoadScript
  <2>2. /\ file' \in Files \cup {Broken} /\ loaded' \in Files \cup {Missing}
        /\ scriptLoaded' \in BOOLEAN /\ phase' \in Phases
    BY <1>2 DEF LoadScript, Load, Go, TypeOK, Phases
  <2>3. QED
    BY <1>2, <2>1, <2>2, LoadSetsTypes DEF LoadScript, TypeOK, motionVars
<1>3. CASE ScriptFails
  BY <1>3 DEF ScriptFails, Go, TypeOK, Phases, scriptVars, settings, motionVars
<1>4. CASE RunPlayerBehavior
  <2>1. playerVelocity' \in Velocities /\ invincible' \in BOOLEAN
    BY <1>4, EffectKeepsTypes DEF RunPlayerBehavior
  <2>2. QED
    BY <1>4, <2>1 DEF RunPlayerBehavior, Run, Go, TypeOK, Phases, motionVars
<1>5. CASE RunSetInvincible
  <2>1. playerVelocity' \in Velocities /\ invincible' \in BOOLEAN
    BY <1>5, EffectKeepsTypes DEF RunSetInvincible
  <2>2. QED
    BY <1>5, <2>1 DEF RunSetInvincible, Run, Go, TypeOK, Phases, motionVars
<1>6. CASE ReadInput
  BY <1>6 DEF ReadInput, Go, TypeOK, Phases, scriptVars, settings
<1>7. CASE \E direction \in {-1, 1} : HandleKey(direction)
  <2>1. x' \in Velocities
    BY <1>7, KeyKeepsTypes
  <2>2. QED
    BY <1>7, <2>1 DEF HandleKey, TypeOK, scriptVars, settings
<1>8. CASE EndFrame
  BY <1>8 DEF EndFrame, Go, TypeOK, Phases, scriptVars, settings
<1>9. CASE Edit
  BY <1>9 DEF Edit, EditFile, TypeOK, settings, motionVars
<1>10. CASE UNCHANGED vars
  BY <1>10 DEF TypeOK, vars, scriptVars, settings, motionVars
<1>11. QED
  BY <1>1, <1>2, <1>3, <1>4, <1>5, <1>6, <1>7, <1>8, <1>9, <1>10 DEF Next, Ended

\* Every variable keeps its type, with scripts that ask for NaN as well.
THEOREM SteeringTypes == Spec => []TypeOK
<1>1. QED
  BY TypeInit, TypeNext, PTL DEF Spec

-----------------------------------------------------------------------------
(***************************************************************************)
(* The value stack.  A call takes off what it put on: the function, its    *)
(* arguments and the result.                                               *)
(***************************************************************************)
Kinds == {"global", "function", "argument", "result"}

\* What is pushed on top of s can be taken off again, be it much or little.
LEMMA BelowStays ==
  ASSUME NEW S, NEW s \in Seq(S), NEW t \in Seq(S) PROVE SubSeq(s \o t, 1, Len(s)) = s
<1>1. Len(s) \in Nat /\ Len(t) \in Nat /\ \A i \in 1..Len(s) : (s \o t)[i] = s[i]
  BY LenProperties, ConcatProperties
<1>2. \A i \in 1..Len(s) : (s \o t)[i] \in S
  BY <1>1, ElementOfSeq
<1>3. /\ SubSeq(s \o t, 1, Len(s)) \in Seq(S)
      /\ Len(SubSeq(s \o t, 1, Len(s))) = Len(s)
      /\ \A i \in 1..Len(s) : SubSeq(s \o t, 1, Len(s))[i] = (s \o t)[i]
  BY <1>1, <1>2, SubSeqProperties
<1>4. QED
  BY <1>1, <1>3, SeqEqual

LEMMA PopAppended ==
  ASSUME NEW S, NEW s \in Seq(S), NEW e \in S PROVE Pop(Append(s, e)) = s
<1>1. Append(s, e) = s \o <<e>> /\ Len(Append(s, e)) - 1 = Len(s) /\ <<e>> \in Seq(S)
  BY AppendIsConcat, AppendProperties, LenProperties
<1>2. QED
  BY <1>1, BelowStays DEF Pop

LEMMA LoadKeepsStack == ASSUME TypeOK, StackBalanced, Load PROVE StackBalanced'
<1> DEFINE below == IF scriptLoaded THEN Pop(stack) ELSE stack
<1>1. <<>> \in Seq(Kinds) /\ Append(<<>>, "global") = <<"global">>
      /\ "global" \in Kinds /\ "result" \in Kinds
  BY DEF Kinds
<1>2. below = <<>>
  BY <1>1, PopAppended DEF StackBalanced
<1>3. Pop(Append(below, "result")) = <<>>
  BY <1>1, <1>2, PopAppended
<1>4. stack' = Append(Pop(Append(below, "result")), "global") /\ scriptLoaded'
  BY DEF Load
<1>5. QED
  BY <1>1, <1>3, <1>4 DEF StackBalanced

\* A call that gets as many arguments as it is told leaves the stack as it was.
LEMMA RunKeepsStack ==
  ASSUME NEW name, NEW type, NEW count \in Nat, stack \in Seq(Kinds),
         Pushed(type, count) \in Seq(Kinds), Len(Pushed(type, count)) = count,
         Run(name, type, count)
  PROVE  stack' = stack
<1> DEFINE called == Append(stack, "function") \o Pushed(type, count)
           above == <<"function">> \o Pushed(type, count)
           returned == Append(SubSeq(called, 1, Len(called) - count - 1), "result")
<1>1. "function" \in Kinds /\ "result" \in Kinds /\ <<"function">> \in Seq(Kinds)
      /\ Len(<<"function">>) = 1
  BY DEF Kinds
<1>2. above \in Seq(Kinds) /\ Len(above) = count + 1
  BY <1>1, ConcatProperties
<1>3. called = stack \o above
  BY <1>1, AppendIsConcat, ConcatAssociative
<1>4. Len(called) - count - 1 = Len(stack)
  <2>1. Len(stack \o above) = Len(stack) + Len(above) /\ Len(stack) \in Nat
    <3> HIDE DEF above
    <3>1. QED
      BY <1>2, ConcatProperties, LenProperties
  <2>2. Len(called) = Len(stack) + (count + 1)
    <3> HIDE DEF above, called
    <3>1. QED
      BY <1>2, <1>3, <2>1
  <2>3. QED
    <3> HIDE DEF called
    <3>1. QED
      BY <2>1, <2>2
<1>5. SubSeq(called, 1, Len(called) - count - 1) = stack
  BY <1>2, <1>3, <1>4, BelowStays
<1>6. Pop(returned) = stack
  BY <1>1, <1>5, PopAppended
<1>7. stack' = Pop(returned)
  BY DEF Run, DropResult
<1>8. QED
  BY <1>6, <1>7

\* The two calls of a frame, with the arguments they get.
LEMMA CallsKeepStack ==
  ASSUME StackBalanced, RunPlayerBehavior \/ RunSetInvincible PROVE StackBalanced'
<1>1. stack \in Seq(Kinds)
  <2>1. "global" \in Kinds
    BY DEF Kinds
  <2>2. QED
    BY <2>1 DEF StackBalanced
<1>2. scriptLoaded' = scriptLoaded
  BY DEF RunPlayerBehavior, RunSetInvincible, Run
<1>3. CASE RunPlayerBehavior
  <2>1. Pushed("velocityChange", 0) = <<>>
    <3>1. Pushed("velocityChange", 0) = [i \in 1..0 |-> "argument"]
      BY DEF Pushed
    <3>2. [i \in 1..0 |-> "argument"] = <<>>
      OBVIOUS
    <3>3. QED
      BY <3>1, <3>2
  <2>2. QED
    BY <1>1, <1>2, <1>3, <2>1, EmptySeq, RunKeepsStack DEF RunPlayerBehavior, StackBalanced
<1>4. CASE RunSetInvincible
  <2>1. Pushed("invincible", 1) = <<"argument">>
    BY DEF Pushed
  <2>2. <<"argument">> \in Seq(Kinds) /\ Len(<<"argument">>) = 1
    BY DEF Kinds
  <2>3. QED
    BY <1>1, <1>2, <1>4, <2>1, <2>2, RunKeepsStack DEF RunSetInvincible, StackBalanced
<1>5. QED
  BY <1>3, <1>4

\* The stack of the interpreter is the same from frame to frame, whatever the
\* scripts do: none of its calls pops what another one pushed.
THEOREM StackKept == Spec => []StackBalanced
<1>1. Init => StackBalanced
  BY DEF Init, ScriptInit, StackBalanced
<1>2. ASSUME TypeOK, StackBalanced, [Next]_vars PROVE StackBalanced'
  <2>1. CASE LoadScript
    BY <1>2, <2>1, LoadKeepsStack DEF LoadScript
  <2>2. CASE RunPlayerBehavior \/ RunSetInvincible
    BY <1>2, <2>2, CallsKeepStack
  <2>3. CASE \/ ReadClock \/ ScriptFails \/ ReadInput \/ EndFrame \/ Edit
             \/ (\E direction \in {-1, 1} : HandleKey(direction)) \/ UNCHANGED vars
    <3>1. UNCHANGED <<stack, scriptLoaded>>
      BY <2>3 DEF ReadClock, ScriptFails, ReadInput, EndFrame, Edit, EditFile,
         HandleKey, vars, scriptVars
    <3>2. QED
      BY <1>2, <3>1 DEF StackBalanced
  <2>4. QED
    BY <1>2, <2>1, <2>2, <2>3 DEF Next, Ended
<1>3. QED
  BY <1>1, <1>2, SteeringTypes, PTL DEF Spec

-----------------------------------------------------------------------------
(***************************************************************************)
(* The settings of the frame.  A script whose setInvincible sets the       *)
(* velocity as well would have the last word on it.                        *)
(***************************************************************************)
ShieldOnly ==
  \A script \in Files :
    "setInvincible" \in DOMAIN script => script["setInvincible"].velocity = Keep

VelocitySet ==
  "playerBehavior" \in DOMAIN loaded /\ loaded["playerBehavior"].velocity # Keep
    => playerVelocity = Limited(loaded["playerBehavior"].velocity)

ShieldSet ==
  "setInvincible" \in DOMAIN loaded /\ loaded["setInvincible"].shield # Keep
    => invincible = loaded["setInvincible"].shield

\* Between the load and the end of the scripts the functions that are called
\* are those of the file that was loaded, and the settings follow them.
SettingsInv ==
  /\ phase \in {"behavior", "shield"} =>
       \A name \in DOMAIN loaded : name \in DOMAIN globals /\ globals[name] = loaded[name]
  /\ "setInvincible" \in DOMAIN globals => globals["setInvincible"].velocity = Keep
  /\ phase \in {"shield", "input"} => VelocitySet
  /\ phase = "input" => ShieldSet

LEMMA LoadKeepsSettings ==
  ASSUME ShieldOnly, TypeOK, SettingsInv, LoadScript PROVE SettingsInv'
<1>1. /\ file \in Files /\ loaded' = file /\ globals' = Over(file, globals)
      /\ phase' = "behavior"
  BY DEF LoadScript, Load, Define, TypeOK, Go
<1>2. \A name \in DOMAIN file : name \in DOMAIN globals' /\ globals'[name] = file[name]
  BY <1>1 DEF Over
<1>3. "setInvincible" \in DOMAIN globals' => globals'["setInvincible"].velocity = Keep
  <2>1. CASE "setInvincible" \in DOMAIN file
    BY <1>1, <1>2, <2>1 DEF ShieldOnly
  <2>2. CASE "setInvincible" \notin DOMAIN file
    BY <1>1, <2>2 DEF Over, SettingsInv
  <2>3. QED
    BY <2>1, <2>2
<1>4. QED
  BY <1>1, <1>2, <1>3 DEF SettingsInv

LEMMA BehaviorKeepsSettings ==
  ASSUME SettingsInv, RunPlayerBehavior PROVE SettingsInv'
<1>1. /\ phase = "behavior" /\ phase' = "shield"
      /\ UNCHANGED <<loaded, globals>> /\ Effect("playerBehavior")
  BY DEF RunPlayerBehavior, Go, Run
<1>2. VelocitySet'
  <2>1. SUFFICES ASSUME "playerBehavior" \in DOMAIN loaded,
                        loaded["playerBehavior"].velocity # Keep
                 PROVE  playerVelocity' = Limited(loaded["playerBehavior"].velocity)
    BY <1>1 DEF VelocitySet
  <2>2. Behaviour("playerBehavior") = loaded["playerBehavior"]
    BY <1>1, <2>1 DEF SettingsInv, Behaviour
  <2>3. QED
    BY <1>1, <2>1, <2>2 DEF Effect, Sets
<1>3. QED
  BY <1>1, <1>2 DEF SettingsInv

LEMMA ShieldKeepsSettings ==
  ASSUME SettingsInv, RunSetInvincible PROVE SettingsInv'
<1>1. /\ phase = "shield" /\ phase' = "input"
      /\ UNCHANGED <<loaded, globals>> /\ Effect("setInvincible")
  BY DEF RunSetInvincible, Go, Run
<1>2. ShieldSet'
  <2>1. SUFFICES ASSUME "setInvincible" \in DOMAIN loaded,
                        loaded["setInvincible"].shield # Keep
                 PROVE  invincible' = loaded["setInvincible"].shield
    BY <1>1 DEF ShieldSet
  <2>2. Behaviour("setInvincible") = loaded["setInvincible"]
    BY <1>1, <2>1 DEF SettingsInv, Behaviour
  <2>3. QED
    BY <1>1, <2>1, <2>2 DEF Effect, Sets
<1>3. VelocitySet'
  <2>1. Behaviour("setInvincible").velocity = Keep
    BY DEF SettingsInv, Behaviour, Uncallable
  <2>2. playerVelocity' = playerVelocity
    BY <1>1, <2>1 DEF Effect, Sets
  <2>3. QED
    BY <1>1, <2>2 DEF SettingsInv, VelocitySet
<1>4. QED
  BY <1>1, <1>2, <1>3 DEF SettingsInv

\* After the frame's scripts have run, velocity and shield are what the file
\* says that was loaded in this frame, whatever earlier files defined, whichever
\* function threw and however often the file is edited.
THEOREM ScriptsFollowed == ASSUME ShieldOnly PROVE Spec => []FollowsScript
<1>1. Init => SettingsInv
  BY DEF Init, ScriptInit, Missing, SettingsInv
<1>2. ASSUME TypeOK, SettingsInv, [Next]_vars PROVE SettingsInv'
  <2>1. CASE LoadScript
    BY <1>2, <2>1, LoadKeepsSettings
  <2>2. CASE RunPlayerBehavior \/ RunSetInvincible
    BY <1>2, <2>2, BehaviorKeepsSettings, ShieldKeepsSettings
  <2>3. CASE Edit \/ UNCHANGED vars
    <3>1. UNCHANGED <<loaded, globals, settings, phase>>
      BY <2>3 DEF Edit, EditFile, vars, scriptVars
    <3>2. QED
      BY <1>2, <3>1 DEF SettingsInv, VelocitySet, ShieldSet, settings
  <2>4. CASE \/ ReadClock \/ ScriptFails \/ ReadInput \/ EndFrame
             \/ \E direction \in {-1, 1} : HandleKey(direction)
    <3>1. globals' = globals /\ phase' \notin {"behavior", "shield", "input"}
      BY <2>4 DEF ReadClock, ScriptFails, ReadInput, EndFrame, HandleKey, Go, scriptVars
    <3>2. QED
      BY <1>2, <3>1 DEF SettingsInv
  <2>5. QED
    BY <1>2, <2>1, <2>2, <2>3, <2>4 DEF Next, Ended
<1>3. SettingsInv => FollowsScript
  BY DEF SettingsInv, VelocitySet, ShieldSet, FollowsScript
<1>4. QED
  BY <1>1, <1>2, <1>3, SteeringTypes, PTL DEF Spec
=============================================================================
